-------------------------- MODULE FavouriteSetProofs --------------------------
(***************************************************************************)
(* Catalog implements FavouriteSet: what the user has as favourites is a   *)
(* set that only taps change, but for the items the stored catalogue has   *)
(* lost and the taps a restart forgets.                                    *)
(***************************************************************************)
EXTENDS FavouriteProofs

(* The state of FavouriteSet, in that of Catalog.                          *)
UserFavs == {a \in Alias : IF Loaded THEN Favourite(a) ELSE rows[a] = "fav"}
NoRow == {a \in Alias : rows[a] = "absent"}
Waiting == {a \in Alias : HasPut(queue, a)}
Nothing == UserFavs' = UserFavs /\ tainted' = tainted /\ NoRow' = NoRow /\ Waiting' = Waiting

(* The steps of FavouriteSet, in those terms.                              *)
LEMMA AbstractSteps ==
  /\ Nothing => Favourites!vars' = Favourites!vars
  /\ \A a \in Alias :
       /\ a \in UserFavs' => a \notin UserFavs \/ a \in tainted'
       /\ \A b \in Alias \ (tainted' \cup {a}) : b \in UserFavs' <=> b \in UserFavs
       /\ tainted' \in {tainted, tainted \cup {a}}
       /\ Waiting' = Waiting \cup {a} /\ NoRow' = NoRow
       => Favourites!Tap(a)
  /\ \A a \in Waiting :
       /\ \A b \in Alias \ tainted : b \in UserFavs' <=> b \in UserFavs
       /\ NoRow' = NoRow \ {a} /\ Waiting' \in {Waiting, Waiting \ {a}}
       /\ tainted' = tainted
       => Favourites!Store(a)
  /\ /\ tainted \subseteq tainted' /\ tainted' \subseteq tainted \cup (NoRow' \ NoRow)
     /\ \A b \in Alias \ tainted' : b \in UserFavs' <=> b \in UserFavs
     /\ Waiting' = Waiting
     => Favourites!Replace
  /\ /\ \A b \in Alias \ tainted : b \in UserFavs' <=> b \in UserFavs \ NoRow
     /\ tainted' = tainted /\ NoRow' = NoRow /\ Waiting' = Waiting
     => Favourites!Reload
  /\ /\ \A b \in Alias \ (tainted \cup Waiting) : b \in UserFavs' <=> b \in UserFavs \ NoRow
     /\ UserFavs' \cap NoRow = {}
     /\ tainted' = {} /\ Waiting' = {} /\ NoRow' = NoRow
     => Favourites!Restart
<1> USE DEF UserFavs, NoRow, Waiting, Nothing, HasPut, IsPut
<1>1. Nothing => Favourites!vars' = Favourites!vars
  BY DEF Favourites!vars
<1>2. ASSUME NEW a \in Alias,
             /\ a \in UserFavs' => a \notin UserFavs \/ a \in tainted'
             /\ \A b \in Alias \ (tainted' \cup {a}) : b \in UserFavs' <=> b \in UserFavs
             /\ tainted' \in {tainted, tainted \cup {a}}
             /\ Waiting' = Waiting \cup {a} /\ NoRow' = NoRow
      PROVE  Favourites!Tap(a)
  BY <1>2 DEF Favourites!Tap, Favourites!Kept
<1>3. ASSUME NEW a \in Waiting,
             /\ \A b \in Alias \ tainted : b \in UserFavs' <=> b \in UserFavs
             /\ NoRow' = NoRow \ {a} /\ Waiting' \in {Waiting, Waiting \ {a}}
             /\ tainted' = tainted
      PROVE  Favourites!Store(a)
  BY <1>3 DEF Favourites!Store, Favourites!Kept
<1>4. /\ tainted \subseteq tainted' /\ tainted' \subseteq tainted \cup (NoRow' \ NoRow)
      /\ \A b \in Alias \ tainted' : b \in UserFavs' <=> b \in UserFavs
      /\ Waiting' = Waiting
      => Favourites!Replace
  BY DEF Favourites!Replace, Favourites!Kept
<1>5. /\ \A b \in Alias \ tainted : b \in UserFavs' <=> b \in UserFavs \ NoRow
      /\ tainted' = tainted /\ NoRow' = NoRow /\ Waiting' = Waiting
      => Favourites!Reload
  BY DEF Favourites!Reload, Favourites!Read
<1>6. /\ \A b \in Alias \ (tainted \cup Waiting) : b \in UserFavs' <=> b \in UserFavs \ NoRow
      /\ UserFavs' \cap NoRow = {}
      /\ tainted' = {} /\ Waiting' = {} /\ NoRow' = NoRow
      => Favourites!Restart
  BY DEF Favourites!Restart, Favourites!Read
<1> QED BY <1>1, <1>2, <1>3, <1>4, <1>5, <1>6

(* A step of a call that leaves favorites, the rows and the puts alone.    *)
LEMMA NothingMoves ==
  ASSUME favorites' = favorites, rows' = rows, tainted' = tainted, Loaded' <=> Loaded,
         \A a \in Alias : HasPut(queue', a) <=> HasPut(queue, a)
  PROVE  Nothing
<1>1. \A a \in Alias : Favourite(a)' = Favourite(a)
  BY DEF Favourite
<1>2. UserFavs' = UserFavs
  BY <1>1 DEF UserFavs
<1> QED BY <1>2 DEF Nothing, NoRow, Waiting

(* The queries other than that of favorites, the chart and the failure.    *)
LEMMA QueryStep ==
  ASSUME FavInv, NEW c \in Call,
         \/ ChartReply(c) \/ CatsReplyNone(c) \/ CatsReplySome(c)
         \/ GroupsReply(c) \/ ItemsReply(c) \/ NetFail(c)
  PROVE  Nothing
<1> USE FavParts
<1> DEFINE Told == {"cats", "groups", "items", "net", "done", "failed"}
<1>1. /\ favorites' = favorites /\ rows' = rows /\ tainted' = tainted
      /\ began' = began /\ captured' = captured
      /\ \A d \in Call : d # c => call'[d] = call[d]
      /\ call'[c].pc \in Told <=> call[c].pc \in Told
      /\ \/ queue' = queue /\ call[c].pc \notin Reads /\ call'[c].pc \notin Reads
         \/ /\ call[c].pc \notin Reads
            /\ \E k \in Reads : call'[c].pc = k /\ queue' = Append(queue, [kind |-> k, call |-> c])
         \/ /\ queue # <<>> /\ IsRead(Head(queue)) /\ Head(queue).call = c
            /\ \/ queue' = Tail(queue) /\ call'[c].pc \notin Reads
               \/ \E k \in Reads : call'[c].pc = k /\ queue' = Append(Tail(queue), [kind |-> k, call |-> c])
  <2>1. CASE ChartReply(c)
    BY <2>1 DEF ChartReply, Ask, disk, history, At, TypeOK, Progress, Reads
  <2>2. CASE NetFail(c)
    BY <2>2 DEF NetFail, db, disk, history, At, TypeOK, Progress, Reads
  <2>3. ASSUME NEW k \in {"cats", "groups", "items"}, Answered(k, c)
        PROVE  /\ queue # <<>> /\ IsRead(Head(queue)) /\ Head(queue).call = c /\ call[c].pc = k
               /\ began' = began /\ captured' = captured /\ rows' = rows /\ tainted' = tainted
    BY <2>3, AnsweredHead DEF Reads
  <2>4. CASE CatsReplyNone(c)
    <3>1. Answered("cats", c) /\ call'[c].pc = "net" /\ queue' = Tail(queue) /\ favorites' = favorites
          /\ \A d \in Call : d # c => call'[d] = call[d]
      BY <2>4 DEF CatsReplyNone, TypeOK, Progress
    <3> QED BY <2>3, <3>1 DEF Reads
  <2>5. CASE CatsReplySome(c)
    <3>1. Answered("cats", c) /\ call'[c].pc = "groups" /\ favorites' = favorites
          /\ queue' = Append(Tail(queue), [kind |-> "groups", call |-> c])
          /\ \A d \in Call : d # c => call'[d] = call[d]
      BY <2>5 DEF CatsReplySome, ThenAsk, TypeOK, Progress
    <3> QED BY <2>3, <3>1 DEF Reads
  <2>6. CASE GroupsReply(c)
    <3>1. Answered("groups", c) /\ call'[c].pc = "items" /\ favorites' = favorites
          /\ queue' = Append(Tail(queue), [kind |-> "items", call |-> c])
          /\ \A d \in Call : d # c => call'[d] = call[d]
      BY <2>6 DEF GroupsReply, ThenAsk, TypeOK, Progress
    <3> QED BY <2>3, <3>1 DEF Reads
  <2>7. CASE ItemsReply(c)
    <3>1. Answered("items", c) /\ call'[c].pc = "net" /\ queue' = Tail(queue) /\ favorites' = favorites
          /\ \A d \in Call : d # c => call'[d] = call[d]
      BY <2>7 DEF ItemsReply, TypeOK, Progress
    <3> QED BY <2>3, <3>1 DEF Reads
  <2> QED BY <2>1, <2>2, <2>4, <2>5, <2>6, <2>7
<1>2. CallMove(c)
  BY <1>1 DEF CallMove
<1>3. \A a \in Alias : HasPut(queue', a) <=> HasPut(queue, a)
  BY <1>2, CallMoves, ReadMoves
<1>4. Loaded' <=> Loaded
  BY <1>1, Moved
<1> QED BY <1>1, <1>3, <1>4, NothingMoves

(* The answer of the server queues no tap.                                 *)
LEMMA AnswerStep ==
  ASSUME FavInv, NEW c \in Call, NetReply(c)
  PROVE  Nothing
<1> USE FavParts
<1> DEFINE pa == [kind |-> "putAll", call |-> c]
           ra == [kind |-> "replaceAll", call |-> c]
<1>1. /\ call[c].pc = "net" /\ call'[c].pc = "done" /\ \A d \in Call : d # c => call'[d] = call[d]
      /\ rows' = rows /\ tainted' = tainted /\ favorites' = favorites
      /\ queue' = queue \o <<pa, ra>>
  BY DEF NetReply, WriteBack, disk, history, At, TypeOK, Progress
<1>2. pa \in Op /\ ra \in Op /\ \A a : ~IsPut(pa, a) /\ ~IsPut(ra, a)
  BY OpTypes DEF IsPut
<1> HIDE DEF pa, ra
<1>3. queue' = Append(Append(queue, pa), ra) /\ Append(queue, pa) \in Seq(Op)
  BY <1>1, <1>2, AppendTwo, AppendOf
<1>4. \A a \in Alias : HasPut(queue', a) <=> HasPut(queue, a)
  BY <1>2, <1>3, AppendPuts
<1>5. Loaded' <=> Loaded
  BY <1>1, Moved
<1> QED BY <1>1, <1>4, <1>5, NothingMoves

(* The favourites are read: those that have a row are all found there.     *)
LEMMA ReadStep ==
  ASSUME FavInv, NEW c \in Call, FavsReply(c)
  PROVE  Favourites!Reload
<1> USE FavParts
<1>1. Answered("favs", c) /\ "favs" \in Reads
  BY DEF FavsReply, Reads
<1>2. /\ queue # <<>> /\ IsRead(Head(queue)) /\ Head(queue).call = c /\ call[c].pc = "favs"
      /\ began' = began /\ captured' = captured /\ rows' = rows /\ tainted' = tainted
      /\ \A a \in Alias \ tainted : ~HasPut(queue, a)
  BY <1>1, AnsweredHead
<1>3. /\ call'[c].pc = "cats" /\ queue' = Append(Tail(queue), [kind |-> "cats", call |-> c])
      /\ \A d \in Call : d # c => call'[d] = call[d]
      /\ \A a \in Alias : favorites'[a] # <<>> <=> rows[a] = "fav"
  BY DEF FavsReply, ThenAsk, TypeOK, Progress
<1>4. CallMove(c)
  BY <1>2, <1>3 DEF CallMove, Reads
<1>5. \A a \in Alias : HasPut(queue', a) <=> HasPut(queue, a)
  BY <1>4, CallMoves, ReadMoves
<1>6. Loaded'
  BY <1>2, <1>3, Moved
<1>7. NoRow' = NoRow /\ Waiting' = Waiting
  BY <1>2, <1>5 DEF NoRow, Waiting
<1>8. ASSUME NEW a \in Alias \ tainted PROVE a \in UserFavs' <=> a \in UserFavs \ NoRow
  <2>1. a \in UserFavs' <=> rows[a] = "fav"
    BY <1>3, <1>6 DEF UserFavs, Favourite
  <2>2. Loaded => (rows[a] = "fav" => Favourite(a)) /\ (Favourite(a) => rows[a] \in {"fav", "absent"})
    BY <1>2 DEF Settled
  <2> QED BY <2>1, <2>2 DEF UserFavs, NoRow
<1> QED BY <1>2, <1>7, <1>8, AbstractSteps

-----------------------------------------------------------------------------
(* Writes.                                                                 *)

(* A tap reaches its row.                                                  *)
LEMMA StoreStep ==
  ASSUME FavInv, PutDone
  PROVE  \E a \in Alias : Favourites!Store(a)
<1> USE FavParts
<1> DEFINE b == Head(queue).alias
<1>1. /\ queue # <<>> /\ Head(queue) \in PutOp /\ queue' = Tail(queue)
      /\ rows' = [rows EXCEPT ![b] = Flag(Head(queue).fav)]
      /\ call' = call /\ favorites' = favorites /\ tainted' = tainted
  BY DEF PutDone, memory, history
<1>2. Head(queue).kind = "put" /\ b \in Alias /\ Head(queue).fav \in BOOLEAN
  BY <1>1, TailOf, OpKinds
<1>3. \A a \in Alias : HasPut(queue, a) <=> a = b \/ HasPut(queue', a)
  BY <1>1, <1>2, TailPuts DEF IsPut
<1>4. rows'[b] # "absent" /\ \A a \in Alias : a # b => rows'[a] = rows[a]
  BY <1>1, <1>2, FlagType DEF TypeOK
<1> HIDE DEF b
<1>5. Loaded' = Loaded /\ \A a \in Alias : Favourite(a)' = Favourite(a)
  BY <1>1 DEF Loaded, Favourite
<1>6. b \in Waiting /\ Waiting' \in {Waiting, Waiting \ {b}} /\ NoRow' = NoRow \ {b}
  BY <1>2, <1>3, <1>4 DEF Waiting, NoRow
<1>7. ASSUME NEW a \in Alias \ tainted PROVE a \in UserFavs' <=> a \in UserFavs
  <2>1. ~Loaded => a # b
    BY <1>2, <1>3 DEF StartInv
  <2> QED BY <1>4, <1>5, <2>1 DEF UserFavs
<1> QED BY <1>1, <1>2, <1>6, <1>7, AbstractSteps

(* A transaction of a refresh commits: memory does not look at it, and the
   code loses track only of items whose row it takes.                      *)
LEMMA CommitStep ==
  ASSUME FavInv, TxnCommit
  PROVE  Favourites!Replace
<1> USE FavParts
<1> DEFINE t == Head(queue).call
           items == call[t].served
           all == Head(queue).kind = "replaceAll"
<1>1. /\ queue # <<>> /\ Head(queue) \in TxnOp /\ queue' = Tail(queue)
      /\ call' = call /\ favorites' = favorites
      /\ rows' = [a \in Alias |-> IF a \in items THEN Flag(captured[a])
                                  ELSE IF all THEN "absent" ELSE rows[a]]
      /\ tainted' = IF all /\ overlapped THEN tainted \cup {a \in Alias \ items : rows[a] = "fav"}
                    ELSE tainted
  BY DEF TxnCommit, memory
<1>2. Head(queue) = queue[1] /\ 1 \in 1..Len(queue) /\ IsTxn(Head(queue)) /\ Head(queue).kind # "put"
  BY <1>1, TailOf, OpKinds
<1>3. Loaded /\ Loaded'
  BY <1>1, <1>2, TxnDone DEF Loaded, At
<1>4. UserFavs' = UserFavs
  <2>1. \A a \in Alias : Favourite(a)' = Favourite(a)
    BY <1>1 DEF Favourite
  <2> QED BY <1>3, <2>1 DEF UserFavs
<1>5. Waiting' = Waiting
  <2>1. \A a \in Alias : HasPut(queue', a) <=> HasPut(queue, a)
    BY <1>1, <1>2, TailPuts DEF IsPut
  <2> QED BY <2>1 DEF Waiting
<1>6. tainted \subseteq tainted' /\ tainted' \subseteq tainted \cup (NoRow' \ NoRow)
  <2>1. all => \A a \in Alias \ items : rows'[a] = "absent"
    BY <1>1
  <2> QED BY <1>1, <2>1 DEF NoRow
<1> QED BY <1>4, <1>5, <1>6, AbstractSteps

-----------------------------------------------------------------------------
(* The user.                                                               *)

(* Where the code keeps track of an object, an empty heart means that its
   item is no favourite.                                                   *)
LEMMA EmptyHeart ==
  ASSUME FavInv, NEW o \in Obj, Tracked(o), ~heart[o], AliasOf(o) \notin tainted
  PROVE  ~Favourite(AliasOf(o))
<1> USE FavParts
<1>1. AliasOf(o) \in Alias \ tainted
  BY DEF AliasOf, Obj
<1>2. Listing(AliasOf(o)) /\ ShowsHeart(AliasOf(o))
  BY <1>1
<1>3. CASE o \in Listed
  <2>1. PICK i \in 1..Len(favorites[AliasOf(o)]) : favorites[AliasOf(o)][i] = o
    BY <1>3 DEF Listed
  <2> QED BY <1>2, <2>1 DEF Listing
<1>4. CASE o \in medias
  BY <1>2, <1>4 DEF Tracked, ShowsHeart
<1> QED BY <1>3, <1>4 DEF Tracked

(* What any tap does.                                                      *)
LEMMA TapStep ==
  ASSUME FavInv, NEW o \in Obj, NEW f \in BOOLEAN, Tap(o),
         Ask([kind |-> "put", alias |-> AliasOf(o), fav |-> f]),
         \A a \in Alias : a # AliasOf(o) => favorites'[a] = favorites[a],
         Loaded /\ AliasOf(o) \notin tainted' => ~Favourite(AliasOf(o)) \/ ~Favourite(AliasOf(o))'
  PROVE  \E a \in Alias : Favourites!Tap(a)
<1> USE FavParts
<1> DEFINE b == AliasOf(o)
           put == [kind |-> "put", alias |-> b, fav |-> f]
<1>1. /\ queue' = Append(queue, put)
      /\ tainted' = IF Tracked(o) THEN tainted ELSE tainted \cup {b}
      /\ medias' = medias /\ call' = call /\ rows' = rows
  BY DEF Tap, Ask, disk
<1>2. b \in Alias
  BY DEF AliasOf, Obj
<1>3. put \in Op /\ \A a \in Alias : IsPut(put, a) <=> a = b
  BY <1>2, PutTypes DEF IsPut
<1> HIDE DEF put
<1>4. Waiting' = Waiting \cup {b} /\ NoRow' = NoRow
  <2>1. \A a \in Alias : HasPut(queue', a) <=> HasPut(queue, a) \/ a = b
    BY <1>1, <1>3, AppendPuts
  <2> QED BY <1>1, <1>2, <2>1 DEF Waiting, NoRow
<1>5. Loaded' = Loaded
  BY <1>1 DEF Loaded
<1>6. ~Loaded => b \in tainted'
  <2> SUFFICES ASSUME ~Loaded, b \notin tainted' PROVE FALSE
    OBVIOUS
  <2>1. Tracked(o) /\ b \in Alias \ tainted
    BY <1>1, <1>2
  <2>2. o \in Listed /\ favorites[b] = <<>>
    BY <2>1 DEF StartInv, Tracked
  <2> QED BY <2>2 DEF Listed
<1>7. b \in UserFavs' => b \notin UserFavs \/ b \in tainted'
  BY <1>5, <1>6 DEF UserFavs
<1>8. \A a \in Alias \ (tainted' \cup {b}) : a \in UserFavs' <=> a \in UserFavs
  BY <1>1, <1>5 DEF UserFavs, Favourite
<1>9. tainted' \in {tainted, tainted \cup {b}}
  BY <1>1
<1> HIDE DEF b
<1> QED BY <1>2, <1>4, <1>7, <1>8, <1>9, AbstractSteps

(* A tap that makes a favourite.                                           *)
LEMMA MakeStep ==
  ASSUME FavInv, NEW o \in Obj, MakeFavorite(o)
  PROVE  \E a \in Alias : Favourites!Tap(a)
<1> USE FavParts
<1>1. /\ ~heart[o] /\ Tap(o) /\ Ask([kind |-> "put", alias |-> AliasOf(o), fav |-> TRUE])
      /\ favorites' = [favorites EXCEPT ![AliasOf(o)] = <<o>> \o @]
      /\ tainted' = IF Tracked(o) THEN tainted ELSE tainted \cup {AliasOf(o)}
  BY DEF MakeFavorite, Tap
<1>2. AliasOf(o) \notin tainted' => ~Favourite(AliasOf(o))
  BY <1>1, EmptyHeart
<1>3. \A a \in Alias : a # AliasOf(o) => favorites'[a] = favorites[a]
  BY <1>1 DEF TypeOK
<1> QED BY <1>1, <1>2, <1>3, TapStep

(* One that takes a favourite back: it was listed once.                    *)
LEMMA TakeStep ==
  ASSUME FavInv, NEW o \in Obj, UnFavorite(o)
  PROVE  \E a \in Alias : Favourites!Tap(a)
<1> USE FavParts
<1> DEFINE b == AliasOf(o)
<1>1. /\ Tap(o) /\ Ask([kind |-> "put", alias |-> b, fav |-> FALSE])
      /\ favorites' = [favorites EXCEPT ![b] = IF @ = <<>> THEN @ ELSE Tail(@)]
      /\ tainted' = IF Tracked(o) THEN tainted ELSE tainted \cup {b}
  BY DEF UnFavorite, Tap
<1>2. b \in Alias /\ favorites[b] \in Seq(Obj)
  BY DEF AliasOf, Obj, TypeOK
<1>3. b \notin tainted' => ~Favourite(b)'
  <2> SUFFICES ASSUME b \notin tainted' PROVE favorites'[b] = <<>>
    BY DEF Favourite
  <2>1. Listing(b)
    BY <1>1, <1>2
  <2>2. favorites'[b] = IF favorites[b] = <<>> THEN <<>> ELSE Tail(favorites[b])
    BY <1>1, <1>2 DEF TypeOK
  <2> QED BY <1>2, <2>1, <2>2 DEF Listing
<1>4. \A a \in Alias : a # b => favorites'[a] = favorites[a]
  BY <1>1 DEF TypeOK
<1> HIDE DEF b
<1> QED BY <1>1, <1>3, <1>4, TapStep DEF b

(* The app starts again: the rows have every favourite but those whose tap
   was still to be stored.                                                 *)
LEMMA RestartStep ==
  ASSUME FavInv, Restart
  PROVE  Favourites!Restart
<1> USE FavParts
<1>1. /\ rows' = rows /\ tainted' = {} /\ queue' = <<>>
      /\ call' = [c \in Call |-> NoCall]
  BY DEF Restart, disk
<1>2. ~Loaded'
  BY <1>1 DEF Loaded, NoCall
<1>3. NoRow' = NoRow
  BY <1>1 DEF NoRow
<1>4. Waiting' = {}
  <2>1. 1..Len(queue') = {}
    BY <1>1
  <2> QED BY <2>1 DEF Waiting, HasPut
<1>5. \A a \in Alias : a \in UserFavs' <=> rows[a] = "fav"
  BY <1>1, <1>2 DEF UserFavs
<1>6. UserFavs' \cap NoRow = {}
  BY <1>5 DEF NoRow, UserFavs
<1>7. ASSUME NEW a \in Alias \ (tainted \cup Waiting) PROVE a \in UserFavs' <=> a \in UserFavs \ NoRow
  <2>1. ~HasPut(queue, a)
    BY DEF Waiting
  <2>2. Loaded => (rows[a] = "fav" => Favourite(a)) /\ (Favourite(a) => rows[a] \in {"fav", "absent"})
    BY <2>1 DEF Settled
  <2> QED BY <1>5, <2>2 DEF UserFavs, NoRow
<1> QED BY <1>1, <1>3, <1>4, <1>6, <1>7, AbstractSteps

-----------------------------------------------------------------------------
(* Whatever refreshes overlap, whatever waits in the queue and wherever the
   process dies, the favourites of the user are the set FavouriteSet
   promises: taps change it, and nothing else but what it names.           *)
THEOREM FavouritesAreASet == Spec => ImplementsFavouriteSet
<1>1. Init => Favourites!Init
  <2> SUFFICES ASSUME Init PROVE Favourites!Init
    OBVIOUS
  <2>1. queue = <<>> /\ tainted = {} /\ call = [c \in Call |-> NoCall]
    BY DEF Init, MemoryAtStart
  <2>2. ~Loaded
    BY <2>1 DEF Loaded, NoCall
  <2>3. 1..Len(queue) = {}
    BY <2>1
  <2>4. Waiting = {} /\ NoRow \in SUBSET Alias /\ UserFavs \in SUBSET (Alias \ NoRow)
    BY <2>2, <2>3 DEF Waiting, HasPut, NoRow, UserFavs
  <2> QED BY <2>1, <2>4 DEF Favourites!Init, Waiting, HasPut, IsPut, NoRow, UserFavs
<1>2. FavInv /\ [Next]_vars => [Favourites!Next]_(Favourites!vars)
  <2> SUFFICES ASSUME FavInv, [Next]_vars PROVE Favourites!Next \/ Nothing
    BY AbstractSteps
  <2>1. ASSUME NEW c \in Call, Refresh(c) \/ SwitchEnvironment(c) PROVE Nothing
    <3>1. /\ call[c].pc = "idle" /\ call'[c].pc = "chart" /\ \A d \in Call : d # c => call'[d] = call[d]
          /\ queue' = queue /\ rows' = rows /\ tainted' = tainted /\ favorites' = favorites
      BY <2>1, FavParts DEF Refresh, SwitchEnvironment, StartRefresh, db, disk, At, TypeOK, Progress
    <3>2. Loaded' <=> Loaded
      BY <3>1, FavParts, Moved
    <3> QED BY <3>1, <3>2, NothingMoves
  <2>2. ASSUME NEW c \in Call, Reply(c) PROVE Favourites!Reload \/ Nothing
    BY <2>2, QueryStep, AnswerStep, ReadStep DEF Reply
  <2>3. CASE Write
    <3>1. CASE PutDone
      BY <3>1, StoreStep DEF Favourites!Next
    <3>2. CASE TxnBegin \/ \E a \in Alias : TxnRow(a)
      <4>1. favorites' = favorites /\ rows' = rows /\ tainted' = tainted /\ call' = call /\ queue' = queue
        BY <3>2 DEF TxnBegin, TxnRow, memory, disk, history
      <4> QED BY <4>1, NothingMoves DEF Loaded
    <3>3. CASE TxnCommit
      BY <3>3, CommitStep DEF Favourites!Next
    <3> QED BY <2>3, <3>1, <3>2, <3>3 DEF Write
  <2>4. CASE OpenPage \/ ClosePage \/ vars' = vars
    <3>1. favorites' = favorites /\ rows' = rows /\ tainted' = tainted /\ call' = call /\ queue' = queue
      BY <2>4 DEF OpenPage, ClosePage, vars, memory, db, disk, history
    <3> QED BY <3>1, NothingMoves DEF Loaded
  <2>5. ASSUME NEW o \in Obj, MakeFavorite(o) \/ UnFavorite(o) PROVE Favourites!Next
    BY <2>5, MakeStep, TakeStep DEF Favourites!Next
  <2>6. CASE Restart
    BY <2>6, RestartStep DEF Favourites!Next
  <2> QED BY <2>1, <2>2, <2>3, <2>4, <2>5, <2>6 DEF Next, Favourites!Next
<1> QED BY <1>1, <1>2, FavouritesAgree, PTL DEF Spec, Favourites!Spec, ImplementsFavouriteSet
=============================================================================
