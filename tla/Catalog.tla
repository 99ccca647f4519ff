------------------------------- MODULE Catalog -------------------------------
(***************************************************************************)
(* The catalogue of media items as lib/redesign/resources/repository.dart  *)
(* keeps it: the globals favorites, medias and chartList in memory, the    *)
(* SQLite tables behind DatabaseProvider, and the REST server of the       *)
(* selected environment.                                                   *)
(*                                                                         *)
(* Dart runs one event at a time, so an action is the code between two     *)
(* awaits.  What interleaves is the continuations of the refreshes         *)
(* (AppBloc.fetchSources -> Repository.fetchData -> fetch), the operations *)
(* of the database, which sqflite executes one at a time in the order they *)
(* were asked for, the taps of the user on the hearts, and restarts.       *)
(*                                                                         *)
(* An item is its alias.  What the code does depend on is which MediaItem  *)
(* OBJECT it holds: every load of a list makes new objects, each with its  *)
(* own isFavorite, while List.remove and List.contains compare aliases.    *)
(***************************************************************************)
EXTENDS Naturals, Sequences

CONSTANTS
  Alias,        \* aliases of the items
  Group,        \* aliases of the groups
  GroupOf,      \* MediaItem.groupAlias
  Env,          \* the environments a build can talk to (production, staging)
  Served,       \* Served[e]: the catalogues the server of e may answer with
  Chart,        \* the items of the top chart
  MaxRefresh,   \* bound: calls of fetchSources between two restarts
  MaxTaps,      \* bound: taps on a heart
  MaxRestarts   \* bound: restarts of the app

ASSUME CatalogAssumption ==
  /\ GroupOf \in [Alias -> Group]
  /\ Served \in [Env -> SUBSET SUBSET Alias]
  /\ Chart \in SUBSET Alias
  /\ MaxRefresh \in Nat /\ MaxTaps \in Nat /\ MaxRestarts \in Nat

Call == 1..MaxRefresh

(* The objects: those a call of fetchData makes of the rows of getFavorites,
   of the rows of getMediasFromDB, of the answer to fetchCategories and of
   the answer to getTopChart.                                              *)
Source == {"fav", "db", "net", "chart"}
Obj == Alias \X Call \X Source
AliasOf(o) == o[1]

VARIABLES
  favorites,  \* favorites, per alias: the objects of that alias in list order
  medias,     \* the objects reachable from medias (and allItems)
  chartList,  \* the objects of chartList
  heart,      \* isFavorite of every object
  page,       \* the objects an open page holds
  loading,    \* dataLoadingStream
  env,        \* isProductionEnvironment, and with it restClient
  call,       \* the calls of fetchData: where each one is suspended
  queue,      \* the database operations asked for and not finished
  began,      \* the transaction at the head of the queue has read its rows
  captured,   \* what it has read: the isFavorite of the items it writes
  catTbl,     \* the categories table is not empty
  groupTbl,   \* the groups table: aliases
  rows,       \* the items table: isFavorite by alias
  tainted,    \* history: aliases tapped where the code loses track of them, or whose
              \* favourite a catalogue without them dropped while refreshes overlapped
  overlapped, \* history: a refresh was started while another was under way
  taps, restarts \* counters of the bounds

memory == <<favorites, medias, chartList, heart, page, loading, call>>
disk == <<catTbl, groupTbl, rows>>
db == <<queue, began, captured, disk>>
history == <<tainted, overlapped>>
vars == <<memory, env, db, history, taps, restarts>>

-----------------------------------------------------------------------------
Suspended == {"idle", "chart", "favs", "cats", "groups", "items", "net", "done", "failed"}
Reads == {"favs", "cats", "groups", "items"}
Row == {"absent", "plain", "fav"}
ReadOp == [kind : Reads, call : Call]
PutOp == [kind : {"put"}, alias : Alias, fav : BOOLEAN]
TxnOp == [kind : {"putAll", "replaceAll"}, call : Call]
Op == ReadOp \cup PutOp \cup TxnOp

(* A call of fetchData: its await, the environment it asks, the groups it
   read, and the catalogue it was answered.                                *)
Progress == [pc : Suspended, env : Env, groups : SUBSET Group, served : SUBSET Alias]
NoCall == [pc |-> "idle", env |-> CHOOSE e \in Env : TRUE, groups |-> {}, served |-> {}]

Favourite(a) == favorites[a] # <<>>
Listed == {o \in Obj : \E i \in 1..Len(favorites[AliasOf(o)]) : favorites[AliasOf(o)][i] = o}

(* isFavorite == true ? 1 : 0.  The mutant drops the 0: a row whose flag is  *)
(* left null, which no reader of the column expects.                         *)
FlagRaw(f) == IF f THEN "fav" ELSE "null"
Flag(f) == IF f THEN "fav" ELSE "plain"

At(c, pc) == call[c].pc = pc
InFlight == {c \in Call : call[c].pc \notin {"idle", "done", "failed"}}
Loading == {c \in Call : call[c].pc \in Reads}

(* The database of an install is empty, or holds a catalogue an earlier run
   of the app stored with the favourites of its user.                      *)
FreshInstall == ~catTbl /\ groupTbl = {} /\ rows = [a \in Alias |-> "absent"]
UsedBefore ==
  \E e \in Env : \E items \in Served[e] \ {{}} : \E favs \in SUBSET items :
    /\ catTbl
    /\ groupTbl = {GroupOf[a] : a \in items}
    /\ rows = [a \in Alias |-> IF a \in items THEN Flag(a \in favs) ELSE "absent"]

MemoryAtStart ==
  /\ favorites = [a \in Alias |-> <<>>]
  /\ medias = {} /\ chartList = {} /\ page = {}
  /\ heart = [o \in Obj |-> FALSE]
  /\ loading = FALSE
  /\ call = [c \in Call |-> NoCall]
  /\ queue = <<>> /\ began = FALSE /\ captured = [a \in Alias |-> FALSE]
  /\ tainted = {} /\ overlapped = FALSE

Init ==
  /\ MemoryAtStart
  /\ catTbl \in BOOLEAN /\ groupTbl \in SUBSET Group /\ rows \in [Alias -> Row]
  /\ FreshInstall \/ UsedBefore
  /\ env \in Env
  /\ taps = 0 /\ restarts = 0

-----------------------------------------------------------------------------
(* A refresh.                                                              *)

Ask(op) == queue' = Append(queue, op)

(* The dataFetched callback of fetchSources.  Mutant: it forgets the spinner. *)
DataFetchedSilent == loading' = loading
DataFetched == loading' = FALSE

(* The hearts of new objects: those of rows are the rows' own, those the
   server sent are full when favorites contains the alias.
   Mutants: the column is not read back; _processMediaItem is skipped.     *)
RowHeartsLost(new) == heart' = [o \in Obj |-> heart[o] /\ o \notin new]
RowHearts(new) == heart' = [o \in Obj |-> heart[o] \/ (o \in new /\ rows[AliasOf(o)] = "fav")]
ProcessItemsSkipped(new) == heart' = heart
ProcessItems(new) == heart' = [o \in Obj |-> heart[o] \/ (o \in new /\ Favourite(AliasOf(o)))]

(* insertAllItems and insertAllMedias are both started and not awaited.
   Mutant: only the first one is.                                          *)
WriteBackItems(c) == << [kind |-> "putAll", call |-> c] >>
WriteBack(c) == << [kind |-> "putAll", call |-> c], [kind |-> "replaceAll", call |-> c] >>

(* fetchSources: the spinner on, then fetchData up to its first await.     *)
StartRefresh(c) ==
  /\ At(c, "idle") /\ \A d \in 1..(c - 1) : ~At(d, "idle")
  /\ loading' = TRUE
  /\ call' = [call EXCEPT ![c].pc = "chart"]
  /\ overlapped' = (overlapped \/ InFlight # {})
  /\ UNCHANGED <<favorites, medias, chartList, heart, page, db, tainted, taps, restarts>>

(* The home page, a finished upload or a migration refresh the data.       *)
Refresh(c) == StartRefresh(c) /\ UNCHANGED env

(* The environment switch of the drawer: a new client, then a refresh.     *)
SwitchEnvironment(c) ==
  /\ env' \in Env \ {env}
  /\ StartRefresh(c)

(* getTopChart answers, or fails and is taken for an empty chart.          *)
ChartReply(c) ==
  /\ At(c, "chart")
  /\ \E items \in {{}, Chart} : chartList' = items \X {c} \X {"chart"}
  /\ Ask([kind |-> "favs", call |-> c])
  /\ call' = [call EXCEPT ![c].pc = "favs"]
  /\ UNCHANGED <<favorites, medias, heart, page, loading, env, began, captured, disk, history, taps, restarts>>

(* A query of call c has the database's answer; the next one is asked for. *)
Answered(kind, c) ==
  /\ At(c, kind)
  /\ queue # <<>> /\ Head(queue) = [kind |-> kind, call |-> c]
  /\ UNCHANGED <<env, began, captured, disk, history, taps, restarts>>
ThenAsk(kind, c) == queue' = Append(Tail(queue), [kind |-> kind, call |-> c])

(* favorites = await getFavorites(): a new list of new objects.            *)
FavsReply(c) ==
  LET favs == {a \in Alias : rows[a] = "fav"} IN
  /\ Answered("favs", c)
  /\ favorites' = [a \in Alias |-> IF a \in favs THEN << <<a, c, "fav">> >> ELSE <<>>]
  /\ RowHearts(favs \X {c} \X {"fav"})
  /\ ThenAsk("cats", c)
  /\ call' = [call EXCEPT ![c].pc = "cats"]
  /\ UNCHANGED <<medias, chartList, page, loading>>

(* No category stored: medias becomes empty, the spinner stays, and the
   server is asked at once.                                                *)
CatsReplyNone(c) ==
  /\ Answered("cats", c) /\ ~catTbl
  /\ medias' = {}
  /\ queue' = Tail(queue)
  /\ call' = [call EXCEPT ![c].pc = "net", ![c].env = env]
  /\ UNCHANGED <<favorites, chartList, heart, page, loading>>

CatsReplySome(c) ==
  /\ Answered("cats", c) /\ catTbl
  /\ ThenAsk("groups", c)
  /\ call' = [call EXCEPT ![c].pc = "groups"]
  /\ UNCHANGED <<favorites, medias, chartList, heart, page, loading>>

GroupsReply(c) ==
  /\ Answered("groups", c)
  /\ ThenAsk("items", c)
  /\ call' = [call EXCEPT ![c].pc = "items", ![c].groups = groupTbl]
  /\ UNCHANGED <<favorites, medias, chartList, heart, page, loading>>

(* _buildMediaRelationships: an item shows under a group that was read two
   queries earlier.  dataFetched, then the server is asked.                *)
ItemsReply(c) ==
  LET shown == {a \in Alias : rows[a] # "absent" /\ GroupOf[a] \in call[c].groups} IN
  /\ Answered("items", c)
  /\ medias' = shown \X {c} \X {"db"}
  /\ RowHearts(shown \X {c} \X {"db"})
  /\ DataFetched
  /\ queue' = Tail(queue)
  /\ call' = [call EXCEPT ![c].pc = "net", ![c].env = env, ![c].groups = {}]
  /\ UNCHANGED <<favorites, chartList, page>>

(* fetchCategories answered: the new objects take their hearts from
   favorites, replace medias, and are written back without an await.       *)
NetReply(c) ==
  \E items \in Served[call[c].env] :
    /\ At(c, "net") /\ items # {}
    /\ medias' = items \X {c} \X {"net"}
    /\ ProcessItems(items \X {c} \X {"net"})
    /\ DataFetched
    /\ queue' = queue \o WriteBack(c)
    /\ call' = [call EXCEPT ![c].pc = "done", ![c].served = items]
    /\ UNCHANGED <<favorites, chartList, page, env, began, captured, disk, history, taps, restarts>>

(* Mutant of NetFail: the empty answer is taken for the catalogue.          *)
NetEmptied(c) ==
  /\ At(c, "net")
  /\ medias' = {}
  /\ call' = [call EXCEPT ![c].pc = "failed"]
  /\ UNCHANGED <<favorites, chartList, heart, page, loading, env, db, history, taps, restarts>>

(* fetchCategories fails, and the null check of its result throws; or it
   answers no category, and fetch returns.  Neither calls dataFetched.     *)
NetFail(c) ==
  /\ At(c, "net")
  /\ call' = [call EXCEPT ![c].pc = "failed"]
  /\ UNCHANGED <<favorites, medias, chartList, heart, page, loading, env, db, history, taps, restarts>>

-----------------------------------------------------------------------------
(* The writes of the database.                                             *)

PutDone ==
  /\ queue # <<>> /\ Head(queue) \in PutOp
  /\ rows' = [rows EXCEPT ![Head(queue).alias] = Flag(Head(queue).fav)]
  /\ queue' = Tail(queue)
  /\ UNCHANGED <<memory, env, began, captured, catTbl, groupTbl, history, taps, restarts>>

(* What a transaction reads of an item.  Mutant: the rows are built from
   the answer as it came.                                                  *)
CapturedAsServed(c) == [a \in Alias |-> FALSE]
CapturedOf(c) == [a \in Alias |-> heart[<<a, c, "net">>]]

(* Mutant of TxnBegin: the tables are cleared outside the transaction.     *)
TxnBeginCleared ==
  /\ queue # <<>> /\ Head(queue) \in TxnOp /\ ~began
  /\ began' = TRUE
  /\ captured' = CapturedOf(Head(queue).call)
  /\ groupTbl' = IF Head(queue).kind = "replaceAll" THEN {} ELSE groupTbl
  /\ UNCHANGED <<memory, env, queue, catTbl, rows, history, taps, restarts>>

(* A transaction turns its items to rows one after the other and awaits each
   insert: the row of an item may be built after taps of the meantime.     *)
TxnBegin ==
  /\ queue # <<>> /\ Head(queue) \in TxnOp /\ ~began
  /\ began' = TRUE
  /\ captured' = CapturedOf(Head(queue).call)
  /\ UNCHANGED <<memory, env, queue, disk, history, taps, restarts>>
TxnRow(a) ==
  /\ queue # <<>> /\ Head(queue) \in TxnOp /\ began
  /\ captured' = [captured EXCEPT ![a] = CapturedOf(Head(queue).call)[a]]
  /\ UNCHANGED <<memory, env, queue, began, disk, history, taps, restarts>>

(* Rows of insertAllItems are added, those of insertAllMedias replace the
   three tables.                                                           *)
TxnCommit ==
  /\ queue # <<>> /\ Head(queue) \in TxnOp /\ began
  /\ LET items == call[Head(queue).call].served
         all == Head(queue).kind = "replaceAll"
     IN /\ rows' = [a \in Alias |-> IF a \in items THEN Flag(captured[a])
                                    ELSE IF all THEN "absent" ELSE rows[a]]
        /\ groupTbl' = IF all THEN {GroupOf[a] : a \in items} ELSE groupTbl
        /\ catTbl' = (catTbl \/ all)
        /\ tainted' = IF all /\ overlapped THEN tainted \cup {a \in Alias \ items : rows[a] = "fav"}
                      ELSE tainted
  /\ queue' = Tail(queue)
  /\ began' = FALSE /\ captured' = [a \in Alias |-> FALSE]
  /\ UNCHANGED <<memory, env, overlapped, taps, restarts>>

-----------------------------------------------------------------------------
(* The user.                                                               *)

(* A page keeps the objects of the list it was opened on while refreshes
   replace that list: the favourites, the chart, or a search, which finds
   what any group of medias shows.                                         *)
OpenPage ==
  /\ page = {} /\ page' \in {medias, Listed, chartList} \ {{}}
  /\ UNCHANGED <<favorites, medias, chartList, heart, loading, call, env, db, history, taps, restarts>>

ClosePage ==
  /\ page # {} /\ page' = {}
  /\ UNCHANGED <<favorites, medias, chartList, heart, loading, call, env, db, history, taps, restarts>>

(* The object is one the two lists of the moment hold, and no refresh is
   between reading favorites and reading medias.                           *)
Tracked(o) == o \in medias \cup Listed /\ Loading = {}

Tap(o) ==
  /\ taps < MaxTaps /\ taps' = taps + 1
  /\ o \in page \cup Listed \cup chartList
  /\ tainted' = IF Tracked(o) THEN tainted ELSE tainted \cup {AliasOf(o)}
  /\ UNCHANGED <<medias, chartList, page, loading, call, env, began, captured, disk, overlapped, restarts>>

(* makeFavorite: the object goes to the front of favorites.                *)
MakeFavorite(o) ==
  /\ ~heart[o] /\ Tap(o)
  /\ heart' = [heart EXCEPT ![o] = TRUE]
  /\ favorites' = [favorites EXCEPT ![AliasOf(o)] = <<o>> \o @]
  /\ Ask([kind |-> "put", alias |-> AliasOf(o), fav |-> TRUE])

(* unFavorite: List.remove drops the first object of that alias.           *)
UnFavorite(o) ==
  /\ heart[o] /\ Tap(o)
  /\ heart' = [heart EXCEPT ![o] = FALSE]
  /\ favorites' = [favorites EXCEPT ![AliasOf(o)] = IF @ = <<>> THEN @ ELSE Tail(@)]
  /\ Ask([kind |-> "put", alias |-> AliasOf(o), fav |-> FALSE])

(* The process dies: memory and the queue are gone, an open transaction is
   rolled back, the tables and the preferences stay.                       *)
Restart ==
  /\ restarts < MaxRestarts /\ restarts' = restarts + 1
  /\ favorites' = [a \in Alias |-> <<>>]
  /\ medias' = {} /\ chartList' = {} /\ page' = {}
  /\ heart' = [o \in Obj |-> FALSE]
  /\ loading' = FALSE
  /\ call' = [c \in Call |-> NoCall]
  /\ queue' = <<>> /\ began' = FALSE /\ captured' = [a \in Alias |-> FALSE]
  /\ tainted' = {} /\ overlapped' = FALSE
  /\ UNCHANGED <<env, disk, taps>>

-----------------------------------------------------------------------------
Reply(c) ==
  \/ ChartReply(c) \/ FavsReply(c) \/ CatsReplyNone(c) \/ CatsReplySome(c)
  \/ GroupsReply(c) \/ ItemsReply(c) \/ NetReply(c) \/ NetFail(c)

Write == PutDone \/ TxnBegin \/ (\E a \in Alias : TxnRow(a)) \/ TxnCommit

Next ==
  \/ \E c \in Call : Refresh(c) \/ SwitchEnvironment(c) \/ Reply(c)
  \/ Write
  \/ OpenPage \/ ClosePage
  \/ \E o \in Obj : MakeFavorite(o) \/ UnFavorite(o)
  \/ Restart

(* The event loop delivers every answer; the database works its queue off. *)
Fairness == WF_vars(Write) /\ \A c \in Call : WF_vars(Reply(c))

Spec == Init /\ [][Next]_vars
FairSpec == Spec /\ Fairness

-----------------------------------------------------------------------------
(* Types of the variables.                                                 *)
TypeOK ==
  /\ favorites \in [Alias -> Seq(Obj)]
  /\ medias \in SUBSET Obj /\ chartList \in SUBSET Obj /\ page \in SUBSET Obj
  /\ heart \in [Obj -> BOOLEAN]
  /\ loading \in BOOLEAN
  /\ env \in Env
  /\ call \in [Call -> Progress]
  /\ queue \in Seq(Op)
  /\ began \in BOOLEAN /\ captured \in [Alias -> BOOLEAN]
  /\ catTbl \in BOOLEAN /\ groupTbl \in SUBSET Group /\ rows \in [Alias -> Row]
  /\ tainted \in SUBSET Alias /\ overlapped \in BOOLEAN
  /\ taps \in Nat /\ restarts \in Nat

(* "Insert all medias with transaction for data integrity": whatever is
   interleaved and whenever the process dies, the groups table is that of
   one whole answer of a server, and every item of the answer has its row. *)
StoredCatalogueWhole ==
  catTbl =>
    \E e \in Env : \E items \in Served[e] :
      /\ groupTbl = {GroupOf[a] : a \in items}
      /\ \A a \in items : rows[a] # "absent"

(* makeFavorite inserts without looking: an item the user tapped only where
   the code keeps track of it is still listed at most once in favorites.   *)
NoDuplicateFavourite ==
  \A a \in Alias \ tainted : Len(favorites[a]) <= 1

(* Once no refresh is between its reads, a favourite shows a full heart in
   the catalogue: toggleFavorite will remove it and not list it twice.     *)
FavouriteShowsHeart ==
  Loading = {} =>
    \A o \in medias : AliasOf(o) \notin tainted /\ Favourite(AliasOf(o)) => heart[o]

(* When the database has no work left, memory and disk agree on what is a
   favourite, but for those the last catalogue no longer contains: the
   unawaited insertItem, insertAllItems and insertAllMedias never leave an
   older value behind.                                                     *)
Loaded == \E c \in Call : call[c].pc \in {"cats", "groups", "items", "net", "done", "failed"}
FavouritesOnDisk ==
  queue = <<>> /\ Loaded =>
    \A a \in Alias \ tainted :
      /\ rows[a] = "fav" => Favourite(a)
      /\ Favourite(a) => rows[a] \in {"fav", "absent"}

(* With one refresh at a time and nothing left to write, every item on
   screen is stored under a stored group: the next start shows it offline. *)
ShownIsStored ==
  ~overlapped /\ InFlight = {} /\ queue = <<>> =>
    \A o \in medias : rows[AliasOf(o)] # "absent" /\ GroupOf[AliasOf(o)] \in groupTbl

(* With one refresh at a time, fetchData never replaces a catalogue on
   screen by nothing, although the one it shows may not be stored yet.     *)
CatalogueStays ==
  [][~overlapped /\ medias # {} => medias' # {} \/ restarts' # restarts]_vars

(* The spinner of fetchSources goes off when the database holds a
   catalogue, whatever the server does.                                    *)
LoadingEnds == loading /\ catTbl ~> ~loading

(* "Fetch updated data from new environment", says the switch: when every
   refresh ended and the latest one succeeded, the catalogue is that of the
   selected environment.                                                   *)
NewEnvironmentShown ==
  (InFlight = {} /\ \E c \in Call : At(c, "done") /\ \A d \in Call : d > c => At(d, "idle"))
    => \A o \in medias : call[o[2]].env = env

(* The favourites the user has: those in memory once it is loaded, until
   then those stored.  Whatever refreshes and writes overlap and wherever
   the process dies, they are the set FavouriteSet promises: the heart that
   is tapped decides what the tap does, a refresh keeps every favourite that
   has a row, and a restart forgets at most taps that still waited.        *)
Favourites == INSTANCE FavouriteSet WITH
  favs <- {a \in Alias : IF Loaded THEN Favourite(a) ELSE rows[a] = "fav"},
  unsure <- tainted,
  gone <- {a \in Alias : rows[a] = "absent"},
  unsaved <- {a \in Alias : \E i \in 1..Len(queue) : queue[i].kind = "put" /\ queue[i].alias = a}
ImplementsFavouriteSet == Favourites!Spec
=============================================================================
