---------------------------- MODULE FavouriteProofs ----------------------------
(***************************************************************************)
(* Theorems about Catalog: a favourite is listed once, shows a full heart  *)
(* and agrees with its row, and what is on screen is stored.               *)
(*                                                                         *)
(* The writes of taps and refreshes are not awaited, so that rows lag      *)
(* behind the favorites in memory.  The invariant therefore speaks of the  *)
(* queue: the last writer of a row writes what favorites says.             *)
(***************************************************************************)
EXTENDS CatalogProofs

(* The operations of the database that wait.                               *)
IsRead(op) == op.kind \in Reads
IsTxn(op) == op.kind \in {"putAll", "replaceAll"}
IsPut(op, a) == op.kind = "put" /\ op.alias = a
HasPut(q, a) == \E i \in 1..Len(q) : IsPut(q[i], a)
PutAfter(q, i, a) == \E j \in 1..Len(q) : i < j /\ IsPut(q[j], a)

(* A call of fetchData has asked for the query it waits for, and for no
   other one.                                                              *)
ReadsKnown(q, f) ==
  /\ \A i \in 1..Len(q) : IsRead(q[i]) => f[q[i].call].pc = q[i].kind
  /\ \A i, j \in 1..Len(q) : IsRead(q[i]) /\ IsRead(q[j]) /\ q[i].call = q[j].call => i = j

(* While queries wait, the rows of taps the code keeps track of are written
   before them.                                                            *)
ReadsLast(q, t) ==
  \A i, j \in 1..Len(q) : i < j /\ IsRead(q[i]) /\ q[j].kind = "put" => q[j].alias \in t

(* What the last writer of a row puts there is what favorites says.        *)
Writes(op, a, m, h) ==
  IF op.kind = "put" THEN op.fav = m ELSE h[<<a, op.call, "net">>] = m
Concerns(op, a, f) == IsPut(op, a) \/ (IsTxn(op) /\ a \in f[op.call].served)
Agree(q, a, m, h, f) ==
  \A i \in 1..Len(q) : Concerns(q[i], a, f) /\ ~PutAfter(q, i, a) => Writes(q[i], a, m, h)

(* Of one refresh at a time: its transactions come before the queries.     *)
NoTxn(q) == \A i \in 1..Len(q) : ~IsTxn(q[i])
Apart(q) ==
  \A i, j \in 1..Len(q) : IsTxn(q[j]) =>
    /\ IsRead(q[i]) => j < i
    /\ IsTxn(q[i]) => q[i].call = q[j].call

(* The calls that have replaced favorites and still run.                   *)
Past == {c \in Call : call[c].pc \in {"cats", "groups", "items", "net"}}
HasRow(a) == rows[a] # "absent"

(* Objects: the ones of the server's answer exist once it is there, with
   hearts that are empty until then; medias has one object of an alias.     *)
Held == medias \cup page \cup chartList \cup Listed
ObjInv ==
  /\ \A o \in Held : o[3] = "net" => At(o[2], "done")
  /\ \A o \in Obj : o[3] = "net" /\ ~At(o[2], "done") => ~heart[o]
  /\ \A o, p \in medias : AliasOf(o) = AliasOf(p) => o = p

QueueInv ==
  /\ ReadsKnown(queue, call) /\ ReadsLast(queue, tainted)
  /\ began => queue # <<>> /\ IsTxn(Head(queue))

(* One refresh at a time.                                                  *)
AloneInv ==
  ~overlapped =>
    /\ \A c, d \in InFlight : c = d
    /\ Apart(queue)
    /\ Past # {} => NoTxn(queue)

(* Before a call has read favorites there are none.                        *)
StartInv ==
  ~Loaded => medias = {} /\ \A a \in Alias \ tainted : favorites[a] = <<>> /\ ~HasPut(queue, a)

(* A favourite whose row a replacement took away.                          *)
Dropped(a) == Favourite(a) /\ ~HasRow(a) /\ ~HasPut(queue, a)

Listing(a) ==
  /\ Len(favorites[a]) <= 1
  /\ \A i \in 1..Len(favorites[a]) : heart[favorites[a][i]] /\ AliasOf(favorites[a][i]) = a
ShowsHeart(a) ==
  Loading = {} /\ Favourite(a) => \A o \in medias : AliasOf(o) = a => heart[o]
Settled(a) ==
  Loaded /\ ~HasPut(queue, a) =>
    /\ rows[a] = "fav" => Favourite(a)
    /\ Favourite(a) => rows[a] \in {"fav", "absent"}
RowsRead(a) ==
  began /\ ~HasPut(queue, a) => captured[a] = heart[<<a, Head(queue).call, "net">>]
DroppedInv(a) ==
  Dropped(a) => /\ Past = {}
                /\ \A i \in 1..Len(queue) : IsTxn(queue[i]) => a \notin call[queue[i].call].served
AliasInv(a) ==
  /\ Listing(a) /\ ShowsHeart(a) /\ Settled(a) /\ RowsRead(a) /\ DroppedInv(a)
  /\ Agree(queue, a, Favourite(a), heart, call)

FavInv ==
  /\ StoredInv /\ ObjInv /\ QueueInv /\ AloneInv /\ StartInv
  /\ \A a \in Alias \ tainted : AliasInv(a)

(* What is on screen is stored, or about to be; the groups a call has read
   are still those stored.                                                 *)
Shelved(o) == HasRow(AliasOf(o)) /\ GroupOf[AliasOf(o)] \in groupTbl
Replaces(op) == op.kind = "replaceAll"
ShownInv ==
  /\ ~catTbl => groupTbl = {}
  /\ ~overlapped =>
       /\ \A c \in Call : At(c, "items") => call[c].groups = groupTbl
       /\ (\A i \in 1..Len(queue) : ~Replaces(queue[i])) => \A o \in medias : Shelved(o)
       /\ \A i \in 1..Len(queue) : Replaces(queue[i]) =>
            \A o \in medias : AliasOf(o) \in call[queue[i].call].served
-----------------------------------------------------------------------------
(* The queue.                                                              *)

(* What the kind of an operation says of it.                               *)
LEMMA OpKinds ==
  ASSUME NEW op \in Op
  PROVE  /\ IsRead(op) => op.call \in Call /\ ~IsTxn(op) /\ op.kind # "put"
         /\ IsTxn(op) <=> op \in TxnOp
         /\ IsTxn(op) => op.call \in Call /\ op.kind # "put"
         /\ op.kind = "put" <=> op \in PutOp
         /\ op.kind = "put" => op.alias \in Alias /\ op.fav \in BOOLEAN
         /\ op \in ReadOp => IsRead(op)
  BY DEF Op, ReadOp, PutOp, TxnOp, IsRead, IsTxn, Reads

(* The elements of a tail.                                                 *)
LEMMA TailOf ==
  ASSUME NEW q \in Seq(Op), q # <<>>
  PROVE  /\ Tail(q) \in Seq(Op) /\ Len(Tail(q)) = Len(q) - 1
         /\ Head(q) = q[1] /\ Head(q) \in Op /\ Len(q) \in Nat /\ Len(q) >= 1
         /\ \A i \in 1..Len(Tail(q)) : i + 1 \in 1..Len(q) /\ Tail(q)[i] = q[i + 1] /\ Tail(q)[i] \in Op
         /\ \A i \in 1..Len(q) : i # 1 => i - 1 \in 1..Len(Tail(q)) /\ Tail(q)[i - 1] = q[i]
  OBVIOUS

(* The elements of a longer queue.                                         *)
LEMMA AppendOf ==
  ASSUME NEW q \in Seq(Op), NEW op \in Op
  PROVE  /\ Append(q, op) \in Seq(Op) /\ Len(Append(q, op)) = Len(q) + 1 /\ Len(q) \in Nat
         /\ \A i \in 1..Len(q) : Append(q, op)[i] = q[i] /\ i \in 1..Len(Append(q, op))
         /\ Append(q, op)[Len(q) + 1] = op
         /\ \A i \in 1..Len(Append(q, op)) : i \in 1..Len(q) \/ i = Len(q) + 1
         /\ q # <<>> => Head(Append(q, op)) = Head(q) /\ Append(q, op) # <<>>
  OBVIOUS

(* A tail has the puts of a queue but its first.                           *)
LEMMA TailPuts ==
  ASSUME NEW q \in Seq(Op), q # <<>>, NEW a \in Alias
  PROVE  HasPut(q, a) <=> IsPut(Head(q), a) \/ HasPut(Tail(q), a)
<1>1. ASSUME HasPut(q, a) PROVE IsPut(Head(q), a) \/ HasPut(Tail(q), a)
  <2>1. PICK i \in 1..Len(q) : IsPut(q[i], a)
    BY <1>1 DEF HasPut
  <2>2. CASE i = 1
    BY <2>1, <2>2, TailOf
  <2>3. CASE i # 1
    BY <2>1, <2>3, TailOf DEF HasPut
  <2> QED BY <2>2, <2>3
<1>2. ASSUME IsPut(Head(q), a) PROVE HasPut(q, a)
  <2>1. 1 \in 1..Len(q) /\ q[1] = Head(q)
    BY TailOf
  <2> QED BY <1>2, <2>1 DEF HasPut
<1>3. ASSUME HasPut(Tail(q), a) PROVE HasPut(q, a)
  BY <1>3, TailOf DEF HasPut
<1> QED BY <1>1, <1>2, <1>3

(* A longer queue has the puts of the queue, and the new one.              *)
LEMMA AppendPuts ==
  ASSUME NEW q \in Seq(Op), NEW op \in Op, NEW a \in Alias
  PROVE  HasPut(Append(q, op), a) <=> HasPut(q, a) \/ IsPut(op, a)
<1>1. ASSUME HasPut(Append(q, op), a) PROVE HasPut(q, a) \/ IsPut(op, a)
  BY <1>1, AppendOf DEF HasPut
<1>2. ASSUME HasPut(q, a) PROVE HasPut(Append(q, op), a)
  BY <1>2, AppendOf DEF HasPut
<1>3. ASSUME IsPut(op, a) PROVE HasPut(Append(q, op), a)
  <2>1. Len(q) + 1 \in 1..Len(Append(q, op))
    BY AppendOf
  <2> QED BY <1>3, <2>1, AppendOf DEF HasPut
<1> QED BY <1>1, <1>2, <1>3

(* The writers left when the first is done still agree.                    *)
LEMMA TailAgrees ==
  ASSUME NEW q \in Seq(Op), q # <<>>, NEW a, NEW m, NEW h, NEW f, Agree(q, a, m, h, f)
  PROVE  Agree(Tail(q), a, m, h, f)
<1> DEFINE r == Tail(q)
<1> SUFFICES ASSUME NEW i \in 1..Len(r), Concerns(r[i], a, f), ~PutAfter(r, i, a)
             PROVE  Writes(r[i], a, m, h)
  BY DEF Agree
<1>1. r[i] = q[i + 1] /\ i + 1 \in 1..Len(q)
  BY TailOf
<1>2. ~PutAfter(q, i + 1, a)
  <2> SUFFICES ASSUME NEW j \in 1..Len(q), i + 1 < j, IsPut(q[j], a) PROVE FALSE
    BY DEF PutAfter
  <2>1. j - 1 \in 1..Len(r) /\ r[j - 1] = q[j] /\ i < j - 1
    BY TailOf
  <2> QED BY <2>1 DEF PutAfter
<1> QED BY <1>1, <1>2 DEF Agree

(* A new operation keeps the agreement, if it agrees itself.               *)
LEMMA AppendAgrees ==
  ASSUME NEW q \in Seq(Op), NEW op \in Op, NEW a, NEW m, NEW h, NEW f, Agree(q, a, m, h, f),
         Concerns(op, a, f) => Writes(op, a, m, h)
  PROVE  Agree(Append(q, op), a, m, h, f)
<1> DEFINE r == Append(q, op)
<1> SUFFICES ASSUME NEW i \in 1..Len(r), Concerns(r[i], a, f), ~PutAfter(r, i, a)
             PROVE  Writes(r[i], a, m, h)
  BY DEF Agree
<1>1. CASE i \in 1..Len(q)
  <2>1. r[i] = q[i]
    BY <1>1, AppendOf
  <2>2. ~PutAfter(q, i, a)
    BY AppendOf DEF PutAfter
  <2> QED BY <1>1, <2>1, <2>2 DEF Agree
<1>2. CASE i = Len(q) + 1
  BY <1>2, AppendOf
<1> QED BY <1>1, <1>2, AppendOf

(* A put at the end is the last writer of its row.                         *)
LEMMA PutAgrees ==
  ASSUME NEW q \in Seq(Op), NEW op \in Op, NEW a, NEW m, NEW h, NEW f, IsPut(op, a), op.fav = m
  PROVE  Agree(Append(q, op), a, m, h, f)
<1> DEFINE r == Append(q, op)
<1> SUFFICES ASSUME NEW i \in 1..Len(r), Concerns(r[i], a, f), ~PutAfter(r, i, a)
             PROVE  Writes(r[i], a, m, h)
  BY DEF Agree
<1>1. r[Len(q) + 1] = op /\ Len(q) + 1 \in 1..Len(r)
  BY AppendOf
<1>2. i = Len(q) + 1
  <2>1. CASE i \in 1..Len(q)
    <3>1. i < Len(q) + 1
      BY <2>1, AppendOf
    <3> QED BY <3>1, <1>1 DEF PutAfter
  <2> QED BY <2>1, AppendOf
<1> QED BY <1>1, <1>2 DEF Writes, IsPut

(* Agreement is about what transactions write, and about the hearts of the
   objects they write.                                                     *)
LEMMA SameAgrees ==
  ASSUME NEW q \in Seq(Op), NEW a, NEW m, NEW h, NEW k, NEW f, NEW g, Agree(q, a, m, h, f),
         \A i \in 1..Len(q) : IsTxn(q[i]) =>
           /\ a \in g[q[i].call].served => a \in f[q[i].call].served
           /\ h[<<a, q[i].call, "net">>] = k[<<a, q[i].call, "net">>]
  PROVE  Agree(q, a, m, k, g)
<1> SUFFICES ASSUME NEW i \in 1..Len(q), Concerns(q[i], a, g), ~PutAfter(q, i, a)
             PROVE  Writes(q[i], a, m, k)
  BY DEF Agree
<1>1. Concerns(q[i], a, f)
  BY DEF Concerns
<1>2. Writes(q[i], a, m, h)
  BY <1>1 DEF Agree
<1>3. q[i].kind # "put" => IsTxn(q[i])
  BY DEF Concerns, IsPut
<1> QED BY <1>2, <1>3 DEF Writes

(* A step that answers or asks a query.                                    *)
ReadMove(q, r) ==
  \/ r = q
  \/ \E op \in ReadOp : r = Append(q, op)
  \/ q # <<>> /\ IsRead(Head(q)) /\ r = Tail(q)
  \/ q # <<>> /\ IsRead(Head(q)) /\ \E op \in ReadOp : r = Append(Tail(q), op)

(* Such a step leaves the writers as they are.                             *)
LEMMA ReadMoves ==
  ASSUME NEW q \in Seq(Op), NEW r, ReadMove(q, r)
  PROVE  /\ r \in Seq(Op)
         /\ \A a \in Alias : HasPut(q, a) <=> HasPut(r, a)
         /\ \A i \in 1..Len(r) : IsTxn(r[i]) => \E j \in 1..Len(q) : q[j] = r[i]
         /\ \A a \in Alias : \A m, h, f : Agree(q, a, m, h, f) => Agree(r, a, m, h, f)
<1> DEFINE Good(s) == /\ s \in Seq(Op)
                      /\ \A a \in Alias : HasPut(q, a) <=> HasPut(s, a)
                      /\ \A i \in 1..Len(s) : IsTxn(s[i]) => \E j \in 1..Len(q) : q[j] = s[i]
                      /\ \A a \in Alias : \A m, h, f : Agree(q, a, m, h, f) => Agree(s, a, m, h, f)
<1>1. Good(q)
  OBVIOUS
<1>2. ASSUME q # <<>>, IsRead(Head(q)) PROVE Good(Tail(q))
  <2>1. Tail(q) \in Seq(Op) /\ \A i \in 1..Len(Tail(q)) : \E j \in 1..Len(q) : q[j] = Tail(q)[i]
    BY <1>2, TailOf
  <2>2. \A a \in Alias : ~IsPut(Head(q), a)
    BY <1>2, TailOf, OpKinds DEF IsPut
  <2>3. \A a \in Alias : HasPut(q, a) <=> HasPut(Tail(q), a)
    BY <1>2, <2>2, TailPuts
  <2>4. \A a \in Alias : \A m, h, f : Agree(q, a, m, h, f) => Agree(Tail(q), a, m, h, f)
    BY <1>2, TailAgrees
  <2> QED BY <2>1, <2>3, <2>4
<1>3. ASSUME NEW s, Good(s), NEW op \in ReadOp PROVE Good(Append(s, op))
  <2>1. op \in Op /\ ~IsTxn(op) /\ \A a : ~IsPut(op, a)
    BY OpKinds DEF Op, IsPut
  <2>2. \A a, f : ~Concerns(op, a, f)
    BY <2>1 DEF Concerns
  <2>3. s \in Seq(Op)
    BY <1>3
  <2>4. Append(s, op) \in Seq(Op)
    BY <2>1, <2>3, AppendOf
  <2>5. \A a \in Alias : HasPut(q, a) <=> HasPut(Append(s, op), a)
    BY <1>3, <2>1, <2>3, AppendPuts
  <2>6. ASSUME NEW i \in 1..Len(Append(s, op)), IsTxn(Append(s, op)[i])
        PROVE  \E j \in 1..Len(q) : q[j] = Append(s, op)[i]
    <3>1. i \in 1..Len(s) /\ Append(s, op)[i] = s[i]
      BY <2>1, <2>3, <2>6, AppendOf
    <3> QED BY <1>3, <2>6, <3>1
  <2>7. \A a \in Alias : \A m, h, f : Agree(q, a, m, h, f) => Agree(Append(s, op), a, m, h, f)
    <3> SUFFICES ASSUME NEW a \in Alias, NEW m, NEW h, NEW f, Agree(q, a, m, h, f)
                 PROVE  Agree(Append(s, op), a, m, h, f)
      OBVIOUS
    <3>1. Agree(s, a, m, h, f)
      BY <1>3
    <3> QED BY <2>1, <2>2, <2>3, <3>1, AppendAgrees
  <2> QED BY <2>4, <2>5, <2>6, <2>7
<1>4. Good(r)
  <2> HIDE DEF Good
  <2> QED BY <1>1, <1>2, <1>3 DEF ReadMove
<1> QED BY <1>4

(* Without the query of a call that was answered.                          *)
LEMMA TailKnown ==
  ASSUME NEW q \in Seq(Op), q # <<>>, NEW f, NEW g, ReadsKnown(q, f), IsRead(Head(q)),
         \A d \in Call : d # Head(q).call => g[d].pc = f[d].pc
  PROVE  /\ ReadsKnown(Tail(q), g)
         /\ \A i \in 1..Len(Tail(q)) : IsRead(Tail(q)[i]) => Tail(q)[i].call # Head(q).call
<1> DEFINE r == Tail(q)
<1>1. ASSUME NEW i \in 1..Len(r), IsRead(r[i])
      PROVE  /\ r[i].call # Head(q).call /\ r[i].call \in Call
             /\ g[r[i].call].pc = r[i].kind
  <2>1. i + 1 \in 1..Len(q) /\ r[i] = q[i + 1] /\ r[i] \in Op /\ Head(q) = q[1] /\ 1 \in 1..Len(q) /\ i + 1 # 1
    BY TailOf
  <2>2. r[i].call # Head(q).call
    BY <1>1, <2>1 DEF ReadsKnown
  <2>3. r[i].call \in Call
    BY <1>1, <2>1, OpKinds
  <2>4. f[r[i].call].pc = r[i].kind
    BY <1>1, <2>1 DEF ReadsKnown
  <2> QED BY <2>2, <2>3, <2>4
<1>2. ASSUME NEW i \in 1..Len(r), NEW j \in 1..Len(r), IsRead(r[i]), IsRead(r[j]), r[i].call = r[j].call
      PROVE  i = j
  <2>1. i + 1 \in 1..Len(q) /\ r[i] = q[i + 1] /\ j + 1 \in 1..Len(q) /\ r[j] = q[j + 1]
    BY TailOf
  <2>2. i + 1 = j + 1
    BY <1>2, <2>1 DEF ReadsKnown
  <2> QED BY <2>2
<1> QED BY <1>1, <1>2 DEF ReadsKnown

(* Without a write that is done.                                           *)
LEMMA TailStillKnown ==
  ASSUME NEW q \in Seq(Op), q # <<>>, NEW f, ReadsKnown(q, f)
  PROVE  ReadsKnown(Tail(q), f)
<1> DEFINE r == Tail(q)
<1>1. \A i \in 1..Len(r) : i + 1 \in 1..Len(q) /\ r[i] = q[i + 1]
  BY TailOf
<1>2. \A i \in 1..Len(r) : IsRead(r[i]) => f[r[i].call].pc = r[i].kind
  BY <1>1 DEF ReadsKnown
<1>3. ASSUME NEW i \in 1..Len(r), NEW j \in 1..Len(r), IsRead(r[i]), IsRead(r[j]), r[i].call = r[j].call
      PROVE  i = j
  <2>1. i + 1 = j + 1
    BY <1>1, <1>3 DEF ReadsKnown
  <2> QED BY <2>1
<1> QED BY <1>2, <1>3 DEF ReadsKnown

(* With a query more.                                                      *)
LEMMA AppendKnown ==
  ASSUME NEW q \in Seq(Op), NEW op \in Op, NEW f, ReadsKnown(q, f),
         IsRead(op) => /\ f[op.call].pc = op.kind
                       /\ \A i \in 1..Len(q) : IsRead(q[i]) => q[i].call # op.call
  PROVE  ReadsKnown(Append(q, op), f)
<1> DEFINE r == Append(q, op)
<1>1. \A i \in 1..Len(r) : (i \in 1..Len(q) /\ r[i] = q[i]) \/ (i = Len(q) + 1 /\ r[i] = op)
  BY AppendOf
<1>2. \A i \in 1..Len(r) : IsRead(r[i]) => f[r[i].call].pc = r[i].kind
  BY <1>1 DEF ReadsKnown
<1>3. ASSUME NEW i \in 1..Len(r), NEW j \in 1..Len(r), IsRead(r[i]), IsRead(r[j]), r[i].call = r[j].call
      PROVE  i = j
  BY <1>1, <1>3 DEF ReadsKnown
<1> QED BY <1>2, <1>3 DEF ReadsKnown

(* Calls that read nothing may go on.                                      *)
LEMMA SameKnown ==
  ASSUME NEW q \in Seq(Op), NEW f, NEW g, ReadsKnown(q, f),
         \A d \in Call : f[d].pc \in Reads => g[d].pc = f[d].pc
  PROVE  ReadsKnown(q, g)
<1>1. ASSUME NEW i \in 1..Len(q), IsRead(q[i]) PROVE g[q[i].call].pc = q[i].kind
  <2>1. q[i] \in Op /\ q[i].call \in Call /\ f[q[i].call].pc = q[i].kind
    BY <1>1, OpKinds DEF ReadsKnown
  <2> QED BY <1>1, <2>1 DEF IsRead
<1> QED BY <1>1 DEF ReadsKnown

(* The order of queries and taps is that of the queue.                     *)
LEMMA TailLast ==
  ASSUME NEW q \in Seq(Op), q # <<>>, NEW t, ReadsLast(q, t)
  PROVE  ReadsLast(Tail(q), t)
<1> DEFINE r == Tail(q)
<1> SUFFICES ASSUME NEW i \in 1..Len(r), NEW j \in 1..Len(r), i < j, IsRead(r[i]), r[j].kind = "put"
             PROVE  r[j].alias \in t
  BY DEF ReadsLast
<1>1. i + 1 \in 1..Len(q) /\ r[i] = q[i + 1] /\ j + 1 \in 1..Len(q) /\ r[j] = q[j + 1] /\ i + 1 < j + 1
  BY TailOf
<1> QED BY <1>1 DEF ReadsLast

(* A put comes after no query, or is one the code loses track of.          *)
LEMMA AppendLast ==
  ASSUME NEW q \in Seq(Op), NEW op \in Op, NEW t, ReadsLast(q, t),
         op.kind = "put" => op.alias \in t \/ \A i \in 1..Len(q) : ~IsRead(q[i])
  PROVE  ReadsLast(Append(q, op), t)
<1> DEFINE r == Append(q, op)
<1> SUFFICES ASSUME NEW i \in 1..Len(r), NEW j \in 1..Len(r), i < j, IsRead(r[i]), r[j].kind = "put"
             PROVE  r[j].alias \in t
  BY DEF ReadsLast
<1>1. \A n \in 1..Len(r) : (n \in 1..Len(q) /\ r[n] = q[n]) \/ (n = Len(q) + 1 /\ r[n] = op)
  BY AppendOf
<1>2. i \in 1..Len(q) /\ r[i] = q[i]
  BY <1>1
<1>3. CASE j \in 1..Len(q) /\ r[j] = q[j]
  BY <1>2, <1>3 DEF ReadsLast
<1>4. CASE r[j] = op
  BY <1>2, <1>4
<1> QED BY <1>1, <1>3, <1>4

(* More aliases the code lost track of.                                    *)
LEMMA MoreLast ==
  ASSUME NEW q \in Seq(Op), NEW t, NEW u, t \subseteq u, ReadsLast(q, t)
  PROVE  ReadsLast(q, u)
  BY DEF ReadsLast

(* Once a query is at the head no put is left that matters.                *)
LEMMA ReadFirst ==
  ASSUME NEW q \in Seq(Op), q # <<>>, NEW t, ReadsLast(q, t), IsRead(Head(q)), NEW a \in Alias \ t
  PROVE  ~HasPut(q, a)
<1> SUFFICES ASSUME NEW i \in 1..Len(q), IsPut(q[i], a) PROVE FALSE
  BY DEF HasPut
<1>1. Head(q) = q[1] /\ 1 \in 1..Len(q) /\ q[1] \in Op
  BY TailOf
<1>2. i # 1
  BY <1>1, OpKinds DEF IsPut
<1>3. 1 < i
  BY <1>2
<1> QED BY <1>1, <1>3 DEF ReadsLast, IsPut

(* Transactions before queries, of one call: in what is left, ...          *)
LEMMA TailApart ==
  ASSUME NEW q \in Seq(Op), q # <<>>, Apart(q)
  PROVE  Apart(Tail(q)) /\ (NoTxn(q) => NoTxn(Tail(q))) /\ (IsRead(Head(q)) => NoTxn(q))
<1> DEFINE r == Tail(q)
<1>1. \A i \in 1..Len(r) : i + 1 \in 1..Len(q) /\ r[i] = q[i + 1]
  BY TailOf
<1>2. Apart(r)
  <2> SUFFICES ASSUME NEW i \in 1..Len(r), NEW j \in 1..Len(r), IsTxn(r[j])
               PROVE  /\ IsRead(r[i]) => j < i
                      /\ IsTxn(r[i]) => r[i].call = r[j].call
    BY DEF Apart
  <2>1. IsRead(r[i]) => j + 1 < i + 1
    BY <1>1 DEF Apart
  <2>2. IsTxn(r[i]) => r[i].call = r[j].call
    BY <1>1 DEF Apart
  <2> QED BY <2>1, <2>2
<1>3. NoTxn(q) => NoTxn(r)
  BY <1>1 DEF NoTxn
<1>4. ASSUME IsRead(Head(q)) PROVE NoTxn(q)
  <2>1. Head(q) = q[1] /\ 1 \in 1..Len(q)
    BY TailOf
  <2> SUFFICES ASSUME NEW j \in 1..Len(q), IsTxn(q[j]) PROVE FALSE
    BY DEF NoTxn
  <2>2. j < 1
    BY <1>4, <2>1 DEF Apart
  <2> QED BY <2>2
<1> QED BY <1>2, <1>3, <1>4

(* ... and with an operation more.                                         *)
LEMMA AppendApart ==
  ASSUME NEW q \in Seq(Op), NEW op \in Op, Apart(q),
         IsTxn(op) => \A i \in 1..Len(q) : /\ ~IsRead(q[i])
                                           /\ IsTxn(q[i]) => q[i].call = op.call
  PROVE  Apart(Append(q, op)) /\ (NoTxn(q) /\ ~IsTxn(op) => NoTxn(Append(q, op)))
<1> DEFINE r == Append(q, op)
<1>1. \A n \in 1..Len(r) : (n \in 1..Len(q) /\ r[n] = q[n]) \/ (n = Len(q) + 1 /\ r[n] = op)
  BY AppendOf
<1>2. Len(q) \in Nat /\ (IsRead(op) => ~IsTxn(op))
  BY OpKinds
<1>3. Apart(r)
  <2> SUFFICES ASSUME NEW i \in 1..Len(r), NEW j \in 1..Len(r), IsTxn(r[j])
               PROVE  /\ IsRead(r[i]) => j < i
                      /\ IsTxn(r[i]) => r[i].call = r[j].call
    BY DEF Apart
  <2>1. CASE j \in 1..Len(q) /\ r[j] = q[j]
    <3>1. CASE i \in 1..Len(q) /\ r[i] = q[i]
      BY <2>1, <3>1 DEF Apart
    <3>2. CASE i = Len(q) + 1 /\ r[i] = op
      BY <2>1, <3>2
    <3> QED BY <1>1, <3>1, <3>2
  <2>2. CASE j = Len(q) + 1 /\ r[j] = op
    <3>1. CASE i \in 1..Len(q) /\ r[i] = q[i]
      BY <2>2, <3>1
    <3>2. CASE i = Len(q) + 1 /\ r[i] = op
      BY <1>2, <2>2, <3>2
    <3> QED BY <1>1, <3>1, <3>2
  <2> QED BY <1>1, <2>1, <2>2
<1>4. NoTxn(q) /\ ~IsTxn(op) => NoTxn(r)
  BY <1>1 DEF NoTxn
<1> QED BY <1>3, <1>4

-----------------------------------------------------------------------------
(* What a step keeps.                                                      *)

(* A transaction that waits is of a call that has its answer.              *)
LEMMA TxnDone ==
  ASSUME StoredInv, NEW i \in 1..Len(queue), IsTxn(queue[i])
  PROVE  /\ queue[i].call \in Call /\ At(queue[i].call, "done")
         /\ queue[i] \in TxnOp /\ queue[i].kind \in {"putAll", "replaceAll"}
         /\ call[queue[i].call].served \in SUBSET Alias
<1>1. queue \in Seq(Op) /\ call \in [Call -> Progress]
  BY DEF StoredInv, TypeOK
<1>2. queue[i] \in Op
  BY <1>1
<1>3. queue[i] \in TxnOp /\ queue[i].call \in Call
  BY <1>2, OpKinds
<1>4. queue[i] \in Transactions
  BY <1>3 DEF Transactions
<1>5. At(queue[i].call, "done")
  BY <1>4 DEF StoredInv, QueuedCataloguesServed
<1>6. call[queue[i].call].served \in SUBSET Alias
  BY <1>1, <1>3 DEF Progress
<1> QED BY <1>3, <1>5, <1>6 DEF IsTxn

(* The parts of the invariant.                                             *)
LEMMA FavParts ==
  ASSUME FavInv
  PROVE  /\ StoredInv /\ TypeOK /\ ObjInv /\ QueueInv /\ AloneInv /\ StartInv
         /\ \A a \in Alias \ tainted :
              /\ Listing(a) /\ ShowsHeart(a) /\ Settled(a) /\ RowsRead(a) /\ DroppedInv(a)
              /\ Agree(queue, a, Favourite(a), heart, call)
         /\ queue \in Seq(Op) /\ call \in [Call -> Progress]
  BY DEF FavInv, StoredInv, TypeOK, AliasInv

(* The object of an alias that a call makes of the server's answer.        *)
LEMMA NetObject ==
  ASSUME NEW a \in Alias, NEW c \in Call
  PROVE  /\ <<a, c, "net">> \in Obj /\ AliasOf(<<a, c, "net">>) = a
         /\ <<a, c, "net">>[3] = "net" /\ <<a, c, "net">>[2] = c
  BY DEF Obj, Source, AliasOf

(* Steps that leave an alias, its row and its writers alone.               *)
LEMMA AliasKept ==
  ASSUME FavInv, TypeOK', NEW a \in Alias \ tainted,
         favorites'[a] = favorites[a], rows'[a] = rows[a],
         \A o \in Obj : AliasOf(o) = a /\ heart[o] => heart'[o],
         \A c \in Call : At(c, "done") =>
           /\ call'[c] = call[c]
           /\ heart'[<<a, c, "net">>] = heart[<<a, c, "net">>],
         HasPut(queue, a) <=> HasPut(queue', a),
         Loaded' => Loaded, Past' \subseteq Past,
         \A i \in 1..Len(queue') : IsTxn(queue'[i]) => \E j \in 1..Len(queue) : queue[j] = queue'[i],
         Agree(queue, a, Favourite(a), heart, call) => Agree(queue', a, Favourite(a), heart, call)
  PROVE  /\ Listing(a)' /\ Settled(a)' /\ DroppedInv(a)'
         /\ Agree(queue', a, Favourite(a)', heart', call')
<1> USE FavParts
<1>1. Favourite(a)' = Favourite(a)
  BY DEF Favourite
<1>2. Listing(a)'
  <2>1. Listing(a) /\ favorites[a] \in Seq(Obj)
    BY DEF TypeOK
  <2>2. \A i \in 1..Len(favorites[a]) : favorites[a][i] \in Obj
    BY <2>1
  <2> QED BY <2>1, <2>2 DEF Listing
<1>3. Settled(a)'
  <2>1. Settled(a)
    OBVIOUS
  <2> QED BY <1>1, <2>1 DEF Settled
<1>4. \A i \in 1..Len(queue') : IsTxn(queue'[i]) =>
        /\ call'[queue'[i].call] = call[queue'[i].call]
        /\ heart'[<<a, queue'[i].call, "net">>] = heart[<<a, queue'[i].call, "net">>]
        /\ \E j \in 1..Len(queue) : queue[j] = queue'[i]
  <2> SUFFICES ASSUME NEW i \in 1..Len(queue'), IsTxn(queue'[i])
               PROVE  /\ call'[queue'[i].call] = call[queue'[i].call]
                      /\ heart'[<<a, queue'[i].call, "net">>] = heart[<<a, queue'[i].call, "net">>]
                      /\ \E j \in 1..Len(queue) : queue[j] = queue'[i]
    OBVIOUS
  <2>1. PICK j \in 1..Len(queue) : queue[j] = queue'[i]
    OBVIOUS
  <2>2. queue[j].call \in Call /\ At(queue[j].call, "done")
    BY <2>1, TxnDone
  <2> QED BY <2>1, <2>2
<1>5. DroppedInv(a)'
  <2> SUFFICES ASSUME Dropped(a)'
               PROVE  /\ Past' = {}
                      /\ \A i \in 1..Len(queue') : IsTxn(queue'[i]) => a \notin call'[queue'[i].call].served
    BY DEF DroppedInv
  <2>1. Dropped(a)
    BY <1>1 DEF Dropped, HasRow
  <2>2. /\ Past = {}
        /\ \A i \in 1..Len(queue) : IsTxn(queue[i]) => a \notin call[queue[i].call].served
    BY <2>1 DEF DroppedInv
  <2>3. Past' = {}
    BY <2>2
  <2>4. ASSUME NEW i \in 1..Len(queue'), IsTxn(queue'[i]) PROVE a \notin call'[queue'[i].call].served
    <3>1. PICK j \in 1..Len(queue) : queue[j] = queue'[i]
      BY <2>4
    <3>2. call'[queue'[i].call] = call[queue[j].call]
      BY <1>4, <2>4, <3>1
    <3> QED BY <2>2, <2>4, <3>1, <3>2
  <2> QED BY <2>3, <2>4
<1>6. Agree(queue', a, Favourite(a)', heart', call')
  <2>1. Agree(queue', a, Favourite(a), heart, call)
    OBVIOUS
  <2>2. queue' \in Seq(Op)
    BY DEF TypeOK
  <2>3. Agree(queue', a, Favourite(a), heart', call')
    BY <1>4, <2>1, <2>2, SameAgrees
  <2> QED BY <1>1, <2>3
<1> QED BY <1>2, <1>3, <1>5, <1>6

(* ... and the rows its transaction has read.                              *)
LEMMA RowsKept ==
  ASSUME FavInv, NEW a \in Alias \ tainted,
         captured'[a] = captured[a],
         began' => began /\ Head(queue') = Head(queue),
         \A c \in Call : At(c, "done") => heart'[<<a, c, "net">>] = heart[<<a, c, "net">>],
         HasPut(queue, a) => HasPut(queue', a)
  PROVE  RowsRead(a)'
<1> SUFFICES ASSUME began', ~HasPut(queue', a)
             PROVE  captured'[a] = heart'[<<a, Head(queue').call, "net">>]
  BY DEF RowsRead
<1>1. captured[a] = heart[<<a, Head(queue).call, "net">>]
  BY FavParts DEF RowsRead
<1>2. queue # <<>> /\ IsTxn(Head(queue))
  BY FavParts DEF QueueInv
<1>3. Head(queue) = queue[1] /\ 1 \in 1..Len(queue)
  BY <1>2, FavParts, TailOf
<1>4. Head(queue).call \in Call /\ At(Head(queue).call, "done")
  BY <1>2, <1>3, FavParts, TxnDone
<1> QED BY <1>1, <1>4

(* A step of a call that asks a query, is answered one, or does neither.   *)
CallMove(c) ==
  /\ began' = began /\ captured' = captured /\ rows' = rows /\ tainted' = tainted
  /\ \A d \in Call : d # c => call'[d] = call[d]
  /\ \/ queue' = queue /\ call[c].pc \notin Reads /\ call'[c].pc \notin Reads
     \/ /\ call[c].pc \notin Reads
        /\ \E k \in Reads : call'[c].pc = k /\ queue' = Append(queue, [kind |-> k, call |-> c])
     \/ /\ queue # <<>> /\ IsRead(Head(queue)) /\ Head(queue).call = c
        /\ \/ queue' = Tail(queue) /\ call'[c].pc \notin Reads
           \/ \E k \in Reads : call'[c].pc = k /\ queue' = Append(Tail(queue), [kind |-> k, call |-> c])

(* It keeps the order of the queue.                                        *)
LEMMA CallMoves ==
  ASSUME FavInv, NEW c \in Call, CallMove(c)
  PROVE  /\ QueueInv' /\ ReadMove(queue, queue')
         /\ began' => began /\ Head(queue') = Head(queue)
<1> USE FavParts
<1>0. /\ ReadsKnown(queue, call) /\ ReadsLast(queue, tainted)
      /\ began => queue # <<>> /\ IsTxn(Head(queue))
      /\ tainted' = tainted /\ began' = began /\ \A d \in Call : d # c => call'[d] = call[d]
  BY DEF QueueInv, CallMove
<1>1. ASSUME NEW k \in Reads
      PROVE  LET op == [kind |-> k, call |-> c] IN op \in ReadOp /\ op \in Op /\ IsRead(op) /\ op.call = c /\ op.kind = k /\ op.kind # "put"
  BY DEF ReadOp, Op, IsRead, Reads
<1>2. CASE queue' = queue /\ call[c].pc \notin Reads /\ call'[c].pc \notin Reads
  <2>1. ReadsKnown(queue', call')
    BY <1>0, <1>2, SameKnown
  <2> QED BY <1>0, <1>2, <2>1 DEF QueueInv, ReadMove
<1>3. ASSUME NEW k \in Reads, call[c].pc \notin Reads, call'[c].pc = k,
             queue' = Append(queue, [kind |-> k, call |-> c])
      PROVE  /\ QueueInv' /\ ReadMove(queue, queue')
             /\ began' => began /\ Head(queue') = Head(queue)
  <2> DEFINE op == [kind |-> k, call |-> c]
  <2>1. ReadsKnown(queue, call')
    BY <1>0, <1>3, SameKnown
  <2>2. \A i \in 1..Len(queue) : IsRead(queue[i]) => queue[i].call # c
    BY <1>0, <1>3 DEF ReadsKnown, IsRead
  <2>3. ReadsKnown(queue', call')
    BY <1>1, <1>3, <2>1, <2>2, AppendKnown
  <2>4. ReadsLast(queue', tainted)
    BY <1>0, <1>1, <1>3, AppendLast
  <2>5. began' => queue # <<>> /\ queue' # <<>> /\ Head(queue') = Head(queue)
    BY <1>0, <1>1, <1>3, AppendOf
  <2>6. ReadMove(queue, queue')
    BY <1>1, <1>3 DEF ReadMove
  <2> QED BY <1>0, <2>3, <2>4, <2>5, <2>6 DEF QueueInv
<1>4. ASSUME queue # <<>>, IsRead(Head(queue)), Head(queue).call = c
      PROVE  /\ ~began /\ ReadsLast(Tail(queue), tainted) /\ ReadsKnown(Tail(queue), call')
             /\ \A i \in 1..Len(Tail(queue)) : IsRead(Tail(queue)[i]) => Tail(queue)[i].call # c
             /\ Tail(queue) \in Seq(Op)
  <2>1. ~began
    BY <1>0, <1>4, TailOf, OpKinds
  <2>2. ReadsLast(Tail(queue), tainted)
    BY <1>0, <1>4, TailLast
  <2>3. /\ ReadsKnown(Tail(queue), call')
        /\ \A i \in 1..Len(Tail(queue)) : IsRead(Tail(queue)[i]) => Tail(queue)[i].call # c
    BY <1>0, <1>4, TailKnown
  <2> QED BY <1>4, <2>1, <2>2, <2>3, TailOf
<1>5. CASE queue # <<>> /\ IsRead(Head(queue)) /\ Head(queue).call = c /\ queue' = Tail(queue)
  BY <1>0, <1>4, <1>5 DEF QueueInv, ReadMove
<1>6. ASSUME NEW k \in Reads, queue # <<>>, IsRead(Head(queue)), Head(queue).call = c, call'[c].pc = k,
             queue' = Append(Tail(queue), [kind |-> k, call |-> c])
      PROVE  /\ QueueInv' /\ ReadMove(queue, queue')
             /\ began' => began /\ Head(queue') = Head(queue)
  <2>1. /\ ~began /\ ReadsLast(Tail(queue), tainted) /\ ReadsKnown(Tail(queue), call')
        /\ \A i \in 1..Len(Tail(queue)) : IsRead(Tail(queue)[i]) => Tail(queue)[i].call # c
        /\ Tail(queue) \in Seq(Op)
    BY <1>4, <1>6
  <2>2. ReadsKnown(queue', call')
    BY <1>1, <1>6, <2>1, AppendKnown
  <2>3. ReadsLast(queue', tainted)
    BY <1>1, <1>6, <2>1, AppendLast
  <2>4. ReadMove(queue, queue')
    BY <1>1, <1>6 DEF ReadMove
  <2> QED BY <1>0, <2>1, <2>2, <2>3, <2>4 DEF QueueInv
<1> QED BY <1>2, <1>3, <1>5, <1>6 DEF CallMove

(* What a step is to keep, besides StoredInv.                              *)
FavKept ==
  /\ ObjInv' /\ QueueInv' /\ AloneInv' /\ StartInv'
  /\ \A a \in Alias \ tainted' : AliasInv(a)'

(* One refresh at a time, while queries are asked and answered.            *)
LEMMA AloneMoves ==
  ASSUME FavInv, ReadMove(queue, queue'),
         ~overlapped' => ~overlapped /\ \A d, e \in InFlight' : d = e,
         Past' \subseteq Past \/ (queue # <<>> /\ IsRead(Head(queue)))
  PROVE  AloneInv'
<1> USE FavParts
<1> SUFFICES ASSUME ~overlapped' PROVE Apart(queue') /\ (Past' # {} => NoTxn(queue'))
  BY DEF AloneInv
<1>1. Apart(queue) /\ (Past # {} => NoTxn(queue))
  BY DEF AloneInv
<1>2. Apart(queue') /\ (NoTxn(queue) => NoTxn(queue'))
  <2>1. CASE queue' = queue
    BY <1>1, <2>1
  <2>2. ASSUME NEW q \in Seq(Op), Apart(q), NEW op \in ReadOp
        PROVE  Apart(Append(q, op)) /\ (NoTxn(q) => NoTxn(Append(q, op)))
    <3>1. op \in Op /\ ~IsTxn(op)
      BY OpKinds DEF Op
    <3> QED BY <2>2, <3>1, AppendApart
  <2>3. queue # <<>> => Tail(queue) \in Seq(Op) /\ Apart(Tail(queue)) /\ (NoTxn(queue) => NoTxn(Tail(queue)))
    BY <1>1, TailOf, TailApart
  <2> QED BY <1>1, <2>1, <2>2, <2>3 DEF ReadMove
<1>3. queue # <<>> /\ IsRead(Head(queue)) => NoTxn(queue)
  BY <1>1, TailApart
<1> QED BY <1>1, <1>2, <1>3

(* Calls that move without a change of favorites.                          *)
LEMMA MoveKeeps ==
  ASSUME FavInv, TypeOK', NEW c \in Call, CallMove(c),
         favorites' = favorites, page' = page,
         \A o \in Obj : (heart[o] => heart'[o]) /\ (o[3] = "net" => heart'[o] = heart[o]),
         call[c].pc # "done", call'[c].pc # "done",
         Loaded' <=> Loaded, Past' \subseteq Past,
         \A o \in medias' : o \in medias \/ o[3] # "net",
         \A o, p \in medias' : AliasOf(o) = AliasOf(p) => o = p,
         ~Loaded => medias' = {},
         \A o \in chartList' : o \in chartList \/ o[3] # "net",
         ~overlapped' => ~overlapped /\ \A d, e \in InFlight' : d = e,
         \A a \in Alias \ tainted : ShowsHeart(a)'
  PROVE  FavKept
<1> USE FavParts
<1>1. /\ QueueInv' /\ ReadMove(queue, queue')
      /\ began' => began /\ Head(queue') = Head(queue)
  BY CallMoves
<1>2. /\ began' = began /\ captured' = captured /\ rows' = rows /\ tainted' = tainted
      /\ \A d \in Call : d # c => call'[d] = call[d]
  BY DEF CallMove
<1>3. /\ \A a \in Alias : HasPut(queue, a) <=> HasPut(queue', a)
      /\ \A i \in 1..Len(queue') : IsTxn(queue'[i]) => \E j \in 1..Len(queue) : queue[j] = queue'[i]
      /\ \A a \in Alias : \A m, h, f : Agree(queue, a, m, h, f) => Agree(queue', a, m, h, f)
  BY <1>1, ReadMoves
<1>4. AloneInv'
  BY <1>1, AloneMoves
<1>5. ObjInv'
  <2>1. Listed' = Listed
    BY DEF Listed
  <2>2. \A o \in Held : o[3] = "net" => At(o[2], "done") /\ o \in Obj
    BY DEF ObjInv, Held, TypeOK, Listed
  <2>3. \A o \in Held' : o[3] = "net" => At(o[2], "done")'
    <3> SUFFICES ASSUME NEW o \in Held', o[3] = "net" PROVE At(o[2], "done")'
      OBVIOUS
    <3>1. o \in Held
      BY <2>1 DEF Held
    <3>2. At(o[2], "done") /\ o[2] \in Call
      BY <2>2, <3>1 DEF Obj
    <3> QED BY <1>2, <3>2 DEF At
  <2>4. \A o \in Obj : o[3] = "net" /\ ~At(o[2], "done")' => ~heart'[o]
    <3> SUFFICES ASSUME NEW o \in Obj, o[3] = "net", ~At(o[2], "done")' PROVE ~heart[o]
      OBVIOUS
    <3>1. o[2] \in Call
      BY DEF Obj
    <3>2. ~At(o[2], "done")
      BY <1>2, <3>1 DEF At
    <3> QED BY <3>2 DEF ObjInv
  <2> QED BY <2>3, <2>4 DEF ObjInv
<1>6. StartInv'
  BY <1>2, <1>3 DEF StartInv
<1>7. ASSUME NEW a \in Alias \ tainted PROVE AliasInv(a)'
  <2>1. \A d \in Call : At(d, "done") => call'[d] = call[d] /\ heart'[<<a, d, "net">>] = heart[<<a, d, "net">>]
    BY <1>2, NetObject DEF At
  <2>2. \A o \in Obj : AliasOf(o) = a /\ heart[o] => heart'[o]
    OBVIOUS
  <2>3. /\ Listing(a)' /\ Settled(a)' /\ DroppedInv(a)'
        /\ Agree(queue', a, Favourite(a)', heart', call')
    BY <1>2, <1>3, <2>1, <2>2, AliasKept
  <2>4. RowsRead(a)'
    BY <1>1, <1>2, <1>3, <2>1, RowsKept
  <2> QED BY <2>3, <2>4 DEF AliasInv
<1> QED BY <1>1, <1>2, <1>4, <1>5, <1>6, <1>7 DEF FavKept

(* What a query answers: its call was waiting for it.                      *)
LEMMA AnsweredHead ==
  ASSUME FavInv, NEW c \in Call, NEW k \in Reads, Answered(k, c)
  PROVE  /\ queue # <<>> /\ IsRead(Head(queue)) /\ Head(queue).call = c /\ call[c].pc = k
         /\ began' = began /\ captured' = captured /\ rows' = rows /\ tainted' = tainted /\ overlapped' = overlapped
         /\ \A a \in Alias \ tainted : ~HasPut(queue, a)
         /\ ~began
<1> USE FavParts
<1>1. /\ queue # <<>> /\ IsRead(Head(queue)) /\ Head(queue).call = c /\ call[c].pc = k
      /\ began' = began /\ captured' = captured /\ rows' = rows /\ tainted' = tainted /\ overlapped' = overlapped
  BY DEF Answered, IsRead, disk, history, At
<1>2. \A a \in Alias \ tainted : ~HasPut(queue, a)
  BY <1>1, ReadFirst DEF QueueInv
<1>3. ~began
  BY <1>1, TailOf, OpKinds DEF QueueInv
<1> QED BY <1>1, <1>2, <1>3

(* The calls under way that read, and the ones after favorites, when one
   call moves.                                                             *)
LEMMA Moved ==
  ASSUME TypeOK, NEW c \in Call, \A d \in Call : d # c => call'[d] = call[d]
  PROVE  /\ (call'[c].pc \in {"cats", "groups", "items", "net"} => call[c].pc \in {"cats", "groups", "items", "net"})
              => Past' \subseteq Past
         /\ (call'[c].pc \notin {"idle", "done", "failed"} => call[c].pc \notin {"idle", "done", "failed"})
              => InFlight' \subseteq InFlight
         /\ (call'[c].pc \in {"cats", "groups", "items", "net", "done", "failed"}
               <=> call[c].pc \in {"cats", "groups", "items", "net", "done", "failed"}) => (Loaded' <=> Loaded)
         /\ call'[c].pc \in {"cats", "groups", "items", "net", "done", "failed"} => Loaded'
         /\ (call'[c].pc \in Reads <=> call[c].pc \in Reads) => Loading' = Loading
         /\ call'[c].pc \in Reads => Loading' # {}
  BY DEF Past, InFlight, Loaded, Loading
(* A catalogue that stays on screen still shows the favourites.            *)
LEMMA StillShown ==
  ASSUME FavInv, NEW a \in Alias \ tainted,
         favorites'[a] = favorites[a], medias' \subseteq medias,
         \A o \in Obj : AliasOf(o) = a /\ heart[o] => heart'[o],
         Loading' = {} => Loading = {}
  PROVE  ShowsHeart(a)'
<1>1. ShowsHeart(a) /\ medias \subseteq Obj
  BY FavParts DEF TypeOK
<1> QED BY <1>1 DEF ShowsHeart, Favourite

-----------------------------------------------------------------------------
(* The steps of a refresh.                                                 *)

(* Starting one.                                                           *)
LEMMA FavStart ==
  ASSUME FavInv, TypeOK', NEW c \in Call, StartRefresh(c)
  PROVE  FavKept
<1> USE FavParts
<1>1. /\ call[c].pc = "idle" /\ call'[c].pc = "chart"
      /\ \A d \in Call : d # c => call'[d] = call[d]
      /\ queue' = queue /\ began' = began /\ captured' = captured /\ rows' = rows /\ tainted' = tainted
      /\ favorites' = favorites /\ page' = page /\ heart' = heart /\ medias' = medias /\ chartList' = chartList
      /\ overlapped' = (overlapped \/ InFlight # {})
  BY DEF StartRefresh, db, disk, At, TypeOK, Progress
<1>2. CallMove(c)
  BY <1>1 DEF CallMove, Reads
<1>3. (Loaded' <=> Loaded) /\ Past' \subseteq Past /\ Loading' = Loading
  BY <1>1, Moved DEF TypeOK, Reads
<1>4. ~overlapped' => ~overlapped /\ \A d, e \in InFlight' : d = e
  <2>1. InFlight = {} => \A d \in InFlight' : d = c
    BY <1>1 DEF InFlight
  <2>2. ~overlapped' => ~overlapped /\ InFlight = {}
    BY <1>1 DEF TypeOK
  <2> QED BY <2>1, <2>2
<1>5. \A a \in Alias \ tainted : ShowsHeart(a)'
  BY <1>1, <1>3, StillShown
<1>6. \A o, p \in medias' : AliasOf(o) = AliasOf(p) => o = p
  BY <1>1 DEF ObjInv
<1>7. ~Loaded => medias' = {}
  BY <1>1 DEF StartInv
<1> QED BY <1>1, <1>2, <1>3, <1>4, <1>5, <1>6, <1>7, MoveKeeps

(* Calls under way stay alone when no call starts.                         *)
LEMMA StillAlone ==
  ASSUME FavInv, overlapped' = overlapped, InFlight' \subseteq InFlight
  PROVE  ~overlapped' => ~overlapped /\ \A d, e \in InFlight' : d = e
  BY FavParts DEF AloneInv

(* The top chart.                                                          *)
LEMMA FavChart ==
  ASSUME FavInv, TypeOK', NEW c \in Call, ChartReply(c)
  PROVE  FavKept
<1> USE FavParts
<1>1. /\ call[c].pc = "chart" /\ call'[c].pc = "favs"
      /\ \A d \in Call : d # c => call'[d] = call[d]
      /\ queue' = Append(queue, [kind |-> "favs", call |-> c])
      /\ began' = began /\ captured' = captured /\ rows' = rows /\ tainted' = tainted
      /\ favorites' = favorites /\ page' = page /\ heart' = heart /\ medias' = medias
      /\ overlapped' = overlapped
  BY DEF ChartReply, Ask, disk, history, At, TypeOK, Progress
<1>2. CallMove(c)
  BY <1>1 DEF CallMove, Reads
<1>3. (Loaded' <=> Loaded) /\ Past' \subseteq Past /\ Loading' # {} /\ InFlight' \subseteq InFlight
  BY <1>1, Moved DEF TypeOK, Reads
<1>4. ~overlapped' => ~overlapped /\ \A d, e \in InFlight' : d = e
  BY <1>1, <1>3, StillAlone
<1>5. \A a \in Alias \ tainted : ShowsHeart(a)'
  BY <1>3 DEF ShowsHeart
<1>6. \A o, p \in medias' : AliasOf(o) = AliasOf(p) => o = p
  BY <1>1 DEF ObjInv
<1>7. ~Loaded => medias' = {}
  BY <1>1 DEF StartInv
<1>8. \A o \in chartList' : o[3] # "net"
  BY DEF ChartReply
<1> QED BY <1>1, <1>2, <1>3, <1>4, <1>5, <1>6, <1>7, <1>8, MoveKeeps

(* An install without categories.                                          *)
LEMMA FavCatsNone ==
  ASSUME FavInv, TypeOK', NEW c \in Call, CatsReplyNone(c)
  PROVE  FavKept
<1> USE FavParts
<1>1. Answered("cats", c) /\ "cats" \in Reads
  BY DEF CatsReplyNone, Reads
<1>2. /\ queue # <<>> /\ IsRead(Head(queue)) /\ Head(queue).call = c /\ call[c].pc = "cats"
      /\ began' = began /\ captured' = captured /\ rows' = rows /\ tainted' = tainted /\ overlapped' = overlapped
  BY <1>1, AnsweredHead
<1>3. /\ call'[c].pc = "net" /\ queue' = Tail(queue)
      /\ \A d \in Call : d # c => call'[d] = call[d]
      /\ favorites' = favorites /\ page' = page /\ heart' = heart /\ medias' = {} /\ chartList' = chartList
  BY DEF CatsReplyNone, TypeOK, Progress
<1>4. CallMove(c)
  BY <1>2, <1>3 DEF CallMove, Reads
<1>5. (Loaded' <=> Loaded) /\ Past' \subseteq Past /\ InFlight' \subseteq InFlight
  BY <1>2, <1>3, Moved DEF TypeOK
<1>6. ~overlapped' => ~overlapped /\ \A d, e \in InFlight' : d = e
  BY <1>2, <1>5, StillAlone
<1>7. \A a \in Alias \ tainted : ShowsHeart(a)'
  BY <1>3 DEF ShowsHeart
<1> QED BY <1>2, <1>3, <1>4, <1>5, <1>6, <1>7, MoveKeeps

(* The queries of the categories and the groups.                           *)
LEMMA FavQuery ==
  ASSUME FavInv, TypeOK', NEW c \in Call, CatsReplySome(c) \/ GroupsReply(c)
  PROVE  FavKept
<1> USE FavParts
<1>1. PICK k \in {"cats", "groups"} : Answered(k, c) /\ k \in Reads
  BY DEF CatsReplySome, GroupsReply, Reads
<1>2. /\ queue # <<>> /\ IsRead(Head(queue)) /\ Head(queue).call = c /\ call[c].pc = k
      /\ began' = began /\ captured' = captured /\ rows' = rows /\ tainted' = tainted /\ overlapped' = overlapped
  BY <1>1, AnsweredHead
<1>3. /\ \E n \in {"groups", "items"} : call'[c].pc = n /\ queue' = Append(Tail(queue), [kind |-> n, call |-> c])
      /\ \A d \in Call : d # c => call'[d] = call[d]
      /\ favorites' = favorites /\ page' = page /\ heart' = heart /\ medias' = medias /\ chartList' = chartList
  BY DEF CatsReplySome, GroupsReply, ThenAsk, TypeOK, Progress
<1>4. CallMove(c)
  BY <1>2, <1>3 DEF CallMove, Reads
<1>5. (Loaded' <=> Loaded) /\ Past' \subseteq Past /\ InFlight' \subseteq InFlight /\ Loading' # {}
  BY <1>2, <1>3, Moved DEF TypeOK, Reads
<1>6. ~overlapped' => ~overlapped /\ \A d, e \in InFlight' : d = e
  BY <1>2, <1>5, StillAlone
<1>7. \A a \in Alias \ tainted : ShowsHeart(a)'
  BY <1>5 DEF ShowsHeart
<1>8. call'[c].pc # "done"
  BY <1>3
<1>9. \A o, p \in medias' : AliasOf(o) = AliasOf(p) => o = p
  BY <1>3 DEF ObjInv
<1>10. ~Loaded => medias' = {}
  BY <1>3 DEF StartInv
<1> QED BY <1>2, <1>3, <1>4, <1>5, <1>6, <1>7, <1>8, <1>9, <1>10, MoveKeeps

(* The items: the rows a favourite has are those of a favourite.           *)
LEMMA FavItems ==
  ASSUME FavInv, TypeOK', NEW c \in Call, ItemsReply(c)
  PROVE  FavKept
<1> USE FavParts
<1> DEFINE shown == {a \in Alias : rows[a] # "absent" /\ GroupOf[a] \in call[c].groups}
<1>1. Answered("items", c) /\ "items" \in Reads
  BY DEF ItemsReply, Reads
<1>2. /\ queue # <<>> /\ IsRead(Head(queue)) /\ Head(queue).call = c /\ call[c].pc = "items"
      /\ began' = began /\ captured' = captured /\ rows' = rows /\ tainted' = tainted /\ overlapped' = overlapped
      /\ \A a \in Alias \ tainted : ~HasPut(queue, a)
  BY <1>1, AnsweredHead
<1>3. /\ call'[c].pc = "net" /\ queue' = Tail(queue)
      /\ \A d \in Call : d # c => call'[d] = call[d]
      /\ favorites' = favorites /\ page' = page /\ chartList' = chartList
  BY DEF ItemsReply, TypeOK, Progress
<1>4. /\ medias' = shown \X {c} \X {"db"}
      /\ heart' = [o \in Obj |-> heart[o] \/ (o \in shown \X {c} \X {"db"} /\ rows[AliasOf(o)] = "fav")]
  BY DEF ItemsReply, RowHearts
<1>5. CallMove(c)
  BY <1>2, <1>3 DEF CallMove, Reads
<1>6. (Loaded' <=> Loaded) /\ Past' \subseteq Past /\ InFlight' \subseteq InFlight
  BY <1>2, <1>3, Moved DEF TypeOK
<1>7. ~overlapped' => ~overlapped /\ \A d, e \in InFlight' : d = e
  BY <1>2, <1>6, StillAlone
<1>8. \A o \in Obj : (heart[o] => heart'[o]) /\ (o[3] = "net" => heart'[o] = heart[o])
  <2> SUFFICES ASSUME NEW o \in Obj PROVE (heart[o] => heart'[o]) /\ (o[3] = "net" => heart'[o] = heart[o])
    OBVIOUS
  <2>1. heart'[o] = (heart[o] \/ (o \in shown \X {c} \X {"db"} /\ rows[AliasOf(o)] = "fav"))
    BY <1>4
  <2>2. heart[o] \in BOOLEAN /\ (o \in shown \X {c} \X {"db"} => o[3] = "db")
    BY DEF TypeOK
  <2> HIDE DEF shown
  <2> QED BY <2>1, <2>2
<1>9. \A o \in medias' : o[3] # "net" /\ o[1] \in shown /\ o = <<o[1], c, "db">>
  BY <1>4
<1>10. \A o, p \in medias' : AliasOf(o) = AliasOf(p) => o = p
  BY <1>9 DEF AliasOf
<1>11. Loaded
  BY <1>2 DEF Loaded
<1>12. \A a \in Alias \ tainted : ShowsHeart(a)'
  <2> SUFFICES ASSUME NEW a \in Alias \ tainted, Favourite(a)', NEW o \in medias', AliasOf(o) = a
               PROVE  heart'[o]
    BY DEF ShowsHeart
  <2>1. Favourite(a) /\ a \in shown /\ o \in shown \X {c} \X {"db"}
    BY <1>3, <1>4, <1>9 DEF Favourite, AliasOf
  <2>2. rows[a] = "fav"
    BY <1>2, <1>11, <2>1 DEF Settled
  <2>3. o \in Obj
    BY DEF TypeOK
  <2> QED BY <1>4, <2>1, <2>2, <2>3
<1> QED BY <1>2, <1>3, <1>5, <1>6, <1>7, <1>8, <1>9, <1>10, <1>11, <1>12, MoveKeeps

(* A failed answer.                                                        *)
LEMMA FavFail ==
  ASSUME FavInv, TypeOK', NEW c \in Call, NetFail(c)
  PROVE  FavKept
<1> USE FavParts
<1>1. /\ call[c].pc = "net" /\ call'[c].pc = "failed"
      /\ \A d \in Call : d # c => call'[d] = call[d]
      /\ queue' = queue /\ began' = began /\ captured' = captured /\ rows' = rows /\ tainted' = tainted
      /\ favorites' = favorites /\ page' = page /\ heart' = heart /\ medias' = medias /\ chartList' = chartList
      /\ overlapped' = overlapped
  BY DEF NetFail, db, disk, history, At, TypeOK, Progress
<1>2. CallMove(c)
  BY <1>1 DEF CallMove, Reads
<1>3. (Loaded' <=> Loaded) /\ Past' \subseteq Past /\ Loading' = Loading /\ InFlight' \subseteq InFlight
  BY <1>1, Moved DEF TypeOK, Reads
<1>4. ~overlapped' => ~overlapped /\ \A d, e \in InFlight' : d = e
  BY <1>1, <1>3, StillAlone
<1>5. \A a \in Alias \ tainted : ShowsHeart(a)'
  BY <1>1, <1>3, StillShown
<1>6. \A o, p \in medias' : AliasOf(o) = AliasOf(p) => o = p
  BY <1>1 DEF ObjInv
<1>7. ~Loaded => medias' = {}
  BY <1>1 DEF StartInv
<1> QED BY <1>1, <1>2, <1>3, <1>4, <1>5, <1>6, <1>7, MoveKeeps

(* The favorites are read from the rows: what memory says of a favourite
   changes only for one whose row is gone and no writer brings back.       *)
LEMMA FavFavs ==
  ASSUME FavInv, TypeOK', NEW c \in Call, FavsReply(c)
  PROVE  FavKept
<1> USE FavParts
<1> DEFINE favs == {a \in Alias : rows[a] = "fav"}
<1>1. Answered("favs", c) /\ "favs" \in Reads
  BY DEF FavsReply, Reads
<1>2. /\ queue # <<>> /\ IsRead(Head(queue)) /\ Head(queue).call = c /\ call[c].pc = "favs"
      /\ began' = began /\ captured' = captured /\ rows' = rows /\ tainted' = tainted /\ overlapped' = overlapped
      /\ \A a \in Alias \ tainted : ~HasPut(queue, a)
      /\ ~began
  BY <1>1, AnsweredHead
<1>3. /\ call'[c].pc = "cats" /\ queue' = Append(Tail(queue), [kind |-> "cats", call |-> c])
      /\ \A d \in Call : d # c => call'[d] = call[d]
      /\ medias' = medias /\ page' = page /\ chartList' = chartList
  BY DEF FavsReply, ThenAsk, TypeOK, Progress
<1>4. /\ favorites' = [a \in Alias |-> IF a \in favs THEN << <<a, c, "fav">> >> ELSE <<>>]
      /\ heart' = [o \in Obj |-> heart[o] \/ (o \in favs \X {c} \X {"fav"} /\ rows[AliasOf(o)] = "fav")]
  BY DEF FavsReply, RowHearts
<1>5. CallMove(c)
  BY <1>2, <1>3 DEF CallMove, Reads
<1>6. Loaded' /\ InFlight' \subseteq InFlight /\ Loading' # {}
  BY <1>2, <1>3, Moved DEF TypeOK, Reads
<1>7. QueueInv' /\ ReadMove(queue, queue')
  BY <1>5, CallMoves
<1>8. AloneInv'
  <2>1. ~overlapped' => ~overlapped /\ \A d, e \in InFlight' : d = e
    BY <1>2, <1>6, StillAlone
  <2> QED BY <1>2, <1>7, <2>1, AloneMoves
<1>9. /\ \A a \in Alias : HasPut(queue, a) <=> HasPut(queue', a)
      /\ \A i \in 1..Len(queue') : IsTxn(queue'[i]) => \E j \in 1..Len(queue) : queue[j] = queue'[i]
      /\ \A a \in Alias : \A m, h, f : Agree(queue, a, m, h, f) => Agree(queue', a, m, h, f)
  BY <1>7, ReadMoves
<1>10. \A o \in Obj : (heart[o] => heart'[o]) /\ (o[3] = "net" => heart'[o] = heart[o])
  <2> SUFFICES ASSUME NEW o \in Obj PROVE (heart[o] => heart'[o]) /\ (o[3] = "net" => heart'[o] = heart[o])
    OBVIOUS
  <2>1. heart'[o] = (heart[o] \/ (o \in favs \X {c} \X {"fav"} /\ rows[AliasOf(o)] = "fav"))
    BY <1>4
  <2>2. heart[o] \in BOOLEAN /\ (o \in favs \X {c} \X {"fav"} => o[3] = "fav")
    BY DEF TypeOK
  <2> HIDE DEF favs
  <2> QED BY <2>1, <2>2
<1>11. ObjInv'
  <2>1. \A o \in Listed' : o[3] = "fav"
    <3> SUFFICES ASSUME NEW o \in Listed' PROVE o[3] = "fav"
      OBVIOUS
    <3>1. o \in Obj /\ AliasOf(o) \in Alias
      BY DEF Listed, AliasOf, Obj
    <3>2. PICK i \in 1..Len(favorites'[AliasOf(o)]) : favorites'[AliasOf(o)][i] = o
      BY DEF Listed, AliasOf
    <3>3. favorites'[AliasOf(o)] = << <<AliasOf(o), c, "fav">> >> \/ favorites'[AliasOf(o)] = <<>>
      BY <1>4, <3>1
    <3>4. o = <<AliasOf(o), c, "fav">>
      BY <3>2, <3>3
    <3> QED BY <3>4
  <2>2. \A d \in Call : At(d, "done") => At(d, "done")'
    BY <1>2, <1>3 DEF At
  <2>3. \A o \in Held' : o[3] = "net" => At(o[2], "done")'
    <3> SUFFICES ASSUME NEW o \in Held', o[3] = "net" PROVE At(o[2], "done")'
      OBVIOUS
    <3>1. o \in Held /\ o \in Obj
      BY <1>3, <2>1 DEF Held, TypeOK
    <3> QED BY <2>2, <3>1 DEF ObjInv, Obj
  <2>4. \A o \in Obj : o[3] = "net" /\ ~At(o[2], "done")' => ~heart'[o]
    <3> SUFFICES ASSUME NEW o \in Obj, o[3] = "net", ~At(o[2], "done")' PROVE ~heart[o]
      BY <1>10
    <3>1. ~At(o[2], "done")
      BY <2>2 DEF Obj
    <3> QED BY <3>1 DEF ObjInv
  <2> QED BY <1>3, <2>3, <2>4 DEF ObjInv
<1>12. StartInv'
  BY <1>6 DEF StartInv
<1>13. ASSUME NEW a \in Alias \ tainted PROVE AliasInv(a)'
  <2>1. Favourite(a)' <=> rows[a] = "fav"
    BY <1>4 DEF Favourite
  <2>2. Listing(a)'
    <3>1. CASE rows[a] = "fav"
      <4>1. favorites'[a] = << <<a, c, "fav">> >> /\ <<a, c, "fav">> \in Obj /\ <<a, c, "fav">> \in favs \X {c} \X {"fav"}
        BY <1>4, <3>1 DEF Obj, Source
      <4>2. heart'[<<a, c, "fav">>] /\ AliasOf(<<a, c, "fav">>) = a
        BY <1>4, <3>1, <4>1 DEF AliasOf
      <4> QED BY <4>1, <4>2 DEF Listing
    <3>2. CASE rows[a] # "fav"
      <4>1. favorites'[a] = <<>>
        BY <1>4, <3>2
      <4> QED BY <4>1 DEF Listing
    <3> QED BY <3>1, <3>2
  <2>3. ShowsHeart(a)'
    BY <1>6 DEF ShowsHeart
  <2>4. Settled(a)'
    BY <1>2, <2>1 DEF Settled
  <2>5. RowsRead(a)'
    BY <1>2 DEF RowsRead
  <2>6. DroppedInv(a)'
    BY <1>2, <2>1 DEF DroppedInv, Dropped, HasRow
  <2>7. \A i \in 1..Len(queue) : IsTxn(queue[i]) =>
          /\ call'[queue[i].call] = call[queue[i].call]
          /\ heart'[<<a, queue[i].call, "net">>] = heart[<<a, queue[i].call, "net">>]
    BY <1>2, <1>3, <1>10, NetObject, TxnDone DEF At
  <2>8. Agree(queue, a, Favourite(a)', heart', call')
    <3>1. CASE Favourite(a)' = Favourite(a)
      <4>1. Agree(queue, a, Favourite(a), heart, call)
        OBVIOUS
      <4>2. Agree(queue, a, Favourite(a), heart', call')
        BY <2>7, <4>1, SameAgrees
      <4> QED BY <3>1, <4>2
    <3>2. CASE \A i \in 1..Len(queue) : IsTxn(queue[i]) => a \notin call[queue[i].call].served
      BY <1>2, <2>7, <3>2 DEF Agree, Concerns, HasPut
    <3>3. CASE Loaded /\ Favourite(a)' # Favourite(a)
      <4>1. Favourite(a) /\ rows[a] = "absent"
        BY <1>2, <2>1, <3>3 DEF Settled, Favourite
      <4>2. \A i \in 1..Len(queue) : IsTxn(queue[i]) => a \notin call[queue[i].call].served
        BY <1>2, <4>1 DEF DroppedInv, Dropped, HasRow
      <4> QED BY <3>2, <4>2
    <3>4. CASE ~Loaded
      <4>1. \A i \in 1..Len(queue) : ~IsTxn(queue[i])
        BY <3>4, TxnDone DEF Loaded, At
      <4> QED BY <3>2, <4>1
    <3> QED BY <3>1, <3>3, <3>4 DEF Favourite
  <2>9. Agree(queue', a, Favourite(a)', heart', call')
    BY <1>9, <2>8
  <2> QED BY <2>2, <2>3, <2>4, <2>5, <2>6, <2>9 DEF AliasInv
<1> QED BY <1>2, <1>7, <1>8, <1>11, <1>12, <1>13 DEF FavKept

(* Two operations added one after the other.                               *)
LEMMA AppendTwo ==
  ASSUME NEW q \in Seq(Op), NEW x \in Op, NEW y \in Op
  PROVE  q \o <<x, y>> = Append(Append(q, x), y)
  OBVIOUS

(* The answer of the server: its objects take their hearts from favorites,
   and so do the rows the two transactions will write.                     *)
LEMMA FavNet ==
  ASSUME FavInv, TypeOK', NEW c \in Call, NetReply(c)
  PROVE  FavKept
<1> USE FavParts
<1>1. PICK items \in Served[call[c].env] : NetReply(c)!(items)
  BY DEF NetReply
<1> DEFINE new == items \X {c} \X {"net"}
           pa == [kind |-> "putAll", call |-> c]
           ra == [kind |-> "replaceAll", call |-> c]
<1>2. /\ call[c].pc = "net" /\ call'[c].pc = "done" /\ call'[c].served = items
      /\ \A d \in Call : d # c => call'[d] = call[d]
      /\ began' = began /\ captured' = captured /\ rows' = rows /\ tainted' = tainted /\ overlapped' = overlapped
      /\ favorites' = favorites /\ page' = page /\ chartList' = chartList
  BY <1>1 DEF disk, history, At, TypeOK, Progress
<1>3. medias' = new /\ heart' = [o \in Obj |-> heart[o] \/ (o \in new /\ Favourite(AliasOf(o)))]
  BY <1>1 DEF ProcessItems
<1>4. pa \in Op /\ ra \in Op
  BY OpTypes
<1>5. /\ pa.kind = "putAll" /\ pa.call = c /\ ra.kind = "replaceAll" /\ ra.call = c
      /\ IsTxn(pa) /\ IsTxn(ra) /\ ~IsRead(pa) /\ ~IsRead(ra) /\ pa.kind # "put" /\ ra.kind # "put"
      /\ \A a : ~IsPut(pa, a) /\ ~IsPut(ra, a)
  BY DEF IsTxn, IsRead, Reads, IsPut
<1>6. queue' = Append(Append(queue, pa), ra)
  <2>1. queue' = queue \o <<pa, ra>>
    BY <1>1 DEF WriteBack
  <2> QED BY <1>4, <2>1, AppendTwo
<1> HIDE DEF new, pa, ra
<1>7. Append(queue, pa) \in Seq(Op)
  BY <1>4, AppendOf
<1>8. (Loaded /\ Loaded') /\ InFlight' \subseteq InFlight /\ c \in InFlight /\ c \in Past /\ c \notin InFlight'
  BY <1>2, Moved DEF TypeOK, InFlight, Past, Loaded
<1>9. QueueInv'
  <2>1. ReadsKnown(queue', call')
    <3>1. ReadsKnown(queue, call')
      BY <1>2, SameKnown DEF QueueInv, Reads
    <3>2. ReadsKnown(Append(queue, pa), call')
      BY <1>4, <1>5, <3>1, AppendKnown
    <3> QED BY <1>4, <1>5, <1>6, <1>7, <3>2, AppendKnown
  <2>2. ReadsLast(queue', tainted')
    <3>1. ReadsLast(Append(queue, pa), tainted)
      BY <1>4, <1>5, AppendLast DEF QueueInv
    <3> QED BY <1>2, <1>4, <1>5, <1>6, <1>7, <3>1, AppendLast
  <2>3. queue # <<>> => queue' # <<>> /\ Head(queue') = Head(queue)
    BY <1>4, <1>6, <1>7, AppendOf
  <2> QED BY <1>2, <2>1, <2>2, <2>3 DEF QueueInv
<1>10. AloneInv'
  <2> SUFFICES ASSUME ~overlapped
               PROVE  /\ \A d, e \in InFlight' : d = e
                      /\ Apart(queue')
                      /\ Past' # {} => NoTxn(queue')
    BY <1>2 DEF AloneInv
  <2>1. (\A d, e \in InFlight : d = e) /\ Apart(queue) /\ NoTxn(queue)
    BY <1>8 DEF AloneInv
  <2>2. InFlight' = {}
    BY <1>8, <2>1
  <2>3. Past' = {}
    <3>1. Past' \subseteq InFlight'
      BY DEF Past, InFlight
    <3> QED BY <2>2, <3>1
  <2>4. \A i \in 1..Len(queue) : ~IsRead(queue[i])
    <3> SUFFICES ASSUME NEW i \in 1..Len(queue), IsRead(queue[i]) PROVE FALSE
      OBVIOUS
    <3>1. queue[i].call \in Call /\ call[queue[i].call].pc \in Reads
      <4>1. queue[i] \in Op
        OBVIOUS
      <4>2. call[queue[i].call].pc = queue[i].kind
        BY DEF QueueInv, ReadsKnown
      <4> QED BY <4>1, <4>2, OpKinds DEF IsRead
    <3>2. queue[i].call \in InFlight
      BY <3>1 DEF InFlight, Reads
    <3>3. queue[i].call = c
      BY <1>8, <2>1, <3>2
    <3> QED BY <1>2, <3>1, <3>3 DEF Reads
  <2>5. Apart(Append(queue, pa))
    BY <1>4, <2>1, <2>4, AppendApart DEF NoTxn
  <2>6. \A i \in 1..Len(Append(queue, pa)) :
          ~IsRead(Append(queue, pa)[i]) /\ (IsTxn(Append(queue, pa)[i]) => Append(queue, pa)[i].call = ra.call)
    BY <1>4, <1>5, <2>1, <2>4, AppendOf DEF NoTxn
  <2>7. Apart(queue')
    BY <1>4, <1>6, <1>7, <2>5, <2>6, AppendApart
  <2> QED BY <2>2, <2>3, <2>7
<1>11. \A d \in Call : At(d, "done") => d # c /\ call'[d] = call[d] /\ At(d, "done")'
  BY <1>2 DEF At
<1>12. \A o \in Obj : (heart[o] => heart'[o]) /\ (o[2] # c => heart'[o] = heart[o])
  <2> SUFFICES ASSUME NEW o \in Obj PROVE (heart[o] => heart'[o]) /\ (o[2] # c => heart'[o] = heart[o])
    OBVIOUS
  <2>1. heart'[o] = (heart[o] \/ (o \in new /\ Favourite(AliasOf(o))))
    BY <1>3
  <2>2. heart[o] \in BOOLEAN /\ (o \in new => o[2] = c)
    BY DEF TypeOK, new
  <2> QED BY <2>1, <2>2
<1>13. ObjInv'
  <2>1. Listed' = Listed
    BY <1>2 DEF Listed
  <2>2. \A o \in Held' : o[3] = "net" => At(o[2], "done")'
    <3> SUFFICES ASSUME NEW o \in Held', o[3] = "net" PROVE At(o[2], "done")'
      OBVIOUS
    <3>1. CASE o \in medias'
      BY <1>2, <1>3, <3>1 DEF At, new
    <3>2. CASE o \in Held
      <4>1. o \in Obj
        BY <3>2 DEF Held, TypeOK, Listed
      <4> QED BY <1>11, <3>2, <4>1 DEF ObjInv, Obj
    <3> QED BY <1>2, <2>1, <3>1, <3>2 DEF Held
  <2>3. \A o \in Obj : o[3] = "net" /\ ~At(o[2], "done")' => ~heart'[o]
    <3> SUFFICES ASSUME NEW o \in Obj, o[3] = "net", ~At(o[2], "done")' PROVE ~heart'[o]
      OBVIOUS
    <3>1. o[2] \in Call /\ o[2] # c
      BY <1>2 DEF At, Obj
    <3>2. ~At(o[2], "done")
      BY <1>2, <3>1 DEF At
    <3> QED BY <1>12, <3>1, <3>2 DEF ObjInv
  <2>4. \A o, p \in medias' : AliasOf(o) = AliasOf(p) => o = p
    BY <1>3 DEF AliasOf, new
  <2> QED BY <2>2, <2>3, <2>4 DEF ObjInv
<1>14. StartInv'
  BY <1>8 DEF StartInv
<1>15. ASSUME NEW a \in Alias \ tainted PROVE AliasInv(a)'
  <2>1. Favourite(a)' = Favourite(a)
    BY <1>2 DEF Favourite
  <2>2. HasPut(queue', a) <=> HasPut(queue, a)
    BY <1>4, <1>5, <1>6, <1>7, AppendPuts
  <2>3. Listing(a)'
    <3>1. Listing(a) /\ \A i \in 1..Len(favorites[a]) : favorites[a][i] \in Obj
      BY DEF TypeOK
    <3> QED BY <1>2, <1>12, <3>1 DEF Listing
  <2>4. ShowsHeart(a)'
    <3> SUFFICES ASSUME Favourite(a), NEW o \in medias', AliasOf(o) = a PROVE heart'[o]
      BY <2>1 DEF ShowsHeart
    <3>1. o \in new /\ o \in Obj
      BY <1>3 DEF TypeOK
    <3> QED BY <1>3, <3>1
  <2>5. Settled(a)'
    <3>1. Settled(a)
      OBVIOUS
    <3> QED BY <1>2, <1>8, <2>1, <2>2, <3>1 DEF Settled
  <2>6. RowsRead(a)'
    <3>1. began' => began /\ Head(queue') = Head(queue)
      BY <1>2, <1>4, <1>6, <1>7, AppendOf DEF QueueInv
    <3>2. \A d \in Call : At(d, "done") => heart'[<<a, d, "net">>] = heart[<<a, d, "net">>]
      BY <1>11, <1>12, NetObject
    <3> QED BY <1>2, <2>2, <3>1, <3>2, RowsKept
  <2>7. DroppedInv(a)'
    <3>1. ~Dropped(a)
      BY <1>8 DEF DroppedInv
    <3> QED BY <1>2, <2>1, <2>2, <3>1 DEF DroppedInv, Dropped, HasRow
  <2>8. Agree(queue', a, Favourite(a)', heart', call')
    <3>1. \A i \in 1..Len(queue) : IsTxn(queue[i]) =>
            /\ call'[queue[i].call] = call[queue[i].call]
            /\ heart'[<<a, queue[i].call, "net">>] = heart[<<a, queue[i].call, "net">>]
      BY <1>11, <1>12, NetObject, TxnDone
    <3>2. Agree(queue, a, Favourite(a), heart', call')
      BY <3>1, SameAgrees
    <3>3. a \in items => heart'[<<a, c, "net">>] = Favourite(a)
      <4> SUFFICES ASSUME a \in items PROVE heart'[<<a, c, "net">>] = Favourite(a)
        OBVIOUS
      <4>1. <<a, c, "net">> \in Obj /\ <<a, c, "net">> \in new /\ AliasOf(<<a, c, "net">>) = a
        BY NetObject DEF new
      <4>2. ~heart[<<a, c, "net">>]
        BY <1>2, NetObject DEF ObjInv, At
      <4>3. heart'[<<a, c, "net">>] = (heart[<<a, c, "net">>] \/ Favourite(a))
        BY <1>3, <4>1
      <4> QED BY <4>2, <4>3 DEF Favourite
    <3>4. ASSUME NEW op \in {pa, ra}, Concerns(op, a, call') PROVE Writes(op, a, Favourite(a), heart')
      <4>1. op.call = c /\ op.kind # "put" /\ ~IsPut(op, a)
        BY <1>5
      <4>2. a \in items
        BY <1>2, <3>4, <4>1 DEF Concerns
      <4> QED BY <3>3, <4>1, <4>2 DEF Writes
    <3>5. Agree(Append(queue, pa), a, Favourite(a), heart', call')
      BY <1>4, <3>2, <3>4, AppendAgrees
    <3>6. Agree(queue', a, Favourite(a), heart', call')
      BY <1>4, <1>6, <1>7, <3>4, <3>5, AppendAgrees
    <3> QED BY <2>1, <3>6
  <2> QED BY <2>3, <2>4, <2>5, <2>6, <2>7, <2>8 DEF AliasInv
<1> QED BY <1>2, <1>9, <1>10, <1>13, <1>14, <1>15 DEF FavKept

-----------------------------------------------------------------------------
(* The writes.                                                             *)

(* The queue without a write, of a put or a transaction, that is done.     *)
LEMMA WriteDone ==
  ASSUME FavInv, queue # <<>>, ~IsRead(Head(queue)), queue' = Tail(queue), ~began',
         call' = call, heart' = heart, favorites' = favorites, medias' = medias, page' = page,
         chartList' = chartList, overlapped' = overlapped, tainted \subseteq tainted'
  PROVE  /\ ObjInv' /\ QueueInv' /\ AloneInv' /\ StartInv'
         /\ \A a \in Alias \ tainted' :
              Listing(a)' /\ ShowsHeart(a)' /\ RowsRead(a)' /\ Agree(queue', a, Favourite(a)', heart', call')
<1> USE FavParts
<1>1. ObjInv'
  BY DEF ObjInv, Held, Listed, At
<1>2. QueueInv'
  <2>1. ReadsKnown(queue', call')
    BY TailStillKnown DEF QueueInv
  <2>2. ReadsLast(queue', tainted)
    BY TailLast DEF QueueInv
  <2>3. ReadsLast(queue', tainted')
    BY <2>2, TailOf, MoreLast
  <2> QED BY <2>1, <2>3 DEF QueueInv
<1>3. AloneInv'
  BY TailApart DEF AloneInv, InFlight, Past
<1>4. StartInv'
  <2>1. Loaded' = Loaded
    BY DEF Loaded
  <2>2. \A a \in Alias : HasPut(queue', a) => HasPut(queue, a)
    BY TailPuts
  <2> QED BY <2>1, <2>2 DEF StartInv
<1>5. ASSUME NEW a \in Alias \ tainted'
      PROVE  Listing(a)' /\ ShowsHeart(a)' /\ RowsRead(a)' /\ Agree(queue', a, Favourite(a)', heart', call')
  <2>1. a \in Alias \ tainted
    OBVIOUS
  <2>2. Listing(a)' /\ ShowsHeart(a)'
    BY <2>1 DEF Listing, ShowsHeart, Favourite, Loading
  <2>3. RowsRead(a)'
    BY DEF RowsRead
  <2>4. Agree(queue, a, Favourite(a), heart, call)
    BY <2>1
  <2>5. Agree(queue', a, Favourite(a), heart, call)
    BY <2>4, TailAgrees
  <2> QED BY <2>2, <2>3, <2>5 DEF Favourite
<1> QED BY <1>1, <1>2, <1>3, <1>4, <1>5

(* The last put of a row writes what memory says.                          *)
LEMMA FavPut ==
  ASSUME FavInv, TypeOK', PutDone
  PROVE  FavKept
<1> USE FavParts
<1> DEFINE b == Head(queue).alias
<1>1. /\ queue # <<>> /\ Head(queue) \in PutOp /\ queue' = Tail(queue)
      /\ rows' = [rows EXCEPT ![b] = Flag(Head(queue).fav)]
      /\ began' = began /\ call' = call /\ heart' = heart /\ favorites' = favorites /\ medias' = medias
      /\ page' = page /\ chartList' = chartList /\ overlapped' = overlapped /\ tainted' = tainted
  BY DEF PutDone, memory, history
<1>2. Head(queue) = queue[1] /\ Head(queue) \in Op /\ 1 \in 1..Len(queue)
  BY <1>1, TailOf
<1>3. Head(queue).kind = "put" /\ ~IsRead(Head(queue)) /\ ~IsTxn(Head(queue)) /\ Head(queue).fav \in BOOLEAN
  BY <1>1, <1>2, OpKinds
<1>4. ~began
  BY <1>3 DEF QueueInv
<1>5. /\ ObjInv' /\ QueueInv' /\ AloneInv' /\ StartInv'
      /\ \A a \in Alias \ tainted' :
           Listing(a)' /\ ShowsHeart(a)' /\ RowsRead(a)' /\ Agree(queue', a, Favourite(a)', heart', call')
  BY <1>1, <1>3, <1>4, WriteDone
<1>6. ASSUME NEW a \in Alias \ tainted PROVE Settled(a)' /\ DroppedInv(a)'
  <2>1. Favourite(a)' = Favourite(a) /\ Loaded' = Loaded /\ Past' = Past
    BY <1>1 DEF Favourite, Loaded, Past
  <2>2. HasPut(queue, a) <=> a = b \/ HasPut(queue', a)
    BY <1>1, <1>3, TailPuts DEF IsPut
  <2>3. CASE HasPut(queue', a)
    BY <2>3 DEF Settled, DroppedInv, Dropped
  <2>4. CASE a # b /\ ~HasPut(queue', a)
    <3>1. rows'[a] = rows[a]
      BY <1>1, <2>4 DEF TypeOK
    <3>2. Settled(a) /\ DroppedInv(a)
      OBVIOUS
    <3>3. Settled(a)'
      BY <2>1, <2>2, <2>4, <3>1, <3>2 DEF Settled
    <3>4. Dropped(a)' => Dropped(a)
      BY <2>1, <2>2, <2>4, <3>1 DEF Dropped, HasRow
    <3>5. \A i \in 1..Len(queue') : \E j \in 1..Len(queue) : queue[j] = queue'[i]
      BY <1>1, TailOf
    <3>6. DroppedInv(a)'
      BY <1>1, <2>1, <3>2, <3>4, <3>5 DEF DroppedInv
    <3> QED BY <3>3, <3>6
  <2>5. CASE a = b /\ ~HasPut(queue', a)
    <3>1. ~PutAfter(queue, 1, a)
      <4> SUFFICES ASSUME NEW j \in 1..Len(queue), 1 < j, IsPut(queue[j], a) PROVE FALSE
        BY DEF PutAfter
      <4>1. j - 1 \in 1..Len(queue') /\ queue'[j - 1] = queue[j]
        BY <1>1, TailOf
      <4> QED BY <2>5, <4>1 DEF HasPut
    <3>2. Concerns(queue[1], a, call)
      BY <1>2, <1>3, <2>5 DEF Concerns, IsPut
    <3>3. Head(queue).fav = Favourite(a)
      BY <1>2, <1>3, <3>1, <3>2 DEF Agree, Writes
    <3>4. rows'[a] = Flag(Favourite(a))
      BY <1>1, <2>5, <3>3 DEF TypeOK
    <3>5. (rows'[a] = "fav" <=> Favourite(a)) /\ rows'[a] # "absent"
      BY <3>4 DEF Flag, Favourite
    <3> QED BY <2>1, <3>5 DEF Settled, DroppedInv, Dropped, HasRow
  <2> QED BY <2>3, <2>4, <2>5
<1> QED BY <1>1, <1>5, <1>6 DEF FavKept, AliasInv

(* Steps that leave the queue and the tables alone.                        *)
LEMMA Quiet ==
  ASSUME FavInv, queue' = queue, rows' = rows, tainted' = tainted, overlapped' = overlapped,
         call' = call, heart' = heart, favorites' = favorites, medias' = medias, Held' \subseteq Held,
         began' => queue # <<>> /\ IsTxn(Head(queue)),
         \A a \in Alias \ tainted : RowsRead(a)'
  PROVE  FavKept
<1> USE FavParts
<1>1. ObjInv' /\ QueueInv' /\ AloneInv' /\ StartInv'
  <2>1. ObjInv'
    BY DEF ObjInv, At
  <2>2. QueueInv'
    BY DEF QueueInv
  <2>3. AloneInv'
    BY DEF AloneInv, InFlight, Past
  <2>4. StartInv'
    BY DEF StartInv, Loaded
  <2> QED BY <2>1, <2>2, <2>3, <2>4
<1>2. ASSUME NEW a \in Alias \ tainted PROVE AliasInv(a)'
  <2>1. Listing(a) /\ ShowsHeart(a) /\ Settled(a) /\ DroppedInv(a) /\ Agree(queue, a, Favourite(a), heart, call)
    OBVIOUS
  <2>2. Favourite(a)' = Favourite(a) /\ Loaded' = Loaded /\ Past' = Past /\ Loading' = Loading
    BY DEF Favourite, Loaded, Past, Loading
  <2>3. Listing(a)' /\ ShowsHeart(a)'
    BY <2>1, <2>2 DEF Listing, ShowsHeart
  <2>4. Settled(a)' /\ DroppedInv(a)'
    BY <2>1, <2>2 DEF Settled, DroppedInv, Dropped, HasRow
  <2>5. Agree(queue', a, Favourite(a)', heart', call')
    BY <2>1, <2>2
  <2> QED BY <2>3, <2>4, <2>5 DEF AliasInv
<1> QED BY <1>1, <1>2 DEF FavKept

(* A transaction reads the hearts of its objects.                          *)
LEMMA FavTxnRead ==
  ASSUME FavInv, TypeOK', TxnBegin \/ \E a \in Alias : TxnRow(a)
  PROVE  FavKept
<1> USE FavParts
<1> DEFINE t == Head(queue).call
<1>1. /\ queue # <<>> /\ Head(queue) \in TxnOp
      /\ queue' = queue /\ rows' = rows /\ tainted' = tainted /\ overlapped' = overlapped
      /\ call' = call /\ heart' = heart /\ favorites' = favorites /\ medias' = medias
      /\ page' = page /\ chartList' = chartList
  BY DEF TxnBegin, TxnRow, memory, disk, history
<1>2. IsTxn(Head(queue))
  BY <1>1, TailOf, OpKinds
<1>3. Held' \subseteq Held
  BY <1>1 DEF Held, Listed
<1>4. ASSUME NEW a \in Alias \ tainted PROVE RowsRead(a)'
  <2>1. CASE TxnBegin
    BY <1>1, <2>1 DEF TxnBegin, CapturedOf, RowsRead
  <2>2. ASSUME NEW b \in Alias, TxnRow(b) PROVE RowsRead(a)'
    <3>1. /\ began' = began /\ captured \in [Alias -> BOOLEAN]
          /\ captured' = [captured EXCEPT ![b] = heart[<<b, t, "net">>]]
      BY <2>2 DEF TxnRow, CapturedOf, TypeOK
    <3>2. RowsRead(a)
      OBVIOUS
    <3> QED BY <1>1, <3>1, <3>2 DEF RowsRead
  <2> QED BY <2>1, <2>2
<1> QED BY <1>1, <1>2, <1>3, <1>4, Quiet

(* A transaction commits: the rows it writes are those of favourites, and
   one that takes the row of a favourite away is the last of its call.     *)
LEMMA FavCommit ==
  ASSUME FavInv, TypeOK', TxnCommit
  PROVE  FavKept
<1> USE FavParts
<1> DEFINE t == Head(queue).call
           items == call[t].served
           all == Head(queue).kind = "replaceAll"
<1>1. /\ queue # <<>> /\ Head(queue) \in TxnOp /\ began /\ queue' = Tail(queue) /\ began' = FALSE
      /\ rows' = [a \in Alias |-> IF a \in items THEN Flag(captured[a])
                                    ELSE IF all THEN "absent" ELSE rows[a]]
      /\ tainted' = IF all /\ overlapped THEN tainted \cup {a \in Alias \ items : rows[a] = "fav"} ELSE tainted
      /\ call' = call /\ heart' = heart /\ favorites' = favorites /\ medias' = medias
      /\ page' = page /\ chartList' = chartList /\ overlapped' = overlapped
  BY DEF TxnCommit, memory
<1>2. Head(queue) = queue[1] /\ Head(queue) \in Op /\ 1 \in 1..Len(queue)
  BY <1>1, TailOf
<1>3. IsTxn(Head(queue)) /\ ~IsRead(Head(queue)) /\ Head(queue).kind # "put"
  BY <1>1, <1>2, OpKinds
<1>4. t \in Call /\ At(t, "done")
  BY <1>2, <1>3, TxnDone
<1>5. tainted \subseteq tainted' /\ Loaded
  BY <1>1, <1>4 DEF Loaded, At
<1>6. /\ ObjInv' /\ QueueInv' /\ AloneInv' /\ StartInv'
      /\ \A a \in Alias \ tainted' :
           Listing(a)' /\ ShowsHeart(a)' /\ RowsRead(a)' /\ Agree(queue', a, Favourite(a)', heart', call')
  BY <1>1, <1>3, <1>5, WriteDone
<1>7. ASSUME NEW a \in Alias \ tainted' PROVE Settled(a)' /\ DroppedInv(a)'
  <2>1. /\ a \in Alias \ tainted
        /\ Favourite(a)' = Favourite(a) /\ Past' = Past
    BY <1>1, <1>5 DEF Favourite, Past
  <2>2. HasPut(queue, a) <=> HasPut(queue', a)
    BY <1>1, <1>3, TailPuts DEF IsPut
  <2>3. CASE HasPut(queue', a)
    BY <2>3 DEF Settled, DroppedInv, Dropped
  <2> SUFFICES ASSUME ~HasPut(queue, a) PROVE Settled(a)' /\ DroppedInv(a)'
    BY <2>2, <2>3
  <2>4. \A i \in 1..Len(queue') : \E j \in 1..Len(queue) : queue[j] = queue'[i]
    BY <1>1, TailOf
  <2>5. Settled(a) /\ DroppedInv(a) /\ RowsRead(a) /\ Agree(queue, a, Favourite(a), heart, call)
    BY <2>1
  <2>6. CASE a \in items
    <3>1. captured[a] = heart[<<a, t, "net">>]
      BY <1>1, <2>5 DEF RowsRead
    <3>2. Concerns(queue[1], a, call) /\ ~PutAfter(queue, 1, a)
      BY <1>2, <1>3, <2>6 DEF Concerns, PutAfter, HasPut
    <3>3. captured[a] = Favourite(a)
      BY <1>2, <1>3, <2>5, <3>1, <3>2 DEF Agree, Writes
    <3>4. rows'[a] = Flag(Favourite(a))
      BY <1>1, <2>6, <3>3
    <3>5. (rows'[a] = "fav" <=> Favourite(a)) /\ rows'[a] # "absent"
      BY <3>4 DEF Flag, Favourite
    <3> QED BY <2>1, <3>5 DEF Settled, DroppedInv, Dropped, HasRow
  <2>7. CASE a \notin items /\ ~all
    <3>1. rows'[a] = rows[a]
      BY <1>1, <2>7
    <3>2. Settled(a)'
      BY <1>5, <2>1, <2>5, <3>1 DEF Settled
    <3>3. Dropped(a)' => Dropped(a)
      BY <2>1, <3>1 DEF Dropped, HasRow
    <3>4. DroppedInv(a)'
      BY <1>1, <2>1, <2>4, <2>5, <3>3 DEF DroppedInv
    <3> QED BY <3>2, <3>4
  <2>8. CASE a \notin items /\ all
    <3>1. rows'[a] = "absent"
      BY <1>1, <2>8
    <3>2. Settled(a)'
      BY <3>1 DEF Settled
    <3>3. CASE overlapped /\ Favourite(a)
      <4>1. rows[a] # "fav"
        BY <1>1, <2>8, <3>3
      <4>2. Dropped(a)
        BY <1>5, <2>5, <3>3, <4>1 DEF Settled, Dropped, HasRow
      <4>3. DroppedInv(a)'
        BY <1>1, <2>1, <2>4, <2>5, <4>2 DEF DroppedInv
      <4> QED BY <3>2, <4>3
    <3>4. CASE ~overlapped
      <4>1. Past = {} /\ Apart(queue)
        BY <1>2, <1>3, <3>4 DEF AloneInv, NoTxn
      <4>2. \A i \in 1..Len(queue) : IsTxn(queue[i]) => queue[i].call = t
        BY <1>2, <1>3, <4>1 DEF Apart
      <4>3. \A i \in 1..Len(queue') : IsTxn(queue'[i]) => a \notin call[queue'[i].call].served
        BY <2>4, <2>8, <4>2
      <4> QED BY <1>1, <2>1, <3>2, <4>1, <4>3 DEF DroppedInv
    <3>5. CASE ~Favourite(a)
      BY <2>1, <3>2, <3>5 DEF DroppedInv, Dropped
    <3> QED BY <3>3, <3>4, <3>5 DEF TypeOK
  <2> QED BY <2>6, <2>7, <2>8
<1> QED BY <1>6, <1>7 DEF FavKept, AliasInv

-----------------------------------------------------------------------------
(* The user.                                                               *)

(* Pages hold objects of the lists.                                        *)
LEMMA FavPage ==
  ASSUME FavInv, OpenPage \/ ClosePage \/ vars' = vars
  PROVE  FavKept
<1> USE FavParts
<1>1. /\ queue' = queue /\ rows' = rows /\ tainted' = tainted /\ overlapped' = overlapped
      /\ call' = call /\ heart' = heart /\ favorites' = favorites /\ medias' = medias
      /\ chartList' = chartList /\ began' = began /\ captured' = captured
      /\ page' \in {medias, Listed, chartList, {}, page}
  BY DEF OpenPage, ClosePage, vars, memory, db, disk, history
<1>2. Held' \subseteq Held
  BY <1>1 DEF Held, Listed
<1>3. \A a \in Alias \ tainted : RowsRead(a)'
  BY <1>1 DEF RowsRead
<1>4. began' => queue # <<>> /\ IsTxn(Head(queue))
  BY <1>1 DEF QueueInv
<1> QED BY <1>1, <1>2, <1>3, <1>4, Quiet

(* No query waits while no refresh reads.                                  *)
LEMMA NothingRead ==
  ASSUME FavInv, Loading = {}
  PROVE  \A i \in 1..Len(queue) : ~IsRead(queue[i])
<1> SUFFICES ASSUME NEW i \in 1..Len(queue), IsRead(queue[i]) PROVE FALSE
  OBVIOUS
<1>1. queue[i] \in Op
  BY FavParts
<1>2. queue[i].call \in Call
  BY <1>1, OpKinds
<1>3. call[queue[i].call].pc = queue[i].kind
  BY FavParts DEF QueueInv, ReadsKnown
<1>4. queue[i].call \in Loading
  BY <1>2, <1>3 DEF Loading, IsRead
<1> QED BY <1>4

(* A tap on an object: for its own alias it is enough that, where the code
   keeps track of it, the list is right after it.                          *)
LEMMA TapKeeps ==
  ASSUME FavInv, TypeOK', NEW o \in Obj, NEW f \in BOOLEAN, Tap(o),
         Ask([kind |-> "put", alias |-> AliasOf(o), fav |-> f]),
         heart' = [heart EXCEPT ![o] = f],
         \A a \in Alias : a # AliasOf(o) => favorites'[a] = favorites[a],
         Listed' \subseteq Listed \cup {o},
         AliasOf(o) \notin tainted' =>
           Listing(AliasOf(o))' /\ ShowsHeart(AliasOf(o))' /\ Favourite(AliasOf(o))' = f
  PROVE  FavKept
<1> USE FavParts
<1> DEFINE b == AliasOf(o)
           put == [kind |-> "put", alias |-> b, fav |-> f]
<1>1. /\ queue' = Append(queue, put)
      /\ tainted' = IF Tracked(o) THEN tainted ELSE tainted \cup {b}
      /\ medias' = medias /\ chartList' = chartList /\ page' = page /\ call' = call /\ rows' = rows
      /\ began' = began /\ captured' = captured /\ overlapped' = overlapped
      /\ o \in page \cup Listed \cup chartList
  BY DEF Tap, Ask, disk
<1>2. b \in Alias
  BY DEF AliasOf, Obj
<1>3. put \in Op /\ put.kind = "put" /\ put.alias = b /\ put.fav = f /\ ~IsRead(put) /\ ~IsTxn(put)
  BY <1>2, PutTypes, OpKinds
<1> HIDE DEF put
<1>4. tainted \subseteq tainted' /\ (b \notin tainted' => Tracked(o) /\ b \notin tainted)
  BY <1>1
<1>5. QueueInv'
  <2>1. ReadsKnown(queue', call')
    BY <1>1, <1>3, AppendKnown DEF QueueInv
  <2>2. ReadsLast(queue, tainted')
    BY <1>4, MoreLast DEF QueueInv
  <2>3. b \in tainted' \/ \A i \in 1..Len(queue) : ~IsRead(queue[i])
    BY <1>4, NothingRead DEF Tracked
  <2>4. ReadsLast(queue', tainted')
    BY <1>1, <1>3, <2>2, <2>3, AppendLast
  <2>5. queue # <<>> => queue' # <<>> /\ Head(queue') = Head(queue)
    BY <1>1, <1>3, AppendOf
  <2> QED BY <1>1, <2>1, <2>4, <2>5 DEF QueueInv
<1>6. AloneInv'
  <2> SUFFICES ASSUME ~overlapped
               PROVE  /\ \A d, e \in InFlight' : d = e
                      /\ Apart(queue')
                      /\ Past' # {} => NoTxn(queue')
    BY <1>1 DEF AloneInv
  <2>1. (\A d, e \in InFlight : d = e) /\ Apart(queue) /\ (Past # {} => NoTxn(queue))
    BY DEF AloneInv
  <2>2. Apart(queue') /\ (NoTxn(queue) => NoTxn(queue'))
    BY <1>1, <1>3, <2>1, AppendApart
  <2>3. InFlight' = InFlight /\ Past' = Past
    BY <1>1 DEF InFlight, Past
  <2> QED BY <2>1, <2>2, <2>3
<1>7. o \in Held /\ Held' \subseteq Held
  BY <1>1 DEF Held
<1>8. \A p \in Obj : p # o => heart'[p] = heart[p]
  BY DEF TypeOK
<1>9. ObjInv'
  <2>1. \A p \in Held' : p[3] = "net" => At(p[2], "done")'
    BY <1>1, <1>7 DEF ObjInv, At
  <2>2. \A p \in Obj : p[3] = "net" /\ ~At(p[2], "done")' => ~heart'[p]
    <3> SUFFICES ASSUME NEW p \in Obj, p[3] = "net", ~At(p[2], "done") PROVE ~heart'[p]
      BY <1>1 DEF At
    <3>1. p # o
      BY <1>7 DEF ObjInv
    <3> QED BY <1>8, <3>1 DEF ObjInv
  <2>3. \A p, r \in medias' : AliasOf(p) = AliasOf(r) => p = r
    BY <1>1 DEF ObjInv
  <2> QED BY <2>1, <2>2, <2>3 DEF ObjInv
<1>10. \A a \in Alias : HasPut(queue', a) <=> HasPut(queue, a) \/ a = b
  BY <1>1, <1>3, AppendPuts DEF IsPut
<1>11. Loaded' = Loaded /\ Past' = Past /\ Loading' = Loading
  BY <1>1 DEF Loaded, Past, Loading
<1>12. StartInv'
  <2> SUFFICES ASSUME ~Loaded
               PROVE  medias' = {} /\ \A a \in Alias \ tainted' : favorites'[a] = <<>> /\ ~HasPut(queue', a)
    BY <1>11 DEF StartInv
  <2>1. medias = {} /\ \A a \in Alias \ tainted : favorites[a] = <<>> /\ ~HasPut(queue, a)
    BY DEF StartInv
  <2>2. b \in tainted'
    <3> SUFFICES ASSUME b \notin tainted' PROVE FALSE
      OBVIOUS
    <3>1. o \in Listed /\ favorites[b] = <<>>
      BY <1>2, <1>4, <2>1 DEF Tracked
    <3> QED BY <3>1 DEF Listed
  <2> QED BY <1>1, <1>4, <1>10, <2>1, <2>2
<1>13. ASSUME NEW a \in Alias \ tainted' PROVE AliasInv(a)'
  <2>1. a \in Alias \ tainted
    BY <1>4
  <2>2. CASE a # b
    <3>1. \A p \in Obj : AliasOf(p) = a => heart'[p] = heart[p]
      BY <1>8, <2>2
    <3>2. \A c \in Call : At(c, "done") => call'[c] = call[c] /\ heart'[<<a, c, "net">>] = heart[<<a, c, "net">>]
      BY <1>1, <3>1, NetObject
    <3>3. \A i \in 1..Len(queue') : IsTxn(queue'[i]) => \E j \in 1..Len(queue) : queue[j] = queue'[i]
      BY <1>1, <1>3, AppendOf
    <3>4. Agree(queue, a, Favourite(a), heart, call) => Agree(queue', a, Favourite(a), heart, call)
      BY <1>1, <1>3, <2>2, AppendAgrees DEF Concerns, IsPut
    <3>5. HasPut(queue, a) <=> HasPut(queue', a)
      BY <1>10, <2>1, <2>2
    <3>6. favorites'[a] = favorites[a]
      BY <2>1, <2>2
    <3>7. /\ Listing(a)' /\ Settled(a)' /\ DroppedInv(a)'
          /\ Agree(queue', a, Favourite(a)', heart', call')
      BY <1>1, <1>11, <2>1, <3>1, <3>2, <3>3, <3>4, <3>5, <3>6, AliasKept
    <3>8. began' => began /\ Head(queue') = Head(queue)
      BY <1>1, <1>3, AppendOf DEF QueueInv
    <3>9. RowsRead(a)'
      BY <1>1, <2>1, <3>2, <3>5, <3>8, RowsKept
    <3>10. ShowsHeart(a)'
      BY <1>1, <1>11, <2>1, <3>1, <3>6, StillShown
    <3> QED BY <3>7, <3>9, <3>10 DEF AliasInv
  <2>3. CASE a = b
    <3>1. Listing(a)' /\ ShowsHeart(a)' /\ Favourite(a)' = f
      BY <2>3
    <3>2. HasPut(queue', a)
      BY <1>10, <2>1, <2>3
    <3>3. Settled(a)' /\ RowsRead(a)' /\ DroppedInv(a)'
      BY <3>2 DEF Settled, RowsRead, DroppedInv, Dropped
    <3>4. Agree(queue', a, f, heart', call')
      BY <1>1, <1>3, <2>3, PutAgrees DEF IsPut
    <3> QED BY <3>1, <3>3, <3>4 DEF AliasInv
  <2> QED BY <2>2, <2>3
<1> QED BY <1>5, <1>6, <1>9, <1>12, <1>13 DEF FavKept

(* Making a favourite: an object with an empty heart that the code keeps
   track of is on screen, and no other one of its alias is listed.         *)
LEMMA FavMake ==
  ASSUME FavInv, TypeOK', NEW o \in Obj, MakeFavorite(o)
  PROVE  FavKept
<1> USE FavParts
<1> DEFINE b == AliasOf(o)
<1>1. /\ ~heart[o] /\ Tap(o) /\ Ask([kind |-> "put", alias |-> b, fav |-> TRUE])
      /\ heart' = [heart EXCEPT ![o] = TRUE]
      /\ favorites' = [favorites EXCEPT ![b] = <<o>> \o @]
      /\ medias' = medias
      /\ tainted' = IF Tracked(o) THEN tainted ELSE tainted \cup {b}
  BY DEF MakeFavorite, Tap
<1>2. b \in Alias /\ favorites[b] \in Seq(Obj)
  BY DEF AliasOf, Obj, TypeOK
<1>3. favorites'[b] = <<o>> \o favorites[b] /\ \A a \in Alias : a # b => favorites'[a] = favorites[a]
  BY <1>1, <1>2 DEF TypeOK
<1>4. Listed' \subseteq Listed \cup {o}
  <2> SUFFICES ASSUME NEW p \in Listed', p # o PROVE p \in Listed
    OBVIOUS
  <2>1. p \in Obj /\ AliasOf(p) \in Alias
    BY DEF Listed, AliasOf, Obj
  <2>2. PICK i \in 1..Len(favorites'[AliasOf(p)]) : favorites'[AliasOf(p)][i] = p
    BY DEF Listed, AliasOf
  <2>3. CASE AliasOf(p) # b
    BY <1>3, <2>1, <2>2, <2>3 DEF Listed
  <2>4. CASE AliasOf(p) = b
    <3>1. i \in 1..(Len(favorites[b]) + 1) /\ (<<o>> \o favorites[b])[i] = p
      BY <1>2, <1>3, <2>2, <2>4
    <3>2. i # 1
      BY <1>2, <3>1
    <3>3. i - 1 \in 1..Len(favorites[b]) /\ favorites[b][i - 1] = p
      BY <1>2, <3>1, <3>2
    <3> QED BY <2>1, <2>4, <3>3 DEF Listed
  <2> QED BY <2>3, <2>4
<1>5. b \notin tainted' => Listing(b)' /\ ShowsHeart(b)' /\ Favourite(b)' = TRUE
  <2> SUFFICES ASSUME b \notin tainted' PROVE Listing(b)' /\ ShowsHeart(b)' /\ Favourite(b)' = TRUE
    OBVIOUS
  <2>1. Tracked(o) /\ b \in Alias \ tainted
    BY <1>1, <1>2
  <2>2. Listing(b) /\ ShowsHeart(b)
    BY <2>1
  <2>3. o \notin Listed
    <3> SUFFICES ASSUME o \in Listed PROVE FALSE
      OBVIOUS
    <3>1. PICK i \in 1..Len(favorites[b]) : favorites[b][i] = o
      BY DEF Listed
    <3> QED BY <1>1, <2>2, <3>1 DEF Listing
  <2>4. o \in medias /\ Loading = {}
    BY <2>1, <2>3 DEF Tracked
  <2>5. favorites[b] = <<>>
    BY <1>1, <2>2, <2>4 DEF ShowsHeart, Favourite
  <2>6. favorites'[b] = <<o>>
    BY <1>3, <2>5
  <2>7. heart'[o]
    BY <1>1 DEF TypeOK
  <2>8. Listing(b)' /\ Favourite(b)' = TRUE
    BY <2>6, <2>7 DEF Listing, Favourite
  <2>9. ShowsHeart(b)'
    BY <1>1, <2>4, <2>7 DEF ShowsHeart, ObjInv
  <2> QED BY <2>8, <2>9
<1> HIDE DEF b
<1> QED BY <1>1, <1>3, <1>4, <1>5, TapKeeps DEF b

(* Taking one back: it was listed once.                                    *)
LEMMA FavUn ==
  ASSUME FavInv, TypeOK', NEW o \in Obj, UnFavorite(o)
  PROVE  FavKept
<1> USE FavParts
<1> DEFINE b == AliasOf(o)
<1>1. /\ Tap(o) /\ Ask([kind |-> "put", alias |-> b, fav |-> FALSE])
      /\ heart' = [heart EXCEPT ![o] = FALSE]
      /\ favorites' = [favorites EXCEPT ![b] = IF @ = <<>> THEN @ ELSE Tail(@)]
      /\ tainted' = IF Tracked(o) THEN tainted ELSE tainted \cup {b}
  BY DEF UnFavorite, Tap
<1>2. b \in Alias /\ favorites[b] \in Seq(Obj)
  BY DEF AliasOf, Obj, TypeOK
<1>3. /\ favorites'[b] = IF favorites[b] = <<>> THEN <<>> ELSE Tail(favorites[b])
      /\ \A a \in Alias : a # b => favorites'[a] = favorites[a]
  BY <1>1, <1>2 DEF TypeOK
<1>4. Listed' \subseteq Listed \cup {o}
  <2> SUFFICES ASSUME NEW p \in Listed' PROVE p \in Listed
    OBVIOUS
  <2>1. p \in Obj /\ AliasOf(p) \in Alias
    BY DEF Listed, AliasOf, Obj
  <2>2. PICK i \in 1..Len(favorites'[AliasOf(p)]) : favorites'[AliasOf(p)][i] = p
    BY DEF Listed, AliasOf
  <2>3. CASE AliasOf(p) # b
    BY <1>3, <2>1, <2>2, <2>3 DEF Listed
  <2>4. CASE AliasOf(p) = b
    <3>0. favorites[b] # <<>>
      <4>1. favorites'[b] # <<>>
        BY <2>2, <2>4
      <4> QED BY <1>3, <4>1
    <3>1. i \in 1..Len(Tail(favorites[b])) /\ Tail(favorites[b])[i] = p
      BY <1>3, <2>2, <2>4, <3>0
    <3>2. i + 1 \in 1..Len(favorites[b]) /\ favorites[b][i + 1] = p
      BY <1>2, <3>0, <3>1
    <3> QED BY <2>1, <2>4, <3>2 DEF Listed
  <2> QED BY <2>3, <2>4
<1>5. b \notin tainted' => Listing(b)' /\ ShowsHeart(b)' /\ Favourite(b)' = FALSE
  <2> SUFFICES ASSUME b \notin tainted' PROVE Listing(b)' /\ ShowsHeart(b)' /\ Favourite(b)' = FALSE
    OBVIOUS
  <2>1. Listing(b)
    BY <1>1, <1>2
  <2>2. favorites'[b] = <<>>
    BY <1>2, <1>3, <2>1 DEF Listing
  <2> QED BY <2>2 DEF Listing, ShowsHeart, Favourite
<1> HIDE DEF b
<1> QED BY <1>1, <1>3, <1>4, <1>5, TapKeeps DEF b

(* After a start nothing is loaded, and nothing waits.                     *)
FavRest ==
  /\ ObjInv /\ QueueInv /\ AloneInv /\ StartInv
  /\ \A a \in Alias \ tainted : AliasInv(a)

(* A start of the app keeps it, whatever the tables hold.                  *)
LEMMA FavAtStart == MemoryAtStart => FavRest
<1> SUFFICES ASSUME MemoryAtStart PROVE FavRest
  OBVIOUS
<1>1. /\ favorites = [a \in Alias |-> <<>>] /\ medias = {} /\ chartList = {} /\ page = {}
      /\ heart = [o \in Obj |-> FALSE] /\ call = [c \in Call |-> NoCall]
      /\ queue = <<>> /\ began = FALSE /\ tainted = {} /\ Len(queue) = 0
      /\ \A c \in Call : call[c].pc = "idle"
  BY DEF MemoryAtStart, NoCall
<1>2. Listed = {}
  <2> SUFFICES ASSUME NEW o \in Listed PROVE FALSE
    OBVIOUS
  <2>1. AliasOf(o) \in Alias /\ \E i \in 1..Len(favorites[AliasOf(o)]) : TRUE
    BY DEF Listed, AliasOf, Obj
  <2>2. favorites[AliasOf(o)] = <<>>
    BY <1>1, <2>1
  <2> QED BY <2>1, <2>2
<1>3. ~Loaded /\ InFlight = {} /\ Past = {}
  BY <1>1 DEF Loaded, InFlight, Past
<1>4. ObjInv
  BY <1>1, <1>2 DEF ObjInv, Held
<1>5. QueueInv
  BY <1>1 DEF QueueInv, ReadsKnown, ReadsLast
<1>6. AloneInv
  BY <1>1, <1>3 DEF AloneInv, Apart
<1>7. \A a \in Alias : ~HasPut(queue, a) /\ favorites[a] = <<>> /\ ~Favourite(a)
  <2>1. \A a \in Alias : favorites[a] = <<>> /\ ~Favourite(a)
    BY <1>1 DEF Favourite
  <2>2. \A a \in Alias : ~HasPut(queue, a)
    <3>1. 1..Len(queue) = {}
      BY <1>1
    <3> QED BY <3>1 DEF HasPut
  <2> QED BY <2>1, <2>2
<1>8. StartInv
  BY <1>1, <1>7 DEF StartInv
<1>9. ASSUME NEW a \in Alias PROVE AliasInv(a)
  <2>1. Listing(a)
    BY <1>7 DEF Listing
  <2>2. ShowsHeart(a) /\ Settled(a) /\ RowsRead(a) /\ DroppedInv(a)
    BY <1>1, <1>3, <1>7 DEF ShowsHeart, Settled, RowsRead, DroppedInv, Dropped
  <2>3. Agree(queue, a, Favourite(a), heart, call)
    BY <1>1 DEF Agree
  <2> QED BY <2>1, <2>2, <2>3 DEF AliasInv
<1> QED BY <1>4, <1>5, <1>6, <1>8, <1>9 DEF FavRest

(* The invariant holds at the start, ...                                   *)
LEMMA FavInit == Init => FavInv
<1>1. Init => FavRest
  BY FavAtStart DEF Init
<1> QED BY <1>1, StoredInit DEF FavInv, FavRest

(* ... and every step keeps it.                                            *)
LEMMA FavNext == FavInv /\ [Next]_vars => FavInv'
<1> SUFFICES ASSUME FavInv, [Next]_vars PROVE FavInv'
  OBVIOUS
<1>1. StoredInv'
  BY StoredNext DEF FavInv
<1>2. TypeOK'
  BY <1>1 DEF StoredInv
<1>3. FavKept => FavInv'
  BY <1>1 DEF FavKept, FavInv
<1>4. ASSUME NEW c \in Call, Refresh(c) \/ SwitchEnvironment(c) PROVE FavKept
  BY <1>2, <1>4, FavStart DEF Refresh, SwitchEnvironment
<1>5. ASSUME NEW c \in Call, Reply(c) PROVE FavKept
  BY <1>2, <1>5, FavChart, FavFavs, FavCatsNone, FavQuery, FavItems, FavNet, FavFail DEF Reply
<1>6. CASE Write
  <2>1. CASE PutDone
    BY <1>2, <1>3, <2>1, FavPut
  <2>2. CASE TxnBegin \/ \E a \in Alias : TxnRow(a)
    BY <1>2, <1>3, <2>2, FavTxnRead
  <2>3. CASE TxnCommit
    BY <1>2, <1>3, <2>3, FavCommit
  <2> QED BY <1>6, <2>1, <2>2, <2>3 DEF Write
<1>7. CASE OpenPage \/ ClosePage \/ UNCHANGED vars
  BY <1>3, <1>7, FavPage
<1>8. ASSUME NEW o \in Obj, MakeFavorite(o) \/ UnFavorite(o) PROVE FavKept
  BY <1>2, <1>8, FavMake, FavUn
<1>9. CASE Restart
  <2>1. MemoryAtStart'
    BY <1>9 DEF Restart, MemoryAtStart
  <2>2. MemoryAtStart' => FavRest'
    BY FavAtStart, PTL
  <2> QED BY <1>3, <2>1, <2>2 DEF FavRest, FavKept
<1> QED BY <1>3, <1>4, <1>5, <1>6, <1>7, <1>8, <1>9 DEF Next

(* In every state reached, the last writer of a row agrees with memory.    *)
THEOREM FavouritesAgree == Spec => []FavInv
  BY FavInit, FavNext, PTL DEF Spec

(* An item the user taps only where the code keeps track of it is listed at
   most once in favorites, whatever refreshes, writes and restarts are
   interleaved.                                                            *)
THEOREM ListedOnce == Spec => []NoDuplicateFavourite
<1>1. FavInv => NoDuplicateFavourite
  BY FavParts DEF Listing, NoDuplicateFavourite
<1> QED BY <1>1, FavouritesAgree, PTL

(* Between the reads of the refreshes every favourite in the catalogue shows
   a full heart.                                                           *)
THEOREM HeartShown == Spec => []FavouriteShowsHeart
<1>1. FavInv => FavouriteShowsHeart
  <2> SUFFICES ASSUME FavInv, Loading = {}, NEW o \in medias,
                      AliasOf(o) \notin tainted, Favourite(AliasOf(o))
               PROVE  heart[o]
    BY DEF FavouriteShowsHeart
  <2>1. AliasOf(o) \in Alias \ tainted
    BY FavParts DEF TypeOK, AliasOf, Obj
  <2> QED BY <2>1, FavParts DEF ShowsHeart
<1> QED BY <1>1, FavouritesAgree, PTL

(* With nothing left to write, memory and disk agree on the favourites.    *)
THEOREM StoredFavourites == Spec => []FavouritesOnDisk
<1>1. FavInv => FavouritesOnDisk
  <2> SUFFICES ASSUME FavInv, queue = <<>>, Loaded, NEW a \in Alias \ tainted
               PROVE  /\ rows[a] = "fav" => Favourite(a)
                      /\ Favourite(a) => rows[a] \in {"fav", "absent"}
    BY DEF FavouritesOnDisk
  <2>1. ~HasPut(queue, a)
    BY DEF HasPut
  <2> QED BY <2>1, FavParts DEF Settled
<1> QED BY <1>1, FavouritesAgree, PTL

-----------------------------------------------------------------------------
(* What is on screen.                                                      *)

(* A query that is asked or answered takes no replacement from the queue.  *)
LEMMA ReplacesKept ==
  ASSUME NEW q \in Seq(Op), NEW r, ReadMove(q, r)
  PROVE  /\ \A i \in 1..Len(r) : Replaces(r[i]) => \E j \in 1..Len(q) : q[j] = r[i]
         /\ \A i \in 1..Len(q) : Replaces(q[i]) => \E j \in 1..Len(r) : r[j] = q[i]
<1>1. \A op : Replaces(op) => IsTxn(op)
  BY DEF Replaces, IsTxn
<1>2. \A i \in 1..Len(r) : Replaces(r[i]) => \E j \in 1..Len(q) : q[j] = r[i]
  BY <1>1, ReadMoves
<1>3. ASSUME NEW s \in Seq(Op), NEW op \in ReadOp, NEW i \in 1..Len(s)
      PROVE  \E j \in 1..Len(Append(s, op)) : Append(s, op)[j] = s[i]
  <2>1. op \in Op
    BY DEF Op
  <2> QED BY <2>1, AppendOf
<1>4. ASSUME q # <<>>, IsRead(Head(q)), NEW i \in 1..Len(q), Replaces(q[i])
      PROVE  Tail(q) \in Seq(Op) /\ \E j \in 1..Len(Tail(q)) : Tail(q)[j] = q[i]
  <2>1. Head(q) = q[1] /\ Head(q) \in Op /\ Tail(q) \in Seq(Op)
    BY <1>4, TailOf
  <2>2. ~IsTxn(Head(q))
    BY <1>4, <2>1, OpKinds
  <2>3. i # 1
    BY <1>1, <1>4, <2>1, <2>2
  <2> QED BY <1>4, <2>1, <2>3, TailOf
<1>5. ASSUME NEW i \in 1..Len(q), Replaces(q[i]) PROVE \E j \in 1..Len(r) : r[j] = q[i]
  <2>1. CASE r = q
    BY <2>1
  <2>2. CASE \E op \in ReadOp : r = Append(q, op)
    BY <1>3, <2>2
  <2>3. CASE q # <<>> /\ IsRead(Head(q)) /\ r = Tail(q)
    BY <1>4, <1>5, <2>3
  <2>4. CASE q # <<>> /\ IsRead(Head(q)) /\ \E op \in ReadOp : r = Append(Tail(q), op)
    <3>1. PICK op \in ReadOp : r = Append(Tail(q), op)
      BY <2>4
    <3>2. Tail(q) \in Seq(Op) /\ \E j \in 1..Len(Tail(q)) : Tail(q)[j] = q[i]
      BY <1>4, <1>5, <2>4
    <3>3. PICK j \in 1..Len(Tail(q)) : Tail(q)[j] = q[i]
      BY <3>2
    <3>4. \E k \in 1..Len(r) : r[k] = Tail(q)[j]
      BY <1>3, <3>1, <3>2
    <3> QED BY <3>3, <3>4
  <2> QED BY <2>1, <2>2, <2>3, <2>4 DEF ReadMove
<1> QED BY <1>2, <1>5

(* Steps that add nothing to the screen, take nothing from the tables and
   leave the replacements that wait.                                       *)
LEMMA ShelfKept ==
  ASSUME FavInv, ShownInv, catTbl' = catTbl, groupTbl' = groupTbl, medias' \subseteq medias,
         \A a \in Alias : HasRow(a) => HasRow(a)',
         ~overlapped' => ~overlapped,
         \A i \in 1..Len(queue') : Replaces(queue'[i]) => \E j \in 1..Len(queue) : queue[j] = queue'[i],
         \A i \in 1..Len(queue) : Replaces(queue[i]) => \E j \in 1..Len(queue') : queue'[j] = queue[i],
         \A c \in Call : At(c, "done") => call'[c] = call[c],
         \A c \in Call : At(c, "items")' => (At(c, "items") /\ call'[c] = call[c]) \/ call'[c].groups = groupTbl
  PROVE  ShownInv'
<1> USE FavParts
<1>1. ~catTbl' => groupTbl' = {}
  BY DEF ShownInv
<1> SUFFICES ASSUME ~overlapped, ~overlapped'
             PROVE  /\ \A c \in Call : At(c, "items")' => call'[c].groups = groupTbl'
                    /\ (\A i \in 1..Len(queue') : ~Replaces(queue'[i])) => \A o \in medias' : Shelved(o)'
                    /\ \A i \in 1..Len(queue') : Replaces(queue'[i]) =>
                         \A o \in medias' : AliasOf(o) \in call'[queue'[i].call].served
  BY <1>1 DEF ShownInv
<1>2. /\ \A c \in Call : At(c, "items") => call[c].groups = groupTbl
      /\ (\A i \in 1..Len(queue) : ~Replaces(queue[i])) => \A o \in medias : Shelved(o)
      /\ \A i \in 1..Len(queue) : Replaces(queue[i]) =>
           \A o \in medias : AliasOf(o) \in call[queue[i].call].served
  BY DEF ShownInv
<1>3. \A c \in Call : At(c, "items")' => call'[c].groups = groupTbl'
  BY <1>2
<1>4. ASSUME \A i \in 1..Len(queue') : ~Replaces(queue'[i]), NEW o \in medias' PROVE Shelved(o)'
  <2>1. \A i \in 1..Len(queue) : ~Replaces(queue[i])
    BY <1>4
  <2>2. Shelved(o) /\ AliasOf(o) \in Alias
    BY <1>2, <2>1 DEF TypeOK, AliasOf, Obj
  <2> QED BY <2>2 DEF Shelved
<1>5. ASSUME NEW i \in 1..Len(queue'), Replaces(queue'[i]), NEW o \in medias'
      PROVE  AliasOf(o) \in call'[queue'[i].call].served
  <2>1. PICK j \in 1..Len(queue) : queue[j] = queue'[i]
    BY <1>5
  <2>2. IsTxn(queue[j]) /\ Replaces(queue[j])
    BY <1>5, <2>1 DEF Replaces, IsTxn
  <2>3. queue[j].call \in Call /\ At(queue[j].call, "done")
    BY <2>2, TxnDone
  <2> QED BY <1>2, <2>1, <2>2, <2>3
<1> QED BY <1>3, <1>4, <1>5

(* No transaction waits in front of a query of the only refresh.           *)
LEMMA NothingToStore ==
  ASSUME FavInv, ~overlapped, queue # <<>>, IsRead(Head(queue))
  PROVE  NoTxn(queue) /\ \A i \in 1..Len(queue) : ~Replaces(queue[i])
<1>1. NoTxn(queue)
  BY FavParts, TailApart DEF AloneInv
<1> QED BY <1>1 DEF NoTxn, Replaces, IsTxn

(* The steps of a call that show nothing.                                  *)
LEMMA ShownCall ==
  ASSUME FavInv, ShownInv, NEW c \in Call,
         \/ StartRefresh(c) \/ ChartReply(c) \/ FavsReply(c) \/ CatsReplyNone(c)
         \/ CatsReplySome(c) \/ GroupsReply(c) \/ NetFail(c)
  PROVE  ShownInv'
<1> USE FavParts
<1>1. /\ catTbl' = catTbl /\ groupTbl' = groupTbl /\ rows' = rows /\ medias' \subseteq medias
      /\ \A d \in Call : d # c => call'[d] = call[d]
      /\ call[c].pc # "done" /\ (call'[c].pc = "items" => call'[c].groups = groupTbl)
    BY DEF StartRefresh, ChartReply, FavsReply, CatsReplyNone, CatsReplySome, GroupsReply, NetFail, Answered,
           At, db, disk, TypeOK, Progress
<1>2. ~overlapped' => ~overlapped
  BY DEF StartRefresh, ChartReply, FavsReply, CatsReplyNone, CatsReplySome, GroupsReply, NetFail, Answered,
         history, TypeOK
<1>3. ReadMove(queue, queue')
  <2>1. \A k \in Reads : [kind |-> k, call |-> c] \in ReadOp
    BY DEF ReadOp
  <2>2. CASE StartRefresh(c) \/ NetFail(c)
    BY <2>2 DEF StartRefresh, NetFail, db, ReadMove
  <2>3. CASE ChartReply(c)
    BY <2>1, <2>3 DEF ChartReply, Ask, ReadMove, Reads
  <2>4. ASSUME NEW k \in Reads, Answered(k, c), queue' = Tail(queue) \/ \E n \in Reads : ThenAsk(n, c)
        PROVE  ReadMove(queue, queue')
    BY <2>1, <2>4, AnsweredHead DEF ThenAsk, ReadMove
  <2>5. CASE FavsReply(c) \/ CatsReplyNone(c) \/ CatsReplySome(c) \/ GroupsReply(c)
    BY <2>4, <2>5 DEF FavsReply, CatsReplyNone, CatsReplySome, GroupsReply, Reads
  <2> QED BY <2>2, <2>3, <2>5
<1>4. /\ \A i \in 1..Len(queue') : Replaces(queue'[i]) => \E j \in 1..Len(queue) : queue[j] = queue'[i]
      /\ \A i \in 1..Len(queue) : Replaces(queue[i]) => \E j \in 1..Len(queue') : queue'[j] = queue[i]
  BY <1>3, ReplacesKept
<1>5. /\ \A d \in Call : At(d, "done") => call'[d] = call[d]
      /\ \A d \in Call : At(d, "items")' => (At(d, "items") /\ call'[d] = call[d]) \/ call'[d].groups = groupTbl
      /\ \A a \in Alias : HasRow(a) => HasRow(a)'
  BY <1>1 DEF At, HasRow
<1> QED BY <1>1, <1>2, <1>4, <1>5, ShelfKept

(* The stored catalogue is shown.                                          *)
LEMMA ShownItems ==
  ASSUME FavInv, TypeOK', ShownInv, NEW c \in Call, ItemsReply(c)
  PROVE  ShownInv'
<1> USE FavParts
<1>1. Answered("items", c) /\ "items" \in Reads
  BY DEF ItemsReply, Reads
<1>2. /\ queue # <<>> /\ IsRead(Head(queue)) /\ queue' = Tail(queue)
      /\ catTbl' = catTbl /\ groupTbl' = groupTbl /\ rows' = rows /\ overlapped' = overlapped
      /\ \A d \in Call : d # c => call'[d] = call[d]
      /\ call[c].pc = "items" /\ call'[c].pc = "net"
    BY <1>1, AnsweredHead DEF ItemsReply, Answered, disk, history, TypeOK, Progress
<1>3. ~catTbl' => groupTbl' = {}
  BY <1>2 DEF ShownInv
<1> SUFFICES ASSUME ~overlapped
             PROVE  /\ \A d \in Call : At(d, "items")' => call'[d].groups = groupTbl'
                    /\ (\A i \in 1..Len(queue') : ~Replaces(queue'[i])) => \A o \in medias' : Shelved(o)'
                    /\ \A i \in 1..Len(queue') : Replaces(queue'[i]) =>
                         \A o \in medias' : AliasOf(o) \in call'[queue'[i].call].served
  BY <1>2, <1>3 DEF ShownInv
<1>4. \A d \in Call : At(d, "items") => call[d].groups = groupTbl
  BY DEF ShownInv
<1>5. \A d \in Call : At(d, "items")' => call'[d].groups = groupTbl'
  BY <1>2, <1>4 DEF At
<1>6. \A i \in 1..Len(queue') : ~Replaces(queue'[i])
  BY <1>2, NothingToStore, TailOf
<1>7. ASSUME NEW o \in medias' PROVE Shelved(o)'
  <2>1. rows[o[1]] # "absent" /\ GroupOf[o[1]] \in call[c].groups
    BY DEF ItemsReply
  <2> QED BY <1>2, <1>4, <2>1 DEF Shelved, HasRow, AliasOf, At
<1> QED BY <1>5, <1>6, <1>7

(* The server's catalogue is shown, and is about to be stored.             *)
LEMMA ShownNet ==
  ASSUME FavInv, TypeOK', ShownInv, NEW c \in Call, NetReply(c)
  PROVE  ShownInv'
<1> USE FavParts
<1>1. PICK items \in Served[call[c].env] : NetReply(c)!(items)
  BY DEF NetReply
<1> DEFINE pa == [kind |-> "putAll", call |-> c]
           ra == [kind |-> "replaceAll", call |-> c]
<1>2. /\ call[c].pc = "net" /\ call'[c].pc = "done" /\ call'[c].served = items
      /\ \A d \in Call : d # c => call'[d] = call[d]
      /\ catTbl' = catTbl /\ groupTbl' = groupTbl /\ overlapped' = overlapped
      /\ medias' = items \X {c} \X {"net"}
  BY <1>1 DEF disk, history, At, TypeOK, Progress
<1>3. ~catTbl' => groupTbl' = {}
  BY <1>2 DEF ShownInv
<1> SUFFICES ASSUME ~overlapped
             PROVE  /\ \A d \in Call : At(d, "items")' => call'[d].groups = groupTbl'
                    /\ (\A i \in 1..Len(queue') : ~Replaces(queue'[i])) => \A o \in medias' : Shelved(o)'
                    /\ \A i \in 1..Len(queue') : Replaces(queue'[i]) =>
                         \A o \in medias' : AliasOf(o) \in call'[queue'[i].call].served
  BY <1>2, <1>3 DEF ShownInv
<1>4. \A d \in Call : At(d, "items")' => call'[d].groups = groupTbl'
  BY <1>2 DEF ShownInv, At
<1>5. pa \in Op /\ ra \in Op /\ Replaces(ra) /\ pa.call = c /\ ra.call = c
  BY OpTypes DEF Replaces
<1> HIDE DEF pa, ra
<1>6. queue' = Append(Append(queue, pa), ra) /\ Append(queue, pa) \in Seq(Op)
  <2>1. queue' = queue \o <<pa, ra>>
    BY <1>1 DEF WriteBack, pa, ra
  <2> QED BY <1>5, <2>1, AppendTwo, AppendOf
<1>7. ~(\A i \in 1..Len(queue') : ~Replaces(queue'[i]))
  <2>1. Len(Append(queue, pa)) + 1 \in 1..Len(queue') /\ queue'[Len(Append(queue, pa)) + 1] = ra
    BY <1>5, <1>6, AppendOf
  <2> QED BY <1>5, <2>1
<1>8. NoTxn(queue)
  <2>1. c \in Past
    BY <1>2 DEF Past
  <2> QED BY <2>1 DEF AloneInv
<1>9. \A i \in 1..Len(queue') : Replaces(queue'[i]) => queue'[i].call = c
  <2> SUFFICES ASSUME NEW i \in 1..Len(queue'), Replaces(queue'[i]) PROVE queue'[i].call = c
    OBVIOUS
  <2>1. IsTxn(queue'[i])
    BY DEF Replaces, IsTxn
  <2>2. (i \in 1..Len(Append(queue, pa)) /\ queue'[i] = Append(queue, pa)[i]) \/ queue'[i] = ra
    BY <1>5, <1>6, AppendOf
  <2>3. \A j \in 1..Len(Append(queue, pa)) :
          (j \in 1..Len(queue) /\ Append(queue, pa)[j] = queue[j]) \/ Append(queue, pa)[j] = pa
    BY <1>5, AppendOf
  <2> QED BY <1>5, <1>8, <2>1, <2>2, <2>3 DEF NoTxn
<1>10. \A o \in medias' : AliasOf(o) \in items
  BY <1>2 DEF AliasOf
<1> QED BY <1>2, <1>4, <1>7, <1>9, <1>10

(* A replacement stores the whole of what is shown.                        *)
LEMMA ShownCommit ==
  ASSUME FavInv, TypeOK', ShownInv, TxnCommit
  PROVE  ShownInv'
<1> USE FavParts
<1> DEFINE t == Head(queue).call
           items == call[t].served
           all == Head(queue).kind = "replaceAll"
<1>1. /\ queue # <<>> /\ Head(queue) \in TxnOp /\ queue' = Tail(queue)
      /\ call' = call /\ medias' = medias /\ overlapped' = overlapped
      /\ catTbl' = (catTbl \/ all)
      /\ groupTbl' = IF all THEN {GroupOf[a] : a \in items} ELSE groupTbl
  BY DEF TxnCommit, memory
<1>2. Head(queue) = queue[1] /\ Head(queue) \in Op /\ 1 \in 1..Len(queue) /\ IsTxn(Head(queue))
  BY <1>1, TailOf, OpKinds
<1>3. /\ \A a \in items : rows'[a] # "absent"
      /\ ~all => \A a \in Alias : rows[a] # "absent" => rows'[a] # "absent"
  BY CommittedRows
<1>4. \A i \in 1..Len(queue') : \E j \in 1..Len(queue) : queue[j] = queue'[i]
  BY <1>1, TailOf
<1>5. CASE ~all
  <2>1. \A i \in 1..Len(queue) : Replaces(queue[i]) => \E j \in 1..Len(queue') : queue'[j] = queue[i]
    <3> SUFFICES ASSUME NEW i \in 1..Len(queue), Replaces(queue[i]) PROVE \E j \in 1..Len(queue') : queue'[j] = queue[i]
      OBVIOUS
    <3>1. i # 1
      BY <1>2, <1>5 DEF Replaces
    <3> QED BY <1>1, <3>1, TailOf
  <2>2. catTbl' = catTbl /\ groupTbl' = groupTbl
    BY <1>1, <1>5 DEF TypeOK
  <2>3. \A a \in Alias : HasRow(a) => HasRow(a)'
    BY <1>3, <1>5 DEF HasRow
  <2>4. \A d \in Call : At(d, "items")' => At(d, "items") /\ call'[d] = call[d]
    BY <1>1 DEF At
  <2> QED BY <1>1, <1>4, <2>1, <2>2, <2>3, <2>4, ShelfKept
<1>6. CASE all
  <2>1. catTbl' = TRUE
    BY <1>1, <1>6
  <2> SUFFICES ASSUME ~overlapped
               PROVE  /\ \A d \in Call : At(d, "items")' => call'[d].groups = groupTbl'
                      /\ (\A i \in 1..Len(queue') : ~Replaces(queue'[i])) => \A o \in medias' : Shelved(o)'
                      /\ \A i \in 1..Len(queue') : Replaces(queue'[i]) =>
                           \A o \in medias' : AliasOf(o) \in call'[queue'[i].call].served
    BY <1>1, <2>1 DEF ShownInv
  <2>2. \A d \in Call : ~At(d, "items")
    <3>1. Past = {}
      BY <1>2 DEF AloneInv, NoTxn
    <3> QED BY <3>1 DEF Past, At
  <2>3. \A i \in 1..Len(queue) : Replaces(queue[i]) =>
          \A o \in medias : AliasOf(o) \in call[queue[i].call].served
    BY DEF ShownInv
  <2>4. ASSUME NEW o \in medias PROVE Shelved(o)'
    <3>1. AliasOf(o) \in items
      BY <1>2, <1>6, <2>3 DEF Replaces
    <3>2. groupTbl' = {GroupOf[a] : a \in items}
      BY <1>1, <1>6
    <3> QED BY <1>3, <3>1, <3>2 DEF Shelved, HasRow
  <2>5. \A d \in Call : ~At(d, "items")'
    BY <1>1, <2>2 DEF At
  <2> QED BY <1>1, <1>4, <2>3, <2>4, <2>5
<1> QED BY <1>5, <1>6

(* The other writes, and the taps.                                         *)
LEMMA ShownRest ==
  ASSUME FavInv, TypeOK', ShownInv,
         \/ PutDone \/ TxnBegin \/ (\E a \in Alias : TxnRow(a)) \/ OpenPage \/ ClosePage
         \/ (\E o \in Obj : MakeFavorite(o) \/ UnFavorite(o)) \/ vars' = vars
  PROVE  ShownInv'
<1> USE FavParts
<1>1. /\ catTbl' = catTbl /\ groupTbl' = groupTbl /\ medias' = medias /\ call' = call
      /\ overlapped' = overlapped
  BY DEF PutDone, TxnBegin, TxnRow, OpenPage, ClosePage, MakeFavorite, UnFavorite, Tap, vars, memory, db, disk, history
<1>2. \A a \in Alias : HasRow(a) => HasRow(a)'
  <2>1. CASE PutDone
    <3>1. Head(queue) \in PutOp /\ rows' = [rows EXCEPT ![Head(queue).alias] = Flag(Head(queue).fav)]
      BY <2>1 DEF PutDone
    <3>2. Flag(Head(queue).fav) # "absent"
      BY <3>1, FlagType DEF PutOp
    <3> QED BY <3>1, <3>2 DEF HasRow, TypeOK
  <2>2. CASE rows' = rows
    BY <2>2 DEF HasRow
  <2>3. PutDone \/ rows' = rows
    BY DEF TxnBegin, TxnRow, OpenPage, ClosePage, MakeFavorite, UnFavorite, Tap, vars, memory, db, disk
  <2> QED BY <2>1, <2>2, <2>3
<1>3. /\ \A i \in 1..Len(queue') : Replaces(queue'[i]) => \E j \in 1..Len(queue) : queue[j] = queue'[i]
      /\ \A i \in 1..Len(queue) : Replaces(queue[i]) => \E j \in 1..Len(queue') : queue'[j] = queue[i]
  <2>1. CASE queue' = queue
    BY <2>1
  <2>2. CASE PutDone
    <3>1. queue # <<>> /\ queue' = Tail(queue) /\ Head(queue) = queue[1] /\ Head(queue).kind = "put"
      BY <2>2, TailOf, OpKinds DEF PutDone
    <3>2. \A i \in 1..Len(queue) : Replaces(queue[i]) => i # 1
      BY <3>1 DEF Replaces
    <3> QED BY <3>1, <3>2, TailOf
  <2>3. ASSUME NEW o \in Obj, NEW f \in BOOLEAN, Ask([kind |-> "put", alias |-> AliasOf(o), fav |-> f])
        PROVE  /\ \A i \in 1..Len(queue') : Replaces(queue'[i]) => \E j \in 1..Len(queue) : queue[j] = queue'[i]
               /\ \A i \in 1..Len(queue) : Replaces(queue[i]) => \E j \in 1..Len(queue') : queue'[j] = queue[i]
    <3> DEFINE put == [kind |-> "put", alias |-> AliasOf(o), fav |-> f]
    <3>1. AliasOf(o) \in Alias
      BY DEF AliasOf, Obj
    <3>2. put \in Op /\ ~Replaces(put) /\ queue' = Append(queue, put)
      BY <2>3, <3>1, PutTypes DEF Replaces, Ask
    <3> HIDE DEF put
    <3> QED BY <3>2, AppendOf
  <2>4. \/ queue' = queue \/ PutDone
        \/ \E o \in Obj, f \in BOOLEAN : Ask([kind |-> "put", alias |-> AliasOf(o), fav |-> f])
    BY DEF TxnBegin, TxnRow, OpenPage, ClosePage, MakeFavorite, UnFavorite, vars, memory, db
  <2> QED BY <2>1, <2>2, <2>3, <2>4
<1>4. \A d \in Call : At(d, "items")' => At(d, "items") /\ call'[d] = call[d]
  BY <1>1 DEF At
<1> QED BY <1>1, <1>2, <1>3, <1>4, ShelfKept

(* A catalogue that an earlier run stored is in the tables of both kinds.  *)
LEMMA ShownInit == Init => ShownInv
<1> SUFFICES ASSUME Init PROVE ShownInv
  OBVIOUS
<1>1. ~catTbl => groupTbl = {}
  BY DEF Init, FreshInstall, UsedBefore
<1>2. medias = {} /\ \A c \in Call : ~At(c, "items")
  BY DEF Init, MemoryAtStart, At, NoCall
<1> QED BY <1>1, <1>2 DEF ShownInv

(* Every step keeps what is known of the screen.                           *)
LEMMA ShownNext == FavInv /\ TypeOK' /\ ShownInv /\ [Next]_vars => ShownInv'
<1> SUFFICES ASSUME FavInv, TypeOK', ShownInv, [Next]_vars PROVE ShownInv'
  OBVIOUS
<1>1. ASSUME NEW c \in Call, Refresh(c) \/ SwitchEnvironment(c) \/ Reply(c) PROVE ShownInv'
  BY <1>1, ShownCall, ShownItems, ShownNet DEF Refresh, SwitchEnvironment, Reply
<1>2. CASE TxnCommit
  BY <1>2, ShownCommit
<1>3. CASE \/ PutDone \/ TxnBegin \/ (\E a \in Alias : TxnRow(a)) \/ OpenPage \/ ClosePage
           \/ (\E o \in Obj : MakeFavorite(o) \/ UnFavorite(o)) \/ vars' = vars
  BY <1>3, ShownRest
<1>4. CASE Restart
  <2>1. /\ catTbl' = catTbl /\ groupTbl' = groupTbl /\ medias' = {}
        /\ \A c \in Call : ~At(c, "items")'
    BY <1>4 DEF Restart, disk, At, NoCall
  <2> QED BY <2>1 DEF ShownInv
<1> QED BY <1>1, <1>2, <1>3, <1>4 DEF Next, Write

(* Of one refresh at a time, what is on screen is stored or about to be.   *)
THEOREM ShownAgrees == Spec => [](FavInv /\ ShownInv)
<1>1. Init => FavInv /\ ShownInv
  BY FavInit, ShownInit
<1>2. FavInv /\ ShownInv /\ [Next]_vars => (FavInv /\ ShownInv)'
  <2> SUFFICES ASSUME FavInv, ShownInv, [Next]_vars PROVE FavInv' /\ ShownInv'
    OBVIOUS
  <2>1. FavInv'
    BY FavNext
  <2>2. TypeOK'
    BY <2>1 DEF FavInv, StoredInv
  <2> QED BY <2>1, <2>2, ShownNext
<1> QED BY <1>1, <1>2, PTL DEF Spec

(* With one refresh at a time and nothing left to write, the next start
   shows offline every item that is on screen.                             *)
THEOREM ShownStored == Spec => []ShownIsStored
<1>1. FavInv /\ ShownInv => ShownIsStored
  BY DEF ShownInv, ShownIsStored, Shelved, HasRow
<1> QED BY <1>1, ShownAgrees, PTL

(* With one refresh at a time, a catalogue on screen is not replaced by
   nothing, even while it is not stored yet.                               *)
THEOREM NeverBlank == Spec => CatalogueStays
<1> DEFINE Stays == ~overlapped /\ medias # {} => medias' # {} \/ restarts' # restarts
<1>1. FavInv /\ ShownInv /\ TypeOK' /\ [Next]_vars => [Stays]_vars
  <2> SUFFICES ASSUME FavInv, ShownInv, [Next]_vars, ~overlapped, NEW o \in medias, medias' = {}
               PROVE  restarts' # restarts
    OBVIOUS
  <2>1. ASSUME NEW c \in Call, NEW k \in Reads, Answered(k, c) PROVE Shelved(o)
    <3>1. \A i \in 1..Len(queue) : ~Replaces(queue[i])
      BY <2>1, AnsweredHead, NothingToStore
    <3> QED BY <3>1 DEF ShownInv
  <2>2. ASSUME NEW c \in Call, CatsReplyNone(c) PROVE FALSE
    <3>1. Shelved(o) /\ ~catTbl
      BY <2>1, <2>2 DEF CatsReplyNone, Reads
    <3> QED BY <3>1 DEF ShownInv, Shelved
  <2>3. ASSUME NEW c \in Call, ItemsReply(c) PROVE FALSE
    <3>1. Shelved(o) /\ At(c, "items")
      BY <2>1, <2>3 DEF ItemsReply, Reads, Answered
    <3>2. call[c].groups = groupTbl
      BY <3>1 DEF ShownInv
    <3>3. AliasOf(o) \in Alias
      BY FavParts DEF TypeOK, AliasOf, Obj
    <3>4. <<AliasOf(o), c, "db">> \in medias'
      <4> DEFINE shown == {a \in Alias : rows[a] # "absent" /\ GroupOf[a] \in call[c].groups}
      <4>1. AliasOf(o) \in shown
        BY <3>1, <3>2, <3>3 DEF Shelved, HasRow
      <4>2. medias' = shown \X {c} \X {"db"}
        BY <2>3 DEF ItemsReply
      <4> HIDE DEF shown
      <4>3. <<AliasOf(o), c, "db">> \in shown \X {c} \X {"db"}
        BY <4>1
      <4> QED BY <4>2, <4>3
    <3> QED BY <3>4
  <2>4. ASSUME NEW c \in Call, NetReply(c) PROVE FALSE
    <3>1. PICK items \in Served[call[c].env] : items # {} /\ medias' = items \X {c} \X {"net"}
      BY <2>4 DEF NetReply
    <3>2. PICK a \in items : TRUE
      BY <3>1
    <3>3. <<a, c, "net">> \in items \X {c} \X {"net"}
      BY <3>2
    <3>4. <<a, c, "net">> \in medias'
      BY <3>1, <3>3
    <3> QED BY <3>4
  <2>5. ASSUME NEW c \in Call, Refresh(c) \/ SwitchEnvironment(c) \/ Reply(c) PROVE FALSE
    <3>1. CASE medias' = medias
      BY <3>1
    <3> QED BY <2>2, <2>3, <2>4, <2>5, <3>1
         DEF Reply, Refresh, SwitchEnvironment, StartRefresh, ChartReply, FavsReply, CatsReplySome, GroupsReply, NetFail
  <2>6. CASE Restart
    BY <2>6, FavParts DEF Restart, TypeOK
  <2>7. CASE Write \/ OpenPage \/ ClosePage \/ vars' = vars
    <3>1. medias' = medias
      BY <2>7 DEF Write, PutDone, TxnBegin, TxnRow, TxnCommit, OpenPage, ClosePage, vars, memory
    <3> QED BY <3>1
  <2>8. CASE \E p \in Obj : MakeFavorite(p) \/ UnFavorite(p)
    <3>1. medias' = medias
      BY <2>8 DEF MakeFavorite, UnFavorite, Tap
    <3> QED BY <3>1
  <2> QED BY <2>5, <2>6, <2>7, <2>8 DEF Next
<1>2. FavInv => TypeOK
  BY FavParts
<1>3. (FavInv /\ ShownInv) /\ (FavInv /\ ShownInv)' /\ [Next]_vars => [Stays]_vars
  <2>1. FavInv' => TypeOK'
    BY <1>2, PTL
  <2> QED BY <1>1, <2>1
<1> QED BY <1>3, ShownAgrees, PTL DEF Spec, CatalogueStays
=============================================================================
