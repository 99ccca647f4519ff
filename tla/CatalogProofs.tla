---------------------------- MODULE CatalogProofs ----------------------------
(***************************************************************************)
(* Theorems about Catalog: its types, and that the tables always hold one  *)
(* whole catalogue, for every set of aliases, groups and environments and  *)
(* any number of refreshes, taps and restarts.                             *)
(***************************************************************************)
EXTENDS Catalog, TLAPS, SequenceTheorems

(* A flag is a row, and a present one.                                     *)
LEMMA FlagType == \A f \in BOOLEAN : Flag(f) \in Row /\ Flag(f) # "absent"
  BY DEF Flag, Row

(* The kinds of writes.                                                    *)
LEMMA OpTypes ==
  ASSUME NEW c \in Call
  PROVE  /\ \A k \in Reads : [kind |-> k, call |-> c] \in Op
         /\ \A a \in Alias, f \in BOOLEAN : [kind |-> "put", alias |-> a, fav |-> f] \in Op
         /\ [kind |-> "putAll", call |-> c] \in Op
         /\ [kind |-> "replaceAll", call |-> c] \in Op
  BY DEF Op, ReadOp, PutOp, TxnOp

(* A put has the type of an operation.                                     *)
LEMMA PutTypes ==
  ASSUME NEW a \in Alias, NEW f \in BOOLEAN
  PROVE  [kind |-> "put", alias |-> a, fav |-> f] \in Op
  BY DEF Op, PutOp

(* The objects a load makes, and the steps of a call.                      *)
LEMMA NewObjects ==
  ASSUME NEW items \in SUBSET Alias, NEW c \in Call, NEW s \in Source
  PROVE  items \X {c} \X {s} \in SUBSET Obj
  BY DEF Obj

(* A call that goes on keeps its type.                                     *)
LEMMA NextAwait ==
  ASSUME NEW f \in [Call -> Progress], NEW c \in Call, NEW p \in Suspended
  PROVE  /\ [f EXCEPT ![c].pc = p] \in [Call -> Progress]
         /\ \A e \in Env : [f EXCEPT ![c].pc = p, ![c].env = e] \in [Call -> Progress]
         /\ \A e \in Env : [f EXCEPT ![c].pc = p, ![c].env = e, ![c].groups = {}] \in [Call -> Progress]
         /\ \A g \in SUBSET Group : [f EXCEPT ![c].pc = p, ![c].groups = g] \in [Call -> Progress]
         /\ \A i \in SUBSET Alias : [f EXCEPT ![c].pc = p, ![c].served = i] \in [Call -> Progress]
  BY DEF Progress

(* What a transaction reads, and what a committed one leaves in the rows.  *)
LEMMA CapturedType ==
  ASSUME TypeOK, NEW c \in Call
  PROVE  CapturedOf(c) \in [Alias -> BOOLEAN]
<1>1. \A a \in Alias : <<a, c, "net">> \in Obj
  BY DEF Obj, Source
<1> QED
  BY <1>1 DEF CapturedOf, TypeOK

(* What a committed transaction leaves in the rows.                        *)
LEMMA CommittedRows ==
  ASSUME TypeOK, TxnCommit
  PROVE  /\ rows' \in [Alias -> Row]
         /\ \A a \in call[Head(queue).call].served : rows'[a] # "absent"
         /\ Head(queue).kind # "replaceAll" =>
              \A a \in Alias : rows[a] # "absent" => rows'[a] # "absent"
<1> DEFINE items == call[Head(queue).call].served
           all == Head(queue).kind = "replaceAll"
<1>1. items \in SUBSET Alias
  BY DEF TxnCommit, TxnOp, TypeOK, Progress
<1>2. rows' = [a \in Alias |-> IF a \in items THEN Flag(captured[a])
                              ELSE IF all THEN "absent" ELSE rows[a]]
  BY DEF TxnCommit
<1>3. \A a \in Alias : Flag(captured[a]) \in Row /\ Flag(captured[a]) # "absent" /\ rows[a] \in Row
  BY FlagType DEF TypeOK
<1> HIDE DEF items, all
<1>4. rows' \in [Alias -> Row]
  BY <1>2, <1>3 DEF Row
<1>5. \A a \in items : rows'[a] # "absent"
  BY <1>1, <1>2, <1>3
<1>6. ~all => \A a \in Alias : rows[a] # "absent" => rows'[a] # "absent"
  BY <1>2, <1>3
<1> QED
  BY <1>4, <1>5, <1>6 DEF items, all

-----------------------------------------------------------------------------
(* The types of the variables, preserved by every action.                  *)
LEMMA TypeInit == Init => TypeOK
<1> SUFFICES ASSUME Init PROVE TypeOK
  OBVIOUS
<1>1. NoCall \in Progress
  BY DEF Init, NoCall, Suspended, Progress
<1>2. <<>> \in Seq(Obj) /\ <<>> \in Seq(Op)
  OBVIOUS
<1> QED
  BY <1>1, <1>2 DEF Init, MemoryAtStart, TypeOK

(* Every step keeps the types.                                             *)
LEMMA TypeNext == TypeOK /\ [Next]_vars => TypeOK'
<1> SUFFICES ASSUME TypeOK, [Next]_vars PROVE TypeOK'
  OBVIOUS
<1> USE CatalogAssumption
<1> "chart" \in Suspended /\ "favs" \in Suspended /\ "cats" \in Suspended /\ "groups" \in Suspended
    /\ "items" \in Suspended /\ "net" \in Suspended /\ "done" \in Suspended /\ "failed" \in Suspended
  BY DEF Suspended
<1> "fav" \in Source /\ "db" \in Source /\ "net" \in Source /\ "chart" \in Source
  BY DEF Source
<1>1. ASSUME NEW c \in Call, StartRefresh(c), env' \in Env PROVE TypeOK'
  <2>1. call' \in [Call -> Progress]
    BY <1>1, NextAwait DEF StartRefresh, TypeOK
  <2>2. overlapped' \in BOOLEAN
    BY <1>1 DEF StartRefresh, TypeOK
  <2> QED
    BY <1>1, <2>1, <2>2 DEF TypeOK, StartRefresh, db, disk
<1>2. ASSUME NEW c \in Call, Refresh(c) PROVE TypeOK'
  BY <1>1, <1>2 DEF Refresh, TypeOK
<1>3. ASSUME NEW c \in Call, SwitchEnvironment(c) PROVE TypeOK'
  BY <1>1, <1>3 DEF SwitchEnvironment
<1>4. ASSUME NEW c \in Call, ChartReply(c) PROVE TypeOK'
  <2>1. chartList' \in SUBSET Obj
    <3>1. PICK items \in {{}, Chart} : chartList' = items \X {c} \X {"chart"}
      BY <1>4 DEF ChartReply
    <3>2. items \in SUBSET Alias
      BY DEF CatalogAssumption
    <3> QED
      BY <3>1, <3>2, NewObjects
  <2>2. queue' \in Seq(Op)
    <3>1. [kind |-> "favs", call |-> c] \in Op
      BY OpTypes DEF Reads
    <3> QED
      BY <1>4, <3>1 DEF ChartReply, Ask, TypeOK
  <2>3. call' \in [Call -> Progress]
    BY <1>4, NextAwait DEF ChartReply, TypeOK
  <2> QED
    BY <1>4, <2>1, <2>2, <2>3 DEF TypeOK, ChartReply, disk, history
<1>5. ASSUME NEW c \in Call, NEW k, Answered(k, c)
      PROVE  /\ Tail(queue) \in Seq(Op)
             /\ \A kind \in Reads : ThenAsk(kind, c) => queue' \in Seq(Op)
  <2>1. Tail(queue) \in Seq(Op)
    BY <1>5 DEF Answered, TypeOK
  <2>2. \A kind \in Reads : [kind |-> kind, call |-> c] \in Op
    BY OpTypes
  <2> QED
    BY <2>1, <2>2 DEF ThenAsk
<1>6. ASSUME NEW c \in Call, FavsReply(c) PROVE TypeOK'
  <2>1. favorites' \in [Alias -> Seq(Obj)]
    <3>1. \A a \in Alias : << <<a, c, "fav">> >> \in Seq(Obj) /\ <<>> \in Seq(Obj)
      BY DEF Obj
    <3> QED
      BY <1>6, <3>1 DEF FavsReply
  <2>2. heart' \in [Obj -> BOOLEAN]
    BY <1>6 DEF FavsReply, RowHearts, TypeOK
  <2>3. queue' \in Seq(Op)
    BY <1>6, <1>5 DEF FavsReply, Reads
  <2>4. call' \in [Call -> Progress]
    BY <1>6, NextAwait DEF FavsReply, TypeOK
  <2> QED
    BY <1>6, <2>1, <2>2, <2>3, <2>4 DEF FavsReply, Answered, TypeOK, disk, history
<1>7. ASSUME NEW c \in Call, CatsReplyNone(c) PROVE TypeOK'
  <2>1. queue' \in Seq(Op)
    BY <1>7, <1>5 DEF CatsReplyNone
  <2>2. call' \in [Call -> Progress]
    BY <1>7, NextAwait DEF CatsReplyNone, TypeOK
  <2> QED
    BY <1>7, <2>1, <2>2 DEF CatsReplyNone, Answered, TypeOK, disk, history
<1>8. ASSUME NEW c \in Call, CatsReplySome(c) PROVE TypeOK'
  <2>1. queue' \in Seq(Op)
    BY <1>8, <1>5 DEF CatsReplySome, Reads
  <2>2. call' \in [Call -> Progress]
    BY <1>8, NextAwait DEF CatsReplySome, TypeOK
  <2> QED
    BY <1>8, <2>1, <2>2 DEF CatsReplySome, Answered, TypeOK, disk, history
<1>9. ASSUME NEW c \in Call, GroupsReply(c) PROVE TypeOK'
  <2>1. queue' \in Seq(Op)
    BY <1>9, <1>5 DEF GroupsReply, Reads
  <2>2. call' \in [Call -> Progress]
    BY <1>9, NextAwait DEF GroupsReply, TypeOK
  <2> QED
    BY <1>9, <2>1, <2>2 DEF GroupsReply, Answered, TypeOK, disk, history
<1>10. ASSUME NEW c \in Call, ItemsReply(c) PROVE TypeOK'
  <2>1. medias' \in SUBSET Obj
    BY <1>10, NewObjects DEF ItemsReply
  <2>2. heart' \in [Obj -> BOOLEAN]
    BY <1>10 DEF ItemsReply, RowHearts, TypeOK
  <2>3. queue' \in Seq(Op)
    BY <1>10, <1>5 DEF ItemsReply
  <2>4. call' \in [Call -> Progress]
    BY <1>10, NextAwait DEF ItemsReply, TypeOK
  <2> QED
    BY <1>10, <2>1, <2>2, <2>3, <2>4 DEF ItemsReply, DataFetched, Answered, TypeOK, disk, history
<1>11. ASSUME NEW c \in Call, NetReply(c) PROVE TypeOK'
  <2>1. PICK items \in Served[call[c].env] : NetReply(c)!(items)
    BY <1>11 DEF NetReply
  <2>2. items \in SUBSET Alias
    BY <2>1 DEF TypeOK, Progress, CatalogAssumption
  <2>3. medias' \in SUBSET Obj
    BY <2>1, <2>2, NewObjects
  <2>4. heart' \in [Obj -> BOOLEAN]
    BY <2>1 DEF ProcessItems, TypeOK, Favourite
  <2>5. queue' \in Seq(Op)
    <3>1. WriteBack(c) \in Seq(Op)
      BY OpTypes DEF WriteBack
    <3> QED
      BY <2>1, <3>1 DEF TypeOK
  <2>6. call' \in [Call -> Progress]
    BY <2>1, <2>2, NextAwait DEF TypeOK
  <2> QED
    BY <2>1, <2>3, <2>4, <2>5, <2>6 DEF DataFetched, TypeOK, disk, history
<1>12. ASSUME NEW c \in Call, NetFail(c) PROVE TypeOK'
  <2>1. call' \in [Call -> Progress]
    BY <1>12, NextAwait DEF NetFail, TypeOK
  <2> QED
    BY <1>12, <2>1 DEF NetFail, TypeOK, db, disk, history
<1>13. CASE PutDone
  <2>1. Head(queue).alias \in Alias /\ Head(queue).fav \in BOOLEAN
    BY <1>13 DEF PutDone, PutOp
  <2>2. rows' \in [Alias -> Row]
    BY <1>13, <2>1, FlagType DEF PutDone, TypeOK
  <2>3. queue' \in Seq(Op)
    BY <1>13 DEF PutDone, TypeOK
  <2> QED
    BY <1>13, <2>2, <2>3 DEF PutDone, TypeOK, memory, history
<1>14. CASE TxnBegin
  <2>1. Head(queue).call \in Call
    BY <1>14 DEF TxnBegin, TxnOp
  <2>2. captured' \in [Alias -> BOOLEAN]
    BY <1>14, <2>1, CapturedType DEF TxnBegin
  <2> QED
    BY <1>14, <2>2 DEF TxnBegin, TypeOK, memory, disk, history
<1>15. ASSUME NEW a \in Alias, TxnRow(a) PROVE TypeOK'
  <2>1. Head(queue).call \in Call
    BY <1>15 DEF TxnRow, TxnOp
  <2>2. captured' \in [Alias -> BOOLEAN]
    BY <1>15, <2>1, CapturedType DEF TxnRow, TypeOK
  <2> QED
    BY <1>15, <2>2 DEF TxnRow, TypeOK, memory, disk, history
<1>16. CASE TxnCommit
  <2>1. call[Head(queue).call].served \in SUBSET Alias
    BY <1>16 DEF TxnCommit, TxnOp, TypeOK, Progress
  <2>2. rows' \in [Alias -> Row]
    BY <1>16, CommittedRows
  <2>3. groupTbl' \in SUBSET Group
    BY <1>16, <2>1 DEF TxnCommit, TypeOK, CatalogAssumption
  <2>4. catTbl' \in BOOLEAN
    BY <1>16 DEF TxnCommit, TypeOK
  <2>5. queue' \in Seq(Op) /\ captured' \in [Alias -> BOOLEAN]
    BY <1>16 DEF TxnCommit, TypeOK
  <2> QED
    BY <1>16, <2>2, <2>3, <2>4, <2>5 DEF TxnCommit, TypeOK, memory, history
<1>17. CASE OpenPage
  <2>1. page' \in SUBSET Obj
    BY <1>17 DEF OpenPage, Listed, TypeOK
  <2> QED
    BY <1>17, <2>1 DEF OpenPage, TypeOK, db, disk, history
<1>18. CASE ClosePage
  BY <1>18 DEF ClosePage, TypeOK, db, disk, history
<1>19. ASSUME NEW o \in Obj, Tap(o)
       PROVE  /\ AliasOf(o) \in Alias /\ tainted' \in SUBSET Alias /\ taps' \in Nat
              /\ favorites[AliasOf(o)] \in Seq(Obj)
              /\ \A f \in BOOLEAN : Ask([kind |-> "put", alias |-> AliasOf(o), fav |-> f]) => queue' \in Seq(Op)
  <2>1. AliasOf(o) \in Alias
    BY DEF AliasOf, Obj
  <2>2. tainted' \in SUBSET Alias /\ taps' \in Nat
    BY <1>19, <2>1 DEF Tap, TypeOK
  <2>3. favorites[AliasOf(o)] \in Seq(Obj)
    BY <2>1 DEF TypeOK
  <2>4. \A f \in BOOLEAN : [kind |-> "put", alias |-> AliasOf(o), fav |-> f] \in Op
    BY <2>1, PutTypes
  <2>5. \A op \in Op : Ask(op) => queue' \in Seq(Op)
    BY DEF TypeOK, Ask
  <2> QED
    BY <2>1, <2>2, <2>3, <2>4, <2>5
<1>20. ASSUME NEW o \in Obj, MakeFavorite(o) PROVE TypeOK'
  <2>1. favorites' \in [Alias -> Seq(Obj)]
    BY <1>19, <1>20 DEF MakeFavorite, TypeOK
  <2>2. heart' \in [Obj -> BOOLEAN]
    BY <1>20 DEF MakeFavorite, TypeOK
  <2>3. queue' \in Seq(Op) /\ tainted' \in SUBSET Alias /\ taps' \in Nat
    BY <1>19, <1>20 DEF MakeFavorite
  <2> QED
    BY <1>20, <2>1, <2>2, <2>3 DEF MakeFavorite, Tap, TypeOK, disk
<1>21. ASSUME NEW o \in Obj, UnFavorite(o) PROVE TypeOK'
  <2>1. favorites' \in [Alias -> Seq(Obj)]
    BY <1>19, <1>21 DEF UnFavorite, TypeOK
  <2>2. heart' \in [Obj -> BOOLEAN]
    BY <1>21 DEF UnFavorite, TypeOK
  <2>3. queue' \in Seq(Op) /\ tainted' \in SUBSET Alias /\ taps' \in Nat
    BY <1>19, <1>21 DEF UnFavorite
  <2> QED
    BY <1>21, <2>1, <2>2, <2>3 DEF UnFavorite, Tap, TypeOK, disk
<1>22. CASE Restart
  <2>1. NoCall \in Progress
    BY DEF TypeOK, NoCall, Suspended, Progress
  <2>2. <<>> \in Seq(Obj) /\ <<>> \in Seq(Op)
    OBVIOUS
  <2>3. favorites' \in [Alias -> Seq(Obj)] /\ call' \in [Call -> Progress]
    BY <1>22, <2>1, <2>2 DEF Restart
  <2>4. heart' \in [Obj -> BOOLEAN] /\ captured' \in [Alias -> BOOLEAN]
    BY <1>22 DEF Restart
  <2>5. medias' \in SUBSET Obj /\ chartList' \in SUBSET Obj /\ page' \in SUBSET Obj
    BY <1>22 DEF Restart
  <2>6. queue' \in Seq(Op) /\ tainted' \in SUBSET Alias /\ restarts' \in Nat /\ taps' \in Nat
    BY <1>22, <2>2 DEF Restart, TypeOK
  <2> QED
    BY <1>22, <2>3, <2>4, <2>5, <2>6 DEF Restart, TypeOK, disk
<1>23. CASE UNCHANGED vars
  BY <1>23 DEF vars, memory, db, disk, history, TypeOK
<1> QED
  BY <1>2, <1>3, <1>4, <1>6, <1>7, <1>8, <1>9, <1>10, <1>11, <1>12, <1>13, <1>14, <1>15, <1>16,
     <1>17, <1>18, <1>20, <1>21, <1>22, <1>23 DEF Next, Reply, Write

(* Every variable keeps its type, whatever is interleaved.                 *)
THEOREM TypeCorrect == Spec => []TypeOK
  BY TypeInit, TypeNext, PTL DEF Spec

-----------------------------------------------------------------------------
(* The stored catalogue.  The tables alone are not inductive: a transaction
   writes what its call was answered long before.                          *)

(* A transaction in the queue belongs to a call that has ended, and writes a
   catalogue a server sent.                                                *)
Transactions == {op \in TxnOp : \E i \in 1..Len(queue) : queue[i] = op}
SentByServer(items) == \E e \in Env : items \in Served[e]
QueuedCataloguesServed ==
  \A op \in Transactions : At(op.call, "done") /\ SentByServer(call[op.call].served)

StoredInv == TypeOK /\ StoredCatalogueWhole /\ QueuedCataloguesServed

(* What an action leaves in, or adds to, the queue.                        *)
LEMMA TailKeeps ==
  ASSUME TypeOK, queue # <<>>, queue' = Tail(queue)
  PROVE  Transactions' \subseteq Transactions
  BY DEF Transactions, TypeOK

(* An append adds only the appended to the queue.                          *)
LEMMA AppendKeeps ==
  ASSUME TypeOK, NEW op \in Op, queue' = Append(queue, op), op \notin TxnOp
  PROVE  Transactions' \subseteq Transactions
  BY DEF Transactions, TypeOK

(* A tail and an append add only the appended to the queue.                *)
LEMMA TailAppendKeeps ==
  ASSUME TypeOK, NEW op \in Op, queue # <<>>, queue' = Append(Tail(queue), op), op \notin TxnOp
  PROVE  Transactions' \subseteq Transactions
  BY DEF Transactions, TypeOK

(* Steps that touch neither rows nor jobs keep StoredInv.                  *)
LEMMA UntouchedKeeps ==
  ASSUME queue' = queue
  PROVE  Transactions' \subseteq Transactions
  BY DEF Transactions

(* A step that leaves the ended calls and the tables alone and adds no
   transaction.                                                            *)
LEMMA NoWriteKeeps ==
  ASSUME StoredInv, UNCHANGED disk, Transactions' \subseteq Transactions,
         \A c \in Call : At(c, "done") => call'[c] = call[c]
  PROVE  StoredCatalogueWhole' /\ QueuedCataloguesServed'
<1>1. StoredCatalogueWhole'
  BY DEF StoredInv, StoredCatalogueWhole, disk
<1>2. QueuedCataloguesServed'
  <2> SUFFICES ASSUME NEW op \in Transactions'
               PROVE  At(op.call, "done")' /\ SentByServer(call'[op.call].served)
    BY DEF QueuedCataloguesServed, SentByServer
  <2>1. op \in Transactions /\ op.call \in Call
    BY DEF Transactions, TxnOp
  <2> QED
    BY <2>1 DEF StoredInv, QueuedCataloguesServed, At
<1> QED
  BY <1>1, <1>2

(* Every step keeps StoredInv.                                             *)
LEMMA StoredNext == StoredInv /\ [Next]_vars => StoredInv'
<1> SUFFICES ASSUME StoredInv, [Next]_vars PROVE StoredInv'
  OBVIOUS
<1> USE CatalogAssumption
<1>0. TypeOK /\ TypeOK'
  BY TypeNext DEF StoredInv
<1> SUFFICES StoredCatalogueWhole' /\ QueuedCataloguesServed'
  BY <1>0 DEF StoredInv
<1>2. ASSUME NEW c \in Call, StartRefresh(c) PROVE StoredCatalogueWhole' /\ QueuedCataloguesServed'
  <2>1. \A d \in Call : At(d, "done") => call'[d] = call[d]
    BY <1>0, <1>2 DEF StartRefresh, At, TypeOK
  <2>2. UNCHANGED disk /\ queue' = queue
    BY <1>2 DEF StartRefresh, db
  <2> QED
    BY <2>1, <2>2, UntouchedKeeps, NoWriteKeeps
<1>3. ASSUME NEW c \in Call, ChartReply(c) PROVE StoredCatalogueWhole' /\ QueuedCataloguesServed'
  <2>1. \A d \in Call : At(d, "done") => call'[d] = call[d]
    BY <1>0, <1>3 DEF ChartReply, At, TypeOK
  <2>2. [kind |-> "favs", call |-> c] \in Op /\ [kind |-> "favs", call |-> c] \notin TxnOp
    BY OpTypes DEF Reads, TxnOp
  <2>3. UNCHANGED disk /\ Transactions' \subseteq Transactions
    BY <1>0, <1>3, <2>2, AppendKeeps DEF ChartReply, Ask
  <2> QED
    BY <2>1, <2>3, NoWriteKeeps
<1>4. ASSUME NEW c \in Call, NEW k \in Reads, Answered(k, c),
             \/ queue' = Tail(queue)
             \/ \E kind \in Reads : ThenAsk(kind, c),
             \A d \in Call : At(d, "done") => call'[d] = call[d]
      PROVE  StoredCatalogueWhole' /\ QueuedCataloguesServed'
  <2>1. \A kind \in Reads : [kind |-> kind, call |-> c] \in Op /\ [kind |-> kind, call |-> c] \notin TxnOp
    BY OpTypes DEF Reads, TxnOp
  <2>2. Transactions' \subseteq Transactions
    BY <1>0, <1>4, <2>1, TailKeeps, TailAppendKeeps DEF Answered, ThenAsk
  <2>3. UNCHANGED disk
    BY <1>4 DEF Answered
  <2> QED
    BY <1>4, <2>2, <2>3, NoWriteKeeps
<1>5. ASSUME NEW c \in Call, FavsReply(c) PROVE StoredCatalogueWhole' /\ QueuedCataloguesServed'
  <2>1. \A d \in Call : At(d, "done") => call'[d] = call[d]
    BY <1>0, <1>5 DEF FavsReply, Answered, At, TypeOK
  <2> QED
    BY <1>4, <1>5, <2>1 DEF FavsReply, Reads
<1>6. ASSUME NEW c \in Call, CatsReplyNone(c) PROVE StoredCatalogueWhole' /\ QueuedCataloguesServed'
  <2>1. \A d \in Call : At(d, "done") => call'[d] = call[d]
    BY <1>0, <1>6 DEF CatsReplyNone, Answered, At, TypeOK
  <2> QED
    BY <1>4, <1>6, <2>1 DEF CatsReplyNone, Reads
<1>7. ASSUME NEW c \in Call, CatsReplySome(c) PROVE StoredCatalogueWhole' /\ QueuedCataloguesServed'
  <2>1. \A d \in Call : At(d, "done") => call'[d] = call[d]
    BY <1>0, <1>7 DEF CatsReplySome, Answered, At, TypeOK
  <2> QED
    BY <1>4, <1>7, <2>1 DEF CatsReplySome, Reads
<1>8. ASSUME NEW c \in Call, GroupsReply(c) PROVE StoredCatalogueWhole' /\ QueuedCataloguesServed'
  <2>1. \A d \in Call : At(d, "done") => call'[d] = call[d]
    BY <1>0, <1>8 DEF GroupsReply, Answered, At, TypeOK
  <2> QED
    BY <1>4, <1>8, <2>1 DEF GroupsReply, Reads
<1>9. ASSUME NEW c \in Call, ItemsReply(c) PROVE StoredCatalogueWhole' /\ QueuedCataloguesServed'
  <2>1. \A d \in Call : At(d, "done") => call'[d] = call[d]
    BY <1>0, <1>9 DEF ItemsReply, Answered, At, TypeOK
  <2> QED
    BY <1>4, <1>9, <2>1 DEF ItemsReply, Reads
(* The two transactions a call asks for write what it was answered.        *)
<1>10. ASSUME NEW c \in Call, NetReply(c) PROVE StoredCatalogueWhole' /\ QueuedCataloguesServed'
  <2>1. PICK items \in Served[call[c].env] : NetReply(c)!(items)
    BY <1>10 DEF NetReply
  <2>2. \A d \in Call : At(d, "done") => call'[d] = call[d]
    BY <1>0, <2>1 DEF At, TypeOK
  <2>3. call'[c].pc = "done" /\ call'[c].served = items
    BY <1>0, <2>1 DEF TypeOK, Progress
  <2>4. SentByServer(items)
    BY <1>0, <2>1 DEF SentByServer, TypeOK, Progress
  <2>5. \A op \in Transactions' : op \in Transactions \/ op.call = c
    <3>1. /\ Len(WriteBack(c)) = 2 /\ WriteBack(c) \in Seq(Op)
          /\ WriteBack(c)[1].call = c /\ WriteBack(c)[2].call = c
      BY OpTypes DEF WriteBack
    <3>2. \A i \in 1..Len(queue') : (\E j \in 1..Len(queue) : queue'[i] = queue[j]) \/ queue'[i].call = c
      <4>1. queue \in Seq(Op) /\ queue' = queue \o WriteBack(c)
        BY <1>0, <2>1 DEF TypeOK
      <4>2. Len(queue') = Len(queue) + 2
        <5>1. Len(queue') = Len(queue) + Len(WriteBack(c))
          BY <3>1, <4>1, ConcatProperties
        <5> QED
          BY <3>1, <5>1
      <4>3. \A i \in 1..Len(queue') : queue'[i] = IF i <= Len(queue) THEN queue[i] ELSE WriteBack(c)[i - Len(queue)]
        BY <3>1, <4>1, ConcatProperties
      <4>4. \A i \in 1..Len(queue') : i <= Len(queue) \/ i - Len(queue) = 1 \/ i - Len(queue) = 2
        BY <4>1, <4>2
      <4> QED
        BY <3>1, <4>1, <4>3, <4>4
    <3> QED
      BY <3>2 DEF Transactions
  <2>6. StoredCatalogueWhole'
    BY <2>1 DEF StoredInv, StoredCatalogueWhole, disk
  <2>7. QueuedCataloguesServed'
    <3> SUFFICES ASSUME NEW op \in Transactions'
                 PROVE  At(op.call, "done")' /\ SentByServer(call'[op.call].served)
      BY DEF QueuedCataloguesServed, SentByServer
    <3>1. CASE op.call = c
      BY <2>3, <2>4, <3>1 DEF At
    <3>2. CASE op \in Transactions
      BY <2>2, <3>2 DEF StoredInv, QueuedCataloguesServed, At, Transactions, TxnOp
    <3> QED
      BY <2>5, <3>1, <3>2
  <2> QED
    BY <2>6, <2>7
<1>11. ASSUME NEW c \in Call, NetFail(c) PROVE StoredCatalogueWhole' /\ QueuedCataloguesServed'
  <2>1. \A d \in Call : At(d, "done") => call'[d] = call[d]
    BY <1>0, <1>11 DEF NetFail, At, TypeOK
  <2>2. UNCHANGED disk /\ queue' = queue
    BY <1>11 DEF NetFail, db
  <2> QED
    BY <2>1, <2>2, UntouchedKeeps, NoWriteKeeps
(* The writes: a flag is never the absence of a row, and a replacement puts
   in one whole catalogue.                                                 *)
<1>12. CASE PutDone
  <2>1. Transactions' \subseteq Transactions /\ call' = call
    BY <1>0, <1>12, TailKeeps DEF PutDone, memory
  <2>2. \A a \in Alias : rows[a] # "absent" => rows'[a] # "absent"
    BY <1>0, <1>12, FlagType DEF PutDone, PutOp, TypeOK
  <2>3. StoredCatalogueWhole'
    BY <1>12, <2>2 DEF PutDone, StoredInv, StoredCatalogueWhole, CatalogAssumption
  <2>4. QueuedCataloguesServed'
    BY <2>1 DEF StoredInv, QueuedCataloguesServed, SentByServer, At
  <2> QED
    BY <2>3, <2>4
<1>13. CASE TxnBegin
  BY <1>13, UntouchedKeeps, NoWriteKeeps DEF TxnBegin, memory
<1>14. ASSUME NEW a \in Alias, TxnRow(a) PROVE StoredCatalogueWhole' /\ QueuedCataloguesServed'
  BY <1>14, UntouchedKeeps, NoWriteKeeps DEF TxnRow, memory
<1>15. CASE TxnCommit
  <2> DEFINE items == call[Head(queue).call].served
             all == Head(queue).kind = "replaceAll"
  <2>1. Transactions' \subseteq Transactions /\ call' = call
    BY <1>0, <1>15, TailKeeps DEF TxnCommit, memory
  <2>2. QueuedCataloguesServed'
    BY <2>1 DEF StoredInv, QueuedCataloguesServed, SentByServer, At
  <2>3. items \in SUBSET Alias
    BY <1>0, <1>15 DEF TxnCommit, TxnOp, TypeOK, Progress
  <2>4. \A a \in items : rows'[a] # "absent"
    BY <1>0, <1>15, CommittedRows
  <2>5. CASE all
    <3>1. Head(queue) \in Transactions
      <4>1. queue \in Seq(Op) /\ queue # <<>> /\ Head(queue) \in TxnOp
        BY <1>0, <1>15 DEF TxnCommit, TypeOK
      <4>2. Head(queue) = queue[1] /\ 1 \in 1..Len(queue)
        BY <4>1
      <4> QED
        BY <4>1, <4>2 DEF Transactions
    <3>2. SentByServer(items)
      BY <3>1 DEF StoredInv, QueuedCataloguesServed
    <3>3. groupTbl' = {GroupOf[a] : a \in items}
      BY <1>15, <2>5 DEF TxnCommit
    <3> QED
      BY <2>2, <2>4, <3>2, <3>3 DEF StoredCatalogueWhole, SentByServer
  <2>6. CASE ~all
    <3>1. \A a \in Alias : rows[a] # "absent" => rows'[a] # "absent"
      BY <1>0, <1>15, <2>6, CommittedRows
    <3>2. groupTbl' = groupTbl /\ catTbl' = catTbl
      BY <1>0, <1>15, <2>6 DEF TxnCommit, TypeOK
    <3> QED
      BY <2>2, <3>1, <3>2 DEF StoredInv, StoredCatalogueWhole, CatalogAssumption
  <2> QED
    BY <2>5, <2>6
<1>16. CASE OpenPage
  BY <1>16, UntouchedKeeps, NoWriteKeeps DEF OpenPage, db
<1>17. CASE ClosePage
  BY <1>17, UntouchedKeeps, NoWriteKeeps DEF ClosePage, db
<1>18. ASSUME NEW o \in Obj, NEW f \in BOOLEAN, Tap(o),
              Ask([kind |-> "put", alias |-> AliasOf(o), fav |-> f])
       PROVE  StoredCatalogueWhole' /\ QueuedCataloguesServed'
  <2>1. AliasOf(o) \in Alias
    BY DEF AliasOf, Obj
  <2>2. [kind |-> "put", alias |-> AliasOf(o), fav |-> f] \in Op \ TxnOp
    BY <2>1, PutTypes DEF TxnOp
  <2>3. Transactions' \subseteq Transactions
    BY <1>0, <1>18, <2>2, AppendKeeps DEF Ask
  <2> QED
    BY <1>18, <2>3, NoWriteKeeps DEF Tap
<1>19. CASE Restart
  <2>1. Transactions' = {}
    BY <1>19 DEF Restart, Transactions
  <2> QED
    BY <1>19, <2>1 DEF Restart, disk, StoredInv, StoredCatalogueWhole, QueuedCataloguesServed
<1>20. CASE UNCHANGED vars
  BY <1>20, UntouchedKeeps, NoWriteKeeps DEF vars, memory, db
<1> QED
  BY <1>2, <1>3, <1>5, <1>6, <1>7, <1>8, <1>9, <1>10, <1>11, <1>12, <1>13, <1>14, <1>15, <1>16,
     <1>17, <1>18, <1>19, <1>20
     DEF Next, Reply, Write, Refresh, SwitchEnvironment, MakeFavorite, UnFavorite

(* The initial states satisfy StoredInv.                                   *)
LEMMA StoredInit == Init => StoredInv
<1> SUFFICES ASSUME Init PROVE StoredInv
  OBVIOUS
<1> USE CatalogAssumption
<1>1. TypeOK
  BY TypeInit
<1>2. StoredCatalogueWhole
  <2>1. CASE FreshInstall
    BY <2>1 DEF FreshInstall, StoredCatalogueWhole
  <2>2. CASE UsedBefore
    <3>1. PICK e \in Env : UsedBefore!(e)
      BY <2>2 DEF UsedBefore
    <3>2. PICK items \in Served[e] \ {{}} : \E favs \in SUBSET items :
            /\ groupTbl = {GroupOf[a] : a \in items}
            /\ rows = [a \in Alias |-> IF a \in items THEN Flag(a \in favs) ELSE "absent"]
      BY <3>1
    <3>3. \A a \in items : rows[a] # "absent"
      <4>1. PICK favs \in SUBSET items : rows = [a \in Alias |-> IF a \in items THEN Flag(a \in favs) ELSE "absent"]
        BY <3>2
      <4>2. items \in SUBSET Alias
        BY DEF CatalogAssumption
      <4>3. \A a \in items : Flag(a \in favs) # "absent"
        BY DEF Flag
      <4> QED
        BY <4>1, <4>2, <4>3
    <3> QED
      BY <3>2, <3>3 DEF StoredCatalogueWhole
  <2> QED
    BY <2>1, <2>2 DEF Init
<1>3. QueuedCataloguesServed
  BY DEF Init, MemoryAtStart, QueuedCataloguesServed, Transactions
<1> QED
  BY <1>1, <1>2, <1>3 DEF StoredInv

(* The tables hold one whole catalogue of a server, or none, in every state:
   between the two transactions of a write-back, with several refreshes
   interleaved, and after a restart at any moment.                         *)
THEOREM StoredCatalogueAlwaysWhole == Spec => []StoredCatalogueWhole
<1>1. StoredInv => StoredCatalogueWhole
  BY DEF StoredInv
<1> QED
  BY <1>1, StoredInit, StoredNext, PTL DEF Spec
=============================================================================
