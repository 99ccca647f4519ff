------------------------ MODULE FirestoreTransactions ------------------------
(***************************************************************************)
(* Transactions of the Firestore client: core/transaction_runner.cc and    *)
(* core/transaction.cc of the pod FirebaseFirestoreInternal, against a     *)
(* server that keeps one version per document.                             *)
(*                                                                         *)
(* A transaction reads its document, lets the app compute a write from     *)
(* what it read, and commits the write under the precondition that the     *)
(* document still has the version it was read with.  Any retryable error   *)
(* starts another attempt, which reads again; a lost answer is one, so     *)
(* that a write that was applied may be computed and applied once more.    *)
(***************************************************************************)
EXTENDS Integers

CONSTANTS
  Key,          \* the documents
  Txn,          \* the transactions
  NoData,       \* the data of a document that is not there
  MaxAttempts   \* maxAttempts of runTransaction

ASSUME FirestoreAssumption == MaxAttempts \in Nat \ {0}

VARIABLES
  doc,    \* on the server: version and data of every document
  clock,  \* on the server: the versions given out so far
  txn     \* on the clients: the transactions

firestore == <<doc, clock, txn>>

(* SnapshotVersion::None() is the version of a document that is not there. *)
NoDocument == 0
Exists(k) == doc[k].version # NoDocument

(* Precondition: none, or the version to be found.                         *)
NoPrecondition == -1

Phase == {"idle", "read", "commit", "applied", "refused", "ok", "failed"}
Running == {"read", "commit", "applied", "refused"}

(* What a transaction holds before it has read, and when it is over; a
   write is "put" (set and update), "delete", "verify" of a document that is
   read and not written, or nothing at all.                                *)
Put(data) == [kind |-> "put", data |-> data]
Delete == [kind |-> "delete", data |-> NoData]
Verify == [kind |-> "verify", data |-> NoData]
NoWrite == [kind |-> "nothing", data |-> NoData]
Move(t, pc, left) ==
  [txn EXCEPT ![t].pc = pc, ![t].left = left, ![t].write = NoWrite, ![t].pre = NoPrecondition]

(* Run: one more attempt, a new Transaction that starts with a read.
   Mutant: the attempts are not counted.                                   *)
RunUncounted(t) == Move(t, "read", txn[t].left)
Run(t) == Move(t, "read", txn[t].left - 1)
End(t, pc) == Move(t, pc, 0)

(* HandleTransactionError, for an error that is retryable.
   Mutant: without the look at the attempts that are left.                 *)
HandleErrorAlways(t) == Run(t)
HandleError(t) == IF txn[t].left > 0 THEN Run(t) ELSE End(t, "failed")

Start(t, k) ==
  /\ txn[t].pc = "idle"
  /\ txn' = [txn EXCEPT ![t].pc = "read", ![t].key = k, ![t].left = MaxAttempts - 1]
  /\ UNCHANGED <<doc, clock>>

(* CreatePrecondition of the one document a transaction has read.
   Mutant: every write is a blind one.                                     *)
CreatePreconditionBlind(k) == NoPrecondition
CreatePrecondition(k) == doc[k].version

(* LookupDocuments answers and the app's handler turns what it holds into
   the write w.                                                            *)
Read(t, w) ==
  /\ txn[t].pc = "read"
  /\ txn' = [txn EXCEPT ![t].pc = "commit", ![t].write = w,
                        ![t].pre = CreatePrecondition(txn[t].key)]
  /\ UNCHANGED <<doc, clock>>

(* The lookup fails and the handler swallows the exception: what is
   committed has neither a read to verify nor a write.                     *)
ReadSwallowed(t) ==
  /\ txn[t].pc = "read"
  /\ txn' = Move(t, "commit", txn[t].left)
  /\ UNCHANGED <<doc, clock>>

(* The lookup fails and the handler throws: the transaction is over.       *)
ReadFailed(t) ==
  /\ txn[t].pc = "read"
  /\ txn' = End(t, "failed")
  /\ UNCHANGED <<doc, clock>>

PreconditionHolds(t) == txn[t].pre \in {NoPrecondition, doc[txn[t].key].version}

(* The server gets the commit: it applies it, under a new version, ...     *)
Apply(t) ==
  LET k == txn[t].key
      w == txn[t].write
  IN /\ txn[t].pc = "commit" /\ PreconditionHolds(t)
     /\ \/ /\ w.kind = "put"
           /\ clock' = clock + 1
           /\ doc' = [doc EXCEPT ![k] = [version |-> clock + 1, data |-> w.data]]
        \/ /\ w.kind = "delete"
           /\ doc' = [doc EXCEPT ![k] = [version |-> NoDocument, data |-> NoData]]
           /\ UNCHANGED clock
        \/ w.kind \in {"verify", "nothing"} /\ UNCHANGED <<doc, clock>>
     /\ txn' = [txn EXCEPT ![t].pc = "applied"]

(* ... or refuses it: FAILED_PRECONDITION or ABORTED.                      *)
Refuse(t) ==
  /\ txn[t].pc = "commit" /\ ~PreconditionHolds(t)
  /\ txn' = [txn EXCEPT ![t].pc = "refused"]
  /\ UNCHANGED <<doc, clock>>

(* DispatchResult: the answer is OK.                                       *)
AnswerOk(t) ==
  /\ txn[t].pc = "applied"
  /\ txn' = End(t, "ok")
  /\ UNCHANGED <<doc, clock>>

(* The refusal is retryable ...
   Mutant: the status of the answer is dropped.                            *)
AnswerRefusedDropped(t) ==
  /\ txn[t].pc = "refused"
  /\ txn' = End(t, "ok")
  /\ UNCHANGED <<doc, clock>>
AnswerRefused(t) ==
  /\ txn[t].pc = "refused"
  /\ txn' = HandleError(t)
  /\ UNCHANGED <<doc, clock>>

(* ... and so is UNAVAILABLE, which is all the client knows when the commit
   or its answer is lost.                                                  *)
ConnectionLost(t) ==
  /\ txn[t].pc \in {"commit", "applied"}
  /\ txn' = HandleError(t)
  /\ UNCHANGED <<doc, clock>>

(* A permanent error, as PERMISSION_DENIED: no retry.                      *)
AnswerDenied(t) ==
  /\ txn[t].pc = "commit"
  /\ txn' = End(t, "failed")
  /\ UNCHANGED <<doc, clock>>
=============================================================================
