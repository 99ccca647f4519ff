-------------------------- MODULE UserMessagesProofs --------------------------
(***************************************************************************)
(* Theorems about UserMessages, for every set of devices, messages, pages, *)
(* transactions and loads, and every number of attempts: the storage of    *)
(* the messages is the Inbox its callers rely on.                          *)
(***************************************************************************)
EXTENDS UserMessages, SequenceTheorems, TLAPS

(* What is left of a list without one position.                            *)
LEMMA WithoutProperties ==
  ASSUME NEW s \in Seq(Msg), NEW i \in Nat
  PROVE  /\ WithoutAt(s, i) \in Seq(Msg)
         /\ i > Len(s) => WithoutAt(s, i) = s
<1>1. SubSeq(s, 1, i - 1) \in Seq(Msg) \/ i > Len(s)
  <2>1. CASE i <= Len(s)
    <3>1. \A j \in 1..(i - 1) : s[j] \in Msg
      BY <2>1, ElementOfSeq, LenProperties
    <3> QED
      BY <3>1, SubSeqProperties
  <2> QED
    BY <2>1, LenProperties
<1>2. SubSeq(s, i + 1, Len(s)) \in Seq(Msg)
  <2>1. \A j \in (i + 1)..Len(s) : s[j] \in Msg
    BY ElementOfSeq, LenProperties
  <2> QED
    BY <2>1, SubSeqProperties, LenProperties
<1>3. CASE i <= Len(s)
  <2>1. SubSeq(s, 1, i - 1) \in Seq(Msg)
    BY <1>1, <1>3, LenProperties
  <2>2. SubSeq(s, 1, i - 1) \o SubSeq(s, i + 1, Len(s)) \in Seq(Msg)
    BY <1>2, <2>1, ConcatProperties
  <2>3. ~(i > Len(s))
    BY <1>3, LenProperties
  <2> QED
    BY <1>3, <2>2, <2>3, Zenon DEF WithoutAt
<1>4. CASE ~(i <= Len(s))
  BY <1>4 DEF WithoutAt
<1> QED
  BY <1>3, <1>4

-----------------------------------------------------------------------------
(* Types.                                                                  *)

(* The default records have their types.                                   *)
LEMMA DefaultTypes ==
  /\ NoData \in Mail
  /\ NoWrite \in Write /\ Delete \in Write /\ Verify \in Write
  /\ \A data \in Mail : Put(data) \in Write
  /\ NoListing \in Listing
  /\ NoDialog \in Dialog
  /\ NoJob \in Job
  /\ Idle \in Transaction
<1>1. NoData \in Mail
  BY MessagesAssumption, EmptySeq DEF Mail
<1>2. NoWrite \in Write /\ Delete \in Write /\ Verify \in Write /\ \A data \in Mail : Put(data) \in Write
  BY <1>1 DEF NoWrite, Delete, Verify, Put, Write
<1>3. /\ (CHOOSE d \in Device : TRUE) \in Device
      /\ (CHOOSE p \in Page : TRUE) \in Page
      /\ (CHOOSE m \in Msg : TRUE) \in Msg
  BY MessagesAssumption DEF Device
<1>4. NoListing \in Listing
  BY EmptySeq DEF NoListing, Listing
<1>5. NoDialog \in Dialog
  BY <1>3 DEF NoDialog, Dialog
<1>6. NoJob \in Job
  BY <1>3 DEF NoJob, Job
<1>7. Idle \in Transaction
  BY <1>2, <1>3 DEF Idle, Transaction, Phase, NoPrecondition
<1> QED
  BY <1>1, <1>2, <1>4, <1>5, <1>6, <1>7

(* A client that moves on keeps its type.                                  *)
LEMMA MoveType ==
  ASSUME TypeOK, NEW t \in Txn, NEW pc \in Phase, NEW left \in Nat
  PROVE  Move(t, pc, left) \in [Txn -> Transaction]
<1>1. txn \in [Txn -> Transaction]
  BY DEF TypeOK
<1>2. NoWrite \in Write /\ NoPrecondition \in Int
  BY DefaultTypes DEF NoPrecondition
<1>3. Move(t, pc, left)[t] \in Transaction
  BY <1>1, <1>2 DEF Move, Transaction
<1>4. DOMAIN Move(t, pc, left) = Txn /\ \A u \in Txn \ {t} : Move(t, pc, left)[u] = txn[u]
  BY <1>1 DEF Move
<1>5. Move(t, pc, left) = [u \in Txn |-> Move(t, pc, left)[u]]
  BY <1>1 DEF Move
<1> QED
  BY <1>1, <1>3, <1>4, <1>5

(* A new attempt has the type of a transaction.                            *)
LEMMA AttemptType ==
  ASSUME TypeOK, NEW t \in Txn
  PROVE  /\ HandleError(t) \in [Txn -> Transaction]
         /\ End(t, "ok") \in [Txn -> Transaction]
         /\ End(t, "failed") \in [Txn -> Transaction]
<1>1. "read" \in Phase /\ "ok" \in Phase /\ "failed" \in Phase
  BY DEF Phase
<1>2. txn[t].left \in Nat
  BY DEF TypeOK, Transaction
<1>3. End(t, "ok") \in [Txn -> Transaction] /\ End(t, "failed") \in [Txn -> Transaction]
  BY <1>1, MoveType DEF End
<1>4. txn[t].left > 0 => Run(t) \in [Txn -> Transaction]
  <2>1. txn[t].left > 0 => txn[t].left - 1 \in Nat
    BY <1>2
  <2> QED
    BY <1>1, <2>1, MoveType DEF Run
<1> QED
  BY <1>3, <1>4 DEF HandleError

(* The writes of a transaction have their types.                           *)
LEMMA WriteTypes ==
  ASSUME TypeOK, NEW t \in Txn
  PROVE  SendWrite(t) \in Write /\ RemoveWrite(t) \in Write
<1> DEFINE k == txn[t].key
<1>1. k \in Device /\ doc[k].data \in Mail /\ job[t].msg \in Msg /\ job[t].index \in Nat
  BY DEF TypeOK, Transaction, Document, Job
<1>2. \A mail \in Mail : MailOf(Append(mail.msgs, job[t].msg), Append(mail.links, job[t].msg)) \in Mail
  BY <1>1, AppendProperties DEF Mail, MailOf
<1>3. \A mail \in Mail : MailOf(WithoutAt(mail.msgs, job[t].index), WithoutAt(mail.links, job[t].index)) \in Mail
  BY <1>1, WithoutProperties DEF Mail, MailOf
<1>4. SendWrite(t) \in Write
  BY <1>1, <1>2, DefaultTypes DEF SendWrite
<1>5. RemoveWrite(t) \in Write
  BY <1>1, <1>3, DefaultTypes DEF RemoveWrite
<1> QED
  BY <1>4, <1>5

(* Starting a transaction keeps the types.                                 *)
LEMMA StartType ==
  ASSUME TypeOK, NEW t \in Txn, NEW d \in Device, Start(t, d)
  PROVE  txn' \in [Txn -> Transaction] /\ doc' = doc /\ clock' = clock
<1>1. MaxAttempts - 1 \in Nat /\ "read" \in Phase
  BY FirestoreAssumption DEF Phase
<1> QED
  BY <1>1 DEF Start, TypeOK, Transaction, Device

(* Applying a write keeps the types.                                       *)
LEMMA ApplyType ==
  ASSUME TypeOK, NEW t \in Txn, Apply(t)
  PROVE  /\ doc' \in [Device -> Document]
         /\ clock' \in Nat
         /\ txn' \in [Txn -> Transaction]
<1> DEFINE k == txn[t].key
           w == txn[t].write
<1>1. k \in Device /\ w \in Write /\ w.data \in Mail /\ clock \in Nat
  BY DEF TypeOK, Transaction, Write
<1>2. [version |-> clock + 1, data |-> w.data] \in Document
  BY <1>1 DEF Document
<1>3. [version |-> NoDocument, data |-> NoData] \in Document
  BY DefaultTypes DEF Document, NoDocument
<1>4. txn' = [txn EXCEPT ![t].pc = "applied"]
  BY DEF Apply
<1>5. txn' \in [Txn -> Transaction]
  BY <1>4 DEF TypeOK, Transaction, Phase
<1>6. doc \in [Device -> Document]
  BY DEF TypeOK
<1>7. CASE clock' = clock + 1 /\ doc' = [doc EXCEPT ![k] = [version |-> clock + 1, data |-> w.data]]
  BY <1>1, <1>2, <1>5, <1>6, <1>7
<1>8. CASE clock' = clock /\ doc' = [doc EXCEPT ![k] = [version |-> NoDocument, data |-> NoData]]
  BY <1>1, <1>3, <1>5, <1>6, <1>8
<1>9. CASE clock' = clock /\ doc' = doc
  BY <1>1, <1>5, <1>6, <1>9
<1> QED
  BY <1>7, <1>8, <1>9 DEF Apply

(* What a transaction reads has its type.                                  *)
LEMMA ReadType ==
  ASSUME TypeOK, NEW t \in Txn, NEW w \in Write, Read(t, w)
  PROVE  txn' \in [Txn -> Transaction] /\ doc' = doc /\ clock' = clock
<1>1. doc[txn[t].key].version \in Int
  BY DEF TypeOK, Transaction, Document
<1> QED
  BY <1>1 DEF Read, CreatePrecondition, TypeOK, Transaction, Phase

(* Updating a job keeps the types.                                         *)
LEMMA UpdateTypes ==
  /\ \A t \in Txn, j \in Job : TypeOK /\ job' = [job EXCEPT ![t] = j] => job' \in [Txn -> Job]
  /\ \A l \in Load, x \in Loading : TypeOK /\ load' = [load EXCEPT ![l] = x] => load' \in [Load -> Loading]
  BY DEF TypeOK

(* Every step keeps the types.                                             *)
LEMMA TypeNext == TypeOK /\ [Next]_vars => TypeOK'
<1> SUFFICES ASSUME TypeOK, [Next]_vars PROVE TypeOK'
  OBVIOUS
<1> USE DEF vars, firestore
<1>1. ASSUME NEW t \in Txn, NEW d \in Device, NEW m \in Msg, SendMessage(t, d, m) PROVE TypeOK'
  <2>1. [job[t] EXCEPT !.kind = "send", !.msg = m] \in Job
    BY DEF TypeOK, Job
  <2>2. job' = [job EXCEPT ![t] = [job[t] EXCEPT !.kind = "send", !.msg = m]]
    BY <1>1 DEF SendMessage, TypeOK
  <2>3. job' \in [Txn -> Job]
    BY <2>1, <2>2, UpdateTypes
  <2> QED
    BY <1>1, <2>3, StartType DEF SendMessage, TypeOK
<1>2. ASSUME NEW t \in Txn, SendRead(t) \/ RemoveRead(t) PROVE TypeOK'
  BY <1>2, WriteTypes, ReadType DEF SendRead, RemoveRead, TypeOK
<1>3. ASSUME NEW t \in Txn, SendReadFailed(t) PROVE TypeOK'
  <2>1. txn' \in [Txn -> Transaction]
    <3>1. txn[t].left \in Nat /\ "commit" \in Phase
      BY DEF TypeOK, Transaction, Phase
    <3> QED
      BY <1>3, <3>1, MoveType DEF SendReadFailed, ReadSwallowed
  <2>2. [job[t] EXCEPT !.swallowed = TRUE] \in Job
    BY DEF TypeOK, Job
  <2>3. job' = [job EXCEPT ![t] = [job[t] EXCEPT !.swallowed = TRUE]]
    BY <1>3 DEF SendReadFailed, TypeOK
  <2>4. job' \in [Txn -> Job]
    BY <2>2, <2>3, UpdateTypes
  <2> QED
    BY <1>3, <2>1, <2>4 DEF SendReadFailed, ReadSwallowed, TypeOK
<1>4. ASSUME NEW t \in Txn, RemoveReadFailed(t) PROVE TypeOK'
  BY <1>4, AttemptType DEF RemoveReadFailed, ReadFailed, TypeOK
<1>5. ASSUME NEW t \in Txn, Commit(t) PROVE TypeOK'
  <2>1. doc' \in [Device -> Document] /\ clock' \in Nat /\ txn' \in [Txn -> Transaction]
    BY <1>5, ApplyType DEF Commit
  <2> DEFINE d == txn[t].key
             before == doc[d].data.msgs
             hit == job[t].kind = "remove" /\ Exists(d) /\ job[t].index <= Len(before)
  <2>2. /\ job' = [job EXCEPT ![t].applied = IF txn[t].write = NoWrite THEN @ ELSE @ + 1,
                              ![t].removed = IF hit THEN @ \cup {before[job[t].index]} ELSE @,
                              ![t].misled = @ \/ removals[d] # job[t].seen]
        /\ removals' = [removals EXCEPT ![d] = IF hit THEN @ + 1 ELSE @]
        /\ UNCHANGED <<page, load>>
    BY <1>5 DEF Commit
  <2>3. removals' \in [Device -> Nat]
    <3>1. removals[d] + 1 \in Nat /\ removals \in [Device -> Nat]
      BY DEF TypeOK, Transaction
    <3> HIDE DEF hit
    <3> QED
      BY <2>2, <3>1
  <2>4. hit => before[job[t].index] \in Msg
    <3>1. before \in Seq(Msg) /\ job[t].index \in Nat \ {0}
      BY DEF TypeOK, Transaction, Document, Mail, Job
    <3> QED
      BY <3>1, ElementOfSeq, LenProperties
  <2> DEFINE applied == IF txn[t].write = NoWrite THEN job[t].applied ELSE job[t].applied + 1
             removed == IF hit THEN job[t].removed \cup {before[job[t].index]} ELSE job[t].removed
             misled == job[t].misled \/ removals[d] # job[t].seen
  <2>5. applied \in Nat /\ removed \in SUBSET Msg /\ misled \in BOOLEAN
    BY <2>4 DEF TypeOK, Job
  <2>6. job' = [job EXCEPT ![t] = [job[t] EXCEPT !.applied = applied, !.removed = removed, !.misled = misled]]
    BY <2>2 DEF TypeOK
  <2>7. job' \in [Txn -> Job]
    <3> HIDE DEF applied, removed, misled
    <3>1. [job[t] EXCEPT !.applied = applied, !.removed = removed, !.misled = misled] \in Job
      BY <2>5 DEF TypeOK, Job
    <3> QED
      BY <2>6, <3>1, UpdateTypes
  <2> QED
    BY <2>1, <2>2, <2>3, <2>7 DEF TypeOK
<1>6. ASSUME NEW t \in Txn, Answer(t) \/ Disconnect(t) PROVE TypeOK'
  <2>1. txn' \in [Txn -> Transaction]
    <3>1. CASE Refuse(t)
      BY <3>1 DEF Refuse, TypeOK, Transaction, Phase
    <3>2. CASE AnswerOk(t) \/ AnswerRefused(t) \/ AnswerDenied(t) \/ ConnectionLost(t)
      BY <3>2, AttemptType DEF AnswerOk, AnswerRefused, AnswerDenied, ConnectionLost
    <3> QED
      BY <1>6, <3>1, <3>2 DEF Answer, Disconnect
  <2>2. job' \in [Txn -> Job]
    <3>1. [job[t] EXCEPT !.lost = TRUE] \in Job
      BY DEF TypeOK, Job
    <3>2. job' = [job EXCEPT ![t] = [job[t] EXCEPT !.lost = TRUE]] \/ job' = job
      BY <1>6 DEF Answer, Disconnect, TypeOK
    <3> QED
      BY <3>1, <3>2, UpdateTypes DEF TypeOK
  <2>3. UNCHANGED <<doc, clock, page, load, removals>>
    BY <1>6 DEF Answer, Disconnect, Refuse, AnswerOk, AnswerRefused, AnswerDenied, ConnectionLost
  <2> QED
    BY <2>1, <2>2, <2>3 DEF TypeOK
<1>7. ASSUME NEW l \in Load, NEW p \in Page, StartLoad(l, p), job' \in [Txn -> Job] PROVE TypeOK'
  <2>1. load' \in [Load -> Loading]
    BY <1>7 DEF StartLoad, TypeOK, Loading
  <2>2. page' \in [Page -> Screen]
    BY <1>7 DEF StartLoad, TypeOK, Screen
  <2> QED
    BY <1>7, <2>1, <2>2 DEF StartLoad, TypeOK
<1>8. ASSUME NEW l \in Load, NEW p \in Page, Refresh(l, p) PROVE TypeOK'
  BY <1>7, <1>8 DEF Refresh, TypeOK
<1>9. ASSUME NEW t \in Txn, NEW l \in Load, Removed(t, l) PROVE TypeOK'
  <2>1. job[t].page \in Page /\ [job[t] EXCEPT !.reloaded = TRUE] \in Job
    BY DEF TypeOK, Job
  <2>2. job' = [job EXCEPT ![t] = [job[t] EXCEPT !.reloaded = TRUE]]
    BY <1>9 DEF Removed, TypeOK
  <2>3. job' \in [Txn -> Job]
    BY <2>1, <2>2, UpdateTypes
  <2> QED
    BY <1>7, <1>9, <2>1, <2>3 DEF Removed
<1>10. ASSUME NEW l \in Load, LoadRead(l) PROVE TypeOK'
  <2>1. [msgs |-> [d \in Device |-> IF Exists(d) THEN doc[d].data.msgs ELSE <<>>], seen |-> removals] \in Listing
    BY EmptySeq DEF TypeOK, Listing, Document, Mail
  <2>2. PICK result \in Listing : load' = [load EXCEPT ![l].pc = "answered", ![l].result = result]
    BY <1>10, <2>1, DefaultTypes DEF LoadRead
  <2>3. load' \in [Load -> Loading]
    BY <2>2 DEF TypeOK, Loading
  <2> QED
    BY <1>10, <2>3 DEF LoadRead, TypeOK
<1>11. ASSUME NEW l \in Load, LoadShown(l) PROVE TypeOK'
  <2>1. load' \in [Load -> Loading]
    BY <1>11, DefaultTypes DEF LoadShown, TypeOK, Loading
  <2>2. page' \in [Page -> Screen]
    BY <1>11 DEF LoadShown, TypeOK, Screen, Loading
  <2> QED
    BY <1>11, <2>1, <2>2 DEF LoadShown, TypeOK
<1>12. ASSUME NEW p \in Page, Cancel(p) PROVE TypeOK'
  <2>1. page' \in [Page -> Screen]
    BY <1>12, DefaultTypes DEF Cancel, TypeOK, Screen
  <2> QED
    BY <1>12, <2>1 DEF Cancel, TypeOK
<1>13. ASSUME NEW p \in Page, NEW d \in Device, NEW i \in 1..Len(page[p].shown.msgs[d]), TapRemove(p, d, i)
       PROVE  TypeOK'
  <2>1. page[p].shown.msgs[d] \in Seq(Msg) /\ page[p].shown.seen[d] \in Nat
    BY DEF TypeOK, Screen, Listing
  <2>2. i \in Nat \ {0} /\ page[p].shown.msgs[d][i] \in Msg
    BY <2>1, ElementOfSeq, LenProperties
  <2>3. [open |-> TRUE, device |-> d, index |-> i,
         msg |-> page[p].shown.msgs[d][i], seen |-> page[p].shown.seen[d]] \in Dialog
    BY <2>1, <2>2 DEF Dialog
  <2>4. page' \in [Page -> Screen]
    BY <1>13, <2>3 DEF TapRemove, TypeOK, Screen
  <2> QED
    BY <1>13, <2>4 DEF TapRemove, TypeOK
<1>14. ASSUME NEW p \in Page, NEW t \in Txn, ConfirmRemove(p, t) PROVE TypeOK'
  <2>1. page[p].dialog \in Dialog
    BY DEF TypeOK, Screen
  <2> DEFINE dialog == page[p].dialog
             next == [job[t] EXCEPT !.kind = "remove", !.msg = dialog.msg, !.index = dialog.index,
                                    !.page = p, !.seen = dialog.seen]
  <2>2. job' \in [Txn -> Job]
    <3>1. dialog.msg \in Msg /\ dialog.index \in Nat \ {0} /\ dialog.seen \in Nat
      BY <2>1 DEF Dialog
    <3>2. next \in Job
      BY <3>1, Zenon DEF TypeOK, Job
    <3>3. job' = [job EXCEPT ![t] = next]
      BY <1>14 DEF ConfirmRemove, TypeOK
    <3> QED
      BY <3>2, <3>3, UpdateTypes
  <2>3. page' \in [Page -> Screen]
    BY <1>14, DefaultTypes DEF ConfirmRemove, TypeOK, Screen
  <2>4. txn' \in [Txn -> Transaction] /\ doc' = doc /\ clock' = clock
    BY <1>14, <2>1, StartType DEF ConfirmRemove, Dialog
  <2> QED
    BY <1>14, <2>2, <2>3, <2>4 DEF ConfirmRemove, TypeOK
<1>15. CASE UNCHANGED vars
  BY <1>15 DEF TypeOK
<1> QED
  BY <1>1, <1>2, <1>3, <1>4, <1>5, <1>6, <1>8, <1>9, <1>10, <1>11, <1>12, <1>13, <1>14, <1>15
  DEF Next, Step, Reload

(* The initial states have the types.                                      *)
LEMMA InitType == Init => TypeOK
<1> SUFFICES ASSUME Init PROVE TypeOK
  OBVIOUS
<1>1. \A s \in Before : Stored(s) \in Document
  BY MessagesAssumption DEF Stored, Document, NoDocument, MailOf, Mail
<1>2. doc \in [Device -> Document]
  BY <1>1 DEF Init
<1>3. (CHOOSE p \in Page : TRUE) \in Page
  BY MessagesAssumption
<1> QED
  BY <1>2, <1>3, DefaultTypes DEF Init, TypeOK, Screen, Loading

(* The documents, the transactions and the pages of UserMessages keep their
   types in every behaviour of the specification.                          *)
THEOREM TypeCorrect == Spec => []TypeOK
  BY InitType, TypeNext, PTL DEF Spec

-----------------------------------------------------------------------------
(* The inductive invariant.                                                *)

(* The server has given out the version of every document.                 *)
VersionsGiven == \A d \in Device : doc[d].version <= clock

(* What a job computes from what its transaction read.                     *)
Computed(j, mail, exists) ==
  CASE j.kind = "send" -> Put(MailOf(Append(mail.msgs, j.msg), Append(mail.links, j.msg)))
    [] j.kind # "send" /\ ~exists -> Verify
    [] j.kind # "send" /\ exists /\ WithoutAt(mail.msgs, j.index) = <<>> -> Delete
    [] OTHER -> Put(MailOf(WithoutAt(mail.msgs, j.index), WithoutAt(mail.links, j.index)))

(* A commit under way carries what its job computes from the version its
   precondition names: from the document of now, if that is its version.   *)
FromItsRead(t) ==
  LET w == txn[t].write
      mail == doc[txn[t].key].data
  IN /\ txn[t].pre \in 0..clock
     /\ txn[t].pre = NoDocument => w = Computed(job[t], NoData, FALSE)
     /\ txn[t].pre = doc[txn[t].key].version /\ txn[t].pre # NoDocument => w = Computed(job[t], mail, TRUE)
CarriesItsRead(t) ==
  \/ job[t].kind = "send" /\ txn[t].write = NoWrite
  \/ job[t].kind \in {"send", "remove"} /\ FromItsRead(t)
CommitsComputed == \A t \in Txn : txn[t].pc = "commit" => CarriesItsRead(t)

(* A transaction not begun has no job, and no history.                     *)
IdleHasNoJob == \A t \in Txn : txn[t].pc = "idle" => job[t] = NoJob

StorageInv ==
  /\ TypeOK
  /\ LinksFollowMessages /\ NoEmptyDocument
  /\ VersionsGiven /\ CommitsComputed

(* Where no answer was lost and no failed read swallowed, the phase tells
   how often a job was applied, and a commit carries a write.              *)
Counted(t) ==
  ~job[t].lost /\ ~job[t].swallowed =>
    /\ job[t].applied = (IF txn[t].pc \in {"applied", "ok"} THEN 1 ELSE 0)
    /\ txn[t].pc = "commit" => txn[t].write # NoWrite
AppliedOnce == \A t \in Txn : Counted(t)

(* The list s of a device, read when n messages had been removed from it,
   is still the beginning of what is stored, unless more were removed.     *)
Begins(s, u) == Len(s) <= Len(u) /\ \A i \in 1..Len(s) : s[i] = u[i]
Stands(d, s, n) ==
  /\ n <= removals[d]
  /\ n = removals[d] => Begins(s, doc[d].data.msgs)
PointsAt(d, i, m, n) ==
  /\ n <= removals[d]
  /\ n = removals[d] => i <= Len(doc[d].data.msgs) /\ doc[d].data.msgs[i] = m

ListsStand ==
  /\ \A p \in Page, d \in Device : Stands(d, page[p].shown.msgs[d], page[p].shown.seen[d])
  /\ \A l \in Load, d \in Device : Stands(d, load[l].result.msgs[d], load[l].result.seen[d])
IndexesStand ==
  /\ \A p \in Page : LET x == page[p].dialog IN x.open => PointsAt(x.device, x.index, x.msg, x.seen)
  /\ \A t \in Txn : LET j == job[t] IN j.kind = "remove" => PointsAt(txn[t].key, j.index, j.msg, j.seen)

RemovalInv ==
  /\ StorageInv /\ IdleHasNoJob /\ AppliedOnce
  /\ ListsStand /\ IndexesStand
  /\ RemovesConfirmedMessage

-----------------------------------------------------------------------------
(* What a commit does to the storage.                                      *)

(* The messages of a document.                                             *)
LEMMA MailOfDocument ==
  ASSUME TypeOK, NEW d \in Device
  PROVE  /\ doc[d] = [version |-> doc[d].version, data |-> doc[d].data]
         /\ doc[d].data = MailOf(doc[d].data.msgs, doc[d].data.links)
         /\ doc[d].data.msgs \in Seq(Msg) /\ doc[d].data.links \in Seq(Msg)
         /\ doc[d].version \in Nat
<1>1. doc[d] \in Document /\ doc[d].data \in Mail
  BY DEF TypeOK, Document
<1> QED
  BY <1>1 DEF Document, Mail, MailOf

(* What a transaction computes from a current read.                        *)
LEMMA ComputedNow ==
  ASSUME StorageInv, NEW t \in Txn, txn[t].pc = "commit", PreconditionHolds(t), txn[t].write # NoWrite
  PROVE  /\ job[t].kind \in {"send", "remove"}
         /\ txn[t].write = Computed(job[t], doc[txn[t].key].data, Exists(txn[t].key))
<1> DEFINE d == txn[t].key
<1>1. d \in Device
  BY DEF StorageInv, TypeOK, Transaction
<1>2. job[t].kind \in {"send", "remove"} /\ FromItsRead(t)
  BY DEF StorageInv, CommitsComputed, CarriesItsRead
<1>3. txn[t].pre = doc[d].version
  BY <1>2 DEF FromItsRead, PreconditionHolds, NoPrecondition
<1>4. CASE Exists(d)
  BY <1>2, <1>3, <1>4 DEF FromItsRead, Exists
<1>5. CASE ~Exists(d)
  <2>1. doc[d].data.msgs = <<>> /\ doc[d].data.links = <<>>
    BY <1>1, <1>5 DEF StorageInv, NoEmptyDocument, LinksFollowMessages
  <2>2. doc[d].data = NoData
    BY <1>1, <2>1, MailOfDocument, MessagesAssumption DEF StorageInv, MailOf
  <2> QED
    BY <1>2, <1>3, <1>5, <2>2 DEF FromItsRead, Exists
<1> QED
  BY <1>2, <1>4, <1>5

(* The five outcomes: nothing is written; a message is appended; one is
   taken out, and others are left or none is; or the index was too large.  *)
Nothing(t) == UNCHANGED <<doc, clock, removals>>
Stores(d, msgs, links) ==
  /\ clock' = clock + 1
  /\ doc' = [doc EXCEPT ![d] = [version |-> clock + 1, data |-> MailOf(msgs, links)]]
Appended(t) ==
  LET d == txn[t].key
      mail == doc[d].data
  IN /\ job[t].kind = "send"
     /\ Stores(d, Append(mail.msgs, job[t].msg), Append(mail.links, job[t].msg))
     /\ removals' = removals
Shortened(t) ==
  LET d == txn[t].key
      mail == doc[d].data
      i == job[t].index
  IN /\ job[t].kind = "remove" /\ i <= Len(mail.msgs) /\ WithoutAt(mail.msgs, i) # <<>>
     /\ Stores(d, WithoutAt(mail.msgs, i), WithoutAt(mail.links, i))
     /\ removals' = [removals EXCEPT ![d] = @ + 1]
Emptied(t) ==
  LET d == txn[t].key
      mail == doc[d].data
      i == job[t].index
  IN /\ job[t].kind = "remove" /\ i <= Len(mail.msgs) /\ WithoutAt(mail.msgs, i) = <<>>
     /\ clock' = clock /\ doc' = [doc EXCEPT ![d] = [version |-> NoDocument, data |-> NoData]]
     /\ removals' = [removals EXCEPT ![d] = @ + 1]
Rewritten(t) ==
  LET d == txn[t].key
      mail == doc[d].data
  IN /\ job[t].kind = "remove" /\ job[t].index > Len(mail.msgs) /\ mail.msgs # <<>>
     /\ Stores(d, mail.msgs, mail.links)
     /\ removals' = removals

(* What a commit changes.                                                  *)
LEMMA CommitEffect ==
  ASSUME StorageInv, NEW t \in Txn, Commit(t)
  PROVE  Nothing(t) \/ Appended(t) \/ Shortened(t) \/ Emptied(t) \/ Rewritten(t)
<1> DEFINE d == txn[t].key
           w == txn[t].write
           mail == doc[d].data
           i == job[t].index
           hit == job[t].kind = "remove" /\ Exists(d) /\ i <= Len(mail.msgs)
<1>1. d \in Device /\ removals \in [Device -> Nat] /\ i \in Nat /\ mail.msgs \in Seq(Msg) /\ mail.links = mail.msgs
  BY MailOfDocument DEF StorageInv, TypeOK, Transaction, Job, LinksFollowMessages
<1>2. txn[t].pc = "commit" /\ PreconditionHolds(t)
  BY DEF Commit, Apply
<1>3. removals' = (IF hit THEN [removals EXCEPT ![d] = @ + 1] ELSE removals)
  BY <1>1 DEF Commit
<1>4. \/ w.kind = "put" /\ clock' = clock + 1 /\ doc' = [doc EXCEPT ![d] = [version |-> clock + 1, data |-> w.data]]
      \/ w.kind = "delete" /\ clock' = clock /\ doc' = [doc EXCEPT ![d] = [version |-> NoDocument, data |-> NoData]]
      \/ w.kind \in {"verify", "nothing"} /\ UNCHANGED <<doc, clock>>
  BY DEF Commit, Apply
<1>5. Exists(d) <=> mail.msgs # <<>>
  BY <1>1 DEF StorageInv, NoEmptyDocument
<1>6. CASE w = NoWrite
  <2>1. w.kind = "nothing"
    BY <1>6 DEF NoWrite
  <2>2. CASE ~hit
    BY <1>3, <1>4, <2>1, <2>2 DEF Nothing
  <2>3. CASE hit
    <3>1. job[t].kind = "remove" /\ FromItsRead(t)
      BY <1>2, <2>3 DEF StorageInv, CommitsComputed, CarriesItsRead
    <3>2. txn[t].pre = doc[d].version /\ Exists(d)
      BY <1>2, <2>3, <3>1 DEF FromItsRead, PreconditionHolds, NoPrecondition
    <3>3. w = Computed(job[t], mail, TRUE)
      BY <3>1, <3>2 DEF FromItsRead, Exists
    <3>4. w.kind \in {"put", "delete"}
      BY <3>1, <3>3 DEF Computed, Put, Delete
    <3> QED
      BY <2>1, <3>4
  <2> QED
    BY <2>2, <2>3
<1>7. CASE w # NoWrite
  <2>1. job[t].kind \in {"send", "remove"} /\ w = Computed(job[t], mail, Exists(d))
    BY <1>2, <1>7, ComputedNow
  <2>2. CASE job[t].kind = "send"
    <3>1. w = Put(MailOf(Append(mail.msgs, job[t].msg), Append(mail.links, job[t].msg))) /\ ~hit
      BY <2>1, <2>2 DEF Computed
    <3> QED
      BY <1>3, <1>4, <2>2, <3>1 DEF Put, Appended, Stores
  <2>3. CASE job[t].kind = "remove" /\ ~Exists(d)
    <3>1. w = Verify /\ ~hit
      BY <2>1, <2>3 DEF Computed
    <3> QED
      BY <1>3, <1>4, <3>1 DEF Verify, Nothing
  <2>4. CASE job[t].kind = "remove" /\ Exists(d) /\ i <= Len(mail.msgs)
    <3>1. CASE WithoutAt(mail.msgs, i) = <<>>
      <4>1. w = Delete /\ hit
        BY <2>1, <2>4, <3>1 DEF Computed
      <4> QED
        BY <1>3, <1>4, <2>4, <3>1, <4>1 DEF Delete, Emptied
    <3>2. CASE WithoutAt(mail.msgs, i) # <<>>
      <4>1. w = Put(MailOf(WithoutAt(mail.msgs, i), WithoutAt(mail.links, i))) /\ hit
        BY <2>1, <2>4, <3>2 DEF Computed
      <4> QED
        BY <1>3, <1>4, <2>4, <3>2, <4>1 DEF Put, Shortened, Stores
    <3> QED
      BY <3>1, <3>2
  <2>5. CASE job[t].kind = "remove" /\ Exists(d) /\ ~(i <= Len(mail.msgs))
    <3>1. WithoutAt(mail.msgs, i) = mail.msgs /\ WithoutAt(mail.links, i) = mail.links /\ mail.msgs # <<>>
      BY <1>1, <1>5, <2>5 DEF WithoutAt
    <3>2. w = Put(MailOf(mail.msgs, mail.links)) /\ ~hit /\ i > Len(mail.msgs)
      BY <1>1, <2>1, <2>5, <3>1, LenProperties DEF Computed
    <3> QED
      BY <1>3, <1>4, <2>5, <3>1, <3>2 DEF Put, Rewritten, Stores
  <2> QED
    BY <2>1, <2>2, <2>3, <2>4, <2>5
<1> QED
  BY <1>6, <1>7

-----------------------------------------------------------------------------
(* The storage invariant.                                                  *)

SameJob(t) == job'[t].kind = job[t].kind /\ job'[t].msg = job[t].msg /\ job'[t].index = job[t].index

(* A document with one more message is not empty.                          *)
LEMMA AppendNonempty ==
  ASSUME NEW t \in Txn, NEW d \in Device, TypeOK
  PROVE  Append(doc[d].data.msgs, job[t].msg) # <<>>
<1>1. doc[d].data.msgs \in Seq(Msg) /\ job[t].msg \in Msg
  BY MailOfDocument DEF TypeOK, Job
<1> QED
  BY <1>1, AppendProperties

(* A commit leaves the other transactions, and every job but its counts.   *)
LEMMA CommitKeepsJobs ==
  ASSUME TypeOK, NEW t \in Txn, Commit(t)
  PROVE  /\ txn' = [txn EXCEPT ![t].pc = "applied"]
         /\ UNCHANGED <<page, load>>
         /\ \A u \in Txn : SameJob(u) /\ job'[u].seen = job[u].seen
         /\ \A u \in Txn \ {t} : txn'[u] = txn[u] /\ job'[u] = job[u]
<1>1. PICK removed, misled :
        job' = [job EXCEPT ![t].applied = IF txn[t].write = NoWrite THEN @ ELSE @ + 1, ![t].removed = removed, ![t].misled = misled]
  BY DEF Commit
<1>2. txn' = [txn EXCEPT ![t].pc = "applied"] /\ UNCHANGED <<page, load>>
  BY DEF Commit, Apply
<1>3. job'[t].kind = job[t].kind /\ job'[t].msg = job[t].msg /\ job'[t].index = job[t].index /\ job'[t].seen = job[t].seen
  BY <1>1 DEF TypeOK, Job
<1>4. \A u \in Txn \ {t} : txn'[u] = txn[u] /\ job'[u] = job[u]
  BY <1>1, <1>2 DEF TypeOK
<1> QED
  BY <1>2, <1>3, <1>4 DEF SameJob

(* Steps that keep the documents and the reads of writes keep StorageInv.  *)
LEMMA QuietStep ==
  ASSUME StorageInv, TypeOK', doc' = doc, clock' = clock,
         \A t \in Txn : txn'[t].pc = "commit" =>
           (txn'[t] = txn[t] /\ SameJob(t)) \/ CarriesItsRead(t)'
  PROVE  StorageInv'
<1>1. ASSUME NEW t \in Txn, txn'[t].pc = "commit" PROVE CarriesItsRead(t)'
  <2>1. CASE txn'[t] = txn[t] /\ SameJob(t)
    <3>1. CarriesItsRead(t)
      BY <1>1, <2>1 DEF StorageInv, CommitsComputed
    <3> QED
      BY <2>1, <3>1 DEF CarriesItsRead, FromItsRead, Computed, SameJob, NoWrite
  <2> QED
    BY <1>1, <2>1
<1> QED
  BY <1>1 DEF StorageInv, LinksFollowMessages, NoEmptyDocument, VersionsGiven, CommitsComputed, Exists

(* What a transaction computes is from its read.                           *)
LEMMA ReadCarries ==
  ASSUME StorageInv, TypeOK', NEW t \in Txn, SendRead(t) \/ RemoveRead(t)
  PROVE  CarriesItsRead(t)'
<1> DEFINE d == txn[t].key
<1>1. d \in Device /\ clock \in Nat
  BY DEF StorageInv, TypeOK, Transaction
<1>2. /\ txn'[t].key = d /\ txn'[t].pre = doc[d].version
      /\ doc' = doc /\ clock' = clock /\ job' = job
      /\ job[t].kind \in {"send", "remove"}
  BY DEF SendRead, RemoveRead, Read, CreatePrecondition, StorageInv, TypeOK, Transaction
<1>3. \/ job[t].kind = "send" /\ txn'[t].write = SendWrite(t)
      \/ job[t].kind = "remove" /\ txn'[t].write = RemoveWrite(t)
  BY DEF SendRead, RemoveRead, Read, StorageInv, TypeOK, Transaction
<1>4. txn'[t].write = Computed(job[t], IF Exists(d) THEN doc[d].data ELSE NoData, Exists(d))
  <2>1. CASE job[t].kind = "send"
    BY <1>3, <2>1 DEF SendWrite, Computed
  <2>2. CASE job[t].kind = "remove"
    BY <1>3, <2>2 DEF RemoveWrite, Computed
  <2> QED
    BY <1>2, <2>1, <2>2
<1>5. doc[d].version \in 0..clock
  <2>1. doc[d].version \in Nat /\ doc[d].version <= clock
    BY <1>1, MailOfDocument DEF StorageInv, VersionsGiven
  <2> QED
    BY <1>1, <2>1
<1> QED
  BY <1>2, <1>4, <1>5 DEF CarriesItsRead, FromItsRead, Exists

(* Other transactions still carry their read after a commit.               *)
LEMMA CommitKeepsReads ==
  ASSUME StorageInv, NEW t \in Txn, Commit(t),
         NEW u \in Txn, txn'[u].pc = "commit"
  PROVE  CarriesItsRead(u)'
<1> DEFINE d == txn[t].key
           k == txn[u].key
<1>1. u # t /\ txn'[u] = txn[u] /\ job'[u] = job[u]
  BY CommitKeepsJobs DEF StorageInv, TypeOK, Transaction
<1>2. k \in Device /\ d \in Device /\ clock \in Nat /\ doc \in [Device -> Document]
  BY DEF StorageInv, TypeOK, Transaction
<1>3. CarriesItsRead(u)
  BY <1>1 DEF StorageInv, CommitsComputed
<1>4. CASE job[u].kind = "send" /\ txn[u].write = NoWrite
  BY <1>1, <1>4 DEF CarriesItsRead, NoWrite
<1>5. CASE job[u].kind \in {"send", "remove"} /\ FromItsRead(u)
  <2>1. txn[u].pre \in 0..clock
    BY <1>5 DEF FromItsRead
  <2>2. \/ clock' = clock /\ doc' = doc
        \/ /\ clock' \in {clock, clock + 1}
           /\ \E x : /\ doc' = [doc EXCEPT ![d] = x]
                     /\ x.version = NoDocument \/ x.version = clock + 1
    <3>1. ASSUME NEW msgs, NEW links, Stores(d, msgs, links)
          PROVE  /\ clock' = clock + 1
                 /\ \E x : doc' = [doc EXCEPT ![d] = x] /\ x.version = clock + 1
      <4> DEFINE x == [version |-> clock + 1, data |-> MailOf(msgs, links)]
      <4>1. doc' = [doc EXCEPT ![d] = x] /\ x.version = clock + 1 /\ clock' = clock + 1
        BY <3>1 DEF Stores
      <4> HIDE DEF x
      <4> QED
        BY <4>1
    <3>2. CASE Emptied(t)
      <4> DEFINE x == [version |-> NoDocument, data |-> NoData]
      <4>1. doc' = [doc EXCEPT ![d] = x] /\ x.version = NoDocument /\ clock' = clock
        BY <3>2 DEF Emptied
      <4> HIDE DEF x
      <4> QED
        BY <4>1
    <3>3. CASE Nothing(t)
      BY <3>3 DEF Nothing
    <3>4. CASE Appended(t) \/ Shortened(t) \/ Rewritten(t)
      BY <3>1, <3>4 DEF Appended, Shortened, Rewritten
    <3> QED
      BY <3>2, <3>3, <3>4, CommitEffect
  <2>3. clock' \in {clock, clock + 1}
    BY <2>2
  <2>4. txn[u].pre = doc'[k].version /\ txn[u].pre # NoDocument => doc'[k] = doc[k]
    BY <1>2, <2>1, <2>2 DEF NoDocument
  <2>5. FromItsRead(u)'
    BY <1>1, <1>2, <1>5, <2>1, <2>3, <2>4 DEF FromItsRead, Computed, NoDocument
  <2> QED
    BY <1>1, <1>5, <2>5 DEF CarriesItsRead
<1> QED
  BY <1>3, <1>4, <1>5 DEF CarriesItsRead

(* A commit keeps StorageInv.                                              *)
LEMMA CommitStorage ==
  ASSUME StorageInv, TypeOK', NEW t \in Txn, Commit(t)
  PROVE  StorageInv'
<1> DEFINE d == txn[t].key
           mail == doc[d].data
<1>1. d \in Device /\ clock \in Nat /\ doc \in [Device -> Document] /\ mail.links = mail.msgs
  BY DEF StorageInv, TypeOK, Transaction, LinksFollowMessages
<1>2. CommitsComputed'
  BY CommitKeepsReads DEF CommitsComputed
<1>3. CASE Nothing(t)
  BY <1>2, <1>3 DEF StorageInv, LinksFollowMessages, NoEmptyDocument, VersionsGiven, Exists, Nothing
<1>4. ASSUME NEW msgs, msgs # <<>>, Stores(d, msgs, msgs) PROVE StorageInv'
  <2>1. doc'[d] = [version |-> clock + 1, data |-> MailOf(msgs, msgs)] /\ clock' = clock + 1
    BY <1>1, <1>4 DEF Stores
  <2>2. \A k \in Device \ {d} : doc'[k] = doc[k]
    BY <1>1, <1>4 DEF Stores
  <2>3. LinksFollowMessages'
    BY <2>1, <2>2 DEF StorageInv, LinksFollowMessages, MailOf
  <2>4. NoEmptyDocument'
    BY <1>1, <1>4, <2>1, <2>2 DEF StorageInv, NoEmptyDocument, Exists, NoDocument, MailOf
  <2>5. VersionsGiven'
    BY <1>1, <2>1, <2>2, MailOfDocument DEF StorageInv, VersionsGiven
  <2> QED
    BY <1>2, <2>3, <2>4, <2>5 DEF StorageInv
<1>5. CASE Appended(t)
  BY <1>1, <1>4, <1>5, AppendNonempty DEF Appended, StorageInv
<1>6. CASE Shortened(t)
  BY <1>1, <1>4, <1>6 DEF Shortened
<1>7. CASE Rewritten(t)
  BY <1>1, <1>4, <1>7 DEF Rewritten
<1>8. CASE Emptied(t)
  <2>1. doc'[d] = [version |-> NoDocument, data |-> NoData] /\ clock' = clock
    BY <1>1, <1>8 DEF Emptied
  <2>2. \A k \in Device \ {d} : doc'[k] = doc[k]
    BY <1>1, <1>8 DEF Emptied
  <2>3. NoData.msgs = <<>> /\ NoData.links = <<>>
    BY MessagesAssumption
  <2>4. LinksFollowMessages'
    BY <2>1, <2>2, <2>3 DEF StorageInv, LinksFollowMessages
  <2>5. NoEmptyDocument'
    BY <1>1, <2>1, <2>2, <2>3 DEF StorageInv, NoEmptyDocument, Exists, NoDocument
  <2>6. VersionsGiven'
    BY <1>1, <2>1, <2>2, MailOfDocument DEF StorageInv, VersionsGiven, NoDocument
  <2> QED
    BY <1>2, <2>4, <2>5, <2>6 DEF StorageInv
<1> QED
  BY <1>3, <1>5, <1>6, <1>7, <1>8, CommitEffect

(* Only a commit changes documents.                                        *)
LEMMA QuietSteps ==
  ASSUME TypeOK, [Next]_vars, ~(\E t \in Txn : Commit(t))
  PROVE  UNCHANGED <<doc, clock, removals>>
<1> USE DEF vars, firestore
<1>1. ASSUME NEW t \in Txn, Step(t) PROVE UNCHANGED <<doc, clock, removals>>
  BY <1>1 DEF Step, SendRead, SendReadFailed, RemoveRead, RemoveReadFailed, Read, ReadSwallowed, ReadFailed,
     Answer, Disconnect, Refuse, AnswerOk, AnswerRefused, AnswerDenied, ConnectionLost
<1>2. CASE UNCHANGED vars
  BY <1>2
<1> QED
  BY <1>1, <1>2 DEF Next, SendMessage, ConfirmRemove, Start, Removed, StartLoad, Refresh, Reload, LoadRead,
     LoadShown, TapRemove, Cancel

(* Who is about to commit without having just read was so before.          *)
LEMMA QuietCommits ==
  ASSUME StorageInv, TypeOK', [Next]_vars, NEW t \in Txn, txn'[t].pc = "commit", ~Commit(t),
         ~SendRead(t), ~RemoveRead(t), ~SendReadFailed(t)
  PROVE  txn'[t] = txn[t] /\ SameJob(t)
<1> USE DEF vars, firestore, SameJob
<1>0. TypeOK /\ txn \in [Txn -> Transaction] /\ job \in [Txn -> Job]
  BY DEF StorageInv, TypeOK
<1>1. ASSUME NEW u \in Txn, Step(u) PROVE txn'[t] = txn[t] /\ SameJob(t)
  <2>1. CASE u # t
    <3>1. txn'[t] = txn[t] /\ job'[t] = job[t]
      BY <1>0, <1>1, <2>1 DEF Step, SendRead, SendReadFailed, RemoveRead, RemoveReadFailed, Read, ReadSwallowed,
         ReadFailed, Commit, Apply, Answer, Disconnect, Refuse, AnswerOk, AnswerRefused, AnswerDenied, ConnectionLost,
         HandleError, Run, End, Move
    <3> QED
      BY <3>1
  <2>2. CASE u = t
    <3>1. txn'[t].pc # "commit"
      <4>1. \A pc, left : pc # "commit" => Move(t, pc, left)[t].pc # "commit"
        BY <1>0 DEF Move, Transaction
      <4>2. HandleError(t)[t].pc # "commit" /\ End(t, "ok")[t].pc # "commit" /\ End(t, "failed")[t].pc # "commit"
        BY <4>1 DEF HandleError, Run, End
      <4>3. CASE Refuse(t)
        BY <1>0, <4>3 DEF Refuse, Transaction
      <4>4. CASE AnswerOk(t) \/ AnswerRefused(t) \/ AnswerDenied(t) \/ ConnectionLost(t) \/ ReadFailed(t)
        BY <4>2, <4>4 DEF AnswerOk, AnswerRefused, AnswerDenied, ConnectionLost, ReadFailed
      <4> QED
        BY <1>1, <2>2, <4>3, <4>4 DEF Step, RemoveReadFailed, Answer, Disconnect
    <3> QED
      BY <3>1
  <2> QED
    BY <2>1, <2>2
<1>2. ASSUME NEW u \in Txn, NEW d, Start(u, d), \A v \in Txn \ {u} : job'[v] = job[v] PROVE txn'[t] = txn[t] /\ SameJob(t)
  <2>1. u # t
    BY <1>0, <1>2 DEF Start, Transaction
  <2> QED
    BY <1>0, <1>2, <2>1 DEF Start
<1>3. ASSUME NEW u \in Txn, NEW d \in Device, NEW m \in Msg, SendMessage(u, d, m) PROVE txn'[t] = txn[t] /\ SameJob(t)
  BY <1>0, <1>2, <1>3 DEF SendMessage
<1>4. ASSUME NEW u \in Txn, NEW p \in Page, ConfirmRemove(p, u) PROVE txn'[t] = txn[t] /\ SameJob(t)
  BY <1>0, <1>2, <1>4 DEF ConfirmRemove
<1>5. ASSUME NEW u \in Txn, NEW l \in Load, Removed(u, l) PROVE txn'[t] = txn[t] /\ SameJob(t)
  BY <1>0, <1>5 DEF Removed, StartLoad, Job
<1>6. CASE UNCHANGED <<txn, job>>
  BY <1>6
<1> QED
  BY <1>1, <1>3, <1>4, <1>5, <1>6 DEF Next, Refresh, StartLoad, Reload, LoadRead, LoadShown, TapRemove, Cancel

(* Every step keeps StorageInv.                                            *)
LEMMA StorageNext == StorageInv /\ [Next]_vars => StorageInv'
<1> SUFFICES ASSUME StorageInv, [Next]_vars PROVE StorageInv'
  OBVIOUS
<1>1. TypeOK'
  BY TypeNext DEF StorageInv
<1>2. ASSUME NEW t \in Txn, Commit(t) PROVE StorageInv'
  BY <1>1, <1>2, CommitStorage
<1>3. CASE ~(\E t \in Txn : Commit(t))
  <2>1. doc' = doc /\ clock' = clock
    BY <1>3, QuietSteps DEF StorageInv
  <2>2. ASSUME NEW t \in Txn, SendReadFailed(t) PROVE CarriesItsRead(t)'
    BY <2>2 DEF SendReadFailed, ReadSwallowed, Move, CarriesItsRead, NoWrite, StorageInv, TypeOK, Transaction, Job
  <2> QED
    BY <1>1, <1>3, <2>1, <2>2, QuietStep, QuietCommits, ReadCarries
<1> QED
  BY <1>2, <1>3

(* The initial states satisfy StorageInv.                                  *)
LEMMA StorageInit == Init => StorageInv
<1> SUFFICES ASSUME Init PROVE StorageInv
  OBVIOUS
<1>1. TypeOK
  BY InitType
<1>2. \A d \in Device : \E s \in Before : doc[d] = Stored(s)
  BY DEF Init
<1>3. LinksFollowMessages /\ NoEmptyDocument /\ VersionsGiven
  BY <1>2 DEF Init, LinksFollowMessages, NoEmptyDocument, VersionsGiven, Exists, Stored, MailOf, NoDocument
<1>4. CommitsComputed
  BY DEF Init, CommitsComputed, Idle
<1> QED
  BY <1>1, <1>3, <1>4 DEF StorageInv

(* StorageInv always holds.                                                *)
LEMMA StorageAlways == Spec => []StorageInv
  BY StorageInit, StorageNext, PTL DEF Spec

(* However sends, removals and retries interleave, the links of a device's
   document stay beside their messages.                                    *)
THEOREM LinksAlwaysFollow == Spec => []LinksFollowMessages
<1>1. StorageInv => LinksFollowMessages
  BY DEF StorageInv
<1> QED
  BY <1>1, StorageAlways, PTL

(* A document is there exactly when it holds a message.                    *)
THEOREM NeverEmpty == Spec => []NoEmptyDocument
<1>1. StorageInv => NoEmptyDocument
  BY DEF StorageInv
<1> QED
  BY <1>1, StorageAlways, PTL

-----------------------------------------------------------------------------
(* The storage is an Inbox.                                                *)

(* A commit is a step of the inbox, or leaves it alone.                    *)
LEMMA InboxStep ==
  ASSUME StorageInv, NEW t \in Txn, Commit(t)
  PROVE  [Messages!Next]_([d \in Device |-> doc[d].data.msgs])
<1> DEFINE k == txn[t].key
           box == [d \in Device |-> doc[d].data.msgs]
           i == job[t].index
<1>1. k \in Device /\ doc \in [Device -> Document] /\ job[t].msg \in Msg /\ i \in Nat \ {0}
  BY DEF StorageInv, TypeOK, Transaction, Job
<1>2. box[k] = doc[k].data.msgs /\ box[k] \in Seq(Msg) /\ Len(box[k]) \in Nat
  BY <1>1, MailOfDocument, LenProperties DEF StorageInv
<1>3. ASSUME NEW msgs, NEW x, x.data.msgs = msgs, doc' = [doc EXCEPT ![k] = x]
      PROVE  box' = [box EXCEPT ![k] = msgs]
  BY <1>1, <1>3
<1>4. ASSUME NEW msgs, NEW links, Stores(k, msgs, links) PROVE box' = [box EXCEPT ![k] = msgs]
  <2> DEFINE x == [version |-> clock + 1, data |-> MailOf(msgs, links)]
  <2>1. x.data.msgs = msgs /\ doc' = [doc EXCEPT ![k] = x]
    BY <1>4 DEF Stores, MailOf
  <2> HIDE DEF x, box
  <2> QED
    BY <1>3, <2>1
<1>5. CASE Nothing(t)
  BY <1>5 DEF Nothing
<1>6. CASE Appended(t)
  <2>1. box' = [box EXCEPT ![k] = Append(@, job[t].msg)]
    BY <1>2, <1>4, <1>6 DEF Appended
  <2>2. \E d \in Device, m \in Msg : box' = [box EXCEPT ![d] = Append(@, m)]
    BY <1>1, <2>1
  <2>3. Messages!Next
    BY <2>2 DEF Messages!Next, Messages!Send
  <2> QED
    BY <2>3
<1>7. CASE (Shortened(t) \/ Emptied(t))
  <2>1. i \in 1..Len(box[k])
    BY <1>1, <1>2, <1>7 DEF Shortened, Emptied
  <2>2. box' = [box EXCEPT ![k] = WithoutAt(@, i)]
    <3>1. CASE Shortened(t)
      BY <1>2, <1>4, <3>1 DEF Shortened
    <3>2. CASE Emptied(t)
      <4>1. NoData.msgs = <<>>
        BY MessagesAssumption
      <4>2. doc' = [doc EXCEPT ![k] = [version |-> NoDocument, data |-> NoData]] /\ WithoutAt(box[k], i) = <<>>
        BY <1>2, <3>2 DEF Emptied
      <4>3. box' = [box EXCEPT ![k] = <<>>]
        BY <1>1, <4>1, <4>2
      <4> QED
        BY <4>2, <4>3
    <3> QED
      BY <1>7, <3>1, <3>2
  <2>3. WithoutAt(box[k], i) = Messages!Without(box[k], i)
    <3>1. i <= Len(box[k])
      BY <1>2, <2>1
    <3> HIDE DEF box, i
    <3> QED
      BY <3>1, Zenon DEF WithoutAt, Messages!Without
  <2>4. \E d \in Device : \E j \in 1..Len(box[d]) : box' = [box EXCEPT ![d] = Messages!Without(@, j)]
    <3> HIDE DEF box, i, k
    <3> QED
      BY <1>1, <2>1, <2>2, <2>3
  <2>5. Messages!Next
    BY <2>4 DEF Messages!Next, Messages!Remove
  <2> QED
    BY <2>5
<1>8. CASE Rewritten(t)
  <2>1. box' = [box EXCEPT ![k] = box[k]]
    BY <1>2, <1>4, <1>8 DEF Rewritten
  <2> QED
    BY <2>1
<1> QED
  BY <1>5, <1>6, <1>7, <1>8, CommitEffect

(* Whatever transactions, refusals, retries and lost answers there are, the
   lists of messages change by whole sends and whole removals of one.      *)
THEOREM StorageIsInbox == Spec => ImplementsInbox
<1>1. Init => Messages!Init
  <2> SUFFICES ASSUME Init PROVE Messages!Init
    OBVIOUS
  <2>1. \A d \in Device : doc[d].data.msgs \in Seq(Msg)
    BY InitType, MailOfDocument
  <2> QED
    BY <2>1 DEF Messages!Init
<1>2. StorageInv /\ [Next]_vars => [Messages!Next]_([d \in Device |-> doc[d].data.msgs])
  <2> SUFFICES ASSUME StorageInv, [Next]_vars
               PROVE  [Messages!Next]_([d \in Device |-> doc[d].data.msgs])
    OBVIOUS
  <2>1. CASE \E t \in Txn : Commit(t)
    BY <2>1, InboxStep
  <2>2. CASE ~(\E t \in Txn : Commit(t))
    <3>1. doc' = doc
      BY <2>2, QuietSteps DEF StorageInv
    <3> QED
      BY <3>1
  <2> QED
    BY <2>1, <2>2
<1> QED
  BY <1>1, <1>2, StorageAlways, PTL DEF Spec, Messages!Spec, ImplementsInbox

-----------------------------------------------------------------------------
(* Answers.                                                                *)

(* Where a transaction that moves on arrives.                              *)
LEMMA MoveReaches ==
  ASSUME TypeOK, NEW t \in Txn
  PROVE  /\ End(t, "ok")[t].pc = "ok" /\ End(t, "failed")[t].pc = "failed"
         /\ Move(t, "commit", txn[t].left)[t].pc = "commit"
         /\ HandleError(t)[t].pc \in {"read", "failed"}
         /\ \A u \in Txn \ {t} : HandleError(t)[u] = txn[u]
         /\ \A u \in Txn \ {t} : \A pc, left : Move(t, pc, left)[u] = txn[u]
         /\ \A u \in Txn \ {t} : \A pc : End(t, pc)[u] = txn[u]
<1>1. \A pc, left : Move(t, pc, left)[t].pc = pc
  BY DEF Move, TypeOK, Transaction
<1>2. \A u \in Txn \ {t} : \A pc, left : Move(t, pc, left)[u] = txn[u]
  BY DEF Move, TypeOK
<1>3. \A pc : End(t, pc)[t].pc = pc /\ \A u \in Txn \ {t} : End(t, pc)[u] = txn[u]
  BY <1>1, <1>2 DEF End
<1>4. Run(t)[t].pc = "read" /\ \A u \in Txn \ {t} : Run(t)[u] = txn[u]
  BY <1>1, <1>2 DEF Run
<1> QED
  BY <1>1, <1>2, <1>3, <1>4 DEF HandleError

(* Steps of a transaction keep the count of applications.                  *)
LEMMA StepCounts ==
  ASSUME TypeOK, NEW t \in Txn, Step(t), Counted(t)
  PROVE  /\ Counted(t)'
         /\ \A u \in Txn \ {t} : txn'[u] = txn[u] /\ job'[u] = job[u]
<1>0. txn \in [Txn -> Transaction] /\ job \in [Txn -> Job]
  BY DEF TypeOK
<1>1. CASE SendRead(t) \/ RemoveRead(t)
  <2>1. PICK w : Read(t, w) /\ w # NoWrite /\ job' = job
    <3>1. SendWrite(t) # NoWrite /\ RemoveWrite(t) # NoWrite
      BY DEF SendWrite, RemoveWrite, Put, Delete, Verify, NoWrite
    <3> QED
      BY <1>1, <3>1 DEF SendRead, RemoveRead
  <2> QED
    BY <1>0, <2>1 DEF Read, Counted, Transaction
<1>2. CASE SendReadFailed(t)
  <2>1. txn' = Move(t, "commit", txn[t].left) /\ txn[t].pc = "read" /\ job' = [job EXCEPT ![t].swallowed = TRUE]
    BY <1>2 DEF SendReadFailed, ReadSwallowed
  <2>2. job'[t].swallowed = TRUE
    BY <1>0, <2>1 DEF Job
  <2>3. \A u \in Txn \ {t} : job'[u] = job[u]
    BY <1>0, <2>1
  <2> QED
    BY <2>1, <2>2, <2>3, MoveReaches DEF Counted
<1>3. CASE RemoveReadFailed(t)
  BY <1>3, MoveReaches DEF RemoveReadFailed, ReadFailed, Counted
<1>4. CASE Commit(t)
  <2>1. /\ job'[t].applied = (IF txn[t].write = NoWrite THEN job[t].applied ELSE job[t].applied + 1)
        /\ job'[t].lost = job[t].lost /\ job'[t].swallowed = job[t].swallowed
    BY <1>0, <1>4 DEF Commit, Job
  <2>2. txn[t].pc = "commit" /\ txn'[t].pc = "applied"
    BY <1>0, <1>4 DEF Commit, Apply, Transaction
  <2>3. job[t].applied \in Nat
    BY <1>0 DEF Job
  <2> QED
    BY <1>4, <2>1, <2>2, <2>3, CommitKeepsJobs DEF Counted
<1>5. CASE Answer(t)
  <2>1. CASE Refuse(t)
    BY <1>0, <1>5, <2>1 DEF Answer, Refuse, Counted, Transaction
  <2>2. CASE AnswerOk(t) \/ AnswerRefused(t) \/ AnswerDenied(t)
    BY <1>5, <2>2, MoveReaches DEF Answer, AnswerOk, AnswerRefused, AnswerDenied, Counted
  <2> QED
    BY <1>5, <2>1, <2>2 DEF Answer
<1>6. CASE Disconnect(t)
  <2>1. job'[t].lost = TRUE /\ \A u \in Txn \ {t} : job'[u] = job[u]
    BY <1>0, <1>6 DEF Disconnect, Job
  <2> QED
    BY <1>6, <2>1, MoveReaches DEF Disconnect, ConnectionLost, Counted
<1> QED
  BY <1>1, <1>2, <1>3, <1>4, <1>5, <1>6 DEF Step

SameCounts(t) == /\ job'[t].applied = job[t].applied
                 /\ job'[t].lost = job[t].lost /\ job'[t].swallowed = job[t].swallowed

(* Steps of the others keep the count of applications.                     *)
LEMMA OthersCount ==
  ASSUME TypeOK, [Next]_vars, ~(\E u \in Txn : Step(u)), NEW t \in Txn, Counted(t)
  PROVE  Counted(t)'
<1> USE DEF vars, firestore
<1>0. txn \in [Txn -> Transaction] /\ job \in [Txn -> Job]
  BY DEF TypeOK
<1>1. ASSUME NEW u \in Txn, NEW d, Start(u, d), SameCounts(t)
      PROVE  Counted(t)'
  <2>0. job'[t].applied = job[t].applied /\ job'[t].lost = job[t].lost /\ job'[t].swallowed = job[t].swallowed
    BY <1>1 DEF SameCounts
  <2>1. CASE t = u
    <3>1. txn[t].pc = "idle" /\ txn'[t].pc = "read"
      BY <1>0, <1>1, <2>1 DEF Start, Transaction
    <3> QED
      BY <2>0, <3>1 DEF Counted
  <2>2. CASE t # u
    <3>1. txn'[t] = txn[t]
      BY <1>0, <1>1, <2>2 DEF Start
    <3> QED
      BY <2>0, <3>1 DEF Counted
  <2> QED
    BY <2>1, <2>2
<1>2. ASSUME NEW u \in Txn, NEW d \in Device, NEW m \in Msg, SendMessage(u, d, m) PROVE Counted(t)'
  <2>1. SameCounts(t)
    BY <1>0, <1>2 DEF SendMessage, SameCounts, Job
  <2> QED
    BY <1>1, <1>2, <2>1 DEF SendMessage, SameCounts
<1>3. ASSUME NEW u \in Txn, NEW p \in Page, ConfirmRemove(p, u) PROVE Counted(t)'
  <2>1. SameCounts(t)
    BY <1>0, <1>3 DEF ConfirmRemove, SameCounts, Job
  <2> QED
    BY <1>1, <1>3, <2>1 DEF ConfirmRemove, SameCounts
<1>4. ASSUME NEW u \in Txn, NEW l \in Load, Removed(u, l) PROVE Counted(t)'
  <2>1. SameCounts(t)
    BY <1>0, <1>4 DEF Removed, SameCounts, Job
  <2> QED
    BY <1>4, <2>1 DEF Removed, StartLoad, SameCounts, Counted
<1>5. CASE UNCHANGED <<txn, job>>
  BY <1>5 DEF Counted
<1> QED
  BY <1>2, <1>3, <1>4, <1>5 DEF Next, Refresh, StartLoad, Reload, LoadRead, LoadShown, TapRemove, Cancel

(* Every step keeps AppliedOnce.                                           *)
LEMMA CountNext == TypeOK /\ AppliedOnce /\ [Next]_vars => AppliedOnce'
<1> SUFFICES ASSUME TypeOK, AppliedOnce, [Next]_vars, NEW t \in Txn PROVE Counted(t)'
  BY DEF AppliedOnce, Counted
<1>1. \A u \in Txn : Counted(u)
  BY DEF AppliedOnce, Counted
<1>2. ASSUME NEW u \in Txn, Step(u) PROVE Counted(t)'
  <2>1. Counted(u)' /\ \A v \in Txn \ {u} : txn'[v] = txn[v] /\ job'[v] = job[v]
    BY <1>1, <1>2, StepCounts
  <2>2. CASE t = u
    BY <2>1, <2>2
  <2>3. CASE t # u
    BY <1>1, <2>1, <2>3 DEF Counted
  <2> QED
    BY <2>2, <2>3
<1>3. CASE ~(\E u \in Txn : Step(u))
  BY <1>1, <1>3, OthersCount
<1> QED
  BY <1>2, <1>3

(* A transaction that reports success was applied exactly once, and one
   that reports failure was not, where no answer was lost.                 *)
THEOREM AnswersAlwaysTrue == Spec => []AnswersAreTrue
<1>1. Init => AppliedOnce
  BY DEF Init, AppliedOnce, Counted, Idle, NoJob
<1>2. AppliedOnce => AnswersAreTrue
  BY DEF AppliedOnce, Counted, AnswersAreTrue
<1> QED
  BY <1>1, <1>2, CountNext, TypeCorrect, PTL DEF Spec

-----------------------------------------------------------------------------
(* The attempts of a transaction.                                          *)

(* What StepsLeft is where a transaction stands.                           *)
LEMMA StepsLeftAt ==
  ASSUME NEW t \in Txn
  PROVE  /\ txn[t].pc = "read" => StepsLeft(t) = 3 * txn[t].left + 3
         /\ txn[t].pc = "commit" => StepsLeft(t) = 3 * txn[t].left + 2
         /\ txn[t].pc \in {"applied", "refused"} => StepsLeft(t) = 3 * txn[t].left + 1
         /\ txn[t].pc \in {"ok", "failed"} => StepsLeft(t) = 3 * txn[t].left + 0
  BY DEF StepsLeft

(* The phase and the attempts a move leaves.                               *)
LEMMA MoveLeaves ==
  ASSUME TypeOK, NEW t \in Txn
  PROVE  \A pc, left : /\ Move(t, pc, left)[t].pc = pc
                       /\ Move(t, pc, left)[t].left = left
  BY DEF Move, TypeOK, Transaction

(* The way of one transaction through its phases, step by step.            *)
Advance(t) ==
  \/ /\ txn[t].pc = "read" /\ txn'[t].left = txn[t].left /\ txn'[t].pc = "commit"
  \/ /\ txn[t].pc = "commit" /\ txn'[t].left = txn[t].left /\ txn'[t].pc \in {"applied", "refused"}
  \/ txn[t].pc \in Running /\ txn'[t].left = 0 /\ txn'[t].pc \in {"ok", "failed"}
  \/ /\ txn[t].pc \in {"commit", "applied", "refused"} /\ txn[t].left > 0
     /\ txn'[t].left = txn[t].left - 1 /\ txn'[t].pc = "read"

(* Every step of a transaction goes that way.                              *)
LEMMA StepAdvances ==
  ASSUME TypeOK, NEW t \in Txn, Step(t)
  PROVE  Advance(t) /\ \A u \in Txn \ {t} : txn'[u] = txn[u]
<1>0. txn \in [Txn -> Transaction]
  BY DEF TypeOK
<1>1. ASSUME txn' = HandleError(t), txn[t].pc \in {"commit", "applied", "refused"}
      PROVE  Advance(t) /\ \A u \in Txn \ {t} : txn'[u] = txn[u]
  <2>1. CASE txn[t].left > 0
    BY <1>1, <2>1, MoveLeaves, MoveReaches DEF HandleError, Run, Advance
  <2>2. CASE ~(txn[t].left > 0)
    BY <1>1, <2>2, MoveLeaves, MoveReaches DEF HandleError, End, Advance, Running
  <2> QED
    BY <2>1, <2>2
<1>2. ASSUME NEW pc \in {"ok", "failed"}, txn' = End(t, pc), txn[t].pc \in Running
      PROVE  Advance(t) /\ \A u \in Txn \ {t} : txn'[u] = txn[u]
  BY <1>2, MoveLeaves, MoveReaches DEF End, Advance
<1>3. CASE SendRead(t) \/ RemoveRead(t)
  <2>1. PICK w : Read(t, w)
    BY <1>3 DEF SendRead, RemoveRead
  <2> QED
    BY <1>0, <2>1 DEF Read, Advance, Transaction
<1>4. CASE SendReadFailed(t)
  BY <1>4, MoveLeaves, MoveReaches DEF SendReadFailed, ReadSwallowed, Advance
<1>5. CASE RemoveReadFailed(t)
  BY <1>2, <1>5 DEF RemoveReadFailed, ReadFailed, Running
<1>6. CASE Commit(t)
  BY <1>0, <1>6 DEF Commit, Apply, Advance, Transaction
<1>7. CASE Answer(t)
  <2>1. CASE Refuse(t)
    BY <1>0, <2>1 DEF Refuse, Advance, Transaction
  <2>2. CASE AnswerOk(t) \/ AnswerDenied(t)
    BY <1>2, <2>2 DEF AnswerOk, AnswerDenied, Running
  <2>3. CASE AnswerRefused(t)
    BY <1>1, <2>3 DEF AnswerRefused
  <2> QED
    BY <1>7, <2>1, <2>2, <2>3 DEF Answer
<1>8. CASE Disconnect(t)
  BY <1>1, <1>8 DEF Disconnect, ConnectionLost
<1> QED
  BY <1>3, <1>4, <1>5, <1>6, <1>7, <1>8 DEF Step

(* Each of them uses up some of the steps that are left.                   *)
LEMMA AdvanceCounts ==
  ASSUME TypeOK, TypeOK', NEW t \in Txn, Advance(t)
  PROVE  StepsLeft(t)' \in 0..(StepsLeft(t) - 1)
<1>1. txn[t].left \in Nat /\ txn'[t].left \in Nat
  BY DEF TypeOK, Transaction
<1>2. /\ txn'[t].pc = "read" => StepsLeft(t)' = 3 * txn'[t].left + 3
      /\ txn'[t].pc = "commit" => StepsLeft(t)' = 3 * txn'[t].left + 2
      /\ txn'[t].pc \in {"applied", "refused"} => StepsLeft(t)' = 3 * txn'[t].left + 1
      /\ txn'[t].pc \in {"ok", "failed"} => StepsLeft(t)' = 3 * txn'[t].left + 0
  BY DEF StepsLeft
<1>3. CASE txn[t].pc = "read" /\ txn'[t].left = txn[t].left /\ txn'[t].pc = "commit"
  BY <1>1, <1>2, <1>3, StepsLeftAt
<1>4. CASE txn[t].pc = "commit" /\ txn'[t].left = txn[t].left /\ txn'[t].pc \in {"applied", "refused"}
  BY <1>1, <1>2, <1>4, StepsLeftAt
<1>5. CASE txn[t].pc \in Running /\ txn'[t].left = 0 /\ txn'[t].pc \in {"ok", "failed"}
  <2>1. StepsLeft(t)' = 0
    BY <1>2, <1>5
  <2>2. StepsLeft(t) \in Nat /\ StepsLeft(t) > 0
    BY <1>1, <1>5, StepsLeftAt DEF Running
  <2> QED
    BY <2>1, <2>2
<1>6. CASE /\ txn[t].pc \in {"commit", "applied", "refused"} /\ txn[t].left > 0
           /\ txn'[t].left = txn[t].left - 1 /\ txn'[t].pc = "read"
  <2>1. StepsLeft(t)' = 3 * txn[t].left
    BY <1>1, <1>2, <1>6
  <2>2. StepsLeft(t) \in {3 * txn[t].left + 1, 3 * txn[t].left + 2}
    BY <1>6, StepsLeftAt
  <2> QED
    BY <1>1, <2>1, <2>2
<1> QED
  BY <1>3, <1>4, <1>5, <1>6 DEF Advance

(* Only the steps of a running transaction move it.                        *)
LEMMA OnlyItsSteps ==
  ASSUME TypeOK, Next, NEW t \in Txn, txn[t].pc \in Running, txn'[t] # txn[t]
  PROVE  Step(t)
<1>0. txn \in [Txn -> Transaction]
  BY DEF TypeOK
<1>1. ASSUME NEW u \in Txn, NEW d, Start(u, d) PROVE FALSE
  <2>1. u # t
    BY <1>1 DEF Start, Running
  <2> QED
    BY <1>0, <1>1, <2>1 DEF Start
<1>2. ~(\E u \in Txn, d \in Device, m \in Msg : SendMessage(u, d, m))
  BY <1>1 DEF SendMessage
<1>3. ~(\E u \in Txn, p \in Page : ConfirmRemove(p, u))
  BY <1>1 DEF ConfirmRemove
<1>4. \E u \in Txn : Step(u)
  BY <1>2, <1>3 DEF Next, firestore, Removed, Refresh, StartLoad, Reload, LoadRead, LoadShown, TapRemove, Cancel
<1>5. ASSUME NEW u \in Txn, Step(u) PROVE u = t
  BY <1>5, StepAdvances
<1> QED
  BY <1>4, <1>5

(* No transaction goes on for ever, however often the server refuses it or
   an answer is lost: every step it takes, a retry too, brings its end
   nearer.                                                                 *)
THEOREM StepsAlwaysRunOut == Spec => StepsRunOut
<1>1. TypeOK /\ [Next]_vars =>
        [\A t \in Txn : txn[t].pc \in Running /\ txn'[t] # txn[t] => StepsLeft(t)' \in 0..(StepsLeft(t) - 1)]_vars
  <2> SUFFICES ASSUME TypeOK, Next, NEW t \in Txn, txn[t].pc \in Running, txn'[t] # txn[t]
               PROVE  StepsLeft(t)' \in 0..(StepsLeft(t) - 1)
    BY DEF vars
  <2>1. TypeOK'
    BY TypeNext
  <2> QED
    BY <2>1, OnlyItsSteps, StepAdvances, AdvanceCounts
<1> QED
  BY <1>1, TypeCorrect, PTL DEF Spec, StepsRunOut

-----------------------------------------------------------------------------
(* Indexes.                                                                *)

(* A step only extends a list, or counts as a removal from it.             *)
LEMMA ListExtends ==
  ASSUME StorageInv, [Next]_vars, NEW d \in Device
  PROVE  \/ removals'[d] = removals[d] /\ Begins(doc[d].data.msgs, doc'[d].data.msgs)
         \/ removals'[d] = removals[d] + 1
<1> DEFINE msgs == doc[d].data.msgs
<1>1. msgs \in Seq(Msg) /\ Len(msgs) \in Nat
  BY MailOfDocument, LenProperties DEF StorageInv
<1>2. Begins(msgs, msgs)
  BY <1>1 DEF Begins
<1>3. CASE ~(\E t \in Txn : Commit(t))
  BY <1>2, <1>3, QuietSteps DEF StorageInv
<1>4. ASSUME NEW t \in Txn, Commit(t)
      PROVE  \/ removals'[d] = removals[d] /\ Begins(doc[d].data.msgs, doc'[d].data.msgs)
             \/ removals'[d] = removals[d] + 1
  <2> DEFINE k == txn[t].key
  <2>1. k \in Device /\ doc \in [Device -> Document] /\ removals \in [Device -> Nat] /\ job[t].msg \in Msg
    BY DEF StorageInv, TypeOK, Transaction, Job
  <2>2. ASSUME NEW new, NEW links, Stores(k, new, links)
        PROVE  doc'[d].data.msgs = IF d = k THEN new ELSE msgs
    BY <2>1, <2>2 DEF Stores, MailOf
  <2>3. CASE Nothing(t)
    BY <1>2, <2>3 DEF Nothing
  <2>4. CASE Appended(t)
    <3>1. doc'[d].data.msgs = (IF d = k THEN Append(msgs, job[t].msg) ELSE msgs)
      BY <2>2, <2>4 DEF Appended
    <3>2. Begins(msgs, Append(msgs, job[t].msg))
      <4>1. Len(Append(msgs, job[t].msg)) = Len(msgs) + 1
        BY <1>1, <2>1, AppendProperties
      <4>2. \A i \in 1..Len(msgs) : msgs[i] = Append(msgs, job[t].msg)[i]
        BY <1>1, <2>1, AppendProperties
      <4> QED
        BY <1>1, <4>1, <4>2 DEF Begins
    <3> QED
      BY <1>2, <2>4, <3>1, <3>2 DEF Appended
  <2>5. CASE Rewritten(t)
    <3>1. doc'[d].data.msgs = msgs
      BY <2>2, <2>5 DEF Rewritten
    <3> QED
      BY <1>2, <2>5, <3>1 DEF Rewritten
  <2>6. CASE Shortened(t) \/ Emptied(t)
    <3>1. removals' = [removals EXCEPT ![k] = @ + 1]
      BY <2>6 DEF Shortened, Emptied
    <3>2. CASE d = k
      BY <2>1, <3>1, <3>2
    <3>3. CASE d # k
      <4>1. doc'[d].data.msgs = msgs
        BY <2>1, <2>6, <3>3 DEF Shortened, Emptied, Stores
      <4> QED
        BY <1>2, <2>1, <3>1, <3>3, <4>1
    <3> QED
      BY <3>2, <3>3
  <2> QED
    BY <1>4, <2>3, <2>4, <2>5, <2>6, CommitEffect
<1> QED
  BY <1>3, <1>4

(* The same, as it is used: what stood stands after a step, too.           *)
StandsNext(d, s, n) == n <= removals'[d] /\ (n = removals'[d] => Begins(s, doc'[d].data.msgs))
PointsNext(d, i, m, n) ==
  /\ n <= removals'[d]
  /\ n = removals'[d] => i <= Len(doc'[d].data.msgs) /\ doc'[d].data.msgs[i] = m

(* A list that stands in a state stands in the next one.                   *)
LEMMA StandsOn ==
  ASSUME StorageInv, TypeOK', [Next]_vars, NEW d \in Device, NEW s \in Seq(Msg), NEW n \in Nat, Stands(d, s, n)
  PROVE  StandsNext(d, s, n)
<1> DEFINE u == doc[d].data.msgs
           v == doc'[d].data.msgs
<1>1. removals[d] \in Nat /\ Len(s) \in Nat /\ Len(u) \in Nat /\ Len(v) \in Nat
  <2>1. u \in Seq(Msg) /\ removals[d] \in Nat
    BY MailOfDocument DEF StorageInv, TypeOK
  <2>2. v \in Seq(Msg)
    BY DEF TypeOK, Document, Mail
  <2> QED
    BY <2>1, <2>2, LenProperties
<1>2. CASE removals'[d] = removals[d] + 1
  BY <1>1, <1>2 DEF Stands, StandsNext
<1>3. CASE removals'[d] = removals[d] /\ Begins(u, v)
  <2>1. Begins(s, u) => Begins(s, v)
    BY <1>1, <1>3 DEF Begins
  <2> QED
    BY <1>3, <2>1 DEF Stands, StandsNext
<1> QED
  BY <1>2, <1>3, ListExtends

(* An index that stands for a message still does.                          *)
LEMMA PointsOn ==
  ASSUME StorageInv, TypeOK', [Next]_vars, NEW d \in Device, NEW i \in Nat \ {0}, NEW m, NEW n \in Nat,
         PointsAt(d, i, m, n)
  PROVE  PointsNext(d, i, m, n)
<1> DEFINE u == doc[d].data.msgs
           v == doc'[d].data.msgs
<1>1. removals[d] \in Nat /\ Len(u) \in Nat /\ Len(v) \in Nat
  <2>1. u \in Seq(Msg) /\ removals[d] \in Nat
    BY MailOfDocument DEF StorageInv, TypeOK
  <2>2. v \in Seq(Msg)
    BY DEF TypeOK, Document, Mail
  <2> QED
    BY <2>1, <2>2, LenProperties
<1>2. CASE removals'[d] = removals[d] + 1
  BY <1>1, <1>2 DEF PointsAt, PointsNext
<1>3. CASE removals'[d] = removals[d] /\ Begins(u, v)
  <2>1. i <= Len(u) => i <= Len(v) /\ u[i] = v[i]
    BY <1>1, <1>3 DEF Begins
  <2> QED
    BY <1>3, <2>1 DEF PointsAt, PointsNext
<1> QED
  BY <1>2, <1>3, ListExtends

(* A page shows what it showed, or what one of its loads has read, and a
   load holds what it held, nothing, or the collection of now.             *)
Collection ==
  [msgs |-> [d \in Device |-> IF Exists(d) THEN doc[d].data.msgs ELSE <<>>], seen |-> removals]

(* Where a page's listing comes from.                                      *)
LEMMA ListingSteps ==
  ASSUME TypeOK, [Next]_vars
  PROVE  /\ \A p \in Page : page'[p].shown = page[p].shown \/ \E l \in Load : page'[p].shown = load[l].result
         /\ \A l \in Load : load'[l].result \in {load[l].result, NoListing, Collection}
<1> DEFINE Goal == /\ \A p \in Page : page'[p].shown = page[p].shown \/ \E l \in Load : page'[p].shown = load[l].result
                   /\ \A l \in Load : load'[l].result \in {load[l].result, NoListing, Collection}
<1> USE DEF vars, firestore
<1>0. page \in [Page -> Screen] /\ load \in [Load -> Loading]
  BY DEF TypeOK
<1>1. ASSUME NEW l \in Load, NEW p, StartLoad(l, p) PROVE Goal
  BY <1>0, <1>1 DEF StartLoad, Screen, Loading
<1>2. ASSUME NEW l \in Load, LoadRead(l) PROVE Goal
  <2>1. PICK r \in {NoListing, Collection} : load' = [load EXCEPT ![l].pc = "answered", ![l].result = r]
    BY <1>2 DEF LoadRead, Collection
  <2>2. page' = page
    BY <1>2 DEF LoadRead
  <2> QED
    BY <1>0, <2>1, <2>2 DEF Loading
<1>3. ASSUME NEW l \in Load, LoadShown(l) PROVE Goal
  BY <1>0, <1>3 DEF LoadShown, Screen, Loading
<1>4. ASSUME NEW p \in Page, Cancel(p) \/ (\E t \in Txn : ConfirmRemove(p, t))
             \/ (\E d \in Device : \E i \in 1..Len(page[p].shown.msgs[d]) : TapRemove(p, d, i))
      PROVE  Goal
  <2>1. load' = load /\ \E x : page' = [page EXCEPT ![p].dialog = x]
    BY <1>4 DEF Cancel, ConfirmRemove, TapRemove
  <2>2. \A q \in Page : page'[q].shown = page[q].shown
    BY <1>0, <2>1 DEF Screen
  <2> QED
    BY <2>1, <2>2
<1>5. ASSUME UNCHANGED <<page, load>> PROVE Goal
  BY <1>5
<1>6. ASSUME NEW t \in Txn, Step(t) PROVE UNCHANGED <<page, load>>
  BY <1>6 DEF Step, SendRead, SendReadFailed, RemoveRead, RemoveReadFailed, Commit, Answer, Disconnect
<1>8. ASSUME NEW t \in Txn, NEW l \in Load, Removed(t, l) PROVE Goal
  BY <1>0, <1>8 DEF Removed, StartLoad, Screen, Loading
<1> HIDE DEF Goal
<1>7. ASSUME NEW t \in Txn, NEW d \in Device, NEW m \in Msg, SendMessage(t, d, m) PROVE Goal
  BY <1>5, <1>7 DEF SendMessage
<1>9. ASSUME NEW l \in Load, Reload(l) PROVE Goal
  BY <1>2, <1>3, <1>9 DEF Reload
<1>10. ASSUME NEW l \in Load, NEW p \in Page, Refresh(l, p) PROVE Goal
  BY <1>1, <1>10 DEF Refresh
<1>11. Goal
  <2>1. ASSUME NEW p \in Page, Cancel(p) PROVE Goal
    BY <1>4, <2>1
  <2>2. ASSUME NEW p \in Page, NEW t \in Txn, ConfirmRemove(p, t) PROVE Goal
    BY <1>4, <2>2
  <2>3. ASSUME NEW p \in Page, NEW d \in Device, NEW i \in 1..Len(page[p].shown.msgs[d]), TapRemove(p, d, i)
        PROVE  Goal
    BY <1>4, <2>3
  <2>4. ASSUME NEW t \in Txn, Step(t) PROVE Goal
    BY <1>5, <1>6, <2>4
  <2>5. ASSUME UNCHANGED vars PROVE Goal
    BY <1>5, <2>5
  <2> QED
    BY <1>7, <1>8, <1>9, <1>10, <2>1, <2>2, <2>3, <2>4, <2>5 DEF Next
<1> QED
  BY <1>11 DEF Goal

(* A dialog is what it was, closed, or about a message the page shows.     *)
FromShown(x) ==
  \E p \in Page, d \in Device : \E i \in 1..Len(page[p].shown.msgs[d]) :
    x = [open |-> TRUE, device |-> d, index |-> i,
         msg |-> page[p].shown.msgs[d][i], seen |-> page[p].shown.seen[d]]

(* A dialog opens on what its page shows.                                  *)
LEMMA DialogSteps ==
  ASSUME TypeOK, [Next]_vars, NEW p \in Page
  PROVE  page'[p].dialog = page[p].dialog \/ ~page'[p].dialog.open \/ FromShown(page'[p].dialog)
<1> DEFINE Goal == page'[p].dialog = page[p].dialog \/ ~page'[p].dialog.open \/ FromShown(page'[p].dialog)
<1> USE DEF vars, firestore
<1>0. page \in [Page -> Screen]
  BY DEF TypeOK
<1>1. ASSUME NEW l \in Load, NEW q, StartLoad(l, q) PROVE Goal
  BY <1>0, <1>1 DEF StartLoad, Screen
<1>2. ASSUME NEW l \in Load, Reload(l) PROVE Goal
  BY <1>0, <1>2 DEF Reload, LoadRead, LoadShown, Screen
<1>3. ASSUME NEW q \in Page, Cancel(q) \/ (\E t \in Txn : ConfirmRemove(q, t)) PROVE Goal
  <2>1. page' = [page EXCEPT ![q].dialog = NoDialog]
    BY <1>3 DEF Cancel, ConfirmRemove
  <2>2. ~NoDialog.open
    BY DEF NoDialog
  <2>3. CASE p = q
    BY <1>0, <2>1, <2>2, <2>3 DEF Screen
  <2>4. CASE p # q
    BY <1>0, <2>1, <2>4
  <2> QED
    BY <2>3, <2>4
<1>4. ASSUME NEW q \in Page, NEW d \in Device, NEW i \in 1..Len(page[q].shown.msgs[d]), TapRemove(q, d, i)
      PROVE  Goal
  <2> DEFINE x == [open |-> TRUE, device |-> d, index |-> i,
                   msg |-> page[q].shown.msgs[d][i], seen |-> page[q].shown.seen[d]]
  <2>1. page' = [page EXCEPT ![q].dialog = x] /\ FromShown(x)
    BY <1>4 DEF TapRemove, FromShown
  <2> HIDE DEF x
  <2>2. p = q => page'[p].dialog = x
    BY <1>0, <2>1 DEF Screen
  <2>3. p # q => page'[p].dialog = page[p].dialog
    BY <1>0, <2>1
  <2> QED
    BY <2>1, <2>2, <2>3
<1>5. ASSUME page' = page PROVE Goal
  BY <1>5
<1>6. ASSUME NEW t \in Txn, NEW l \in Load, Removed(t, l) PROVE Goal
  BY <1>0, <1>6 DEF Removed, StartLoad, Screen
<1> HIDE DEF Goal
<1>7. ASSUME NEW t \in Txn, Step(t) PROVE Goal
  BY <1>5, <1>7 DEF Step, SendRead, SendReadFailed, RemoveRead, RemoveReadFailed, Commit, Answer, Disconnect
<1>8. ASSUME NEW l \in Load, NEW q \in Page, Refresh(l, q) PROVE Goal
  BY <1>1, <1>8 DEF Refresh
<1>9. ASSUME NEW t \in Txn, NEW d \in Device, NEW m \in Msg, SendMessage(t, d, m) PROVE Goal
  BY <1>5, <1>9 DEF SendMessage
<1>10. ASSUME UNCHANGED vars PROVE Goal
  BY <1>5, <1>10
<1>11. ASSUME NEW q \in Page, Cancel(q) PROVE Goal
  BY <1>3, <1>11
<1>12. ASSUME NEW q \in Page, NEW t \in Txn, ConfirmRemove(q, t) PROVE Goal
  BY <1>3, <1>12
<1>13. Goal
  BY <1>2, <1>4, <1>6, <1>7, <1>8, <1>9, <1>10, <1>11, <1>12 DEF Next
<1> QED
  BY <1>13 DEF Goal

(* A job keeps what it is about and its history, except for the removal
   under way when it is committed, and takes it from a dialog when it is
   confirmed.                                                              *)
SameAim(t) == SameJob(t) /\ job'[t].seen = job[t].seen /\ txn'[t].key = txn[t].key
SameHistory(t) == job'[t].removed = job[t].removed /\ job'[t].misled = job[t].misled
FromDialog(t) ==
  \E p \in Page :
    LET x == page[p].dialog
        j == job'[t]
    IN x.open /\ txn'[t].key = x.device /\ j.index = x.index /\ j.msg = x.msg /\ j.seen = x.seen

JobChange(t) ==
  \/ SameAim(t) /\ SameHistory(t)
  \/ SameAim(t) /\ Commit(t)
  \/ job[t] = NoJob /\ SameHistory(t) /\ (job'[t].kind = "send" \/ FromDialog(t))

(* Transactions keep their document.                                       *)
LEMMA KeyKept ==
  ASSUME TypeOK, NEW t \in Txn, Step(t)
  PROVE  \A u \in Txn : txn'[u].key = txn[u].key
<1>0. txn \in [Txn -> Transaction]
  BY DEF TypeOK
<1>1. \A u \in Txn : \A pc, left : Move(t, pc, left)[u].key = txn[u].key
  BY <1>0 DEF Move, Transaction
<1>2. \A u \in Txn : HandleError(t)[u].key = txn[u].key /\ \A pc : End(t, pc)[u].key = txn[u].key
  BY <1>1 DEF HandleError, Run, End
<1>3. CASE SendRead(t) \/ RemoveRead(t)
  BY <1>0, <1>3 DEF SendRead, RemoveRead, Read, Transaction
<1>4. CASE Commit(t)
  BY <1>0, <1>4 DEF Commit, Apply, Transaction
<1>5. CASE Refuse(t)
  BY <1>0, <1>5 DEF Refuse, Transaction
<1>6. CASE SendReadFailed(t) \/ RemoveReadFailed(t) \/ AnswerOk(t) \/ AnswerRefused(t) \/ AnswerDenied(t) \/ ConnectionLost(t)
  BY <1>1, <1>2, <1>6 DEF SendReadFailed, ReadSwallowed, RemoveReadFailed, ReadFailed, AnswerOk, AnswerRefused,
     AnswerDenied, ConnectionLost
<1> QED
  BY <1>3, <1>4, <1>5, <1>6 DEF Step, Answer, Disconnect

(* How a step may change a job.                                            *)
LEMMA JobSteps ==
  ASSUME TypeOK, IdleHasNoJob, [Next]_vars, NEW t \in Txn
  PROVE  JobChange(t)
<1> USE DEF vars, firestore
<1>0. txn \in [Txn -> Transaction] /\ job \in [Txn -> Job]
  BY DEF TypeOK
<1>1. ASSUME NEW u \in Txn, Step(u) PROVE JobChange(t)
  <2>1. txn'[t].key = txn[t].key
    BY <1>1, KeyKept
  <2>2. CASE Commit(u)
    <3>1. SameJob(t) /\ job'[t].seen = job[t].seen /\ (t # u => job'[t] = job[t])
      BY <2>2, CommitKeepsJobs
    <3>2. CASE t = u
      BY <2>1, <2>2, <3>1, <3>2 DEF JobChange, SameAim
    <3>3. CASE t # u
      BY <2>1, <3>1, <3>3 DEF JobChange, SameAim, SameHistory
    <3> QED
      BY <3>2, <3>3
  <2>3. CASE ~Commit(u)
    <3>1. \/ job' = job
          \/ job' = [job EXCEPT ![u].swallowed = TRUE]
          \/ job' = [job EXCEPT ![u].lost = TRUE]
      BY <1>1, <2>3 DEF Step, SendRead, SendReadFailed, RemoveRead, RemoveReadFailed, Answer, Disconnect
    <3>2. SameJob(t) /\ job'[t].seen = job[t].seen /\ SameHistory(t)
      BY <1>0, <3>1 DEF Job, SameJob, SameHistory
    <3> QED
      BY <2>1, <3>2 DEF JobChange, SameAim
  <2> QED
    BY <2>2, <2>3
<1>2. ASSUME UNCHANGED <<txn, job>> PROVE JobChange(t)
  BY <1>2 DEF JobChange, SameAim, SameJob, SameHistory
<1>3. ASSUME NEW u \in Txn, NEW l \in Load, Removed(u, l) PROVE JobChange(t)
  <2>1. txn' = txn /\ job' = [job EXCEPT ![u].reloaded = TRUE]
    BY <1>3 DEF Removed, StartLoad
  <2>2. SameJob(t) /\ job'[t].seen = job[t].seen /\ SameHistory(t)
    BY <1>0, <2>1 DEF Job, SameJob, SameHistory
  <2> QED
    BY <2>1, <2>2 DEF JobChange, SameAim
<1>4. ASSUME NEW u \in Txn, NEW d, Start(u, d), job'[t] = job[t], t # u PROVE JobChange(t)
  BY <1>0, <1>4 DEF Start, JobChange, SameAim, SameJob, SameHistory
<1>5. ASSUME NEW u \in Txn, NEW d \in Device, NEW m \in Msg, SendMessage(u, d, m) PROVE JobChange(t)
  <2>1. CASE t = u
    <3>1. job[t] = NoJob
      BY <1>5, <2>1 DEF SendMessage, Start, IdleHasNoJob
    <3>2. job'[t].kind = "send" /\ SameHistory(t)
      BY <1>0, <1>5, <2>1 DEF SendMessage, SameHistory, Job
    <3> QED
      BY <3>1, <3>2 DEF JobChange
  <2>2. CASE t # u
    <3>1. job'[t] = job[t]
      BY <1>0, <1>5, <2>2 DEF SendMessage
    <3> QED
      BY <1>4, <1>5, <2>2, <3>1 DEF SendMessage
  <2> QED
    BY <2>1, <2>2
<1>6. ASSUME NEW p \in Page, NEW u \in Txn, ConfirmRemove(p, u) PROVE JobChange(t)
  <2> DEFINE x == page[p].dialog
  <2>1. /\ x.open /\ txn[u].pc = "idle"
        /\ txn' = [txn EXCEPT ![u].pc = "read", ![u].key = x.device, ![u].left = MaxAttempts - 1]
        /\ job' = [job EXCEPT ![u].kind = "remove", ![u].msg = x.msg, ![u].index = x.index,
                              ![u].page = p, ![u].seen = x.seen]
    BY <1>6 DEF ConfirmRemove, Start
  <2> HIDE DEF x
  <2>2. CASE t = u
    <3>1. job[t] = NoJob
      BY <2>1, <2>2 DEF IdleHasNoJob
    <3>2. SameHistory(t)
      BY <1>0, <2>1, <2>2 DEF SameHistory, Job
    <3>3. txn'[t].key = x.device
      BY <1>0, <2>1, <2>2 DEF Transaction
    <3>4. job'[t].index = x.index /\ job'[t].msg = x.msg /\ job'[t].seen = x.seen
      BY <1>0, <2>1, <2>2 DEF Job
    <3>5. FromDialog(t)
      BY <2>1, <3>3, <3>4 DEF FromDialog, x
    <3> QED
      BY <3>1, <3>2, <3>5 DEF JobChange
  <2>3. CASE t # u
    <3>1. job'[t] = job[t] /\ txn'[t] = txn[t]
      BY <1>0, <2>1, <2>3
    <3> QED
      BY <3>1 DEF JobChange, SameAim, SameJob, SameHistory
  <2> QED
    BY <2>2, <2>3
<1>7. ASSUME NEW l \in Load, Reload(l) PROVE JobChange(t)
  BY <1>2, <1>7 DEF Reload, LoadRead, LoadShown
<1>8. ASSUME NEW l \in Load, NEW p \in Page, Refresh(l, p) PROVE JobChange(t)
  BY <1>2, <1>8 DEF Refresh, StartLoad
<1>9. ASSUME NEW p \in Page, Cancel(p) PROVE JobChange(t)
  BY <1>2, <1>9 DEF Cancel
<1>10. ASSUME NEW p \in Page, NEW d \in Device, NEW i \in 1..Len(page[p].shown.msgs[d]), TapRemove(p, d, i)
       PROVE  JobChange(t)
  BY <1>2, <1>10 DEF TapRemove
<1>11. ASSUME UNCHANGED vars PROVE JobChange(t)
  BY <1>2, <1>11
<1> QED
  BY <1>1, <1>3, <1>5, <1>6, <1>7, <1>8, <1>9, <1>10, <1>11 DEF Next

(* Idle transactions have no job.                                          *)
LEMMA IdleNext ==
  ASSUME TypeOK, TypeOK', IdleHasNoJob, AppliedOnce, [Next]_vars
  PROVE  IdleHasNoJob'
<1> SUFFICES ASSUME NEW t \in Txn, txn'[t].pc = "idle" PROVE job'[t] = NoJob
  BY DEF IdleHasNoJob
<1> USE DEF vars, firestore
<1>0. txn \in [Txn -> Transaction] /\ job \in [Txn -> Job]
  BY DEF TypeOK
<1>1. ASSUME txn'[t] = txn[t], job'[t] = job[t] PROVE job'[t] = NoJob
  BY <1>1 DEF IdleHasNoJob
<1>2. ASSUME NEW u \in Txn, Step(u) PROVE job'[t] = NoJob
  <2>1. CASE t # u
    BY <1>1, <1>2, <2>1, StepCounts DEF AppliedOnce, Counted
  <2>2. CASE t = u
    <3>1. CASE SendRead(t) \/ RemoveRead(t)
      BY <1>0, <3>1 DEF SendRead, RemoveRead, Read, Transaction
    <3>2. CASE Commit(t)
      BY <1>0, <3>2 DEF Commit, Apply, Transaction
    <3>3. CASE Refuse(t)
      BY <1>0, <3>3 DEF Refuse, Transaction
    <3>4. CASE SendReadFailed(t) \/ RemoveReadFailed(t) \/ AnswerOk(t) \/ AnswerRefused(t) \/ AnswerDenied(t)
               \/ ConnectionLost(t)
      BY <3>4, MoveReaches DEF SendReadFailed, ReadSwallowed, RemoveReadFailed, ReadFailed, AnswerOk, AnswerRefused,
         AnswerDenied, ConnectionLost
    <3> QED
      BY <1>2, <2>2, <3>1, <3>2, <3>3, <3>4 DEF Step, Answer, Disconnect
  <2> QED
    BY <2>1, <2>2
<1>3. ASSUME NEW u \in Txn, NEW d, Start(u, d), \A v \in Txn \ {u} : job'[v] = job[v] PROVE job'[t] = NoJob
  BY <1>0, <1>1, <1>3 DEF Start, Transaction
<1>4. ASSUME NEW u \in Txn, NEW d \in Device, NEW m \in Msg, SendMessage(u, d, m) PROVE job'[t] = NoJob
  BY <1>0, <1>3, <1>4 DEF SendMessage
<1>5. ASSUME NEW p \in Page, NEW u \in Txn, ConfirmRemove(p, u) PROVE job'[t] = NoJob
  BY <1>0, <1>5, <1>1 DEF ConfirmRemove, Start, Transaction
<1>6. ASSUME NEW u \in Txn, NEW l \in Load, Removed(u, l) PROVE job'[t] = NoJob
  BY <1>0, <1>1, <1>6 DEF Removed, StartLoad
<1>7. ASSUME UNCHANGED <<txn, job>> PROVE job'[t] = NoJob
  BY <1>1, <1>7
<1> QED
  BY <1>2, <1>4, <1>5, <1>6, <1>7 DEF Next, Refresh, StartLoad, Reload, LoadRead, LoadShown, TapRemove, Cancel

(* Every step keeps the lists.                                             *)
LEMMA ListsNext == RemovalInv /\ TypeOK' /\ [Next]_vars => ListsStand'
<1> SUFFICES ASSUME RemovalInv, TypeOK', [Next]_vars PROVE ListsStand'
  OBVIOUS
<1>0. StorageInv /\ TypeOK
  BY DEF RemovalInv, StorageInv
<1>1. ASSUME NEW x \in Listing, NEW d \in Device, Stands(d, x.msgs[d], x.seen[d])
      PROVE  StandsNext(d, x.msgs[d], x.seen[d])
  BY <1>0, <1>1, StandsOn DEF Listing
<1>2. \A p \in Page : page[p].shown \in Listing
  BY <1>0 DEF TypeOK, Screen
<1>3. \A l \in Load : load[l].result \in Listing
  BY <1>0 DEF TypeOK, Loading
<1>4. ASSUME NEW p \in Page, NEW d \in Device PROVE StandsNext(d, page[p].shown.msgs[d], page[p].shown.seen[d])
  BY <1>1, <1>2 DEF RemovalInv, ListsStand
<1>5. ASSUME NEW l \in Load, NEW d \in Device PROVE StandsNext(d, load[l].result.msgs[d], load[l].result.seen[d])
  BY <1>1, <1>3 DEF RemovalInv, ListsStand
<1>6. ASSUME NEW d \in Device
      PROVE  /\ StandsNext(d, NoListing.msgs[d], NoListing.seen[d])
             /\ StandsNext(d, Collection.msgs[d], Collection.seen[d])
  <2>1. removals[d] \in Nat /\ doc[d].data.msgs \in Seq(Msg) /\ Len(doc[d].data.msgs) \in Nat
    BY <1>0, MailOfDocument, LenProperties DEF TypeOK
  <2>2. Stands(d, <<>>, 0) /\ Stands(d, <<>>, removals[d])
    BY <2>1, EmptySeq DEF Stands, Begins
  <2>3. Stands(d, doc[d].data.msgs, removals[d])
    BY <2>1 DEF Stands, Begins
  <2>4. /\ NoListing.msgs[d] = <<>> /\ NoListing.seen[d] = 0
        /\ Collection.msgs[d] = (IF Exists(d) THEN doc[d].data.msgs ELSE <<>>)
        /\ Collection.seen[d] = removals[d]
    BY DEF NoListing, Collection
  <2>5. NoListing \in Listing /\ Collection \in Listing
    BY <1>0, DefaultTypes, EmptySeq DEF Listing, Collection, TypeOK, Document, Mail
  <2> QED
    BY <1>1, <2>2, <2>3, <2>4, <2>5
<1>7. ASSUME NEW p \in Page, NEW d \in Device PROVE StandsNext(d, page'[p].shown.msgs[d], page'[p].shown.seen[d])
  BY <1>0, <1>4, <1>5, ListingSteps
<1>8. ASSUME NEW l \in Load, NEW d \in Device PROVE StandsNext(d, load'[l].result.msgs[d], load'[l].result.seen[d])
  BY <1>0, <1>5, <1>6, ListingSteps
<1> QED
  BY <1>7, <1>8 DEF ListsStand, Stands, StandsNext, Begins

(* Every step keeps the indexes.                                           *)
LEMMA IndexesNext == RemovalInv /\ TypeOK' /\ [Next]_vars => IndexesStand'
<1> SUFFICES ASSUME RemovalInv, TypeOK', [Next]_vars PROVE IndexesStand'
  OBVIOUS
<1>0. StorageInv /\ TypeOK
  BY DEF RemovalInv, StorageInv
<1>1. ASSUME NEW p \in Page, page[p].dialog.open
      PROVE  LET x == page[p].dialog IN PointsNext(x.device, x.index, x.msg, x.seen)
  <2> DEFINE x == page[p].dialog
  <2>1. x.device \in Device /\ x.index \in Nat \ {0} /\ x.seen \in Nat
    BY <1>0 DEF TypeOK, Screen, Dialog
  <2>2. PointsAt(x.device, x.index, x.msg, x.seen)
    BY <1>1 DEF RemovalInv, IndexesStand
  <2> QED
    BY <1>0, <2>1, <2>2, PointsOn
<1>2. ASSUME NEW t \in Txn, job[t].kind = "remove"
      PROVE  PointsNext(txn[t].key, job[t].index, job[t].msg, job[t].seen)
  <2>1. txn[t].key \in Device /\ job[t].index \in Nat \ {0} /\ job[t].seen \in Nat
    BY <1>0 DEF TypeOK, Transaction, Job
  <2>2. PointsAt(txn[t].key, job[t].index, job[t].msg, job[t].seen)
    BY <1>2 DEF RemovalInv, IndexesStand
  <2> QED
    BY <1>0, <2>1, <2>2, PointsOn
<1>3. ASSUME NEW x, FromShown(x) PROVE PointsNext(x.device, x.index, x.msg, x.seen)
  <2>1. PICK p \in Page, d \in Device : \E i \in 1..Len(page[p].shown.msgs[d]) :
          x = [open |-> TRUE, device |-> d, index |-> i,
               msg |-> page[p].shown.msgs[d][i], seen |-> page[p].shown.seen[d]]
    BY <1>3 DEF FromShown
  <2> DEFINE s == page[p].shown.msgs[d]
             n == page[p].shown.seen[d]
  <2>2. PICK i \in 1..Len(s) : x = [open |-> TRUE, device |-> d, index |-> i, msg |-> s[i], seen |-> n]
    BY <2>1
  <2>3. s \in Seq(Msg) /\ n \in Nat /\ Len(s) \in Nat /\ Len(doc[d].data.msgs) \in Nat
    BY <1>0, MailOfDocument, LenProperties DEF TypeOK, Screen, Listing
  <2>4. Stands(d, s, n)
    BY DEF RemovalInv, ListsStand
  <2>5. PointsAt(d, i, s[i], n)
    BY <2>3, <2>4 DEF Stands, Begins, PointsAt
  <2>6. PointsNext(d, i, s[i], n)
    BY <1>0, <2>3, <2>5, PointsOn
  <2>7. x.device = d /\ x.index = i /\ x.msg = s[i] /\ x.seen = n
    BY <2>2
  <2> HIDE DEF s, n
  <2> QED
    BY <2>6, <2>7
<1>4. ASSUME NEW p \in Page, page'[p].dialog.open
      PROVE  LET x == page'[p].dialog IN PointsNext(x.device, x.index, x.msg, x.seen)
  <2>1. page'[p].dialog = page[p].dialog \/ FromShown(page'[p].dialog)
    BY <1>0, <1>4, DialogSteps
  <2>2. CASE page'[p].dialog = page[p].dialog
    BY <1>1, <1>4, <2>2
  <2>3. CASE FromShown(page'[p].dialog)
    BY <1>3, <2>3
  <2> QED
    BY <2>1, <2>2, <2>3
<1>5. ASSUME NEW t \in Txn, job'[t].kind = "remove"
      PROVE  PointsNext(txn'[t].key, job'[t].index, job'[t].msg, job'[t].seen)
  <2>1. SameAim(t) \/ FromDialog(t)
    BY <1>0, <1>5, JobSteps DEF JobChange, RemovalInv
  <2>2. CASE SameAim(t)
    BY <1>2, <1>5, <2>2 DEF SameAim, SameJob
  <2>3. CASE FromDialog(t)
    BY <1>1, <2>3 DEF FromDialog
  <2> QED
    BY <2>1, <2>2, <2>3
<1> QED
  BY <1>4, <1>5 DEF IndexesStand, PointsAt, PointsNext

(* Every step removes only what was confirmed.                             *)
LEMMA ConfirmedNext == RemovalInv /\ [Next]_vars => RemovesConfirmedMessage'
<1> SUFFICES ASSUME RemovalInv, [Next]_vars, NEW t \in Txn, ~job'[t].misled
             PROVE  job'[t].removed \subseteq {job'[t].msg}
  BY DEF RemovesConfirmedMessage
<1>0. StorageInv /\ TypeOK /\ IdleHasNoJob
  BY DEF RemovalInv, StorageInv
<1>1. CASE SameAim(t) /\ SameHistory(t)
  BY <1>1 DEF SameAim, SameJob, SameHistory, RemovalInv, RemovesConfirmedMessage
<1>2. CASE job[t] = NoJob /\ SameHistory(t)
  <2>1. job'[t].removed = {}
    BY <1>2 DEF SameHistory, NoJob
  <2> QED
    BY <2>1
<1>3. CASE SameAim(t) /\ Commit(t)
  <2> DEFINE d == txn[t].key
             before == doc[d].data.msgs
             hit == job[t].kind = "remove" /\ Exists(d) /\ job[t].index <= Len(before)
  <2>1. /\ job'[t].misled = (job[t].misled \/ removals[d] # job[t].seen)
        /\ job'[t].removed = IF hit THEN job[t].removed \cup {before[job[t].index]} ELSE job[t].removed
    <3> DEFINE misled == job[t].misled \/ removals[d] # job[t].seen
               removed == IF hit THEN job[t].removed \cup {before[job[t].index]} ELSE job[t].removed
    <3>1. job' = [job EXCEPT ![t].applied = IF txn[t].write = NoWrite THEN @ ELSE @ + 1, ![t].removed = removed, ![t].misled = misled]
      BY <1>3 DEF Commit
    <3> HIDE DEF misled, removed
    <3>2. job'[t].misled = misled /\ job'[t].removed = removed
      BY <1>0, <3>1 DEF TypeOK, Job
    <3> QED
      BY <3>2 DEF misled, removed
  <2>2. ~job[t].misled /\ removals[d] = job[t].seen
    BY <1>0, <2>1 DEF TypeOK, Job
  <2>3. job[t].removed \subseteq {job[t].msg}
    BY <2>2 DEF RemovalInv, RemovesConfirmedMessage
  <2>4. hit => before[job[t].index] = job[t].msg
    BY <2>2 DEF RemovalInv, IndexesStand, PointsAt
  <2>5. job'[t].msg = job[t].msg
    BY <1>3 DEF SameAim, SameJob
  <2> HIDE DEF hit, before
  <2> QED
    BY <2>1, <2>3, <2>4, <2>5
<1> QED
  BY <1>0, <1>1, <1>2, <1>3, JobSteps DEF JobChange

(* Every step keeps RemovalInv.                                            *)
LEMMA RemovalNext == RemovalInv /\ [Next]_vars => RemovalInv'
<1> SUFFICES ASSUME RemovalInv, [Next]_vars PROVE RemovalInv'
  OBVIOUS
<1>1. StorageInv' /\ TypeOK'
  BY StorageNext DEF RemovalInv, StorageInv
<1>2. AppliedOnce'
  BY CountNext DEF RemovalInv, StorageInv
<1>3. IdleHasNoJob'
  BY <1>1, IdleNext DEF RemovalInv, StorageInv
<1> QED
  BY <1>1, <1>2, <1>3, ListsNext, IndexesNext, ConfirmedNext DEF RemovalInv

(* The initial states satisfy RemovalInv.                                  *)
LEMMA RemovalInit == Init => RemovalInv
<1> SUFFICES ASSUME Init PROVE RemovalInv
  OBVIOUS
<1>1. StorageInv
  BY StorageInit
<1>2. IdleHasNoJob /\ AppliedOnce /\ RemovesConfirmedMessage
  BY DEF Init, IdleHasNoJob, AppliedOnce, Counted, RemovesConfirmedMessage, Idle, NoJob
<1>3. \A d \in Device : Stands(d, <<>>, 0)
  <2>1. \A d \in Device : removals[d] = 0 /\ Len(doc[d].data.msgs) \in Nat
    BY <1>1, MailOfDocument, LenProperties DEF Init, StorageInv
  <2> QED
    BY <2>1, EmptySeq DEF Stands, Begins
<1>4. ListsStand
  BY <1>3 DEF Init, ListsStand, NoListing
<1>5. IndexesStand
  BY DEF Init, IndexesStand, NoDialog, NoJob
<1> QED
  BY <1>1, <1>2, <1>4, <1>5 DEF RemovalInv

(* An administrator's removal takes away the message the dialog showed, as
   long as no other removal was applied since the page read its list: sends
   in between do not move it.                                              *)
THEOREM RemovesTheConfirmed == Spec => []RemovesConfirmedMessage
<1>1. RemovalInv => RemovesConfirmedMessage
  BY DEF RemovalInv
<1> QED
  BY <1>1, RemovalInit, RemovalNext, PTL DEF Spec
=============================================================================
