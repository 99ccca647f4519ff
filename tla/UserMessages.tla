----------------------------- MODULE UserMessages -----------------------------
(***************************************************************************)
(* The messages users send to the administrators: Repository's             *)
(* sendUserMessage, getUserMessages and removeUserMessage on the Firestore *)
(* collection userMessages, one document per device, and the page on which *)
(* administrators read and remove messages (pages/user_messages_page.dart).*)
(*                                                                         *)
(* A document holds two parallel lists, the messages and their links.  An  *)
(* administrator removes a message by the INDEX it has in the list the     *)
(* page shows, which other removals may have changed meanwhile.            *)
(***************************************************************************)
EXTENDS FirestoreTransactions, Sequences

CONSTANTS
  Msg,      \* the messages; the link of a message goes by its name
  Page,     \* the open pages of the administrators
  Load,     \* the loads of the pages
  Before    \* what the documents may hold at the start

ASSUME MessagesAssumption ==
  /\ Key # {} /\ Msg # {} /\ Page # {}
  /\ Before \subseteq Seq(Msg)
  /\ Load \subseteq Nat
  /\ NoData = [msgs |-> <<>>, links |-> <<>>]

Device == Key

VARIABLES
  job,       \* what the app runs each transaction for
  page,      \* the pages: what is shown, the spinner, an open dialog
  load,      \* getUserMessages under way
  removals   \* history: messages removed from each device so far

vars == <<firestore, job, page, load, removals>>

-----------------------------------------------------------------------------
Mail == [msgs : Seq(Msg), links : Seq(Msg)]
MailOf(msgs, links) == [msgs |-> msgs, links |-> links]
Write == [kind : {"put", "delete", "verify", "nothing"}, data : Mail]
Document == [version : Nat, data : Mail]
Transaction == [pc : Phase, key : Device, left : Nat, pre : Int, write : Write]

(* A transaction of the app.  seen: how many messages had been removed from
   the device when the list was read on which the index was taken.  The
   other fields are history: how often the server applied a write of it,
   what it removed, whether the list had lost a message since (misled), whether an
   answer was lost or a failed read swallowed.                             *)
Job == [kind : {"none", "send", "remove"}, msg : Msg, index : Nat \ {0}, page : Page,
        seen : Nat, reloaded : BOOLEAN, applied : Nat, removed : SUBSET Msg,
        misled : BOOLEAN, lost : BOOLEAN, swallowed : BOOLEAN]
NoJob == [kind |-> "none", msg |-> CHOOSE m \in Msg : TRUE, index |-> 1,
          page |-> CHOOSE p \in Page : TRUE, seen |-> 0, reloaded |-> FALSE,
          applied |-> 0, removed |-> {}, misled |-> FALSE, lost |-> FALSE, swallowed |-> FALSE]

Listing == [msgs : [Device -> Seq(Msg)], seen : [Device -> Nat]]
NoListing == [msgs |-> [d \in Device |-> <<>>], seen |-> [d \in Device |-> 0]]
Dialog == [open : BOOLEAN, device : Device, index : Nat \ {0}, msg : Msg, seen : Nat]
NoDialog == [open |-> FALSE, device |-> CHOOSE d \in Device : TRUE, index |-> 1,
             msg |-> CHOOSE m \in Msg : TRUE, seen |-> 0]
Screen == [shown : Listing, loading : BOOLEAN, dialog : Dialog]
Loading == [pc : {"idle", "asked", "answered", "done"}, page : Page, result : Listing]

Idle == [pc |-> "idle", key |-> CHOOSE d \in Device : TRUE, left |-> 0,
         pre |-> NoPrecondition, write |-> NoWrite]

Stored(s) == [version |-> IF s = <<>> THEN NoDocument ELSE 1,
              data |-> MailOf(s, s)]

Init ==
  /\ doc \in [Device -> {Stored(s) : s \in Before}]
  /\ clock = 1
  /\ txn = [t \in Txn |-> Idle]
  /\ job = [t \in Txn |-> NoJob]
  /\ page = [p \in Page |-> [shown |-> NoListing, loading |-> FALSE, dialog |-> NoDialog]]
  /\ load = [l \in Load |-> [pc |-> "idle", page |-> CHOOSE p \in Page : TRUE, result |-> NoListing]]
  /\ removals = [d \in Device |-> 0]

(* Transactions and loads are numbered: the next one is the first unused.  *)
FirstIdle(t) == txn[t].pc = "idle" /\ \A u \in Txn : u < t => txn[u].pc # "idle"
FirstLoad(l) == load[l].pc = "idle" /\ \A k \in Load : k < l => load[k].pc # "idle"
Sent(m) == \/ \E t \in Txn : job[t].kind = "send" /\ job[t].msg = m
           \/ \E s \in Before : \E i \in 1..Len(s) : s[i] = m

-----------------------------------------------------------------------------
(* The handlers.                                                           *)

WithoutAt(s, i) == IF i <= Len(s) THEN SubSeq(s, 1, i - 1) \o SubSeq(s, i + 1, Len(s)) ELSE s

(* sendUserMessage: both lists grow at their end, or are created.
   Mutant: the newest message comes first.                                 *)
SendWriteFirst(t) ==
  LET mail == IF Exists(txn[t].key) THEN doc[txn[t].key].data ELSE NoData
  IN Put(MailOf(<<job[t].msg>> \o mail.msgs, <<job[t].msg>> \o mail.links))
SendWrite(t) ==
  LET mail == IF Exists(txn[t].key) THEN doc[txn[t].key].data ELSE NoData
  IN Put(MailOf(Append(mail.msgs, job[t].msg), Append(mail.links, job[t].msg)))

(* removeUserMessage: the index is taken out of both lists, each if it is
   long enough; a document without messages is deleted.
   Mutants: the links are forgotten; the empty document is kept.           *)
RemoveWriteUnlinked(t) ==
  LET mail == doc[txn[t].key].data
      msgs == WithoutAt(mail.msgs, job[t].index)
  IN IF ~Exists(txn[t].key) THEN Verify
     ELSE IF msgs = <<>> THEN Delete
     ELSE Put(MailOf(msgs, mail.links))
RemoveWriteEmpty(t) ==
  LET mail == doc[txn[t].key].data IN
  IF ~Exists(txn[t].key) THEN Verify
  ELSE Put(MailOf(WithoutAt(mail.msgs, job[t].index), WithoutAt(mail.links, job[t].index)))
RemoveWrite(t) ==
  LET mail == doc[txn[t].key].data
      msgs == WithoutAt(mail.msgs, job[t].index)
  IN IF ~Exists(txn[t].key) THEN Verify
     ELSE IF msgs = <<>> THEN Delete
     ELSE Put(MailOf(msgs, WithoutAt(mail.links, job[t].index)))

(* A user sends.  The popup says "sent" at once and never learns more.     *)
SendMessage(t, d, m) ==
  /\ FirstIdle(t) /\ ~Sent(m)
  /\ Start(t, d)
  /\ job' = [job EXCEPT ![t].kind = "send", ![t].msg = m]
  /\ UNCHANGED <<page, load, removals>>

SendRead(t) ==
  /\ job[t].kind = "send"
  /\ Read(t, SendWrite(t))
  /\ UNCHANGED <<job, page, load, removals>>

(* The handler catches what transaction.get throws.                        *)
SendReadFailed(t) ==
  /\ job[t].kind = "send"
  /\ ReadSwallowed(t)
  /\ job' = [job EXCEPT ![t].swallowed = TRUE]
  /\ UNCHANGED <<page, load, removals>>

RemoveRead(t) ==
  /\ job[t].kind = "remove"
  /\ Read(t, RemoveWrite(t))
  /\ UNCHANGED <<job, page, load, removals>>

RemoveReadFailed(t) ==
  /\ job[t].kind = "remove"
  /\ ReadFailed(t)
  /\ UNCHANGED <<job, page, load, removals>>

(* The server applies a commit; the histories of what it did to the list.  *)
Commit(t) ==
  LET d == txn[t].key
      before == doc[d].data.msgs
      hit == job[t].kind = "remove" /\ Exists(d) /\ job[t].index <= Len(before)
  IN /\ Apply(t)
     /\ job' = [job EXCEPT ![t].applied = IF txn[t].write = NoWrite THEN @ ELSE @ + 1,
                           ![t].removed = IF hit THEN @ \cup {before[job[t].index]} ELSE @,
                           ![t].misled = @ \/ removals[d] # job[t].seen]
     /\ removals' = [removals EXCEPT ![d] = IF hit THEN @ + 1 ELSE @]
     /\ UNCHANGED <<page, load>>

Answer(t) ==
  /\ Refuse(t) \/ AnswerOk(t) \/ AnswerRefused(t) \/ AnswerDenied(t)
  /\ UNCHANGED <<job, page, load, removals>>

Disconnect(t) ==
  /\ ConnectionLost(t)
  /\ job' = [job EXCEPT ![t].lost = TRUE]
  /\ UNCHANGED <<page, load, removals>>

-----------------------------------------------------------------------------
(* The page.                                                               *)

(* _loadMessages: the spinner, then getUserMessages.                       *)
StartLoad(l, p) ==
  /\ FirstLoad(l)
  /\ load' = [load EXCEPT ![l].pc = "asked", ![l].page = p]
  /\ page' = [page EXCEPT ![p].loading = TRUE]
  /\ UNCHANGED <<firestore, removals>>

(* The page is opened, or its refresh button pressed.                      *)
Refresh(l, p) == StartLoad(l, p) /\ UNCHANGED job

(* getUserMessages reads the collection, or fails and answers nothing.     *)
LoadRead(l) ==
  /\ load[l].pc = "asked"
  /\ \E result \in {NoListing,
                    [msgs |-> [d \in Device |-> IF Exists(d) THEN doc[d].data.msgs ELSE <<>>],
                     seen |-> removals]} :
       load' = [load EXCEPT ![l].pc = "answered", ![l].result = result]
  /\ UNCHANGED <<firestore, job, page, removals>>

(* setState with the answer, also where a later load has been shown.       *)
LoadShown(l) ==
  /\ load[l].pc = "answered"
  /\ page' = [page EXCEPT ![load[l].page].shown = load[l].result, ![load[l].page].loading = FALSE]
  /\ load' = [load EXCEPT ![l].pc = "done", ![l].result = NoListing]
  /\ UNCHANGED <<firestore, job, removals>>

(* The bin beside a message opens the dialog, which holds device and index
   while the list behind it may be loaded anew.                            *)
TapRemove(p, d, i) ==
  /\ ~page[p].loading /\ ~page[p].dialog.open
  /\ i \in 1..Len(page[p].shown.msgs[d])
  /\ page' = [page EXCEPT ![p].dialog =
                [open |-> TRUE, device |-> d, index |-> i,
                 msg |-> page[p].shown.msgs[d][i], seen |-> page[p].shown.seen[d]]]
  /\ UNCHANGED <<firestore, job, load, removals>>

Cancel(p) ==
  /\ page[p].dialog.open
  /\ page' = [page EXCEPT ![p].dialog = NoDialog]
  /\ UNCHANGED <<firestore, job, load, removals>>

ConfirmRemove(p, t) ==
  LET dialog == page[p].dialog IN
  /\ dialog.open /\ FirstIdle(t)
  /\ Start(t, dialog.device)
  /\ job' = [job EXCEPT ![t].kind = "remove", ![t].msg = dialog.msg, ![t].index = dialog.index,
                        ![t].page = p, ![t].seen = dialog.seen]
  /\ page' = [page EXCEPT ![p].dialog = NoDialog]
  /\ UNCHANGED <<load, removals>>

(* removeUserMessage catches its errors: the page loads anew either way.   *)
Removed(t, l) ==
  /\ job[t].kind = "remove" /\ txn[t].pc \in {"ok", "failed"} /\ ~job[t].reloaded
  /\ StartLoad(l, job[t].page)
  /\ job' = [job EXCEPT ![t].reloaded = TRUE]

-----------------------------------------------------------------------------
Step(t) ==
  \/ SendRead(t) \/ SendReadFailed(t) \/ RemoveRead(t) \/ RemoveReadFailed(t)
  \/ Commit(t) \/ Answer(t) \/ Disconnect(t)

Reload(l) == LoadRead(l) \/ LoadShown(l)

Next ==
  \/ \E t \in Txn : Step(t)
  \/ \E t \in Txn, d \in Device, m \in Msg : SendMessage(t, d, m)
  \/ \E t \in Txn, p \in Page : ConfirmRemove(p, t)
  \/ \E t \in Txn, l \in Load : Removed(t, l)
  \/ \E l \in Load : Reload(l) \/ \E p \in Page : Refresh(l, p)
  \/ \E p \in Page : Cancel(p) \/ \E d \in Device : \E i \in 1..Len(page[p].shown.msgs[d]) : TapRemove(p, d, i)

(* Firestore answers every call, with success or an error.                 *)
Fairness == \A t \in Txn : WF_vars(Step(t))

Spec == Init /\ [][Next]_vars
FairSpec == Spec /\ Fairness

-----------------------------------------------------------------------------
(* Types of the variables.                                                 *)
TypeOK ==
  /\ doc \in [Device -> Document]
  /\ clock \in Nat
  /\ txn \in [Txn -> Transaction]
  /\ job \in [Txn -> Job]
  /\ page \in [Page -> Screen]
  /\ load \in [Load -> Loading]
  /\ removals \in [Device -> Nat]

(* "Remove the message and corresponding link": however sends, removals and
   retries interleave, the link beside a message is its own.               *)
LinksFollowMessages == \A d \in Device : doc[d].data.links = doc[d].data.msgs

(* "If no messages left, delete the document": a document that exists holds
   a message, also when its last one is removed while another is sent.     *)
NoEmptyDocument == \A d \in Device : Exists(d) <=> doc[d].data.msgs # <<>>

(* A transaction that reports success was applied exactly once and one that
   reports failure was not, unless an answer was lost on the way, after
   which the retry may apply the write again, or the handler of a send
   swallowed a failed read, after which it commits nothing.                *)
AnswersAreTrue ==
  \A t \in Txn :
    ~job[t].lost /\ ~job[t].swallowed =>
      /\ txn[t].pc = "ok" => job[t].applied = 1
      /\ txn[t].pc \in {"refused", "failed"} => job[t].applied = 0

(* As long as no other removal changed the list since the page read it, a
   removal takes away the message the administrator confirmed: sends in
   between only append.                                                    *)
RemovesConfirmedMessage ==
  \A t \in Txn : ~job[t].misled => job[t].removed \subseteq {job[t].msg}

(* "Remove a specific message from a device's messages list", says the
   comment of removeUserMessage, of the message the dialog asked about.    *)
RemovesSpecificMessage ==
  \A t \in Txn : ~job[t].lost => job[t].removed \subseteq {job[t].msg}

(* Each step of a transaction, a retry too, uses up some of the steps it may
   still take: HandleError and Run count on every way back to the read.    *)
StepsLeft(t) ==
  3 * txn[t].left + CASE txn[t].pc = "read" -> 3 [] txn[t].pc = "commit" -> 2
                      [] txn[t].pc \in {"applied", "refused"} -> 1 [] OTHER -> 0
StepsRunOut ==
  [][\A t \in Txn : txn[t].pc \in Running /\ txn'[t] # txn[t] => StepsLeft(t)' \in 0..(StepsLeft(t) - 1)]_vars

(* Every transaction ends: its attempts are counted.                       *)
TransactionsEnd == \A t \in Txn : txn[t].pc \in Running ~> txn[t].pc \in {"ok", "failed"}

(* The messages of the devices are lists that sends and removals change
   atomically: optimistic transactions, refusals and retries never lose or
   restore a message.                                                      *)
Messages == INSTANCE Inbox WITH inbox <- [d \in Device |-> doc[d].data.msgs]
ImplementsInbox == Messages!Spec
=============================================================================
