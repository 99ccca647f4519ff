-------------------------------- MODULE Inbox --------------------------------
(***************************************************************************)
(* What the storage of user messages promises: every device has a list of  *)
(* messages, a message a user sends goes to its end, an administrator      *)
(* removes one message, and nothing else ever changes a list.              *)
(***************************************************************************)
EXTENDS Naturals, Sequences

CONSTANTS Device, Msg

VARIABLE inbox

Init == inbox \in [Device -> Seq(Msg)]

Without(s, i) == SubSeq(s, 1, i - 1) \o SubSeq(s, i + 1, Len(s))

Send(d, m) == inbox' = [inbox EXCEPT ![d] = Append(@, m)]
Remove(d, i) == inbox' = [inbox EXCEPT ![d] = Without(@, i)]

Next ==
  \E d \in Device :
    \/ \E m \in Msg : Send(d, m)
    \/ \E i \in 1..Len(inbox[d]) : Remove(d, i)

Spec == Init /\ [][Next]_inbox
=============================================================================
