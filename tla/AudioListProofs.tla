---------------------------- MODULE AudioListProofs ----------------------------
(***************************************************************************)
(* Proofs about AudioList: its types, that the player plays what the list  *)
(* shows, and that no part of a file is taken for the whole audio.         *)
(***************************************************************************)
EXTENDS AudioList, TLAPS

Handler == [pc : {"idle", "stopping", "checking", "asked", "receiving", "overtaken", "preparing", "sharing"},
            kind : {"none", "tap", "play", "list", "stop", "share"},
            item : Item \cup {Nobody}, index : Nat]

(* A handler in use is a stop, or is about an item; a tap keeps its place.  *)
HandlerOK(h) ==
  \/ h.pc = "idle"
  \/ h.kind = "stop" /\ h.pc = "stopping" /\ h.item = Nobody
  \/ /\ h.item \in Item /\ h.kind \in {"tap", "play", "list", "share"}
     /\ h.kind = "tap" => h.pc = "stopping" /\ h.index \in Nat \ {0}

Typed == TypeOK /\ \A c \in Call : HandlerOK(call[c])

(* An index of the list stands for an audio.                               *)
LEMMA OrderItem ==
  ASSUME Typed, NEW n \in 1..Len(order)
  PROVE  /\ order[n] \in Item /\ n \in Nat \ {0}
         /\ order[n] # Nobody
<1>1. order \in Seq(Item)
  BY AudioAssumption DEF Typed, TypeOK
<1> QED BY <1>1, AudioAssumption

(* Step of one handler: the others stay.                                   *)
LEMMA TypedCall ==
  ASSUME Typed, NEW c \in Call, NEW h \in Handler, HandlerOK(h),
         call' = [call EXCEPT ![c] = h]
  PROVE  call' \in [Call -> Handler] /\ \A d \in Call : HandlerOK(call'[d])
<1>1. call \in [Call -> Handler]
  BY DEF Typed, TypeOK, Handler
<1>2. \A d \in Call : call'[d] = IF d = c THEN h ELSE call[d]
  BY <1>1
<1>3. call' \in [Call -> Handler]
  BY <1>1
<1>4. ASSUME NEW d \in Call PROVE HandlerOK(call'[d])
  <2>1. CASE d = c
    BY <2>1, <1>2
  <2>2. CASE d # c
    BY <2>2, <1>2 DEF Typed
  <2> QED BY <2>1, <2>2
<1> QED BY <1>3, <1>4

(* The initial states have the types.                                      *)
LEMMA InitTyped == Init => Typed
<1> SUFFICES ASSUME Init PROVE Typed
  OBVIOUS
<1>1. Quiet \in Handler /\ HandlerOK(Quiet)
  BY DEF Quiet, Handler, HandlerOK
<1>2. \A c \in Call : call[c] = Quiet
  BY DEF Init
<1>3. \A c \in Call : HandlerOK(call[c])
  BY <1>1, <1>2
<1>4. call \in [Call -> Handler]
  BY <1>1 DEF Init
<1>5. file \in [Item -> {"none", "part", "whole"}]
  BY DEF Init
<1>6. player \in [source : Item \cup {Nobody}, desired : BOOLEAN, on : BOOLEAN, late : BOOLEAN]
  BY DEF Init, Silent
<1> QED BY <1>3, <1>4, <1>5, <1>6 DEF Init, Typed, TypeOK, Handler, Nothing

Player == [source : Item \cup {Nobody}, desired : BOOLEAN, on : BOOLEAN, late : BOOLEAN]

(* What a player may be after it is asked to play, to stop, or is ready.   *)
LEMMA PlayerTyped ==
  ASSUME Typed,
         \/ \E i \in Item : Play(i)
         \/ StopReturns
         \/ player' = Halted
         \/ player' = Silent
         \/ player' = [player EXCEPT !.on = @ \/ player.desired]
         \/ UNCHANGED player
  PROVE  player' \in Player
<1>1. player \in Player
  BY DEF Typed, TypeOK, Player
<1>2. Silent \in Player /\ Halted \in Player
  BY DEF Silent, Halted, Player
<1>3. CASE \E i \in Item : Play(i)
  <2>1. PICK i \in Item, on \in {FALSE, player.on} :
          player' = [source |-> i, desired |-> TRUE, on |-> on,
                     late |-> shown.item # i \/ ended \/ \E d \in Call : call[d].pc = "stopping"]
    BY <1>3 DEF Play
  <2>2. on \in BOOLEAN
    BY <2>1, <1>1 DEF Player
  <2>3. (shown.item # i \/ ended \/ \E d \in Call : call[d].pc = "stopping") \in BOOLEAN
    BY DEF Typed, TypeOK
  <2> QED BY <2>1, <2>2, <2>3 DEF Player
<1>4. CASE StopReturns
  BY <1>1, <1>2, <1>4 DEF StopReturns, Player
<1>5. CASE player' = [player EXCEPT !.on = @ \/ player.desired]
  <2>1. (player.on \/ player.desired) \in BOOLEAN
    BY <1>1 DEF Player
  <2> QED BY <1>1, <1>5, <2>1 DEF Player
<1> QED BY <1>1, <1>2, <1>3, <1>4, <1>5

(* A handler at rest is well-formed.                                       *)
LEMMA QuietOK == Quiet \in Handler /\ HandlerOK(Quiet)
BY DEF Quiet, Handler, HandlerOK

(* Types of what is not the player or a handler.                           *)
Rest ==
  /\ order \in Orders
  /\ autoPlay \in BOOLEAN /\ mounted \in BOOLEAN
  /\ downloading \in BOOLEAN /\ ended \in BOOLEAN
  /\ shown \in {Nothing} \cup [item : Item, index : Nat \ {0}]
  /\ file \in [Item -> {"none", "part", "whole"}]
  /\ hurt \subseteq Item

(* The conjuncts of Typed, by themselves.                                  *)
LEMMA TypedParts ==
  Typed <=> /\ Rest /\ player \in Player
            /\ call \in [Call -> Handler] /\ \A c \in Call : HandlerOK(call[c])
BY DEF Typed, TypeOK, Rest, Player, Handler

(* Typed in the next state, from its conjuncts.                            *)
LEMMA TypedPartsNext ==
  ASSUME Rest', player' \in Player, call' \in [Call -> Handler],
         \A c \in Call : HandlerOK(call'[c])
  PROVE  Typed'
BY DEF Typed, TypeOK, Rest, Player, Handler, HandlerOK

(* Every action keeps the types.  A step of one handler goes by TypedCall.  *)
LEMMA TypedNext == Typed /\ [Next]_vars => Typed'
<1> SUFFICES ASSUME Typed, [Next]_vars PROVE Typed'
  OBVIOUS
<1> USE TypedParts, QuietOK
<1>1. ASSUME NEW c \in Call, NEW n \in 1..Len(order), Tap(c, n) PROVE Typed'
  <2>1. order[n] \in Item /\ n \in Nat \ {0}
    BY OrderItem
  <2>3. PICK h \in {[pc |-> "stopping", kind |-> "tap", item |-> order[n], index |-> n],
                   [pc |-> "checking", kind |-> "play", item |-> order[n], index |-> 0]} :
          call' = [call EXCEPT ![c] = h]
    BY <1>1 DEF Tap, Begin
  <2>4. h \in Handler /\ HandlerOK(h)
    BY <2>1, <2>3 DEF Handler, HandlerOK
  <2>2. call' \in [Call -> Handler] /\ \A d \in Call : HandlerOK(call'[d])
    BY <2>3, <2>4, TypedCall
  <2>5. player' \in Player
    BY <1>1, PlayerTyped DEF Tap
  <2>7. shown' \in {Nothing} \cup [item : Item, index : Nat \ {0}]
    BY <1>1, <2>1 DEF Tap, Rest
  <2>8. hurt' \subseteq Item
    BY <1>1, <2>1 DEF Tap, HurtBy, Rest
  <2>6. Rest'
    BY <1>1, <2>7, <2>8 DEF Tap, Rest
  <2> QED BY <2>2, <2>5, <2>6, TypedPartsNext
<1>2. ASSUME NEW c \in Call, TapStopped(c) PROVE Typed'
  <2>1. call[c] \in Handler /\ call[c].item \in Item /\ call[c].index \in Nat \ {0}
    BY <1>2 DEF TapStopped, Handler, HandlerOK
  <2>3. PICK h \in {[call[c] EXCEPT !.pc = "checking", !.kind = "play", !.index = 0], Quiet} :
          call' = [call EXCEPT ![c] = h]
    BY <1>2 DEF TapStopped, Finish
  <2>4. h \in Handler /\ HandlerOK(h)
    <3>1. CASE h = Quiet
      BY <3>1
    <3>2. CASE h = [call[c] EXCEPT !.pc = "checking", !.kind = "play", !.index = 0]
      <4>1. h \in Handler
        BY <2>1, <3>2 DEF Handler
      <4>2. h.item = call[c].item /\ h.kind = "play"
        BY <2>1, <3>2 DEF Handler
      <4> QED BY <2>1, <4>1, <4>2 DEF HandlerOK
    <3> QED BY <2>3, <3>1, <3>2
  <2>2. call' \in [Call -> Handler] /\ \A d \in Call : HandlerOK(call'[d])
    BY <2>3, <2>4, TypedCall
  <2>5. player' \in Player
    BY <1>2, PlayerTyped DEF TapStopped
  <2>6. Rest'
    BY <1>2 DEF TapStopped, Rest, Cleared, Nothing, Handler, HandlerOK
  <2> QED BY <2>2, <2>5, <2>6, TypedPartsNext
<1>3. ASSUME NEW c \in Call, StopAll(c) PROVE Typed'
  <2> DEFINE h == [pc |-> "stopping", kind |-> "stop", item |-> Nobody, index |-> 0]
  <2>1. call' = [call EXCEPT ![c] = h]
    BY <1>3 DEF StopAll, Goto, Begin
  <2>3. h \in Handler /\ HandlerOK(h)
    BY <1>3 DEF StopAll, Handler, HandlerOK
  <2>2. call' \in [Call -> Handler] /\ \A d \in Call : HandlerOK(call'[d])
    <3> HIDE DEF h
    <3> QED BY <2>1, <2>3, TypedCall
  <2>5. player' \in Player
    BY <1>3, PlayerTyped DEF StopAll
  <2>6. Rest'
    BY <1>3 DEF StopAll, Rest
  <2> QED BY <2>2, <2>5, <2>6, TypedPartsNext
<1>4. ASSUME NEW c \in Call, AllStopped(c) PROVE Typed'
  <2>1. call' = [call EXCEPT ![c] = Quiet]
    BY <1>4 DEF AllStopped, Finish
  <2>2. call' \in [Call -> Handler] /\ \A d \in Call : HandlerOK(call'[d])
    BY <2>1, TypedCall
  <2>5. player' \in Player
    BY <1>4, PlayerTyped DEF AllStopped
  <2>6. Rest'
    BY <1>4 DEF AllStopped, Rest, Cleared, Nothing
  <2> QED BY <2>2, <2>5, <2>6, TypedPartsNext
<1>5. ASSUME NEW c \in Call, CompleteNext(c) PROVE Typed'
  <2>9. shown.index + 1 \in 1..Len(order)
    <3>1. shown.index \in Nat /\ Len(order) \in Nat
      <4>1. order \in Seq(Item)
        BY AudioAssumption DEF Rest
      <4> QED BY <1>5, <4>1 DEF CompleteNext, Rest
    <3> QED BY <1>5, <3>1 DEF CompleteNext
  <2>4. order[shown.index + 1] \in Item /\ shown.index + 1 \in Nat \ {0}
    BY <2>9, OrderItem
  <2> DEFINE h == [pc |-> "checking", kind |-> "play", item |-> order[shown.index + 1], index |-> 0]
  <2>1. call' = [call EXCEPT ![c] = h]
    BY <1>5 DEF CompleteNext, Goto, Begin
  <2>3. h \in Handler /\ HandlerOK(h)
    BY <1>5, <2>4 DEF CompleteNext, Handler, HandlerOK
  <2>2. call' \in [Call -> Handler] /\ \A d \in Call : HandlerOK(call'[d])
    <3> HIDE DEF h
    <3> QED BY <2>1, <2>3, TypedCall
  <2>5. player' \in Player
    BY <1>5, PlayerTyped DEF CompleteNext
  <2>7. shown' \in {Nothing} \cup [item : Item, index : Nat \ {0}]
    BY <1>5, <2>4 DEF CompleteNext, Rest
  <2>8. hurt' \subseteq Item
    BY <1>5, <2>4 DEF CompleteNext, HurtBy, Rest
  <2>6. Rest'
    BY <1>5, <2>7, <2>8 DEF CompleteNext, Rest
  <2> QED BY <2>2, <2>5, <2>6, TypedPartsNext
<1>6. ASSUME CompleteLast PROVE Typed'
  <2>1. call' = call
    BY <1>6 DEF CompleteLast
  <2>2. call' \in [Call -> Handler] /\ \A d \in Call : HandlerOK(call'[d])
    BY <2>1
  <2>5. player' \in Player
    BY <1>6, PlayerTyped DEF CompleteLast
  <2>6. Rest'
    BY <1>6 DEF CompleteLast, Rest, Cleared, Nothing
  <2> QED BY <2>2, <2>5, <2>6, TypedPartsNext
<1>7. ASSUME Completed PROVE Typed'
  <2>1. call' = call
    BY <1>7 DEF Completed
  <2>2. call' \in [Call -> Handler] /\ \A d \in Call : HandlerOK(call'[d])
    BY <2>1
  <2>5. player' \in Player
    BY <1>7, PlayerTyped DEF Completed
  <2>6. Rest'
    BY <1>7 DEF Completed, Rest
  <2> QED BY <2>2, <2>5, <2>6, TypedPartsNext
<1>8. ASSUME NEW c \in Call, Found(c) PROVE Typed'
  <2> DEFINE h == [call[c] EXCEPT !.pc = "preparing"]
  <2>1. call' = [call EXCEPT ![c] = h]
    BY <1>8 DEF Found, Goto, Begin
  <2>3. h \in Handler /\ HandlerOK(h)
    BY <1>8 DEF Found, Handler, HandlerOK
  <2>2. call' \in [Call -> Handler] /\ \A d \in Call : HandlerOK(call'[d])
    <3> HIDE DEF h
    <3> QED BY <2>1, <2>3, TypedCall
  <2>4. call[c].item \in Item
    BY <1>8 DEF Found, Receives, Handler, HandlerOK
  <2>5. player' \in Player
    BY <1>8, <2>4, PlayerTyped DEF Found
  <2>6. Rest'
    BY <1>8 DEF Found, Rest
  <2> QED BY <2>2, <2>5, <2>6, TypedPartsNext
<1>9. ASSUME NEW c \in Call, Missed(c) PROVE Typed'
  <2> DEFINE h == [call[c] EXCEPT !.pc = "asked", !.kind = "list"]
  <2>1. call' = [call EXCEPT ![c] = h]
    BY <1>9 DEF Missed, Goto, Begin
  <2>3. h \in Handler /\ HandlerOK(h)
    BY <1>9 DEF Missed, Handler, HandlerOK
  <2>2. call' \in [Call -> Handler] /\ \A d \in Call : HandlerOK(call'[d])
    <3> HIDE DEF h
    <3> QED BY <2>1, <2>3, TypedCall
  <2>5. player' \in Player
    BY <1>9, PlayerTyped DEF Missed
  <2>6. Rest'
    BY <1>9 DEF Missed, Rest
  <2> QED BY <2>2, <2>5, <2>6, TypedPartsNext
<1>10. ASSUME NEW c \in Call, Prepared(c) PROVE Typed'
  <2>1. call' = [call EXCEPT ![c] = Quiet]
    BY <1>10 DEF Prepared, Finish
  <2>2. call' \in [Call -> Handler] /\ \A d \in Call : HandlerOK(call'[d])
    BY <2>1, TypedCall
  <2>5. player' \in Player
    BY <1>10, PlayerTyped DEF Prepared
  <2>6. Rest'
    BY <1>10 DEF Prepared, Rest
  <2> QED BY <2>2, <2>5, <2>6, TypedPartsNext
<1>11. ASSUME NEW c \in Call, Unprepared(c) PROVE Typed'
  <2>1. call' = [call EXCEPT ![c] = Quiet]
    BY <1>11 DEF Unprepared, Finish
  <2>2. call' \in [Call -> Handler] /\ \A d \in Call : HandlerOK(call'[d])
    BY <2>1, TypedCall
  <2>5. player' \in Player
    BY <1>11, PlayerTyped DEF Unprepared
  <2>6. Rest'
    BY <1>11 DEF Unprepared, Rest
  <2> QED BY <2>2, <2>5, <2>6, TypedPartsNext
<1>12. ASSUME SetItems PROVE Typed'
  <2>1. call' = call
    BY <1>12 DEF SetItems
  <2>2. call' \in [Call -> Handler] /\ \A d \in Call : HandlerOK(call'[d])
    BY <2>1
  <2>5. player' \in Player
    BY <1>12, PlayerTyped DEF SetItems
  <2>6. Rest'
    BY <1>12 DEF SetItems, Rest
  <2> QED BY <2>2, <2>5, <2>6, TypedPartsNext
<1>13. ASSUME SetAutoPlay PROVE Typed'
  <2>1. call' = call
    BY <1>13 DEF SetAutoPlay
  <2>2. call' \in [Call -> Handler] /\ \A d \in Call : HandlerOK(call'[d])
    BY <2>1
  <2>5. player' \in Player
    BY <1>13, PlayerTyped DEF SetAutoPlay
  <2>6. Rest'
    BY <1>13 DEF SetAutoPlay, Rest
  <2> QED BY <2>2, <2>5, <2>6, TypedPartsNext
<1>14. ASSUME Dispose PROVE Typed'
  <2>1. ASSUME NEW d \in Call PROVE call'[d] \in Handler /\ HandlerOK(call'[d])
    BY <1>14 DEF Dispose
  <2>2. call' \in [Call -> Handler] /\ \A d \in Call : HandlerOK(call'[d])
    BY <1>14, <2>1 DEF Dispose
  <2>5. player' \in Player
    BY <1>14, PlayerTyped DEF Dispose
  <2>6. Rest'
    BY <1>14 DEF Dispose, Rest, Nothing
  <2> QED BY <2>2, <2>5, <2>6, TypedPartsNext
<1>15. ASSUME NEW c \in Call, NEW i \in Item, Share(c, i) PROVE Typed'
  <2> DEFINE h == [pc |-> "checking", kind |-> "share", item |-> i, index |-> 0]
  <2>1. call' = [call EXCEPT ![c] = h]
    BY <1>15 DEF Share, Goto, Begin
  <2>3. h \in Handler /\ HandlerOK(h)
    BY <1>15 DEF Share, Handler, HandlerOK
  <2>2. call' \in [Call -> Handler] /\ \A d \in Call : HandlerOK(call'[d])
    <3> HIDE DEF h
    <3> QED BY <2>1, <2>3, TypedCall
  <2>5. player' \in Player
    BY <1>15, PlayerTyped DEF Share
  <2>6. Rest'
    BY <1>15 DEF Share, Rest, HurtBy
  <2> QED BY <2>2, <2>5, <2>6, TypedPartsNext
<1>16. ASSUME NEW c \in Call, ShareFound(c) PROVE Typed'
  <2> DEFINE h == [call[c] EXCEPT !.pc = "sharing"]
  <2>1. call' = [call EXCEPT ![c] = h]
    BY <1>16 DEF ShareFound, Goto, Begin
  <2>3. h \in Handler /\ HandlerOK(h)
    BY <1>16 DEF ShareFound, Handler, HandlerOK
  <2>2. call' \in [Call -> Handler] /\ \A d \in Call : HandlerOK(call'[d])
    <3> HIDE DEF h
    <3> QED BY <2>1, <2>3, TypedCall
  <2>5. player' \in Player
    BY <1>16, PlayerTyped DEF ShareFound
  <2>6. Rest'
    BY <1>16 DEF ShareFound, Rest
  <2> QED BY <2>2, <2>5, <2>6, TypedPartsNext
<1>17. ASSUME NEW c \in Call, ShareMissed(c) PROVE Typed'
  <2> DEFINE h == [call[c] EXCEPT !.pc = "asked"]
  <2>1. call' = [call EXCEPT ![c] = h]
    BY <1>17 DEF ShareMissed, Goto, Begin
  <2>3. h \in Handler /\ HandlerOK(h)
    BY <1>17 DEF ShareMissed, Handler, HandlerOK, Receives
  <2>2. call' \in [Call -> Handler] /\ \A d \in Call : HandlerOK(call'[d])
    <3> HIDE DEF h
    <3> QED BY <2>1, <2>3, TypedCall
  <2>5. player' \in Player
    BY <1>17, PlayerTyped DEF ShareMissed
  <2>6. Rest'
    BY <1>17 DEF ShareMissed, Rest, Loads, Receives, HandlerOK
  <2> QED BY <2>2, <2>5, <2>6, TypedPartsNext
<1>18. ASSUME NEW c \in Call, Shared(c) PROVE Typed'
  <2>1. call' = [call EXCEPT ![c] = Quiet]
    BY <1>18 DEF Shared, Finish
  <2>2. call' \in [Call -> Handler] /\ \A d \in Call : HandlerOK(call'[d])
    BY <2>1, TypedCall
  <2>5. player' \in Player
    BY <1>18, PlayerTyped DEF Shared
  <2>6. Rest'
    BY <1>18 DEF Shared, Rest
  <2> QED BY <2>2, <2>5, <2>6, TypedPartsNext
<1>19. ASSUME NEW c \in Call, Open(c) PROVE Typed'
  <2>1. ASSUME NEW d \in Call PROVE call'[d] \in Handler /\ HandlerOK(call'[d])
    <3>1. call[d] \in Handler /\ HandlerOK(call[d])
      OBVIOUS
    <3>2. PICK pc \in {"receiving", "overtaken", call[d].pc} : call'[d] = [call[d] EXCEPT !.pc = pc]
      BY <1>19, <3>1 DEF Open, Handler
    <3>3. call[d].kind \in {"tap", "stop"} \/ call[d].pc = "idle" => call'[d] = call[d]
      BY <1>19, <3>1 DEF Open, Handler, HandlerOK, Receives
    <3> QED BY <3>1, <3>2, <3>3 DEF Handler, HandlerOK
  <2>2. call' \in [Call -> Handler] /\ \A d \in Call : HandlerOK(call'[d])
    BY <1>19, <2>1 DEF Open
  <2>5. player' \in Player
    BY <1>19, PlayerTyped DEF Open
  <2>6. Rest'
    BY <1>19 DEF Open, Rest, Handler, HandlerOK
  <2> QED BY <2>2, <2>5, <2>6, TypedPartsNext
<1>20. ASSUME NEW c \in Call, ListReceived(c) PROVE Typed'
  <2> DEFINE h == [call[c] EXCEPT !.pc = "preparing", !.kind = "play"]
  <2>1. call' = [call EXCEPT ![c] = h]
    BY <1>20 DEF ListReceived, Goto, Begin
  <2>3. h \in Handler /\ HandlerOK(h)
    BY <1>20 DEF ListReceived, Handler, HandlerOK, Receives
  <2>2. call' \in [Call -> Handler] /\ \A d \in Call : HandlerOK(call'[d])
    <3> HIDE DEF h
    <3> QED BY <2>1, <2>3, TypedCall
  <2>4. call[c].item \in Item
    BY <1>20 DEF ListReceived, Receives, Handler, HandlerOK
  <2>5. player' \in Player
    BY <1>20, <2>4, PlayerTyped DEF ListReceived
  <2>6. Rest'
    BY <1>20 DEF ListReceived, Rest, Write
  <2> QED BY <2>2, <2>5, <2>6, TypedPartsNext
<1>21. ASSUME NEW c \in Call, ListReceivedSilently(c) PROVE Typed'
  <2>1. call' = [call EXCEPT ![c] = Quiet]
    BY <1>21 DEF ListReceivedSilently, Finish
  <2>2. call' \in [Call -> Handler] /\ \A d \in Call : HandlerOK(call'[d])
    BY <2>1, TypedCall
  <2>5. player' \in Player
    BY <1>21, PlayerTyped DEF ListReceivedSilently
  <2>6. Rest'
    BY <1>21 DEF ListReceivedSilently, Rest, Write
  <2> QED BY <2>2, <2>5, <2>6, TypedPartsNext
<1>22. ASSUME NEW c \in Call, ShareReceived(c) PROVE Typed'
  <2> DEFINE h == [call[c] EXCEPT !.pc = "sharing"]
  <2>1. call' = [call EXCEPT ![c] = h]
    BY <1>22 DEF ShareReceived, Goto, Begin
  <2>3. h \in Handler /\ HandlerOK(h)
    BY <1>22 DEF ShareReceived, Handler, HandlerOK, Receives
  <2>2. call' \in [Call -> Handler] /\ \A d \in Call : HandlerOK(call'[d])
    <3> HIDE DEF h
    <3> QED BY <2>1, <2>3, TypedCall
  <2>5. player' \in Player
    BY <1>22, PlayerTyped DEF ShareReceived
  <2>6. Rest'
    BY <1>22 DEF ShareReceived, Rest, Write
  <2> QED BY <2>2, <2>5, <2>6, TypedPartsNext
<1>23. ASSUME NEW c \in Call, Fail(c) PROVE Typed'
  <2>1. call' = [call EXCEPT ![c] = Quiet]
    BY <1>23 DEF Fail, Finish
  <2>2. call' \in [Call -> Handler] /\ \A d \in Call : HandlerOK(call'[d])
    BY <2>1, TypedCall
  <2>5. player' \in Player
    BY <1>23, PlayerTyped DEF Fail
  <2>6. Rest'
    BY <1>23 DEF Fail, Rest, DownloadingAfter, Loads, Receives, HandlerOK
  <2> QED BY <2>2, <2>5, <2>6, TypedPartsNext
<1>24. ASSUME Restart PROVE Typed'
  <2>2. call' \in [Call -> Handler] /\ \A d \in Call : HandlerOK(call'[d])
    BY <1>24 DEF Restart
  <2>5. player' \in Player
    BY <1>24, PlayerTyped DEF Restart
  <2>6. Rest'
    BY <1>24 DEF Restart, Rest, Nothing, Receives, HandlerOK
  <2> QED BY <2>2, <2>5, <2>6, TypedPartsNext
<1>25. CASE UNCHANGED vars
  <2>1. Rest'
    BY <1>25 DEF vars, Rest
  <2>2. player' = player /\ call' = call
    BY <1>25 DEF vars
  <2> QED BY <2>1, <2>2, TypedPartsNext
<1> QED
  BY <1>1, <1>2, <1>3, <1>4, <1>5, <1>6, <1>7, <1>8, <1>9, <1>10, <1>11, <1>12, <1>13, <1>14, <1>15, <1>16, <1>17, <1>18, <1>19, <1>20, <1>21, <1>22, <1>23, <1>24, <1>25 DEF Next, Step, Complete

(* Every variable keeps its type: the list, its player and its files, for
   any items, lists and number of handlers.                                *)
THEOREM TypeCorrect == Spec => []TypeOK
<1>1. Typed => TypeOK
  BY DEF Typed
<1> QED BY <1>1, InitTyped, TypedNext, PTL DEF Spec
-----------------------------------------------------------------------------
(* What plays is what is shown.                                            *)

(* Once a source is set in time, what could change the item shown is a stop,
   which takes the source away first, or the end of an audio, which the
   player only reports when it has none.                                   *)
Stopping == \E d \in Call : call[d].pc = "stopping"
PlayInv ==
  /\ player.on => player.source # Nobody
  /\ player.desired => player.source # Nobody
  /\ player.source # Nobody /\ ~player.late => player.source = shown.item /\ ~ended /\ ~Stopping

(* A step that leaves the source set in time alone, with the item shown.   *)
LEMMA SourceStays ==
  ASSUME Typed, PlayInv,
         player'.source = player.source, player'.late = player.late,
         player'.on => player.on \/ player.desired,
         player'.desired => player.desired,
         player.source # Nobody /\ ~player.late => shown'.item = shown.item /\ ended' = ended /\ (Stopping' => Stopping)
  PROVE  PlayInv'
BY DEF PlayInv

(* A step after which nothing is set.                                      *)
LEMMA SourceGone ==
  ASSUME player' = Silent
  PROVE  PlayInv'
BY DEF PlayInv, Silent

(* A play, with the look at what is shown and under way.                   *)
LEMMA SourceSet ==
  ASSUME Typed, PlayInv, NEW i \in Item, Play(i), UNCHANGED <<shown, ended>>,
         Stopping' => Stopping
  PROVE  PlayInv'
<1>1. PICK on \in {FALSE, player.on} :
        player' = [source |-> i, desired |-> TRUE, on |-> on,
                   late |-> shown.item # i \/ ended \/ Stopping]
  BY DEF Play, Stopping
<1>2. i # Nobody
  BY AudioAssumption
<1> QED BY <1>1, <1>2 DEF PlayInv

(* Every step keeps PlayInv.                                               *)
LEMMA PlayInvNext == Typed /\ PlayInv /\ [Next]_vars => PlayInv'
<1> SUFFICES ASSUME Typed, PlayInv, [Next]_vars PROVE PlayInv'
  OBVIOUS
<1>0. player \in Player
  BY TypedParts
<1>p. call \in [Call -> Handler]
  BY TypedParts
<1>1. ASSUME NEW c \in Call, NEW n \in 1..Len(order), Tap(c, n) PROVE PlayInv'
  <2>1. CASE player' = Halted
    BY <2>1, SourceGone DEF Halted
  <2>2. CASE player' # Halted
    <3>1. player' = player /\ shown.item = Nobody /\ ended' = ended
      BY <1>1, <2>2 DEF Tap
    <3>2. player.source = Nobody \/ player.late
      BY <3>1 DEF PlayInv
    <3> QED BY <3>1, <3>2, SourceStays
  <2> QED BY <2>1, <2>2
<1>2. ASSUME NEW c \in Call, TapStopped(c) PROVE PlayInv'
  <2>1. Stopping
    BY <1>2 DEF TapStopped, Stopping
  <2>2. player.source = Nobody \/ player.late
    BY <2>1 DEF PlayInv
  <2>3. CASE player' = Silent
    BY <2>3, SourceGone
  <2>4. CASE player' # Silent
    <3>1. player'.source = player.source /\ player'.late = player.late
          /\ player'.on = player.on /\ (player'.desired => player.desired)
      BY <1>2, <1>0, <2>4 DEF TapStopped, StopReturns, Halted, Player
    <3> QED BY <2>2, <3>1, SourceStays
  <2> QED BY <2>3, <2>4
<1>3. ASSUME NEW c \in Call, StopAll(c) PROVE PlayInv'
  BY <1>3, SourceGone DEF StopAll, Halted
<1>4. ASSUME NEW c \in Call, AllStopped(c) PROVE PlayInv'
  <2>1. Stopping
    BY <1>4 DEF AllStopped, Stopping
  <2>2. player.source = Nobody \/ player.late
    BY <2>1 DEF PlayInv
  <2>3. CASE player' = Silent
    BY <2>3, SourceGone
  <2>4. CASE player' # Silent
    <3>1. player'.source = player.source /\ player'.late = player.late
          /\ player'.on = player.on /\ (player'.desired => player.desired)
      BY <1>4, <1>0, <2>4 DEF AllStopped, StopReturns, Halted, Player
    <3> QED BY <2>2, <3>1, SourceStays
  <2> QED BY <2>3, <2>4
<1>5. ASSUME NEW c \in Call, CompleteNext(c) PROVE PlayInv'
  <2>1. player' = player /\ (player.source = Nobody \/ player.late)
    BY <1>5 DEF CompleteNext, PlayInv
  <2> QED BY <2>1, SourceStays
<1>6. ASSUME CompleteLast PROVE PlayInv'
  <2>1. player' = player /\ (player.source = Nobody \/ player.late)
    BY <1>6 DEF CompleteLast, PlayInv
  <2> QED BY <2>1, SourceStays
<1>7. ASSUME Completed PROVE PlayInv'
  BY <1>7, SourceGone DEF Completed, Halted
<1>8. ASSUME NEW c \in Call, Found(c) PROVE PlayInv'
  <2>1. call[c].item \in Item
    BY <1>8, TypedParts DEF Found, Receives, HandlerOK
  <2>2. Stopping' => Stopping
    BY <1>8, <1>p DEF Found, Stopping, Goto, Handler
  <2>3. Play(call[c].item) /\ UNCHANGED <<shown, ended>>
    BY <1>8 DEF Found
  <2> QED BY <2>1, <2>2, <2>3, SourceSet
<1>9. ASSUME NEW c \in Call, Missed(c) PROVE PlayInv'
  <2>1. UNCHANGED <<player, shown, ended>>
    BY <1>9 DEF Missed
  <2>2. Stopping' => Stopping
    BY <1>9, <1>p DEF Missed, Stopping, Finish, Goto, Begin, Quiet, Handler, Receives
  <2> QED BY <2>1, <2>2, SourceStays
<1>10. ASSUME NEW c \in Call, Prepared(c) PROVE PlayInv'
  <2>1. player'.source = player.source /\ player'.late = player.late /\ player'.desired = player.desired
        /\ (player'.on => player.on \/ player.desired)
    BY <1>10, <1>0 DEF Prepared, Player
  <2>2. UNCHANGED <<shown, ended>>
    BY <1>10 DEF Prepared
  <2>3. Stopping' => Stopping
    BY <1>10, <1>p DEF Prepared, Stopping, Finish, Quiet
  <2> QED BY <2>1, <2>2, <2>3, SourceStays
<1>11. ASSUME NEW c \in Call, Unprepared(c) PROVE PlayInv'
  <2>1. UNCHANGED <<player, shown, ended>>
    BY <1>11 DEF Unprepared
  <2>2. Stopping' => Stopping
    BY <1>11, <1>p DEF Unprepared, Stopping, Finish, Goto, Begin, Quiet, Handler, Receives
  <2> QED BY <2>1, <2>2, SourceStays
<1>12. ASSUME SetItems PROVE PlayInv'
  <2>1. UNCHANGED <<player, shown, ended>>
    BY <1>12 DEF SetItems
  <2>2. Stopping' => Stopping
    BY <1>12, <1>p DEF SetItems, Stopping, Finish, Goto, Begin, Quiet, Handler, Receives
  <2> QED BY <2>1, <2>2, SourceStays
<1>13. ASSUME SetAutoPlay PROVE PlayInv'
  <2>1. UNCHANGED <<player, shown, ended>>
    BY <1>13 DEF SetAutoPlay
  <2>2. Stopping' => Stopping
    BY <1>13, <1>p DEF SetAutoPlay, Stopping, Finish, Goto, Begin, Quiet, Handler, Receives
  <2> QED BY <2>1, <2>2, SourceStays
<1>14. ASSUME Dispose PROVE PlayInv'
  BY <1>14, SourceGone DEF Dispose, Halted
<1>15. ASSUME NEW c \in Call, NEW i \in Item, Share(c, i) PROVE PlayInv'
  <2>1. UNCHANGED <<player, shown, ended>>
    BY <1>15 DEF Share
  <2>2. Stopping' => Stopping
    BY <1>15, <1>p DEF Share, Stopping, Finish, Goto, Begin, Quiet, Handler, Receives
  <2> QED BY <2>1, <2>2, SourceStays
<1>16. ASSUME NEW c \in Call, ShareFound(c) PROVE PlayInv'
  <2>1. UNCHANGED <<player, shown, ended>>
    BY <1>16 DEF ShareFound
  <2>2. Stopping' => Stopping
    BY <1>16, <1>p DEF ShareFound, Stopping, Finish, Goto, Begin, Quiet, Handler, Receives
  <2> QED BY <2>1, <2>2, SourceStays
<1>17. ASSUME NEW c \in Call, ShareMissed(c) PROVE PlayInv'
  <2>1. UNCHANGED <<player, shown, ended>>
    BY <1>17 DEF ShareMissed
  <2>2. Stopping' => Stopping
    BY <1>17, <1>p DEF ShareMissed, Stopping, Finish, Goto, Begin, Quiet, Handler, Receives
  <2> QED BY <2>1, <2>2, SourceStays
<1>18. ASSUME NEW c \in Call, Shared(c) PROVE PlayInv'
  <2>1. UNCHANGED <<player, shown, ended>>
    BY <1>18 DEF Shared
  <2>2. Stopping' => Stopping
    BY <1>18, <1>p DEF Shared, Stopping, Finish, Goto, Begin, Quiet, Handler, Receives
  <2> QED BY <2>1, <2>2, SourceStays
<1>19. ASSUME NEW c \in Call, Open(c) PROVE PlayInv'
  <2>1. UNCHANGED <<player, shown, ended>>
    BY <1>19 DEF Open
  <2>2. Stopping' => Stopping
    BY <1>19, <1>p DEF Open, Stopping, Finish, Goto, Begin, Quiet, Handler, Receives
  <2> QED BY <2>1, <2>2, SourceStays
<1>20. ASSUME NEW c \in Call, ListReceived(c) PROVE PlayInv'
  <2>1. call[c].item \in Item
    BY <1>20, TypedParts DEF ListReceived, Receives, HandlerOK
  <2>2. Stopping' => Stopping
    BY <1>20, <1>p DEF ListReceived, Stopping, Goto, Handler
  <2>3. Play(call[c].item) /\ UNCHANGED <<shown, ended>>
    BY <1>20 DEF ListReceived
  <2> QED BY <2>1, <2>2, <2>3, SourceSet
<1>21. ASSUME NEW c \in Call, ListReceivedSilently(c) PROVE PlayInv'
  <2>1. UNCHANGED <<player, shown, ended>>
    BY <1>21 DEF ListReceivedSilently
  <2>2. Stopping' => Stopping
    BY <1>21, <1>p DEF ListReceivedSilently, Stopping, Finish, Goto, Begin, Quiet, Handler, Receives
  <2> QED BY <2>1, <2>2, SourceStays
<1>22. ASSUME NEW c \in Call, ShareReceived(c) PROVE PlayInv'
  <2>1. UNCHANGED <<player, shown, ended>>
    BY <1>22 DEF ShareReceived
  <2>2. Stopping' => Stopping
    BY <1>22, <1>p DEF ShareReceived, Stopping, Finish, Goto, Begin, Quiet, Handler, Receives
  <2> QED BY <2>1, <2>2, SourceStays
<1>23. ASSUME NEW c \in Call, Fail(c) PROVE PlayInv'
  <2>1. UNCHANGED <<player, shown, ended>>
    BY <1>23 DEF Fail
  <2>2. Stopping' => Stopping
    BY <1>23, <1>p DEF Fail, Stopping, Finish, Goto, Begin, Quiet, Handler, Receives
  <2> QED BY <2>1, <2>2, SourceStays
<1>24. ASSUME Restart PROVE PlayInv'
  BY <1>24, SourceGone DEF Restart, Halted
<1>25. CASE UNCHANGED vars
  BY <1>25 DEF vars, PlayInv, Stopping
<1> QED
  BY <1>1, <1>2, <1>3, <1>4, <1>5, <1>6, <1>7, <1>8, <1>9, <1>10, <1>11, <1>12, <1>13, <1>14, <1>15, <1>16, <1>17, <1>18, <1>19, <1>20, <1>21, <1>22, <1>23, <1>24, <1>25 DEF Next, Step, Complete

(* What plays is what the list shows, unless the handler that started it was
   overtaken: whatever taps, ends, stops, downloads and shares interleave. *)
THEOREM AlwaysPlaysShown == Spec => []PlaysShown
<1>1. Init => PlayInv
  BY DEF Init, PlayInv, Silent
<1>2. PlayInv => PlaysShown
  BY DEF PlayInv, PlaysShown
<1> QED BY <1>1, <1>2, InitTyped, TypedNext, PlayInvNext, PTL DEF Spec

-----------------------------------------------------------------------------
(* Whole files.                                                            *)

Of(d, i) == call[d].item = i
Unsettled(d) == call[d].pc \in {"stopping", "checking", "asked", "receiving", "overtaken"}
ShareLoads(d) == call[d].kind = "share" /\ Loads(d)

(* A file that is not hurt has one handler that looks for it or downloads
   it; a part of it is what that handler is writing; and whoever plays or
   shares it has seen it whole.                                            *)
OneUnsettled(i) == \A c, d \in Call : Of(c, i) /\ Of(d, i) /\ Unsettled(c) /\ Unsettled(d) => c = d
PartIsWritten(i) == file[i] = "part" => \E d \in Call : Of(d, i) /\ call[d].pc = "receiving"
StateOfFile(i) ==
  \A c \in Call : Of(c, i) =>
    /\ call[c].pc = "asked" => file[i] = "none"
    /\ call[c].pc # "overtaken"
    /\ call[c].pc \in {"preparing", "sharing"} => file[i] = "whole"
FlagCovers(i) == \A c \in Call : Of(c, i) /\ ShareLoads(c) => downloading
FileOK(i) == OneUnsettled(i) /\ PartIsWritten(i) /\ StateOfFile(i) /\ FlagCovers(i)

(* Two shares that download at once give up their files.                   *)
SharesApart == \A c, d \in Call : c # d /\ ShareLoads(c) /\ ShareLoads(d) => call[c].item \in hurt

FileInv == SharesApart /\ \A i \in Item \ hurt : FileOK(i)

(* A handler of i begins: nobody else is about to look at the file.        *)
LEMMA BeginsApart ==
  ASSUME Typed, FileInv, NEW i \in Item, NEW seen \in BOOLEAN, seen => ~downloading,
         HurtBy(seen, i), i \notin hurt'
  PROVE  i \notin hurt /\ \A d \in Call : Of(d, i) => ~Unsettled(d)
<1>1. ~Meets(seen, i) /\ i \notin hurt
  BY DEF HurtBy
<1>2. FlagCovers(i)
  BY <1>1 DEF FileInv, FileOK
<1>3. ASSUME NEW d \in Call, Of(d, i), Unsettled(d) PROVE FALSE
  <2>1. Loads(d) /\ call[d].kind = "share" /\ seen
    BY <1>1, <1>3 DEF Meets, Of, Unsettled, Loads, Receives
  <2> QED BY <2>1, <1>2, <1>3 DEF FlagCovers, ShareLoads
<1> QED BY <1>1, <1>3

(* A step of handler c that leaves its item, the files and the flag, and
   loads no share.                                                         *)
LEMMA FileKept ==
  ASSUME Typed, FileInv, NEW c \in Call, NEW h \in Handler, call' = [call EXCEPT ![c] = h],
         UNCHANGED <<file, downloading>>, hurt \subseteq hurt',
         h.kind = "share" /\ h.pc \in {"asked", "receiving", "overtaken"} => ShareLoads(c) /\ h.item = call[c].item,
         \A i \in Item \ hurt' : h.item = i =>
            /\ h.pc \in {"stopping", "checking", "asked"} => \A d \in Call \ {c} : Of(d, i) => ~Unsettled(d)
            /\ h.pc = "asked" => file[i] = "none"
            /\ h.pc \notin {"overtaken", "receiving"}
            /\ h.pc \in {"preparing", "sharing"} => file[i] = "whole",
         \A i \in Item \ hurt' : Of(c, i) => call[c].pc # "receiving"
  PROVE  FileInv'
<1>1. call \in [Call -> Handler]
  BY TypedParts
<1>2. call'[c] = h /\ \A d \in Call \ {c} : call'[d] = call[d]
  BY <1>1
<1>3. SharesApart'
  BY <1>2 DEF FileInv, SharesApart, ShareLoads, Loads, Receives
<1>4. ASSUME NEW i \in Item \ hurt' PROVE FileOK(i)'
  <2>1. FileOK(i)
    BY DEF FileInv
  <2>2. OneUnsettled(i)'
    BY <1>2, <2>1 DEF FileOK, OneUnsettled, Of, Unsettled
  <2>3. PartIsWritten(i)'
    BY <1>2, <2>1 DEF FileOK, PartIsWritten, Of
  <2>4. StateOfFile(i)'
    BY <1>2, <2>1 DEF FileOK, StateOfFile, Of
  <2>5. FlagCovers(i)'
    BY <1>2, <2>1 DEF FileOK, FlagCovers, Of, ShareLoads, Loads, Receives
  <2> QED BY <2>2, <2>3, <2>4, <2>5 DEF FileOK
<1> QED BY <1>3, <1>4 DEF FileInv

(* A step that changes no handler, no file and no flag.                    *)
LEMMA FileStays ==
  ASSUME FileInv, UNCHANGED <<call, file, downloading, hurt>>
  PROVE  FileInv'
BY DEF FileInv, SharesApart, ShareLoads, Loads, Receives, FileOK, OneUnsettled, PartIsWritten, StateOfFile,
       FlagCovers, Of, Unsettled

(* A download of c ends: its file is written if c opened it last, and the
   flag, if c is a share, is cleared.                                      *)
LEMMA DownloadEnds ==
  ASSUME Typed, FileInv, NEW c \in Call, NEW h \in Handler, call' = [call EXCEPT ![c] = h],
         Receives(c), Write(c), hurt' = hurt,
         downloading' = DownloadingAfter(c) \/ (call[c].kind # "share" /\ downloading' = downloading),
         h = Quiet \/ (h.item = call[c].item /\ h.pc \in {"preparing", "sharing"})
  PROVE  FileInv'
<1>1. call \in [Call -> Handler] /\ file \in [Item -> {"none", "part", "whole"}]
  BY TypedParts DEF Rest
<1>2. call'[c] = h /\ \A d \in Call \ {c} : call'[d] = call[d]
  BY <1>1
<1>3. h.pc \notin {"stopping", "checking", "asked", "receiving", "overtaken"}
  BY DEF Quiet
<1>4. SharesApart'
  BY <1>2, <1>3 DEF FileInv, SharesApart, ShareLoads, Loads, Receives
<1>5. ASSUME NEW i \in Item \ hurt PROVE FileOK(i)'
  <2>1. FileOK(i)
    BY <1>5 DEF FileInv
  <2>2. OneUnsettled(i)'
    BY <1>2, <1>3, <2>1 DEF FileOK, OneUnsettled, Of, Unsettled
  <2>3. CASE call[c].item = i
    <3>1. call[c].pc = "receiving"
      BY <2>1, <2>3 DEF FileOK, StateOfFile, Of, Receives
    <3>2. file'[i] = "whole"
      BY <3>1, <2>3, <1>1 DEF Write
    <3>3. \A d \in Call \ {c} : Of(d, i) => ~Unsettled(d)
      BY <3>1, <2>1, <2>3 DEF FileOK, OneUnsettled, Of, Unsettled
    <3>4. PartIsWritten(i)'
      BY <3>2 DEF PartIsWritten
    <3>5. StateOfFile(i)'
      BY <3>2, <3>3, <1>2, <1>3 DEF StateOfFile, Of, Unsettled
    <3>6. FlagCovers(i)'
      BY <3>3, <1>2, <1>3 DEF FlagCovers, Of, Unsettled, ShareLoads, Loads, Receives
    <3> QED BY <2>2, <3>4, <3>5, <3>6 DEF FileOK
  <2>4. CASE call[c].item # i
    <3>1. file'[i] = file[i]
      BY <2>4, <1>1 DEF Write
    <3>2. h.item # i
      BY <2>4, AudioAssumption DEF Quiet
    <3>3. PartIsWritten(i)'
      BY <1>2, <2>1, <2>4, <3>1 DEF FileOK, PartIsWritten, Of
    <3>4. StateOfFile(i)'
      BY <1>2, <2>1, <3>1, <3>2 DEF FileOK, StateOfFile, Of
    <3>5. ASSUME NEW d \in Call, Of(d, i)', ShareLoads(d)' PROVE downloading'
      <4>1. d # c /\ Of(d, i) /\ ShareLoads(d)
        BY <1>2, <3>2, <3>5 DEF Of, ShareLoads, Loads, Receives
      <4>2. downloading
        BY <4>1, <2>1 DEF FileOK, FlagCovers
      <4>3. ~ShareLoads(c)
        BY <4>1, <1>5 DEF FileInv, SharesApart, Of
      <4>4. call[c].kind # "share"
        BY <4>3 DEF ShareLoads, Loads
      <4> QED BY <4>2, <4>4 DEF DownloadingAfter
    <3>6. FlagCovers(i)'
      BY <3>5 DEF FlagCovers
    <3> QED BY <2>2, <3>3, <3>4, <3>6 DEF FileOK
  <2> QED BY <2>3, <2>4
<1> QED BY <1>4, <1>5 DEF FileInv

(* Every step keeps FileInv.                                               *)
LEMMA FileInvNext == Typed /\ FileInv /\ [Next]_vars => FileInv'
<1> SUFFICES ASSUME Typed, FileInv, [Next]_vars PROVE FileInv'
  OBVIOUS
<1>p. call \in [Call -> Handler] /\ file \in [Item -> {"none", "part", "whole"}] /\ hurt \subseteq Item
      /\ \A c \in Call : HandlerOK(call[c])
  BY TypedParts DEF Rest
<1>1. ASSUME NEW c \in Call, NEW n \in 1..Len(order), Tap(c, n) PROVE FileInv'
  <2>0. order[n] \in Item /\ n \in Nat
    BY OrderItem
  <2>5. PICK h \in {[pc |-> "stopping", kind |-> "tap", item |-> order[n], index |-> n],
                   [pc |-> "checking", kind |-> "play", item |-> order[n], index |-> 0]} : call' = [call EXCEPT ![c] = h]
    BY <1>1 DEF Tap, Begin
  <2>1. h \in Handler /\ h.item = order[n] /\ h.pc \in {"stopping", "checking"} /\ (h.kind = "share" => h.pc = "checking")
    BY <2>5, <2>0 DEF Handler
  <2>2. UNCHANGED <<file, downloading>> /\ HurtBy(TRUE, order[n]) /\ ~downloading
    BY <1>1 DEF Tap, MayTap
  <2>3. hurt \subseteq hurt' /\ call[c].pc = "idle"
    BY <1>1, <2>2 DEF Tap, HurtBy, MayBegin, Free, IsIdle
  <2>4. ASSUME NEW i0 \in Item \ hurt', h.item = i0 PROVE \A d \in Call : Of(d, i0) => ~Unsettled(d)
    BY <2>1, <2>2, <2>4, BeginsApart
  <2> QED BY <2>1, <2>2, <2>3, <2>4, <2>5, FileKept
<1>2. ASSUME NEW c \in Call, TapStopped(c) PROVE FileInv'
  <2>1. CASE call' = Finish(c)
    <3> DEFINE h == Quiet
    <3>1. h \in Handler /\ call' = [call EXCEPT ![c] = h]
      BY <2>1, QuietOK DEF Finish
    <3>2. (\A i \in Item : h.item # i) /\ h.kind # "share"
      BY AudioAssumption DEF Quiet
    <3>3. UNCHANGED <<file, downloading>> /\ hurt \subseteq hurt' /\ call[c].pc # "receiving"
      BY <1>2 DEF TapStopped
    <3> HIDE DEF h
    <3> QED BY <3>1, <3>2, <3>3, FileKept
  <2>2. CASE call' # Finish(c)
    <3> DEFINE h == [call[c] EXCEPT !.pc = "checking", !.kind = "play", !.index = 0]
    <3>1. h \in Handler
      BY <1>p DEF Handler
    <3>2. call' = [call EXCEPT ![c] = h]
      BY <1>2, <2>2 DEF TapStopped
    <3>3. UNCHANGED <<file, downloading>> /\ hurt \subseteq hurt' /\ call[c].pc # "receiving" /\ Unsettled(c)
      BY <1>2 DEF TapStopped, Unsettled
    <3>4. h.item = call[c].item /\ h.kind = "play" /\ h.pc = "checking"
      BY <1>p DEF Handler
    <3>5. ASSUME NEW i \in Item \ hurt', h.item = i PROVE \A d \in Call \ {c} : Of(d, i) => ~Unsettled(d)
      <4>1. FileOK(i)
        BY <3>3 DEF FileInv
      <4> QED BY <3>3, <3>4, <3>5, <4>1 DEF FileOK, OneUnsettled, Of
    <3> HIDE DEF h
    <3> QED BY <3>1, <3>2, <3>3, <3>4, <3>5, FileKept
  <2> QED BY <2>1, <2>2
<1>3. ASSUME NEW c \in Call, StopAll(c) PROVE FileInv'
  <2> DEFINE h == [pc |-> "stopping", kind |-> "stop", item |-> Nobody, index |-> 0]
  <2>1. h \in Handler
    BY DEF Handler
  <2>2. call' = [call EXCEPT ![c] = h]
    BY <1>3 DEF StopAll, Begin
  <2>3. UNCHANGED <<file, downloading>> /\ hurt \subseteq hurt'
    BY <1>3 DEF StopAll
  <2>4. \A i \in Item : h.item # i
    BY AudioAssumption
  <2>5. h.kind # "share" /\ call[c].pc # "receiving"
    BY <1>3 DEF StopAll, MayBegin, Free, IsIdle
  <2> HIDE DEF h
  <2> QED BY <2>1, <2>2, <2>3, <2>4, <2>5, FileKept
<1>4. ASSUME NEW c \in Call, AllStopped(c) PROVE FileInv'
  <2> DEFINE h == Quiet
  <2>1. h \in Handler
    BY <1>4, QuietOK, <1>p DEF AllStopped, Handler
  <2>2. call' = [call EXCEPT ![c] = h]
    BY <1>4 DEF AllStopped, Goto, Finish
  <2>3. UNCHANGED <<file, downloading>> /\ hurt \subseteq hurt'
    BY <1>4 DEF AllStopped, HurtBy
  <2>4. \A i \in Item : h.item # i
    BY AudioAssumption DEF Quiet
  <2>5. h.kind # "share"
    BY DEF Quiet
  <2>6. call[c].pc # "receiving"
    BY <1>4 DEF AllStopped
  <2> HIDE DEF h
  <2> QED BY <2>1, <2>2, <2>3, <2>4, <2>5, <2>6, FileKept
<1>5. ASSUME NEW c \in Call, CompleteNext(c) PROVE FileInv'
  <2>0. order[shown.index + 1] \in Item
    <3>1. order \in Seq(Item) /\ shown.index \in Nat
      BY <1>5, AudioAssumption, TypedParts DEF CompleteNext, Rest
    <3> QED BY <1>5, <3>1 DEF CompleteNext
  <2>5. PICK h \in {[pc |-> "checking", kind |-> "play", item |-> order[shown.index + 1], index |-> 0]} : call' = [call EXCEPT ![c] = h]
    BY <1>5 DEF CompleteNext, Begin
  <2>1. h \in Handler /\ h.item = order[shown.index + 1] /\ h.pc \in {"checking"} /\ (h.kind = "share" => h.pc = "checking")
    BY <2>5, <2>0 DEF Handler
  <2>2. UNCHANGED <<file, downloading>> /\ HurtBy(FALSE, order[shown.index + 1]) /\ TRUE
    BY <1>5 DEF CompleteNext, MayTap
  <2>3. hurt \subseteq hurt' /\ call[c].pc = "idle"
    BY <1>5, <2>2 DEF CompleteNext, HurtBy, MayBegin, Free, IsIdle
  <2>4. ASSUME NEW i0 \in Item \ hurt', h.item = i0 PROVE \A d \in Call : Of(d, i0) => ~Unsettled(d)
    BY <2>1, <2>2, <2>4, BeginsApart
  <2> QED BY <2>1, <2>2, <2>3, <2>4, <2>5, FileKept
<1>6. ASSUME CompleteLast PROVE FileInv'
  BY <1>6, FileStays DEF CompleteLast
<1>7. ASSUME Completed PROVE FileInv'
  BY <1>7, FileStays DEF Completed
<1>8. ASSUME NEW c \in Call, Found(c) PROVE FileInv'
  <2> DEFINE h == [call[c] EXCEPT !.pc = "preparing"]
  <2>1. h \in Handler
    BY <1>8, QuietOK, <1>p DEF Found, Handler
  <2>2. call' = [call EXCEPT ![c] = h]
    BY <1>8 DEF Found, Goto, Finish
  <2>3. UNCHANGED <<file, downloading>> /\ hurt \subseteq hurt'
    BY <1>8 DEF Found, HurtBy
  <2>4. h.item = call[c].item /\ h.kind = "play" /\ h.pc = "preparing" /\ Unsettled(c) /\ call[c].pc # "receiving"
    BY <1>8, <1>p DEF Found, Handler, Unsettled
  <2>5. ASSUME NEW i \in Item \ hurt', h.item = i
        PROVE  file[i] = "whole"
    <3>1. FileOK(i)
      BY <2>3 DEF FileInv
    <3>2. \A d \in Call \ {c} : Of(d, i) => ~Unsettled(d)
      BY <2>4, <2>5, <3>1 DEF FileOK, OneUnsettled, Of
    <3> QED BY <1>8, <2>4, <2>5, <3>1, <3>2, <1>p DEF Found, FileOK, PartIsWritten, Of, Unsettled
  <2> HIDE DEF h
  <2> QED BY <2>1, <2>2, <2>3, <2>4, <2>5, FileKept
<1>9. ASSUME NEW c \in Call, Missed(c) PROVE FileInv'
  <2> DEFINE h == [call[c] EXCEPT !.pc = "asked", !.kind = "list"]
  <2>1. h \in Handler
    BY <1>9, QuietOK, <1>p DEF Missed, Handler
  <2>2. call' = [call EXCEPT ![c] = h]
    BY <1>9 DEF Missed, Goto, Finish
  <2>3. UNCHANGED <<file, downloading>> /\ hurt \subseteq hurt'
    BY <1>9 DEF Missed, HurtBy
  <2>4. h.item = call[c].item /\ h.kind = "list" /\ h.pc = "asked" /\ Unsettled(c) /\ call[c].pc # "receiving"
    BY <1>9, <1>p DEF Missed, Handler, Unsettled
  <2>5. ASSUME NEW i \in Item \ hurt', h.item = i
        PROVE  file[i] = "none" /\ \A d \in Call \ {c} : Of(d, i) => ~Unsettled(d)
    <3>1. FileOK(i)
      BY <2>3 DEF FileInv
    <3>2. \A d \in Call \ {c} : Of(d, i) => ~Unsettled(d)
      BY <2>4, <2>5, <3>1 DEF FileOK, OneUnsettled, Of
    <3> QED BY <1>9, <2>4, <2>5, <3>2 DEF Missed
  <2> HIDE DEF h
  <2> QED BY <2>1, <2>2, <2>3, <2>4, <2>5, FileKept
<1>10. ASSUME NEW c \in Call, Prepared(c) PROVE FileInv'
  <2> DEFINE h == Quiet
  <2>1. h \in Handler
    BY <1>10, QuietOK, <1>p DEF Prepared, Handler
  <2>2. call' = [call EXCEPT ![c] = h]
    BY <1>10 DEF Prepared, Goto, Finish
  <2>3. UNCHANGED <<file, downloading>> /\ hurt \subseteq hurt'
    BY <1>10 DEF Prepared, HurtBy
  <2>4. \A i \in Item : h.item # i
    BY AudioAssumption DEF Quiet
  <2>5. h.kind # "share"
    BY DEF Quiet
  <2>6. call[c].pc # "receiving"
    BY <1>10 DEF Prepared
  <2> HIDE DEF h
  <2> QED BY <2>1, <2>2, <2>3, <2>4, <2>5, <2>6, FileKept
<1>11. ASSUME NEW c \in Call, Unprepared(c) PROVE FileInv'
  <2> DEFINE h == Quiet
  <2>1. h \in Handler
    BY <1>11, QuietOK, <1>p DEF Unprepared, Handler
  <2>2. call' = [call EXCEPT ![c] = h]
    BY <1>11 DEF Unprepared, Goto, Finish
  <2>3. UNCHANGED <<file, downloading>> /\ hurt \subseteq hurt'
    BY <1>11 DEF Unprepared, HurtBy
  <2>4. \A i \in Item : h.item # i
    BY AudioAssumption DEF Quiet
  <2>5. h.kind # "share"
    BY DEF Quiet
  <2>6. call[c].pc # "receiving"
    BY <1>11 DEF Unprepared
  <2> HIDE DEF h
  <2> QED BY <2>1, <2>2, <2>3, <2>4, <2>5, <2>6, FileKept
<1>12. ASSUME SetItems PROVE FileInv'
  BY <1>12, FileStays DEF SetItems
<1>13. ASSUME SetAutoPlay PROVE FileInv'
  BY <1>13, FileStays DEF SetAutoPlay
<1>14. ASSUME Dispose PROVE FileInv'
  <2>1. UNCHANGED <<file, downloading, hurt>>
        /\ \A d \in Call : call'[d] = call[d] \/ (call'[d] = Quiet /\ call[d].pc # "receiving")
    BY <1>14 DEF Dispose, Loads, Receives
  <2>2. Quiet.pc = "idle" /\ Quiet.kind = "none"
    BY DEF Quiet
  <2>3. SharesApart'
    BY <2>1, <2>2 DEF FileInv, SharesApart, ShareLoads, Loads, Receives
  <2>4. ASSUME NEW i \in Item \ hurt PROVE FileOK(i)'
    <3>1. FileOK(i)
      BY <2>4 DEF FileInv
    <3>2. \A d \in Call : call[d].pc = "receiving" => call'[d] = call[d]
      BY <2>1
    <3>3. OneUnsettled(i)'
      BY <2>1, <2>2, <3>1 DEF FileOK, OneUnsettled, Of, Unsettled
    <3>4. PartIsWritten(i)'
      BY <2>1, <3>1, <3>2 DEF FileOK, PartIsWritten, Of
    <3>5. StateOfFile(i)'
      BY <2>1, <2>2, <3>1 DEF FileOK, StateOfFile, Of
    <3>6. FlagCovers(i)'
      BY <2>1, <2>2, <3>1 DEF FileOK, FlagCovers, Of, ShareLoads, Loads, Receives
    <3> QED BY <3>3, <3>4, <3>5, <3>6 DEF FileOK
  <2> QED BY <2>1, <2>3, <2>4 DEF FileInv
<1>15. ASSUME NEW c \in Call, NEW i \in Item, Share(c, i) PROVE FileInv'
  <2>5. PICK h \in {[pc |-> "checking", kind |-> "share", item |-> i, index |-> 0]} : call' = [call EXCEPT ![c] = h]
    BY <1>15 DEF Share, Begin
  <2>1. h \in Handler /\ h.item = i /\ h.pc \in {"checking"} /\ (h.kind = "share" => h.pc = "checking")
    BY <2>5 DEF Handler
  <2>2. UNCHANGED <<file, downloading>> /\ HurtBy(TRUE, i) /\ ~downloading
    BY <1>15 DEF Share, MayTap
  <2>3. hurt \subseteq hurt' /\ call[c].pc = "idle"
    BY <1>15, <2>2 DEF Share, HurtBy, MayBegin, Free, IsIdle
  <2>4. ASSUME NEW i0 \in Item \ hurt', h.item = i0 PROVE \A d \in Call : Of(d, i0) => ~Unsettled(d)
    BY <2>1, <2>2, <2>4, BeginsApart
  <2> QED BY <2>1, <2>2, <2>3, <2>4, <2>5, FileKept
<1>16. ASSUME NEW c \in Call, ShareFound(c) PROVE FileInv'
  <2> DEFINE h == [call[c] EXCEPT !.pc = "sharing"]
  <2>1. h \in Handler
    BY <1>16, QuietOK, <1>p DEF ShareFound, Handler
  <2>2. call' = [call EXCEPT ![c] = h]
    BY <1>16 DEF ShareFound, Goto, Finish
  <2>3. UNCHANGED <<file, downloading>> /\ hurt \subseteq hurt'
    BY <1>16 DEF ShareFound, HurtBy
  <2>4. h.item = call[c].item /\ h.kind = "share" /\ h.pc = "sharing" /\ Unsettled(c) /\ call[c].pc # "receiving"
    BY <1>16, <1>p DEF ShareFound, Handler, Unsettled
  <2>5. ASSUME NEW i \in Item \ hurt', h.item = i
        PROVE  file[i] = "whole"
    <3>1. FileOK(i)
      BY <2>3 DEF FileInv
    <3>2. \A d \in Call \ {c} : Of(d, i) => ~Unsettled(d)
      BY <2>4, <2>5, <3>1 DEF FileOK, OneUnsettled, Of
    <3> QED BY <1>16, <2>4, <2>5, <3>1, <3>2, <1>p DEF ShareFound, FileOK, PartIsWritten, Of, Unsettled
  <2> HIDE DEF h
  <2> QED BY <2>1, <2>2, <2>3, <2>4, <2>5, FileKept
<1>17. ASSUME NEW c \in Call, ShareMissed(c) PROVE FileInv'
  <2> DEFINE others == {d \in Call : call[d].kind = "share" /\ Loads(d)}
             h == [call[c] EXCEPT !.pc = "asked"]
  <2>1. /\ call[c].kind = "share" /\ call[c].pc = "checking" /\ file[call[c].item] = "none"
        /\ downloading' = TRUE /\ file' = file /\ call' = [call EXCEPT ![c] = h]
        /\ hurt' = IF others = {} THEN hurt ELSE hurt \cup {call[d].item : d \in others \cup {c}}
    BY <1>17 DEF ShareMissed, Goto
  <2>2. h.pc = "asked" /\ h.item = call[c].item /\ h.kind = "share" /\ c \notin others
    BY <1>p, <2>1 DEF Handler, Loads, Receives
  <2>3. call'[c] = h /\ \A d \in Call \ {c} : call'[d] = call[d]
    BY <1>p, <2>1
  <2>4. \A d \in Call : ShareLoads(d) <=> d \in others
    BY DEF ShareLoads
  <2> HIDE DEF others, h
  <2>5. \A d \in Call : ShareLoads(d)' => d = c \/ d \in others
    BY <2>3, <2>4 DEF ShareLoads, Loads, Receives
  <2>6. hurt \subseteq hurt' /\ \A d \in others \cup {c} : others # {} => call[d].item \in hurt'
    BY <2>1
  <2>7. SharesApart'
    BY <2>2, <2>3, <2>5, <2>6 DEF SharesApart
  <2>8. ASSUME NEW i \in Item \ hurt' PROVE FileOK(i)'
    <3>1. FileOK(i)
      BY <2>6, <2>8 DEF FileInv
    <3>2. OneUnsettled(i)'
      BY <2>1, <2>2, <2>3, <3>1 DEF FileOK, OneUnsettled, Of, Unsettled
    <3>3. PartIsWritten(i)'
      BY <2>1, <2>2, <2>3, <3>1 DEF FileOK, PartIsWritten, Of
    <3>4. StateOfFile(i)'
      BY <2>1, <2>2, <2>3, <3>1 DEF FileOK, StateOfFile, Of
    <3>5. FlagCovers(i)'
      BY <2>1 DEF FlagCovers
    <3> QED BY <3>2, <3>3, <3>4, <3>5 DEF FileOK
  <2> QED BY <2>7, <2>8 DEF FileInv
<1>18. ASSUME NEW c \in Call, Shared(c) PROVE FileInv'
  <2> DEFINE h == Quiet
  <2>1. h \in Handler
    BY <1>18, QuietOK, <1>p DEF Shared, Handler
  <2>2. call' = [call EXCEPT ![c] = h]
    BY <1>18 DEF Shared, Goto, Finish
  <2>3. UNCHANGED <<file, downloading>> /\ hurt \subseteq hurt'
    BY <1>18 DEF Shared, HurtBy
  <2>4. \A i \in Item : h.item # i
    BY AudioAssumption DEF Quiet
  <2>5. h.kind # "share"
    BY DEF Quiet
  <2>6. call[c].pc # "receiving"
    BY <1>18 DEF Shared
  <2> HIDE DEF h
  <2> QED BY <2>1, <2>2, <2>3, <2>4, <2>5, <2>6, FileKept
<1>19. ASSUME NEW c \in Call, Open(c) PROVE FileInv'
  <2>1. call[c].pc = "asked" /\ file' = [file EXCEPT ![call[c].item] = "part"] /\ UNCHANGED <<downloading, hurt>>
    BY <1>19 DEF Open
  <2>2. call'[c].pc = "receiving"
    BY <1>19, <1>p DEF Open, Handler
  <2>3. ASSUME NEW d \in Call
        PROVE  /\ call'[d].item = call[d].item /\ call'[d].kind = call[d].kind
               /\ Loads(d)' <=> Loads(d)
               /\ Unsettled(d)' <=> Unsettled(d)
               /\ d # c /\ call[d].item # call[c].item => call'[d] = call[d]
    <3>1. call[d] \in Handler
      BY <1>p
    <3>2. CASE d = c
      BY <1>19, <1>p, <3>1, <3>2 DEF Open, Handler, Loads, Receives, Unsettled
    <3>3. CASE d # c /\ Receives(d) /\ call[d].item = call[c].item
      BY <1>19, <1>p, <3>1, <3>3 DEF Open, Handler, Loads, Receives, Unsettled
    <3>4. CASE d # c /\ ~(Receives(d) /\ call[d].item = call[c].item)
      <4>1. call'[d] = call[d]
        BY <1>19, <3>4 DEF Open
      <4> QED BY <4>1, <3>4 DEF Loads, Receives, Unsettled
    <3> QED BY <3>2, <3>3, <3>4
  <2>4. SharesApart'
    BY <2>1, <2>3 DEF FileInv, SharesApart, ShareLoads
  <2>5. ASSUME NEW i \in Item \ hurt PROVE FileOK(i)'
    <3>1. FileOK(i)
      BY <2>5 DEF FileInv
    <3>2. OneUnsettled(i)'
      BY <2>3, <3>1 DEF FileOK, OneUnsettled, Of
    <3>3. FlagCovers(i)'
      BY <2>1, <2>3, <3>1 DEF FileOK, FlagCovers, Of, ShareLoads
    <3>4. CASE call[c].item = i
      <4>1. file'[i] = "part" /\ file[i] = "none" /\ Of(c, i)' /\ Unsettled(c)
        BY <1>p, <2>1, <2>3, <3>1, <3>4 DEF FileOK, StateOfFile, Of, Unsettled
      <4>2. PartIsWritten(i)'
        BY <2>2, <4>1 DEF PartIsWritten
      <4>3. ASSUME NEW d \in Call, d # c, call[d].item = i
            PROVE  call'[d].pc \notin {"asked", "overtaken", "preparing", "sharing"}
        <5>1. ~Unsettled(d) /\ call[d].pc \notin {"preparing", "sharing"}
          BY <3>1, <3>4, <4>1, <4>3 DEF FileOK, OneUnsettled, StateOfFile, Of
        <5>2. call'[d] = call[d]
          BY <1>19, <4>3, <5>1 DEF Open, Receives, Unsettled
        <5> QED BY <5>1, <5>2 DEF Unsettled
      <4>4. StateOfFile(i)'
        BY <2>2, <2>3, <4>3 DEF StateOfFile, Of
      <4> QED BY <3>2, <3>3, <4>2, <4>4 DEF FileOK
    <3>5. CASE call[c].item # i
      <4>1. file'[i] = file[i] /\ \A d \in Call : Of(d, i) => d # c
        BY <1>p, <2>1, <3>5 DEF Of
      <4>2. ASSUME NEW d \in Call, Of(d, i) PROVE call'[d] = call[d]
        BY <2>3, <3>5, <4>1, <4>2 DEF Of
      <4>3. PartIsWritten(i)'
        BY <3>1, <4>1, <4>2, <2>3 DEF FileOK, PartIsWritten, Of
      <4>4. StateOfFile(i)'
        BY <3>1, <4>1, <4>2, <2>3 DEF FileOK, StateOfFile, Of
      <4> QED BY <3>2, <3>3, <4>3, <4>4 DEF FileOK
    <3> QED BY <3>4, <3>5
  <2> QED BY <2>1, <2>4, <2>5 DEF FileInv
<1>20. ASSUME NEW c \in Call, ListReceived(c) PROVE FileInv'
  <2> DEFINE h == [call[c] EXCEPT !.pc = "preparing", !.kind = "play"]
  <2>1. h \in Handler /\ h.item = call[c].item /\ h.pc = "preparing"
    BY <1>p DEF Handler
  <2>2. call' = [call EXCEPT ![c] = h]
    BY <1>20 DEF ListReceived
  <2>3. Receives(c) /\ Write(c) /\ hurt' = hurt /\ call[c].kind # "share" /\ downloading' = downloading
    BY <1>20 DEF ListReceived
  <2> HIDE DEF h
  <2> QED BY <2>1, <2>2, <2>3, DownloadEnds
<1>21. ASSUME NEW c \in Call, ListReceivedSilently(c) PROVE FileInv'
  <2>1. call' = [call EXCEPT ![c] = Quiet] /\ Receives(c) /\ Write(c) /\ hurt' = hurt
        /\ call[c].kind # "share" /\ downloading' = downloading
    BY <1>21 DEF ListReceivedSilently, Finish
  <2> QED BY <2>1, QuietOK, DownloadEnds
<1>22. ASSUME NEW c \in Call, ShareReceived(c) PROVE FileInv'
  <2> DEFINE h == [call[c] EXCEPT !.pc = "sharing"]
  <2>1. h \in Handler /\ h.item = call[c].item /\ h.pc = "sharing"
    BY <1>p DEF Handler
  <2>2. call' = [call EXCEPT ![c] = h]
    BY <1>22 DEF ShareReceived, Goto
  <2>3. Receives(c) /\ Write(c) /\ hurt' = hurt /\ downloading' = DownloadingAfter(c)
    BY <1>22 DEF ShareReceived, DownloadingAfter
  <2> HIDE DEF h
  <2> QED BY <2>1, <2>2, <2>3, DownloadEnds
<1>23. ASSUME NEW c \in Call, Fail(c) PROVE FileInv'
  <2>1. /\ Loads(c) /\ downloading' = DownloadingAfter(c) /\ file' = file
        /\ call' = [call EXCEPT ![c] = Quiet]
        /\ hurt' = IF Receives(c) THEN hurt \cup {call[c].item} ELSE hurt
    BY <1>23 DEF Fail, Finish
  <2>2. call'[c] = Quiet /\ \A d \in Call \ {c} : call'[d] = call[d]
    BY <1>p, <2>1
  <2>3. Quiet.pc = "idle" /\ Quiet.kind = "none" /\ hurt \subseteq hurt'
    BY <2>1 DEF Quiet
  <2>4. SharesApart'
    BY <2>2, <2>3 DEF FileInv, SharesApart, ShareLoads, Loads, Receives
  <2>5. ASSUME NEW i \in Item \ hurt' PROVE FileOK(i)'
    <3>1. FileOK(i) /\ i \notin hurt
      BY <2>3, <2>5 DEF FileInv
    <3>2. OneUnsettled(i)'
      BY <2>2, <2>3, <3>1 DEF FileOK, OneUnsettled, Of, Unsettled
    <3>3. Of(c, i) => call[c].pc # "receiving"
      BY <2>1, <2>5 DEF Of, Receives
    <3>4. PartIsWritten(i)'
      BY <2>1, <2>2, <3>1, <3>3 DEF FileOK, PartIsWritten, Of
    <3>5. StateOfFile(i)'
      BY <2>1, <2>2, <2>3, <3>1 DEF FileOK, StateOfFile, Of
    <3>6. ASSUME NEW d \in Call, Of(d, i)', ShareLoads(d)' PROVE downloading'
      <4>1. d # c /\ Of(d, i) /\ ShareLoads(d)
        BY <2>2, <2>3, <3>6 DEF Of, ShareLoads, Loads, Receives
      <4>2. downloading
        BY <4>1, <3>1 DEF FileOK, FlagCovers
      <4>3. ~ShareLoads(c)
        BY <4>1, <3>1 DEF FileInv, SharesApart, Of
      <4> QED BY <2>1, <4>2, <4>3 DEF DownloadingAfter, ShareLoads
    <3>7. FlagCovers(i)'
      BY <3>6 DEF FlagCovers
    <3> QED BY <3>2, <3>4, <3>5, <3>7 DEF FileOK
  <2> QED BY <2>4, <2>5 DEF FileInv
<1>24. ASSUME Restart PROVE FileInv'
  <2>1. \A d \in Call : call'[d] = Quiet
    BY <1>24 DEF Restart
  <2>2. Quiet.pc = "idle" /\ Quiet.kind = "none"
    BY DEF Quiet
  <2>3. SharesApart'
    BY <2>1, <2>2 DEF SharesApart, ShareLoads
  <2>4. ASSUME NEW i \in Item \ hurt' PROVE FileOK(i)'
    <3>1. i \notin hurt /\ file' = file /\ \A d \in Call : Of(d, i) => call[d].pc # "receiving"
      BY <1>24, <2>4 DEF Restart, Receives, Of
    <3>2. PartIsWritten(i)'
      BY <3>1 DEF FileInv, FileOK, PartIsWritten
    <3> QED BY <2>1, <2>2, <3>2 DEF FileOK, OneUnsettled, StateOfFile, FlagCovers, Unsettled, ShareLoads, Loads, Receives
  <2> QED BY <2>3, <2>4 DEF FileInv
<1>25. CASE UNCHANGED vars
  BY <1>25, FileStays DEF vars
<1> QED
  BY <1>1, <1>2, <1>3, <1>4, <1>5, <1>6, <1>7, <1>8, <1>9, <1>10, <1>11, <1>12, <1>13, <1>14, <1>15, <1>16, <1>17, <1>18, <1>19, <1>20, <1>21, <1>22, <1>23, <1>24, <1>25 DEF Next, Step, Complete

(* No part of an audio is played or shared for the whole, but of a file whose
   downloads failed or crossed.                                            *)
THEOREM AlwaysWholeFiles == Spec => []OnlyWholeFiles
<1>1. Init => FileInv
  <2> SUFFICES ASSUME Init PROVE FileInv
    OBVIOUS
  <2>1. \A c \in Call : call[c].pc = "idle" /\ call[c].kind = "none"
    BY DEF Init, Quiet
  <2> QED BY <2>1 DEF Init, FileInv, SharesApart, ShareLoads, FileOK, OneUnsettled, PartIsWritten, StateOfFile,
             FlagCovers, Unsettled
<1>2. Typed /\ FileInv => OnlyWholeFiles
  <2> SUFFICES ASSUME Typed, FileInv, NEW c \in Call, call[c].pc \in {"preparing", "sharing"},
                      file[call[c].item] = "part", call[c].item \notin hurt
               PROVE  FALSE
    BY DEF OnlyWholeFiles
  <2>1. call[c].item \in Item
    BY TypedParts DEF HandlerOK
  <2> QED BY <2>1 DEF FileInv, FileOK, StateOfFile, Of
<1> QED BY <1>1, <1>2, InitTyped, TypedNext, FileInvNext, PTL DEF Spec

(* The one step that opens the file of a download, and the ones that end it:
   the file of all others stays.                                           *)
LEMMA FileMoves ==
  ASSUME Typed, Next, NEW i \in Item, file'[i] # file[i]
  PROVE  \E c \in Call : /\ call[c].item = i /\ hurt' = hurt
                         /\ \/ call[c].pc = "asked" /\ file'[i] = "part"
                            \/ call[c].pc = "receiving" /\ file'[i] = "whole"
<1> USE TypedParts
<1>1. \E c \in Call : \/ Open(c)
                      \/ Receives(c) /\ Write(c) /\ hurt' = hurt
  BY DEF Next, Step, Complete, Tap, TapStopped, StopAll, AllStopped, CompleteNext, CompleteLast, Completed, Found,
         Missed, Prepared, Unprepared, SetItems, SetAutoPlay, Dispose, Share, ShareFound, ShareMissed, Shared,
         ListReceived, ListReceivedSilently, ShareReceived, Fail, Restart
<1>2. ASSUME NEW c \in Call, Open(c)
      PROVE  call[c].item = i /\ hurt' = hurt /\ call[c].pc = "asked" /\ file'[i] = "part"
  BY <1>2 DEF Open, Rest
<1>3. ASSUME NEW c \in Call, Receives(c), Write(c)
      PROVE  call[c].item = i /\ call[c].pc = "receiving" /\ file'[i] = "whole"
  BY <1>3 DEF Write, Rest
<1> QED BY <1>1, <1>2, <1>3

(* A file a download writes has been opened, and is never deleted.         *)
Opened == \A c \in Call : call[c].pc = "receiving" => file[call[c].item] # "none"

(* Every step keeps Opened.                                                *)
LEMMA OpenedNext == Typed /\ Opened /\ [Next]_vars => Opened'
<1> SUFFICES ASSUME Typed, Opened, [Next]_vars, NEW d \in Call, call'[d].pc = "receiving"
             PROVE  file'[call'[d].item] # "none"
  BY DEF Opened
<1> USE TypedParts
<1>1. CASE vars' = vars
  BY <1>1 DEF vars, Opened
<1>2. ASSUME Next
      PROVE  (\E c \in Call : Open(c)) \/ call'[d] = call[d]
  <2>1. Quiet.pc = "idle"
    BY DEF Quiet
  <2>2. ASSUME NEW c \in Call, Step(c), ~Open(c) PROVE call'[d] = call[d]
    <3>1. \A e \in Call \ {c} : call'[e] = call[e]
      BY <2>2 DEF Step, TapStopped, AllStopped, Found, Missed, Prepared, Unprepared, ShareFound, ShareMissed, Shared,
                  ListReceived, ListReceivedSilently, ShareReceived, Fail, Goto, Finish
    <3>2. call'[c].pc # "receiving"
      <4>1. call[c] \in Handler /\ Handler = [pc : {"idle", "stopping", "checking", "asked", "receiving", "overtaken",
                                                    "preparing", "sharing"},
                                              kind : {"none", "tap", "play", "list", "stop", "share"},
                                              item : Item \cup {Nobody}, index : Nat]
        BY DEF Handler
      <4>2. CASE TapStopped(c) \/ AllStopped(c) \/ Prepared(c) \/ Unprepared(c) \/ Shared(c)
        BY <2>1, <4>1, <4>2 DEF TapStopped, AllStopped, Prepared, Unprepared, Shared, Finish
      <4>3. CASE Found(c) \/ Missed(c) \/ ShareFound(c) \/ ShareMissed(c)
        BY <4>1, <4>3 DEF Found, Missed, ShareFound, ShareMissed, Goto
      <4>4. CASE ListReceived(c) \/ ListReceivedSilently(c) \/ ShareReceived(c) \/ Fail(c)
        BY <2>1, <4>1, <4>4 DEF ListReceived, ListReceivedSilently, ShareReceived, Fail, Goto, Finish
      <4> QED BY <2>2, <4>2, <4>3, <4>4 DEF Step
    <3> QED BY <3>1, <3>2
  <2>3. ASSUME NEW c \in Call, StopAll(c) \/ CompleteNext(c) \/ \E n \in 1..Len(order) : Tap(c, n)
        PROVE  call'[d] = call[d]
    <3>1. CASE StopAll(c)
      BY <3>1 DEF StopAll, Begin
    <3>2. CASE CompleteNext(c)
      BY <3>2 DEF CompleteNext, Begin
    <3>3. ASSUME NEW n \in 1..Len(order), Tap(c, n) PROVE call'[d] = call[d]
      <4>1. CASE d = c
        BY <3>3, <4>1 DEF Tap, Begin
      <4>2. CASE d # c
        BY <3>3, <4>2 DEF Tap, Begin
      <4> QED BY <4>1, <4>2
    <3> QED BY <2>3, <3>1, <3>2, <3>3
  <2>4. ASSUME NEW c \in Call, NEW i \in Item, Share(c, i) PROVE call'[d] = call[d]
    BY <2>4 DEF Share, Begin
  <2>5. CASE CompleteLast \/ Completed \/ SetItems \/ SetAutoPlay \/ Dispose \/ Restart
    BY <2>1, <2>5 DEF CompleteLast, Completed, SetItems, SetAutoPlay, Dispose, Restart
  <2> QED
    BY <1>2, <2>2, <2>3, <2>4, <2>5 DEF Next, Complete
<1>3. ASSUME NEW c \in Call, Open(c) PROVE file'[call'[d].item] # "none"
  <2>1. file' = [file EXCEPT ![call[c].item] = "part"]
    BY <1>3 DEF Open
  <2>2. call'[d].item = call[d].item /\ (d = c \/ call'[d] = call[d])
    BY <1>3 DEF Open, Handler
  <2>3. call[c].item \in Item
    BY <1>3 DEF Open, HandlerOK
  <2> QED BY <2>1, <2>2, <2>3 DEF Opened, Rest
<1>4. ASSUME Next, call'[d] = call[d] PROVE file'[call'[d].item] # "none"
  <2>1. call[d].item \in Item
    BY <1>4 DEF HandlerOK
  <2>2. CASE file'[call[d].item] = file[call[d].item]
    BY <1>4, <2>2 DEF Opened
  <2>3. CASE file'[call[d].item] # file[call[d].item]
    BY <1>4, <2>1, <2>3, FileMoves
  <2> QED BY <2>2, <2>3
<1> QED BY <1>1, <1>2, <1>3, <1>4

(* What is cached of an audio is only ever completed, but for the files whose
   downloads failed or crossed: a part of one is what its only download is
   writing, which nothing opens again.                                     *)
LEMMA OnlyCompleted ==
  Typed /\ FileInv /\ Opened /\ [Next]_vars =>
    [\A i \in Item \ hurt' : file'[i] # file[i] =>
       <<file[i], file'[i]>> \in {<<"none", "part">>, <<"part", "whole">>}]_vars
<1> SUFFICES ASSUME Typed, FileInv, Opened, Next, NEW i \in Item \ hurt', file'[i] # file[i]
             PROVE  <<file[i], file'[i]>> \in {<<"none", "part">>, <<"part", "whole">>}
  BY DEF vars
<1>1. PICK c \in Call : /\ call[c].item = i /\ hurt' = hurt
                        /\ \/ call[c].pc = "asked" /\ file'[i] = "part"
                           \/ call[c].pc = "receiving" /\ file'[i] = "whole"
  BY FileMoves
<1>2. FileOK(i)
  BY <1>1 DEF FileInv
<1>3. file[i] \in {"none", "part", "whole"}
  BY TypedParts DEF Rest
<1>4. CASE call[c].pc = "asked"
  BY <1>1, <1>2, <1>4 DEF FileOK, StateOfFile, Of
<1>5. CASE call[c].pc = "receiving"
  BY <1>1, <1>3, <1>5 DEF Opened
<1> QED BY <1>1, <1>4, <1>5

(* An audio is downloaded once, with the exceptions hurt names.            *)
THEOREM AudioDownloadedOnce == Spec => DownloadedOnce
<1>1. Init => FileInv /\ Opened
  <2> SUFFICES ASSUME Init PROVE FileInv /\ Opened
    OBVIOUS
  <2>1. \A c \in Call : call[c].pc = "idle" /\ call[c].kind = "none"
    BY DEF Init, Quiet
  <2> QED BY <2>1 DEF Init, FileInv, SharesApart, ShareLoads, FileOK, OneUnsettled, PartIsWritten, StateOfFile,
             FlagCovers, Unsettled, Opened
<1> QED BY <1>1, OnlyCompleted, OpenedNext, InitTyped, TypedNext, FileInvNext, PTL DEF Spec, DownloadedOnce
=============================================================================
