------------------------------- MODULE AudioList -------------------------------
(***************************************************************************)
(* A list of audios with its one player (pages/audio/audios_list_widget),  *)
(* and the sharing of an audio (AppBloc.shareAudio), on a phone.           *)
(*                                                                         *)
(* Both cache an audio in the same file, which they take for whole as soon *)
(* as it exists.  A tap, the end of an audio, stopAll and a share are      *)
(* handlers that suspend at every await: for the player to stop, for a     *)
(* look at the file, for a download, for the player to be prepared.        *)
(***************************************************************************)
EXTENDS Naturals, Sequences

CONSTANTS
  Item,     \* the audios
  Call,     \* the handlers that may be under way at once (a bound)
  Orders,   \* the lists setItems and the shuffle may show
  Nobody    \* null for an item

ASSUME AudioAssumption ==
  /\ Item # {} /\ Nobody \notin Item
  /\ Orders # {} /\ Orders \subseteq Seq(Item)
  /\ Call # {} /\ Call \subseteq Nat

VARIABLES
  order,       \* widget.items
  autoPlay,    \* widget.isAutoPlay
  mounted,     \* is the list on screen?
  shown,       \* playingItem and playingItemIndex
  downloading, \* isDownloading of the bloc, which refuses taps (that of the list is only drawn)
  player,      \* the AudioPlayer
  ended,       \* is an onPlayerComplete event on its way?
  file,        \* the cached files
  call,        \* the handlers
  hurt         \* history: files whose downloads failed or were not kept apart

vars == <<order, autoPlay, mounted, shown, downloading, player, ended, file, call, hurt>>

Nothing == [item |-> Nobody, index |-> 0]
Quiet == [pc |-> "idle", kind |-> "none", item |-> Nobody, index |-> 0]

(* source and desired are the player's own; late: was the source set while
   the list showed another item, or while a stop was awaited or the event
   of an earlier end on its way?                                           *)
Silent == [source |-> Nobody, desired |-> FALSE, on |-> FALSE, late |-> FALSE]

Init ==
  /\ order \in Orders /\ autoPlay \in BOOLEAN
  /\ mounted = TRUE /\ shown = Nothing /\ downloading = FALSE
  /\ player = Silent /\ ended = FALSE
  /\ file \in [Item -> {"none", "whole"}]
  /\ call = [c \in Call |-> Quiet]
  /\ hurt = {}

IsIdle(c) == call[c].pc = "idle"
(* Handlers take the first free place; those of the user leave one free for
   the end of an audio.                                                    *)
Free(c) == IsIdle(c) /\ \A d \in Call : d < c => ~IsIdle(d)
MayBegin(c) == Free(c) /\ \E d \in Call \ {c} : IsIdle(d)

Goto(c, pc) == [call EXCEPT ![c].pc = pc]
Finish(c) == [call EXCEPT ![c] = Quiet]
Receives(d) == call[d].pc \in {"receiving", "overtaken"}
Loads(d) == call[d].pc = "asked" \/ Receives(d)

(* A handler for item i begins while another has not yet settled whether
   its file is there, or downloads it unseen by the flag of the bloc: that
   of the list always, that of a share for the end of an audio, which does
   not look at the flag.                                                   *)
Meets(seen, i) ==
  \E d \in Call : /\ call[d].item = i
                  /\ \/ call[d].pc \in {"stopping", "checking"}
                     \/ Loads(d) /\ (call[d].kind # "share" \/ ~seen)

(* Handler c begins; it keeps the index n of a tapped item for later.      *)
Begin(c, kind, i, n, pc) ==
  call' = [call EXCEPT ![c] = [pc |-> pc, kind |-> kind, item |-> i, index |-> n]]
HurtBy(seen, i) == hurt' = IF Meets(seen, i) THEN hurt \cup {i} ELSE hurt

-----------------------------------------------------------------------------
(* The player (package audioplayers).                                      *)

(* play: the source is set at once, and the player resumes when prepared if
   nothing stopped it meanwhile.  One that was playing may go on with the
   new source.                                                             *)
Play(i) ==
  \E on \in {FALSE, player.on} :
    player' = [source |-> i, desired |-> TRUE, on |-> on,
               late |-> shown.item # i \/ ended \/ \E d \in Call : call[d].pc = "stopping"]

(* Mutant: nothing is stopped.                                             *)
HaltedNot == player
Halted == Silent

(* The audio ends by itself: in the model, while a place is free for the
   handler of the event.                                                   *)
Completed ==
  /\ player.on /\ \E c \in Call : IsIdle(c)
  /\ player' = Halted
  /\ ended' = TRUE
  /\ UNCHANGED <<order, autoPlay, mounted, shown, downloading, file, call, hurt>>

-----------------------------------------------------------------------------
(* Handlers of the list.                                                   *)

(* Mutant of the two assignments: the index is kept.                       *)
ClearedItem == [shown EXCEPT !.item = Nobody]
Cleared == Nothing

(* player.stop() has returned, after the events the player sent before.  It
   may overwrite what the player was asked since.                          *)
StopReturns ==
  /\ ~ended
  /\ \/ UNCHANGED player
     \/ player' = IF player.on THEN [player EXCEPT !.desired = FALSE] ELSE Halted

(* A tap on the item at position n: not while the bloc downloads.
   Mutant: without the look at the flag.                                   *)
MayTapAlways == TRUE
MayTap == ~downloading
Tap(c, n) ==
  LET i == order[n] IN
  /\ mounted /\ MayTap /\ MayBegin(c)
  /\ HurtBy(TRUE, i)
  /\ \/ /\ shown.item # Nobody
        /\ player' = Halted
        /\ Begin(c, "tap", i, n, "stopping")
        /\ UNCHANGED shown
     \/ /\ shown.item = Nobody
        /\ shown' = [item |-> i, index |-> n]
        /\ Begin(c, "play", i, 0, "checking")
        /\ UNCHANGED player
  /\ UNCHANGED <<order, autoPlay, mounted, downloading, ended, file>>

(* After the await the tap looks at what is shown anew.                     *)
TapStopped(c) ==
  /\ call[c].kind = "tap" /\ call[c].pc = "stopping"
  /\ StopReturns
  /\ \/ /\ shown.item # call[c].item
        /\ shown' = [item |-> call[c].item, index |-> call[c].index]
        /\ call' = [call EXCEPT ![c].pc = "checking", ![c].kind = "play", ![c].index = 0]
     \/ /\ shown.item = call[c].item
        /\ shown' = Cleared
        /\ call' = Finish(c)
  /\ UNCHANGED <<order, autoPlay, mounted, downloading, ended, file, hurt>>

(* stopAll, from a search or a switch to the videos.                       *)
StopAll(c) ==
  /\ mounted /\ MayBegin(c)
  /\ player' = Halted
  /\ Begin(c, "stop", Nobody, 0, "stopping")
  /\ UNCHANGED <<order, autoPlay, mounted, shown, downloading, ended, file, hurt>>

AllStopped(c) ==
  /\ call[c].kind = "stop" /\ call[c].pc = "stopping"
  /\ StopReturns
  /\ shown' = Cleared
  /\ call' = Finish(c)
  /\ UNCHANGED <<order, autoPlay, mounted, downloading, ended, file, hurt>>

(* onPlayerComplete: the next item, if there is one, or nothing.           *)
CompleteNext(c) ==
  /\ ended /\ autoPlay /\ shown # Nothing /\ shown.index + 1 <= Len(order)
  /\ Free(c)
  /\ shown' = [item |-> order[shown.index + 1], index |-> shown.index + 1]
  /\ HurtBy(FALSE, order[shown.index + 1])
  /\ Begin(c, "play", order[shown.index + 1], 0, "checking")
  /\ ended' = FALSE
  /\ UNCHANGED <<order, autoPlay, mounted, downloading, player, file>>

CompleteLast ==
  /\ ended /\ ~(autoPlay /\ shown # Nothing /\ shown.index + 1 <= Len(order))
  /\ shown' = Cleared
  /\ ended' = FALSE
  /\ UNCHANGED <<order, autoPlay, mounted, downloading, player, file, call, hurt>>

(* playItem: audioFile.exists() has answered a tap or the end of an audio.  *)
Found(c) ==
  /\ call[c].kind = "play" /\ call[c].pc = "checking"
  /\ file[call[c].item] # "none"
  /\ Play(call[c].item)
  /\ call' = Goto(c, "preparing")
  /\ UNCHANGED <<order, autoPlay, mounted, shown, downloading, ended, file, hurt>>

Missed(c) ==
  /\ call[c].kind = "play" /\ call[c].pc = "checking"
  /\ file[call[c].item] = "none"
  /\ call' = [call EXCEPT ![c].pc = "asked", ![c].kind = "list"]
  /\ UNCHANGED <<order, autoPlay, mounted, shown, downloading, player, ended, file, hurt>>

(* player.play has returned, to playItem or to the callback of a download.
   The player resumes unless something stopped it.                         *)
Prepared(c) ==
  /\ call[c].pc = "preparing"
  /\ player' = [player EXCEPT !.on = @ \/ player.desired]
  /\ call' = Finish(c)
  /\ UNCHANGED <<order, autoPlay, mounted, shown, downloading, ended, file, hurt>>

(* The player is not prepared in time, or cannot play the file: play throws. *)
Unprepared(c) ==
  /\ call[c].pc = "preparing"
  /\ call' = Finish(c)
  /\ UNCHANGED <<order, autoPlay, mounted, shown, downloading, player, ended, file, hurt>>

SetItems ==
  /\ mounted /\ order' \in Orders \ {order}
  /\ UNCHANGED <<autoPlay, mounted, shown, downloading, player, ended, file, call, hurt>>

SetAutoPlay ==
  /\ mounted /\ autoPlay' = ~autoPlay
  /\ UNCHANGED <<order, mounted, shown, downloading, player, ended, file, call, hurt>>

(* dispose of the list, and of the player with it.  What its handlers still
   do is nothing, or throws, but for the downloads that go on.             *)
Dispose ==
  /\ mounted /\ mounted' = FALSE
  /\ call' = [c \in Call |-> IF Loads(c) \/ call[c].kind = "share" THEN call[c] ELSE Quiet]
  /\ shown' = Nothing
  /\ player' = Silent /\ ended' = FALSE
  /\ UNCHANGED <<order, autoPlay, downloading, file, hurt>>

-----------------------------------------------------------------------------
(* Sharing.                                                                *)

Share(c, i) ==
  /\ MayTap /\ MayBegin(c)
  /\ HurtBy(TRUE, i)
  /\ Begin(c, "share", i, 0, "checking")
  /\ UNCHANGED <<order, autoPlay, mounted, shown, downloading, player, ended, file>>

ShareFound(c) ==
  /\ call[c].kind = "share" /\ call[c].pc = "checking"
  /\ file[call[c].item] # "none"
  /\ call' = Goto(c, "sharing")
  /\ UNCHANGED <<order, autoPlay, mounted, shown, downloading, player, ended, file, hurt>>

(* The flag is one for all downloads: the first to end clears it.          *)
ShareMissed(c) ==
  LET others == {d \in Call : call[d].kind = "share" /\ Loads(d)} IN
  /\ call[c].kind = "share" /\ call[c].pc = "checking"
  /\ file[call[c].item] = "none"
  /\ downloading' = TRUE
  /\ call' = Goto(c, "asked")
  /\ hurt' = IF others = {} THEN hurt ELSE hurt \cup {call[d].item : d \in others \cup {c}}
  /\ UNCHANGED <<order, autoPlay, mounted, shown, player, ended, file>>

(* The share sheet, and the callback.                                      *)
Shared(c) ==
  /\ call[c].pc = "sharing"
  /\ call' = Finish(c)
  /\ UNCHANGED <<order, autoPlay, mounted, shown, downloading, player, ended, file, hurt>>

-----------------------------------------------------------------------------
(* downloadFromUrlToPath.                                                  *)

(* The answer has begun: the file is opened, and what it held is gone, also
   what a download that opened it before had written.                      *)
Open(c) ==
  LET i == call[c].item IN
  /\ call[c].pc = "asked"
  /\ file' = [file EXCEPT ![i] = "part"]
  /\ call' = [d \in Call |->
                IF d = c THEN [call[d] EXCEPT !.pc = "receiving"]
                ELSE IF Receives(d) /\ call[d].item = i THEN [call[d] EXCEPT !.pc = "overtaken"]
                ELSE call[d]]
  /\ UNCHANGED <<order, autoPlay, mounted, shown, downloading, player, ended, hurt>>

(* All is received.  Of several that write one file, the one that opened it
   last fills the gaps of the others.                                      *)
Write(c) == file' = IF call[c].pc = "receiving" THEN [file EXCEPT ![call[c].item] = "whole"] ELSE file

(* rcv == total calls complete() of the list, ...                          *)
ListReceived(c) ==
  /\ call[c].kind = "list" /\ Receives(c) /\ mounted
  /\ Write(c)
  /\ Play(call[c].item)
  /\ call' = [call EXCEPT ![c].pc = "preparing", ![c].kind = "play"]
  /\ UNCHANGED <<order, autoPlay, mounted, shown, downloading, ended, hurt>>

(* ... unless the server names no total, or the list is gone.              *)
ListReceivedSilently(c) ==
  /\ call[c].kind = "list" /\ Receives(c)
  /\ Write(c)
  /\ call' = Finish(c)
  /\ UNCHANGED <<order, autoPlay, mounted, shown, downloading, player, ended, hurt>>

ShareReceived(c) ==
  /\ call[c].kind = "share" /\ Receives(c)
  /\ Write(c)
  /\ downloading' = FALSE
  /\ call' = Goto(c, "sharing")
  /\ UNCHANGED <<order, autoPlay, mounted, shown, player, ended, hurt>>

(* The connection fails; deleteOnError is false.  shareAudio catches it.
   Mutant: the flag is cleared with the success only.                      *)
DownloadingStill(c) == downloading
DownloadingAfter(c) == downloading /\ call[c].kind # "share"
Fail(c) ==
  LET i == call[c].item IN
  /\ Loads(c)
  /\ downloading' = DownloadingAfter(c)
  /\ hurt' = IF Receives(c) THEN hurt \cup {i} ELSE hurt
  /\ call' = Finish(c)
  /\ UNCHANGED <<order, autoPlay, mounted, shown, player, ended, file>>

(* The process dies and the app is opened again.                           *)
Restart ==
  /\ hurt' = hurt \cup {call[c].item : c \in {d \in Call : Receives(d)}}
  /\ call' = [c \in Call |-> Quiet]
  /\ mounted' = TRUE /\ shown' = Nothing /\ downloading' = FALSE
  /\ player' = Silent /\ ended' = FALSE
  /\ UNCHANGED <<order, autoPlay, file>>

-----------------------------------------------------------------------------
Step(c) ==
  \/ TapStopped(c) \/ AllStopped(c) \/ Found(c) \/ Missed(c) \/ Prepared(c) \/ Unprepared(c)
  \/ ShareFound(c) \/ ShareMissed(c) \/ Shared(c)
  \/ Open(c) \/ ListReceived(c) \/ ListReceivedSilently(c) \/ ShareReceived(c) \/ Fail(c)

Complete == CompleteLast \/ \E c \in Call : CompleteNext(c)

Next ==
  \/ \E c \in Call : Step(c) \/ StopAll(c)
  \/ \E c \in Call, n \in 1..Len(order) : Tap(c, n)
  \/ \E c \in Call, i \in Item : Share(c, i)
  \/ Complete \/ Completed
  \/ SetItems \/ SetAutoPlay \/ Dispose \/ Restart

(* The platform answers every call, every download ends, one way or another. *)
Fairness == \A c \in Call : WF_vars(Step(c))

Spec == Init /\ [][Next]_vars
FairSpec == Spec /\ Fairness

-----------------------------------------------------------------------------
(* Types of the variables.                                                 *)
TypeOK ==
  /\ order \in Orders
  /\ autoPlay \in BOOLEAN /\ mounted \in BOOLEAN
  /\ downloading \in BOOLEAN /\ ended \in BOOLEAN
  /\ shown \in {Nothing} \cup [item : Item, index : Nat \ {0}]
  /\ player \in [source : Item \cup {Nobody}, desired : BOOLEAN, on : BOOLEAN, late : BOOLEAN]
  /\ file \in [Item -> {"none", "part", "whole"}]
  /\ call \in [Call -> [pc : {"idle", "stopping", "checking", "asked", "receiving", "overtaken", "preparing", "sharing"},
                        kind : {"none", "tap", "play", "list", "stop", "share"},
                        item : Item \cup {Nobody}, index : Nat]]
  /\ hurt \subseteq Item

(* What plays is what the list shows as playing, unless the handler that
   started it was overtaken: by another that shows its own item, by one that
   is stopping the player, or by the event that an earlier audio ended.    *)
PlaysShown == player.on /\ ~player.late => player.source = shown.item

(* No part of an audio is played or shared for the whole: the flag of the
   bloc keeps taps off a file a share is writing.  The exceptions are the
   ones hurt names: a download of the file failed or died, two handlers
   looked for it or downloaded it at once, or two shares shared the flag.  *)
OnlyWholeFiles ==
  \A c \in Call :
    call[c].pc \in {"preparing", "sharing"} /\ file[call[c].item] = "part" => call[c].item \in hurt

(* An audio is downloaded once: what is cached of it is only ever completed,
   never emptied or cut short again, by no tap, end of an audio, share or
   death of the process, with the exceptions hurt names.                   *)
DownloadedOnce ==
  [][\A i \in Item \ hurt' : file'[i] # file[i] =>
       <<file[i], file'[i]>> \in {<<"none", "part">>, <<"part", "whole">>}]_vars

(* Taps are refused only for a time: every way out of a download clears the
   flag of the bloc.                                                       *)
FlagEnds == downloading ~> ~downloading
=============================================================================
