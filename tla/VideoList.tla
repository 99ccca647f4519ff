------------------------------ MODULE VideoList ------------------------------
(***************************************************************************)
(* The videos of a list: the State of every card                           *)
(* (lib/redesign/pages/video/base_video_widget.dart), the                  *)
(* VideoControllerManager they share and the autoplay of the list          *)
(* (pages/video/video_list_widget.dart).                                   *)
(*                                                                         *)
(* A card makes a VideoPlayerController and initializes it over the         *)
(* network; a tap or the autoplay timer asks the manager to pause the other *)
(* videos, rewinds the own one and plays it.  Every await lets other taps,  *)
(* timers, rebuilds and answers of the player run.  The plugin is external: *)
(* play() and pause() set value.isPlaying before they wait for the platform,*)
(* and a disposed controller neither seeks nor plays.                       *)
(***************************************************************************)
EXTENDS Naturals, FiniteSets

CONSTANTS
  Alias,          \* aliases of the items
  Widget,         \* States of cards; one is mounted and disposed once
  AliasOf,        \* the item of a State; its key, so it never changes
  None,           \* null
  MaxControllers, \* bound: controllers ever made
  MaxOps          \* bound: taps, autoplays and stops

ASSUME VideoAssumption ==
  /\ AliasOf \in [Widget -> Alias]
  /\ None \notin Alias
  /\ MaxControllers \in Nat /\ MaxOps \in Nat

Ctl == 1..MaxControllers   \* 0 is null
Op == 1..MaxOps
maxRetries == 2

VARIABLES
  web,          \* kIsWeb
  card,         \* the State of every card
  ctl,          \* the controllers
  init,         \* what the invocation of _initializePlayer for one awaits
  registered,   \* _controllers of the manager
  current,      \* _currentController
  currentAlias, \* _currentAlias
  op,           \* playback operations: what each awaits
  open,         \* the list is mounted
  made, ops,    \* counters of the bounds
  overlapped,   \* history: an operation was started while another was suspended, or
                \* the URL changed of a card that showed its video as playing
  orphaned      \* history: an initialization went on for a URL or a card that is gone

manager == <<registered, current, currentAlias>>
history == <<overlapped, orphaned>>
vars == <<web, card, ctl, init, manager, op, open, made, ops, history>>

-----------------------------------------------------------------------------
Card == [mounted : {"new", "yes", "no"}, controller : Ctl \cup {0}, isPlaying : BOOLEAN,
         isInitializing : BOOLEAN, isPlayerInitialized : BOOLEAN, hasError : BOOLEAN,
         retryCount : 0..maxRetries]
NewCard == [mounted |-> "new", controller |-> 0, isPlaying |-> FALSE, isInitializing |-> FALSE,
            isPlayerInitialized |-> FALSE, hasError |-> FALSE, retryCount |-> 0]

Controller == [owner : Widget \cup {None}, status : {"unused", "creating", "ready", "failed"},
               disposed : BOOLEAN, playing : BOOLEAN]
Unused == [owner |-> None, status |-> "unused", disposed |-> FALSE, playing |-> FALSE]

Operation == [pc : {"idle", "initialize", "pauseOthers", "seek", "pauseOwn", "stop"},
              widget : Widget \cup {None}, ctl : Ctl \cup {0}]
NoOp == [pc |-> "idle", widget |-> None, ctl |-> 0]

Mounted(w) == card[w].mounted = "yes"
Initialized(c) == c # 0 /\ ctl[c].status = "ready"
Playing == {c \in Ctl : ctl[c].playing /\ ctl[c].status = "ready"}   \* a picture that moves
Busy == \E o \in Op : op[o].pc # "idle"

Init ==
  /\ web \in BOOLEAN
  /\ card = [w \in Widget |-> NewCard]
  /\ ctl = [c \in Ctl |-> Unused]
  /\ init = [c \in Ctl |-> "none"]
  /\ registered = [a \in Alias |-> 0] /\ current = 0 /\ currentAlias = None
  /\ op = [o \in Op |-> NoOp] /\ open = TRUE
  /\ made = 0 /\ ops = 0
  /\ overlapped = FALSE /\ orphaned = FALSE

-----------------------------------------------------------------------------
(* value.isPlaying of some controllers changes, and _onPlayerStateChanged of
   the mounted cards that hold them follows.                               *)
SetPlaying(on, off) ==
  /\ ctl' = [c \in Ctl |-> [ctl[c] EXCEPT !.playing = (@ \/ c \in on) /\ c \notin off]]
  /\ card' = [w \in Widget |->
       IF Mounted(w) /\ card[w].controller \in on \cup off
       THEN [card[w] EXCEPT !.isPlaying = card[w].controller \in on] ELSE card[w]]

(* A controller for w, which replaces the one w holds without disposing it. *)
Create(w, c, new) ==
  /\ c = made + 1 /\ made' = c
  /\ ctl' = [ctl EXCEPT ![c] = [Unused EXCEPT !.owner = w, !.status = "creating"]]
  /\ card' = [card EXCEPT ![w] = [new EXCEPT !.controller = c, !.isInitializing = TRUE]]

(* The guard of _initializePlayer.  Mutant: it looks at one flag only.     *)
MayInitializeTwice(w) == ~card[w].isPlayerInitialized
MayInitialize(w) == ~card[w].isPlayerInitialized /\ ~card[w].isInitializing

(* _disposeController with unregisterController, which disposes too.
   Mutant: the card does not tell the manager.                             *)
ReleaseUntold(w, new) ==
  LET gone == {card[w].controller} IN
  /\ ctl' = [c \in Ctl |-> IF c \in gone THEN [ctl[c] EXCEPT !.disposed = TRUE, !.playing = FALSE] ELSE ctl[c]]
  /\ card' = [card EXCEPT ![w] = [new EXCEPT !.controller = 0]]
  /\ UNCHANGED manager
Release(w, new) ==
  LET entry == registered[AliasOf[w]]
      gone == IF card[w].controller = 0 THEN {} ELSE {card[w].controller, entry}
  IN
  /\ ctl' = [c \in Ctl |-> IF c \in gone THEN [ctl[c] EXCEPT !.disposed = TRUE, !.playing = FALSE] ELSE ctl[c]]
  /\ card' = [card EXCEPT ![w] = [new EXCEPT !.controller = 0]]
  /\ IF gone = {} THEN UNCHANGED manager
     ELSE /\ registered' = [registered EXCEPT ![AliasOf[w]] = 0]
          /\ IF entry # 0 /\ current = entry THEN current' = 0 /\ currentAlias' = None
             ELSE UNCHANGED <<current, currentAlias>>

-----------------------------------------------------------------------------
(* The life of a card.                                                     *)

(* initState: a phone initializes at once, a browser when tapped.          *)
Mount(w) ==
  /\ open /\ card[w].mounted = "new"
  /\ \A v \in Widget : Mounted(v) => AliasOf[v] # AliasOf[w]
  /\ IF web THEN card' = [card EXCEPT ![w].mounted = "yes"] /\ UNCHANGED <<ctl, init, made>>
     ELSE \E c \in Ctl : Create(w, c, [card[w] EXCEPT !.mounted = "yes"])
                         /\ init' = [init EXCEPT ![c] = "initialize"]
  /\ UNCHANGED <<web, manager, op, ops, open, history>>

(* dispose.  Mutant: the controller is forgotten.                          *)
UnmountForgetful(w) ==
  /\ Mounted(w) /\ card' = [card EXCEPT ![w].mounted = "no"]
  /\ UNCHANGED <<web, ctl, init, manager, op, made, ops, open, history>>
Unmount(w) ==
  /\ Mounted(w) /\ Release(w, [card[w] EXCEPT !.mounted = "no"])
  /\ UNCHANGED <<web, init, op, made, ops, open, history>>

(* didUpdateWidget, when a refresh changed the URL.  _isPlaying stays, so
   that the next tap on a video that played pauses the new player, and the
   manager forgets whichever video is current.                             *)
UpdateWidget(w) ==
  /\ Mounted(w) /\ ops < MaxOps /\ ops' = ops + 1
  /\ Release(w, [card[w] EXCEPT !.isPlayerInitialized = FALSE, !.isInitializing = FALSE])
  /\ orphaned' = (orphaned \/ \E c \in Ctl : ctl[c].owner = w /\ init[c] # "none")
  /\ overlapped' = (overlapped \/ card[w].isPlaying)
  /\ UNCHANGED <<web, init, op, made, open>>

(* The list is left: the cards are unmounted first, then the manager
   disposes what is registered.                                            *)
CloseList ==
  /\ open /\ open' = FALSE
  /\ \A w \in Widget : ~Mounted(w)
  /\ ctl' = [c \in Ctl |-> IF \E a \in Alias : registered[a] = c
                           THEN [ctl[c] EXCEPT !.disposed = TRUE, !.playing = FALSE] ELSE ctl[c]]
  /\ registered' = [a \in Alias |-> 0] /\ current' = 0 /\ currentAlias' = None
  /\ UNCHANGED <<web, card, init, op, made, ops, history>>

-----------------------------------------------------------------------------
(* The rest of _initializePlayer.                                          *)

Initializing(c) == init[c] \in {"initialize", "simpler"}
Finished(c, status) == [ctl EXCEPT ![c].status = status]

(* initialize() returned, but the card is gone.                            *)
InitUnmounted(c) ==
  /\ Initializing(c) /\ ~Mounted(ctl[c].owner)
  /\ ctl' = Finished(c, "ready") /\ init' = [init EXCEPT ![c] = "none"]
  /\ UNCHANGED <<web, card, manager, op, made, ops, open, history>>

(* What follows looks at _controller again, which may be another one by now. *)
InitOk(c) ==
  LET w == ctl[c].owner
      r == card[w].controller
  IN
  /\ Initializing(c) /\ Mounted(w) /\ card[w].controller # 0
  /\ ctl' = Finished(c, "ready")
  /\ registered' = IF ctl'[r].status = "ready" THEN [registered EXCEPT ![AliasOf[w]] = r] ELSE registered
  /\ card' = [card EXCEPT ![w].isInitializing = FALSE, ![w].hasError = FALSE, ![w].isPlayerInitialized = TRUE]
  /\ init' = [init EXCEPT ![c] = "none"]
  /\ UNCHANGED <<web, current, currentAlias, op, made, ops, open, history>>

(* The end of the catch: wait and retry, or show the error.
   Mutant: one retry too many.                                             *)
CaughtOnceMore(c) ==
  LET w == ctl[c].owner IN
  /\ IF Mounted(w) /\ card[w].retryCount <= maxRetries
     THEN /\ card' = [card EXCEPT ![w].retryCount = @ + 1]
          /\ init' = [init EXCEPT ![c] = "delay"]
     ELSE /\ card' = IF Mounted(w) THEN [card EXCEPT ![w].hasError = TRUE, ![w].isInitializing = FALSE] ELSE card
          /\ init' = [init EXCEPT ![c] = "none"]
  /\ UNCHANGED <<web, manager, op, made, ops, open, history>>
Caught(c) ==
  LET w == ctl[c].owner IN
  /\ IF Mounted(w) /\ card[w].retryCount < maxRetries
     THEN /\ card' = [card EXCEPT ![w].retryCount = @ + 1]
          /\ init' = [init EXCEPT ![c] = "delay"]
     ELSE /\ card' = IF Mounted(w) THEN [card EXCEPT ![w].hasError = TRUE, ![w].isInitializing = FALSE] ELSE card
          /\ init' = [init EXCEPT ![c] = "none"]
  /\ UNCHANGED <<web, manager, op, made, ops, open, history>>

(* _controller! is null: the URL changed during initialize().              *)
InitDetached(c) ==
  /\ Initializing(c) /\ Mounted(ctl[c].owner) /\ card[ctl[c].owner].controller = 0
  /\ ctl' = Finished(c, "ready")
  /\ Caught(c)

InitFailed(c) ==
  /\ Initializing(c)
  /\ ctl' = Finished(c, "failed")
  /\ Caught(c)

(* The first range request error of a phone: another controller at once,
   without a look at mounted.                                              *)
InitRangeError(c) ==
  LET w == ctl[c].owner IN
  /\ ~web /\ init[c] = "initialize" /\ card[w].retryCount = 0
  /\ \E d \in Ctl :
       /\ d = made + 1 /\ made' = d
       /\ ctl' = [ctl EXCEPT ![c].status = "failed", ![d] = [Unused EXCEPT !.owner = w, !.status = "creating"]]
       /\ card' = [card EXCEPT ![w].controller = d, ![w].retryCount = 1]
       /\ init' = [init EXCEPT ![c] = "none", ![d] = "simpler"]
       /\ op' = [o \in Op |-> IF op[o].pc = "initialize" /\ op[o].ctl = c
                               THEN [op[o] EXCEPT !.ctl = d] ELSE op[o]]
  /\ orphaned' = (orphaned \/ ~Mounted(w))
  /\ UNCHANGED <<web, manager, ops, open, overlapped>>

(* 500 ms later _initializePlayer is called again, with its guard.         *)
RetryDelayed(c) ==
  LET w == ctl[c].owner IN
  /\ init[c] = "delay"
  /\ IF Mounted(w) /\ MayInitialize(w)
     THEN \E d \in Ctl : Create(w, d, card[w]) /\ init' = [init EXCEPT ![c] = "none", ![d] = "initialize"]
     ELSE init' = [init EXCEPT ![c] = "none"] /\ UNCHANGED <<ctl, card, made>>
  /\ UNCHANGED <<web, manager, op, ops, open, history>>

-----------------------------------------------------------------------------
(* Playback.                                                               *)

(* A new operation o; history notes that another one is under way.         *)
Begin(o) ==
  /\ ops < MaxOps /\ ops' = ops + 1
  /\ op[o] = NoOp /\ \A n \in 1..(o - 1) : op[n] # NoOp
  /\ overlapped' = (overlapped \/ Busy)
  /\ UNCHANGED <<web, open, orphaned>>
Goto(o, pc, w, c) == op' = [op EXCEPT ![o] = [pc |-> pc, widget |-> w, ctl |-> c]]
End(o) == op' = [op EXCEPT ![o] = NoOp]

SetCurrent(c) ==
  /\ current' = c
  /\ currentAlias' = IF \E a \in Alias : registered[a] = c
                     THEN CHOOSE a \in Alias : registered[a] = c ELSE None

(* The videos _pauseAllExcept(c) pauses.  Mutant: none.                    *)
OthersNone(c) == {}
Others(c) == {registered[a] : a \in {b \in Alias : registered[b] \notin {0, c} /\ ctl[registered[b]].playing}}

(* setCurrentController(c) and the rewind that follows it.  With nothing to
   pause there is no event between the two.                                *)
StartPlaying(o, w, c) ==
  /\ IF Others(c) = {} THEN SetCurrent(c) /\ Goto(o, "seek", w, c) /\ UNCHANGED <<ctl, card>>
     ELSE SetPlaying({}, Others(c)) /\ Goto(o, "pauseOthers", w, c) /\ UNCHANGED <<current, currentAlias>>
  /\ UNCHANGED <<init, registered, made>>

(* onPlayTap.                                                              *)
TapInitialize(w, o) ==
  /\ Mounted(w) /\ MayInitialize(w) /\ Begin(o)
  /\ \E c \in Ctl : /\ Create(w, c, card[w])
                    /\ init' = [init EXCEPT ![c] = "initialize"]
                    /\ Goto(o, "initialize", w, c)
  /\ UNCHANGED manager

TapPlay(w, o) ==
  /\ Mounted(w) /\ ~MayInitialize(w) /\ Begin(o)
  /\ Initialized(card[w].controller) /\ ~card[w].isPlaying
  /\ StartPlaying(o, w, card[w].controller)

TapPause(w, o) ==
  /\ Mounted(w) /\ ~MayInitialize(w) /\ Begin(o)
  /\ Initialized(card[w].controller) /\ card[w].isPlaying
  /\ SetPlaying({}, {card[w].controller})
  /\ Goto(o, "pauseOwn", w, card[w].controller)
  /\ UNCHANGED <<init, manager, made>>

(* The tap goes on once its initialization has ended.                      *)
TapInitialized(o) ==
  LET w == op[o].widget
      c == card[w].controller
  IN
  /\ op[o].pc = "initialize" /\ init[op[o].ctl] = "none"
  /\ IF Initialized(c) /\ ~card[w].isPlaying THEN StartPlaying(o, w, c)
     ELSE /\ IF Initialized(c) THEN SetPlaying({}, {c}) /\ Goto(o, "pauseOwn", w, c)
             ELSE End(o) /\ UNCHANGED <<ctl, card>>
          /\ UNCHANGED <<init, manager, made>>
  /\ UNCHANGED <<web, ops, open, history>>

(* The autoplay timer picks a video that is not the current one.           *)
Autoplay(a, o) ==
  /\ ~web /\ open /\ currentAlias # a /\ registered[a] # 0 /\ Begin(o)
  /\ StartPlaying(o, None, registered[a])

(* A search, a change of tab or new items: stopCurrentPlayback.            *)
Stop(o) ==
  /\ open /\ current # 0 /\ ctl[current].playing /\ Begin(o)
  /\ SetPlaying({}, {current})
  /\ Goto(o, "stop", None, current)
  /\ UNCHANGED <<init, manager, made>>

(* The player a tap speaks to is the card's of the moment; autoplay has
   kept its own.                                                           *)
Target(o) == IF op[o].widget = None THEN op[o].ctl ELSE card[op[o].widget].controller

OthersPaused(o) ==
  /\ op[o].pc = "pauseOthers"
  /\ SetCurrent(op[o].ctl)
  /\ IF Target(o) = 0 THEN End(o) ELSE Goto(o, "seek", op[o].widget, op[o].ctl)
  /\ UNCHANGED <<web, card, ctl, init, registered, made, ops, open, history>>

Sought(o) ==
  /\ op[o].pc = "seek"
  /\ SetPlaying({c \in Ctl : c = Target(o) /\ ~ctl[c].disposed}, {})
  /\ End(o)
  /\ UNCHANGED <<web, init, manager, made, ops, open, history>>

(* onPlay(null), or the end of stopCurrentPlayback.                        *)
Paused(o) ==
  /\ op[o].pc \in {"pauseOwn", "stop"}
  /\ current' = 0 /\ currentAlias' = None
  /\ End(o)
  /\ UNCHANGED <<web, card, ctl, init, registered, made, ops, open, history>>

(* The video is over, and the plugin pauses it; another notification of the
   player.                                                                 *)
Completed(c) ==
  /\ ctl[c].playing /\ SetPlaying({}, {c})
  /\ UNCHANGED <<web, init, manager, op, made, ops, open, history>>
Notified(w) ==
  /\ Mounted(w) /\ card[w].isPlayerInitialized /\ card[w].controller # 0
  /\ card' = [card EXCEPT ![w].isPlaying = ctl[card[w].controller].playing]
  /\ UNCHANGED <<web, ctl, init, manager, op, made, ops, open, history>>

-----------------------------------------------------------------------------
Next ==
  \/ \E w \in Widget : Mount(w) \/ Unmount(w) \/ UpdateWidget(w) \/ Notified(w)
  \/ CloseList
  \/ \E c \in Ctl : \/ InitUnmounted(c) \/ InitOk(c) \/ InitDetached(c) \/ InitFailed(c)
                    \/ InitRangeError(c) \/ RetryDelayed(c) \/ Completed(c)
  \/ \E w \in Widget, o \in Op : TapInitialize(w, o) \/ TapPlay(w, o) \/ TapPause(w, o)
  \/ \E a \in Alias, o \in Op : Autoplay(a, o)
  \/ \E o \in Op : Stop(o) \/ TapInitialized(o) \/ OthersPaused(o) \/ Sought(o) \/ Paused(o)

Spec == Init /\ [][Next]_vars

-----------------------------------------------------------------------------
(* Types of the variables.                                                 *)
TypeOK ==
  /\ web \in BOOLEAN /\ open \in BOOLEAN
  /\ card \in [Widget -> Card] /\ ctl \in [Ctl -> Controller]
  /\ init \in [Ctl -> {"none", "initialize", "simpler", "delay"}]
  /\ registered \in [Alias -> Ctl \cup {0}]
  /\ current \in Ctl \cup {0} /\ currentAlias \in Alias \cup {None}
  /\ op \in [Op -> Operation]
  /\ made \in 0..MaxControllers /\ ops \in 0..MaxOps
  /\ overlapped \in BOOLEAN /\ orphaned \in BOOLEAN

(* Unless a URL changed while its card was initializing, what the autoplay
   timer takes from _controllers is the live, initialized controller of a
   card that is still mounted.                                             *)
RegisteredIsLive ==
  ~orphaned => \A a \in Alias : LET c == registered[a] IN
    c # 0 => /\ ctl[c].status = "ready" /\ ~ctl[c].disposed
             /\ Mounted(ctl[c].owner) /\ AliasOf[ctl[c].owner] = a
             /\ card[ctl[c].owner].controller = c

(* No video plays on once its card has left the list.                      *)
PlaysOnScreen ==
  ~orphaned => \A c \in Playing : Mounted(ctl[c].owner) /\ card[ctl[c].owner].controller = c

(* No player is lost: one that is initialized is released, or is the one of
   a card on screen, which will release it.                                *)
NoPlayerLost ==
  ~orphaned => \A c \in Ctl : ctl[c].status = "ready" /\ ~ctl[c].disposed =>
    Mounted(ctl[c].owner) /\ card[ctl[c].owner].controller = c

(* So long as no operation was started while another one was suspended, and
   no URL changed under a card that shows its video as playing, a video that
   plays is the manager's current one, so that the next play, a search or a
   change of tab stops it; hence at most one plays.                        *)
PlayingIsCurrent ==
  ~overlapped /\ ~orphaned => \A c \in Playing :
    c = current /\ currentAlias = AliasOf[ctl[c].owner]

(* With the same proviso a video starts when no other one plays any more,
   and not while the manager is still pausing it: no two are ever heard
   together, not even for the time of one await.                           *)
StartsInSilence ==
  [][~overlapped' /\ ~orphaned' => \A c \in Playing' \ Playing : Playing = {}]_vars

(* A card never waits for two initializations, but after a change of URL.  *)
OneInitialization ==
  ~orphaned => \A w \in Widget : Cardinality({c \in Ctl : ctl[c].owner = w /\ init[c] # "none"}) <= 1

(* "Set the current playing controller and pause all others": with every
   operation at its end, at most one video plays.                          *)
OthersArePaused == ~Busy => Cardinality(Playing) <= 1

(* "Standard retry logic": a card that shows it is initializing has an
   initialization under way.                                               *)
InitializationEnds ==
  \A w \in Widget : Mounted(w) /\ card[w].isInitializing =>
    \E c \in Ctl : ctl[c].owner = w /\ init[c] # "none"
=============================================================================
