---------------------------- MODULE VideoListProofs ----------------------------
(***************************************************************************)
(* Proofs about VideoList: its types, and that cards, manager and players  *)
(* agree however taps, timers, answers and rebuilds interleave.            *)
(***************************************************************************)
EXTENDS VideoList, FiniteSetTheorems, TLAPS

Inits == {"none", "initialize", "simpler", "delay"}

(* Types, with the card of a tap that waits for its initialization, and of
   an initialization.                                                      *)
Typed ==
  /\ TypeOK
  /\ \A o \in Op : op[o].pc = "initialize" => op[o].widget \in Widget
  /\ \A c \in Ctl : init[c] # "none" => ctl[c].owner \in Widget

Types ==
  /\ web \in BOOLEAN /\ open \in BOOLEAN
  /\ card \in [Widget -> Card] /\ ctl \in [Ctl -> Controller]
  /\ init \in [Ctl -> Inits]
  /\ registered \in [Alias -> Ctl \cup {0}]
  /\ current \in Ctl \cup {0} /\ currentAlias \in Alias \cup {None}
  /\ op \in [Op -> Operation]
  /\ made \in 0..MaxControllers /\ ops \in 0..MaxOps
  /\ overlapped \in BOOLEAN /\ orphaned \in BOOLEAN
  /\ 0 \notin Ctl /\ Ctl \subseteq Nat /\ MaxControllers \in Nat /\ MaxOps \in Nat
  /\ AliasOf \in [Widget -> Alias] /\ None \notin Alias

(* What Typed and the assumptions on the constants say.                    *)
LEMMA TypesOf == Typed => Types
BY VideoAssumption DEF Typed, TypeOK, Types, Inits, Ctl

(* Starting and stopping players leaves everything else of them and of the
   cards.                                                                  *)
LEMMA PlayingTypes ==
  ASSUME Typed, NEW on \in SUBSET Ctl, NEW off \in SUBSET Ctl, SetPlaying(on, off)
  PROVE  /\ card' \in [Widget -> Card] /\ ctl' \in [Ctl -> Controller]
         /\ \A c \in Ctl : /\ ctl'[c].owner = ctl[c].owner /\ ctl'[c].status = ctl[c].status
                           /\ ctl'[c].disposed = ctl[c].disposed
                           /\ ctl'[c].playing <=> (ctl[c].playing \/ c \in on) /\ c \notin off
         /\ \A w \in Widget : /\ card'[w].mounted = card[w].mounted
                              /\ card'[w].controller = card[w].controller
                              /\ card'[w].isInitializing = card[w].isInitializing
                              /\ card'[w].isPlayerInitialized = card[w].isPlayerInitialized
                              /\ IF Mounted(w) /\ card[w].controller \in on \cup off
                                 THEN card'[w].isPlaying <=> card[w].controller \in on
                                 ELSE card'[w] = card[w]
<1>0. card \in [Widget -> Card] /\ ctl \in [Ctl -> Controller]
  BY TypesOf DEF Types
<1>1. ASSUME NEW c \in Ctl
      PROVE  /\ ctl'[c] \in Controller
             /\ ctl'[c].owner = ctl[c].owner /\ ctl'[c].status = ctl[c].status
             /\ ctl'[c].disposed = ctl[c].disposed
             /\ ctl'[c].playing <=> (ctl[c].playing \/ c \in on) /\ c \notin off
  <2> DEFINE p == (ctl[c].playing \/ c \in on) /\ c \notin off
  <2>1. ctl'[c] = [ctl[c] EXCEPT !.playing = p]
    BY DEF SetPlaying
  <2>2. p \in BOOLEAN /\ ctl[c] \in Controller
    BY <1>0
  <2> HIDE DEF p
  <2>3. ctl'[c] \in Controller /\ ctl'[c].owner = ctl[c].owner /\ ctl'[c].status = ctl[c].status
        /\ ctl'[c].disposed = ctl[c].disposed /\ ctl'[c].playing = p
    BY <2>1, <2>2 DEF Controller
  <2> QED BY <2>3 DEF p
<1>2. ASSUME NEW w \in Widget
      PROVE  /\ card'[w] \in Card
             /\ card'[w].mounted = card[w].mounted
             /\ card'[w].controller = card[w].controller
             /\ card'[w].isInitializing = card[w].isInitializing
             /\ card'[w].isPlayerInitialized = card[w].isPlayerInitialized
             /\ IF Mounted(w) /\ card[w].controller \in on \cup off
                THEN card'[w].isPlaying <=> card[w].controller \in on
                ELSE card'[w] = card[w]
  <2> DEFINE p == card[w].controller \in on
  <2>0. card[w] \in Card /\ p \in BOOLEAN
    BY <1>0
  <2>1. CASE Mounted(w) /\ card[w].controller \in on \cup off
    <3>1. card'[w] = [card[w] EXCEPT !.isPlaying = p]
      BY <2>1 DEF SetPlaying
    <3> HIDE DEF p
    <3>2. card'[w] \in Card /\ card'[w].mounted = card[w].mounted /\ card'[w].controller = card[w].controller
          /\ card'[w].isInitializing = card[w].isInitializing
          /\ card'[w].isPlayerInitialized = card[w].isPlayerInitialized /\ card'[w].isPlaying = p
      BY <2>0, <3>1 DEF Card
    <3> QED BY <2>1, <3>2 DEF p
  <2>2. CASE ~(Mounted(w) /\ card[w].controller \in on \cup off)
    <3>1. card'[w] = card[w]
      BY <2>2 DEF SetPlaying
    <3> QED BY <2>0, <2>2, <3>1
  <2> QED BY <2>1, <2>2
<1>3. card' = [w \in Widget |-> card'[w]] /\ ctl' = [c \in Ctl |-> ctl'[c]]
  BY DEF SetPlaying
<1>4. card' \in [Widget -> Card]
  BY <1>2, <1>3
<1>5. ctl' \in [Ctl -> Controller]
  BY <1>1, <1>3
<1> QED BY <1>1, <1>2, <1>4, <1>5

(* A new player for a card.                                                *)
LEMMA CreateTypes ==
  ASSUME Typed, NEW w \in Widget, NEW c \in Ctl, NEW new \in Card, Create(w, c, new)
  PROVE  /\ c = made + 1 /\ made' = c /\ made' \in 0..MaxControllers
         /\ card' \in [Widget -> Card] /\ ctl' \in [Ctl -> Controller]
         /\ ctl'[c].owner = w /\ ctl'[c].status = "creating" /\ ~ctl'[c].disposed /\ ~ctl'[c].playing
         /\ \A d \in Ctl \ {c} : ctl'[d] = ctl[d]
         /\ card'[w].mounted = new.mounted /\ card'[w].controller = c /\ card'[w].isInitializing
         /\ card'[w].isPlayerInitialized = new.isPlayerInitialized /\ card'[w].isPlaying = new.isPlaying
         /\ \A v \in Widget \ {w} : card'[v] = card[v]
<1>0. Types
  BY TypesOf
<1>1. card \in [Widget -> Card] /\ ctl \in [Ctl -> Controller] /\ made \in Nat
  BY <1>0 DEF Types
<1>2. PICK h : h = [new EXCEPT !.controller = c, !.isInitializing = TRUE]
  OBVIOUS
<1>3. h \in Card /\ h.mounted = new.mounted /\ h.controller = c /\ h.isInitializing = TRUE
      /\ h.isPlayerInitialized = new.isPlayerInitialized /\ h.isPlaying = new.isPlaying
  BY <1>2 DEF Card
<1>4. PICK k : k = [Unused EXCEPT !.owner = w, !.status = "creating"]
  OBVIOUS
<1>5. k \in Controller /\ k.owner = w /\ k.status = "creating" /\ k.disposed = FALSE /\ k.playing = FALSE
  BY <1>4 DEF Controller, Unused
<1>6. card' = [card EXCEPT ![w] = h] /\ ctl' = [ctl EXCEPT ![c] = k] /\ c = made + 1 /\ made' = c
  BY <1>2, <1>4 DEF Create
<1>7. card' \in [Widget -> Card] /\ ctl' \in [Ctl -> Controller]
  BY <1>1, <1>3, <1>5, <1>6
<1>8. made' \in 0..MaxControllers
  BY <1>0, <1>6 DEF Types, Ctl
<1>9. card'[w] = h /\ ctl'[c] = k /\ (\A d \in Ctl \ {c} : ctl'[d] = ctl[d]) /\ \A v \in Widget \ {w} : card'[v] = card[v]
  BY <1>1, <1>6
<1> QED BY <1>3, <1>5, <1>6, <1>7, <1>8, <1>9

(* The players a card gives up: its own, and what the manager has for it.  *)
Gone(w) == IF card[w].controller = 0 THEN {} ELSE {card[w].controller, registered[AliasOf[w]]}

(* What a card that gives up its player changes.                           *)
LEMMA ReleaseTypes ==
  ASSUME Typed, NEW w \in Widget, NEW new \in Card, Release(w, new)
  PROVE  /\ card' \in [Widget -> Card] /\ ctl' \in [Ctl -> Controller]
         /\ registered' \in [Alias -> Ctl \cup {0}]
         /\ current' \in Ctl \cup {0} /\ currentAlias' \in Alias \cup {None}
         /\ \A c \in Ctl : /\ ctl'[c].owner = ctl[c].owner /\ ctl'[c].status = ctl[c].status
                           /\ IF c \in Gone(w) THEN ctl'[c].disposed /\ ~ctl'[c].playing ELSE ctl'[c] = ctl[c]
         /\ card'[w].mounted = new.mounted /\ card'[w].controller = 0
         /\ card'[w].isInitializing = new.isInitializing /\ card'[w].isPlayerInitialized = new.isPlayerInitialized
         /\ card'[w].isPlaying = new.isPlaying
         /\ \A v \in Widget \ {w} : card'[v] = card[v]
         /\ \A x \in Alias : registered'[x] = IF x = AliasOf[w] /\ Gone(w) # {} THEN 0 ELSE registered[x]
         /\ \/ current' = current /\ currentAlias' = currentAlias
               /\ (Gone(w) = {} \/ registered[AliasOf[w]] = 0 \/ current # registered[AliasOf[w]])
            \/ current' = 0 /\ current \in Gone(w) \ {0} /\ currentAlias' = None
<1>0. Types
  BY TypesOf
<1>1. card \in [Widget -> Card] /\ ctl \in [Ctl -> Controller] /\ registered \in [Alias -> Ctl \cup {0}]
      /\ current \in Ctl \cup {0} /\ currentAlias \in Alias \cup {None} /\ AliasOf[w] \in Alias
  BY <1>0 DEF Types
<1>2. PICK h : h = [new EXCEPT !.controller = 0]
  OBVIOUS
<1>3. h \in Card /\ h.mounted = new.mounted /\ h.controller = 0 /\ h.isInitializing = new.isInitializing
      /\ h.isPlayerInitialized = new.isPlayerInitialized /\ h.isPlaying = new.isPlaying
  BY <1>2 DEF Card
<1>4. /\ card' = [card EXCEPT ![w] = h]
      /\ ctl' = [c \in Ctl |-> IF c \in Gone(w) THEN [ctl[c] EXCEPT !.disposed = TRUE, !.playing = FALSE] ELSE ctl[c]]
      /\ IF Gone(w) = {} THEN UNCHANGED manager
         ELSE /\ registered' = [registered EXCEPT ![AliasOf[w]] = 0]
              /\ IF registered[AliasOf[w]] # 0 /\ current = registered[AliasOf[w]]
                 THEN current' = 0 /\ currentAlias' = None ELSE UNCHANGED <<current, currentAlias>>
  BY <1>2 DEF Release, Gone
<1>5. card' \in [Widget -> Card] /\ card'[w] = h /\ \A v \in Widget \ {w} : card'[v] = card[v]
  BY <1>1, <1>3, <1>4
<1>6. ASSUME NEW c \in Ctl
      PROVE  /\ ctl'[c] \in Controller /\ ctl'[c].owner = ctl[c].owner /\ ctl'[c].status = ctl[c].status
             /\ IF c \in Gone(w) THEN ctl'[c].disposed = TRUE /\ ctl'[c].playing = FALSE ELSE ctl'[c] = ctl[c]
  <2>1. ctl[c] \in Controller
    BY <1>1
  <2>2. CASE c \in Gone(w)
    <3>1. ctl'[c] = [ctl[c] EXCEPT !.disposed = TRUE, !.playing = FALSE]
      BY <1>4, <2>2
    <3> QED BY <2>1, <2>2, <3>1 DEF Controller
  <2>3. CASE c \notin Gone(w)
    <3>1. ctl'[c] = ctl[c]
      BY <1>4, <2>3
    <3> QED BY <2>1, <2>3, <3>1
  <2> QED BY <2>2, <2>3
<1>7. ctl' \in [Ctl -> Controller]
  <2>1. ctl' = [c \in Ctl |-> ctl'[c]]
    BY <1>4
  <2> QED BY <1>6, <2>1
<1>8. /\ registered' \in [Alias -> Ctl \cup {0}]
      /\ current' \in Ctl \cup {0} /\ currentAlias' \in Alias \cup {None}
      /\ \A x \in Alias : registered'[x] = IF x = AliasOf[w] /\ Gone(w) # {} THEN 0 ELSE registered[x]
  BY <1>1, <1>4 DEF manager
<1>9. \/ current' = current /\ currentAlias' = currentAlias
         /\ (Gone(w) = {} \/ registered[AliasOf[w]] = 0 \/ current # registered[AliasOf[w]])
      \/ current' = 0 /\ current \in Gone(w) \ {0} /\ currentAlias' = None
  <2>1. CASE Gone(w) = {}
    BY <1>4, <2>1 DEF manager
  <2>2. CASE Gone(w) # {}
    <3>1. registered[AliasOf[w]] \in Gone(w)
      BY <2>2 DEF Gone
    <3> HIDE DEF Gone
    <3> QED BY <1>4, <2>2, <3>1
  <2> QED BY <2>1, <2>2
<1> QED BY <1>3, <1>5, <1>6, <1>7, <1>8, <1>9

(* The end of the catch: the card waits for its retry, or shows the error.  *)
LEMMA CaughtTypes ==
  ASSUME Typed, NEW c \in Ctl, init[c] # "none", Caught(c)
  PROVE  /\ card' \in [Widget -> Card]
         /\ \E e \in {"delay", "none"} :
              /\ init' = [init EXCEPT ![c] = e]
              /\ Mounted(ctl[c].owner) =>
                   (card'[ctl[c].owner].isInitializing <=> card[ctl[c].owner].isInitializing /\ e = "delay")
              /\ ~Mounted(ctl[c].owner) => card' = card /\ e = "none"
         /\ \A w \in Widget : /\ card'[w].mounted = card[w].mounted /\ card'[w].controller = card[w].controller
                              /\ card'[w].isPlayerInitialized = card[w].isPlayerInitialized
                              /\ card'[w].isPlaying = card[w].isPlaying
                              /\ w # ctl[c].owner => card'[w] = card[w]
<1> DEFINE w == ctl[c].owner
<1>0. card \in [Widget -> Card] /\ w \in Widget
  BY TypesOf DEF Types, Typed
<1>1. CASE Mounted(w) /\ card[w].retryCount < maxRetries
  <2>1. PICK h : h = [card[w] EXCEPT !.retryCount = @ + 1]
    OBVIOUS
  <2>2. card[w] \in Card
    BY <1>0
  <2>3. h \in Card /\ h.mounted = card[w].mounted /\ h.controller = card[w].controller
        /\ h.isPlayerInitialized = card[w].isPlayerInitialized /\ h.isPlaying = card[w].isPlaying
        /\ h.isInitializing = card[w].isInitializing
    BY <1>1, <2>1, <2>2 DEF Card, maxRetries
  <2>4. card' = [card EXCEPT ![w] = h] /\ init' = [init EXCEPT ![c] = "delay"]
    BY <1>1, <2>1 DEF Caught
  <2>5. card' \in [Widget -> Card] /\ card'[w] = h /\ \A v \in Widget \ {w} : card'[v] = card[v]
    BY <1>0, <2>3, <2>4
  <2> HIDE DEF w
  <2>6. /\ Mounted(w) => (card'[w].isInitializing <=> card[w].isInitializing /\ "delay" = "delay")
        /\ ~Mounted(w) => card' = card /\ "delay" = "none"
    BY <1>1, <2>3, <2>5
  <2>7. ASSUME NEW v \in Widget
        PROVE  /\ card'[v].mounted = card[v].mounted /\ card'[v].controller = card[v].controller
               /\ card'[v].isPlayerInitialized = card[v].isPlayerInitialized
               /\ card'[v].isPlaying = card[v].isPlaying
               /\ v # w => card'[v] = card[v]
    BY <2>3, <2>5
  <2> QED BY <2>4, <2>5, <2>6, <2>7 DEF w
<1>2. CASE Mounted(w) /\ ~(card[w].retryCount < maxRetries)
  <2>1. PICK h : h = [card[w] EXCEPT !.hasError = TRUE, !.isInitializing = FALSE]
    OBVIOUS
  <2>2. card[w] \in Card
    BY <1>0
  <2>3. h \in Card /\ h.mounted = card[w].mounted /\ h.controller = card[w].controller
        /\ h.isPlayerInitialized = card[w].isPlayerInitialized /\ h.isPlaying = card[w].isPlaying
        /\ h.isInitializing = FALSE
    BY <2>1, <2>2 DEF Card
  <2>4. card' = [card EXCEPT ![w] = h] /\ init' = [init EXCEPT ![c] = "none"]
    BY <1>2, <2>1, <1>0 DEF Caught
  <2>5. card' \in [Widget -> Card] /\ card'[w] = h /\ \A v \in Widget \ {w} : card'[v] = card[v]
    BY <1>0, <2>3, <2>4
  <2> HIDE DEF w
  <2>6. /\ Mounted(w) => (card'[w].isInitializing <=> card[w].isInitializing /\ "none" = "delay")
        /\ ~Mounted(w) => card' = card /\ "none" = "none"
    BY <1>2, <2>3, <2>5
  <2>7. ASSUME NEW v \in Widget
        PROVE  /\ card'[v].mounted = card[v].mounted /\ card'[v].controller = card[v].controller
               /\ card'[v].isPlayerInitialized = card[v].isPlayerInitialized
               /\ card'[v].isPlaying = card[v].isPlaying
               /\ v # w => card'[v] = card[v]
    BY <2>3, <2>5
  <2> QED BY <2>4, <2>5, <2>6, <2>7 DEF w
<1>3. CASE ~Mounted(w)
  <2>1. card' = card /\ init' = [init EXCEPT ![c] = "none"]
    BY <1>3 DEF Caught
  <2> QED BY <1>0, <1>3, <2>1
<1> QED BY <1>1, <1>2, <1>3

(* Operations that begin, or go on.                                        *)
LEMMA OpTypes ==
  ASSUME Typed, NEW o \in Op, NEW pc \in {"idle", "initialize", "pauseOthers", "seek", "pauseOwn", "stop"},
         NEW w \in Widget \cup {None}, NEW c \in Ctl \cup {0},
         Goto(o, pc, w, c) \/ (End(o) /\ pc = "idle" /\ w = None /\ c = 0),
         pc = "initialize" => w \in Widget
  PROVE  /\ op' \in [Op -> Operation]
         /\ op'[o].pc = pc /\ op'[o].widget = w /\ op'[o].ctl = c
         /\ \A p \in Op \ {o} : op'[p] = op[p]
         /\ \A p \in Op : op'[p].pc = "initialize" => op'[p].widget \in Widget
<1>1. op \in [Op -> Operation] /\ \A p \in Op : op[p].pc = "initialize" => op[p].widget \in Widget
  BY DEF Typed, TypeOK
<1>2. PICK h : h = [pc |-> pc, widget |-> w, ctl |-> c]
  OBVIOUS
<1>3. h \in Operation /\ h.pc = pc /\ h.widget = w /\ h.ctl = c
  BY <1>2 DEF Operation
<1>4. op' = [op EXCEPT ![o] = h]
  BY <1>2 DEF Goto, End, NoOp
<1> QED BY <1>1, <1>3, <1>4

(* setCurrentController and the rewind: two ways to begin.                 *)
LEMMA StartPlayingTypes ==
  ASSUME Typed, NEW o \in Op, NEW w \in Widget \cup {None}, NEW c \in Ctl, StartPlaying(o, w, c)
  PROVE  /\ card' \in [Widget -> Card] /\ ctl' \in [Ctl -> Controller]
         /\ current' \in Ctl \cup {0} /\ currentAlias' \in Alias \cup {None}
         /\ op' \in [Op -> Operation]
         /\ \A p \in Op : op'[p].pc = "initialize" => op'[p].widget \in Widget
         /\ UNCHANGED <<init, registered, made>>
         /\ Others(c) \in SUBSET Ctl
<1>0. Types
  BY TypesOf
<1>1. Others(c) \in SUBSET Ctl
  BY <1>0 DEF Types, Others
<1>2. CASE Others(c) = {}
  <2>1. SetCurrent(c) /\ Goto(o, "seek", w, c) /\ UNCHANGED <<ctl, card>> /\ UNCHANGED <<init, registered, made>>
    BY <1>2 DEF StartPlaying
  <2>2. current' \in Ctl \cup {0} /\ currentAlias' \in Alias \cup {None}
    BY <2>1 DEF SetCurrent
  <2> QED BY <1>0, <1>1, <2>1, <2>2, OpTypes DEF Types
<1>3. CASE Others(c) # {}
  <2>1. SetPlaying({}, Others(c)) /\ Goto(o, "pauseOthers", w, c) /\ UNCHANGED <<current, currentAlias>>
        /\ UNCHANGED <<init, registered, made>>
    BY <1>3 DEF StartPlaying
  <2>2. card' \in [Widget -> Card] /\ ctl' \in [Ctl -> Controller]
    BY <1>1, <2>1, PlayingTypes
  <2> QED BY <1>0, <1>1, <2>1, <2>2, OpTypes DEF Types
<1> QED BY <1>2, <1>3

(* No player changes hands by being started.                               *)
LEMMA StartPlayingOwners ==
  ASSUME Typed, NEW o \in Op, NEW w \in Widget \cup {None}, NEW c \in Ctl, StartPlaying(o, w, c)
  PROVE  \A d \in Ctl : ctl'[d].owner = ctl[d].owner
<1>1. Others(c) \in SUBSET Ctl
  BY StartPlayingTypes
<1>2. CASE Others(c) = {}
  BY <1>2 DEF StartPlaying
<1>3. CASE Others(c) # {}
  BY <1>1, <1>3, PlayingTypes DEF StartPlaying
<1> QED BY <1>2, <1>3

(* Typed, in the next state.                                               *)
LEMMA TypedIntro ==
  ASSUME card' \in [Widget -> Card], ctl' \in [Ctl -> Controller], init' \in [Ctl -> Inits],
         registered' \in [Alias -> Ctl \cup {0}],
         current' \in Ctl \cup {0}, currentAlias' \in Alias \cup {None},
         op' \in [Op -> Operation], \A o \in Op : op'[o].pc = "initialize" => op'[o].widget \in Widget,
         \A c \in Ctl : init'[c] # "none" => ctl'[c].owner \in Widget,
         web' \in BOOLEAN, open' \in BOOLEAN, made' \in 0..MaxControllers, ops' \in 0..MaxOps,
         overlapped' \in BOOLEAN, orphaned' \in BOOLEAN
  PROVE  Typed'
BY DEF Typed, TypeOK, Inits

(* Every step keeps the types.                                             *)
LEMMA TypedNext == Typed /\ [Next]_vars => Typed'
<1> SUFFICES ASSUME Typed, [Next]_vars PROVE Typed'
  OBVIOUS
<1>0. Types
  BY TypesOf
<1>t. /\ card \in [Widget -> Card] /\ ctl \in [Ctl -> Controller] /\ init \in [Ctl -> Inits]
      /\ registered \in [Alias -> Ctl \cup {0}] /\ current \in Ctl \cup {0} /\ currentAlias \in Alias \cup {None}
      /\ op \in [Op -> Operation] /\ made \in 0..MaxControllers /\ ops \in 0..MaxOps
      /\ web \in BOOLEAN /\ open \in BOOLEAN /\ overlapped \in BOOLEAN /\ orphaned \in BOOLEAN
      /\ MaxOps \in Nat /\ MaxControllers \in Nat /\ 0 \notin Ctl
  BY <1>0 DEF Types
<1>o. \A o \in Op : op[o].pc = "initialize" => op[o].widget \in Widget
  BY DEF Typed
<1>i. \A c \in Ctl : init[c] # "none" => ctl[c].owner \in Widget
  BY DEF Typed
<1>1. ASSUME NEW w \in Widget, Mount(w) PROVE Typed'
  <2> DEFINE new == [card[w] EXCEPT !.mounted = "yes"]
  <2>3. new \in Card
    BY <1>t DEF Card
  <2>1. ASSUME web
        PROVE  /\ card' \in [Widget -> Card] /\ ctl' \in [Ctl -> Controller] /\ made' = made
               /\ init' \in [Ctl -> Inits] /\ \A d \in Ctl : init'[d] # "none" => ctl'[d].owner \in Widget
    <3>1. card' = [card EXCEPT ![w] = new] /\ UNCHANGED <<ctl, init, made>>
      BY <1>1, <2>1 DEF Mount
    <3> QED BY <3>1, <2>3, <1>t, <1>i
  <2>2. ASSUME ~web
        PROVE  /\ card' \in [Widget -> Card] /\ ctl' \in [Ctl -> Controller] /\ made' \in 0..MaxControllers
               /\ init' \in [Ctl -> Inits] /\ \A d \in Ctl : init'[d] # "none" => ctl'[d].owner \in Widget
    <3>1. PICK c \in Ctl : Create(w, c, new) /\ init' = [init EXCEPT ![c] = "initialize"]
      BY <1>1, <2>2 DEF Mount
    <3>2. card' \in [Widget -> Card] /\ ctl' \in [Ctl -> Controller] /\ made' \in 0..MaxControllers
          /\ ctl'[c].owner = w /\ \A d \in Ctl \ {c} : ctl'[d] = ctl[d]
      <4> HIDE DEF new
      <4> QED BY <3>1, <2>3, CreateTypes
    <3>3. init' \in [Ctl -> Inits] /\ \A d \in Ctl \ {c} : init'[d] = init[d]
      BY <3>1, <1>t DEF Inits
    <3> QED BY <3>2, <3>3, <1>i
  <2>c1. card' \in [Widget -> Card] /\ ctl' \in [Ctl -> Controller]
    BY <2>1, <2>2, <2>3
  <2>c2. init' \in [Ctl -> Inits] /\ \A d \in Ctl : init'[d] # "none" => ctl'[d].owner \in Widget
    BY <2>1, <2>2, <2>3
  <2>c3. registered' \in [Alias -> Ctl \cup {0}] /\ current' \in Ctl \cup {0} /\ currentAlias' \in Alias \cup {None}
    BY <1>1, <1>t DEF Mount, manager
  <2>c4. op' \in [Op -> Operation] /\ \A q \in Op : op'[q].pc = "initialize" => op'[q].widget \in Widget
    BY <1>1, <1>t, <1>o DEF Mount
  <2>c5. web' \in BOOLEAN /\ open' \in BOOLEAN /\ made' \in 0..MaxControllers /\ ops' \in 0..MaxOps
        /\ overlapped' \in BOOLEAN /\ orphaned' \in BOOLEAN
    BY <2>1, <2>2, <1>1, <1>t DEF Mount, history
  <2> QED BY <2>c1, <2>c2, <2>c3, <2>c4, <2>c5, TypedIntro
<1>2. ASSUME NEW w \in Widget, Unmount(w) PROVE Typed'
  <2> DEFINE new == [card[w] EXCEPT !.mounted = "no"]
  <2>1. new \in Card
    BY <1>t DEF Card
  <2>2. Release(w, new)
    BY <1>2 DEF Unmount
  <2>3. card' \in [Widget -> Card] /\ ctl' \in [Ctl -> Controller] /\ registered' \in [Alias -> Ctl \cup {0}] /\ current' \in Ctl \cup {0} /\ currentAlias' \in Alias \cup {None}
        /\ \A d \in Ctl : ctl'[d].owner = ctl[d].owner
    <3> HIDE DEF new
    <3> QED BY <2>1, <2>2, ReleaseTypes
  <2>c1. card' \in [Widget -> Card] /\ ctl' \in [Ctl -> Controller]
    BY <2>3
  <2>c2. init' \in [Ctl -> Inits] /\ \A d \in Ctl : init'[d] # "none" => ctl'[d].owner \in Widget
    BY <2>3, <1>2, <1>t, <1>i DEF Unmount
  <2>c3. registered' \in [Alias -> Ctl \cup {0}] /\ current' \in Ctl \cup {0} /\ currentAlias' \in Alias \cup {None}
    BY <2>3
  <2>c4. op' \in [Op -> Operation] /\ \A q \in Op : op'[q].pc = "initialize" => op'[q].widget \in Widget
    BY <1>2, <1>t, <1>o DEF Unmount
  <2>c5. web' \in BOOLEAN /\ open' \in BOOLEAN /\ made' \in 0..MaxControllers /\ ops' \in 0..MaxOps
        /\ overlapped' \in BOOLEAN /\ orphaned' \in BOOLEAN
    BY <1>2, <1>t DEF Unmount, history
  <2> QED BY <2>c1, <2>c2, <2>c3, <2>c4, <2>c5, TypedIntro
<1>3. ASSUME NEW w \in Widget, UpdateWidget(w) PROVE Typed'
  <2> DEFINE new == [card[w] EXCEPT !.isPlayerInitialized = FALSE, !.isInitializing = FALSE]
  <2>1. new \in Card
    <3>1. card[w] \in Card
      BY <1>t
    <3>2. PICK h : h = new
      OBVIOUS
    <3> QED BY <3>1, <3>2 DEF Card
  <2>2. Release(w, new)
    BY <1>3 DEF UpdateWidget
  <2>3. card' \in [Widget -> Card] /\ ctl' \in [Ctl -> Controller] /\ registered' \in [Alias -> Ctl \cup {0}] /\ current' \in Ctl \cup {0} /\ currentAlias' \in Alias \cup {None}
        /\ \A d \in Ctl : ctl'[d].owner = ctl[d].owner
    <3> HIDE DEF new
    <3> QED BY <2>1, <2>2, ReleaseTypes
  <2>c1. card' \in [Widget -> Card] /\ ctl' \in [Ctl -> Controller]
    BY <2>3
  <2>c2. init' \in [Ctl -> Inits] /\ \A d \in Ctl : init'[d] # "none" => ctl'[d].owner \in Widget
    BY <2>3, <1>3, <1>t, <1>i DEF UpdateWidget
  <2>c3. registered' \in [Alias -> Ctl \cup {0}] /\ current' \in Ctl \cup {0} /\ currentAlias' \in Alias \cup {None}
    BY <2>3
  <2>c4. op' \in [Op -> Operation] /\ \A q \in Op : op'[q].pc = "initialize" => op'[q].widget \in Widget
    BY <1>3, <1>t, <1>o DEF UpdateWidget
  <2>c5. web' \in BOOLEAN /\ open' \in BOOLEAN /\ made' \in 0..MaxControllers /\ ops' \in 0..MaxOps
        /\ overlapped' \in BOOLEAN /\ orphaned' \in BOOLEAN
    BY <1>3, <1>t DEF UpdateWidget, history
  <2> QED BY <2>c1, <2>c2, <2>c3, <2>c4, <2>c5, TypedIntro
<1>4. ASSUME NEW w \in Widget, Notified(w) PROVE Typed'
  <2>1. PICK h : h = [card[w] EXCEPT !.isPlaying = ctl[card[w].controller].playing]
    OBVIOUS
  <2>2. h \in Card /\ card' = [card EXCEPT ![w] = h]
    <3>1. card[w] \in Card /\ card[w].controller \in Ctl /\ ctl[card[w].controller].playing \in BOOLEAN
      BY <1>4, <1>t DEF Notified, Card, Controller
    <3> QED BY <1>4, <2>1, <3>1 DEF Notified, Card
  <2>c1. card' \in [Widget -> Card] /\ ctl' \in [Ctl -> Controller]
    BY <2>1, <2>2, <1>4, <1>t DEF Notified
  <2>c2. init' \in [Ctl -> Inits] /\ \A d \in Ctl : init'[d] # "none" => ctl'[d].owner \in Widget
    BY <1>4, <1>t, <1>i DEF Notified
  <2>c3. registered' \in [Alias -> Ctl \cup {0}] /\ current' \in Ctl \cup {0} /\ currentAlias' \in Alias \cup {None}
    BY <1>4, <1>t DEF Notified, manager
  <2>c4. op' \in [Op -> Operation] /\ \A q \in Op : op'[q].pc = "initialize" => op'[q].widget \in Widget
    BY <1>4, <1>t, <1>o DEF Notified
  <2>c5. web' \in BOOLEAN /\ open' \in BOOLEAN /\ made' \in 0..MaxControllers /\ ops' \in 0..MaxOps
        /\ overlapped' \in BOOLEAN /\ orphaned' \in BOOLEAN
    BY <1>4, <1>t DEF Notified, history
  <2> QED BY <2>c1, <2>c2, <2>c3, <2>c4, <2>c5, TypedIntro
<1>5. ASSUME CloseList PROVE Typed'
  <2>1. /\ \A d \in Ctl : ctl'[d] \in Controller /\ ctl'[d].owner = ctl[d].owner
        /\ ctl' = [d \in Ctl |-> ctl'[d]]
    <3>1. ctl' = [d \in Ctl |-> IF \E x \in Alias : registered[x] = d
                                THEN [ctl[d] EXCEPT !.disposed = TRUE, !.playing = FALSE] ELSE ctl[d]]
      BY <1>5 DEF CloseList
    <3>2. ASSUME NEW d \in Ctl PROVE ctl'[d] \in Controller /\ ctl'[d].owner = ctl[d].owner
      <4>1. ctl[d] \in Controller
        BY <1>t
      <4>2. CASE \E x \in Alias : registered[x] = d
        <5>1. ctl'[d] = [ctl[d] EXCEPT !.disposed = TRUE, !.playing = FALSE]
          BY <3>1, <4>2
        <5> QED BY <4>1, <5>1 DEF Controller
      <4>3. CASE ~\E x \in Alias : registered[x] = d
        BY <3>1, <4>1, <4>3
      <4> QED BY <4>2, <4>3
    <3> QED BY <3>1, <3>2
  <2>c1. card' \in [Widget -> Card] /\ ctl' \in [Ctl -> Controller]
    BY <2>1, <1>5, <1>t DEF CloseList
  <2>c2. init' \in [Ctl -> Inits] /\ \A d \in Ctl : init'[d] # "none" => ctl'[d].owner \in Widget
    BY <2>1, <1>5, <1>t, <1>i DEF CloseList
  <2>c3. registered' \in [Alias -> Ctl \cup {0}] /\ current' \in Ctl \cup {0} /\ currentAlias' \in Alias \cup {None}
    BY <1>5, <1>t DEF CloseList
  <2>c4. op' \in [Op -> Operation] /\ \A q \in Op : op'[q].pc = "initialize" => op'[q].widget \in Widget
    BY <1>5, <1>t, <1>o DEF CloseList
  <2>c5. web' \in BOOLEAN /\ open' \in BOOLEAN /\ made' \in 0..MaxControllers /\ ops' \in 0..MaxOps
        /\ overlapped' \in BOOLEAN /\ orphaned' \in BOOLEAN
    BY <1>5, <1>t DEF CloseList, history
  <2> QED BY <2>c1, <2>c2, <2>c3, <2>c4, <2>c5, TypedIntro
<1>6. ASSUME NEW c \in Ctl, InitUnmounted(c) PROVE Typed'
  <2>1. PICK k : k = [ctl[c] EXCEPT !.status = "ready"]
    OBVIOUS
  <2>2. k \in Controller /\ k.owner = ctl[c].owner /\ ctl' = [ctl EXCEPT ![c] = k] /\ init[c] # "none"
    BY <1>6, <1>t, <2>1 DEF InitUnmounted, Finished, Initializing, Controller
  <2>c1. card' \in [Widget -> Card] /\ ctl' \in [Ctl -> Controller]
    BY <2>2, <1>6, <1>t DEF InitUnmounted
  <2>c2. init' \in [Ctl -> Inits] /\ \A d \in Ctl : init'[d] # "none" => ctl'[d].owner \in Widget
    BY <2>2, <1>6, <1>t, <1>i DEF InitUnmounted, Inits
  <2>c3. registered' \in [Alias -> Ctl \cup {0}] /\ current' \in Ctl \cup {0} /\ currentAlias' \in Alias \cup {None}
    BY <1>6, <1>t DEF InitUnmounted, manager
  <2>c4. op' \in [Op -> Operation] /\ \A q \in Op : op'[q].pc = "initialize" => op'[q].widget \in Widget
    BY <1>6, <1>t, <1>o DEF InitUnmounted
  <2>c5. web' \in BOOLEAN /\ open' \in BOOLEAN /\ made' \in 0..MaxControllers /\ ops' \in 0..MaxOps
        /\ overlapped' \in BOOLEAN /\ orphaned' \in BOOLEAN
    BY <1>6, <1>t DEF InitUnmounted, history
  <2> QED BY <2>c1, <2>c2, <2>c3, <2>c4, <2>c5, TypedIntro
<1>7. ASSUME NEW c \in Ctl, InitOk(c) PROVE Typed'
  <2>1. PICK k : k = [ctl[c] EXCEPT !.status = "ready"]
    OBVIOUS
  <2>2. k \in Controller /\ k.owner = ctl[c].owner /\ ctl' = [ctl EXCEPT ![c] = k] /\ init[c] # "none"
    BY <1>7, <1>t, <2>1 DEF InitOk, Finished, Initializing, Controller
  <2>3. PICK h : h = [card[ctl[c].owner] EXCEPT !.isInitializing = FALSE, !.hasError = FALSE, !.isPlayerInitialized = TRUE]
    OBVIOUS
  <2>4. h \in Card /\ card' = [card EXCEPT ![ctl[c].owner] = h]
    <3>1. card[ctl[c].owner] \in Card
      BY <2>2, <1>t, <1>i
    <3>2. card' = [card EXCEPT ![ctl[c].owner] = h]
      BY <1>7, <2>2, <2>3, <1>t, <1>i DEF InitOk
    <3> QED BY <2>3, <3>1, <3>2 DEF Card
  <2>5. card[ctl[c].owner].controller \in Ctl
    BY <1>7, <2>2, <1>t, <1>i DEF InitOk, Card
  <2>c1. card' \in [Widget -> Card] /\ ctl' \in [Ctl -> Controller]
    BY <2>2, <2>4, <1>t
  <2>c2. init' \in [Ctl -> Inits] /\ \A d \in Ctl : init'[d] # "none" => ctl'[d].owner \in Widget
    BY <2>2, <1>7, <1>t, <1>i DEF InitOk, Inits
  <2>c3. registered' \in [Alias -> Ctl \cup {0}] /\ current' \in Ctl \cup {0} /\ currentAlias' \in Alias \cup {None}
    BY <2>5, <1>7, <1>t DEF InitOk
  <2>c4. op' \in [Op -> Operation] /\ \A q \in Op : op'[q].pc = "initialize" => op'[q].widget \in Widget
    BY <1>7, <1>t, <1>o DEF InitOk
  <2>c5. web' \in BOOLEAN /\ open' \in BOOLEAN /\ made' \in 0..MaxControllers /\ ops' \in 0..MaxOps
        /\ overlapped' \in BOOLEAN /\ orphaned' \in BOOLEAN
    BY <1>7, <1>t DEF InitOk, history
  <2> QED BY <2>c1, <2>c2, <2>c3, <2>c4, <2>c5, TypedIntro
<1>8. ASSUME NEW c \in Ctl, InitDetached(c) PROVE Typed'
  <2>1. PICK k : k = [ctl[c] EXCEPT !.status = "ready"]
    OBVIOUS
  <2>2. k \in Controller /\ k.owner = ctl[c].owner /\ ctl' = [ctl EXCEPT ![c] = k] /\ init[c] # "none"
    BY <1>8, <1>t, <2>1 DEF InitDetached, Finished, Initializing, Controller
  <2>4. Caught(c)
    BY <1>8 DEF InitDetached
  <2>3. card' \in [Widget -> Card] /\ \E e \in {"delay", "none"} : init' = [init EXCEPT ![c] = e]
    BY <2>2, <2>4, CaughtTypes
  <2>c1. card' \in [Widget -> Card] /\ ctl' \in [Ctl -> Controller]
    BY <2>2, <2>3, <1>t
  <2>c2. init' \in [Ctl -> Inits] /\ \A d \in Ctl : init'[d] # "none" => ctl'[d].owner \in Widget
    BY <2>2, <2>3, <1>t, <1>i DEF Inits
  <2>c3. registered' \in [Alias -> Ctl \cup {0}] /\ current' \in Ctl \cup {0} /\ currentAlias' \in Alias \cup {None}
    BY <2>4, <1>t DEF Caught, manager
  <2>c4. op' \in [Op -> Operation] /\ \A q \in Op : op'[q].pc = "initialize" => op'[q].widget \in Widget
    BY <2>4, <1>t, <1>o DEF Caught
  <2>c5. web' \in BOOLEAN /\ open' \in BOOLEAN /\ made' \in 0..MaxControllers /\ ops' \in 0..MaxOps
        /\ overlapped' \in BOOLEAN /\ orphaned' \in BOOLEAN
    BY <2>4, <1>t DEF Caught, history
  <2> QED BY <2>c1, <2>c2, <2>c3, <2>c4, <2>c5, TypedIntro
<1>9. ASSUME NEW c \in Ctl, InitFailed(c) PROVE Typed'
  <2>1. PICK k : k = [ctl[c] EXCEPT !.status = "failed"]
    OBVIOUS
  <2>2. k \in Controller /\ k.owner = ctl[c].owner /\ ctl' = [ctl EXCEPT ![c] = k] /\ init[c] # "none"
    BY <1>9, <1>t, <2>1 DEF InitFailed, Finished, Initializing, Controller
  <2>4. Caught(c)
    BY <1>9 DEF InitFailed
  <2>3. card' \in [Widget -> Card] /\ \E e \in {"delay", "none"} : init' = [init EXCEPT ![c] = e]
    BY <2>2, <2>4, CaughtTypes
  <2>c1. card' \in [Widget -> Card] /\ ctl' \in [Ctl -> Controller]
    BY <2>2, <2>3, <1>t
  <2>c2. init' \in [Ctl -> Inits] /\ \A d \in Ctl : init'[d] # "none" => ctl'[d].owner \in Widget
    BY <2>2, <2>3, <1>t, <1>i DEF Inits
  <2>c3. registered' \in [Alias -> Ctl \cup {0}] /\ current' \in Ctl \cup {0} /\ currentAlias' \in Alias \cup {None}
    BY <2>4, <1>t DEF Caught, manager
  <2>c4. op' \in [Op -> Operation] /\ \A q \in Op : op'[q].pc = "initialize" => op'[q].widget \in Widget
    BY <2>4, <1>t, <1>o DEF Caught
  <2>c5. web' \in BOOLEAN /\ open' \in BOOLEAN /\ made' \in 0..MaxControllers /\ ops' \in 0..MaxOps
        /\ overlapped' \in BOOLEAN /\ orphaned' \in BOOLEAN
    BY <2>4, <1>t DEF Caught, history
  <2> QED BY <2>c1, <2>c2, <2>c3, <2>c4, <2>c5, TypedIntro
<1>10. ASSUME NEW c \in Ctl, InitRangeError(c) PROVE Typed'
  <2>0. ctl[c].owner \in Widget /\ init[c] # "none"
    BY <1>10, <1>i DEF InitRangeError
  <2>1. PICK d \in Ctl :
          /\ d = made + 1 /\ made' = d
          /\ ctl' = [ctl EXCEPT ![c].status = "failed", ![d] = [Unused EXCEPT !.owner = ctl[c].owner, !.status = "creating"]]
          /\ card' = [card EXCEPT ![ctl[c].owner].controller = d, ![ctl[c].owner].retryCount = 1]
          /\ init' = [init EXCEPT ![c] = "none", ![d] = "simpler"]
          /\ op' = [o \in Op |-> IF op[o].pc = "initialize" /\ op[o].ctl = c
                               THEN [op[o] EXCEPT !.ctl = d] ELSE op[o]]
    BY <1>10 DEF InitRangeError
  <2>2. PICK k, n, h : /\ k = [ctl[c] EXCEPT !.status = "failed"]
                       /\ n = [Unused EXCEPT !.owner = ctl[c].owner, !.status = "creating"]
                       /\ h = [card[ctl[c].owner] EXCEPT !.controller = d, !.retryCount = 1]
    OBVIOUS
  <2>5. k \in Controller /\ n \in Controller /\ h \in Card /\ k.owner = ctl[c].owner /\ n.owner = ctl[c].owner
    <3>1. ctl[c] \in Controller /\ card[ctl[c].owner] \in Card
      BY <2>0, <1>t
    <3>2. k \in Controller /\ k.owner = ctl[c].owner
      BY <2>2, <3>1 DEF Controller
    <3>3. n \in Controller /\ n.owner = ctl[c].owner
      BY <2>0, <2>2 DEF Controller, Unused
    <3>4. h \in Card
      <4>1. 1 \in 0..maxRetries /\ d \in Ctl \cup {0}
        BY DEF maxRetries
      <4> QED BY <2>2, <3>1, <4>1 DEF Card
    <3> QED BY <3>2, <3>3, <3>4
  <2>3. /\ card' \in [Widget -> Card] /\ ctl' \in [Ctl -> Controller] /\ made' \in 0..MaxControllers
        /\ init' \in [Ctl -> Inits] /\ \A x \in Ctl : init'[x] # "none" => ctl'[x].owner \in Widget
    <3>1. ctl' = [ctl EXCEPT ![c] = k, ![d] = n] /\ card' = [card EXCEPT ![ctl[c].owner] = h]
      BY <2>0, <2>1, <2>2, <1>t
    <3>2. made' \in 0..MaxControllers
      BY <2>1, <1>t DEF Ctl
    <3> QED BY <2>0, <2>1, <2>5, <3>1, <3>2, <1>t, <1>i DEF Inits
  <2>4. op' \in [Op -> Operation] /\ \A q \in Op : op'[q].pc = "initialize" => op'[q].widget \in Widget
    <3>1. ASSUME NEW q \in Op PROVE op'[q] \in Operation /\ (op'[q].pc = "initialize" => op'[q].widget \in Widget)
      <4>1. op[q] \in Operation
        BY <1>t
      <4>2. op'[q] = [op[q] EXCEPT !.ctl = d] \/ op'[q] = op[q]
        BY <2>1
      <4>3. op'[q] \in Operation /\ op'[q].pc = op[q].pc /\ op'[q].widget = op[q].widget
        BY <4>1, <4>2 DEF Operation
      <4> QED BY <4>3, <1>o
    <3>2. op' = [q \in Op |-> op'[q]]
      BY <2>1
    <3> QED BY <3>1, <3>2
  <2>c1. card' \in [Widget -> Card] /\ ctl' \in [Ctl -> Controller]
    BY <2>3
  <2>c2. init' \in [Ctl -> Inits] /\ \A x \in Ctl : init'[x] # "none" => ctl'[x].owner \in Widget
    BY <2>3, <1>t, <1>i
  <2>c3. registered' \in [Alias -> Ctl \cup {0}] /\ current' \in Ctl \cup {0} /\ currentAlias' \in Alias \cup {None}
    BY <1>10, <1>t DEF InitRangeError, manager
  <2>c4. op' \in [Op -> Operation] /\ \A q \in Op : op'[q].pc = "initialize" => op'[q].widget \in Widget
    BY <2>4
  <2>c5. web' \in BOOLEAN /\ open' \in BOOLEAN /\ made' \in 0..MaxControllers /\ ops' \in 0..MaxOps
        /\ overlapped' \in BOOLEAN /\ orphaned' \in BOOLEAN
    BY <2>3, <1>10, <1>t DEF InitRangeError
  <2> QED BY <2>c1, <2>c2, <2>c3, <2>c4, <2>c5, TypedIntro
<1>11. ASSUME NEW c \in Ctl, RetryDelayed(c) PROVE Typed'
  <2> DEFINE w == ctl[c].owner
  <2>0. w \in Widget /\ init[c] = "delay"
    BY <1>11, <1>i DEF RetryDelayed
  <2>1. ASSUME Mounted(w), MayInitialize(w)
        PROVE  /\ card' \in [Widget -> Card] /\ ctl' \in [Ctl -> Controller] /\ made' \in 0..MaxControllers
               /\ init' \in [Ctl -> Inits] /\ \A d \in Ctl : init'[d] # "none" => ctl'[d].owner \in Widget
    <3>1. PICK d \in Ctl : Create(w, d, card[w]) /\ init' = [init EXCEPT ![c] = "none", ![d] = "initialize"]
      BY <1>11, <2>1 DEF RetryDelayed
    <3> HIDE DEF w
    <3>2. card[w] \in Card
      BY <2>0, <1>t
    <3>3. card' \in [Widget -> Card] /\ ctl' \in [Ctl -> Controller] /\ made' \in 0..MaxControllers
          /\ ctl'[d].owner = w /\ \A x \in Ctl \ {d} : ctl'[x] = ctl[x]
      BY <2>0, <3>1, <3>2, CreateTypes
    <3>4. init' \in [Ctl -> Inits] /\ \A x \in Ctl \ {c, d} : init'[x] = init[x]
      BY <3>1, <1>t DEF Inits
    <3>5. c # d => init'[c] = "none"
      BY <3>1, <1>t
    <3> QED BY <2>0, <3>3, <3>4, <3>5, <1>i
  <2>2. ASSUME ~(Mounted(w) /\ MayInitialize(w))
        PROVE  /\ card' \in [Widget -> Card] /\ ctl' \in [Ctl -> Controller] /\ made' \in 0..MaxControllers
               /\ init' \in [Ctl -> Inits] /\ \A d \in Ctl : init'[d] # "none" => ctl'[d].owner \in Widget
    <3>1. init' = [init EXCEPT ![c] = "none"] /\ UNCHANGED <<ctl, card, made>>
      BY <1>11, <2>2 DEF RetryDelayed
    <3> QED BY <3>1, <1>t, <1>i DEF Inits
  <2>c1. card' \in [Widget -> Card] /\ ctl' \in [Ctl -> Controller]
    BY <2>1, <2>2
  <2>c2. init' \in [Ctl -> Inits] /\ \A d \in Ctl : init'[d] # "none" => ctl'[d].owner \in Widget
    BY <2>1, <2>2
  <2>c3. registered' \in [Alias -> Ctl \cup {0}] /\ current' \in Ctl \cup {0} /\ currentAlias' \in Alias \cup {None}
    BY <1>11, <1>t DEF RetryDelayed, manager
  <2>c4. op' \in [Op -> Operation] /\ \A q \in Op : op'[q].pc = "initialize" => op'[q].widget \in Widget
    BY <1>11, <1>t, <1>o DEF RetryDelayed
  <2>c5. web' \in BOOLEAN /\ open' \in BOOLEAN /\ made' \in 0..MaxControllers /\ ops' \in 0..MaxOps
        /\ overlapped' \in BOOLEAN /\ orphaned' \in BOOLEAN
    BY <2>1, <2>2, <1>11, <1>t DEF RetryDelayed, history
  <2> QED BY <2>c1, <2>c2, <2>c3, <2>c4, <2>c5, TypedIntro
<1>12. ASSUME NEW c \in Ctl, Completed(c) PROVE Typed'
  <2>1. {} \in SUBSET Ctl /\ {c} \in SUBSET Ctl /\ SetPlaying({}, {c})
    BY <1>12, <1>t DEF Completed
  <2>2. card' \in [Widget -> Card] /\ ctl' \in [Ctl -> Controller]
        /\ \A d \in Ctl : ctl'[d].owner = ctl[d].owner
    BY <2>1, PlayingTypes
  <2>c1. card' \in [Widget -> Card] /\ ctl' \in [Ctl -> Controller]
    BY <2>2
  <2>c2. init' \in [Ctl -> Inits] /\ \A d \in Ctl : init'[d] # "none" => ctl'[d].owner \in Widget
    BY <2>2, <1>12, <1>t, <1>i DEF Completed
  <2>c3. registered' \in [Alias -> Ctl \cup {0}] /\ current' \in Ctl \cup {0} /\ currentAlias' \in Alias \cup {None}
    BY <1>12, <1>t DEF Completed, manager
  <2>c4. op' \in [Op -> Operation] /\ \A q \in Op : op'[q].pc = "initialize" => op'[q].widget \in Widget
    BY <1>12, <1>t, <1>o DEF Completed
  <2>c5. web' \in BOOLEAN /\ open' \in BOOLEAN /\ made' \in 0..MaxControllers /\ ops' \in 0..MaxOps
        /\ overlapped' \in BOOLEAN /\ orphaned' \in BOOLEAN
    BY <1>12, <1>t DEF Completed, history
  <2> QED BY <2>c1, <2>c2, <2>c3, <2>c4, <2>c5, TypedIntro
<1>13. ASSUME NEW w \in Widget, NEW o \in Op, TapInitialize(w, o) PROVE Typed'
  <2>1. PICK c \in Ctl : Create(w, c, card[w]) /\ init' = [init EXCEPT ![c] = "initialize"] /\ Goto(o, "initialize", w, c)
    BY <1>13 DEF TapInitialize
  <2>2. card' \in [Widget -> Card] /\ ctl' \in [Ctl -> Controller] /\ made' \in 0..MaxControllers
        /\ ctl'[c].owner = w /\ \A d \in Ctl \ {c} : ctl'[d] = ctl[d]
    BY <2>1, <1>t, CreateTypes
  <2>3. init' \in [Ctl -> Inits] /\ \A d \in Ctl \ {c} : init'[d] = init[d]
    BY <2>1, <1>t DEF Inits
  <2>4. op' \in [Op -> Operation] /\ \A q \in Op : op'[q].pc = "initialize" => op'[q].widget \in Widget
    BY <2>1, OpTypes
  <2>c1. card' \in [Widget -> Card] /\ ctl' \in [Ctl -> Controller]
    BY <2>2
  <2>c2. init' \in [Ctl -> Inits] /\ \A d \in Ctl : init'[d] # "none" => ctl'[d].owner \in Widget
    BY <2>2, <2>3, <1>i
  <2>c3. registered' \in [Alias -> Ctl \cup {0}] /\ current' \in Ctl \cup {0} /\ currentAlias' \in Alias \cup {None}
    BY <1>13, <1>t DEF TapInitialize, manager
  <2>c4. op' \in [Op -> Operation] /\ \A q \in Op : op'[q].pc = "initialize" => op'[q].widget \in Widget
    BY <2>4
  <2>c5. web' \in BOOLEAN /\ open' \in BOOLEAN /\ made' \in 0..MaxControllers /\ ops' \in 0..MaxOps
        /\ overlapped' \in BOOLEAN /\ orphaned' \in BOOLEAN
    BY <2>2, <1>13, <1>t DEF TapInitialize, Begin
  <2> QED BY <2>c1, <2>c2, <2>c3, <2>c4, <2>c5, TypedIntro
<1>14. ASSUME NEW w \in Widget, NEW o \in Op, TapPlay(w, o) PROVE Typed'
  <2>1. card[w].controller \in Ctl /\ StartPlaying(o, w, card[w].controller)
    BY <1>14, <1>t DEF TapPlay, Initialized, Card
  <2>2. /\ card' \in [Widget -> Card] /\ ctl' \in [Ctl -> Controller]
        /\ current' \in Ctl \cup {0} /\ currentAlias' \in Alias \cup {None}
        /\ op' \in [Op -> Operation] /\ \A q \in Op : op'[q].pc = "initialize" => op'[q].widget \in Widget
        /\ init' = init /\ registered' = registered /\ made' = made
    BY <2>1, StartPlayingTypes
  <2>3. \A d \in Ctl : ctl'[d].owner = ctl[d].owner
    BY <2>1, StartPlayingOwners
  <2>c1. card' \in [Widget -> Card] /\ ctl' \in [Ctl -> Controller]
    BY <2>2
  <2>c2. init' \in [Ctl -> Inits] /\ \A d \in Ctl : init'[d] # "none" => ctl'[d].owner \in Widget
    BY <2>2, <2>3, <1>t, <1>i
  <2>c3. registered' \in [Alias -> Ctl \cup {0}] /\ current' \in Ctl \cup {0} /\ currentAlias' \in Alias \cup {None}
    BY <2>2, <1>t
  <2>c4. op' \in [Op -> Operation] /\ \A q \in Op : op'[q].pc = "initialize" => op'[q].widget \in Widget
    BY <2>2
  <2>c5. web' \in BOOLEAN /\ open' \in BOOLEAN /\ made' \in 0..MaxControllers /\ ops' \in 0..MaxOps
        /\ overlapped' \in BOOLEAN /\ orphaned' \in BOOLEAN
    <3>1. ops < MaxOps /\ ops' = ops + 1 /\ web' = web /\ open' = open /\ orphaned' = orphaned /\ overlapped' \in BOOLEAN
      BY <1>14, <1>t DEF TapPlay, Begin
    <3> QED BY <2>2, <3>1, <1>t
  <2> QED BY <2>c1, <2>c2, <2>c3, <2>c4, <2>c5, TypedIntro
<1>15. ASSUME NEW x \in Alias, NEW o \in Op, Autoplay(x, o) PROVE Typed'
  <2>1. registered[x] \in Ctl /\ StartPlaying(o, None, registered[x])
    BY <1>15, <1>t DEF Autoplay, Initialized, Card
  <2>2. /\ card' \in [Widget -> Card] /\ ctl' \in [Ctl -> Controller]
        /\ current' \in Ctl \cup {0} /\ currentAlias' \in Alias \cup {None}
        /\ op' \in [Op -> Operation] /\ \A q \in Op : op'[q].pc = "initialize" => op'[q].widget \in Widget
        /\ init' = init /\ registered' = registered /\ made' = made
    BY <2>1, StartPlayingTypes
  <2>3. \A d \in Ctl : ctl'[d].owner = ctl[d].owner
    BY <2>1, StartPlayingOwners
  <2>c1. card' \in [Widget -> Card] /\ ctl' \in [Ctl -> Controller]
    BY <2>2
  <2>c2. init' \in [Ctl -> Inits] /\ \A d \in Ctl : init'[d] # "none" => ctl'[d].owner \in Widget
    BY <2>2, <2>3, <1>t, <1>i
  <2>c3. registered' \in [Alias -> Ctl \cup {0}] /\ current' \in Ctl \cup {0} /\ currentAlias' \in Alias \cup {None}
    BY <2>2, <1>t
  <2>c4. op' \in [Op -> Operation] /\ \A q \in Op : op'[q].pc = "initialize" => op'[q].widget \in Widget
    BY <2>2
  <2>c5. web' \in BOOLEAN /\ open' \in BOOLEAN /\ made' \in 0..MaxControllers /\ ops' \in 0..MaxOps
        /\ overlapped' \in BOOLEAN /\ orphaned' \in BOOLEAN
    <3>1. ops < MaxOps /\ ops' = ops + 1 /\ web' = web /\ open' = open /\ orphaned' = orphaned /\ overlapped' \in BOOLEAN
      BY <1>15, <1>t DEF Autoplay, Begin
    <3> QED BY <2>2, <3>1, <1>t
  <2> QED BY <2>c1, <2>c2, <2>c3, <2>c4, <2>c5, TypedIntro
<1>16. ASSUME NEW w \in Widget, NEW o \in Op, TapPause(w, o) PROVE Typed'
  <2>0. card[w].controller \in Ctl
    BY <1>16, <1>t DEF TapPause, Initialized, Card
  <2>1. {} \in SUBSET Ctl /\ {card[w].controller} \in SUBSET Ctl /\ SetPlaying({}, {card[w].controller})
    BY <1>16, <1>t, <2>0 DEF TapPause
  <2>2. card' \in [Widget -> Card] /\ ctl' \in [Ctl -> Controller]
        /\ \A d \in Ctl : ctl'[d].owner = ctl[d].owner
    BY <2>1, PlayingTypes
  <2>c1. card' \in [Widget -> Card] /\ ctl' \in [Ctl -> Controller]
    BY <2>2
  <2>c2. init' \in [Ctl -> Inits] /\ \A d \in Ctl : init'[d] # "none" => ctl'[d].owner \in Widget
    BY <2>2, <1>16, <1>t, <1>i DEF TapPause
  <2>c3. registered' \in [Alias -> Ctl \cup {0}] /\ current' \in Ctl \cup {0} /\ currentAlias' \in Alias \cup {None}
    BY <1>16, <1>t DEF TapPause, manager
  <2>c4. op' \in [Op -> Operation] /\ \A q \in Op : op'[q].pc = "initialize" => op'[q].widget \in Widget
    <3>1. Goto(o, "pauseOwn", w, card[w].controller)
      BY <1>16 DEF TapPause
    <3> QED BY <2>0, <3>1, OpTypes
  <2>c5. web' \in BOOLEAN /\ open' \in BOOLEAN /\ made' \in 0..MaxControllers /\ ops' \in 0..MaxOps
        /\ overlapped' \in BOOLEAN /\ orphaned' \in BOOLEAN
    BY <1>16, <1>t DEF TapPause, Begin
  <2> QED BY <2>c1, <2>c2, <2>c3, <2>c4, <2>c5, TypedIntro
<1>17. ASSUME NEW o \in Op, Stop(o) PROVE Typed'
  <2>0. current \in Ctl
    BY <1>17, <1>t DEF Stop
  <2>1. {} \in SUBSET Ctl /\ {current} \in SUBSET Ctl /\ SetPlaying({}, {current})
    BY <1>17, <1>t, <2>0 DEF Stop
  <2>2. card' \in [Widget -> Card] /\ ctl' \in [Ctl -> Controller]
        /\ \A d \in Ctl : ctl'[d].owner = ctl[d].owner
    BY <2>1, PlayingTypes
  <2>c1. card' \in [Widget -> Card] /\ ctl' \in [Ctl -> Controller]
    BY <2>2
  <2>c2. init' \in [Ctl -> Inits] /\ \A d \in Ctl : init'[d] # "none" => ctl'[d].owner \in Widget
    BY <2>2, <1>17, <1>t, <1>i DEF Stop
  <2>c3. registered' \in [Alias -> Ctl \cup {0}] /\ current' \in Ctl \cup {0} /\ currentAlias' \in Alias \cup {None}
    BY <1>17, <1>t DEF Stop, manager
  <2>c4. op' \in [Op -> Operation] /\ \A q \in Op : op'[q].pc = "initialize" => op'[q].widget \in Widget
    <3>1. Goto(o, "stop", None, current)
      BY <1>17 DEF Stop
    <3> QED BY <2>0, <3>1, OpTypes
  <2>c5. web' \in BOOLEAN /\ open' \in BOOLEAN /\ made' \in 0..MaxControllers /\ ops' \in 0..MaxOps
        /\ overlapped' \in BOOLEAN /\ orphaned' \in BOOLEAN
    BY <1>17, <1>t DEF Stop, Begin
  <2> QED BY <2>c1, <2>c2, <2>c3, <2>c4, <2>c5, TypedIntro
<1>18. ASSUME NEW o \in Op, TapInitialized(o) PROVE Typed'
  <2> DEFINE w == op[o].widget
             c == card[w].controller
  <2>0. w \in Widget /\ c \in Ctl \cup {0}
    BY <1>18, <1>t, <1>o DEF TapInitialized, Card
  <2>1. ASSUME Initialized(c) /\ ~card[w].isPlaying
        PROVE  /\ card' \in [Widget -> Card] /\ ctl' \in [Ctl -> Controller]
               /\ current' \in Ctl \cup {0} /\ currentAlias' \in Alias \cup {None}
               /\ op' \in [Op -> Operation] /\ \A q \in Op : op'[q].pc = "initialize" => op'[q].widget \in Widget
               /\ init' = init /\ registered' = registered /\ made' = made
               /\ \A d \in Ctl : ctl'[d].owner = ctl[d].owner
    <3>1. c \in Ctl /\ StartPlaying(o, w, c)
      BY <1>18, <2>0, <2>1 DEF TapInitialized, Initialized
    <3> HIDE DEF w, c
    <3> QED BY <2>0, <3>1, StartPlayingTypes, StartPlayingOwners
  <2>2. ASSUME Initialized(c) /\ card[w].isPlaying
        PROVE  /\ card' \in [Widget -> Card] /\ ctl' \in [Ctl -> Controller]
               /\ current' \in Ctl \cup {0} /\ currentAlias' \in Alias \cup {None}
               /\ op' \in [Op -> Operation] /\ \A q \in Op : op'[q].pc = "initialize" => op'[q].widget \in Widget
               /\ init' = init /\ registered' = registered /\ made' = made
               /\ \A d \in Ctl : ctl'[d].owner = ctl[d].owner
    <3>1. c \in Ctl /\ SetPlaying({}, {c}) /\ Goto(o, "pauseOwn", w, c) /\ UNCHANGED <<init, manager, made>>
      BY <1>18, <2>0, <2>2 DEF TapInitialized, Initialized
    <3> HIDE DEF w, c
    <3>2. card' \in [Widget -> Card] /\ ctl' \in [Ctl -> Controller] /\ \A d \in Ctl : ctl'[d].owner = ctl[d].owner
      BY <3>1, PlayingTypes
    <3>3. op' \in [Op -> Operation] /\ \A q \in Op : op'[q].pc = "initialize" => op'[q].widget \in Widget
      BY <2>0, <3>1, OpTypes
    <3> QED BY <3>1, <3>2, <3>3, <1>t DEF manager
  <2>3. ASSUME ~Initialized(c)
        PROVE  /\ card' \in [Widget -> Card] /\ ctl' \in [Ctl -> Controller]
               /\ current' \in Ctl \cup {0} /\ currentAlias' \in Alias \cup {None}
               /\ op' \in [Op -> Operation] /\ \A q \in Op : op'[q].pc = "initialize" => op'[q].widget \in Widget
               /\ init' = init /\ registered' = registered /\ made' = made
               /\ \A d \in Ctl : ctl'[d].owner = ctl[d].owner
    <3>1. End(o) /\ UNCHANGED <<ctl, card>> /\ UNCHANGED <<init, manager, made>>
      BY <1>18, <2>3 DEF TapInitialized
    <3>3. op' \in [Op -> Operation] /\ \A q \in Op : op'[q].pc = "initialize" => op'[q].widget \in Widget
      BY <3>1, OpTypes
    <3> QED BY <3>1, <3>3, <1>t DEF manager
  <2> HIDE DEF w, c
  <2>4. /\ card' \in [Widget -> Card] /\ ctl' \in [Ctl -> Controller]
        /\ current' \in Ctl \cup {0} /\ currentAlias' \in Alias \cup {None}
        /\ op' \in [Op -> Operation] /\ \A q \in Op : op'[q].pc = "initialize" => op'[q].widget \in Widget
        /\ init' = init /\ registered' = registered /\ made' = made
        /\ \A d \in Ctl : ctl'[d].owner = ctl[d].owner
    BY <2>1, <2>2, <2>3
  <2>c1. card' \in [Widget -> Card] /\ ctl' \in [Ctl -> Controller]
    BY <2>4
  <2>c2. init' \in [Ctl -> Inits] /\ \A d \in Ctl : init'[d] # "none" => ctl'[d].owner \in Widget
    BY <2>4, <1>t, <1>i
  <2>c3. registered' \in [Alias -> Ctl \cup {0}] /\ current' \in Ctl \cup {0} /\ currentAlias' \in Alias \cup {None}
    BY <2>4, <1>t
  <2>c4. op' \in [Op -> Operation] /\ \A q \in Op : op'[q].pc = "initialize" => op'[q].widget \in Widget
    BY <2>4
  <2>c5. web' \in BOOLEAN /\ open' \in BOOLEAN /\ made' \in 0..MaxControllers /\ ops' \in 0..MaxOps
        /\ overlapped' \in BOOLEAN /\ orphaned' \in BOOLEAN
    BY <2>4, <1>18, <1>t DEF TapInitialized, history
  <2> QED BY <2>c1, <2>c2, <2>c3, <2>c4, <2>c5, TypedIntro
<1>19. ASSUME NEW o \in Op, OthersPaused(o) PROVE Typed'
  <2>1. op[o].widget \in Widget \cup {None} /\ op[o].ctl \in Ctl \cup {0}
    BY <1>t DEF Operation
  <2>c1. card' \in [Widget -> Card] /\ ctl' \in [Ctl -> Controller]
    BY <1>19, <1>t DEF OthersPaused
  <2>c2. init' \in [Ctl -> Inits] /\ \A d \in Ctl : init'[d] # "none" => ctl'[d].owner \in Widget
    BY <1>19, <1>t, <1>i DEF OthersPaused
  <2>c3. registered' \in [Alias -> Ctl \cup {0}] /\ current' \in Ctl \cup {0} /\ currentAlias' \in Alias \cup {None}
    BY <2>1, <1>19, <1>t DEF OthersPaused, SetCurrent
  <2>c4. op' \in [Op -> Operation] /\ \A q \in Op : op'[q].pc = "initialize" => op'[q].widget \in Widget
    <3>1. End(o) \/ Goto(o, "seek", op[o].widget, op[o].ctl)
      BY <1>19 DEF OthersPaused
    <3> QED BY <2>1, <3>1, OpTypes
  <2>c5. web' \in BOOLEAN /\ open' \in BOOLEAN /\ made' \in 0..MaxControllers /\ ops' \in 0..MaxOps
        /\ overlapped' \in BOOLEAN /\ orphaned' \in BOOLEAN
    BY <1>19, <1>t DEF OthersPaused, history
  <2> QED BY <2>c1, <2>c2, <2>c3, <2>c4, <2>c5, TypedIntro
<1>20. ASSUME NEW o \in Op, Sought(o) PROVE Typed'
  <2>1. {c \in Ctl : c = Target(o) /\ ~ctl[c].disposed} \in SUBSET Ctl /\ {} \in SUBSET Ctl /\ SetPlaying({c \in Ctl : c = Target(o) /\ ~ctl[c].disposed}, {})
    BY <1>20, <1>t DEF Sought
  <2>2. card' \in [Widget -> Card] /\ ctl' \in [Ctl -> Controller]
        /\ \A d \in Ctl : ctl'[d].owner = ctl[d].owner
    BY <2>1, PlayingTypes
  <2>c1. card' \in [Widget -> Card] /\ ctl' \in [Ctl -> Controller]
    BY <2>2
  <2>c2. init' \in [Ctl -> Inits] /\ \A d \in Ctl : init'[d] # "none" => ctl'[d].owner \in Widget
    BY <2>2, <1>20, <1>t, <1>i DEF Sought
  <2>c3. registered' \in [Alias -> Ctl \cup {0}] /\ current' \in Ctl \cup {0} /\ currentAlias' \in Alias \cup {None}
    BY <1>20, <1>t DEF Sought, manager
  <2>c4. op' \in [Op -> Operation] /\ \A q \in Op : op'[q].pc = "initialize" => op'[q].widget \in Widget
    BY <1>20, OpTypes DEF Sought
  <2>c5. web' \in BOOLEAN /\ open' \in BOOLEAN /\ made' \in 0..MaxControllers /\ ops' \in 0..MaxOps
        /\ overlapped' \in BOOLEAN /\ orphaned' \in BOOLEAN
    BY <1>20, <1>t DEF Sought, history
  <2> QED BY <2>c1, <2>c2, <2>c3, <2>c4, <2>c5, TypedIntro
<1>21. ASSUME NEW o \in Op, Paused(o) PROVE Typed'
  <2>c1. card' \in [Widget -> Card] /\ ctl' \in [Ctl -> Controller]
    BY <1>21, <1>t DEF Paused
  <2>c2. init' \in [Ctl -> Inits] /\ \A d \in Ctl : init'[d] # "none" => ctl'[d].owner \in Widget
    BY <1>21, <1>t, <1>i DEF Paused
  <2>c3. registered' \in [Alias -> Ctl \cup {0}] /\ current' \in Ctl \cup {0} /\ currentAlias' \in Alias \cup {None}
    BY <1>21, <1>t DEF Paused
  <2>c4. op' \in [Op -> Operation] /\ \A q \in Op : op'[q].pc = "initialize" => op'[q].widget \in Widget
    BY <1>21, OpTypes DEF Paused
  <2>c5. web' \in BOOLEAN /\ open' \in BOOLEAN /\ made' \in 0..MaxControllers /\ ops' \in 0..MaxOps
        /\ overlapped' \in BOOLEAN /\ orphaned' \in BOOLEAN
    BY <1>21, <1>t DEF Paused, history
  <2> QED BY <2>c1, <2>c2, <2>c3, <2>c4, <2>c5, TypedIntro
<1>22. CASE UNCHANGED vars
  <2>1. UNCHANGED <<web, card, ctl, init, registered, current, currentAlias, op, open, made, ops, overlapped, orphaned>>
    BY <1>22 DEF vars, manager, history
  <2> QED BY <2>1, <1>t, <1>o, <1>i, TypedIntro
<1> QED
  BY <1>1, <1>2, <1>3, <1>4, <1>5, <1>6, <1>7, <1>8, <1>9, <1>10, <1>11, <1>12, <1>13, <1>14, <1>15, <1>16, <1>17, <1>18, <1>19, <1>20, <1>21, <1>22 DEF Next

(* The initial states have the types.                                      *)
LEMMA InitTyped == Init => Typed
<1> SUFFICES ASSUME Init PROVE Typed
  OBVIOUS
<1>1. NewCard \in Card /\ Unused \in Controller /\ NoOp \in Operation
  BY DEF NewCard, Card, Unused, Controller, NoOp, Operation, maxRetries
<1>2. card \in [Widget -> Card] /\ ctl \in [Ctl -> Controller] /\ op \in [Op -> Operation]
  BY <1>1 DEF Init
<1>3. \A o \in Op : op[o].pc = "idle"
  BY DEF Init, NoOp
<1>4. init \in [Ctl -> Inits] /\ \A c \in Ctl : init[c] = "none"
  BY DEF Init, Inits
<1>5. registered \in [Alias -> Ctl \cup {0}]
  BY DEF Init
<1>6. made \in 0..MaxControllers /\ ops \in 0..MaxOps
  BY VideoAssumption DEF Init
<1>7. /\ current \in Ctl \cup {0} /\ currentAlias \in Alias \cup {None}
      /\ web \in BOOLEAN /\ open \in BOOLEAN /\ overlapped \in BOOLEAN /\ orphaned \in BOOLEAN
  BY DEF Init
<1> QED BY <1>2, <1>3, <1>4, <1>5, <1>6, <1>7 DEF Typed, TypeOK, Inits

(* Every variable keeps its type, for any items, cards, players and taps.  *)
THEOREM TypeCorrect == Spec => []TypeOK
<1>1. Init => Typed
  BY InitTyped
<1>2. Typed => TypeOK
  BY DEF Typed
<1> QED BY <1>1, <1>2, TypedNext, PTL DEF Spec
(***************************************************************************)
(* Cards, players and manager agree.                                       *)
(***************************************************************************)

(* Players are made one after the other, for cards that have been mounted;
   a disposed one does not play; of an item at most one card is mounted.   *)
Books ==
  /\ \A c \in Ctl : c > made => ctl[c].status = "unused"
  /\ \A c \in Ctl : init[c] # "none" => ctl[c].status # "unused"
  /\ \A c \in Ctl : ctl[c].status # "unused" => ctl[c].owner \in Widget /\ card[ctl[c].owner].mounted # "new"
  /\ \A c \in Ctl : ctl[c].playing => ~ctl[c].disposed
  /\ \A w \in Widget : card[w].mounted = "new" =>
       card[w].controller = 0 /\ ~card[w].isPlayerInitialized /\ ~card[w].isInitializing
  /\ \A v, w \in Widget : Mounted(v) /\ Mounted(w) /\ AliasOf[v] = AliasOf[w] => v = w

(* A card without a player is not initialized and does not initialize; the
   one of a mounted card is live, and registered once it is initialized.   *)
CardLive(w) ==
  LET c == card[w].controller IN
  /\ ~Mounted(w) => c = 0
  /\ Mounted(w) /\ c = 0 => ~card[w].isPlayerInitialized /\ ~card[w].isInitializing
  /\ Mounted(w) /\ c # 0 =>
       /\ ctl[c].owner = w /\ ~ctl[c].disposed
       /\ card[w].isPlayerInitialized =>
            ctl[c].status = "ready" /\ ~card[w].isInitializing /\ registered[AliasOf[w]] = c
       /\ ~card[w].isPlayerInitialized =>
            ctl[c].status = "failed" \/ (card[w].isInitializing /\ ctl[c].status = "creating")

(* An initialization is the only one of its card and, so long as that is
   mounted, of the card's player.                                          *)
InitLive(c) ==
  /\ init[c] # "none" /\ Mounted(ctl[c].owner) =>
       card[ctl[c].owner].isInitializing /\ card[ctl[c].owner].controller = c
  /\ ctl[c].status = "creating" <=> init[c] \in {"initialize", "simpler"}
  /\ \A d \in Ctl : init[c] # "none" /\ init[d] # "none" /\ ctl[c].owner = ctl[d].owner => c = d

(* A player that works and is not disposed is in the hands of its card.    *)
CtlLive(c) ==
  ctl[c].status \in {"creating", "ready"} /\ ~ctl[c].disposed =>
    Mounted(ctl[c].owner) /\ card[ctl[c].owner].controller = c

(* What RegisteredIsLive says of one item.                                 *)
Entry(a) ==
  LET c == registered[a] IN
  c # 0 => /\ ctl[c].status = "ready" /\ ~ctl[c].disposed
           /\ Mounted(ctl[c].owner) /\ AliasOf[ctl[c].owner] = a
           /\ card[ctl[c].owner].controller = c

Live ==
  ~orphaned => /\ \A w \in Widget : CardLive(w)
               /\ \A c \in Ctl : InitLive(c) /\ CtlLive(c)
               /\ \A a \in Alias : Entry(a)

(* What a step of a playback operation leaves alone.                       *)
Quiet ==
  /\ \A w \in Widget : /\ card'[w].mounted = card[w].mounted
                       /\ card'[w].controller = card[w].controller
                       /\ card'[w].isInitializing = card[w].isInitializing
                       /\ card'[w].isPlayerInitialized = card[w].isPlayerInitialized
  /\ \A c \in Ctl : /\ ctl'[c].owner = ctl[c].owner /\ ctl'[c].status = ctl[c].status
                    /\ ctl'[c].disposed = ctl[c].disposed
                    /\ ctl'[c].playing => ctl[c].playing \/ ~ctl[c].disposed
  /\ init' = init /\ registered' = registered /\ made' = made /\ orphaned' = orphaned

(* A step of a playback operation keeps Books.                             *)
LEMMA QuietBooks == Typed /\ Books /\ Quiet => Books'
<1> SUFFICES ASSUME Typed, Books, Quiet PROVE Books'
  OBVIOUS
<1>1. \A c \in Ctl : c > made' => ctl'[c].status = "unused"
  BY DEF Books, Quiet
<1>2. \A c \in Ctl : init'[c] # "none" => ctl'[c].status # "unused"
  BY DEF Books, Quiet
<1>3. \A c \in Ctl : ctl'[c].status # "unused" => ctl'[c].owner \in Widget /\ card'[ctl'[c].owner].mounted # "new"
  BY DEF Books, Quiet
<1>4. \A c \in Ctl : ctl'[c].playing => ~ctl'[c].disposed
  BY DEF Books, Quiet
<1>5. \A w \in Widget : card'[w].mounted = "new" =>
        card'[w].controller = 0 /\ ~card'[w].isPlayerInitialized /\ ~card'[w].isInitializing
  BY DEF Books, Quiet
<1>6. \A v, w \in Widget : card'[v].mounted = "yes" /\ card'[w].mounted = "yes" /\ AliasOf[v] = AliasOf[w] => v = w
  BY DEF Books, Quiet, Mounted
<1> QED BY <1>1, <1>2, <1>3, <1>4, <1>5, <1>6 DEF Books, Mounted

(* A step of a playback operation keeps Live.                              *)
LEMMA QuietLive == Typed /\ Books /\ Live /\ Quiet => Live'
<1> SUFFICES ASSUME Typed, Books, Live, Quiet, ~orphaned' PROVE Live'
  BY DEF Live
<1>0. /\ \A w \in Widget : CardLive(w)
      /\ \A c \in Ctl : InitLive(c) /\ CtlLive(c)
      /\ \A a \in Alias : Entry(a)
  BY DEF Quiet, Live
<1>t. /\ \A w \in Widget : card[w].controller \in Ctl \cup {0}
      /\ \A a \in Alias : registered[a] \in Ctl \cup {0}
      /\ 0 \notin Ctl
  BY TypesOf DEF Types, Card
<1>1. ASSUME NEW w \in Widget PROVE CardLive(w)'
  <2>1. CASE card[w].controller = 0
    BY <1>0, <2>1 DEF Quiet, CardLive, Mounted
  <2>2. CASE card[w].controller \in Ctl
    BY <1>0, <1>t, <2>2 DEF Quiet, CardLive, Mounted
  <2> QED BY <1>t, <2>1, <2>2
<1>o. \A c \in Ctl : ctl[c].status # "unused" => ctl[c].owner \in Widget
  BY DEF Books
<1>2. ASSUME NEW c \in Ctl PROVE InitLive(c)' /\ CtlLive(c)'
  <2>0. init[c] # "none" => ctl[c].owner \in Widget
    BY DEF Typed
  <2>1. InitLive(c)'
    BY <1>0, <2>0 DEF Quiet, InitLive, Mounted
  <2>2. CtlLive(c)'
    BY <1>0, <1>o DEF Quiet, CtlLive, Mounted
  <2> QED BY <2>1, <2>2
<1>3. ASSUME NEW a \in Alias PROVE Entry(a)'
  <2>1. CASE registered[a] = 0
    BY <2>1 DEF Quiet, Entry
  <2>2. CASE registered[a] \in Ctl
    <3>1. Entry(a) /\ registered[a] # 0
      BY <1>0, <1>t, <2>2
    <3>2. ctl[registered[a]].owner \in Widget
      BY <1>o, <2>2, <3>1 DEF Entry
    <3> QED BY <2>2, <3>1, <3>2 DEF Quiet, Entry, Mounted
  <2> QED BY <1>t, <2>1, <2>2
<1> QED BY <1>1, <1>2, <1>3 DEF Live

(* Which steps are quiet.                                                  *)
LEMMA QuietSteps ==
  ASSUME Typed,
         \/ \E w \in Widget : Notified(w)
         \/ \E c \in Ctl : Completed(c)
         \/ \E w \in Widget, o \in Op : TapPlay(w, o) \/ TapPause(w, o)
         \/ \E a \in Alias, o \in Op : Autoplay(a, o)
         \/ \E o \in Op : Stop(o) \/ TapInitialized(o) \/ OthersPaused(o) \/ Sought(o) \/ Paused(o)
         \/ UNCHANGED vars
  PROVE  Quiet
<1>t. /\ card \in [Widget -> Card] /\ ctl \in [Ctl -> Controller]
      /\ registered \in [Alias -> Ctl \cup {0}] /\ current \in Ctl \cup {0} /\ op \in [Op -> Operation] /\ 0 \notin Ctl
  BY TypesOf DEF Types
<1> DEFINE Rest == init' = init /\ registered' = registered /\ made' = made /\ orphaned' = orphaned
           Started == \E on, off \in SUBSET Ctl : SetPlaying(on, off) /\ \A c \in on : ~ctl[c].disposed
<1>q. ASSUME Rest, Started \/ (ctl' = ctl /\ card' = card) PROVE Quiet
  <2>1. CASE ctl' = ctl /\ card' = card
    BY <1>q, <2>1 DEF Quiet
  <2>2. CASE Started
    <3>1. PICK on \in SUBSET Ctl, off \in SUBSET Ctl : SetPlaying(on, off) /\ \A c \in on : ~ctl[c].disposed
      BY <2>2
    <3>2. /\ \A c \in Ctl : /\ ctl'[c].owner = ctl[c].owner /\ ctl'[c].status = ctl[c].status
                            /\ ctl'[c].disposed = ctl[c].disposed
                            /\ ctl'[c].playing <=> (ctl[c].playing \/ c \in on) /\ c \notin off
          /\ \A w \in Widget : /\ card'[w].mounted = card[w].mounted
                               /\ card'[w].controller = card[w].controller
                               /\ card'[w].isInitializing = card[w].isInitializing
                               /\ card'[w].isPlayerInitialized = card[w].isPlayerInitialized
      BY <3>1, PlayingTypes
    <3> QED BY <1>q, <3>1, <3>2 DEF Quiet
  <2> QED BY <1>q, <2>1, <2>2
<1>e. ASSUME NEW off \in SUBSET Ctl, SetPlaying({}, off) PROVE Started
  <2>1. {} \in SUBSET Ctl /\ \A c \in {} : ~ctl[c].disposed
    OBVIOUS
  <2> QED BY <1>e, <2>1
<1>s. ASSUME NEW o \in Op, NEW w \in Widget \cup {None}, NEW c \in Ctl, StartPlaying(o, w, c)
      PROVE  Started \/ (ctl' = ctl /\ card' = card)
  <2>1. Others(c) \in SUBSET Ctl
    BY <1>s, StartPlayingTypes
  <2>2. CASE Others(c) = {}
    BY <1>s, <2>2 DEF StartPlaying
  <2>3. CASE Others(c) # {}
    BY <1>s, <1>e, <2>1, <2>3 DEF StartPlaying
  <2> QED BY <2>2, <2>3
<1> HIDE DEF Started
<1>1. ASSUME NEW w \in Widget, Notified(w) PROVE Quiet
  <2>1. PICK h : h = [card[w] EXCEPT !.isPlaying = ctl[card[w].controller].playing]
    OBVIOUS
  <2>2. card' = [card EXCEPT ![w] = h] /\ ctl' = ctl
    BY <1>1, <2>1 DEF Notified
  <2>3. /\ h.mounted = card[w].mounted /\ h.controller = card[w].controller
        /\ h.isInitializing = card[w].isInitializing /\ h.isPlayerInitialized = card[w].isPlayerInitialized
    BY <2>1, <1>t DEF Card
  <2>4. \A v \in Widget : card'[v] = IF v = w THEN h ELSE card[v]
    BY <2>2, <1>t
  <2>5. Rest
    BY <1>1 DEF Notified, manager, history
  <2> QED BY <2>2, <2>3, <2>4, <2>5 DEF Quiet
<1>2. ASSUME NEW c \in Ctl, Completed(c) PROVE Quiet
  <2>1. Rest
    BY <1>2 DEF Completed, manager, history
  <2>2. SetPlaying({}, {c}) /\ {c} \in SUBSET Ctl
    BY <1>2 DEF Completed
  <2> QED BY <1>q, <1>e, <2>1, <2>2
<1>3. ASSUME NEW w \in Widget, NEW o \in Op, TapPlay(w, o) PROVE Quiet
  <2>1. card[w].controller \in Ctl /\ StartPlaying(o, w, card[w].controller)
    BY <1>3, <1>t DEF TapPlay, Initialized, Card
  <2>2. Rest
    BY <1>3 DEF TapPlay, StartPlaying, Begin
  <2> QED BY <1>q, <1>s, <2>1, <2>2
<1>4. ASSUME NEW w \in Widget, NEW o \in Op, TapPause(w, o) PROVE Quiet
  <2>1. {card[w].controller} \in SUBSET Ctl /\ SetPlaying({}, {card[w].controller})
    BY <1>4, <1>t DEF TapPause, Initialized, Card
  <2>2. Rest
    BY <1>4 DEF TapPause, manager, Begin
  <2> QED BY <1>q, <1>e, <2>1, <2>2
<1>5. ASSUME NEW a \in Alias, NEW o \in Op, Autoplay(a, o) PROVE Quiet
  <2>1. registered[a] \in Ctl /\ StartPlaying(o, None, registered[a])
    BY <1>5, <1>t DEF Autoplay
  <2>2. Rest
    BY <1>5 DEF Autoplay, StartPlaying, Begin
  <2> QED BY <1>q, <1>s, <2>1, <2>2
<1>6. ASSUME NEW o \in Op, Stop(o) PROVE Quiet
  <2>1. {current} \in SUBSET Ctl /\ SetPlaying({}, {current})
    BY <1>6, <1>t DEF Stop
  <2>2. Rest
    BY <1>6 DEF Stop, manager, Begin
  <2> QED BY <1>q, <1>e, <2>1, <2>2
<1>7. ASSUME NEW o \in Op, TapInitialized(o) PROVE Quiet
  <2> DEFINE w == op[o].widget
             c == card[w].controller
  <2>0. w \in Widget /\ c \in Ctl \cup {0}
    BY <1>7, <1>t DEF TapInitialized, Card, Typed
  <2>1. CASE Initialized(c) /\ ~card[w].isPlaying
    <3>1. StartPlaying(o, w, c) /\ c \in Ctl /\ orphaned' = orphaned
      BY <1>7, <2>0, <2>1 DEF TapInitialized, Initialized, history
    <3>2. Rest
      BY <3>1 DEF StartPlaying
    <3> HIDE DEF w, c
    <3> QED BY <1>q, <1>s, <2>0, <3>1, <3>2
  <2>2. CASE Initialized(c) /\ card[w].isPlaying
    <3>1. SetPlaying({}, {c}) /\ {c} \in SUBSET Ctl /\ Rest
      BY <1>7, <2>0, <2>2 DEF TapInitialized, Initialized, history, manager
    <3> HIDE DEF w, c
    <3> QED BY <1>q, <1>e, <3>1
  <2>3. CASE ~Initialized(c)
    <3>1. ctl' = ctl /\ card' = card /\ Rest
      BY <1>7, <2>3 DEF TapInitialized, history, manager
    <3> QED BY <1>q, <3>1
  <2> HIDE DEF c, w
  <2> QED BY <2>1, <2>2, <2>3
<1>8. ASSUME NEW o \in Op, OthersPaused(o) PROVE Quiet
  <2>1. ctl' = ctl /\ card' = card /\ Rest
    BY <1>8 DEF OthersPaused, history
  <2> QED BY <1>q, <2>1
<1>9. ASSUME NEW o \in Op, Sought(o) PROVE Quiet
  <2>1. PICK on : on = {c \in Ctl : c = Target(o) /\ ~ctl[c].disposed}
    OBVIOUS
  <2>2. on \in SUBSET Ctl /\ {} \in SUBSET Ctl /\ SetPlaying(on, {}) /\ \A c \in on : ~ctl[c].disposed
    BY <1>9, <2>1 DEF Sought
  <2>3. Rest
    BY <1>9 DEF Sought, manager, history
  <2>4. Started
    BY <2>2 DEF Started
  <2> QED BY <1>q, <2>3, <2>4
<1>10. ASSUME NEW o \in Op, Paused(o) PROVE Quiet
  <2>1. ctl' = ctl /\ card' = card /\ Rest
    BY <1>10 DEF Paused, history
  <2> QED BY <1>q, <2>1
<1>11. CASE UNCHANGED vars
  <2>1. ctl' = ctl /\ card' = card /\ Rest
    BY <1>11 DEF vars, history, manager
  <2> QED BY <1>q, <2>1
<1> QED BY <1>1, <1>2, <1>3, <1>4, <1>5, <1>6, <1>7, <1>8, <1>9, <1>10, <1>11
(* The rest of Books and Live, as facts about fields.                      *)
LEMMA Facts ==
  ASSUME Typed, Books
  PROVE  /\ card \in [Widget -> Card] /\ ctl \in [Ctl -> Controller] /\ init \in [Ctl -> Inits]
         /\ registered \in [Alias -> Ctl \cup {0}] /\ AliasOf \in [Widget -> Alias]
         /\ \A w \in Widget : card[w].controller \in Ctl \cup {0}
         /\ \A a \in Alias : registered[a] \in Ctl \cup {0}
         /\ 0 \notin Ctl /\ Ctl \subseteq Nat /\ made \in Nat
         /\ \A c \in Ctl : ctl[c].status # "unused" => ctl[c].owner \in Widget /\ card[ctl[c].owner].mounted # "new"
         /\ \A c \in Ctl : init[c] # "none" => ctl[c].owner \in Widget /\ ctl[c].status # "unused"
         /\ \A v, w \in Widget : Mounted(v) /\ Mounted(w) /\ AliasOf[v] = AliasOf[w] => v = w
<1>1. Types
  BY TypesOf
<1>2. \A w \in Widget : card[w].controller \in Ctl \cup {0}
  BY <1>1 DEF Types, Card
<1>3. \A c \in Ctl : init[c] # "none" => ctl[c].owner \in Widget /\ ctl[c].status # "unused"
  BY DEF Books, Typed
<1>4. /\ \A c \in Ctl : ctl[c].status # "unused" => ctl[c].owner \in Widget /\ card[ctl[c].owner].mounted # "new"
      /\ \A v, w \in Widget : Mounted(v) /\ Mounted(w) /\ AliasOf[v] = AliasOf[w] => v = w
  BY DEF Books
<1>5. \A a \in Alias : registered[a] \in Ctl \cup {0}
  BY <1>1 DEF Types
<1> QED BY <1>1, <1>2, <1>3, <1>4, <1>5 DEF Types

(* Live, so long as no initialization is orphaned.                         *)
LEMMA LiveFacts ==
  ASSUME Live, ~orphaned
  PROVE  /\ \A w \in Widget : CardLive(w)
         /\ \A c \in Ctl : InitLive(c) /\ CtlLive(c)
         /\ \A a \in Alias : Entry(a)
BY DEF Live

(* A card gives up its player: when it is unmounted, and when its URL changes
   while nothing initializes for it.                                       *)
LEMMA ReleaseBooks ==
  ASSUME Typed, Books, NEW w \in Widget, NEW new \in Card, Mounted(w), Release(w, new),
         new.mounted \in {"yes", "no"}, init' = init, made' = made
  PROVE  Books'
<1>f. /\ \A c \in Ctl : /\ ctl'[c].owner = ctl[c].owner /\ ctl'[c].status = ctl[c].status
                        /\ IF c \in Gone(w) THEN ctl'[c].disposed /\ ~ctl'[c].playing ELSE ctl'[c] = ctl[c]
      /\ card'[w].mounted = new.mounted
      /\ \A v \in Widget \ {w} : card'[v] = card[v]
  BY ReleaseTypes
<1>1. \A c \in Ctl : c > made' => ctl'[c].status = "unused"
  BY <1>f DEF Books
<1>2. \A c \in Ctl : init'[c] # "none" => ctl'[c].status # "unused"
  BY <1>f DEF Books
<1>3. \A c \in Ctl : ctl'[c].status # "unused" => ctl'[c].owner \in Widget /\ card'[ctl'[c].owner].mounted # "new"
  <2> SUFFICES ASSUME NEW c \in Ctl, ctl[c].status # "unused"
               PROVE  ctl[c].owner \in Widget /\ card'[ctl[c].owner].mounted # "new"
    BY <1>f
  <2>1. ctl[c].owner \in Widget /\ card[ctl[c].owner].mounted # "new"
    BY DEF Books
  <2> QED BY <2>1, <1>f
<1>4. \A c \in Ctl : ctl'[c].playing => ~ctl'[c].disposed
  BY <1>f DEF Books
<1>5. \A v \in Widget : card'[v].mounted = "new" =>
        card'[v].controller = 0 /\ ~card'[v].isPlayerInitialized /\ ~card'[v].isInitializing
  BY <1>f DEF Books
<1>6. \A u, v \in Widget : card'[u].mounted = "yes" /\ card'[v].mounted = "yes" /\ AliasOf[u] = AliasOf[v] => u = v
  <2>1. \A v \in Widget : card'[v].mounted = "yes" => card[v].mounted = "yes"
    BY <1>f DEF Mounted
  <2> QED BY <2>1 DEF Books, Mounted
<1> QED BY <1>1, <1>2, <1>3, <1>4, <1>5, <1>6 DEF Books, Mounted

(* Giving up the player keeps Live.                                        *)
LEMMA ReleaseLive ==
  ASSUME Typed, Books, Live, ~orphaned, NEW w \in Widget, NEW new \in Card, Mounted(w), Release(w, new), init' = init,
         \/ new.mounted = "no"
         \/ /\ new.mounted = "yes" /\ ~new.isPlayerInitialized /\ ~new.isInitializing
            /\ \A c \in Ctl : init[c] # "none" => ctl[c].owner # w
  PROVE  Live'
<1>0. /\ \A v \in Widget : CardLive(v)
      /\ \A c \in Ctl : InitLive(c) /\ CtlLive(c)
      /\ \A a \in Alias : Entry(a)
  BY LiveFacts
<1>t. /\ \A v \in Widget : card[v].controller \in Ctl \cup {0}
      /\ \A a \in Alias : registered[a] \in Ctl \cup {0}
      /\ 0 \notin Ctl /\ AliasOf \in [Widget -> Alias]
      /\ \A c \in Ctl : ctl[c].status # "unused" => ctl[c].owner \in Widget /\ card[ctl[c].owner].mounted # "new"
      /\ \A c \in Ctl : init[c] # "none" => ctl[c].owner \in Widget /\ ctl[c].status # "unused"
      /\ \A u, v \in Widget : Mounted(u) /\ Mounted(v) /\ AliasOf[u] = AliasOf[v] => u = v
  BY Facts
<1>f. /\ \A c \in Ctl : /\ ctl'[c].owner = ctl[c].owner /\ ctl'[c].status = ctl[c].status
                        /\ IF c \in Gone(w) THEN ctl'[c].disposed /\ ~ctl'[c].playing ELSE ctl'[c] = ctl[c]
      /\ card'[w].mounted = new.mounted /\ card'[w].controller = 0
      /\ card'[w].isInitializing = new.isInitializing /\ card'[w].isPlayerInitialized = new.isPlayerInitialized
      /\ \A v \in Widget \ {w} : card'[v] = card[v]
      /\ \A x \in Alias : registered'[x] = IF x = AliasOf[w] /\ Gone(w) # {} THEN 0 ELSE registered[x]
  BY ReleaseTypes
<1>e. registered[AliasOf[w]] \in {0, card[w].controller}
  <2>1. CASE registered[AliasOf[w]] = 0
    BY <2>1
  <2>2. CASE registered[AliasOf[w]] # 0
    <3>1. registered[AliasOf[w]] \in Ctl /\ Entry(AliasOf[w])
      BY <1>0, <1>t, <2>2
    <3>2. ctl[registered[AliasOf[w]]].owner \in Widget
      BY <1>t, <2>2, <3>1 DEF Entry
    <3>3. ctl[registered[AliasOf[w]]].owner = w
      BY <1>t, <2>2, <3>1, <3>2 DEF Entry
    <3> QED BY <2>2, <3>1, <3>3 DEF Entry
  <2> QED BY <2>1, <2>2
<1>g. \A c \in Ctl : c \in Gone(w) <=> c = card[w].controller
  BY <1>e, <1>t DEF Gone
<1>h. card[w].controller # 0 => ctl[card[w].controller].owner = w
  BY <1>0 DEF CardLive
<1>1. ASSUME NEW v \in Widget PROVE CardLive(v)'
  <2>1. CASE v = w
    BY <2>1, <1>f DEF CardLive, Mounted
  <2>2. CASE v # w
    <3>1. card'[v] = card[v] /\ CardLive(v)
      BY <2>2, <1>f, <1>0
    <3>2. CASE card[v].controller = 0 \/ ~Mounted(v)
      BY <3>1, <3>2 DEF CardLive, Mounted
    <3>3. CASE card[v].controller # 0 /\ Mounted(v)
      <4>1. card[v].controller \in Ctl /\ ctl[card[v].controller].owner = v
        BY <3>1, <3>3, <1>t DEF CardLive
      <4>2. ctl'[card[v].controller] = ctl[card[v].controller]
        BY <4>1, <2>2, <1>f, <1>g, <1>h, <1>t
      <4>3. registered'[AliasOf[v]] = registered[AliasOf[v]]
        BY <2>2, <3>3, <1>f, <1>t
      <4> QED BY <3>1, <3>3, <4>1, <4>2, <4>3 DEF CardLive, Mounted
    <3> QED BY <3>2, <3>3
  <2> QED BY <2>1, <2>2
<1>2. ASSUME NEW c \in Ctl PROVE InitLive(c)'
  <2>1. ASSUME init[c] # "none", card'[ctl[c].owner].mounted = "yes"
        PROVE  card'[ctl[c].owner].isInitializing /\ card'[ctl[c].owner].controller = c
    <3>1. ctl[c].owner \in Widget \ {w}
      BY <2>1, <1>t, <1>f
    <3>2. card'[ctl[c].owner] = card[ctl[c].owner] /\ InitLive(c)
      BY <3>1, <1>f, <1>0
    <3> QED BY <2>1, <3>2 DEF InitLive, Mounted
  <2>2. InitLive(c) /\ \A d \in Ctl : ctl'[d].owner = ctl[d].owner /\ ctl'[d].status = ctl[d].status
    BY <1>0, <1>f
  <2> QED BY <2>1, <2>2 DEF InitLive, Mounted
<1>3. ASSUME NEW c \in Ctl PROVE CtlLive(c)'
  <2> SUFFICES ASSUME ctl'[c].status \in {"creating", "ready"}, ~ctl'[c].disposed
               PROVE  card'[ctl'[c].owner].mounted = "yes" /\ card'[ctl'[c].owner].controller = c
    BY DEF CtlLive, Mounted
  <2>1. c # card[w].controller /\ ctl'[c] = ctl[c]
    BY <1>f, <1>g
  <2>2. Mounted(ctl[c].owner) /\ card[ctl[c].owner].controller = c /\ ctl[c].owner \in Widget
    BY <2>1, <1>0, <1>t DEF CtlLive
  <2>3. ctl[c].owner # w
    BY <2>1, <2>2
  <2> QED BY <2>1, <2>2, <2>3, <1>f DEF Mounted
<1>4. ASSUME NEW a \in Alias PROVE Entry(a)'
  <2>1. CASE a = AliasOf[w]
    <3>1. registered'[a] = 0
      BY <2>1, <1>e, <1>f DEF Gone
    <3> QED BY <3>1 DEF Entry
  <2>2. CASE registered[a] = 0
    <3>1. registered'[a] = 0
      BY <2>2, <1>f
    <3> QED BY <3>1 DEF Entry
  <2>3. CASE a # AliasOf[w] /\ registered[a] # 0
    <3>1. registered'[a] = registered[a] /\ registered[a] \in Ctl /\ Entry(a)
      BY <2>3, <1>f, <1>t, <1>0
    <3>2. ctl[registered[a]].owner \in Widget \ {w}
      BY <2>3, <3>1, <1>t DEF Entry
    <3>3. registered[a] # card[w].controller
      BY <2>3, <3>2, <1>h
    <3>4. ctl'[registered[a]] = ctl[registered[a]] /\ card'[ctl[registered[a]].owner] = card[ctl[registered[a]].owner]
      BY <3>1, <3>2, <3>3, <1>f, <1>g
    <3> QED BY <2>3, <3>1, <3>4 DEF Entry, Mounted
  <2> QED BY <2>1, <2>2, <2>3
<1> QED BY <1>1, <1>2, <1>3, <1>4 DEF Live

(* A card makes a player.                                                  *)
LEMMA CreateBooks ==
  ASSUME Typed, Books, NEW w \in Widget, NEW c \in Ctl, NEW new \in Card, Create(w, c, new),
         new.mounted = "yes", \A v \in Widget : Mounted(v) /\ AliasOf[v] = AliasOf[w] => v = w,
         \A d \in Ctl \ {c} : init'[d] \in {init[d], "none"}
  PROVE  Books'
<1>f. /\ c = made + 1 /\ made' = c
      /\ ctl'[c].owner = w /\ ctl'[c].status = "creating" /\ ~ctl'[c].disposed /\ ~ctl'[c].playing
      /\ \A d \in Ctl \ {c} : ctl'[d] = ctl[d]
      /\ card'[w].mounted = new.mounted
      /\ \A v \in Widget \ {w} : card'[v] = card[v]
  BY CreateTypes
<1>t. Ctl \subseteq Nat /\ made \in Nat
  BY Facts
<1>1. \A d \in Ctl : d > made' => ctl'[d].status = "unused"
  BY <1>f, <1>t DEF Books
<1>2. \A d \in Ctl : init'[d] # "none" => ctl'[d].status # "unused"
  BY <1>f DEF Books
<1>3. \A d \in Ctl : ctl'[d].status # "unused" => ctl'[d].owner \in Widget /\ card'[ctl'[d].owner].mounted # "new"
  <2> SUFFICES ASSUME NEW d \in Ctl, d # c, ctl[d].status # "unused"
               PROVE  ctl[d].owner \in Widget /\ card'[ctl[d].owner].mounted # "new"
    BY <1>f
  <2>1. ctl[d].owner \in Widget /\ card[ctl[d].owner].mounted # "new"
    BY DEF Books
  <2> QED BY <2>1, <1>f
<1>4. \A d \in Ctl : ctl'[d].playing => ~ctl'[d].disposed
  BY <1>f DEF Books
<1>5. \A v \in Widget : card'[v].mounted = "new" =>
        card'[v].controller = 0 /\ ~card'[v].isPlayerInitialized /\ ~card'[v].isInitializing
  BY <1>f DEF Books
<1>6. \A u, v \in Widget : card'[u].mounted = "yes" /\ card'[v].mounted = "yes" /\ AliasOf[u] = AliasOf[v] => u = v
  <2>1. \A v \in Widget \ {w} : card'[v].mounted = "yes" => card[v].mounted = "yes"
    BY <1>f
  <2> QED BY <2>1 DEF Books, Mounted
<1> QED BY <1>1, <1>2, <1>3, <1>4, <1>5, <1>6 DEF Books, Mounted

(* Making a player keeps Live.                                             *)
LEMMA CreateLive ==
  ASSUME Typed, Books, Live, ~orphaned, NEW w \in Widget, NEW c \in Ctl, NEW new \in Card, Create(w, c, new),
         new.mounted = "yes", ~new.isPlayerInitialized,
         card[w].controller = 0 \/ ctl[card[w].controller].status = "failed",
         \A d \in Ctl : init[d] # "none" => ctl[d].owner # w,
         init' = [init EXCEPT ![c] = "initialize"], registered' = registered
  PROVE  Live'
<1>0. /\ \A v \in Widget : CardLive(v)
      /\ \A d \in Ctl : InitLive(d) /\ CtlLive(d)
      /\ \A a \in Alias : Entry(a)
  BY LiveFacts
<1>t. /\ \A v \in Widget : card[v].controller \in Ctl \cup {0}
      /\ \A a \in Alias : registered[a] \in Ctl \cup {0}
      /\ 0 \notin Ctl /\ AliasOf \in [Widget -> Alias] /\ Ctl \subseteq Nat /\ made \in Nat
      /\ \A d \in Ctl : ctl[d].status # "unused" => ctl[d].owner \in Widget /\ card[ctl[d].owner].mounted # "new"
      /\ \A d \in Ctl : init[d] # "none" => ctl[d].owner \in Widget /\ ctl[d].status # "unused"
  BY Facts
<1>f. /\ c = made + 1
      /\ ctl'[c].owner = w /\ ctl'[c].status = "creating" /\ ~ctl'[c].disposed
      /\ \A d \in Ctl \ {c} : ctl'[d] = ctl[d]
      /\ card'[w].mounted = new.mounted /\ card'[w].controller = c /\ card'[w].isInitializing
      /\ card'[w].isPlayerInitialized = new.isPlayerInitialized
      /\ \A v \in Widget \ {w} : card'[v] = card[v]
  BY CreateTypes
<1>u. ctl[c].status = "unused"
  BY <1>f, <1>t DEF Books
<1>n. init'[c] = "initialize" /\ \A d \in Ctl \ {c} : init'[d] = init[d]
  BY Facts
<1>1. ASSUME NEW v \in Widget PROVE CardLive(v)'
  <2>1. CASE v = w
    BY <2>1, <1>f, <1>t DEF CardLive, Mounted
  <2>2. CASE v # w
    <3>1. card'[v] = card[v] /\ CardLive(v)
      BY <2>2, <1>f, <1>0
    <3>2. CASE card[v].controller = 0 \/ ~Mounted(v)
      BY <3>1, <3>2 DEF CardLive, Mounted
    <3>3. CASE card[v].controller # 0 /\ Mounted(v)
      <4>1. card[v].controller \in Ctl \ {c}
        BY <3>1, <3>3, <1>t, <1>u DEF CardLive
      <4>2. ctl'[card[v].controller] = ctl[card[v].controller]
        BY <4>1, <1>f
      <4> QED BY <3>1, <3>3, <4>2 DEF CardLive, Mounted
    <3> QED BY <3>2, <3>3
  <2> QED BY <2>1, <2>2
<1>2. ASSUME NEW d \in Ctl PROVE InitLive(d)'
  <2>1. ASSUME init'[d] # "none", card'[ctl'[d].owner].mounted = "yes"
        PROVE  card'[ctl'[d].owner].isInitializing /\ card'[ctl'[d].owner].controller = d
    <3>1. CASE d = c
      BY <3>1, <1>f
    <3>2. CASE d # c
      <4>1. ctl'[d] = ctl[d] /\ init[d] # "none"
        BY <2>1, <3>2, <1>f, <1>n
      <4>2. ctl[d].owner \in Widget \ {w}
        BY <4>1, <1>t
      <4>3. card'[ctl[d].owner] = card[ctl[d].owner] /\ InitLive(d)
        BY <4>2, <1>f, <1>0
      <4> QED BY <2>1, <4>1, <4>3 DEF InitLive, Mounted
    <3> QED BY <3>1, <3>2
  <2>2. ctl'[d].status = "creating" <=> init'[d] \in {"initialize", "simpler"}
    BY <1>f, <1>n, <1>0 DEF InitLive
  <2>3. ASSUME NEW e \in Ctl, init'[d] # "none", init'[e] # "none", ctl'[d].owner = ctl'[e].owner PROVE d = e
    <3>1. \A x \in Ctl \ {c} : init'[x] # "none" => ctl'[x].owner = ctl[x].owner /\ ctl[x].owner # w
      BY <1>f, <1>n
    <3>2. CASE d = c \/ e = c
      BY <2>3, <3>1, <3>2, <1>f
    <3>3. CASE d # c /\ e # c
      BY <2>3, <3>1, <3>3, <1>n, <1>0 DEF InitLive
    <3> QED BY <3>2, <3>3
  <2> QED BY <2>1, <2>2, <2>3 DEF InitLive, Mounted
<1>o. ASSUME NEW d \in Ctl, ctl[d].status \in {"creating", "ready"}, ~ctl[d].disposed
      PROVE  /\ d # c /\ ctl'[d] = ctl[d] /\ ctl[d].owner \in Widget \ {w}
             /\ Mounted(ctl[d].owner) /\ card[ctl[d].owner].controller = d
             /\ card'[ctl[d].owner] = card[ctl[d].owner]
  <2>1. d # c /\ ctl'[d] = ctl[d]
    BY <1>o, <1>u, <1>f
  <2>2. Mounted(ctl[d].owner) /\ card[ctl[d].owner].controller = d /\ ctl[d].owner \in Widget
    BY <1>o, <1>0, <1>t DEF CtlLive
  <2>3. ctl[d].owner # w
    BY <1>o, <2>2, <1>t
  <2> QED BY <2>1, <2>2, <2>3, <1>f
<1>3. ASSUME NEW d \in Ctl PROVE CtlLive(d)'
  <2>1. CASE d = c
    BY <2>1, <1>f DEF CtlLive, Mounted
  <2>2. CASE d # c
    <3>1. ctl'[d] = ctl[d]
      BY <2>2, <1>f
    <3> QED BY <3>1, <1>o DEF CtlLive, Mounted
  <2> QED BY <2>1, <2>2
<1>4. ASSUME NEW a \in Alias PROVE Entry(a)'
  <2>1. CASE registered[a] = 0
    BY <2>1 DEF Entry
  <2>2. CASE registered[a] # 0
    <3>1. registered[a] \in Ctl /\ Entry(a)
      BY <2>2, <1>t, <1>0
    <3>2. ctl[registered[a]].status = "ready" /\ ~ctl[registered[a]].disposed
      BY <2>2, <3>1 DEF Entry
    <3>3. ctl'[registered[a]] = ctl[registered[a]] /\ card'[ctl[registered[a]].owner] = card[ctl[registered[a]].owner]
      BY <3>1, <3>2, <1>o
    <3> QED BY <2>2, <3>1, <3>3 DEF Entry, Mounted
  <2> QED BY <2>1, <2>2
<1> QED BY <1>1, <1>2, <1>3, <1>4 DEF Live

(* An invocation of initialize() ends.                                     *)
LEMMA FinishedTypes ==
  ASSUME Typed, NEW c \in Ctl, NEW status \in {"ready", "failed"}, ctl' = Finished(c, status)
  PROVE  /\ \A d \in Ctl : /\ ctl'[d].owner = ctl[d].owner /\ ctl'[d].disposed = ctl[d].disposed
                           /\ ctl'[d].playing = ctl[d].playing
         /\ ctl'[c].status = status
         /\ \A d \in Ctl \ {c} : ctl'[d] = ctl[d]
<1>1. PICK k : k = [ctl[c] EXCEPT !.status = status]
  OBVIOUS
<1>2. ctl \in [Ctl -> Controller] /\ ctl' = [ctl EXCEPT ![c] = k]
  BY <1>1, TypesOf DEF Types, Finished
<1>3. k.owner = ctl[c].owner /\ k.disposed = ctl[c].disposed /\ k.playing = ctl[c].playing /\ k.status = status
  BY <1>1, <1>2 DEF Controller
<1>4. ctl'[c] = k /\ \A d \in Ctl \ {c} : ctl'[d] = ctl[d]
  BY <1>2
<1> QED BY <1>3, <1>4

(* The end of initialize() keeps Books.                                    *)
LEMMA FinishBooks ==
  ASSUME Typed, Books, NEW c \in Ctl, init[c] # "none", NEW status \in {"ready", "failed"},
         ctl' = Finished(c, status), made' = made,
         \A d \in Ctl \ {c} : init'[d] = init[d],
         \A w \in Widget : /\ card'[w].mounted = card[w].mounted
                           /\ card'[w].controller = card[w].controller
                           /\ card[w].mounted = "new" => card'[w] = card[w]
  PROVE  Books'
<1>f. /\ \A d \in Ctl : /\ ctl'[d].owner = ctl[d].owner /\ ctl'[d].disposed = ctl[d].disposed
                        /\ ctl'[d].playing = ctl[d].playing
      /\ ctl'[c].status = status
      /\ \A d \in Ctl \ {c} : ctl'[d] = ctl[d]
  BY FinishedTypes
<1>1. \A d \in Ctl : d > made' => ctl'[d].status = "unused"
  BY <1>f DEF Books
<1>2. \A d \in Ctl : init'[d] # "none" => ctl'[d].status # "unused"
  BY <1>f DEF Books
<1>3. \A d \in Ctl : ctl'[d].status # "unused" => ctl'[d].owner \in Widget /\ card'[ctl'[d].owner].mounted # "new"
  <2>1. \A d \in Ctl : ctl'[d].status # "unused" => ctl[d].status # "unused"
    BY <1>f DEF Books
  <2> QED BY <2>1, <1>f DEF Books
<1>4. \A d \in Ctl : ctl'[d].playing => ~ctl'[d].disposed
  BY <1>f DEF Books
<1>5. \A v \in Widget : card'[v].mounted = "new" =>
        card'[v].controller = 0 /\ ~card'[v].isPlayerInitialized /\ ~card'[v].isInitializing
  BY DEF Books
<1>6. \A u, v \in Widget : card'[u].mounted = "yes" /\ card'[v].mounted = "yes" /\ AliasOf[u] = AliasOf[v] => u = v
  BY DEF Books, Mounted
<1> QED BY <1>1, <1>2, <1>3, <1>4, <1>5, <1>6 DEF Books, Mounted

(* initialize() returned for a card that is gone.                          *)
LEMMA InitUnmountedKeeps ==
  ASSUME Typed, Books, Live, NEW c \in Ctl, InitUnmounted(c)
  PROVE  Books' /\ Live'
<1>a. init[c] \in {"initialize", "simpler"} /\ ctl' = Finished(c, "ready") /\ ~Mounted(ctl[c].owner)
      /\ init' = [init EXCEPT ![c] = "none"] /\ card' = card /\ made' = made /\ orphaned' = orphaned /\ registered' = registered
  BY DEF InitUnmounted, Initializing, manager, history
<1>n. init'[c] = "none" /\ \A d \in Ctl \ {c} : init'[d] = init[d]
  BY <1>a, Facts
<1>b. Books'
  BY <1>a, <1>n, FinishBooks
<1>l. ASSUME ~orphaned' PROVE Live'
  <2>0. /\ \A v \in Widget : CardLive(v)
        /\ \A d \in Ctl : InitLive(d) /\ CtlLive(d)
        /\ \A a \in Alias : Entry(a)
    BY <1>a, <1>l, LiveFacts
  <2>t. /\ \A v \in Widget : card[v].controller \in Ctl \cup {0}
        /\ \A a \in Alias : registered[a] \in Ctl \cup {0}
        /\ 0 \notin Ctl
    BY Facts
  <2>f. /\ \A d \in Ctl : ctl'[d].owner = ctl[d].owner /\ ctl'[d].disposed = ctl[d].disposed
        /\ ctl'[c].status = "ready"
        /\ \A d \in Ctl \ {c} : ctl'[d] = ctl[d]
    BY <1>a, FinishedTypes
  <2>c. ctl[c].status = "creating" /\ ctl[c].disposed
    BY <1>a, <2>0 DEF InitLive, CtlLive, Controller
  <2>1. ASSUME NEW v \in Widget PROVE CardLive(v)'
    <3>1. CASE card[v].controller = 0 \/ ~Mounted(v)
      BY <3>1, <2>0, <1>a DEF CardLive, Mounted
    <3>2. CASE card[v].controller # 0 /\ Mounted(v)
      <4>1. CardLive(v) /\ card[v].controller \in Ctl \ {c}
        BY <3>2, <2>0, <2>c, <2>t DEF CardLive
      <4> QED BY <4>1, <2>f, <1>a DEF CardLive, Mounted
    <3> QED BY <3>1, <3>2
  <2>2. ASSUME NEW d \in Ctl PROVE InitLive(d)' /\ CtlLive(d)'
    <3>1. CASE d = c
      BY <3>1, <2>c, <2>f, <1>n DEF InitLive, CtlLive
    <3>2. CASE d # c
      <4>1. InitLive(d) /\ CtlLive(d) /\ ctl'[d] = ctl[d] /\ init'[d] = init[d]
        BY <3>2, <2>0, <2>f, <1>n
      <4>2. CtlLive(d)'
        BY <4>1, <1>a DEF CtlLive, Mounted
      <4>3. InitLive(d)'
        BY <4>1, <1>a, <1>n, <2>f DEF InitLive, Mounted
      <4> QED BY <4>2, <4>3
    <3> QED BY <3>1, <3>2
  <2>3. ASSUME NEW a \in Alias PROVE Entry(a)'
    <3>1. CASE registered[a] = 0
      BY <3>1, <1>a DEF Entry
    <3>2. CASE registered[a] # 0
      <4>1. Entry(a) /\ registered[a] \in Ctl \ {c}
        BY <3>2, <2>0, <2>c, <2>t DEF Entry
      <4> QED BY <3>2, <4>1, <2>f, <1>a DEF Entry, Mounted
    <3> QED BY <3>1, <3>2
  <2> QED BY <2>1, <2>2, <2>3 DEF Live
<1> QED BY <1>b, <1>l DEF Live

(* initialize() succeeded; unless an initialization is orphaned, the player
   of the card is still the one it was called for.                         *)
LEMMA InitOkKeeps ==
  ASSUME Typed, Books, Live, NEW c \in Ctl, InitOk(c)
  PROVE  Books' /\ Live'
<1> DEFINE w == ctl[c].owner
<1>a. /\ init[c] \in {"initialize", "simpler"} /\ ctl' = Finished(c, "ready") /\ Mounted(w)
      /\ card' = [card EXCEPT ![w].isInitializing = FALSE, ![w].hasError = FALSE, ![w].isPlayerInitialized = TRUE]
      /\ init' = [init EXCEPT ![c] = "none"] /\ made' = made /\ orphaned' = orphaned
  BY DEF InitOk, Initializing, history
<1>n. init'[c] = "none" /\ \A d \in Ctl \ {c} : init'[d] = init[d]
  BY <1>a, Facts
<1>t. /\ \A v \in Widget : card[v].controller \in Ctl \cup {0}
      /\ \A a \in Alias : registered[a] \in Ctl \cup {0}
      /\ 0 \notin Ctl /\ w \in Widget /\ card \in [Widget -> Card]
      /\ AliasOf \in [Widget -> Alias] /\ registered \in [Alias -> Ctl \cup {0}]
      /\ \A u, v \in Widget : Mounted(u) /\ Mounted(v) /\ AliasOf[u] = AliasOf[v] => u = v
  BY <1>a, Facts
<1>h. PICK h : h = [card[w] EXCEPT !.isInitializing = FALSE, !.hasError = FALSE, !.isPlayerInitialized = TRUE]
  OBVIOUS
<1>k. card' = [card EXCEPT ![w] = h]
  BY <1>a, <1>h, <1>t
<1>j. /\ h.mounted = card[w].mounted /\ h.controller = card[w].controller
      /\ h.isInitializing = FALSE /\ h.isPlayerInitialized = TRUE
  BY <1>h, <1>t DEF Card
<1> HIDE DEF w
<1>m. card'[w] = h /\ \A v \in Widget \ {w} : card'[v] = card[v]
  BY <1>k, <1>t
<1>b. Books'
  <2>1. \A v \in Widget : /\ card'[v].mounted = card[v].mounted
                          /\ card'[v].controller = card[v].controller
                          /\ card[v].mounted = "new" => card'[v] = card[v]
    BY <1>a, <1>m, <1>j DEF Mounted
  <2> QED BY <2>1, <1>a, <1>n, FinishBooks
<1>l. ASSUME ~orphaned' PROVE Live'
  <2>0. /\ \A v \in Widget : CardLive(v)
        /\ \A d \in Ctl : InitLive(d) /\ CtlLive(d)
        /\ \A a \in Alias : Entry(a)
    BY <1>a, <1>l, LiveFacts
  <2>f. /\ \A d \in Ctl : ctl'[d].owner = ctl[d].owner /\ ctl'[d].disposed = ctl[d].disposed
        /\ ctl'[c].status = "ready"
        /\ \A d \in Ctl \ {c} : ctl'[d] = ctl[d]
    BY <1>a, FinishedTypes
  <2>c. ctl[c].status = "creating" /\ card[w].controller = c /\ ctl[c].owner = w
    BY <1>a, <2>0 DEF InitLive, w
  <2>g. ~ctl[c].disposed
    BY <2>c, <1>a, <1>t, <2>0 DEF CardLive
  <2>r. registered' = [registered EXCEPT ![AliasOf[w]] = c]
    BY <2>c, <2>f DEF InitOk
  <2>1. ASSUME NEW v \in Widget PROVE CardLive(v)'
    <3>1. CASE v = w
      BY <3>1, <1>a, <1>t, <1>m, <1>j, <2>c, <2>f, <2>g, <2>r DEF CardLive, Mounted
    <3>2. CASE v # w
      <4>1. card'[v] = card[v] /\ CardLive(v)
        BY <3>2, <1>m, <2>0
      <4>2. CASE card[v].controller = 0 \/ ~Mounted(v)
        BY <4>1, <4>2 DEF CardLive, Mounted
      <4>3. CASE card[v].controller # 0 /\ Mounted(v)
        <5>1. card[v].controller \in Ctl \ {c}
          BY <4>1, <4>3, <2>c, <3>2, <1>t DEF CardLive
        <5>2. registered'[AliasOf[v]] = registered[AliasOf[v]]
          BY <3>2, <4>3, <2>r, <1>a, <1>t
        <5>3. ctl'[card[v].controller] = ctl[card[v].controller]
          BY <5>1, <2>f
        <5> QED BY <4>1, <4>3, <5>2, <5>3 DEF CardLive, Mounted
      <4> QED BY <4>2, <4>3
    <3> QED BY <3>1, <3>2
  <2>2. ASSUME NEW d \in Ctl PROVE InitLive(d)'
    <3>1. CASE d = c
      BY <3>1, <2>f, <1>n DEF InitLive
    <3>2. CASE d # c
      <4>1. InitLive(d) /\ InitLive(c) /\ ctl'[d] = ctl[d] /\ init'[d] = init[d]
        BY <3>2, <2>0, <2>f, <1>n
      <4>2. init[d] # "none" => ctl[d].owner \in Widget \ {w}
        <5>1. init[d] # "none" => ctl[d].owner \in Widget
          BY Facts
        <5> QED BY <5>1, <4>1, <3>2, <2>c, <1>a DEF InitLive
      <4>3. init[d] # "none" => card'[ctl[d].owner] = card[ctl[d].owner]
        BY <4>2, <1>m
      <4> QED BY <4>1, <4>3, <1>n, <2>f DEF InitLive, Mounted
    <3> QED BY <3>1, <3>2
  <2>3. ASSUME NEW d \in Ctl PROVE CtlLive(d)'
    <3>1. CASE d = c
      BY <3>1, <2>c, <2>f, <1>a, <1>m, <1>j DEF CtlLive, Mounted
    <3>2. CASE d # c
      <4>1. CtlLive(d) /\ ctl'[d] = ctl[d]
        BY <3>2, <2>0, <2>f
      <4>2. ctl[d].status # "unused" => ctl[d].owner \in Widget
        BY Facts
      <4>3. ctl[d].status # "unused" =>
              /\ card'[ctl[d].owner].mounted = card[ctl[d].owner].mounted
              /\ card'[ctl[d].owner].controller = card[ctl[d].owner].controller
        BY <4>2, <1>m, <1>j
      <4> QED BY <4>1, <4>3 DEF CtlLive, Mounted
    <3> QED BY <3>1, <3>2
  <2>4. ASSUME NEW a \in Alias PROVE Entry(a)'
    <3>1. CASE a = AliasOf[w]
      <4>1. registered'[a] = c
        BY <3>1, <2>r, <1>t
      <4> QED BY <3>1, <4>1, <2>c, <2>f, <2>g, <1>a, <1>m, <1>j DEF Entry, Mounted
    <3>2. CASE a # AliasOf[w]
      <4>1. registered'[a] = registered[a]
        BY <3>2, <2>r, <1>t
      <4>2. CASE registered[a] = 0
        BY <4>1, <4>2 DEF Entry
      <4>3. CASE registered[a] # 0
        <5>1. Entry(a) /\ registered[a] \in Ctl \ {c}
          BY <4>3, <2>0, <2>c, <1>t DEF Entry
        <5>2. ctl[registered[a]].owner \in Widget
          BY <4>3, <5>1, Facts DEF Entry
        <5>3. ctl[registered[a]].owner # w
          BY <3>2, <4>3, <5>1 DEF Entry
        <5> QED BY <4>1, <4>3, <5>1, <5>2, <5>3, <2>f, <1>m DEF Entry, Mounted
      <4> QED BY <4>2, <4>3
    <3> QED BY <3>1, <3>2
  <2> QED BY <2>1, <2>2, <2>3, <2>4 DEF Live
<1> QED BY <1>b, <1>l DEF Live

(* initialize() failed, or its card has no player any more: the catch.     *)
LEMMA CaughtKeeps ==
  ASSUME Typed, Books, Live, NEW c \in Ctl, Initializing(c), Caught(c), NEW status \in {"ready", "failed"},
         ctl' = Finished(c, status),
         status = "ready" => Mounted(ctl[c].owner) /\ card[ctl[c].owner].controller = 0
  PROVE  Books' /\ Live'
<1> DEFINE w == ctl[c].owner
<1>a. init[c] \in {"initialize", "simpler"} /\ made' = made /\ orphaned' = orphaned /\ registered' = registered
  BY DEF Initializing, Caught, manager, history
<1>t. /\ \A v \in Widget : card[v].controller \in Ctl \cup {0}
      /\ \A a \in Alias : registered[a] \in Ctl \cup {0}
      /\ 0 \notin Ctl /\ w \in Widget
  BY <1>a, Facts
<1>e. PICK e \in {"delay", "none"} :
        /\ init' = [init EXCEPT ![c] = e]
        /\ Mounted(w) => (card'[w].isInitializing <=> card[w].isInitializing /\ e = "delay")
        /\ ~Mounted(w) => card' = card /\ e = "none"
  BY <1>a, CaughtTypes
<1>m. \A v \in Widget : /\ card'[v].mounted = card[v].mounted /\ card'[v].controller = card[v].controller
                        /\ card'[v].isPlayerInitialized = card[v].isPlayerInitialized
                        /\ v # w => card'[v] = card[v]
  BY <1>a, CaughtTypes
<1> HIDE DEF w
<1>n. init'[c] = e /\ \A d \in Ctl \ {c} : init'[d] = init[d]
  BY <1>e, Facts
<1>b. Books'
  <2>1. \A v \in Widget : card[v].mounted = "new" => card'[v] = card[v]
    BY <1>m, <1>e DEF Mounted
  <2> QED BY <2>1, <1>a, <1>n, <1>m, FinishBooks
<1>l. ASSUME ~orphaned' PROVE Live'
  <2>0. /\ \A v \in Widget : CardLive(v)
        /\ \A d \in Ctl : InitLive(d) /\ CtlLive(d)
        /\ \A a \in Alias : Entry(a)
    BY <1>a, <1>l, LiveFacts
  <2>c. ctl[c].status = "creating" /\ (Mounted(w) => card[w].controller = c /\ card[w].isInitializing) /\ ctl[c].owner = w
    BY <1>a, <2>0 DEF InitLive, w
  <2>s. status = "failed"
    BY <2>c, <1>t DEF w
  <2>f. /\ \A d \in Ctl : ctl'[d].owner = ctl[d].owner /\ ctl'[d].disposed = ctl[d].disposed
        /\ ctl'[c].status = "failed"
        /\ \A d \in Ctl \ {c} : ctl'[d] = ctl[d]
    BY <2>s, FinishedTypes
  <2>1. ASSUME NEW v \in Widget PROVE CardLive(v)'
    <3>1. CASE card[v].controller = 0 \/ ~Mounted(v)
      <4>1. v # w \/ ~Mounted(w)
        BY <3>1, <2>c, <1>t
      <4>2. card'[v] = card[v]
        BY <4>1, <1>m, <1>e
      <4> QED BY <3>1, <4>2, <2>0 DEF CardLive, Mounted
    <3>2. CASE card[v].controller # 0 /\ Mounted(v) /\ v = w
      <4>1. CardLive(w) /\ card[w].controller = c
        BY <3>2, <2>c, <2>0
      <4>2. ~card[w].isPlayerInitialized
        BY <3>2, <4>1, <2>c DEF CardLive
      <4> QED BY <3>2, <4>1, <4>2, <2>f, <1>m DEF CardLive, Mounted
    <3>3. CASE card[v].controller # 0 /\ Mounted(v) /\ v # w
      <4>1. CardLive(v) /\ card[v].controller \in Ctl \ {c} /\ card'[v] = card[v]
        BY <3>3, <2>0, <2>c, <1>t, <1>m DEF CardLive
      <4> QED BY <4>1, <2>f, <1>a DEF CardLive, Mounted
    <3> QED BY <3>1, <3>2, <3>3
  <2>2. ASSUME NEW d \in Ctl PROVE InitLive(d)'
    <3>1. CASE d = c
      <4>1. ASSUME init'[c] # "none", card'[w].mounted = "yes"
            PROVE  card'[w].isInitializing /\ card'[w].controller = c
        BY <4>1, <2>c, <1>e, <1>m, <1>n, <1>t DEF Mounted
      <4>2. ASSUME NEW x \in Ctl, init'[c] # "none", init'[x] # "none", ctl'[c].owner = ctl'[x].owner PROVE c = x
        BY <4>2, <2>0, <2>f, <1>a, <1>n DEF InitLive
      <4>3. ctl'[c].owner = w /\ ctl'[c].status # "creating" /\ init'[c] \notin {"initialize", "simpler"}
        BY <2>c, <2>f, <1>n
      <4> QED BY <3>1, <4>1, <4>2, <4>3 DEF InitLive, Mounted
    <3>2. CASE d # c
      <4>1. InitLive(d) /\ ctl'[d] = ctl[d] /\ init'[d] = init[d]
        BY <3>2, <2>0, <2>f, <1>n
      <4>2. init[d] # "none" => ctl[d].owner \in Widget \ {w}
        <5>1. init[d] # "none" => ctl[d].owner \in Widget
          BY Facts
        <5> QED BY <5>1, <4>1, <3>2, <2>c, <1>a DEF InitLive
      <4>3. init[d] # "none" => card'[ctl[d].owner] = card[ctl[d].owner]
        BY <4>2, <1>m
      <4>4. ASSUME NEW x \in Ctl, init'[d] # "none", init'[x] # "none", ctl'[d].owner = ctl'[x].owner PROVE d = x
        <5>1. CASE x = c
          BY <4>1, <4>2, <4>4, <5>1, <2>c, <2>f
        <5>2. CASE x # c
          BY <4>1, <4>4, <5>2, <2>f, <1>n DEF InitLive
        <5> QED BY <5>1, <5>2
      <4> QED BY <4>1, <4>3, <4>4 DEF InitLive, Mounted
    <3> QED BY <3>1, <3>2
  <2>3. ASSUME NEW d \in Ctl PROVE CtlLive(d)'
    <3>1. CASE d = c
      BY <3>1, <2>f DEF CtlLive
    <3>2. CASE d # c
      <4>1. CtlLive(d) /\ ctl'[d] = ctl[d]
        BY <3>2, <2>0, <2>f
      <4>2. ctl[d].status # "unused" => ctl[d].owner \in Widget
        BY Facts
      <4>3. ctl[d].status # "unused" =>
              /\ card'[ctl[d].owner].mounted = card[ctl[d].owner].mounted
              /\ card'[ctl[d].owner].controller = card[ctl[d].owner].controller
        BY <4>2, <1>m
      <4> QED BY <4>1, <4>3 DEF CtlLive, Mounted
    <3> QED BY <3>1, <3>2
  <2>4. ASSUME NEW a \in Alias PROVE Entry(a)'
    <3>1. CASE registered[a] = 0
      BY <3>1, <1>a DEF Entry
    <3>2. CASE registered[a] # 0
      <4>1. Entry(a) /\ registered[a] \in Ctl \ {c}
        BY <3>2, <2>0, <2>c, <1>t DEF Entry
      <4>2. ctl[registered[a]].owner \in Widget
        BY <3>2, <4>1, Facts DEF Entry
      <4> QED BY <3>2, <4>1, <4>2, <2>f, <1>a, <1>m DEF Entry, Mounted
    <3> QED BY <3>1, <3>2
  <2> QED BY <2>1, <2>2, <2>3, <2>4 DEF Live
<1> QED BY <1>b, <1>l DEF Live

(* A range request error: the card gets another player at once.            *)
LEMMA InitRangeErrorKeeps ==
  ASSUME Typed, Books, Live, NEW c \in Ctl, InitRangeError(c)
  PROVE  Books' /\ Live'
<1> DEFINE w == ctl[c].owner
<1>t. /\ card \in [Widget -> Card] /\ ctl \in [Ctl -> Controller] /\ init \in [Ctl -> Inits]
      /\ \A v \in Widget : card[v].controller \in Ctl \cup {0}
      /\ \A a \in Alias : registered[a] \in Ctl \cup {0}
      /\ 0 \notin Ctl /\ Ctl \subseteq Nat /\ made \in Nat
      /\ w \in Widget /\ ctl[c].status # "unused"
  BY Facts DEF InitRangeError
<1>p. PICK d \in Ctl :
        /\ d = made + 1 /\ made' = d
        /\ ctl' = [ctl EXCEPT ![c].status = "failed", ![d] = [Unused EXCEPT !.owner = w, !.status = "creating"]]
        /\ card' = [card EXCEPT ![w].controller = d, ![w].retryCount = 1]
        /\ init' = [init EXCEPT ![c] = "none", ![d] = "simpler"]
  BY DEF InitRangeError
<1>a. /\ init[c] = "initialize" /\ registered' = registered /\ orphaned' = (orphaned \/ ~Mounted(w))
      /\ card[w].mounted # "new"
  BY DEF InitRangeError, manager, Books
<1>d. d # c /\ ctl[d].status = "unused" /\ init[d] = "none"
  <2>1. ctl[d].status = "unused"
    BY <1>p, <1>t DEF Books
  <2> QED BY <2>1, <1>t DEF Books
<1>k. PICK k, n, h : /\ k = [ctl[c] EXCEPT !.status = "failed"]
                     /\ n = [Unused EXCEPT !.owner = w, !.status = "creating"]
                     /\ h = [card[w] EXCEPT !.controller = d, !.retryCount = 1]
  OBVIOUS
<1>j. /\ k.owner = w /\ k.disposed = ctl[c].disposed /\ k.playing = ctl[c].playing /\ k.status = "failed"
      /\ n.owner = w /\ n.status = "creating" /\ n.disposed = FALSE /\ n.playing = FALSE
      /\ h.controller = d /\ h.mounted = card[w].mounted /\ h.isInitializing = card[w].isInitializing
      /\ h.isPlayerInitialized = card[w].isPlayerInitialized
  <2>1. k.owner = w /\ k.disposed = ctl[c].disposed /\ k.playing = ctl[c].playing /\ k.status = "failed"
    BY <1>k, <1>t DEF Controller
  <2>2. n.owner = w /\ n.status = "creating" /\ n.disposed = FALSE /\ n.playing = FALSE
    BY <1>k DEF Unused
  <2>3. /\ h.controller = d /\ h.mounted = card[w].mounted /\ h.isInitializing = card[w].isInitializing
        /\ h.isPlayerInitialized = card[w].isPlayerInitialized
    BY <1>k, <1>t DEF Card
  <2> QED BY <2>1, <2>2, <2>3
<1>f. ctl'[c] = k /\ ctl'[d] = n /\ \A x \in Ctl \ {c, d} : ctl'[x] = ctl[x]
  <2>1. ctl' = [ctl EXCEPT ![c] = k, ![d] = n]
    BY <1>p, <1>k, <1>t
  <2> QED BY <2>1, <1>t, <1>d
<1>n. init'[c] = "none" /\ init'[d] = "simpler" /\ \A x \in Ctl \ {c, d} : init'[x] = init[x]
  BY <1>p, <1>d, <1>t
<1>m. card'[w] = h /\ \A v \in Widget \ {w} : card'[v] = card[v]
  <2>1. card' = [card EXCEPT ![w] = h]
    BY <1>p, <1>k, <1>t
  <2> QED BY <2>1, <1>t
<1>w. ctl[c].owner = w
  OBVIOUS
<1> HIDE DEF w
<1>b. Books'
  <2>1. \A x \in Ctl : x > made' => ctl'[x].status = "unused"
    <3>1. c <= made
      BY <1>t DEF Books
    <3> QED BY <3>1, <1>f, <1>p, <1>t DEF Books
  <2>2. \A x \in Ctl : init'[x] # "none" => ctl'[x].status # "unused"
    BY <1>f, <1>n, <1>j DEF Books
  <2>3. ASSUME NEW x \in Ctl, ctl'[x].status # "unused"
        PROVE  ctl'[x].owner \in Widget /\ card'[ctl'[x].owner].mounted # "new"
    <3>1. CASE x \in {c, d}
      BY <3>1, <1>f, <1>j, <1>m, <1>a, <1>t
    <3>2. CASE x \notin {c, d}
      <4>1. ctl'[x] = ctl[x] /\ ctl[x].owner \in Widget /\ card[ctl[x].owner].mounted # "new"
        BY <2>3, <3>2, <1>f DEF Books
      <4> QED BY <4>1, <1>m, <1>j
    <3> QED BY <3>1, <3>2
  <2>4. \A x \in Ctl : ctl'[x].playing => ~ctl'[x].disposed
    BY <1>f, <1>j DEF Books
  <2>5. \A v \in Widget : card'[v].mounted = "new" =>
          card'[v].controller = 0 /\ ~card'[v].isPlayerInitialized /\ ~card'[v].isInitializing
    BY <1>m, <1>j, <1>a DEF Books
  <2>6. \A u, v \in Widget : card'[u].mounted = "yes" /\ card'[v].mounted = "yes" /\ AliasOf[u] = AliasOf[v] => u = v
    <3>1. \A v \in Widget : card'[v].mounted = card[v].mounted
      BY <1>m, <1>j
    <3> QED BY <3>1 DEF Books, Mounted
  <2> QED BY <2>1, <2>2, <2>3, <2>4, <2>5, <2>6 DEF Books, Mounted
<1>l. ASSUME ~orphaned' PROVE Live'
  <2>0. /\ \A v \in Widget : CardLive(v)
        /\ \A x \in Ctl : InitLive(x) /\ CtlLive(x)
        /\ \A a \in Alias : Entry(a)
    BY <1>a, <1>l, LiveFacts
  <2>c. /\ ctl[c].status = "creating" /\ card[w].controller = c /\ card[w].isInitializing /\ Mounted(w)
        /\ ~card[w].isPlayerInitialized /\ ~ctl[c].disposed
    <3>1. Mounted(w) /\ InitLive(c) /\ CardLive(w)
      BY <1>a, <1>l, <1>t, <2>0
    <3>2. ctl[c].status = "creating" /\ card[w].controller = c /\ card[w].isInitializing
      BY <3>1, <1>a, <1>w DEF InitLive
    <3> QED BY <3>1, <3>2, <1>t DEF CardLive
  <2>1. ASSUME NEW v \in Widget PROVE CardLive(v)'
    <3>1. CASE v = w
      BY <3>1, <1>m, <1>j, <1>f, <1>t, <2>c DEF CardLive, Mounted
    <3>2. CASE v # w
      <4>1. card'[v] = card[v] /\ CardLive(v)
        BY <3>2, <1>m, <2>0
      <4>2. CASE card[v].controller = 0 \/ ~Mounted(v)
        BY <4>1, <4>2 DEF CardLive, Mounted
      <4>3. CASE card[v].controller # 0 /\ Mounted(v)
        <5>1. card[v].controller \in Ctl \ {c, d}
          BY <4>1, <4>3, <3>2, <1>d, <1>t, <1>w DEF CardLive
        <5> QED BY <4>1, <4>3, <5>1, <1>f, <1>a DEF CardLive, Mounted
      <4> QED BY <4>2, <4>3
    <3> QED BY <3>1, <3>2
  <2>o. \A x \in Ctl \ {c, d} : init[x] # "none" => ctl[x].owner \in Widget \ {w}
    <3> SUFFICES ASSUME NEW x \in Ctl \ {c, d}, init[x] # "none" PROVE ctl[x].owner \in Widget \ {w}
      OBVIOUS
    <3>1. InitLive(x) /\ ctl[x].owner \in Widget
      BY <2>0, Facts
    <3> QED BY <3>1, <1>a, <1>w DEF InitLive
  <2>2. ASSUME NEW x \in Ctl PROVE InitLive(x)'
    <3>1. ASSUME init'[x] # "none", card'[ctl'[x].owner].mounted = "yes"
          PROVE  card'[ctl'[x].owner].isInitializing /\ card'[ctl'[x].owner].controller = x
      <4>1. CASE x = d
        BY <4>1, <1>f, <1>j, <1>m, <2>c
      <4>2. CASE x # d
        <5>1. x # c /\ ctl'[x] = ctl[x] /\ init[x] # "none" /\ InitLive(x)
          BY <3>1, <4>2, <1>n, <1>f, <2>0
        <5>2. card'[ctl[x].owner] = card[ctl[x].owner]
          BY <4>2, <5>1, <2>o, <1>m
        <5> QED BY <3>1, <5>1, <5>2 DEF InitLive, Mounted
      <4> QED BY <4>1, <4>2
    <3>2. ctl'[x].status = "creating" <=> init'[x] \in {"initialize", "simpler"}
      BY <1>f, <1>n, <1>j, <2>0 DEF InitLive
    <3>3. ASSUME NEW y \in Ctl, init'[x] # "none", init'[y] # "none", ctl'[x].owner = ctl'[y].owner PROVE x = y
      <4>1. x # c /\ y # c
        BY <3>3, <1>n
      <4>2. CASE x = d \/ y = d
        BY <3>3, <4>1, <4>2, <1>f, <1>n, <1>j, <2>o
      <4>3. CASE x # d /\ y # d
        BY <3>3, <4>1, <4>3, <1>f, <1>n, <2>0 DEF InitLive
      <4> QED BY <4>2, <4>3
    <3> QED BY <3>1, <3>2, <3>3 DEF InitLive, Mounted
  <2>3. ASSUME NEW x \in Ctl PROVE CtlLive(x)'
    <3>1. CASE x \in {c, d}
      BY <3>1, <1>f, <1>j, <1>m, <2>c DEF CtlLive, Mounted
    <3>2. CASE x \notin {c, d}
      <4> SUFFICES ASSUME ctl'[x].status \in {"creating", "ready"}, ~ctl'[x].disposed
                   PROVE  card'[ctl'[x].owner].mounted = "yes" /\ card'[ctl'[x].owner].controller = x
        BY DEF CtlLive, Mounted
      <4>1. ctl'[x] = ctl[x] /\ Mounted(ctl[x].owner) /\ card[ctl[x].owner].controller = x
        BY <3>2, <1>f, <2>0 DEF CtlLive
      <4>2. ctl[x].owner \in Widget \ {w}
        BY <3>2, <4>1, <2>c, Facts
      <4> QED BY <4>1, <4>2, <1>m DEF Mounted
    <3> QED BY <3>1, <3>2
  <2>4. ASSUME NEW a \in Alias PROVE Entry(a)'
    <3>1. CASE registered[a] = 0
      BY <3>1, <1>a DEF Entry
    <3>2. CASE registered[a] # 0
      <4>1. Entry(a) /\ registered[a] \in Ctl \ {c, d}
        BY <3>2, <2>0, <2>c, <1>d, <1>t DEF Entry
      <4>2. ctl[registered[a]].owner \in Widget
        BY <3>2, <4>1, Facts DEF Entry
      <4>3. ctl[registered[a]].owner # w
        BY <3>2, <4>1, <2>c DEF Entry
      <4> QED BY <3>2, <4>1, <4>2, <4>3, <1>f, <1>a, <1>m DEF Entry, Mounted
    <3> QED BY <3>1, <3>2
  <2> QED BY <2>1, <2>2, <2>3, <2>4 DEF Live
<1> QED BY <1>b, <1>l DEF Live

(* 500 ms later: unless an initialization is orphaned, the card still shows
   that it initializes, so that the guard stops the retry.                 *)
LEMMA RetryDelayedKeeps ==
  ASSUME Typed, Books, Live, NEW c \in Ctl, RetryDelayed(c)
  PROVE  Books' /\ Live'
<1> DEFINE w == ctl[c].owner
<1>t. /\ card \in [Widget -> Card] /\ init \in [Ctl -> Inits]
      /\ w \in Widget /\ \A u, v \in Widget : Mounted(u) /\ Mounted(v) /\ AliasOf[u] = AliasOf[v] => u = v
  BY Facts DEF RetryDelayed
<1>a. init[c] = "delay" /\ registered' = registered /\ orphaned' = orphaned
  BY DEF RetryDelayed, manager, history
<1>1. CASE Mounted(w) /\ MayInitialize(w)
  <2>1. PICK d \in Ctl : Create(w, d, card[w]) /\ init' = [init EXCEPT ![c] = "none", ![d] = "initialize"]
    BY <1>1 DEF RetryDelayed
  <2>2. \A x \in Ctl \ {d} : init'[x] \in {init[x], "none"}
    BY <2>1, <1>t
  <2>3. card[w] \in Card /\ card[w].mounted = "yes" /\ \A v \in Widget : Mounted(v) /\ AliasOf[v] = AliasOf[w] => v = w
    BY <1>1, <1>t DEF Mounted
  <2> HIDE DEF w
  <2>4. Books'
    BY <2>1, <2>2, <2>3, <1>t, CreateBooks
  <2>5. orphaned'
    <3>1. ~orphaned => InitLive(c)
      BY LiveFacts
    <3> QED BY <3>1, <1>1, <1>a DEF InitLive, MayInitialize, w
  <2> QED BY <2>4, <2>5 DEF Live
<1>2. CASE ~(Mounted(w) /\ MayInitialize(w))
  <2>1. init' = [init EXCEPT ![c] = "none"] /\ ctl' = ctl /\ card' = card /\ made' = made
    BY <1>2 DEF RetryDelayed
  <2>2. init'[c] = "none" /\ \A d \in Ctl \ {c} : init'[d] = init[d]
    BY <2>1, <1>t
  <2>3. Books'
    <3>1. \A d \in Ctl : init'[d] # "none" => ctl'[d].status # "unused"
      BY <2>1, <2>2 DEF Books
    <3> QED BY <3>1, <2>1 DEF Books, Mounted
  <2>4. ASSUME ~orphaned' PROVE Live'
    <3>0. /\ \A v \in Widget : CardLive(v)
          /\ \A d \in Ctl : InitLive(d) /\ CtlLive(d)
          /\ \A a \in Alias : Entry(a)
      BY <1>a, <2>4, LiveFacts
    <3>1. \A v \in Widget : CardLive(v)'
      BY <3>0, <2>1, <1>a DEF CardLive, Mounted
    <3>2. \A d \in Ctl : CtlLive(d)'
      BY <3>0, <2>1 DEF CtlLive, Mounted
    <3>3. \A a \in Alias : Entry(a)'
      BY <3>0, <2>1, <1>a DEF Entry, Mounted
    <3>4. \A d \in Ctl : InitLive(d)'
      BY <3>0, <2>1, <2>2, <1>a DEF InitLive, Mounted
    <3> QED BY <3>1, <3>2, <3>3, <3>4 DEF Live
  <2> QED BY <2>3, <2>4 DEF Live
<1> QED BY <1>1, <1>2

(* initState keeps both.                                                   *)
LEMMA MountKeeps ==
  ASSUME Typed, Books, Live, NEW w \in Widget, Mount(w)
  PROVE  Books' /\ Live'
<1>t. /\ card \in [Widget -> Card] /\ init \in [Ctl -> Inits]
      /\ \A c \in Ctl : ctl[c].status # "unused" => ctl[c].owner \in Widget /\ card[ctl[c].owner].mounted # "new"
      /\ \A c \in Ctl : init[c] # "none" => ctl[c].owner \in Widget /\ ctl[c].status # "unused"
  BY Facts
<1>a. /\ card[w].mounted = "new" /\ registered' = registered /\ orphaned' = orphaned
      /\ \A v \in Widget : Mounted(v) => AliasOf[v] # AliasOf[w]
  BY DEF Mount, manager, history
<1>c. card[w].controller = 0 /\ ~card[w].isPlayerInitialized /\ ~card[w].isInitializing
  BY <1>a DEF Books
<1>o. \A c \in Ctl : init[c] # "none" \/ ctl[c].status # "unused" => ctl[c].owner \in Widget \ {w}
  BY <1>t, <1>a
<1>k. PICK h : h = [card[w] EXCEPT !.mounted = "yes"]
  OBVIOUS
<1>j. /\ h \in Card /\ h.mounted = "yes" /\ h.controller = 0 /\ ~h.isPlayerInitialized /\ ~h.isInitializing
  BY <1>k, <1>c, <1>t DEF Card
<1>1. CASE ~web
  <2>1. PICK c \in Ctl : Create(w, c, h) /\ init' = [init EXCEPT ![c] = "initialize"]
    BY <1>1, <1>k DEF Mount
  <2>2. \A d \in Ctl \ {c} : init'[d] \in {init[d], "none"}
    BY <2>1, <1>t
  <2>3. Books'
    BY <2>1, <2>2, <1>a, <1>j, CreateBooks
  <2>4. ASSUME ~orphaned PROVE Live'
    BY <2>1, <2>4, <1>a, <1>c, <1>j, <1>o, CreateLive
  <2> QED BY <2>3, <2>4, <1>a DEF Live
<1>2. CASE web
  <2>1. card' = [card EXCEPT ![w] = h] /\ ctl' = ctl /\ init' = init /\ made' = made
    BY <1>2, <1>k DEF Mount
  <2>2. card'[w] = h /\ \A v \in Widget \ {w} : card'[v] = card[v]
    BY <2>1, <1>t
  <2>3. Books'
    <3>1. \A c \in Ctl : ctl'[c].status # "unused" => ctl'[c].owner \in Widget /\ card'[ctl'[c].owner].mounted # "new"
      BY <2>1, <2>2, <1>t, <1>o
    <3>2. \A v \in Widget : card'[v].mounted = "new" =>
            card'[v].controller = 0 /\ ~card'[v].isPlayerInitialized /\ ~card'[v].isInitializing
      BY <2>2, <1>j DEF Books
    <3>3. \A u, v \in Widget : card'[u].mounted = "yes" /\ card'[v].mounted = "yes" /\ AliasOf[u] = AliasOf[v] => u = v
      <4>1. \A v \in Widget \ {w} : card'[v].mounted = "yes" => card[v].mounted = "yes" /\ AliasOf[v] # AliasOf[w]
        BY <2>2, <1>a DEF Mounted
      <4> QED BY <4>1 DEF Books, Mounted
    <3>4. /\ \A c \in Ctl : c > made' => ctl'[c].status = "unused"
          /\ \A c \in Ctl : init'[c] # "none" => ctl'[c].status # "unused"
          /\ \A c \in Ctl : ctl'[c].playing => ~ctl'[c].disposed
      BY <2>1 DEF Books
    <3> QED BY <3>1, <3>2, <3>3, <3>4 DEF Books, Mounted
  <2>4. ASSUME ~orphaned' PROVE Live'
    <3>0. /\ \A v \in Widget : CardLive(v)
          /\ \A d \in Ctl : InitLive(d) /\ CtlLive(d)
          /\ \A a \in Alias : Entry(a)
      BY <1>a, <2>4, LiveFacts
    <3>1. ASSUME NEW v \in Widget PROVE CardLive(v)'
      <4>1. CASE v = w
        BY <4>1, <2>2, <1>j DEF CardLive, Mounted
      <4>2. CASE v # w
        <5>1. card'[v] = card[v] /\ CardLive(v)
          BY <4>2, <2>2, <3>0
        <5> QED BY <5>1, <2>1, <1>a DEF CardLive, Mounted
      <4> QED BY <4>1, <4>2
    <3>2. ASSUME NEW d \in Ctl PROVE InitLive(d)' /\ CtlLive(d)'
      <4>1. init[d] # "none" \/ ctl[d].status # "unused" => card'[ctl[d].owner] = card[ctl[d].owner]
        BY <1>o, <2>2
      <4>2. InitLive(d)'
        BY <4>1, <3>0, <2>1 DEF InitLive, Mounted
      <4>3. CtlLive(d)'
        BY <4>1, <3>0, <2>1 DEF CtlLive, Mounted
      <4> QED BY <4>2, <4>3
    <3>3. ASSUME NEW a \in Alias PROVE Entry(a)'
      <4>1. CASE registered[a] = 0
        BY <4>1, <1>a DEF Entry
      <4>2. CASE registered[a] # 0
        <5>1. Entry(a) /\ registered[a] \in Ctl
          BY <4>2, <3>0, Facts
        <5>2. card'[ctl[registered[a]].owner] = card[ctl[registered[a]].owner]
          BY <4>2, <5>1, <1>o, <2>2 DEF Entry
        <5> QED BY <4>2, <5>1, <5>2, <2>1, <1>a DEF Entry, Mounted
      <4> QED BY <4>1, <4>2
    <3> QED BY <3>1, <3>2, <3>3 DEF Live
  <2> QED BY <2>3, <2>4 DEF Live
<1> QED BY <1>1, <1>2

(* A tap that initializes keeps both.                                      *)
LEMMA TapInitializeKeeps ==
  ASSUME Typed, Books, Live, NEW w \in Widget, NEW o \in Op, TapInitialize(w, o)
  PROVE  Books' /\ Live'
<1>t. /\ card \in [Widget -> Card] /\ init \in [Ctl -> Inits]
      /\ \A v \in Widget : card[v].controller \in Ctl \cup {0}
      /\ \A c \in Ctl : init[c] # "none" => ctl[c].owner \in Widget /\ ctl[c].status # "unused"
      /\ \A u, v \in Widget : Mounted(u) /\ Mounted(v) /\ AliasOf[u] = AliasOf[v] => u = v
  BY Facts
<1>a. Mounted(w) /\ MayInitialize(w) /\ registered' = registered /\ orphaned' = orphaned
  BY DEF TapInitialize, manager, Begin
<1>1. PICK c \in Ctl : Create(w, c, card[w]) /\ init' = [init EXCEPT ![c] = "initialize"]
  BY DEF TapInitialize
<1>2. \A d \in Ctl \ {c} : init'[d] \in {init[d], "none"}
  BY <1>1, <1>t
<1>3. card[w] \in Card /\ card[w].mounted = "yes" /\ ~card[w].isPlayerInitialized
      /\ \A v \in Widget : Mounted(v) /\ AliasOf[v] = AliasOf[w] => v = w
  BY <1>a, <1>t DEF Mounted, MayInitialize
<1>4. Books'
  BY <1>1, <1>2, <1>3, CreateBooks
<1>5. ASSUME ~orphaned PROVE Live'
  <2>1. CardLive(w) /\ \A d \in Ctl : InitLive(d)
    BY <1>5, LiveFacts
  <2>2. card[w].controller = 0 \/ ctl[card[w].controller].status = "failed"
    BY <2>1, <1>a DEF CardLive, MayInitialize
  <2>3. \A d \in Ctl : init[d] # "none" => ctl[d].owner # w
    BY <2>1, <1>a DEF InitLive, MayInitialize
  <2> QED BY <1>1, <1>3, <1>5, <1>a, <2>2, <2>3, CreateLive
<1> QED BY <1>4, <1>5, <1>a DEF Live

(* Leaving the list keeps both.                                            *)
LEMMA CloseListKeeps ==
  ASSUME Typed, Books, Live, CloseList
  PROVE  Books' /\ Live'
<1>a. /\ \A w \in Widget : ~Mounted(w)
      /\ card' = card /\ init' = init /\ made' = made /\ orphaned' = orphaned
      /\ registered' = [a \in Alias |-> 0]
      /\ ctl' = [c \in Ctl |-> IF \E a \in Alias : registered[a] = c
                               THEN [ctl[c] EXCEPT !.disposed = TRUE, !.playing = FALSE] ELSE ctl[c]]
  BY DEF CloseList, history
<1>t. /\ ctl \in [Ctl -> Controller] /\ \A w \in Widget : card[w].controller \in Ctl \cup {0}
      /\ \A c \in Ctl : init[c] # "none" => ctl[c].owner \in Widget /\ ctl[c].status # "unused"
      /\ \A c \in Ctl : ctl[c].status # "unused" => ctl[c].owner \in Widget /\ card[ctl[c].owner].mounted # "new"
  BY Facts
<1>f. ASSUME NEW c \in Ctl
      PROVE  /\ ctl'[c].owner = ctl[c].owner /\ ctl'[c].status = ctl[c].status
             /\ ctl'[c] = ctl[c] \/ (ctl'[c].disposed = TRUE /\ ctl'[c].playing = FALSE)
  <2>1. ctl[c] \in Controller
    BY <1>t
  <2>2. CASE \E a \in Alias : registered[a] = c
    <3>1. ctl'[c] = [ctl[c] EXCEPT !.disposed = TRUE, !.playing = FALSE]
      BY <1>a, <2>2
    <3> QED BY <2>1, <3>1 DEF Controller
  <2>3. CASE ~\E a \in Alias : registered[a] = c
    <3>1. ctl'[c] = ctl[c]
      BY <1>a, <2>3
    <3> QED BY <3>1
  <2> QED BY <2>2, <2>3
<1>s. card' = card /\ init' = init /\ made' = made
  BY <1>a
<1>b. Books'
  <2>1. /\ \A c \in Ctl : c > made' => ctl'[c].status = "unused"
        /\ \A c \in Ctl : init'[c] # "none" => ctl'[c].status # "unused"
    BY <1>s, <1>f DEF Books
  <2>2. \A c \in Ctl : ctl'[c].status # "unused" => ctl'[c].owner \in Widget /\ card'[ctl'[c].owner].mounted # "new"
    BY <1>s, <1>f, <1>t
  <2>3. \A c \in Ctl : ctl'[c].playing => ~ctl'[c].disposed
    BY <1>f DEF Books
  <2>4. /\ \A v \in Widget : card'[v].mounted = "new" =>
             card'[v].controller = 0 /\ ~card'[v].isPlayerInitialized /\ ~card'[v].isInitializing
        /\ \A u, v \in Widget : card'[u].mounted = "yes" /\ card'[v].mounted = "yes" /\ AliasOf[u] = AliasOf[v] => u = v
    BY <1>a DEF Books, Mounted
  <2> QED BY <2>1, <2>2, <2>3, <2>4 DEF Books, Mounted
<1>l. ASSUME ~orphaned' PROVE Live'
  <2>0. /\ \A v \in Widget : CardLive(v)
        /\ \A d \in Ctl : InitLive(d) /\ CtlLive(d)
    BY <1>a, <1>l, LiveFacts
  <2>1. \A v \in Widget : CardLive(v)'
    BY <2>0, <1>a DEF CardLive, Mounted
  <2>2. ASSUME NEW c \in Ctl PROVE InitLive(c)' /\ CtlLive(c)'
    <3>1. CtlLive(c)'
      <4>1. ctl[c].status \in {"creating", "ready"} => ctl[c].disposed
        BY <2>0, <1>a, <1>t DEF CtlLive
      <4> QED BY <4>1, <1>f DEF CtlLive
    <3>2. InitLive(c)'
      <4>1. \A d \in Ctl : ctl'[d].owner = ctl[d].owner /\ ctl'[d].status = ctl[d].status
        BY <1>f
      <4>2. InitLive(c)
        BY <2>0
      <4> QED BY <4>1, <4>2, <1>s DEF InitLive, Mounted
    <3> QED BY <3>1, <3>2
  <2>3. \A a \in Alias : Entry(a)'
    BY <1>a DEF Entry
  <2> QED BY <2>1, <2>2, <2>3 DEF Live
<1> QED BY <1>b, <1>l DEF Live

(* Every step keeps Books and Live.                                        *)
LEMMA BooksLiveNext == Typed /\ Books /\ Live /\ [Next]_vars => Books' /\ Live'
<1> SUFFICES ASSUME Typed, Books, Live, [Next]_vars PROVE Books' /\ Live'
  OBVIOUS
<1>t. card \in [Widget -> Card]
  BY Facts
<1>1. ASSUME NEW w \in Widget, Mount(w) PROVE Books' /\ Live'
  BY <1>1, MountKeeps
<1>2. ASSUME NEW w \in Widget, Unmount(w) PROVE Books' /\ Live'
  <2>1. PICK h : h = [card[w] EXCEPT !.mounted = "no"]
    OBVIOUS
  <2>2. h \in Card /\ h.mounted = "no"
    BY <2>1, <1>t DEF Card
  <2>3. Mounted(w) /\ Release(w, h) /\ init' = init /\ made' = made /\ orphaned' = orphaned
    BY <1>2, <2>1 DEF Unmount, history
  <2>4. Books'
    BY <2>2, <2>3, ReleaseBooks
  <2>5. ~orphaned => Live'
    BY <2>2, <2>3, ReleaseLive
  <2> QED BY <2>3, <2>4, <2>5 DEF Live
<1>3. ASSUME NEW w \in Widget, UpdateWidget(w) PROVE Books' /\ Live'
  <2>1. PICK h : h = [card[w] EXCEPT !.isPlayerInitialized = FALSE, !.isInitializing = FALSE]
    OBVIOUS
  <2>2. h \in Card /\ h.mounted = "yes" /\ ~h.isPlayerInitialized /\ ~h.isInitializing
    <3>1. card[w] \in Card /\ card[w].mounted = "yes"
      BY <1>3, <1>t DEF UpdateWidget, Mounted
    <3> QED BY <2>1, <3>1 DEF Card
  <2>3. /\ Mounted(w) /\ Release(w, h) /\ init' = init /\ made' = made
        /\ orphaned' = (orphaned \/ \E c \in Ctl : ctl[c].owner = w /\ init[c] # "none")
    BY <1>3, <2>1 DEF UpdateWidget
  <2>4. Books'
    BY <2>2, <2>3, ReleaseBooks
  <2>5. ~orphaned' => Live'
    BY <2>2, <2>3, ReleaseLive
  <2> QED BY <2>4, <2>5 DEF Live
<1>4. ASSUME CloseList PROVE Books' /\ Live'
  BY <1>4, CloseListKeeps
<1>5. ASSUME NEW c \in Ctl, InitUnmounted(c) PROVE Books' /\ Live'
  BY <1>5, InitUnmountedKeeps
<1>6. ASSUME NEW c \in Ctl, InitOk(c) PROVE Books' /\ Live'
  BY <1>6, InitOkKeeps
<1>7. ASSUME NEW c \in Ctl, InitDetached(c) PROVE Books' /\ Live'
  BY <1>7, CaughtKeeps DEF InitDetached
<1>8. ASSUME NEW c \in Ctl, InitFailed(c) PROVE Books' /\ Live'
  BY <1>8, CaughtKeeps DEF InitFailed
<1>9. ASSUME NEW c \in Ctl, InitRangeError(c) PROVE Books' /\ Live'
  BY <1>9, InitRangeErrorKeeps
<1>10. ASSUME NEW c \in Ctl, RetryDelayed(c) PROVE Books' /\ Live'
  BY <1>10, RetryDelayedKeeps
<1>11. ASSUME NEW w \in Widget, NEW o \in Op, TapInitialize(w, o) PROVE Books' /\ Live'
  BY <1>11, TapInitializeKeeps
<1>12. Quiet => Books' /\ Live'
  BY QuietBooks, QuietLive
<1> QED
  BY <1>1, <1>2, <1>3, <1>4, <1>5, <1>6, <1>7, <1>8, <1>9, <1>10, <1>11, <1>12, QuietSteps DEF Next

(* The initial states satisfy both.                                        *)
LEMMA InitBooksLive == Init => Books /\ Live
<1> SUFFICES ASSUME Init PROVE Books /\ Live
  OBVIOUS
<1>1. \A w \in Widget : /\ card[w].mounted = "new" /\ card[w].controller = 0
                        /\ ~card[w].isPlayerInitialized /\ ~card[w].isInitializing
  BY DEF Init, NewCard
<1>2. \A c \in Ctl : ctl[c].status = "unused" /\ ~ctl[c].playing /\ init[c] = "none"
  BY DEF Init, Unused
<1>3. Books
  BY <1>1, <1>2 DEF Books, Mounted
<1>4. \A w \in Widget : CardLive(w)
  BY <1>1 DEF CardLive, Mounted
<1>5. \A c \in Ctl : InitLive(c) /\ CtlLive(c)
  BY <1>2 DEF InitLive, CtlLive
<1>6. \A a \in Alias : Entry(a)
  BY DEF Init, Entry
<1> QED BY <1>3, <1>4, <1>5, <1>6 DEF Live

(* The three invariants hold together: what a step may do to one of them
   depends on the others.                                                  *)
LEMMA Agreement == Spec => [](Typed /\ Books /\ Live)
<1>1. Init => Typed
  BY InitTyped
<1> QED BY <1>1, InitBooksLive, TypedNext, BooksLiveNext, PTL DEF Spec

(* The autoplay timer never takes a player that is disposed, or whose card
   is gone, however initializations, retries and the scrolling interleave. *)
THEOREM AlwaysRegisteredIsLive == Spec => []RegisteredIsLive
<1>1. Live => RegisteredIsLive
  BY DEF Live, RegisteredIsLive, Entry
<1> QED BY <1>1, Agreement, PTL

(* No video plays on once its card has left the list.                      *)
THEOREM AlwaysOnScreen == Spec => []PlaysOnScreen
<1>1. Books /\ Live => PlaysOnScreen
  BY DEF Books, Live, PlaysOnScreen, CtlLive, Playing
<1> QED BY <1>1, Agreement, PTL

(* A card never waits for two initializations.                             *)
THEOREM AlwaysOneInitialization == Spec => []OneInitialization
<1>1. ASSUME Live, ~orphaned, NEW w \in Widget
      PROVE  Cardinality({c \in Ctl : ctl[c].owner = w /\ init[c] # "none"}) <= 1
  <2> DEFINE S == {c \in Ctl : ctl[c].owner = w /\ init[c] # "none"}
  <2>1. \A c, d \in S : c = d
    BY <1>1 DEF Live, InitLive
  <2>2. CASE S = {}
    <3>1. Cardinality(S) = 0
      BY <2>2, FS_EmptySet
    <3> QED BY <3>1
  <2>3. CASE S # {}
    <3>1. PICK c : S = {c}
      BY <2>1, <2>3
    <3> HIDE DEF S
    <3>2. Cardinality({c}) = 1
      BY FS_Singleton
    <3>3. Cardinality(S) <= 1
      BY <3>1, <3>2
    <3> QED BY <3>3 DEF S
  <2> QED BY <2>2, <2>3
<1>2. Live => OneInitialization
  BY <1>1 DEF OneInitialization
<1> QED BY <1>2, Agreement, PTL

(***************************************************************************)
(* What plays is current.                                                  *)
(***************************************************************************)

(* The operations so long as none was started while another was suspended:
   what one waits for before it rewinds and plays is the only video that may
   play, and current once it is to be rewound; after a pause nothing plays. *)
OpAlone(o) ==
  LET c == op[o].ctl
      w == op[o].widget
  IN
  /\ \A p \in Op : op[o].pc # "idle" /\ op[p].pc # "idle" => o = p
  /\ op[o].pc \in {"pauseOthers", "seek"} =>
       /\ c \in Ctl /\ ctl[c].status = "ready"
       /\ w # None => w \in Widget /\ ctl[c].owner = w /\ card[w].controller \in {0, c}
       /\ \A d \in Ctl : ctl[d].playing => d = c
  /\ op[o].pc = "seek" /\ ~ctl[c].disposed => current = c /\ currentAlias = AliasOf[ctl[c].owner]
  /\ op[o].pc \in {"pauseOwn", "stop"} => \A d \in Ctl : ~ctl[d].playing

(* A card shows no more than its player does.                              *)
Shown(w) ==
  card[w].mounted # "no" /\ card[w].isPlaying => card[w].controller \in Ctl /\ ctl[card[w].controller].playing

Current(c) ==
  ctl[c].playing => ctl[c].status = "ready" /\ c = current /\ currentAlias = AliasOf[ctl[c].owner]

Alone ==
  ~orphaned /\ ~overlapped => /\ \A o \in Op : OpAlone(o)
                              /\ \A w \in Widget : Shown(w)
                              /\ \A c \in Ctl : Current(c)

(* Alone, so long as nothing overlapped.                                   *)
LEMMA AloneFacts ==
  ASSUME Alone, ~orphaned, ~overlapped
  PROVE  /\ \A o \in Op : OpAlone(o)
         /\ \A w \in Widget : Shown(w)
         /\ \A c \in Ctl : Current(c)
BY DEF Alone

(* A player that is ready and not disposed is registered for its item.     *)
LEMMA ReadyIsRegistered ==
  ASSUME Typed, Books, Live, ~orphaned, NEW c \in Ctl, ctl[c].status = "ready", ~ctl[c].disposed
  PROVE  /\ ctl[c].owner \in Widget /\ Mounted(ctl[c].owner) /\ card[ctl[c].owner].controller = c
         /\ AliasOf[ctl[c].owner] \in Alias /\ registered[AliasOf[ctl[c].owner]] = c
         /\ \A a \in Alias : registered[a] = c => a = AliasOf[ctl[c].owner]
<1>0. CtlLive(c) /\ (\A w \in Widget : CardLive(w)) /\ (\A a \in Alias : Entry(a)) /\ c # 0
      /\ ctl[c].owner \in Widget /\ AliasOf \in [Widget -> Alias]
  BY Facts, LiveFacts
<1>1. Mounted(ctl[c].owner) /\ card[ctl[c].owner].controller = c
  BY <1>0 DEF CtlLive
<1>2. registered[AliasOf[ctl[c].owner]] = c
  <2>1. CardLive(ctl[c].owner)
    BY <1>0
  <2> QED BY <1>0, <1>1, <2>1 DEF CardLive
<1>3. \A a \in Alias : registered[a] = c => a = AliasOf[ctl[c].owner]
  BY <1>0 DEF Entry
<1> QED BY <1>0, <1>1, <1>2, <1>3

(* setCurrentController finds the alias of a live player.                  *)
LEMMA SetCurrentAlias ==
  ASSUME Typed, Books, Live, ~orphaned, NEW c \in Ctl, ctl[c].status = "ready", ~ctl[c].disposed, SetCurrent(c)
  PROVE  current' = c /\ currentAlias' = AliasOf[ctl[c].owner]
<1> DEFINE x == AliasOf[ctl[c].owner]
<1>1. x \in Alias /\ registered[x] = c /\ \A a \in Alias : registered[a] = c => a = x
  BY ReadyIsRegistered
<1>2. currentAlias' = CHOOSE a \in Alias : registered[a] = c
  BY <1>1 DEF SetCurrent
<1>3. (CHOOSE a \in Alias : registered[a] = c) = x
  <2> HIDE DEF x
  <2> QED BY <1>1
<1> QED BY <1>2, <1>3 DEF SetCurrent

(* Steps that do not touch the operations, and start nothing.              *)
LEMMA AloneKept ==
  ASSUME Typed, Books, Live, Alone, Books', ~orphaned, ~overlapped,
         \A o \in Op : /\ op'[o].pc = op[o].pc
                       /\ op[o].pc # "initialize" => op'[o] = op[o],
         \A d \in Ctl : ctl'[d].playing => ctl[d].playing,
         \A d \in Ctl : ctl[d].status = "ready" =>
           /\ ctl'[d].status = "ready" /\ ctl'[d].owner = ctl[d].owner
           /\ ~ctl'[d].disposed => ~ctl[d].disposed,
         \A d \in Ctl : ctl[d].status = "ready" /\ ~ctl'[d].disposed /\ current = d =>
           current' = current /\ currentAlias' = currentAlias,
         \A d \in Ctl, w \in Widget : ctl[d].status = "ready" /\ ctl[d].owner = w /\ card[w].controller \in {0, d}
           => card'[w].controller \in {0, d},
         \A w \in Widget : Shown(w)'
  PROVE  Alone'
<1>0. /\ \A o \in Op : OpAlone(o)
      /\ \A c \in Ctl : Current(c)
  BY AloneFacts
<1>1. ASSUME NEW o \in Op PROVE OpAlone(o)'
  <2>0. OpAlone(o)
    BY <1>0
  <2>1. \A p \in Op : op'[o].pc # "idle" /\ op'[p].pc # "idle" => o = p
    BY <2>0 DEF OpAlone
  <2>2. ASSUME op'[o].pc \in {"pauseOthers", "seek"}
        PROVE  /\ op'[o].ctl \in Ctl /\ ctl'[op'[o].ctl].status = "ready"
               /\ op'[o].widget # None =>
                    /\ op'[o].widget \in Widget /\ ctl'[op'[o].ctl].owner = op'[o].widget
                    /\ card'[op'[o].widget].controller \in {0, op'[o].ctl}
               /\ \A d \in Ctl : ctl'[d].playing => d = op'[o].ctl
    BY <2>0, <2>2 DEF OpAlone
  <2>3. ASSUME op'[o].pc = "seek", ~ctl'[op'[o].ctl].disposed
        PROVE  current' = op'[o].ctl /\ currentAlias' = AliasOf[ctl'[op'[o].ctl].owner]
    BY <2>0, <2>3 DEF OpAlone
  <2>4. op'[o].pc \in {"pauseOwn", "stop"} => \A d \in Ctl : ~ctl'[d].playing
    BY <2>0 DEF OpAlone
  <2> QED BY <2>1, <2>2, <2>3, <2>4 DEF OpAlone
<1>2. ASSUME NEW c \in Ctl PROVE Current(c)'
  <2>1. ctl'[c].playing => ~ctl'[c].disposed
    BY DEF Books
  <2> QED BY <1>0, <2>1 DEF Current
<1> QED BY <1>1, <1>2 DEF Alone

(* Steps of the only operation.                                            *)
LEMMA AloneIntro ==
  ASSUME NEW o \in Op, \A p \in Op \ {o} : op'[p].pc = "idle", OpAlone(o)',
         \A w \in Widget : Shown(w)', \A c \in Ctl : Current(c)'
  PROVE  Alone'
<1>1. ASSUME NEW p \in Op, p # o PROVE OpAlone(p)'
  BY <1>1 DEF OpAlone
<1> QED BY <1>1 DEF Alone

(* Pausing players, and starting them, as what it does to each.            *)
LEMMA PausedPlayers ==
  ASSUME Typed, NEW off \in SUBSET Ctl, SetPlaying({}, off)
  PROVE  /\ \A d \in Ctl : /\ ctl'[d].owner = ctl[d].owner /\ ctl'[d].status = ctl[d].status
                           /\ ctl'[d].disposed = ctl[d].disposed
                           /\ ctl'[d].playing <=> ctl[d].playing /\ d \notin off
         /\ \A v \in Widget : /\ card'[v].mounted = card[v].mounted
                              /\ card'[v].controller = card[v].controller
                              /\ Mounted(v) /\ card[v].controller \in off => ~card'[v].isPlaying
                              /\ ~(Mounted(v) /\ card[v].controller \in off) => card'[v] = card[v]
<1>1. PICK on : on = {}
  OBVIOUS
<1>2. on \in SUBSET Ctl /\ SetPlaying(on, off) /\ \A x : x \notin on
  BY <1>1
<1>3. /\ \A d \in Ctl : /\ ctl'[d].owner = ctl[d].owner /\ ctl'[d].status = ctl[d].status
                        /\ ctl'[d].disposed = ctl[d].disposed
                        /\ ctl'[d].playing <=> (ctl[d].playing \/ d \in on) /\ d \notin off
      /\ \A v \in Widget : /\ card'[v].mounted = card[v].mounted
                           /\ card'[v].controller = card[v].controller
                           /\ IF Mounted(v) /\ card[v].controller \in on \cup off
                              THEN card'[v].isPlaying <=> card[v].controller \in on
                              ELSE card'[v] = card[v]
  <2>1. ASSUME NEW v \in Widget
        PROVE  /\ card'[v].mounted = card[v].mounted
               /\ card'[v].controller = card[v].controller
               /\ IF Mounted(v) /\ card[v].controller \in on \cup off
                  THEN card'[v].isPlaying <=> card[v].controller \in on
                  ELSE card'[v] = card[v]
    BY <1>2, PlayingTypes
  <2>2. \A d \in Ctl : /\ ctl'[d].owner = ctl[d].owner /\ ctl'[d].status = ctl[d].status
                       /\ ctl'[d].disposed = ctl[d].disposed
                       /\ ctl'[d].playing <=> (ctl[d].playing \/ d \in on) /\ d \notin off
    BY <1>2, PlayingTypes
  <2> QED BY <2>1, <2>2
<1> QED BY <1>2, <1>3

(* Starting players, as what it does to each.                              *)
LEMMA StartedPlayers ==
  ASSUME Typed, NEW on \in SUBSET Ctl, SetPlaying(on, {})
  PROVE  /\ \A d \in Ctl : /\ ctl'[d].owner = ctl[d].owner /\ ctl'[d].status = ctl[d].status
                           /\ ctl'[d].disposed = ctl[d].disposed
                           /\ ctl'[d].playing <=> ctl[d].playing \/ d \in on
         /\ \A v \in Widget : /\ card'[v].mounted = card[v].mounted
                              /\ card'[v].controller = card[v].controller
                              /\ ~(Mounted(v) /\ card[v].controller \in on) => card'[v] = card[v]
<1>1. PICK off : off = {}
  OBVIOUS
<1>2. off \in SUBSET Ctl /\ SetPlaying(on, off)
  BY <1>1
<1>n. \A x : x \notin off
  BY <1>1
<1>3. ASSUME NEW v \in Widget
      PROVE  /\ card'[v].mounted = card[v].mounted
             /\ card'[v].controller = card[v].controller
             /\ IF Mounted(v) /\ card[v].controller \in on \cup off
                THEN card'[v].isPlaying <=> card[v].controller \in on
                ELSE card'[v] = card[v]
  BY <1>2, PlayingTypes
<1>4. \A d \in Ctl : /\ ctl'[d].owner = ctl[d].owner /\ ctl'[d].status = ctl[d].status
                     /\ ctl'[d].disposed = ctl[d].disposed
                     /\ ctl'[d].playing <=> (ctl[d].playing \/ d \in on) /\ d \notin off
  BY <1>2, PlayingTypes
<1> QED BY <1>n, <1>3, <1>4

(* With nothing else under way, only the current video plays: pausing it, or
   all but c, leaves nothing else.                                         *)
LEMMA StartPlayingAlone ==
  ASSUME Typed, Books, Live, Alone, ~orphaned, ~overlapped,
         NEW o \in Op, NEW w \in Widget \cup {None}, NEW c \in Ctl, StartPlaying(o, w, c),
         ctl[c].status = "ready", w # None => w \in Widget /\ ctl[c].owner = w /\ card[w].controller = c,
         \A p \in Op \ {o} : op[p].pc = "idle"
  PROVE  Alone'
<1>0. /\ \A v \in Widget : Shown(v)
      /\ \A d \in Ctl : Current(d)
  BY AloneFacts
<1>r. ASSUME NEW d \in Ctl, ctl[d].playing PROVE d = c \/ d \in Others(c)
  <2>1. ctl[d].status = "ready" /\ ~ctl[d].disposed
    BY <1>r, <1>0 DEF Current, Books
  <2>2. AliasOf[ctl[d].owner] \in Alias /\ registered[AliasOf[ctl[d].owner]] = d /\ d # 0
    BY <2>1, ReadyIsRegistered, Facts
  <2> QED BY <1>r, <2>2 DEF Others
<1>1. CASE Others(c) = {}
  <2>1. SetCurrent(c) /\ Goto(o, "seek", w, c) /\ ctl' = ctl /\ card' = card
    BY <1>1 DEF StartPlaying
  <2>2. op'[o].pc = "seek" /\ op'[o].widget = w /\ op'[o].ctl = c /\ \A p \in Op \ {o} : op'[p] = op[p]
    BY <2>1, OpTypes
  <2>3. ~ctl[c].disposed => current' = c /\ currentAlias' = AliasOf[ctl[c].owner]
    BY <2>1, SetCurrentAlias
  <2>4. \A d \in Ctl : ctl[d].playing => d = c /\ ~ctl[d].disposed
    BY <1>1, <1>r DEF Books
  <2>5. OpAlone(o)'
    BY <2>1, <2>2, <2>3, <2>4 DEF OpAlone
  <2>6. \A d \in Ctl : Current(d)'
    BY <2>1, <2>3, <2>4 DEF Current
  <2>7. \A v \in Widget : Shown(v)'
    BY <1>0, <2>1 DEF Shown
  <2> QED BY <2>2, <2>5, <2>6, <2>7, AloneIntro
<1>2. CASE Others(c) # {}
  <2>1. /\ SetPlaying({}, Others(c)) /\ Goto(o, "pauseOthers", w, c)
        /\ current' = current /\ currentAlias' = currentAlias /\ Others(c) \in SUBSET Ctl /\ {} \in SUBSET Ctl
    BY <1>2, StartPlayingTypes DEF StartPlaying
  <2>2. op'[o].pc = "pauseOthers" /\ op'[o].widget = w /\ op'[o].ctl = c /\ \A p \in Op \ {o} : op'[p] = op[p]
    BY <2>1, OpTypes
  <2>3. /\ \A d \in Ctl : /\ ctl'[d].owner = ctl[d].owner /\ ctl'[d].status = ctl[d].status
                          /\ ctl'[d].playing <=> ctl[d].playing /\ d \notin Others(c)
        /\ \A v \in Widget : /\ card'[v].mounted = card[v].mounted
                             /\ card'[v].controller = card[v].controller
                             /\ Mounted(v) /\ card[v].controller \in Others(c) => ~card'[v].isPlaying
                             /\ ~(Mounted(v) /\ card[v].controller \in Others(c)) => card'[v] = card[v]
    <3> HIDE DEF Others
    <3> QED BY <2>1, PausedPlayers
  <2>4. \A d \in Ctl : ctl'[d].playing => d = c
    BY <2>3, <1>r
  <2>5. OpAlone(o)'
    BY <2>2, <2>3, <2>4 DEF OpAlone
  <2>6. \A d \in Ctl : Current(d)'
    BY <2>1, <2>3, <1>0 DEF Current
  <2>7. ASSUME NEW v \in Widget PROVE Shown(v)'
    <3>1. CASE Mounted(v) /\ card[v].controller \in Others(c)
      BY <2>3, <3>1 DEF Shown
    <3>2. CASE ~(Mounted(v) /\ card[v].controller \in Others(c))
      <4>1. card'[v] = card[v] /\ Shown(v)
        BY <2>3, <3>2, <1>0
      <4>2. card[v].mounted = "new" => card[v].controller = 0
        BY DEF Books
      <4>3. card[v].mounted \in {"new", "yes", "no"} /\ 0 \notin Ctl
        BY TypesOf DEF Types, Card
      <4> QED BY <2>3, <3>2, <4>1, <4>2, <4>3 DEF Shown, Mounted
    <3> QED BY <3>1, <3>2
  <2> QED BY <2>2, <2>5, <2>6, <2>7, AloneIntro
<1> QED BY <1>1, <1>2

(* A pause of what plays leaves nothing that plays.                        *)
LEMMA PauseAlone ==
  ASSUME Typed, Books, Live, Alone, ~orphaned, ~overlapped,
         NEW o \in Op, NEW pc \in {"pauseOwn", "stop"}, NEW w \in Widget \cup {None}, NEW c \in Ctl,
         ctl[c].playing, SetPlaying({}, {c}), Goto(o, pc, w, c),
         \A p \in Op \ {o} : op[p].pc = "idle"
  PROVE  Alone'
<1>0. /\ \A v \in Widget : Shown(v)
      /\ \A d \in Ctl : Current(d)
  BY AloneFacts
<1>1. op'[o].pc = pc /\ \A p \in Op \ {o} : op'[p] = op[p]
  BY OpTypes
<1>2. {c} \in SUBSET Ctl /\ {} \in SUBSET Ctl
  OBVIOUS
<1>3. /\ \A d \in Ctl : ctl'[d].playing <=> ctl[d].playing /\ d # c
      /\ \A v \in Widget : /\ card'[v].mounted = card[v].mounted
                           /\ Mounted(v) /\ card[v].controller = c => ~card'[v].isPlaying
                           /\ ~(Mounted(v) /\ card[v].controller = c) => card'[v] = card[v]
  BY <1>2, PausedPlayers
<1>4. \A d \in Ctl : ~ctl'[d].playing
  BY <1>0, <1>3 DEF Current
<1>5. ASSUME NEW v \in Widget PROVE Shown(v)'
  <2>1. CASE Mounted(v) /\ card[v].controller = c
    BY <1>3, <2>1 DEF Shown
  <2>2. CASE ~(Mounted(v) /\ card[v].controller = c)
    <3>1. card'[v] = card[v] /\ Shown(v)
      BY <1>3, <2>2, <1>0
    <3>2. card[v].mounted = "new" => card[v].controller = 0
      BY DEF Books
    <3>3. card[v].mounted \in {"new", "yes", "no"} /\ 0 \notin Ctl
      BY TypesOf DEF Types, Card
    <3> QED BY <1>0, <2>2, <3>1, <3>2, <3>3 DEF Shown, Mounted, Current
  <2> QED BY <2>1, <2>2
<1>6. OpAlone(o)'
  BY <1>1, <1>4 DEF OpAlone
<1>7. \A d \in Ctl : Current(d)'
  BY <1>4 DEF Current
<1> QED BY <1>1, <1>5, <1>6, <1>7, AloneIntro

(* A card that gives up its player shows nothing that plays.               *)
LEMMA ReleaseAlone ==
  ASSUME Typed, Books, Live, Alone, Books', ~orphaned, ~overlapped,
         NEW w \in Widget, NEW new \in Card, Mounted(w), Release(w, new), op' = op,
         new.mounted = "no" \/ ~new.isPlaying
  PROVE  Alone'
<1>0. /\ \A v \in Widget : Shown(v) /\ CardLive(v)
      /\ \A d \in Ctl : Current(d)
      /\ \A a \in Alias : Entry(a)
  BY AloneFacts, LiveFacts
<1>t. /\ \A v \in Widget : card[v].controller \in Ctl \cup {0} /\ card[v].mounted \in {"new", "yes", "no"}
      /\ \A v \in Widget : card[v].mounted = "new" => card[v].controller = 0
      /\ 0 \notin Ctl /\ AliasOf[w] \in Alias /\ registered[AliasOf[w]] \in Ctl \cup {0}
      /\ \A u, v \in Widget : Mounted(u) /\ Mounted(v) /\ AliasOf[u] = AliasOf[v] => u = v
      /\ \A d \in Ctl : ctl[d].status # "unused" => ctl[d].owner \in Widget
  <2>1. \A v \in Widget : card[v].mounted \in {"new", "yes", "no"}
    BY TypesOf DEF Types, Card
  <2>2. \A v \in Widget : card[v].mounted = "new" => card[v].controller = 0
    BY DEF Books
  <2> QED BY <2>1, <2>2, Facts
<1>f. /\ \A c \in Ctl : /\ ctl'[c].owner = ctl[c].owner /\ ctl'[c].status = ctl[c].status
                        /\ IF c \in Gone(w) THEN ctl'[c].disposed /\ ~ctl'[c].playing ELSE ctl'[c] = ctl[c]
      /\ card'[w].mounted = new.mounted /\ card'[w].controller = 0 /\ card'[w].isPlaying = new.isPlaying
      /\ \A v \in Widget \ {w} : card'[v] = card[v]
      /\ \/ current' = current /\ currentAlias' = currentAlias
         \/ current \in Gone(w) \ {0}
  BY ReleaseTypes
<1>g. \A c \in Ctl : c \in Gone(w) => c = card[w].controller
  <2>1. ASSUME registered[AliasOf[w]] # 0 PROVE registered[AliasOf[w]] = card[w].controller
    <3>1. registered[AliasOf[w]] \in Ctl /\ Entry(AliasOf[w])
      BY <1>0, <1>t, <2>1
    <3>2. ctl[registered[AliasOf[w]]].owner = w
      BY <1>t, <2>1, <3>1 DEF Entry
    <3> QED BY <2>1, <3>1, <3>2 DEF Entry
  <2> QED BY <2>1, <1>t DEF Gone
<1>1. ASSUME NEW v \in Widget PROVE Shown(v)'
  <2>1. CASE v = w
    BY <2>1, <1>f DEF Shown
  <2>2. CASE v # w
    <3> SUFFICES ASSUME card[v].mounted # "no", card[v].isPlaying
                 PROVE  card[v].controller \in Ctl /\ ctl'[card[v].controller].playing
      BY <2>2, <1>f DEF Shown
    <3>1. card[v].controller \in Ctl /\ ctl[card[v].controller].playing /\ Mounted(v)
      BY <1>0, <1>t DEF Shown, Mounted
    <3>2. ctl[card[v].controller].owner = v
      BY <3>1, <1>0, <1>t DEF CardLive
    <3>3. card[v].controller \notin Gone(w)
      <4>1. card[w].controller # 0 => ctl[card[w].controller].owner = w
        BY <1>0 DEF CardLive
      <4> QED BY <3>1, <3>2, <4>1, <2>2, <1>g, <1>t
    <3> QED BY <3>1, <3>3, <1>f
  <2> QED BY <2>1, <2>2
<1>2. \A d \in Ctl : ctl'[d].playing => ctl[d].playing
  BY <1>f
<1>3. \A d \in Ctl : ctl[d].status = "ready" =>
        /\ ctl'[d].status = "ready" /\ ctl'[d].owner = ctl[d].owner
        /\ ~ctl'[d].disposed => ~ctl[d].disposed
  BY <1>f
<1>4. \A d \in Ctl : ctl[d].status = "ready" /\ ~ctl'[d].disposed /\ current = d =>
        current' = current /\ currentAlias' = currentAlias
  BY <1>f
<1>5. \A d \in Ctl, v \in Widget : ctl[d].status = "ready" /\ ctl[d].owner = v /\ card[v].controller \in {0, d}
        => card'[v].controller \in {0, d}
  BY <1>f
<1> QED BY <1>1, <1>2, <1>3, <1>4, <1>5, AloneKept

(* A card that shows nothing makes a player.                               *)
LEMMA CreateShown ==
  ASSUME Typed, Books, Live, Alone, ~orphaned, ~overlapped,
         NEW w \in Widget, NEW c \in Ctl, NEW new \in Card, Create(w, c, new), ~new.isPlaying
  PROVE  /\ \A v \in Widget : Shown(v)'
         /\ \A d \in Ctl : ctl'[d].playing => ctl[d].playing
         /\ \A d \in Ctl : ctl[d].status # "unused" => ctl'[d] = ctl[d]
         /\ \A d \in Ctl : ctl[d].status = "ready" => d # c
<1>0. \A v \in Widget : Shown(v)
  BY AloneFacts
<1>f. /\ c = made + 1
      /\ ~ctl'[c].playing
      /\ \A d \in Ctl \ {c} : ctl'[d] = ctl[d]
      /\ card'[w].isPlaying = new.isPlaying
      /\ \A v \in Widget \ {w} : card'[v] = card[v]
  BY CreateTypes
<1>u. ctl[c].status = "unused"
  <2>1. made \in Nat
    BY Facts
  <2> QED BY <2>1, <1>f DEF Books
<1>1. ~ctl[c].playing
  BY <1>u, AloneFacts DEF Current
<1>2. ASSUME NEW v \in Widget PROVE Shown(v)'
  <2>1. CASE v = w
    BY <2>1, <1>f DEF Shown
  <2>2. CASE v # w
    <3>1. card'[v] = card[v] /\ Shown(v)
      BY <2>2, <1>f, <1>0
    <3>2. \A d \in Ctl : ctl[d].playing => ctl'[d] = ctl[d]
      BY <1>f, <1>1
    <3> QED BY <3>1, <3>2 DEF Shown
  <2> QED BY <2>1, <2>2
<1> QED BY <1>2, <1>f, <1>u

(* A new card shows nothing, and keeps Alone.                              *)
LEMMA MountAlone ==
  ASSUME Typed, Books, Live, Alone, Books', ~orphaned, ~overlapped, NEW w \in Widget, Mount(w)
  PROVE  Alone'
<1>t. card \in [Widget -> Card] /\ 0 \notin Ctl
      /\ \A d \in Ctl : ctl[d].status # "unused" => ctl[d].owner \in Widget /\ card[ctl[d].owner].mounted # "new"
  BY Facts
<1>a. card[w].mounted = "new" /\ op' = op /\ current' = current /\ currentAlias' = currentAlias
  BY DEF Mount, manager
<1>0. \A v \in Widget : Shown(v)
  BY AloneFacts
<1>k. PICK h : h = [card[w] EXCEPT !.mounted = "yes"]
  OBVIOUS
<1>j. h \in Card /\ h.mounted = "yes" /\ ~h.isPlaying
  <2>1. ~card[w].isPlaying
    BY <1>0, <1>a, <1>t DEF Shown, Books
  <2> QED BY <2>1, <1>k, <1>t DEF Card
<1>1. /\ \A v \in Widget : Shown(v)'
      /\ \A d \in Ctl : ctl'[d].playing => ctl[d].playing
      /\ \A d \in Ctl : ctl[d].status = "ready" => ctl'[d] = ctl[d]
      /\ \A v \in Widget \ {w} : card'[v] = card[v]
  <2>1. CASE ~web
    <3>1. PICK c \in Ctl : Create(w, c, h)
      BY <2>1, <1>k DEF Mount
    <3>2. \A v \in Widget \ {w} : card'[v] = card[v]
      BY <3>1, <1>j, CreateTypes
    <3>3. /\ \A v \in Widget : Shown(v)'
          /\ \A d \in Ctl : ctl'[d].playing => ctl[d].playing
          /\ \A d \in Ctl : ctl[d].status # "unused" => ctl'[d] = ctl[d]
      BY <3>1, <1>j, CreateShown
    <3> QED BY <3>2, <3>3
  <2>2. CASE web
    <3>1. card' = [card EXCEPT ![w] = h] /\ ctl' = ctl
      BY <2>2, <1>k DEF Mount
    <3>2. card'[w] = h /\ \A v \in Widget \ {w} : card'[v] = card[v]
      BY <3>1, <1>t
    <3>3. \A v \in Widget : Shown(v)'
      BY <3>1, <3>2, <1>0, <1>j DEF Shown
    <3> QED BY <3>1, <3>2, <3>3
  <2> QED BY <2>1, <2>2
<1>2. \A d \in Ctl, v \in Widget : ctl[d].status = "ready" /\ ctl[d].owner = v /\ card[v].controller \in {0, d}
        => card'[v].controller \in {0, d}
  BY <1>1, <1>t, <1>a
<1> QED BY <1>1, <1>2, <1>a, AloneKept

(* A tap that initializes keeps Alone.                                     *)
LEMMA TapInitializeAlone ==
  ASSUME Typed, Books, Live, Alone, Books', ~orphaned, ~overlapped, ~overlapped',
         NEW w \in Widget, NEW o \in Op, TapInitialize(w, o)
  PROVE  Alone'
<1>a. Mounted(w) /\ MayInitialize(w) /\ ~Busy /\ current' = current /\ currentAlias' = currentAlias
  BY DEF TapInitialize, manager, Begin
<1>0. /\ \A v \in Widget : Shown(v) /\ CardLive(v)
      /\ \A d \in Ctl : Current(d)
  BY AloneFacts, LiveFacts
<1>1. PICK c \in Ctl : Create(w, c, card[w]) /\ Goto(o, "initialize", w, c)
  BY DEF TapInitialize
<1>2. card[w] \in Card /\ 0 \notin Ctl
  BY Facts
<1>3. ~card[w].isPlaying
  BY <1>0, <1>2, <1>a DEF Shown, CardLive, Current, MayInitialize, Mounted
<1>4. /\ \A v \in Widget : Shown(v)'
      /\ \A d \in Ctl : ctl'[d].playing => ctl[d].playing
      /\ \A d \in Ctl : ctl[d].status # "unused" => ctl'[d] = ctl[d]
  BY <1>1, <1>2, <1>3, CreateShown
<1>5. \A d \in Ctl : Current(d)'
  BY <1>0, <1>4, <1>a DEF Current
<1>6. op'[o].pc = "initialize" /\ \A p \in Op \ {o} : op'[p] = op[p]
  BY <1>1, OpTypes
<1>7. OpAlone(o)'
  BY <1>6, <1>a DEF OpAlone, Busy
<1> QED BY <1>4, <1>5, <1>6, <1>7, <1>a, AloneIntro DEF Busy

(* The answers of a player under initialization: it does not play yet.     *)
LEMMA FinishAlone ==
  ASSUME Typed, Books, Live, Alone, Books', ~orphaned, ~overlapped,
         NEW c \in Ctl, Initializing(c), NEW status \in {"ready", "failed"}, ctl' = Finished(c, status),
         op' = op, current' = current, currentAlias' = currentAlias,
         \A w \in Widget : /\ card'[w].mounted = card[w].mounted /\ card'[w].controller = card[w].controller
                           /\ card'[w].isPlaying = card[w].isPlaying
  PROVE  Alone'
<1>1. ctl[c].status = "creating"
  BY LiveFacts DEF InitLive, Initializing
<1>f. /\ \A d \in Ctl : /\ ctl'[d].owner = ctl[d].owner /\ ctl'[d].disposed = ctl[d].disposed
                        /\ ctl'[d].playing = ctl[d].playing
      /\ \A d \in Ctl \ {c} : ctl'[d] = ctl[d]
  BY FinishedTypes
<1>2. \A w \in Widget : Shown(w)'
  BY <1>f, AloneFacts DEF Shown
<1>3. \A d \in Ctl : ctl[d].status = "ready" => ctl'[d] = ctl[d]
  BY <1>1, <1>f
<1> QED BY <1>f, <1>2, <1>3, AloneKept

(* A range request error keeps Alone: the card showed nothing.             *)
LEMMA InitRangeErrorAlone ==
  ASSUME Typed, Books, Live, Alone, Books', ~orphaned, ~orphaned', ~overlapped, NEW c \in Ctl, InitRangeError(c)
  PROVE  Alone'
<1> DEFINE w == ctl[c].owner
<1>t. /\ card \in [Widget -> Card] /\ ctl \in [Ctl -> Controller] /\ op \in [Op -> Operation]
      /\ 0 \notin Ctl /\ w \in Widget
  BY TypesOf, Facts DEF InitRangeError, Types
<1>p. PICK d \in Ctl :
        /\ d = made + 1
        /\ ctl' = [ctl EXCEPT ![c].status = "failed", ![d] = [Unused EXCEPT !.owner = w, !.status = "creating"]]
        /\ card' = [card EXCEPT ![w].controller = d, ![w].retryCount = 1]
        /\ op' = [o \in Op |-> IF op[o].pc = "initialize" /\ op[o].ctl = c THEN [op[o] EXCEPT !.ctl = d] ELSE op[o]]
  BY DEF InitRangeError
<1>a. current' = current /\ currentAlias' = currentAlias /\ init[c] = "initialize" /\ Mounted(w)
  BY DEF InitRangeError, manager
<1>c. ctl[c].status = "creating" /\ card[w].controller = c
  BY <1>a, LiveFacts DEF InitLive
<1>d. ctl[d].status = "unused"
  <2>1. made \in Nat
    BY Facts
  <2> QED BY <2>1, <1>p DEF Books
<1>0. /\ \A v \in Widget : Shown(v)
      /\ \A x \in Ctl : Current(x)
  BY AloneFacts
<1>h. PICK h : h = [card[w] EXCEPT !.controller = d, !.retryCount = 1]
  OBVIOUS
<1>j. h.mounted = card[w].mounted /\ h.isPlaying = card[w].isPlaying
  BY <1>h, <1>t DEF Card
<1>m. card'[w] = h /\ \A v \in Widget \ {w} : card'[v] = card[v]
  <2>1. card' = [card EXCEPT ![w] = h]
    BY <1>p, <1>h, <1>t
  <2> QED BY <2>1, <1>t
<1>f. (\A x \in Ctl \ {c, d} : ctl'[x] = ctl[x]) /\ ~ctl'[c].playing /\ ~ctl'[d].playing
  <2>1. PICK k, n : /\ k = [ctl[c] EXCEPT !.status = "failed"]
                    /\ n = [Unused EXCEPT !.owner = w, !.status = "creating"]
    OBVIOUS
  <2>2. k.playing = ctl[c].playing /\ ctl[c].playing = FALSE
    <3>1. ctl[c] \in Controller
      BY <1>t
    <3> QED BY <2>1, <3>1, <1>0, <1>c DEF Current, Controller
  <2>3. n.playing = FALSE
    BY <2>1 DEF Unused
  <2>4. ctl' = [ctl EXCEPT ![c] = k, ![d] = n] /\ c # d
    BY <2>1, <1>p, <1>t, <1>c, <1>d
  <2>5. ctl'[c] = k /\ ctl'[d] = n /\ \A x \in Ctl \ {c, d} : ctl'[x] = ctl[x]
    BY <2>4, <1>t
  <2> QED BY <2>2, <2>3, <2>5
<1>w. ctl[c].owner = w
  OBVIOUS
<1> HIDE DEF w
<1>1. ASSUME NEW v \in Widget PROVE Shown(v)'
  <2>1. CASE v = w
    <3>1. ~card[w].isPlaying
      BY <1>0, <1>a, <1>c, <1>t DEF Shown, Current, Mounted
    <3> QED BY <2>1, <3>1, <1>m, <1>j DEF Shown
  <2>2. CASE v # w
    <3>1. card'[v] = card[v] /\ Shown(v)
      BY <2>2, <1>m, <1>0
    <3>2. \A x \in Ctl : ctl[x].playing => ctl'[x] = ctl[x]
      BY <1>0, <1>c, <1>d, <1>f DEF Current
    <3> QED BY <3>1, <3>2 DEF Shown
  <2> QED BY <2>1, <2>2
<1>2. \A x \in Ctl : ctl'[x].playing => ctl[x].playing
  BY <1>f
<1>3. \A x \in Ctl : ctl[x].status = "ready" => ctl'[x] = ctl[x]
  BY <1>c, <1>d, <1>f
<1>4. ASSUME NEW x \in Ctl, NEW v \in Widget, ctl[x].status = "ready", ctl[x].owner = v, card[v].controller \in {0, x}
      PROVE  card'[v].controller \in {0, x}
  <2>1. v # w
    BY <1>4, <1>c, <1>t
  <2> QED BY <1>4, <2>1, <1>m
<1>5. ASSUME NEW o \in Op
      PROVE  op'[o].pc = op[o].pc /\ (op[o].pc # "initialize" => op'[o] = op[o])
  <2>1. op'[o] = op[o] \/ (op'[o] = [op[o] EXCEPT !.ctl = d] /\ op[o].pc = "initialize")
    BY <1>p
  <2>2. op[o] \in Operation
    BY <1>t
  <2> QED BY <2>1, <2>2 DEF Operation
<1> QED BY <1>1, <1>2, <1>3, <1>4, <1>5, <1>a, AloneKept

(* The list is left: no card is mounted, so that nothing played any more.  *)
LEMMA CloseListAlone ==
  ASSUME Typed, Books, Live, Alone, Books', ~orphaned, ~overlapped, CloseList
  PROVE  Alone'
<1>a. /\ \A w \in Widget : ~Mounted(w)
      /\ card' = card /\ op' = op
      /\ ctl' = [c \in Ctl |-> IF \E a \in Alias : registered[a] = c
                               THEN [ctl[c] EXCEPT !.disposed = TRUE, !.playing = FALSE] ELSE ctl[c]]
  BY DEF CloseList
<1>t. /\ ctl \in [Ctl -> Controller] /\ 0 \notin Ctl
      /\ \A d \in Ctl : ctl[d].status # "unused" => ctl[d].owner \in Widget
      /\ \A w \in Widget : card[w].mounted \in {"new", "yes", "no"} /\ (card[w].mounted = "new" => card[w].controller = 0)
  <2>1. \A w \in Widget : card[w].mounted \in {"new", "yes", "no"}
    BY TypesOf DEF Types, Card
  <2> QED BY <2>1, Facts DEF Books
<1>f. ASSUME NEW c \in Ctl
      PROVE  /\ ctl'[c].owner = ctl[c].owner /\ ctl'[c].status = ctl[c].status
             /\ ctl'[c].playing => ctl[c].playing
             /\ ~ctl'[c].disposed => ~ctl[c].disposed
  <2>1. ctl[c] \in Controller
    BY <1>t
  <2>2. CASE \E a \in Alias : registered[a] = c
    <3>1. ctl'[c] = [ctl[c] EXCEPT !.disposed = TRUE, !.playing = FALSE]
      BY <1>a, <2>2
    <3> QED BY <2>1, <3>1 DEF Controller
  <2>3. CASE ~\E a \in Alias : registered[a] = c
    <3>1. ctl'[c] = ctl[c]
      BY <1>a, <2>3
    <3> QED BY <3>1
  <2> QED BY <2>2, <2>3
<1>s. card' = card /\ op' = op /\ \A w \in Widget : ~Mounted(w)
  BY <1>a
<1>1. \A c \in Ctl : ctl[c].status = "ready" => ctl[c].disposed
  BY <1>s, <1>t, LiveFacts DEF CtlLive
<1>2. \A w \in Widget : Shown(w)'
  BY <1>s, <1>t, AloneFacts DEF Shown, Mounted
<1>3. \A d \in Ctl : ctl[d].status = "ready" /\ ~ctl'[d].disposed /\ current = d =>
        current' = current /\ currentAlias' = currentAlias
  BY <1>1, <1>f
<1>4. \A d \in Ctl : ctl'[d].playing => ctl[d].playing
  BY <1>f
<1>5. \A d \in Ctl : ctl[d].status = "ready" =>
        /\ ctl'[d].status = "ready" /\ ctl'[d].owner = ctl[d].owner
        /\ ~ctl'[d].disposed => ~ctl[d].disposed
  BY <1>f
<1> QED BY <1>2, <1>3, <1>4, <1>5, <1>s, AloneKept

(* A video is over, and its card follows.                                  *)
LEMMA CompletedAlone ==
  ASSUME Typed, Books, Live, Alone, Books', ~orphaned, ~overlapped, NEW c \in Ctl, Completed(c)
  PROVE  Alone'
<1>a. /\ SetPlaying({}, {c}) /\ {c} \in SUBSET Ctl /\ {} \in SUBSET Ctl
      /\ op' = op /\ current' = current /\ currentAlias' = currentAlias
  BY DEF Completed, manager
<1>f. /\ \A d \in Ctl : /\ ctl'[d].owner = ctl[d].owner /\ ctl'[d].status = ctl[d].status
                        /\ ctl'[d].disposed = ctl[d].disposed
                        /\ ctl'[d].playing <=> ctl[d].playing /\ d # c
      /\ \A v \in Widget : /\ card'[v].mounted = card[v].mounted
                           /\ card'[v].controller = card[v].controller
                           /\ Mounted(v) /\ card[v].controller = c => ~card'[v].isPlaying
                           /\ ~(Mounted(v) /\ card[v].controller = c) => card'[v] = card[v]
  BY <1>a, PausedPlayers
<1>1. ASSUME NEW v \in Widget PROVE Shown(v)'
  <2>1. CASE Mounted(v) /\ card[v].controller = c
    BY <1>f, <2>1 DEF Shown
  <2>2. CASE ~(Mounted(v) /\ card[v].controller = c)
    <3>1. card'[v] = card[v] /\ Shown(v)
      BY <1>f, <2>2, AloneFacts
    <3>2. card[v].mounted = "new" => card[v].controller = 0
      BY DEF Books
    <3>3. card[v].mounted \in {"new", "yes", "no"} /\ 0 \notin Ctl
      BY TypesOf DEF Types, Card
    <3>4. \A d \in Ctl : ctl[d].playing /\ d # c => ctl'[d].playing
      BY <1>f
    <3> QED BY <2>2, <3>1, <3>2, <3>3, <3>4 DEF Shown, Mounted
  <2> QED BY <2>1, <2>2
<1>2. \A d \in Ctl : ctl'[d].playing => ctl[d].playing
  BY <1>f
<1> QED BY <1>a, <1>f, <1>1, <1>2, AloneKept

(* Another notification: the card shows what its player does.              *)
LEMMA NotifiedAlone ==
  ASSUME Typed, Books, Live, Alone, Books', ~orphaned, ~overlapped, NEW w \in Widget, Notified(w)
  PROVE  Alone'
<1>1. PICK h : h = [card[w] EXCEPT !.isPlaying = ctl[card[w].controller].playing]
  OBVIOUS
<1>2. card' = [card EXCEPT ![w] = h] /\ ctl' = ctl /\ op' = op /\ current' = current /\ currentAlias' = currentAlias
      /\ card[w].controller # 0
  BY <1>1 DEF Notified, manager
<1>3. card \in [Widget -> Card] /\ card[w].controller \in Ctl \cup {0}
  BY Facts
<1>4. h.mounted = card[w].mounted /\ h.controller = card[w].controller /\ h.isPlaying = ctl[card[w].controller].playing
  BY <1>1, <1>3 DEF Card
<1>5. card'[w] = h /\ \A v \in Widget \ {w} : card'[v] = card[v]
  BY <1>2, <1>3
<1>6. \A v \in Widget : Shown(v)'
  BY <1>2, <1>3, <1>4, <1>5, AloneFacts DEF Shown
<1>7. \A v \in Widget : card'[v].controller = card[v].controller
  BY <1>4, <1>5
<1> QED BY <1>2, <1>6, <1>7, AloneKept

(* A tap goes on after its initialization.                                 *)
LEMMA TapInitializedAlone ==
  ASSUME Typed, Books, Live, Alone, ~orphaned, ~overlapped, NEW o \in Op, TapInitialized(o)
  PROVE  Alone'
<1> DEFINE w == op[o].widget
           c == card[w].controller
<1>t. w \in Widget /\ c \in Ctl \cup {0} /\ 0 \notin Ctl
  BY Facts DEF TapInitialized, Typed
<1>0. (\A p \in Op : OpAlone(p)) /\ CardLive(w) /\ Shown(w) /\ (\A v \in Widget : Shown(v)) /\ \A d \in Ctl : Current(d)
  BY <1>t, AloneFacts, LiveFacts
<1>o. \A p \in Op \ {o} : op[p].pc = "idle"
  BY <1>0 DEF OpAlone, TapInitialized
<1>i. Initialized(c) => c \in Ctl /\ ctl[c].status = "ready"
  BY <1>t DEF Initialized
<1>1. CASE Initialized(c) /\ ~card[w].isPlaying
  <2>1. StartPlaying(o, w, c)
    BY <1>1 DEF TapInitialized
  <2>2. c \in Ctl /\ ctl[c].status = "ready" /\ ctl[c].owner = w
    BY <1>1, <1>0, <1>i, <1>t DEF CardLive
  <2>3. w \in Widget \cup {None} /\ card[w].controller = c
    BY <1>t
  <2> HIDE DEF c, w
  <2> QED BY <2>1, <2>2, <2>3, <1>t, <1>o, StartPlayingAlone
<1>2. CASE Initialized(c) /\ card[w].isPlaying
  <2>1. SetPlaying({}, {c}) /\ Goto(o, "pauseOwn", w, c)
    BY <1>2 DEF TapInitialized
  <2>2. c \in Ctl /\ w \in Widget \cup {None}
    BY <1>2, <1>i, <1>t
  <2>3. ctl[c].playing
    BY <1>0, <1>2, <2>2, <1>t DEF Shown, CardLive, Mounted
  <2> HIDE DEF c, w
  <2> QED BY <2>1, <2>2, <2>3, <1>o, PauseAlone
<1>3. CASE ~Initialized(c)
  <2>1. End(o) /\ ctl' = ctl /\ card' = card /\ current' = current /\ currentAlias' = currentAlias
    BY <1>3 DEF TapInitialized, manager
  <2>2. op'[o].pc = "idle" /\ \A p \in Op \ {o} : op'[p] = op[p]
    BY <2>1, OpTypes
  <2>3. OpAlone(o)'
    BY <2>2 DEF OpAlone
  <2>4. (\A v \in Widget : Shown(v)') /\ \A d \in Ctl : Current(d)'
    BY <2>1, <1>0 DEF Shown, Current
  <2> QED BY <2>2, <2>3, <2>4, <1>o, AloneIntro
<1> QED BY <1>1, <1>2, <1>3

(* The other videos are paused: this one becomes current.                  *)
LEMMA OthersPausedAlone ==
  ASSUME Typed, Books, Live, Alone, ~orphaned, ~overlapped, NEW o \in Op, OthersPaused(o)
  PROVE  Alone'
<1> DEFINE c == op[o].ctl
           w == op[o].widget
<1>0. (\A p \in Op : OpAlone(p)) /\ (\A v \in Widget : Shown(v)) /\ \A d \in Ctl : Current(d)
  BY AloneFacts
<1>a. /\ op[o].pc = "pauseOthers" /\ SetCurrent(c) /\ ctl' = ctl /\ card' = card
      /\ End(o) \/ Goto(o, "seek", w, c)
  BY DEF OthersPaused
<1>1. /\ c \in Ctl /\ ctl[c].status = "ready" /\ \A d \in Ctl : ctl[d].playing => d = c
      /\ w # None => w \in Widget /\ ctl[c].owner = w /\ card[w].controller \in {0, c}
  BY <1>0, <1>a DEF OpAlone
<1>w. w \in Widget \cup {None}
  BY <1>1
<1>o. \A p \in Op \ {o} : op[p].pc = "idle"
  BY <1>0, <1>a DEF OpAlone
<1> HIDE DEF c, w
<1>2. ~ctl[c].disposed => current' = c /\ currentAlias' = AliasOf[ctl[c].owner]
  BY <1>a, <1>1, SetCurrentAlias
<1>3. /\ op'[o].pc = "idle" \/ (op'[o].pc = "seek" /\ op'[o].ctl = c /\ op'[o].widget = w)
      /\ \A p \in Op \ {o} : op'[p] = op[p]
  <2>1. CASE End(o)
    BY <2>1, OpTypes
  <2>2. CASE Goto(o, "seek", w, c)
    BY <2>2, <1>1, <1>w, OpTypes
  <2> QED BY <1>a, <2>1, <2>2
<1>4. OpAlone(o)'
  <2>1. CASE op'[o].pc = "idle"
    BY <2>1 DEF OpAlone
  <2>2. CASE op'[o].pc = "seek" /\ op'[o].ctl = c /\ op'[o].widget = w
    <3>1. \A p \in Op : op'[p].pc # "idle" => o = p
      BY <1>3, <1>o
    <3> QED BY <2>2, <3>1, <1>1, <1>2, <1>a DEF OpAlone
  <2> QED BY <1>3, <2>1, <2>2
<1>5. \A d \in Ctl : Current(d)'
  BY <1>a, <1>1, <1>2 DEF Current, Books
<1>6. \A v \in Widget : Shown(v)'
  BY <1>a, <1>0 DEF Shown
<1> QED BY <1>3, <1>4, <1>5, <1>6, <1>o, AloneIntro

(* The rewound video plays, unless it is disposed.                         *)
LEMMA SoughtAlone ==
  ASSUME Typed, Books, Live, Alone, ~orphaned, ~overlapped, NEW o \in Op, Sought(o)
  PROVE  Alone'
<1> DEFINE c == op[o].ctl
           w == op[o].widget
<1>0. (\A p \in Op : OpAlone(p)) /\ (\A v \in Widget : Shown(v)) /\ \A d \in Ctl : Current(d)
  BY AloneFacts
<1>on. PICK on : on = {d \in Ctl : d = Target(o) /\ ~ctl[d].disposed}
  OBVIOUS
<1>a. /\ op[o].pc = "seek" /\ End(o) /\ SetPlaying(on, {})
      /\ current' = current /\ currentAlias' = currentAlias
  BY <1>on DEF Sought, manager
<1>1. /\ c \in Ctl /\ ctl[c].status = "ready" /\ (\A d \in Ctl : ctl[d].playing => d = c)
      /\ ~ctl[c].disposed => current = c /\ currentAlias = AliasOf[ctl[c].owner]
      /\ w # None => card[w].controller \in {0, c}
  BY <1>0, <1>a DEF OpAlone
<1>o. \A p \in Op \ {o} : op[p].pc = "idle"
  BY <1>0, <1>a DEF OpAlone
<1>2. \A d \in on : d \in Ctl /\ d = c /\ ~ctl[d].disposed
  <2>1. Target(o) \in {0, c} /\ 0 \notin Ctl
    BY <1>1, Facts DEF Target
  <2> QED BY <2>1, <1>on
<1> HIDE DEF c, w
<1>3. op'[o].pc = "idle" /\ \A p \in Op \ {o} : op'[p] = op[p]
  BY <1>a, OpTypes
<1>4. OpAlone(o)'
  BY <1>3 DEF OpAlone
<1>e. on \in SUBSET Ctl
  BY <1>2
<1>f. /\ \A d \in Ctl : /\ ctl'[d].owner = ctl[d].owner /\ ctl'[d].status = ctl[d].status
                        /\ ctl'[d].playing <=> ctl[d].playing \/ d \in on
      /\ \A v \in Widget : /\ card'[v].mounted = card[v].mounted
                           /\ card'[v].controller = card[v].controller
                           /\ ~(Mounted(v) /\ card[v].controller \in on) => card'[v] = card[v]
  BY <1>a, <1>e, StartedPlayers
<1>p. \A d \in Ctl : ctl'[d].playing <=> ctl[d].playing \/ d \in on
  BY <1>f
<1>5. ASSUME NEW d \in Ctl PROVE Current(d)'
  <2>1. CASE d \in on
    BY <2>1, <1>1, <1>2, <1>a, <1>f DEF Current
  <2>2. CASE d \notin on
    BY <2>2, <1>0, <1>p, <1>a, <1>f DEF Current
  <2> QED BY <2>1, <2>2
<1>6. ASSUME NEW v \in Widget PROVE Shown(v)'
  <2>1. CASE Mounted(v) /\ card[v].controller \in on
    BY <2>1, <1>f, <1>p, <1>2 DEF Shown
  <2>2. CASE ~(Mounted(v) /\ card[v].controller \in on)
    <3>1. card'[v] = card[v] /\ Shown(v)
      BY <2>2, <1>f, <1>0
    <3> QED BY <3>1, <1>p DEF Shown
  <2> QED BY <2>1, <2>2
<1> QED BY <1>3, <1>4, <1>5, <1>6, <1>o, AloneIntro

(* After a pause nothing is current, and nothing plays.                    *)
LEMMA PausedAlone ==
  ASSUME Typed, Books, Live, Alone, ~orphaned, ~overlapped, NEW o \in Op, Paused(o)
  PROVE  Alone'
<1>0. (\A p \in Op : OpAlone(p)) /\ (\A v \in Widget : Shown(v)) /\ \A d \in Ctl : Current(d)
  BY AloneFacts
<1>a. op[o].pc \in {"pauseOwn", "stop"} /\ End(o) /\ ctl' = ctl /\ card' = card
  BY DEF Paused
<1>1. (\A d \in Ctl : ~ctl[d].playing) /\ \A p \in Op \ {o} : op[p].pc = "idle"
  BY <1>0, <1>a DEF OpAlone
<1>2. op'[o].pc = "idle" /\ \A p \in Op \ {o} : op'[p] = op[p]
  BY <1>a, OpTypes
<1>3. OpAlone(o)' /\ \A d \in Ctl : Current(d)'
  BY <1>1, <1>2, <1>a DEF OpAlone, Current
<1>4. \A v \in Widget : Shown(v)'
  BY <1>a, <1>0 DEF Shown
<1> QED BY <1>1, <1>2, <1>3, <1>4, AloneIntro

(* The history variables never become false again.                         *)
LEMMA HistoryGrows ==
  ASSUME [Next]_vars
  PROVE  (orphaned => orphaned') /\ (overlapped => overlapped')
<1>1. ASSUME NEW w \in Widget, Mount(w) PROVE (orphaned => orphaned') /\ (overlapped => overlapped')
  BY <1>1 DEF Mount, history
<1>2. ASSUME NEW w \in Widget, Unmount(w) PROVE (orphaned => orphaned') /\ (overlapped => overlapped')
  BY <1>2 DEF Unmount, history
<1>3. ASSUME NEW w \in Widget, UpdateWidget(w) PROVE (orphaned => orphaned') /\ (overlapped => overlapped')
  BY <1>3 DEF UpdateWidget, history
<1>4. ASSUME NEW w \in Widget, Notified(w) PROVE (orphaned => orphaned') /\ (overlapped => overlapped')
  BY <1>4 DEF Notified, history
<1>5. ASSUME CloseList PROVE (orphaned => orphaned') /\ (overlapped => overlapped')
  BY <1>5 DEF CloseList, history
<1>6. ASSUME NEW c \in Ctl, InitUnmounted(c) PROVE (orphaned => orphaned') /\ (overlapped => overlapped')
  BY <1>6 DEF InitUnmounted, history
<1>7. ASSUME NEW c \in Ctl, InitOk(c) PROVE (orphaned => orphaned') /\ (overlapped => overlapped')
  BY <1>7 DEF InitOk, history
<1>8. ASSUME NEW c \in Ctl, InitDetached(c) PROVE (orphaned => orphaned') /\ (overlapped => overlapped')
  BY <1>8 DEF InitDetached, Caught, history
<1>9. ASSUME NEW c \in Ctl, InitFailed(c) PROVE (orphaned => orphaned') /\ (overlapped => overlapped')
  BY <1>9 DEF InitFailed, Caught, history
<1>10. ASSUME NEW c \in Ctl, InitRangeError(c) PROVE (orphaned => orphaned') /\ (overlapped => overlapped')
  BY <1>10 DEF InitRangeError, history
<1>11. ASSUME NEW c \in Ctl, RetryDelayed(c) PROVE (orphaned => orphaned') /\ (overlapped => overlapped')
  BY <1>11 DEF RetryDelayed, history
<1>12. ASSUME NEW c \in Ctl, Completed(c) PROVE (orphaned => orphaned') /\ (overlapped => overlapped')
  BY <1>12 DEF Completed, history
<1>13. ASSUME NEW w \in Widget, NEW o \in Op, TapInitialize(w, o) PROVE (orphaned => orphaned') /\ (overlapped => overlapped')
  BY <1>13 DEF TapInitialize, Begin, history
<1>14. ASSUME NEW w \in Widget, NEW o \in Op, TapPlay(w, o) PROVE (orphaned => orphaned') /\ (overlapped => overlapped')
  BY <1>14 DEF TapPlay, Begin, history
<1>15. ASSUME NEW w \in Widget, NEW o \in Op, TapPause(w, o) PROVE (orphaned => orphaned') /\ (overlapped => overlapped')
  BY <1>15 DEF TapPause, Begin, history
<1>16. ASSUME NEW a \in Alias, NEW o \in Op, Autoplay(a, o) PROVE (orphaned => orphaned') /\ (overlapped => overlapped')
  BY <1>16 DEF Autoplay, Begin, history
<1>17. ASSUME NEW o \in Op, Stop(o) PROVE (orphaned => orphaned') /\ (overlapped => overlapped')
  BY <1>17 DEF Stop, Begin, history
<1>18. ASSUME NEW o \in Op, TapInitialized(o) PROVE (orphaned => orphaned') /\ (overlapped => overlapped')
  BY <1>18 DEF TapInitialized, history
<1>19. ASSUME NEW o \in Op, OthersPaused(o) PROVE (orphaned => orphaned') /\ (overlapped => overlapped')
  BY <1>19 DEF OthersPaused, history
<1>20. ASSUME NEW o \in Op, Sought(o) PROVE (orphaned => orphaned') /\ (overlapped => overlapped')
  BY <1>20 DEF Sought, history
<1>21. ASSUME NEW o \in Op, Paused(o) PROVE (orphaned => orphaned') /\ (overlapped => overlapped')
  BY <1>21 DEF Paused, history
<1>22. CASE UNCHANGED vars
  BY <1>22 DEF vars, history
<1> QED
  BY <1>1, <1>2, <1>3, <1>4, <1>5, <1>6, <1>7, <1>8, <1>9, <1>10, <1>11, <1>12, <1>13, <1>14, <1>15, <1>16, <1>17, <1>18, <1>19, <1>20, <1>21, <1>22 DEF Next

(* Every step keeps Alone.                                                *)
LEMMA AloneNext == Typed /\ Books /\ Live /\ Alone /\ Books' /\ [Next]_vars => Alone'
<1> SUFFICES ASSUME Typed, Books, Live, Alone, Books', [Next]_vars, ~orphaned', ~overlapped' PROVE Alone'
  BY DEF Alone
<1>h. ~orphaned /\ ~overlapped
  BY HistoryGrows
<1>t. /\ card \in [Widget -> Card] /\ 0 \notin Ctl /\ registered \in [Alias -> Ctl \cup {0}]
      /\ \A v \in Widget : card[v].controller \in Ctl \cup {0}
  BY Facts
<1>0. /\ \A v \in Widget : Shown(v) /\ CardLive(v)
      /\ \A d \in Ctl : Current(d) /\ InitLive(d)
      /\ \A a \in Alias : Entry(a)
  BY <1>h, AloneFacts, LiveFacts
<1>1. ASSUME NEW w \in Widget, Mount(w) PROVE Alone'
  BY <1>1, <1>h, MountAlone
<1>2. ASSUME NEW w \in Widget, Unmount(w) PROVE Alone'
  <2>1. PICK h : h = [card[w] EXCEPT !.mounted = "no"]
    OBVIOUS
  <2>2. h \in Card /\ h.mounted = "no"
    BY <2>1, <1>t DEF Card
  <2>3. Mounted(w) /\ Release(w, h) /\ op' = op
    BY <1>2, <2>1 DEF Unmount
  <2> QED BY <2>2, <2>3, <1>h, ReleaseAlone
<1>3. ASSUME NEW w \in Widget, UpdateWidget(w) PROVE Alone'
  <2>1. PICK h : h = [card[w] EXCEPT !.isPlayerInitialized = FALSE, !.isInitializing = FALSE]
    OBVIOUS
  <2>2. h \in Card /\ ~h.isPlaying
    <3>1. card[w] \in Card /\ ~card[w].isPlaying
      BY <1>3, <1>t DEF UpdateWidget
    <3> QED BY <2>1, <3>1 DEF Card
  <2>3. Mounted(w) /\ Release(w, h) /\ op' = op
    BY <1>3, <2>1 DEF UpdateWidget
  <2> QED BY <2>2, <2>3, <1>h, ReleaseAlone
<1>4. ASSUME CloseList PROVE Alone'
  BY <1>4, <1>h, CloseListAlone
<1>5. ASSUME NEW c \in Ctl, InitUnmounted(c) PROVE Alone'
  <2>1. Initializing(c) /\ ctl' = Finished(c, "ready") /\ op' = op /\ current' = current
        /\ currentAlias' = currentAlias /\ card' = card
    BY <1>5 DEF InitUnmounted, manager
  <2> QED BY <2>1, <1>h, FinishAlone
<1>6. ASSUME NEW c \in Ctl, InitOk(c) PROVE Alone'
  <2>1. PICK h : h = [card[ctl[c].owner] EXCEPT !.isInitializing = FALSE, !.hasError = FALSE, !.isPlayerInitialized = TRUE]
    OBVIOUS
  <2>2. ctl[c].owner \in Widget
    BY <1>6, Facts DEF InitOk, Initializing
  <2>3. h.mounted = card[ctl[c].owner].mounted /\ h.controller = card[ctl[c].owner].controller
        /\ h.isPlaying = card[ctl[c].owner].isPlaying
    BY <2>1, <2>2, <1>t DEF Card
  <2>4. card' = [card EXCEPT ![ctl[c].owner] = h]
    BY <1>6, <2>1, <2>2, <1>t DEF InitOk
  <2>5. \A v \in Widget : /\ card'[v].mounted = card[v].mounted /\ card'[v].controller = card[v].controller
                          /\ card'[v].isPlaying = card[v].isPlaying
    BY <2>2, <2>3, <2>4, <1>t
  <2>6. Initializing(c) /\ ctl' = Finished(c, "ready") /\ op' = op /\ current' = current /\ currentAlias' = currentAlias
    BY <1>6 DEF InitOk
  <2> QED BY <2>5, <2>6, <1>h, FinishAlone
<1>c. ASSUME NEW c \in Ctl, NEW status \in {"ready", "failed"}, Initializing(c), ctl' = Finished(c, status), Caught(c)
      PROVE  Alone'
  <2>1. \A v \in Widget : /\ card'[v].mounted = card[v].mounted /\ card'[v].controller = card[v].controller
                          /\ card'[v].isPlaying = card[v].isPlaying
    BY <1>c, CaughtTypes DEF Initializing
  <2>2. op' = op /\ current' = current /\ currentAlias' = currentAlias
    BY <1>c DEF Caught, manager
  <2> QED BY <2>1, <2>2, <1>c, <1>h, FinishAlone
<1>7. ASSUME NEW c \in Ctl, InitDetached(c) PROVE Alone'
  BY <1>7, <1>c DEF InitDetached
<1>8. ASSUME NEW c \in Ctl, InitFailed(c) PROVE Alone'
  BY <1>8, <1>c DEF InitFailed
<1>9. ASSUME NEW c \in Ctl, InitRangeError(c) PROVE Alone'
  BY <1>9, <1>h, InitRangeErrorAlone
<1>s. ASSUME ctl' = ctl, card' = card, op' = op, current' = current, currentAlias' = currentAlias PROVE Alone'
  <2>1. \A v \in Widget : Shown(v)'
    BY <1>s, <1>0 DEF Shown
  <2> QED BY <2>1, <1>s, <1>h, AloneKept
<1>10. ASSUME NEW c \in Ctl, RetryDelayed(c) PROVE Alone'
  <2>1. InitLive(c)
    BY <1>0
  <2>2. ~(Mounted(ctl[c].owner) /\ MayInitialize(ctl[c].owner))
    BY <1>10, <2>1 DEF RetryDelayed, InitLive, MayInitialize
  <2> QED BY <1>10, <2>2, <1>s DEF RetryDelayed, manager
<1>11. ASSUME NEW c \in Ctl, Completed(c) PROVE Alone'
  BY <1>11, <1>h, CompletedAlone
<1>12. ASSUME NEW w \in Widget, Notified(w) PROVE Alone'
  BY <1>12, <1>h, NotifiedAlone
<1>13. ASSUME NEW w \in Widget, NEW o \in Op, TapInitialize(w, o) PROVE Alone'
  BY <1>13, <1>h, TapInitializeAlone
<1>b. \A o \in Op : Begin(o) => \A p \in Op \ {o} : op[p].pc = "idle"
  BY DEF Begin, Busy
<1>14. ASSUME NEW w \in Widget, NEW o \in Op, TapPlay(w, o) PROVE Alone'
  <2>1. /\ Begin(o) /\ StartPlaying(o, w, card[w].controller) /\ card[w].controller \in Ctl
        /\ ctl[card[w].controller].status = "ready" /\ Mounted(w)
    BY <1>14, <1>t DEF TapPlay, Initialized
  <2>2. ctl[card[w].controller].owner = w /\ w \in Widget \cup {None}
    BY <2>1, <1>0, <1>t DEF CardLive
  <2> QED BY <2>1, <2>2, <1>b, <1>h, StartPlayingAlone
<1>15. ASSUME NEW w \in Widget, NEW o \in Op, TapPause(w, o) PROVE Alone'
  <2>1. /\ Begin(o) /\ SetPlaying({}, {card[w].controller}) /\ Goto(o, "pauseOwn", w, card[w].controller)
        /\ card[w].controller \in Ctl /\ Mounted(w) /\ card[w].isPlaying
    BY <1>15, <1>t DEF TapPause, Initialized
  <2>2. ctl[card[w].controller].playing /\ w \in Widget \cup {None}
    BY <2>1, <1>0 DEF Shown, Mounted
  <2> QED BY <2>1, <2>2, <1>b, <1>h, PauseAlone
<1>16. ASSUME NEW a \in Alias, NEW o \in Op, Autoplay(a, o) PROVE Alone'
  <2>1. Begin(o) /\ StartPlaying(o, None, registered[a]) /\ registered[a] \in Ctl /\ None \in Widget \cup {None}
    BY <1>16, <1>t DEF Autoplay
  <2>2. ctl[registered[a]].status = "ready"
    BY <2>1, <1>0, <1>t DEF Entry
  <2> QED BY <2>1, <2>2, <1>b, <1>h, StartPlayingAlone
<1>17. ASSUME NEW o \in Op, Stop(o) PROVE Alone'
  <2>1. /\ Begin(o) /\ SetPlaying({}, {current}) /\ Goto(o, "stop", None, current)
        /\ current \in Ctl /\ ctl[current].playing /\ None \in Widget \cup {None}
    BY <1>17, TypesOf DEF Stop, Types
  <2> QED BY <2>1, <1>b, <1>h, PauseAlone
<1>18. ASSUME NEW o \in Op, TapInitialized(o) PROVE Alone'
  BY <1>18, <1>h, TapInitializedAlone
<1>19. ASSUME NEW o \in Op, OthersPaused(o) PROVE Alone'
  BY <1>19, <1>h, OthersPausedAlone
<1>20. ASSUME NEW o \in Op, Sought(o) PROVE Alone'
  BY <1>20, <1>h, SoughtAlone
<1>21. ASSUME NEW o \in Op, Paused(o) PROVE Alone'
  BY <1>21, <1>h, PausedAlone
<1>22. CASE UNCHANGED vars
  BY <1>22, <1>s DEF vars, manager
<1> QED
  BY <1>1, <1>2, <1>3, <1>4, <1>5, <1>6, <1>7, <1>8, <1>9, <1>10, <1>11, <1>12, <1>13, <1>14, <1>15,
     <1>16, <1>17, <1>18, <1>19, <1>20, <1>21, <1>22 DEF Next

(* Nothing plays at the start.                                             *)
LEMMA InitAlone == Init => Alone
<1> SUFFICES ASSUME Init PROVE Alone
  OBVIOUS
<1>1. \A o \in Op : op[o].pc = "idle"
  BY DEF Init, NoOp
<1>2. \A w \in Widget : ~card[w].isPlaying
  BY DEF Init, NewCard
<1>3. \A c \in Ctl : ~ctl[c].playing
  BY DEF Init, Unused
<1> QED BY <1>1, <1>2, <1>3 DEF Alone, OpAlone, Shown, Current

(* So long as operations do not overlap, what plays is the manager's current
   video, whatever else is scrolled, initialized, retried or refreshed.    *)
THEOREM AlwaysCurrent == Spec => []PlayingIsCurrent
<1>1. Init => Alone
  BY InitAlone
<1>2. Typed /\ Books /\ Live /\ Alone /\ Books' /\ [Next]_vars => Alone'
  BY AloneNext
<1>3. Alone => PlayingIsCurrent
  BY DEF Alone, Current, PlayingIsCurrent, Playing
<1> QED BY <1>1, <1>2, <1>3, Agreement, PTL DEF Spec

(***************************************************************************)
(* No player is lost, and none starts beside another.                      *)
(***************************************************************************)

(* A player that is initialized is released, or will be: its card is on
   screen and holds it.                                                    *)
THEOREM NeverLosesPlayers == Spec => []NoPlayerLost
<1>1. Live => NoPlayerLost
  BY DEF Live, CtlLive, NoPlayerLost
<1> QED BY <1>1, Agreement, PTL

(* Nothing but the end of a rewind starts a player.                        *)
LEMMA OnlySoughtStarts ==
  ASSUME Typed, Next, NEW c \in Ctl, ctl'[c].playing, ~ctl[c].playing
  PROVE  \E o \in Op : Sought(o)
<1>t. /\ card \in [Widget -> Card] /\ ctl \in [Ctl -> Controller] /\ 0 \notin Ctl
      /\ current \in Ctl \cup {0} /\ op \in [Op -> Operation]
      /\ \A w \in Widget : card[w].controller \in Ctl \cup {0}
      /\ \A a \in Alias : registered[a] \in Ctl \cup {0}
  BY TypesOf DEF Types, Card
<1>m. PICK k : k = [ctl[c] EXCEPT !.disposed = TRUE, !.playing = FALSE]
  OBVIOUS
<1>n. k.playing = FALSE
  BY <1>t, <1>m DEF Controller
(* What the steps do to a player, but for the end of a rewind.             *)
<1>p. ASSUME NEW off \in SUBSET Ctl, SetPlaying({}, off) PROVE FALSE
  BY <1>p, PausedPlayers
<1>r. ASSUME NEW w \in Widget, NEW new, Release(w, new) PROVE FALSE
  <2>1. ctl'[c] = k \/ ctl'[c] = ctl[c]
    BY <1>m, <1>r DEF Release
  <2> QED BY <2>1, <1>n
<1>c. ASSUME NEW d \in Ctl, NEW x, ~x.playing, NEW f \in [Ctl -> Controller], \A e \in Ctl : f[e].playing = ctl[e].playing,
             ctl' = [f EXCEPT ![d] = x]
      PROVE  FALSE
  BY <1>c
<1>u. ASSUME NEW w \in Widget \cup {None}, NEW x, x = [Unused EXCEPT !.owner = w, !.status = "creating"] PROVE ~x.playing
  BY <1>u DEF Unused
<1>k. ASSUME NEW w \in Widget, NEW d \in Ctl, NEW new, Create(w, d, new) PROVE FALSE
  <2>1. PICK x : x = [Unused EXCEPT !.owner = w, !.status = "creating"]
    OBVIOUS
  <2>2. ctl' = [ctl EXCEPT ![d] = x] /\ ~x.playing
    BY <1>k, <1>u, <2>1 DEF Create
  <2> QED BY <1>t, <2>2, <1>c
<1>f. ASSUME NEW d \in Ctl, NEW status \in {"ready", "failed"}, ctl' = Finished(d, status) PROVE FALSE
  BY <1>f, FinishedTypes
<1>g. ASSUME NEW o \in Op, NEW w \in Widget \cup {None}, NEW d \in Ctl, StartPlaying(o, w, d) PROVE FALSE
  <2>1. Others(d) \in SUBSET Ctl
    BY <1>g, StartPlayingTypes
  <2>2. ctl' = ctl \/ SetPlaying({}, Others(d))
    BY <1>g DEF StartPlaying
  <2> HIDE DEF Others
  <2> QED BY <2>1, <2>2, <1>p
<1>1. ASSUME NEW w \in Widget, Mount(w) \/ Unmount(w) \/ UpdateWidget(w) \/ Notified(w) PROVE FALSE
  <2>1. ~(ctl' = ctl)
    OBVIOUS
  <2>2. CASE Mount(w)
    BY <2>1, <2>2, <1>k DEF Mount
  <2>3. CASE Unmount(w)
    BY <2>3, <1>r DEF Unmount
  <2>4. CASE UpdateWidget(w)
    BY <2>4, <1>r DEF UpdateWidget
  <2>5. CASE Notified(w)
    BY <2>1, <2>5 DEF Notified
  <2> QED BY <1>1, <2>2, <2>3, <2>4, <2>5
<1>2. ASSUME CloseList PROVE FALSE
  <2>1. ctl'[c] = k \/ ctl'[c] = ctl[c]
    BY <1>2, <1>m DEF CloseList
  <2> QED BY <2>1, <1>n
<1>3. ASSUME NEW d \in Ctl, InitUnmounted(d) \/ InitOk(d) \/ InitDetached(d) \/ InitFailed(d) PROVE FALSE
  <2>1. ctl' = Finished(d, "ready") \/ ctl' = Finished(d, "failed")
    BY <1>3 DEF InitUnmounted, InitOk, InitDetached, InitFailed
  <2> QED BY <2>1, <1>f
<1>4. ASSUME NEW d \in Ctl, InitRangeError(d) PROVE FALSE
  <2> DEFINE w == ctl[d].owner
  <2>1. PICK x, y : x = [Unused EXCEPT !.owner = w, !.status = "creating"] /\ y = [ctl[d] EXCEPT !.status = "failed"]
    OBVIOUS
  <2>2. y \in Controller /\ y.playing = ctl[d].playing /\ w \in Widget \cup {None}
    BY <2>1, <1>t DEF Controller
  <2>3. PICK e \in Ctl : ctl' = [[ctl EXCEPT ![d] = y] EXCEPT ![e] = x]
    <3>1. PICK e \in Ctl : ctl' = [ctl EXCEPT ![d].status = "failed",
                                             ![e] = [Unused EXCEPT !.owner = w, !.status = "creating"]]
      BY <1>4 DEF InitRangeError
    <3> QED BY <2>1, <3>1, <1>t
  <2>4. ~x.playing
    BY <1>u, <2>1, <2>2
  <2>5. PICK g : g = [ctl EXCEPT ![d] = y]
    OBVIOUS
  <2>6. g \in [Ctl -> Controller] /\ \A z \in Ctl : g[z].playing = ctl[z].playing
    BY <2>2, <2>5, <1>t
  <2> QED BY <2>3, <2>4, <2>5, <2>6, <1>c
<1>5. ASSUME NEW d \in Ctl, RetryDelayed(d) PROVE FALSE
  <2>1. init[d] # "none"
    BY <1>5 DEF RetryDelayed
  <2>2. ctl[d].owner \in Widget
    BY <2>1 DEF Typed
  <2> QED BY <1>5, <2>2, <1>k DEF RetryDelayed
<1>6. ASSUME NEW d \in Ctl, Completed(d) PROVE FALSE
  <2>1. {d} \in SUBSET Ctl
    OBVIOUS
  <2> QED BY <1>6, <2>1, <1>p DEF Completed
<1>7. ASSUME NEW w \in Widget, NEW o \in Op, TapInitialize(w, o) \/ TapPlay(w, o) \/ TapPause(w, o) PROVE FALSE
  <2>i. Initialized(card[w].controller) => card[w].controller \in Ctl /\ {card[w].controller} \in SUBSET Ctl
    BY <1>t DEF Initialized
  <2>1. CASE TapInitialize(w, o)
    BY <2>1, <1>k DEF TapInitialize
  <2>2. CASE TapPlay(w, o)
    BY <2>2, <2>i, <1>g DEF TapPlay
  <2>3. CASE TapPause(w, o)
    BY <2>3, <2>i, <1>p DEF TapPause
  <2> QED BY <1>7, <2>1, <2>2, <2>3
<1>8. ASSUME NEW a \in Alias, NEW o \in Op, Autoplay(a, o) PROVE FALSE
  <2>1. registered[a] \in Ctl /\ None \in Widget \cup {None}
    BY <1>8, <1>t DEF Autoplay
  <2> QED BY <1>8, <2>1, <1>g DEF Autoplay
<1>9. ASSUME NEW o \in Op, Stop(o) PROVE FALSE
  <2>1. {current} \in SUBSET Ctl
    BY <1>9, <1>t DEF Stop
  <2> QED BY <1>9, <2>1, <1>p DEF Stop
<1>10. ASSUME NEW o \in Op, TapInitialized(o) PROVE FALSE
  <2> DEFINE w == op[o].widget
             d == card[w].controller
  <2>1. w \in Widget
    BY <1>10 DEF TapInitialized, Typed
  <2>2. Initialized(d) => d \in Ctl /\ {d} \in SUBSET Ctl
    BY <2>1, <1>t DEF Initialized
  <2>3. (StartPlaying(o, w, d) /\ Initialized(d)) \/ (SetPlaying({}, {d}) /\ Initialized(d)) \/ ctl' = ctl
    BY <1>10 DEF TapInitialized
  <2> HIDE DEF w, d
  <2> QED BY <2>1, <2>2, <2>3, <1>g, <1>p
<1>11. ASSUME NEW o \in Op, OthersPaused(o) \/ Paused(o) PROVE FALSE
  BY <1>11 DEF OthersPaused, Paused
<1> QED BY <1>1, <1>2, <1>3, <1>4, <1>5, <1>6, <1>7, <1>8, <1>9, <1>10, <1>11 DEF Next

(* A rewind that ends has waited until nothing else plays.                 *)
LEMMA StartsAlone ==
  Typed /\ Alone /\ [Next]_vars =>
    [~overlapped' /\ ~orphaned' => \A c \in Playing' \ Playing : Playing = {}]_vars
<1> SUFFICES ASSUME Typed, Alone, Next, ~overlapped', ~orphaned', NEW c \in Playing' \ Playing
             PROVE  Playing = {}
  BY DEF vars
<1>0. (\A o \in Op : OpAlone(o)) /\ \A d \in Ctl : Current(d)
  BY HistoryGrows, AloneFacts
<1>1. c \in Ctl /\ ctl'[c].playing /\ ~(ctl[c].playing /\ ctl[c].status = "ready")
  BY DEF Playing
<1>2. ~ctl[c].playing
  BY <1>0, <1>1 DEF Current
<1>3. PICK o \in Op : Sought(o)
  BY <1>1, <1>2, OnlySoughtStarts
<1>4. op[o].pc = "seek" /\ op[o].ctl \in Ctl /\ (\A d \in Ctl : ctl[d].playing => d = op[o].ctl)
      /\ (op[o].widget # None => card[op[o].widget].controller \in {0, op[o].ctl})
  BY <1>0, <1>3 DEF Sought, OpAlone
<1>5. c = op[o].ctl
  <2>1. PICK on : on = {d \in Ctl : d = Target(o) /\ ~ctl[d].disposed}
    OBVIOUS
  <2>2. on \in SUBSET Ctl /\ SetPlaying(on, {})
    BY <1>3, <2>1 DEF Sought
  <2>3. c \in on
    BY <1>1, <1>2, <2>2, StartedPlayers
  <2>4. 0 \notin Ctl
    BY TypesOf DEF Types
  <2> QED BY <1>4, <2>1, <2>3, <2>4 DEF Target
<1> QED BY <1>2, <1>4, <1>5 DEF Playing

(* So long as operations do not overlap, a video starts in silence: no two
   are heard together, not even between two awaits.                        *)
THEOREM AlwaysStartsInSilence == Spec => StartsInSilence
<1>1. Init => Alone
  BY InitAlone
<1>2. Typed /\ Books /\ Live /\ Alone /\ Books' /\ [Next]_vars => Alone'
  BY AloneNext
<1> QED BY <1>1, <1>2, StartsAlone, Agreement, PTL DEF Spec, StartsInSilence
=============================================================================
