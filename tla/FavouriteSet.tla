----------------------------- MODULE FavouriteSet -----------------------------
(***************************************************************************)
(* What the catalogue promises about favourites: a set that a tap changes  *)
(* by the tapped item, and that refreshes, the writes they start and       *)
(* restarts leave alone.  An item is let go only when a refresh or a       *)
(* restart finds no row for it, and a restart forgets at most the taps     *)
(* that were still to be stored.                                           *)
(***************************************************************************)
CONSTANT Alias

VARIABLES
  favs,    \* the favourites
  unsure,  \* items about which nothing is promised until the next restart
  gone,    \* items without a row
  unsaved  \* items with a tap that is not stored

vars == <<favs, unsure, gone, unsaved>>

Init ==
  /\ gone \in SUBSET Alias /\ favs \in SUBSET (Alias \ gone)
  /\ unsure = {} /\ unsaved = {}

(* The favourites of s stay as they are, or lose those without a row.      *)
Kept(s) == \A a \in s : a \in favs' <=> a \in favs
Read(s) == \A a \in s : a \in favs' <=> a \in favs \ gone

(* A tap on a favourite takes it back.  On another item it makes a favourite,
   or nothing: an object may show a heart that another one of the item lost. *)
Tap(a) ==
  /\ a \in favs' => a \notin favs \/ a \in unsure'
  /\ Kept(Alias \ (unsure' \cup {a}))
  /\ unsure' \in {unsure, unsure \cup {a}}
  /\ unsaved' = unsaved \cup {a}
  /\ UNCHANGED gone

(* A tap is stored; another one of that item may still wait.               *)
Store(a) ==
  /\ a \in unsaved
  /\ Kept(Alias \ unsure)
  /\ gone' = gone \ {a} /\ unsaved' \in {unsaved, unsaved \ {a}}
  /\ UNCHANGED unsure

(* A catalogue is stored, of which items without a row come and go.        *)
Replace ==
  /\ gone' \in SUBSET Alias
  /\ unsure \subseteq unsure' /\ unsure' \subseteq unsure \cup (gone' \ gone)
  /\ Kept(Alias \ unsure')
  /\ UNCHANGED unsaved

(* The favourites are read again.                                          *)
Reload ==
  /\ Read(Alias \ unsure)
  /\ UNCHANGED <<unsure, gone, unsaved>>

Restart ==
  /\ Read(Alias \ (unsure \cup unsaved)) /\ favs' \cap gone = {}
  /\ unsure' = {} /\ unsaved' = {}
  /\ UNCHANGED gone

Next == Replace \/ Reload \/ Restart \/ \E a \in Alias : Tap(a) \/ Store(a)

Spec == Init /\ [][Next]_vars
=============================================================================
