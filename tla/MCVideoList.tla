----------------------------- MODULE MCVideoList -----------------------------
(* Two items; the first one's card is unmounted and mounted again.         *)
EXTENDS VideoList, TLC
CONSTANTS a, b, a1, a2, b1
MCAliasOf == [w \in Widget |-> IF w = b1 THEN b ELSE a]
(* The two cards of the first item may change places.                      *)
Cards == Permutations({a1, a2})
=============================================================================
