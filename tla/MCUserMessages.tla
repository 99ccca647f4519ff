---------------------------- MODULE MCUserMessages ----------------------------
(* Values of the constants of UserMessages for TLC.                        *)
EXTENDS UserMessages, TLC

CONSTANTS m1, m2, m3, d1, p1

Empty == [msgs |-> <<>>, links |-> <<>>]
Stores == {<<m1>>, <<m1, m2>>}
=============================================================================
