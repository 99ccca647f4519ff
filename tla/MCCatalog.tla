------------------------------ MODULE MCCatalog ------------------------------
(* Values of the constants of Catalog for TLC.                             *)
EXTENDS Catalog, TLC, FiniteSets

CONSTANTS a1, a2, prod, staging, g1, g2

OneGroup == [a \in Alias |-> g1]
OwnGroup == [a \in Alias |-> IF a = a1 THEN g1 ELSE g2]
(* Staging lacks an item of production.                                    *)
TwoServers == [e \in Env |-> IF e = prod THEN {Alias} ELSE {{a1}}]
(* One server, whose catalogue loses or regains an item between refreshes. *)
OneServer == [e \in Env |-> {Alias, {a1}}]
=============================================================================
