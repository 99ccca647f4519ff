------------------------------ MODULE MCAudioList ------------------------------
(* Values of the constants of AudioList for TLC.                           *)
EXTENDS AudioList

CONSTANTS a, b

Lists == {<<a, b>>, <<b>>}
=============================================================================
