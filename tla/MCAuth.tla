------------------------------- MODULE MCAuth --------------------------------
(* Auth with the accounts of an administrator and of a user.               *)
EXTENDS Auth
CONSTANTS boss, guest
=============================================================================
