---------------------------- MODULE MCClaimStore ----------------------------
(* Instances of ClaimStore for TLC.                                         *)
EXTENDS ClaimStore

CONSTANTS x, y, o1, o2

=============================================================================
