------------------------------ MODULE MCBaseLink ------------------------------
(* Instances of BaseLink for TLC. *)
EXTENDS BaseLinkClaims, TLC

CONSTANTS t1, t2

Two == Permutations({t1, t2})
=============================================================================
