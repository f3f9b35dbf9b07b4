---------------------------- MODULE MCFreeTrial ----------------------------
(***************************************************************************)
(* Instances of FreeTrial for TLC: one user with a grant of one unit.      *)
(***************************************************************************)
EXTENDS FreeTrial, TLC

CONSTANTS ali, sara

MCGrant    == [u \in Users |-> IF u = sara THEN 1 ELSE 0]
MCSymmetry == Permutations(Claims) \cup Permutations(Handlers)
=============================================================================
