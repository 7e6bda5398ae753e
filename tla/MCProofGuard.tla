---------------------------- MODULE MCProofGuard ----------------------------
(***************************************************************************)
(* Small instances of ProofGuard.  One key signs all requests; time is     *)
(* scaled so that a window is three units and a minute two.                *)
(***************************************************************************)
EXTENDS ProofGuard, TLC

CONSTANTS m1, m2, key, r1, r2

MCKeyOf == [m \in Signed |-> key]

MCSymmetry == Permutations({r1, r2}) \cup Permutations({m1, m2})
=============================================================================
