-------------------------- MODULE MCCredentialVault --------------------------
(***************************************************************************)
(* A small instance of CredentialVault: two tabs with two keys, or one tab *)
(* with three.                                                             *)
(***************************************************************************)
EXTENDS CredentialVault, TLC

CONSTANTS t1, t2, h1, h2

MCSymmetry == Permutations({t1, t2}) \cup Permutations({h1, h2})

(* Bounds: the last key is explored while the other tab is where it began,  *)
(* and a lost request with a careful user.                                  *)
MCBound ==
  /\ NextKey \in Keys \/ \E t \in Tabs : tab[t] = Page("connect", None) /\ Under(t) = {}
  /\ careful \/ losses = 0
=============================================================================
