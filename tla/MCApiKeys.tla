------------------------------ MODULE MCApiKeys ------------------------------
(***************************************************************************)
(* Small instances of ApiKeys: the names that the configurations use.      *)
(***************************************************************************)
EXTENDS ApiKeys

CONSTANTS ann, ben, k1, k2, k3, r1, r2
=============================================================================
