------------------------- MODULE MCReputationEngine -------------------------
(***************************************************************************)
(* A small instance of ReputationEngine: ann has a snapshot from the start *)
(* and audits ben's two submissions, until ben may audit hers.             *)
(***************************************************************************)
EXTENDS ReputationEngine

CONSTANTS ann, ben, s1, s2, s3, c1, c2

MCWorker == [s \in Subs |-> IF s = s3 THEN ann ELSE ben]
=============================================================================
