------------------------ MODULE MCSubmissionPipeline ------------------------
(***************************************************************************)
(* Small instances of SubmissionPipeline; what is counted is given in the  *)
(* configurations.                                                         *)
(***************************************************************************)
EXTENDS SubmissionPipeline, TLC

CONSTANTS s1, s2, s3, r1, r2, w1, w2

(* Requests are alike, and so are slots and keys; the temporal runs do      *)
(* without symmetry.                                                        *)
MCSymmetry == Permutations({r1, r2}) \cup Permutations({w1, w2})
              \cup Permutations({s1, s2, s3})
=============================================================================
