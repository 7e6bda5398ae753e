------------------------------ MODULE MCFeedback ------------------------------
(***************************************************************************)
(* A small instance of Feedback: the names that the configuration uses.    *)
(***************************************************************************)
EXTENDS Feedback

CONSTANTS s1, r1, w1
=============================================================================
