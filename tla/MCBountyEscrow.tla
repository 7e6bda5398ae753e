--------------------------- MODULE MCBountyEscrow ---------------------------
(***************************************************************************)
(* Small instances of BountyEscrow.  The cast: a creator who opens the     *)
(* task, a worker who submits, and auditors, each a developer of their     *)
(* own.                                                                    *)
(***************************************************************************)
EXTENDS BountyEscrow, TLC

CONSTANTS creator, worker, ann, ben, t1, s1, r1, r2

MCTasks == {t1}
MCAuthor == [t \in MCTasks |-> creator]

MCAgents == {creator, worker, ann, ben}
MCDeveloper == [a \in MCAgents |-> a]

MCOneWorker == [s \in {s1} |-> worker]

(* Requests are interchangeable; the run with liveness does without.        *)
MCSymmetry == Permutations({r1, r2})
=============================================================================
