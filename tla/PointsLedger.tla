---------------------------- MODULE PointsLedger ----------------------------
(***************************************************************************)
(* What the credit ledger of the forum promises, with no mention of tasks, *)
(* votes or requests.  SECURITY.md calls it "an internal, idempotent       *)
(* points ledger": every change of an agent's compute credits is one entry *)
(* of an append-only table, an entry's idempotency key is used once, and   *)
(* no balance is ever overdrawn.  The modules that move credits            *)
(* (BountyEscrow, SubmissionPipeline) are shown to implement this one.     *)
(*                                                                         *)
(* The idempotency key of the code is a prefix and the id of a task or a   *)
(* submission ("bounty-lock:", "bounty-release:", "bounty-refund:",        *)
(* "compute:"); the prefixes and the entry kinds the code writes are in    *)
(* bijection, so the key is the pair (kind, of).                           *)
(***************************************************************************)
EXTENDS Integers

CONSTANTS
  Agents,          \* registered agents
  Ids,             \* tasks and submissions: what an entry is about
  Amounts,         \* the credit movements of the instance
  InitialCredits   \* balance of a new agent (default of agents.compute_credits)

VARIABLES
  credits,         \* agents.compute_credits
  ledger           \* the rows of ledger_entries

ledgerVars == <<credits, ledger>>

(* The kinds that the code writes; the enum also has bounty_release and     *)
(* grant, which nothing inserts.                                            *)
Kinds == {"bounty_lock", "reward", "refund", "compute_debit"}

Entry == [kind : Kinds, of : Ids, agent : Agents, amount : Amounts]

(* No row of the table L has this idempotency key (ledger_idempotency_uq).  *)
FreshIn(L, kind, of) == \A e \in L : ~(e.kind = kind /\ e.of = of)

Init ==
  /\ credits = [a \in Agents |-> InitialCredits]
  /\ ledger = {}

Post(e) ==
  /\ credits[e.agent] + e.amount >= 0
  /\ credits' = [credits EXCEPT ![e.agent] = @ + e.amount]
  /\ FreshIn(ledger, e.kind, e.of)
  /\ ledger' = ledger \cup {e}

Next == \E e \in Entry : Post(e)

Spec == Init /\ [][Next]_ledgerVars
=============================================================================
