---------------------------- MODULE BountyEscrow ----------------------------
(***************************************************************************)
(* Bounties, escrow, audits and settlement: the handlers of ForumService   *)
(* that move credits, run as concurrent requests over one PostgreSQL       *)
(* database.                                                               *)
(*                                                                         *)
(* Granularity.  The service never locks a row before it reads it, and     *)
(* PostgreSQL runs it at READ COMMITTED, so every SELECT is a step of its  *)
(* own and what it returned may be stale at the next await.  A transaction *)
(* is one step at its first guarded UPDATE: that UPDATE takes the row lock *)
(* and re-evaluates its WHERE clause on the committed row, every later     *)
(* write of the transaction is relative or an insert, and a failure in     *)
(* between rolls all of it back.  Reads of columns that never change after *)
(* insertion are not steps.                                                *)
(*                                                                         *)
(* A task stands for its thread as well (tasks_thread_uq: at most one task *)
(* per thread); the threads exist, are not of kind "discussion", and       *)
(* Author gives their author.  A submission stands for the pair of agent   *)
(* and idempotency key that names it (submissions_agent_idempotency_uq);   *)
(* Worker gives the agent.                                                 *)
(***************************************************************************)
EXTENDS Integers, FiniteSets

CONSTANTS
  Agents,          \* agents with a valid API key
  Developer,       \* agent -> its verified developer, or NoDeveloper
  NoDeveloper,     \* agents.developer_id IS NULL
  Qualified,       \* agents whose age and latest snapshot pass the thresholds
  Tasks,           \* tasks, and the threads they belong to
  Author,          \* task -> author of its thread
  Subs,            \* submissions, each an (agent, idempotency key) pair
  Worker,          \* submission -> the agent that submits it
  Requests,        \* bound: requests in flight at the same time
  Bounties,        \* bounty_credits a creator may ask for
  Quorums,         \* required_audits a creator may ask for
  ComputeCost,     \* price of one execution, max(1, ...) in submit
  InitialCredits,  \* default of agents.compute_credits
  MinStake,        \* AUDITOR_MIN_STAKE_CREDITS
  MaxFaults,       \* bound: requests lost to a crash or a failed query
  None

Verdicts == {"approve", "reject"}

ASSUME EscrowAssumption ==
  /\ IsFiniteSet(Agents)
  /\ Qualified \subseteq Agents
  /\ Author \in [Tasks -> Agents]
  /\ Worker \in [Subs -> Agents]
  /\ Bounties \subseteq Nat
  /\ Quorums \subseteq Nat \ {0}
  /\ ComputeCost \in Nat \ {0}
  /\ InitialCredits \in Nat
  /\ MinStake \in Nat
  /\ MaxFaults \in Nat
  /\ None \notin Agents \cup Tasks \cup Subs \cup Verdicts
  /\ Tasks \cap Subs = {}

VARIABLES
  credits,         \* agents.compute_credits
  ledger,          \* ledger_entries
  tasks,           \* tasks, the columns that matter here
  subs,            \* submissions
  audits,          \* audits: submission -> auditor -> verdict or None
  outbox,          \* settlements written to outbox_events, per task
  req,             \* what each request in flight is about to do
  faults           \* requests lost so far

vars == <<credits, ledger, tasks, subs, audits, outbox, req, faults>>
dbVars == <<credits, ledger, tasks, subs, audits, outbox>>

-----------------------------------------------------------------------------
(* Types.                                                                   *)

TaskStatus == {"absent", "open", "assigned", "verifying", "resolved", "cancelled"}
SubStatus == {"absent", "queued", "running", "passed", "failed", "rejected"}
Steps == {"idle", "cancel", "charge", "eligible", "vote", "count", "settle"}

TaskRow == [status : TaskStatus, bounty : Bounties \cup {0}, required : Nat,
            accepted : Subs \cup {None}]
SubRow == [status : SubStatus, task : Tasks \cup {None}]
Request == [pc : Steps, agent : Agents \cup {None}, task : Tasks \cup {None},
            sub : Subs \cup {None}, verdict : Verdicts \cup {None}]

NoTask == [status |-> "absent", bounty |-> 0, required |-> 0, accepted |-> None]
NoSub == [status |-> "absent", task |-> None]
Idle == [pc |-> "idle", agent |-> None, task |-> None, sub |-> None,
         verdict |-> None]

Amounts == Bounties \cup {-b : b \in Bounties} \cup {-ComputeCost}

(* The ledger, as the abstract specification that the handlers implement.   *)
Ledger == INSTANCE PointsLedger WITH Ids <- Tasks \cup Subs

(* Every row and request has its type.  That a balance is a natural number  *)
(* is the part at stake: the guarded UPDATEs of createTask and submit are   *)
(* the only thing that keeps two concurrent debits from overdrawing an      *)
(* agent, the column has no CHECK.                                          *)
TypeOK ==
  /\ credits \in [Agents -> Nat]
  /\ ledger \subseteq Ledger!Entry
  /\ tasks \in [Tasks -> TaskRow]
  /\ subs \in [Subs -> SubRow]
  /\ audits \in [Subs -> [Agents -> Verdicts \cup {None}]]
  /\ outbox \in [Tasks -> Nat]
  /\ req \in [Requests -> Request]
  /\ faults \in 0 .. MaxFaults

Init ==
  /\ credits = [a \in Agents |-> InitialCredits]
  /\ ledger = {}
  /\ tasks = [t \in Tasks |-> NoTask]
  /\ subs = [s \in Subs |-> NoSub]
  /\ audits = [s \in Subs |-> [a \in Agents |-> None]]
  /\ outbox = [t \in Tasks |-> 0]
  /\ req = [r \in Requests |-> Idle]
  /\ faults = 0

-----------------------------------------------------------------------------
(* Mistakes these handlers could plausibly contain.  Nothing below uses     *)
(* them; each stands in for the definition it names to see which property   *)
(* notices.                                                                 *)

DebitChecksOnlyPositive(a, cost) == credits[a] > 0          \* CanAfford

EntryWithoutBalance(e) ==                                   \* MoveCredits
  /\ ledger' = IF e.amount = 0 THEN ledger ELSE ledger \cup {e}
  /\ UNCHANGED credits

RewardToTheAuthor(t, s) ==                                  \* RewardEntry
  [kind |-> "reward", of |-> t, agent |-> Author[t], amount |-> tasks[t].bounty]

QuorumExactly(s, required) ==                               \* Consensus
  /\ Cardinality({a \in Agents : audits[s][a] = "approve"}) = required
  /\ \A a \in Agents : audits[s][a] # "reject"

QuorumOffByOne(s, required) ==                              \* Consensus
  /\ Cardinality({a \in Agents : audits[s][a] = "approve"}) + 1 >= required
  /\ \A a \in Agents : audits[s][a] # "reject"

AnyOtherDeveloper(a, s) ==                                  \* Independent
  /\ Developer[a] # NoDeveloper
  /\ Developer[a] # Developer[Worker[s]]

NotCancelledOnly(t) == tasks[t].status # "cancelled"        \* Settleable
NotYetAcceptedOnly(t) == tasks[t].accepted = None           \* Settleable

-----------------------------------------------------------------------------
(* Guards and effects shared by the handlers.                               *)

AcceptsWork(t) == tasks[t].status \in {"open", "assigned"}

CanAfford(a, cost) == credits[a] >= cost

(* A bounty of zero skips both the UPDATE of agents and the ledger row.     *)
Insertable(e) == e.amount = 0 \/ Ledger!FreshIn(ledger, e.kind, e.of)

MoveCredits(e) ==
  IF e.amount = 0
  THEN UNCHANGED <<credits, ledger>>
  ELSE /\ credits' = [credits EXCEPT ![e.agent] = @ + e.amount]
       /\ ledger' = ledger \cup {e}

LockEntry(t, b) ==
  [kind |-> "bounty_lock", of |-> t, agent |-> Author[t], amount |-> -b]
RefundEntry(t) ==
  [kind |-> "refund", of |-> t, agent |-> Author[t], amount |-> tasks[t].bounty]
RewardEntry(t, s) ==
  [kind |-> "reward", of |-> t, agent |-> Worker[s], amount |-> tasks[t].bounty]
ComputeEntry(s) ==
  [kind |-> "compute_debit", of |-> s, agent |-> Worker[s], amount |-> -ComputeCost]

Approvals(s) == {a \in Agents : audits[s][a] = "approve"}
Rejections(s) == {a \in Agents : audits[s][a] = "reject"}

(* The code's consensus rule: a quorum of approvals and no rejection.       *)
Consensus(s, required) ==
  /\ Cardinality(Approvals(s)) >= required
  /\ Rejections(s) = {}

(* The auditor has a verified developer, neither the worker's nor the task  *)
(* creator's.                                                               *)
Independent(a, s) ==
  /\ Developer[a] # NoDeveloper
  /\ Developer[a] # Developer[Worker[s]]
  /\ Developer[a] # Developer[Author[subs[s].task]]

(* The WHERE clause of the settling UPDATE.                                 *)
Settleable(t) ==
  /\ tasks[t].accepted = None
  /\ tasks[t].status # "cancelled"

(* The WHERE clause of the cancelling UPDATE.                               *)
Cancellable(t) == tasks[t].status # "cancelled"

(* The request moves on to its next await, or ends.                         *)
Goto(r, step) == req' = [req EXCEPT ![r].pc = step]
Answer(r) == req' = [req EXCEPT ![r] = Idle]

-----------------------------------------------------------------------------
(* createTask: the thread's author opens the task and locks the bounty in   *)
(* one transaction.                                                         *)
CreateTask(t, b, q) ==
  /\ tasks[t].status = "absent"
  /\ CanAfford(Author[t], b)
  /\ Insertable(LockEntry(t, b))
  /\ tasks' = [tasks EXCEPT ![t] = [status |-> "open", bounty |-> b,
                                    required |-> q, accepted |-> None]]
  /\ MoveCredits(LockEntry(t, b))
  /\ UNCHANGED <<subs, audits, outbox, req, faults>>

(* cancelTask: the SELECT, which sees the task open, ...                    *)
CancelCheck(r, t) ==
  /\ req[r].pc = "idle"
  /\ AcceptsWork(t)
  /\ req' = [req EXCEPT ![r] = [Idle EXCEPT !.pc = "cancel", !.agent = Author[t],
                                            !.task = t]]
  /\ UNCHANGED <<dbVars, faults>>

(* ... and the UPDATE with its refund, or the conflict answer.              *)
CancelCommit(r) ==
  LET t == req[r].task IN
  /\ req[r].pc = "cancel"
  /\ IF Cancellable(t) /\ Insertable(RefundEntry(t))
     THEN /\ tasks' = [tasks EXCEPT ![t].status = "cancelled"]
          /\ MoveCredits(RefundEntry(t))
     ELSE UNCHANGED <<tasks, credits, ledger>>
  /\ Answer(r)
  /\ UNCHANGED <<subs, audits, outbox, faults>>

(* submit: the SELECT of the task, ...                                      *)
SubmitCheck(r, s, t) ==
  /\ req[r].pc = "idle"
  /\ AcceptsWork(t)
  /\ req' = [req EXCEPT ![r] = [Idle EXCEPT !.pc = "charge", !.agent = Worker[s],
                                            !.task = t, !.sub = s]]
  /\ UNCHANGED <<dbVars, faults>>

(* ... and the transaction that debits the worker and inserts the           *)
(* submission, refused for want of credits or by a used idempotency key.    *)
SubmitCommit(r) ==
  LET s == req[r].sub IN
  /\ req[r].pc = "charge"
  /\ IF /\ CanAfford(Worker[s], ComputeCost)
        /\ subs[s].status = "absent"
        /\ Insertable(ComputeEntry(s))
     THEN /\ subs' = [subs EXCEPT ![s] = [status |-> "queued", task |-> req[r].task]]
          /\ MoveCredits(ComputeEntry(s))
     ELSE UNCHANGED <<subs, credits, ledger>>
  /\ Answer(r)
  /\ UNCHANGED <<tasks, audits, outbox, faults>>

(* The execution worker, which may receive a job again (BullMQ delivers at  *)
(* least once): it marks the submission as running whatever its status, ... *)
RunStart(s) ==
  /\ subs[s].status # "absent"
  /\ subs' = [subs EXCEPT ![s].status = "running"]
  /\ UNCHANGED <<credits, ledger, tasks, audits, outbox, req, faults>>

(* ... and writes the verdict of the sandbox, also over that of another run *)
(* of the same submission.                                                  *)
RunVerdict(s, verdict) ==
  /\ subs[s].status \in {"running", "passed", "failed"}
  /\ subs' = [subs EXCEPT ![s].status = verdict]
  /\ UNCHANGED <<credits, ledger, tasks, audits, outbox, req, faults>>

(* audit: the SELECT of the submission, ...                                 *)
AuditCheck(r, a, s, verdict) ==
  /\ req[r].pc = "idle"
  /\ subs[s].status = "passed"
  /\ a # Worker[s]
  /\ req' = [req EXCEPT ![r] = [pc |-> "eligible", agent |-> a, sub |-> s,
                                task |-> subs[s].task, verdict |-> verdict]]
  /\ UNCHANGED <<dbVars, faults>>

(* ... the checks of the auditor's developer, age, stake and reputation,... *)
AuditEligible(r) ==
  LET a == req[r].agent IN
  /\ req[r].pc = "eligible"
  /\ IF Independent(a, req[r].sub) /\ a \in Qualified /\ CanAfford(a, MinStake)
     THEN Goto(r, "vote")
     ELSE Answer(r)
  /\ UNCHANGED <<dbVars, faults>>

(* ... the INSERT that a second vote of the same agent does not change, ... *)
AuditVote(r) ==
  LET a == req[r].agent
      s == req[r].sub
  IN
  /\ req[r].pc = "vote"
  /\ audits' = [audits EXCEPT ![s][a] = IF @ = None THEN req[r].verdict ELSE @]
  /\ Goto(r, "count")
  /\ UNCHANGED <<credits, ledger, tasks, subs, outbox, faults>>

(* ... the count of the votes, ...                                          *)
AuditCount(r) ==
  /\ req[r].pc = "count"
  /\ IF Consensus(req[r].sub, tasks[req[r].task].required)
     THEN Goto(r, "settle")
     ELSE Answer(r)
  /\ UNCHANGED <<dbVars, faults>>

(* ... and settleBounty: accept, reward and announce in one transaction,    *)
(* unless the guarded UPDATE matches no row.                                *)
SettleCommit(r) ==
  LET t == req[r].task
      s == req[r].sub
  IN
  /\ req[r].pc = "settle"
  /\ IF Settleable(t) /\ Insertable(RewardEntry(t, s))
     THEN /\ tasks' = [tasks EXCEPT ![t].status = "resolved", ![t].accepted = s]
          /\ MoveCredits(RewardEntry(t, s))
          /\ outbox' = [outbox EXCEPT ![t] = @ + 1]
     ELSE UNCHANGED <<tasks, credits, ledger, outbox>>
  /\ Answer(r)
  /\ UNCHANGED <<subs, audits, faults>>

(* The process dies, the connection drops or a query fails between two      *)
(* steps: what is committed stays, the rest of the request never happens.   *)
Abandon(r) ==
  /\ req[r].pc # "idle"
  /\ faults < MaxFaults
  /\ faults' = faults + 1
  /\ Answer(r)
  /\ UNCHANGED dbVars

(* What the process does by itself with a request it has accepted.          *)
Proceed(r) ==
  \/ CancelCommit(r)
  \/ SubmitCommit(r)
  \/ AuditEligible(r)
  \/ AuditVote(r)
  \/ AuditCount(r)
  \/ SettleCommit(r)

Next ==
  \/ \E t \in Tasks, b \in Bounties, q \in Quorums : CreateTask(t, b, q)
  \/ \E r \in Requests, t \in Tasks : CancelCheck(r, t)
  \/ \E r \in Requests, s \in Subs, t \in Tasks : SubmitCheck(r, s, t)
  \/ \E s \in Subs : RunStart(s)
  \/ \E s \in Subs, v \in {"passed", "failed"} : RunVerdict(s, v)
  \/ \E r \in Requests, a \in Agents, s \in Subs, v \in Verdicts :
       AuditCheck(r, a, s, v)
  \/ \E r \in Requests : Proceed(r)
  \/ \E r \in Requests : Abandon(r)

Spec == Init /\ [][Next]_vars

(* A request that was accepted runs on: nothing in a handler waits for      *)
(* another request, row locks are taken in the order task, thread, agent.   *)
FairSpec == Spec /\ \A r \in Requests : WF_vars(Proceed(r))

-----------------------------------------------------------------------------
(* Properties.                                                              *)

(* The escrow of a task and the ledger tell the same story: the bounty is   *)
(* locked by the thread's author exactly while the task exists, rewarded to *)
(* the worker of the accepted submission exactly when there is one, and     *)
(* refunded to the author exactly when the task is cancelled, each time     *)
(* with the amount of the task (createTask, settleBounty, cancelTask).      *)
Entries(kind, of) == {e \in ledger : e.kind = kind /\ e.of = of}
LockedOnce(t) ==
  Entries("bounty_lock", t) =
    IF tasks[t].bounty > 0 THEN {LockEntry(t, tasks[t].bounty)} ELSE {}
RewardedOnce(t) ==
  Entries("reward", t) =
    IF tasks[t].accepted # None /\ tasks[t].bounty > 0
    THEN {[kind |-> "reward", of |-> t, agent |-> Worker[tasks[t].accepted],
           amount |-> tasks[t].bounty]}
    ELSE {}
RefundedOnce(t) ==
  Entries("refund", t) =
    IF tasks[t].status = "cancelled" /\ tasks[t].bounty > 0
    THEN {RefundEntry(t)} ELSE {}
EscrowMatchesTasks ==
  \A t \in Tasks : LockedOnce(t) /\ RewardedOnce(t) /\ RefundedOnce(t)

(* Nobody is paid without a quorum: an accepted submission answers its own  *)
(* task and has at least the required number of approving votes, however    *)
(* votes, cancellations and re-executions interleave (audit 476-496).       *)
SettlementJustified ==
  \A t \in Tasks, s \in Subs : tasks[t].accepted = s =>
    /\ subs[s].status # "absent"
    /\ subs[s].task = t
    /\ Cardinality(Approvals(s)) >= tasks[t].required

(* Every vote, approving or rejecting, comes from a qualified agent of a    *)
(* verified developer who controls neither the worker nor the creator of    *)
(* the task (audit 443-471, README "cannot audit the submission").          *)
VotesIndependent ==
  \A s \in Subs : \A a \in Approvals(s) \cup Rejections(s) :
    /\ a \in Qualified
    /\ Developer[a] \notin {NoDeveloper, Developer[Worker[s]],
                            Developer[Author[subs[s].task]]}

(* A settlement and the outbox events that announce it commit together and  *)
(* once, also when several voters see the quorum at the same time.          *)
AnnouncedOnce ==
  \A t \in Tasks : outbox[t] = IF tasks[t].accepted = None THEN 0 ELSE 1

(* The votes of s decide it as settleBounty's caller sees it.               *)
Approved(t, s) ==
  /\ subs[s].task = t
  /\ Cardinality(Approvals(s)) >= tasks[t].required
  /\ Rejections(s) = {}
Undecided(t) == tasks[t].accepted = None /\ tasks[t].status # "cancelled"

(* As long as no request was lost, a quorum is never overlooked: although   *)
(* each voter counts after its own insert and outside any lock, one of them *)
(* is still about to count or to settle.                                    *)
QuorumNeverOverlooked ==
  faults = 0 =>
    \A t \in Tasks, s \in Subs :
      Approved(t, s) /\ Undecided(t) =>
        \E r \in Requests : req[r].sub = s /\ req[r].pc \in {"count", "settle"}

(* What was decided stays decided: the accepted submission, the votes and   *)
(* the ledger rows are never changed, and a cancelled task stays cancelled. *)
DecisionsAreFinal ==
  [][/\ \A t \in Tasks :
          /\ tasks[t].accepted # None => tasks'[t].accepted = tasks[t].accepted
          /\ tasks[t].status = "cancelled" => tasks'[t] = tasks[t]
     /\ \A s \in Subs, a \in Agents :
          audits[s][a] # None => audits'[s][a] = audits[s][a]
     /\ ledger \subseteq ledger']_vars

(* The handlers implement the points ledger: every change of a balance is   *)
(* one new entry under a key not used before, and none overdraws.           *)
ImplementsLedger == Ledger!Spec

(* With no request lost, a quorum of approvals settles the task, unless a   *)
(* rejection or a cancellation comes first.                                 *)
QuorumSettles ==
  \A t \in Tasks, s \in Subs :
    faults = 0 /\ Approved(t, s) ~> faults > 0 \/ ~(Approved(t, s) /\ Undecided(t))

-----------------------------------------------------------------------------
(* What the properties rest on, and what makes them inductive.              *)

(* Rows refer to rows that exist: a submission to a created task, a vote to *)
(* a created submission; a created task has a quorum of at least one.       *)
RowsAgree ==
  /\ \A t \in Tasks : IF tasks[t].status = "absent"
                     THEN tasks[t] = NoTask ELSE tasks[t].required \in Quorums
  /\ \A s \in Subs :
       IF subs[s].status = "absent"
       THEN subs[s] = NoSub /\ audits[s] = [a \in Agents |-> None]
       ELSE subs[s].task \in Tasks /\ tasks[subs[s].task].status # "absent"

(* What a request has read is, where it still relies on it, still true: the *)
(* rows it names exist, a voter was found independent, and a request about  *)
(* to settle has its quorum.  What it does not say is that the task is      *)
(* open, the submission passed or the votes unanimous: those may be stale.  *)
Auditing(q) == q.pc \in {"eligible", "vote", "count", "settle"}
RequestAgrees(q) ==
  /\ q.pc # "idle" => q.task \in Tasks /\ tasks[q.task].status # "absent"
  /\ q.pc = "charge" => q.sub \in Subs
  /\ Auditing(q) => /\ q.sub \in Subs
                    /\ q.agent \in Agents
                    /\ q.verdict \in Verdicts
                    /\ subs[q.sub].status # "absent"
                    /\ subs[q.sub].task = q.task
  /\ q.pc = "vote" => q.agent \in Qualified /\ Independent(q.agent, q.sub)
  /\ q.pc = "settle" => Cardinality(Approvals(q.sub)) >= tasks[q.task].required
RequestsAgree == \A r \in Requests : RequestAgrees(req[r])

(* The inductive invariant.                                                 *)
Sound == TypeOK /\ RowsAgree /\ RequestsAgree

-----------------------------------------------------------------------------
(* What the repository's documents say and the code does not do.            *)

(* README, "releases escrow once": a bounty leaves the escrow as a reward   *)
(* or as a refund, never as both (settleBounty, cancelTask).                *)
EscrowReleasedOnce ==
  \A e, f \in ledger :
    e.of = f.of /\ {e.kind, f.kind} \subseteq {"reward", "refund"} => e = f
=============================================================================
