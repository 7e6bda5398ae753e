------------------------- MODULE SubmissionPipeline -------------------------
(***************************************************************************)
(* What happens to one agent's submissions from the API call to the        *)
(* verdict: the daily compute quota in Redis, the debit in PostgreSQL, the *)
(* BullMQ job and the execution worker.  Three stores, no transaction that *)
(* spans two of them, and a queue that delivers at least once.             *)
(*                                                                         *)
(* A submission is a pair of agent and idempotency key; a client may       *)
(* repeat a call with the same key.  One API key and one day are modelled, *)
(* and a task that stays open (BountyEscrow models a task that closes) and *)
(* gives every submission the same cost.                                   *)
(*                                                                         *)
(* BullMQ is external: a waiting job is handed to one worker that holds    *)
(* its lock, a thrown error retries it until its attempts are used up, and *)
(* a job whose lock expires goes back to the queue at most MaxStalls times *)
(* (maxStalledCount), whether its worker is dead or only slow.             *)
(***************************************************************************)
EXTENDS Integers, FiniteSets, Sequences

CONSTANTS
  Subs,            \* idempotency keys the agent uses
  Requests,        \* bound: API requests in flight at the same time
  Workers,         \* execution slots (concurrency 8 per worker process)
  Cost,            \* computeCost of the task
  InitialCredits,  \* the agent's credits
  DailyQuota,      \* api_keys.compute_quota_daily
  MaxAttempts,     \* attempts of a job
  MaxStalls,       \* maxStalledCount of the queue
  MaxErrors,       \* bound: job handlers that throw
  Faults,          \* which faults happen, out of FaultKinds
  MaxFaults,       \* bound: how many of them
  None

FaultKinds == {"api crash", "commit unacknowledged", "worker crash", "lock lost"}

ASSUME PipelineAssumption ==
  /\ IsFiniteSet(Subs)
  /\ Cost \in Nat \ {0}
  /\ InitialCredits \in Nat
  /\ DailyQuota \in Nat
  /\ MaxAttempts \in Nat \ {0}
  /\ MaxStalls \in Nat
  /\ MaxErrors \in Nat
  /\ Faults \subseteq FaultKinds
  /\ MaxFaults \in Nat
  /\ None \notin Subs \cup Workers

ASSUME FinitelyMany == IsFiniteSet(Requests) /\ IsFiniteSet(Workers)

VARIABLES
  quota,           \* Redis: compute units the API key has reserved today
  credits,         \* agents.compute_credits
  status,          \* submissions.status, or "absent"
  runs,            \* execution_runs of a submission, oldest first
  job,             \* BullMQ: the job whose id is the submission's
  req,             \* API requests in flight
  wk,              \* what each execution slot is doing
  unacked,         \* commits that succeeded but were reported as failed
  errors,          \* job handlers that have thrown
  faults           \* faults so far

vars == <<quota, credits, status, runs, job, req, wk, unacked, errors, faults>>
apiVars == <<quota, credits, req, unacked>>

Verdicts == {"passed", "failed"}
ReqSteps == {"idle", "reserve", "commit", "release", "enqueue"}

NoJob == [state |-> "none", owner |-> None, attempts |-> 0, stalls |-> 0]
IdleReq == [pc |-> "idle", sub |-> None]
IdleWk == [pc |-> "idle", sub |-> None, run |-> 0, verdict |-> None]

Committed == {s \in Subs : status[s] # "absent"}
Decided(s) == status[s] \in Verdicts

Init ==
  /\ quota = 0
  /\ credits = InitialCredits
  /\ status = [s \in Subs |-> "absent"]
  /\ runs = [s \in Subs |-> <<>>]
  /\ job = [s \in Subs |-> NoJob]
  /\ req = [r \in Requests |-> IdleReq]
  /\ wk = [w \in Workers |-> IdleWk]
  /\ unacked = 0
  /\ errors = 0
  /\ faults = 0

Fault(kind) ==
  /\ kind \in Faults
  /\ faults < MaxFaults
  /\ faults' = faults + 1

-----------------------------------------------------------------------------
(* Plausible mistakes, each standing in for the definition it names.        *)

ReserveAfterTheFact == quota <= DailyQuota                     \* WithinQuota
ConflictIgnored(s) == credits >= Cost                          \* Chargeable
VerdictWithoutRun(s, n, v) ==                                  \* WriteVerdict
  /\ status' = [status EXCEPT ![s] = v]
  /\ UNCHANGED runs
OneAttempt(s, w) ==                                            \* AttemptFails
  [job EXCEPT ![s] = [@ EXCEPT !.owner = None, !.state = "failed",
                               !.attempts = job[s].attempts + 1]]
EnqueueOnlyWhenIdle(r) ==                                      \* Enqueue
  LET s == req[r].sub IN
  /\ req[r].pc = "enqueue"
  /\ job' = IF \A w \in Workers : wk[w].pc = "idle"
            THEN [job EXCEPT ![s].state = "waiting"] ELSE job
  /\ req' = [req EXCEPT ![r] = IdleReq]
  /\ UNCHANGED <<quota, credits, status, runs, wk, unacked, errors, faults>>

-----------------------------------------------------------------------------
(* submit.                                                                  *)

(* The Lua script's test, made and acted on atomically by Redis.            *)
WithinQuota == quota + Cost <= DailyQuota

(* The guards of the transaction: enough credits, and a fresh key.          *)
Chargeable(s) == credits >= Cost /\ status[s] = "absent"

Charge(s) ==
  /\ credits' = credits - Cost
  /\ status' = [status EXCEPT ![s] = "queued"]

(* A call arrives and finds the task open; the client may have sent the     *)
(* same key before.                                                         *)
Submit(r, s) ==
  /\ req[r].pc = "idle"
  /\ req' = [req EXCEPT ![r] = [pc |-> "reserve", sub |-> s]]
  /\ UNCHANGED <<quota, credits, status, runs, job, wk, unacked, errors, faults>>

Reserve(r) ==
  /\ req[r].pc = "reserve"
  /\ IF WithinQuota
     THEN /\ quota' = quota + Cost
          /\ req' = [req EXCEPT ![r].pc = "commit"]
     ELSE /\ req' = [req EXCEPT ![r] = IdleReq]
          /\ UNCHANGED quota
  /\ UNCHANGED <<credits, status, runs, job, wk, unacked, errors, faults>>

Commit(r) ==
  LET s == req[r].sub IN
  /\ req[r].pc = "commit"
  /\ IF Chargeable(s)
     THEN /\ Charge(s)
          /\ req' = [req EXCEPT ![r].pc = "enqueue"]
     ELSE /\ req' = [req EXCEPT ![r].pc = "release"]
          /\ UNCHANGED <<credits, status>>
  /\ UNCHANGED <<quota, runs, job, wk, unacked, errors, faults>>

(* The connection drops while the commit is acknowledged: the rows are      *)
(* there, but the handler sees a failed transaction and gives the quota     *)
(* back.                                                                    *)
CommitUnacknowledged(r) ==
  LET s == req[r].sub IN
  /\ req[r].pc = "commit"
  /\ Chargeable(s)
  /\ Fault("commit unacknowledged")
  /\ Charge(s)
  /\ req' = [req EXCEPT ![r].pc = "release"]
  /\ unacked' = unacked + 1
  /\ UNCHANGED <<quota, runs, job, wk, errors>>

Release(r) ==
  /\ req[r].pc = "release"
  /\ quota' = quota - Cost
  /\ req' = [req EXCEPT ![r] = IdleReq]
  /\ UNCHANGED <<credits, status, runs, job, wk, unacked, errors, faults>>

Enqueue(r) ==
  LET s == req[r].sub IN
  /\ req[r].pc = "enqueue"
  /\ job' = [job EXCEPT ![s].state = IF @ = "none" THEN "waiting" ELSE @]
  /\ req' = [req EXCEPT ![r] = IdleReq]
  /\ UNCHANGED <<quota, credits, status, runs, wk, unacked, errors, faults>>

(* The API process dies, or Redis fails, between two steps.                 *)
Abandon(r) ==
  /\ req[r].pc # "idle"
  /\ Fault("api crash")
  /\ req' = [req EXCEPT ![r] = IdleReq]
  /\ UNCHANGED <<quota, credits, status, runs, job, wk, unacked, errors>>

-----------------------------------------------------------------------------
(* The execution worker.                                                    *)

Holds(w, s) == job[s].state = "active" /\ job[s].owner = w
Goto(w, step) == wk' = [wk EXCEPT ![w].pc = step]

(* The run row and the submission change in one transaction.                *)
WriteVerdict(s, n, v) ==
  /\ runs' = [runs EXCEPT ![s][n] = v]
  /\ status' = [status EXCEPT ![s] = v]

(* BullMQ after a handler has thrown: retry with backoff, or give up.       *)
AttemptFails(s, w) ==
  LET attempts == job[s].attempts + 1 IN
  [job EXCEPT ![s] = [@ EXCEPT !.owner = None, !.attempts = attempts,
       !.state = IF attempts < MaxAttempts THEN "waiting" ELSE "failed"]]

(* BullMQ after a lock has expired.                                         *)
Stalled(s) ==
  [job EXCEPT ![s] = IF job[s].stalls < MaxStalls
                     THEN [@ EXCEPT !.owner = None, !.state = "waiting",
                                    !.stalls = job[s].stalls + 1]
                     ELSE [@ EXCEPT !.owner = None, !.state = "failed"]]

Take(w, s) ==
  /\ wk[w].pc = "idle"
  /\ job[s].state = "waiting"
  /\ job' = [job EXCEPT ![s].state = "active", ![s].owner = w]
  /\ wk' = [wk EXCEPT ![w] = [IdleWk EXCEPT !.pc = "insert", !.sub = s]]
  /\ UNCHANGED <<apiVars, status, runs, errors, faults>>

InsertRun(w) ==
  LET s == wk[w].sub IN
  /\ wk[w].pc = "insert"
  /\ runs' = [runs EXCEPT ![s] = Append(@, "running")]
  /\ wk' = [wk EXCEPT ![w].pc = "mark", ![w].run = Len(runs[s]) + 1]
  /\ UNCHANGED <<apiVars, status, job, errors, faults>>

MarkRunning(w) ==
  /\ wk[w].pc = "mark"
  /\ status' = [status EXCEPT ![wk[w].sub] = "running"]
  /\ Goto(w, "call")
  /\ UNCHANGED <<apiVars, runs, job, errors, faults>>

(* The sandbox answers; every result but "passed" counts as failed.         *)
SandboxAnswers(w, verdict) ==
  /\ wk[w].pc = "call"
  /\ wk' = [wk EXCEPT ![w].pc = "write", ![w].verdict = verdict]
  /\ UNCHANGED <<apiVars, status, runs, job, errors, faults>>

WriteResult(w) ==
  /\ wk[w].pc = "write"
  /\ WriteVerdict(wk[w].sub, wk[w].run, wk[w].verdict)
  /\ Goto(w, "ack")
  /\ UNCHANGED <<apiVars, job, errors, faults>>

(* The handler returns; BullMQ ignores it when the lock is no longer held.  *)
Ack(w) ==
  LET s == wk[w].sub IN
  /\ wk[w].pc = "ack"
  /\ job' = IF Holds(w, s)
            THEN [job EXCEPT ![s].state = "completed", ![s].owner = None] ELSE job
  /\ wk' = [wk EXCEPT ![w] = IdleWk]
  /\ UNCHANGED <<apiVars, status, runs, errors, faults>>

(* A query fails, the runner answers with an error or not in time, or its   *)
(* answer does not parse: the handler throws.                               *)
HandlerThrows(w) ==
  LET s == wk[w].sub IN
  /\ wk[w].pc \in {"insert", "mark", "call", "write"}
  /\ errors < MaxErrors
  /\ errors' = errors + 1
  /\ job' = IF Holds(w, s) THEN AttemptFails(s, w) ELSE job
  /\ wk' = [wk EXCEPT ![w] = IdleWk]
  /\ UNCHANGED <<apiVars, status, runs, faults>>

WorkerCrash(w) ==
  /\ wk[w].pc # "idle"
  /\ Fault("worker crash")
  /\ wk' = [wk EXCEPT ![w] = IdleWk]
  /\ UNCHANGED <<apiVars, status, runs, job, errors>>

(* The lock of a dead worker expires, ...                                   *)
LockExpires(s) ==
  /\ job[s].state = "active"
  /\ wk[job[s].owner].sub # s
  /\ job' = Stalled(s)
  /\ UNCHANGED <<apiVars, status, runs, wk, errors, faults>>

(* ... and that of one that works on but failed to renew it.                *)
LockLost(s) ==
  /\ job[s].state = "active"
  /\ wk[job[s].owner].sub = s
  /\ Fault("lock lost")
  /\ job' = Stalled(s)
  /\ UNCHANGED <<apiVars, status, runs, wk, errors>>

-----------------------------------------------------------------------------
Proceed(r) == Reserve(r) \/ Commit(r) \/ Release(r) \/ Enqueue(r)

Work(w) ==
  \/ \E s \in Subs : Take(w, s)
  \/ InsertRun(w)
  \/ MarkRunning(w)
  \/ \E v \in Verdicts : SandboxAnswers(w, v)
  \/ WriteResult(w)
  \/ Ack(w)

Next ==
  \/ \E r \in Requests, s \in Subs : Submit(r, s)
  \/ \E r \in Requests : Proceed(r)
  \/ \E r \in Requests : CommitUnacknowledged(r)
  \/ \E r \in Requests : Abandon(r)
  \/ \E w \in Workers : Work(w)
  \/ \E w \in Workers : HandlerThrows(w)
  \/ \E w \in Workers : WorkerCrash(w)
  \/ \E s \in Subs : LockExpires(s)
  \/ \E s \in Subs : LockLost(s)

Spec == Init /\ [][Next]_vars

-----------------------------------------------------------------------------
(* Properties.                                                              *)

InFlight(steps) == {r \in Requests : req[r].pc \in steps}

(* The agent pays for each submission once, and for nothing else: the       *)
(* debits implement the points ledger, with one entry per submission,       *)
(* however often a key is sent again (submit 322-361).                      *)
Debit(s) == [kind |-> "compute_debit", of |-> s, agent |-> "agent", amount |-> -Cost]
Ledger == INSTANCE PointsLedger WITH
            Agents <- {"agent"}, Ids <- Subs, Amounts <- {-Cost},
            credits <- [a \in {"agent"} |-> credits],
            ledger <- {Debit(s) : s \in Committed}
ImplementsLedger == Ledger!Spec

(* The Redis counter covers what PostgreSQL has charged, save for commits   *)
(* reported as failed, and nothing but a lost request leaves it too high:   *)
(* reservation and release frame the transaction (submit 296-365).          *)
QuotaMatchesCharges ==
  LET held == Cost * (Cardinality(Committed)
                      + Cardinality(InFlight({"commit", "release"})))
  IN  /\ quota <= DailyQuota
      /\ quota + Cost * unacked >= Cost * Cardinality(Committed)
      /\ faults = 0 => quota = held

(* A verdict is the verdict of one of the submission's runs: both are       *)
(* written in one transaction (execution.worker 88-111).  And no submission *)
(* runs more often than the attempts and stalls of its one job allow,       *)
(* whatever is sent or delivered again (submit 367-377).                    *)
VerdictHasRun ==
  \A s \in Subs :
    /\ Decided(s) => \E n \in 1 .. Len(runs[s]) : runs[s][n] = status[s]
    /\ Len(runs[s]) <= MaxAttempts + MaxStalls

(* Without faults a charged submission is on its way to a verdict, and a    *)
(* completed job has left the verdict of the last run, also when an earlier *)
(* attempt threw (submit 367, execution.worker).                            *)
ChargedWorkIsUnderWay ==
  faults = 0 =>
    \A s \in Committed :
      /\ job[s].state = "none" =>
           \E r \in InFlight({"enqueue"}) : req[r].sub = s
      /\ job[s].state = "active" => wk[job[s].owner].sub = s
      /\ job[s].state = "completed" => status[s] = runs[s][Len(runs[s])]

-----------------------------------------------------------------------------
(* What the repository's documents say and the code does not do.            *)

(* README, "Commit debit + execution outbox": with no request in flight,    *)
(* what was charged has an execution job (submit 322-377).                  *)
ChargedWorkIsQueued ==
  InFlight(ReqSteps \ {"idle"}) = {} => \A s \in Committed : job[s].state # "none"
=============================================================================
