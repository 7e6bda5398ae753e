--------------------------- MODULE ReputationEngine ---------------------------
(***************************************************************************)
(* Reputation: a settlement announces that its worker's score is to be     *)
(* recalculated, a relay dispatches the event, the reputation engine reads *)
(* the agent's statistics and inserts a snapshot, and the latest snapshot  *)
(* decides whether the agent may audit, which is what settles the next     *)
(* submission.                                                             *)
(*                                                                         *)
(* The engine reads in one statement and inserts in another.  A relay that *)
(* stops waiting after ten seconds does not stop the engine, so two        *)
(* recalculations of one agent may overlap even with one relay.            *)
(*                                                                         *)
(* The steps of a vote and of a settlement, and everything else that       *)
(* decides them, are those of BountyEscrow; claims and retries are those   *)
(* of OutboxRelay.  Here each is one step.  Every submission has a task of *)
(* its own.  A run reports one test, and how long runs take is left open.  *)
(***************************************************************************)
EXTENDS Integers, FiniteSetsExt, SequencesExt

CONSTANTS
  Agents,          \* agents of independent verified developers
  Subs,            \* submissions, each answering a task of its own
  Worker,          \* submission -> the agent that submits it
  Seeded,          \* agents for whom an operator inserted a first snapshot
  Quorum,          \* required_audits of the tasks
  MinSample,       \* AUDITOR_MIN_SAMPLE_SIZE (3)
  MinReliability,  \* AUDITOR_MIN_RELIABILITY (0.6), as hundredths of 1/100
  TargetMs,        \* DEFAULT_RUNTIME_TARGET_MS
  Medians,         \* median run times that may occur, in milliseconds
  MaxHistory,      \* bound: attempts up to which scores are compared
  Calls,           \* bound: recalculations at the same time
  MaxRuns,         \* bound: runs altogether
  MaxFaults,       \* bound: calls that fail or are given up
  None

Verdicts == {"approve", "reject"}

ASSUME ReputationAssumption ==
  /\ IsFiniteSet(Agents) /\ IsFiniteSet(Subs)
  /\ Worker \in [Subs -> Agents]
  /\ Seeded \subseteq Agents
  /\ {Quorum, TargetMs} \subseteq Nat \ {0}
  /\ {MinSample, MinReliability, MaxHistory, MaxRuns, MaxFaults} \subseteq Nat
  /\ Medians \subseteq Nat
  /\ None \notin Subs \cup Verdicts

VARIABLES
  status,          \* submissions.status
  tests,           \* assertions that passed and failed in a submission's runs
  votes,           \* audits: submission -> auditor -> verdict or None
  settled,         \* submissions that were accepted; each has an outbox event
  processed,       \* those whose recalculation event is processed
  snapshots,       \* reputation_snapshots of an agent by calculated_at
  call,            \* what each recalculation is doing
  overlapped,      \* agents two of whose recalculations were under way at once
  runs, faults

vars == <<status, tests, votes, settled, processed, snapshots, call, overlapped,
          runs, faults>>
work == <<status, tests, runs>>

-----------------------------------------------------------------------------
(* calculateReliability, in hundredths of a point: the score has a hundred  *)
(* points and two decimals.  Quotients are rounded down.                    *)

Scale == 10000

(* e^(-attempts/20).                                                        *)
Decay[n \in Nat] == IF n = 0 THEN Scale ELSE (Decay[n - 1] * 9512) \div Scale

Confidence(f) == 6000 + (4 * (Scale - Decay[f.attempts])) \div 10
SuccessRate(f) == (Scale * (f.successes + 2)) \div (f.attempts + 4)
Hallucination(f) == (Scale * (f.failed + 1)) \div (f.failed + f.passed + 10)
Unclamped(f) ==                                                 \* Speed
  IF f.median = 0 THEN Scale ELSE (Scale * TargetMs) \div f.median
Speed(f) ==
  IF f.median = 0 THEN Scale ELSE Min({Scale, (Scale * TargetMs) \div f.median})

Weighted(f) ==
  (55 * SuccessRate(f) + 20 * Speed(f) + 15 * (Scale - Hallucination(f))
     + 10 * f.agreement) \div 100
Score(f) == (Weighted(f) * Confidence(f)) \div Scale

-----------------------------------------------------------------------------
Idle == [pc |-> "idle", event |-> None, waited |-> FALSE, row |-> <<>>]

Init ==
  /\ status = [s \in Subs |-> "absent"]
  /\ tests = [s \in Subs |-> [passed |-> 0, failed |-> 0]]
  /\ votes = [s \in Subs |-> [a \in Agents |-> None]]
  /\ settled = {}
  /\ processed = {}
  /\ snapshots = [a \in Agents |->
       IF a \in Seeded
       THEN <<[counted |-> {}, sampleSize |-> MinSample, score |-> Scale]>>
       ELSE <<>>]
  /\ call = [c \in Calls |-> Idle]
  /\ overlapped = {}
  /\ runs = 0 /\ faults = 0

-----------------------------------------------------------------------------
(* Plausible mistakes, each standing in for the definition it names.        *)

FirstSnapshot(a) == snapshots[a][1]                             \* Latest
NewcomersMayVote(a) ==                                          \* Eligible
  snapshots[a] = <<>> \/ Last(snapshots[a]).sampleSize >= MinSample

-----------------------------------------------------------------------------
(* SELECT ... ORDER BY calculated_at DESC LIMIT 1.                          *)
Latest(a) == Last(snapshots[a])

(* What audit asks of the auditor's reputation.                             *)
Eligible(a) ==
  /\ snapshots[a] # <<>>
  /\ Latest(a).sampleSize >= MinSample
  /\ Latest(a).score >= MinReliability

Attempts(a) == {s \in Subs : Worker[s] = a /\ status[s] # "absent"}

(* The share of an auditor's votes that agree with what the submission's    *)
(* status says by now, or a half for want of votes.                         *)
Voted(a) == {s \in Subs : votes[s][a] # None}
Agreeing(a) ==
  {s \in Voted(a) :
     votes[s][a] = IF status[s] = "passed" THEN "approve" ELSE "reject"}
Agreement(a) ==
  IF Voted(a) = {} THEN Scale \div 2
  ELSE (Scale * Cardinality(Agreeing(a))) \div Cardinality(Voted(a))

Row(a, median) ==
  LET mine == Attempts(a)
  IN  [counted |-> mine,
       sampleSize |-> Cardinality(mine),
       score |-> Score(
         [attempts |-> Cardinality(mine),
          successes |-> Cardinality({s \in mine : status[s] = "passed"}),
          passed |-> MapThenSumSet(LAMBDA s : tests[s].passed, mine),
          failed |-> MapThenSumSet(LAMBDA s : tests[s].failed, mine),
          median |-> median,
          agreement |-> Agreement(a)])]

(* The agent that the event in a call is about.                             *)
Subject(c) == Worker[call[c].event]

-----------------------------------------------------------------------------
Submit(s) ==
  /\ status[s] = "absent"
  /\ status' = [status EXCEPT ![s] = "queued"]
  /\ UNCHANGED <<tests, votes, settled, processed, snapshots, call, overlapped,
                 runs, faults>>

(* A job may be delivered again: the submission is running once more, ...   *)
StartRun(s) ==
  /\ status[s] \notin {"absent", "running"}
  /\ runs < MaxRuns
  /\ status' = [status EXCEPT ![s] = "running"]
  /\ runs' = runs + 1
  /\ UNCHANGED <<tests, votes, settled, processed, snapshots, call, overlapped,
                 faults>>

(* ... and each run adds its tests to those the engine sums up.             *)
EndRun(s, verdict) ==
  /\ status[s] = "running"
  /\ status' = [status EXCEPT ![s] = verdict]
  /\ tests' = [tests EXCEPT ![s][verdict] = @ + 1]
  /\ UNCHANGED <<votes, settled, processed, snapshots, call, overlapped, runs,
                 faults>>

Vote(a, s, verdict) ==
  /\ status[s] = "passed"
  /\ a # Worker[s]
  /\ votes[s][a] = None
  /\ Eligible(a)
  /\ votes' = [votes EXCEPT ![s][a] = verdict]
  /\ UNCHANGED <<work, settled, processed, snapshots, call, overlapped, faults>>

(* The voter that sees the consensus settles, and announces it.             *)
Settle(s) ==
  /\ Cardinality({a \in Agents : votes[s][a] = "approve"}) >= Quorum
  /\ \A a \in Agents : votes[s][a] # "reject"
  /\ s \notin settled
  /\ settled' = settled \cup {s}
  /\ UNCHANGED <<work, votes, processed, snapshots, call, overlapped, faults>>

(* A relay claims an event that no relay is waiting for and calls the       *)
(* engine.                                                                  *)
Dispatch(c, s) ==
  /\ call[c].pc = "idle"
  /\ s \in settled \ processed
  /\ \A d \in Calls : ~ (call[d].event = s /\ call[d].waited)
  /\ call' = [call EXCEPT ![c] = [Idle EXCEPT !.pc = "read", !.event = s,
                                              !.waited = TRUE]]
  /\ overlapped' =
       IF \E d \in Calls : call[d].pc # "idle" /\ Subject(d) = Worker[s]
       THEN overlapped \cup {Worker[s]} ELSE overlapped
  /\ UNCHANGED <<work, votes, settled, processed, snapshots, faults>>

(* The engine reads the statistics, ...                                     *)
ReadStats(c) ==
  /\ call[c].pc = "read"
  /\ \E median \in Medians :
       call' = [call EXCEPT ![c].pc = "insert",
                            ![c].row = Row(Subject(c), median)]
  /\ UNCHANGED <<work, votes, settled, processed, snapshots, overlapped, faults>>

(* ... inserts the snapshot, and the relay marks the event if it still      *)
(* waits for the answer.                                                    *)
InsertSnapshot(c) ==
  /\ call[c].pc = "insert"
  /\ snapshots' = [snapshots EXCEPT ![Subject(c)] = Append(@, call[c].row)]
  /\ processed' = IF call[c].waited THEN processed \cup {call[c].event}
                  ELSE processed
  /\ call' = [call EXCEPT ![c] = Idle]
  /\ UNCHANGED <<work, votes, settled, overlapped, faults>>

(* The relay gives up after ten seconds, or dies; the engine runs on.       *)
GiveUp(c) ==
  /\ call[c].waited
  /\ faults < MaxFaults
  /\ faults' = faults + 1
  /\ call' = [call EXCEPT ![c].waited = FALSE]
  /\ UNCHANGED <<work, votes, settled, processed, snapshots, overlapped>>

(* The engine dies, or one of its statements fails.                         *)
EngineFails(c) ==
  /\ call[c].pc # "idle"
  /\ faults < MaxFaults
  /\ faults' = faults + 1
  /\ call' = [call EXCEPT ![c] = Idle]
  /\ UNCHANGED <<work, votes, settled, processed, snapshots, overlapped>>

Next ==
  \/ \E s \in Subs : Submit(s)
  \/ \E s \in Subs : StartRun(s)
  \/ \E s \in Subs, v \in {"passed", "failed"} : EndRun(s, v)
  \/ \E a \in Agents, s \in Subs, v \in Verdicts : Vote(a, s, v)
  \/ \E s \in Subs : Settle(s)
  \/ \E c \in Calls, s \in Subs : Dispatch(c, s)
  \/ \E c \in Calls : ReadStats(c)
  \/ \E c \in Calls : InsertSnapshot(c)
  \/ \E c \in Calls : GiveUp(c)
  \/ \E c \in Calls : EngineFails(c)

Spec == Init /\ [][Next]_vars

-----------------------------------------------------------------------------
(* Properties.                                                              *)

(* The snapshot that is read as the latest counts every submission whose    *)
(* event is processed, through repeated dispatches, failures and runs that  *)
(* start over, unless two recalculations of the agent overlapped: then the  *)
(* one that read first may have inserted last, and nobody repeats it        *)
(* (recalculate 37-98, audit 459-464).                                      *)
LatestCoversSettled ==
  \A s \in processed :
    Worker[s] \notin overlapped => s \in Latest(Worker[s]).counted

(* Whoever voted had submitted enough and had been accepted before, if no   *)
(* operator wrote them a snapshot: votes make settlements, settlements      *)
(* snapshots, and snapshots voters, so that a network without a seeded      *)
(* agent never settles anything (audit 465-471, settleBounty 544-555).      *)
VotersHaveEarned ==
  \A a \in Agents \ Seeded :
    (\E s \in Subs : votes[s][a] # None) =>
      /\ \E s \in settled : Worker[s] = a
      /\ Cardinality(Attempts(a)) >= MinSample

(* Work is rewarded: whatever an agent has done so far, in no history of up *)
(* to MaxHistory attempts that lies ahead of it is the score not between 0  *)
(* and 100 points, or would one more submission whose test passes lower it  *)
(* or earn less than one whose test fails, or would one whose test fails    *)
(* raise it (calculateReliability).  The last is said of early attempts     *)
(* only: after some twenty failures, the confidence that one more adds can  *)
(* outweigh what it takes from the success rate.                            *)
Early == 15

History(n, p, m, g) ==
  [attempts |-> n, successes |-> p, passed |-> p, failed |-> n - p,
   median |-> m, agreement |-> g]
After(f, success) ==
  History(f.attempts + 1, f.successes + success, f.median, f.agreement)
FairTo(f) ==
  /\ Score(f) \in 0 .. Scale
  /\ Score(After(f, 1)) >= Score(f)
  /\ Score(After(f, 1)) >= Score(After(f, 0))
  /\ f.attempts <= Early => Score(After(f, 0)) <= Score(f)

Histories ==
  UNION {{History(n, p, m, g) : p \in 0 .. n, m \in Medians,
                                g \in {0, Scale \div 2, Scale}} :
           n \in 0 .. MaxHistory}
Unfair == {f \in Histories : ~ FairTo(f)}
LiesAhead(f, a) ==
  /\ f.attempts >= Cardinality(Attempts(a))
  /\ f.successes >= Cardinality({s \in Attempts(a) : status[s] = "passed"})
ScoreRewardsWork == \A a \in Agents, f \in Unfair : ~ LiesAhead(f, a)
=============================================================================
