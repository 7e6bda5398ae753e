---------------------------- MODULE PipelineProofs ----------------------------
(***************************************************************************)
(* Theorems about SubmissionPipeline, and about Feedback, which is built   *)
(* on it: for every number of keys, requests in flight, slots, attempts,   *)
(* stalls and faults, and every cost, balance and quota.                   *)
(***************************************************************************)
EXTENDS Feedback, FiniteSetTheorems, TLAPS

USE PipelineAssumption

-----------------------------------------------------------------------------
(* The inductive invariant of the pipeline.                                 *)

Ends == Verdicts \cup {"running"}
JobStates == {"none", "waiting", "active", "completed", "failed"}
InHandler == {"insert", "mark", "call", "write", "ack"}
HasRun == {"mark", "call", "write", "ack"}

JobRow == [state : JobStates, owner : Workers \cup {None}, attempts : Nat,
  stalls : Nat]
ReqState == [pc : ReqSteps, sub : Subs \cup {None}]
WkState == [pc : InHandler \cup {"idle"}, sub : Subs \cup {None}, run : Nat,
            verdict : Verdicts \cup {None}]

Counters ==
  /\ quota \in Int
  /\ unacked \in Nat
  /\ errors \in Nat
  /\ faults \in Nat

TypedPipeline ==
  /\ Counters
  /\ credits \in Nat
  /\ status \in [Subs -> Ends \cup {"absent", "queued"}]
  /\ runs \in [Subs -> Seq(Ends)]
  /\ job \in [Subs -> JobRow]
  /\ req \in [Requests -> ReqState]
  /\ wk \in [Workers -> WkState]

(* Requests past the commit, jobs and slots are about submissions that were *)
(* charged; an active job has an owner, and a new one has not been tried.   *)
AboutCommitted ==
  /\ \A r \in Requests :
       /\ req[r].pc # "idle" => req[r].sub \in Subs
       /\ req[r].pc = "enqueue" => status[req[r].sub] # "absent"
  /\ \A w \in Workers :
       wk[w].pc # "idle" => wk[w].sub \in Subs /\ status[wk[w].sub] # "absent"
  /\ \A s \in Subs :
       /\ job[s].state = "none" => job[s].attempts = 0 /\ job[s].stalls = 0
       /\ job[s].state # "none" => status[s] # "absent"
       /\ job[s].state = "active" => job[s].owner \in Workers

(* A slot works on a run of its own, which is open until it writes the      *)
(* verdict.                                                                 *)
OwnsItsRun ==
  /\ \A w \in Workers : wk[w].pc \in HasRun =>
       /\ wk[w].run \in 1 .. Len(runs[wk[w].sub])
       /\ wk[w].pc # "ack" => runs[wk[w].sub][wk[w].run] = "running"
       /\ wk[w].pc \in {"write", "ack"} => wk[w].verdict \in Verdicts
       /\ wk[w].pc = "ack" => runs[wk[w].sub][wk[w].run] = wk[w].verdict
  /\ \A v, w \in Workers :
       /\ wk[v].pc \in HasRun /\ wk[w].pc \in HasRun
       /\ wk[v].sub = wk[w].sub /\ wk[v].run = wk[w].run
       => v = w

VerdictsHaveRuns ==
  \A s \in Subs : Decided(s) =>
    \E n \in 1 .. Len(runs[s]) : runs[s][n] = status[s]

(* The units that the counter must hold.                                    *)
Held == InFlight({"commit", "release"})
Units == Cardinality(Committed) + Cardinality(Held)

QuotaCovers ==
  /\ quota <= DailyQuota
  /\ quota + Cost * unacked >= Cost * Units
  /\ faults = 0 => unacked = 0 /\ quota = Cost * Units

(* The runs a submission has, and those that a slot is about to insert,     *)
(* were each paid for with an attempt or a stall.                           *)
Inserting(s) == {w \in Workers : wk[w].pc = "insert" /\ wk[w].sub = s}
Started(s) == Len(runs[s]) + Cardinality(Inserting(s))

PaidFor(s) ==
  /\ job[s].state = "none" => Started(s) = 0
  /\ job[s].state \in {"waiting", "active"} =>
       job[s].attempts < MaxAttempts /\ job[s].stalls <= MaxStalls
  /\ job[s].state = "waiting" => Started(s) <= job[s].attempts + job[s].stalls
  /\ job[s].state = "active" =>
       Started(s) <= job[s].attempts + job[s].stalls + 1
  /\ Started(s) <= MaxAttempts + MaxStalls
RunsArePaidFor == \A s \in Subs : PaidFor(s)

(* Without faults the slot that works on a submission holds its job, and    *)
(* works on its last run; nobody else does.                                 *)
HolderHolds == \A w \in Workers : wk[w].pc # "idle" => Holds(w, wk[w].sub)
ActiveIsWorkedOn ==
  \A s \in Subs : job[s].state = "active" =>
    wk[job[s].owner].pc # "idle" /\ wk[job[s].owner].sub = s
WorksOnLastRun ==
  \A w \in Workers : wk[w].pc \in HasRun => wk[w].run = Len(runs[wk[w].sub])
ShowsItsVerdict ==
  \A w \in Workers : wk[w].pc = "ack" => status[wk[w].sub] = wk[w].verdict

HoldsItsJob ==
  faults = 0 => HolderHolds /\ ActiveIsWorkedOn /\ WorksOnLastRun
    /\ ShowsItsVerdict

WorkIsUnderWay ==
  faults = 0 =>
    \A s \in Subs : status[s] # "absent" =>
      /\ job[s].state = "none" =>
           \E r \in Requests : req[r].pc = "enqueue" /\ req[r].sub = s
      /\ job[s].state = "completed" => status[s] = runs[s][Len(runs[s])]

PipelineSound ==
  /\ TypedPipeline
  /\ AboutCommitted
  /\ OwnsItsRun
  /\ VerdictsHaveRuns
  /\ QuotaCovers
  /\ RunsArePaidFor
  /\ HoldsItsJob
  /\ WorkIsUnderWay

-----------------------------------------------------------------------------
(* Each part is preserved by each step.                                     *)


(* What a step does to one row, the others being left alone.                *)
RequestIs(r, p, s) ==
  /\ req' \in [Requests -> ReqState]
  /\ req'[r].pc = p /\ req'[r].sub = s
  /\ \A x \in Requests : x # r => req'[x] = req[x]

SlotIs(w, p, s, n, v) ==
  /\ wk' \in [Workers -> WkState]
  /\ wk'[w].pc = p /\ wk'[w].sub = s /\ wk'[w].run = n /\ wk'[w].verdict = v
  /\ \A x \in Workers : x # w => wk'[x] = wk[x]

JobIs(s, p, o, a, k) ==
  /\ job' \in [Subs -> JobRow]
  /\ job'[s].state = p /\ job'[s].owner = o /\ job'[s].attempts = a
       /\ job'[s].stalls = k
  /\ \A x \in Subs : x # s => job'[x] = job[x]

RunStarts(s) ==
  /\ runs' \in [Subs -> Seq(Ends)]
  /\ \A x \in Subs : x # s => runs'[x] = runs[x]
  /\ Len(runs[s]) \in Nat /\ Len(runs'[s]) = Len(runs[s]) + 1
  /\ runs'[s][Len(runs[s]) + 1] = "running"
  /\ \A n \in 1 .. Len(runs[s]) : runs'[s][n] = runs[s][n]

RunEnds(s, k, v) ==
  /\ runs' \in [Subs -> Seq(Ends)]
  /\ \A x \in Subs : x # s => runs'[x] = runs[x]
  /\ Len(runs[s]) \in Nat /\ Len(runs'[s]) = Len(runs[s])
  /\ k \in 1 .. Len(runs[s]) /\ runs'[s][k] = v
  /\ \A n \in 1 .. Len(runs[s]) : n # k => runs'[s][n] = runs[s][n]

StatusIs(s, what) ==
  /\ status' \in [Subs -> Ends \cup {"absent", "queued"}]
  /\ status'[s] = what
  /\ \A x \in Subs : x # s => status'[x] = status[x]

LEMMA RequestRows ==
  ASSUME TypedPipeline, NEW r \in Requests
  PROVE  /\ req' = [req EXCEPT ![r] = IdleReq]
              => RequestIs(r, "idle", None)
         /\ \A s \in Subs :
              req' = [req EXCEPT ![r] = [pc |-> "reserve", sub |-> s]]
              => RequestIs(r, "reserve", s)
         /\ \A p \in ReqSteps :
              req' = [req EXCEPT ![r].pc = p]
              => RequestIs(r, p, req[r].sub)
<1>1. req \in [Requests -> ReqState] /\ req[r] \in ReqState
  BY DEF TypedPipeline
<1>2. ASSUME req' = [req EXCEPT ![r] = IdleReq]
      PROVE  RequestIs(r, "idle", None)
  <2>1. \A x \in Requests : x # r => req'[x] = req[x]
    BY <1>1, <1>2
  <2>2. req'[r].pc = "idle" /\ req'[r].sub = None
    BY <1>1, <1>2 DEF ReqState, IdleReq, ReqSteps
  <2>3. req'[r] \in ReqState
    BY <1>1, <1>2 DEF ReqState, IdleReq, ReqSteps
  <2>4. req' \in [Requests -> ReqState]
    BY <1>1, <1>2, <2>1, <2>3
  <2> QED
    BY <2>1, <2>2, <2>4 DEF RequestIs
<1>3. ASSUME NEW s \in Subs, req' = [req EXCEPT ![r] = [pc |-> "reserve",
               sub |-> s]]
      PROVE  RequestIs(r, "reserve", s)
  <2>1. \A x \in Requests : x # r => req'[x] = req[x]
    BY <1>1, <1>3
  <2>2. req'[r].pc = "reserve" /\ req'[r].sub = s
    BY <1>1, <1>3 DEF ReqState, ReqSteps
  <2>3. req'[r] \in ReqState
    BY <1>1, <1>3 DEF ReqState, ReqSteps
  <2>4. req' \in [Requests -> ReqState]
    BY <1>1, <1>3, <2>1, <2>3
  <2> QED
    BY <2>1, <2>2, <2>4 DEF RequestIs
<1>4. ASSUME NEW p \in ReqSteps, req' = [req EXCEPT ![r].pc = p]
      PROVE  RequestIs(r, p, req[r].sub)
  <2>1. \A x \in Requests : x # r => req'[x] = req[x]
    BY <1>1, <1>4
  <2>2. req'[r].pc = p /\ req'[r].sub = req[r].sub
    BY <1>1, <1>4 DEF ReqState
  <2>3. req'[r] \in ReqState
    BY <1>1, <1>4 DEF ReqState
  <2>4. req' \in [Requests -> ReqState]
    BY <1>1, <1>4, <2>1, <2>3
  <2> QED
    BY <2>1, <2>2, <2>4 DEF RequestIs
<1> QED
  BY <1>2, <1>3, <1>4

LEMMA SlotRows ==
  ASSUME TypedPipeline, NEW w \in Workers
  PROVE  /\ wk' = [wk EXCEPT ![w] = IdleWk]
              => SlotIs(w, "idle", None, 0, None)
         /\ \A s \in Subs :
              wk' = [wk EXCEPT ![w] = [IdleWk EXCEPT !.pc = "insert",
                !.sub = s]]
              => SlotIs(w, "insert", s, 0, None)
         /\ \A p \in InHandler :
              wk' = [wk EXCEPT ![w].pc = p]
              => SlotIs(w, p, wk[w].sub, wk[w].run, wk[w].verdict)
         /\ \A p \in InHandler, n \in Nat :
              wk' = [wk EXCEPT ![w].pc = p, ![w].run = n]
              => SlotIs(w, p, wk[w].sub, n, wk[w].verdict)
         /\ \A p \in InHandler, v \in Verdicts :
              wk' = [wk EXCEPT ![w].pc = p, ![w].verdict = v]
              => SlotIs(w, p, wk[w].sub, wk[w].run, v)
<1>1. wk \in [Workers -> WkState] /\ wk[w] \in WkState
  BY DEF TypedPipeline
<1>2. ASSUME wk' = [wk EXCEPT ![w] = IdleWk]
      PROVE  SlotIs(w, "idle", None, 0, None)
  <2>1. \A x \in Workers : x # w => wk'[x] = wk[x]
    BY <1>1, <1>2
  <2>2. wk'[w].pc = "idle" /\ wk'[w].sub = None /\ wk'[w].run = 0
          /\ wk'[w].verdict = None
    BY <1>1, <1>2 DEF WkState, IdleWk
  <2>3. wk'[w] \in WkState
    BY <1>1, <1>2 DEF WkState, IdleWk
  <2>4. wk' \in [Workers -> WkState]
    BY <1>1, <1>2, <2>1, <2>3
  <2> QED
    BY <2>1, <2>2, <2>4 DEF SlotIs
<1>3. ASSUME NEW s \in Subs,
               wk' = [wk EXCEPT ![w] = [IdleWk EXCEPT !.pc = "insert",
                 !.sub = s]]
      PROVE  SlotIs(w, "insert", s, 0, None)
  <2>1. \A x \in Workers : x # w => wk'[x] = wk[x]
    BY <1>1, <1>3
  <2>2. wk'[w].pc = "insert" /\ wk'[w].sub = s /\ wk'[w].run = 0
          /\ wk'[w].verdict = None
    BY <1>1, <1>3 DEF WkState, IdleWk, InHandler
  <2>3. wk'[w] \in WkState
    BY <1>1, <1>3 DEF WkState, IdleWk, InHandler
  <2>4. wk' \in [Workers -> WkState]
    BY <1>1, <1>3, <2>1, <2>3
  <2> QED
    BY <2>1, <2>2, <2>4 DEF SlotIs
<1>4. ASSUME NEW p \in InHandler, wk' = [wk EXCEPT ![w].pc = p]
      PROVE  SlotIs(w, p, wk[w].sub, wk[w].run, wk[w].verdict)
  <2>1. \A x \in Workers : x # w => wk'[x] = wk[x]
    BY <1>1, <1>4
  <2>2. wk'[w].pc = p /\ wk'[w].sub = wk[w].sub /\ wk'[w].run = wk[w].run
          /\ wk'[w].verdict = wk[w].verdict
    BY <1>1, <1>4 DEF WkState
  <2>3. wk'[w] \in WkState
    BY <1>1, <1>4 DEF WkState
  <2>4. wk' \in [Workers -> WkState]
    BY <1>1, <1>4, <2>1, <2>3
  <2> QED
    BY <2>1, <2>2, <2>4 DEF SlotIs
<1>5. ASSUME NEW p \in InHandler, NEW n \in Nat, wk' = [wk EXCEPT ![w].pc = p,
               ![w].run = n]
      PROVE  SlotIs(w, p, wk[w].sub, n, wk[w].verdict)
  <2>1. \A x \in Workers : x # w => wk'[x] = wk[x]
    BY <1>1, <1>5
  <2>2. wk'[w].pc = p /\ wk'[w].sub = wk[w].sub /\ wk'[w].run = n
          /\ wk'[w].verdict = wk[w].verdict
    BY <1>1, <1>5 DEF WkState
  <2>3. wk'[w] \in WkState
    BY <1>1, <1>5 DEF WkState
  <2>4. wk' \in [Workers -> WkState]
    BY <1>1, <1>5, <2>1, <2>3
  <2> QED
    BY <2>1, <2>2, <2>4 DEF SlotIs
<1>6. ASSUME NEW p \in InHandler, NEW v \in Verdicts,
               wk' = [wk EXCEPT ![w].pc = p, ![w].verdict = v]
      PROVE  SlotIs(w, p, wk[w].sub, wk[w].run, v)
  <2>1. \A x \in Workers : x # w => wk'[x] = wk[x]
    BY <1>1, <1>6
  <2>2. wk'[w].pc = p /\ wk'[w].sub = wk[w].sub /\ wk'[w].run = wk[w].run
          /\ wk'[w].verdict = v
    BY <1>1, <1>6 DEF WkState
  <2>3. wk'[w] \in WkState
    BY <1>1, <1>6 DEF WkState
  <2>4. wk' \in [Workers -> WkState]
    BY <1>1, <1>6, <2>1, <2>3
  <2> QED
    BY <2>1, <2>2, <2>4 DEF SlotIs
<1> QED
  BY <1>2, <1>3, <1>4, <1>5, <1>6

LEMMA JobRows ==
  ASSUME TypedPipeline, NEW s \in Subs
  PROVE  /\ \A p \in JobStates :
              job' = [job EXCEPT ![s].state = p]
              => JobIs(s, p, job[s].owner, job[s].attempts, job[s].stalls)
         /\ \A p \in JobStates, o \in Workers \cup {None} :
              job' = [job EXCEPT ![s].state = p, ![s].owner = o]
              => JobIs(s, p, o, job[s].attempts, job[s].stalls)
         /\ \A p \in JobStates :
              job' = [job EXCEPT ![s] = [@ EXCEPT !.owner = None, !.state = p]]
              => JobIs(s, p, None, job[s].attempts, job[s].stalls)
         /\ \A p \in JobStates, n \in Nat :
              job' = [job EXCEPT ![s] = [@ EXCEPT !.owner = None,
                !.attempts = n, !.state = p]]
              => JobIs(s, p, None, n, job[s].stalls)
         /\ \A p \in JobStates, n \in Nat :
              job' = [job EXCEPT ![s] = [@ EXCEPT !.owner = None, !.state = p,
                !.stalls = n]]
              => JobIs(s, p, None, job[s].attempts, n)
<1>1. job \in [Subs -> JobRow] /\ job[s] \in JobRow
  BY DEF TypedPipeline
<1>2. ASSUME NEW p \in JobStates, job' = [job EXCEPT ![s].state = p]
      PROVE  JobIs(s, p, job[s].owner, job[s].attempts, job[s].stalls)
  <2>1. \A x \in Subs : x # s => job'[x] = job[x]
    BY <1>1, <1>2
  <2>2. job'[s].state = p /\ job'[s].owner = job[s].owner
          /\ job'[s].attempts = job[s].attempts
               /\ job'[s].stalls = job[s].stalls
    BY <1>1, <1>2 DEF JobRow
  <2>3. job'[s] \in JobRow
    BY <1>1, <1>2 DEF JobRow
  <2>4. job' \in [Subs -> JobRow]
    BY <1>1, <1>2, <2>1, <2>3
  <2> QED
    BY <2>1, <2>2, <2>4 DEF JobIs
<1>3. ASSUME NEW p \in JobStates, NEW o \in Workers \cup {None},
               job' = [job EXCEPT ![s].state = p, ![s].owner = o]
      PROVE  JobIs(s, p, o, job[s].attempts, job[s].stalls)
  <2>1. \A x \in Subs : x # s => job'[x] = job[x]
    BY <1>1, <1>3
  <2>2. job'[s].state = p /\ job'[s].owner = o
          /\ job'[s].attempts = job[s].attempts
               /\ job'[s].stalls = job[s].stalls
    BY <1>1, <1>3 DEF JobRow
  <2>3. job'[s] \in JobRow
    BY <1>1, <1>3 DEF JobRow
  <2>4. job' \in [Subs -> JobRow]
    BY <1>1, <1>3, <2>1, <2>3
  <2> QED
    BY <2>1, <2>2, <2>4 DEF JobIs
<1>4. ASSUME NEW p \in JobStates,
               job' = [job EXCEPT ![s] = [@ EXCEPT !.owner = None,
                 !.state = p]]
      PROVE  JobIs(s, p, None, job[s].attempts, job[s].stalls)
  <2>1. \A x \in Subs : x # s => job'[x] = job[x]
    BY <1>1, <1>4
  <2>2. job'[s].state = p /\ job'[s].owner = None
          /\ job'[s].attempts = job[s].attempts
               /\ job'[s].stalls = job[s].stalls
    BY <1>1, <1>4 DEF JobRow
  <2>3. job'[s] \in JobRow
    BY <1>1, <1>4 DEF JobRow
  <2>4. job' \in [Subs -> JobRow]
    BY <1>1, <1>4, <2>1, <2>3
  <2> QED
    BY <2>1, <2>2, <2>4 DEF JobIs
<1>5. ASSUME NEW p \in JobStates, NEW n \in Nat,
             job' = [job EXCEPT ![s] = [@ EXCEPT !.owner = None,
               !.attempts = n, !.state = p]]
      PROVE  JobIs(s, p, None, n, job[s].stalls)
  <2>1. \A x \in Subs : x # s => job'[x] = job[x]
    BY <1>1, <1>5
  <2>2. job'[s].state = p /\ job'[s].owner = None /\ job'[s].attempts = n
          /\ job'[s].stalls = job[s].stalls
    BY <1>1, <1>5 DEF JobRow
  <2>3. job'[s] \in JobRow
    BY <1>1, <1>5 DEF JobRow
  <2>4. job' \in [Subs -> JobRow]
    BY <1>1, <1>5, <2>1, <2>3
  <2> QED
    BY <2>1, <2>2, <2>4 DEF JobIs
<1>6. ASSUME NEW p \in JobStates, NEW n \in Nat,
             job' = [job EXCEPT ![s] = [@ EXCEPT !.owner = None, !.state = p,
               !.stalls = n]]
      PROVE  JobIs(s, p, None, job[s].attempts, n)
  <2>1. \A x \in Subs : x # s => job'[x] = job[x]
    BY <1>1, <1>6
  <2>2. job'[s].state = p /\ job'[s].owner = None
          /\ job'[s].attempts = job[s].attempts /\ job'[s].stalls = n
    BY <1>1, <1>6 DEF JobRow
  <2>3. job'[s] \in JobRow
    BY <1>1, <1>6 DEF JobRow
  <2>4. job' \in [Subs -> JobRow]
    BY <1>1, <1>6, <2>1, <2>3
  <2> QED
    BY <2>1, <2>2, <2>4 DEF JobIs
<1> QED
  BY <1>2, <1>3, <1>4, <1>5, <1>6

LEMMA RunsRows ==
  ASSUME TypedPipeline, NEW s \in Subs
  PROVE  /\ runs' = [runs EXCEPT ![s] = Append(@, "running")] => RunStarts(s)
         /\ \A k \in 1 .. Len(runs[s]), v \in Verdicts :
              runs' = [runs EXCEPT ![s][k] = v] => RunEnds(s, k, v)
<1>1. runs \in [Subs -> Seq(Ends)] /\ runs[s] \in Seq(Ends)
  BY DEF TypedPipeline
<1>2. ASSUME runs' = [runs EXCEPT ![s] = Append(@, "running")]
      PROVE  RunStarts(s)
  <2>1. PICK t \in Seq(Ends) : t = runs[s]
    BY <1>1
  <2>2. Append(t, "running") \in Seq(Ends)
    BY <2>1 DEF Ends
  <2>3. /\ Len(t) \in Nat /\ Len(Append(t, "running")) = Len(t) + 1
        /\ Append(t, "running")[Len(t) + 1] = "running"
        /\ \A n \in 1 .. Len(t) : Append(t, "running")[n] = t[n]
    BY <2>1
  <2>4. runs'[s] = Append(t, "running")
          /\ \A x \in Subs : x # s => runs'[x] = runs[x]
    BY <1>1, <1>2, <2>1
  <2>5. runs' \in [Subs -> Seq(Ends)]
    BY <1>1, <1>2, <2>2, <2>4
  <2> QED
    BY <2>1, <2>3, <2>4, <2>5 DEF RunStarts
<1>3. ASSUME NEW k \in 1 .. Len(runs[s]), NEW v \in Verdicts,
             runs' = [runs EXCEPT ![s][k] = v]
      PROVE  RunEnds(s, k, v)
  <2>1. PICK t \in Seq(Ends) : t = runs[s]
    BY <1>1
  <2>2. [t EXCEPT ![k] = v] \in Seq(Ends)
    BY <2>1, <1>3 DEF Ends
  <2>3. /\ Len(t) \in Nat /\ Len([t EXCEPT ![k] = v]) = Len(t)
        /\ [t EXCEPT ![k] = v][k] = v
        /\ \A n \in 1 .. Len(t) : n # k => [t EXCEPT ![k] = v][n] = t[n]
    BY <2>1, <1>3
  <2>4. runs'[s] = [t EXCEPT ![k] = v]
          /\ \A x \in Subs : x # s => runs'[x] = runs[x]
    BY <1>1, <1>3, <2>1
  <2>5. runs' \in [Subs -> Seq(Ends)]
    BY <1>1, <1>3, <2>2, <2>4
  <2> QED
    BY <2>1, <1>3, <2>3, <2>4, <2>5 DEF RunEnds
<1> QED
  BY <1>2, <1>3

LEMMA StatusRows ==
  ASSUME TypedPipeline, NEW s \in Subs
  PROVE  \A what \in Ends \cup {"queued"} :
           status' = [status EXCEPT ![s] = what] => StatusIs(s, what)
  BY DEF TypedPipeline, StatusIs

(* What each step does.                                                     *)

LEMMA SubmitDoes ==
  ASSUME TypedPipeline, NEW r \in Requests, NEW x \in Subs, Submit(r, x)
  PROVE  /\ req[r].pc = "idle" /\ RequestIs(r, "reserve", x)
         /\ UNCHANGED <<quota, credits, status, runs, job, wk, unacked,
              errors, faults>>
  BY RequestRows DEF Submit

LEMMA ReserveDoes ==
  ASSUME TypedPipeline, NEW r \in Requests, Reserve(r)
  PROVE  /\ req[r].pc = "reserve"
         /\ \/ /\ quota + Cost <= DailyQuota /\ quota' = quota + Cost
               /\ RequestIs(r, "commit", req[r].sub)
            \/ quota' = quota /\ RequestIs(r, "idle", None)
         /\ UNCHANGED <<credits, status, runs, job, wk, unacked, errors,
              faults>>
<1>1. "commit" \in ReqSteps
  BY DEF ReqSteps
<1> QED
  BY <1>1, RequestRows DEF Reserve, WithinQuota

LEMMA CommitDoes ==
  ASSUME TypedPipeline, AboutCommitted, NEW r \in Requests, Commit(r)
  PROVE  /\ req[r].pc = "commit" /\ req[r].sub \in Subs
         /\ \/ /\ credits >= Cost /\ status[req[r].sub] = "absent"
               /\ credits' = credits - Cost
               /\ StatusIs(req[r].sub, "queued")
               /\ RequestIs(r, "enqueue", req[r].sub)
            \/ /\ ~ Chargeable(req[r].sub)
               /\ UNCHANGED <<credits, status>>
               /\ RequestIs(r, "release", req[r].sub)
         /\ UNCHANGED <<quota, runs, job, wk, unacked, errors, faults>>
<1>1. req[r].pc = "commit" /\ req[r].sub \in Subs
        /\ {"enqueue", "release"} \subseteq ReqSteps
  BY DEF Commit, AboutCommitted, ReqSteps
<1>2. CASE Chargeable(req[r].sub)
  BY <1>1, <1>2, RequestRows, StatusRows DEF Commit, Charge, Chargeable
<1>3. CASE ~ Chargeable(req[r].sub)
  BY <1>1, <1>3, RequestRows DEF Commit
<1> QED
  BY <1>2, <1>3

LEMMA CommitUnacknowledgedDoes ==
  ASSUME TypedPipeline, AboutCommitted, NEW r \in Requests,
           CommitUnacknowledged(r)
  PROVE  /\ req[r].pc = "commit" /\ req[r].sub \in Subs
         /\ credits >= Cost /\ status[req[r].sub] = "absent"
         /\ credits' = credits - Cost
         /\ StatusIs(req[r].sub, "queued")
         /\ RequestIs(r, "release", req[r].sub)
         /\ unacked' = unacked + 1 /\ faults' = faults + 1
         /\ UNCHANGED <<quota, runs, job, wk, errors>>
<1>1. req[r].pc = "commit" /\ req[r].sub \in Subs /\ "release" \in ReqSteps
  BY DEF CommitUnacknowledged, AboutCommitted, ReqSteps
<1> QED
  BY <1>1, RequestRows, StatusRows
     DEF CommitUnacknowledged, Charge, Chargeable, Fault

LEMMA ReleaseDoes ==
  ASSUME TypedPipeline, NEW r \in Requests, Release(r)
  PROVE  /\ req[r].pc = "release" /\ quota' = quota - Cost
              /\ RequestIs(r, "idle", None)
         /\ UNCHANGED <<credits, status, runs, job, wk, unacked, errors,
              faults>>
  BY RequestRows DEF Release

LEMMA EnqueueDoes ==
  ASSUME TypedPipeline, AboutCommitted, NEW r \in Requests, Enqueue(r)
  PROVE  /\ req[r].pc = "enqueue" /\ req[r].sub \in Subs
         /\ RequestIs(r, "idle", None)
         /\ \/ /\ job[req[r].sub].state = "none"
               /\ JobIs(req[r].sub, "waiting", job[req[r].sub].owner,
                        job[req[r].sub].attempts, job[req[r].sub].stalls)
            \/ job[req[r].sub].state # "none" /\ job' = job
         /\ UNCHANGED <<quota, credits, status, runs, wk, unacked, errors,
              faults>>
<1> DEFINE s == req[r].sub
<1>1. req[r].pc = "enqueue" /\ s \in Subs /\ RequestIs(r, "idle", None)
  BY RequestRows DEF Enqueue, AboutCommitted
<1>2. job \in [Subs -> JobRow] /\ job[s].state \in JobStates
        /\ "waiting" \in JobStates
  BY <1>1 DEF TypedPipeline, JobRow, JobStates
<1>3. job' = [job EXCEPT ![s].state = IF job[s].state = "none" THEN "waiting" ELSE job[s].state]
  BY DEF Enqueue
<1>4. CASE job[s].state = "none"
  <2>1. JobIs(s, "waiting", job[s].owner, job[s].attempts, job[s].stalls)
    BY <1>1, <1>2, <1>3, <1>4, JobRows
  <2> QED
    BY <1>1, <1>4, <2>1 DEF Enqueue
<1>5. CASE job[s].state # "none"
  <2>1. job' = job
    BY <1>1, <1>2, <1>3, <1>5 DEF JobRow
  <2> QED
    BY <1>1, <1>5, <2>1 DEF Enqueue
<1> QED
  BY <1>4, <1>5

LEMMA AbandonDoes ==
  ASSUME TypedPipeline, NEW r \in Requests, Abandon(r)
  PROVE  /\ req[r].pc # "idle" /\ RequestIs(r, "idle", None)
              /\ faults' = faults + 1
         /\ UNCHANGED <<quota, credits, status, runs, job, wk, unacked,
              errors>>
  BY RequestRows DEF Abandon, Fault

LEMMA TakeDoes ==
  ASSUME TypedPipeline, NEW w \in Workers, NEW x \in Subs, Take(w, x)
  PROVE  /\ wk[w].pc = "idle" /\ job[x].state = "waiting"
         /\ SlotIs(w, "insert", x, 0, None)
         /\ JobIs(x, "active", w, job[x].attempts, job[x].stalls)
         /\ UNCHANGED <<apiVars, status, runs, errors, faults>>
<1>1. "active" \in JobStates
  BY DEF JobStates
<1> QED
  BY <1>1, SlotRows, JobRows DEF Take

LEMMA InsertRunDoes ==
  ASSUME TypedPipeline, AboutCommitted, NEW w \in Workers, InsertRun(w)
  PROVE  /\ wk[w].pc = "insert" /\ wk[w].sub \in Subs
         /\ SlotIs(w, "mark", wk[w].sub, Len(runs[wk[w].sub]) + 1,
              wk[w].verdict)
         /\ RunStarts(wk[w].sub)
         /\ UNCHANGED <<apiVars, status, job, errors, faults>>
<1>1. wk[w].pc = "insert" /\ wk[w].sub \in Subs /\ "mark" \in InHandler
  BY DEF InsertRun, AboutCommitted, InHandler
<1>2. Len(runs[wk[w].sub]) + 1 \in Nat
  BY <1>1 DEF TypedPipeline
<1> QED
  BY <1>1, <1>2, SlotRows, RunsRows DEF InsertRun

LEMMA MarkRunningDoes ==
  ASSUME TypedPipeline, AboutCommitted, NEW w \in Workers, MarkRunning(w)
  PROVE  /\ wk[w].pc = "mark" /\ wk[w].sub \in Subs
         /\ SlotIs(w, "call", wk[w].sub, wk[w].run, wk[w].verdict)
         /\ StatusIs(wk[w].sub, "running")
         /\ UNCHANGED <<apiVars, runs, job, errors, faults>>
<1>1. wk[w].pc = "mark" /\ wk[w].sub \in Subs /\ "call" \in InHandler
        /\ "running" \in Ends
  BY DEF MarkRunning, AboutCommitted, InHandler, Ends
<1> QED
  BY <1>1, SlotRows, StatusRows DEF MarkRunning, Goto

LEMMA SandboxAnswersDoes ==
  ASSUME TypedPipeline, AboutCommitted, NEW w \in Workers, NEW v \in Verdicts,
         SandboxAnswers(w, v)
  PROVE  /\ wk[w].pc = "call" /\ wk[w].sub \in Subs
         /\ SlotIs(w, "write", wk[w].sub, wk[w].run, v)
         /\ UNCHANGED <<apiVars, status, runs, job, errors, faults>>
<1>1. wk[w].pc = "call" /\ wk[w].sub \in Subs /\ "write" \in InHandler
  BY DEF SandboxAnswers, AboutCommitted, InHandler
<1> QED
  BY <1>1, SlotRows DEF SandboxAnswers

LEMMA WriteResultDoes ==
  ASSUME TypedPipeline, AboutCommitted, OwnsItsRun, NEW w \in Workers,
           WriteResult(w)
  PROVE  /\ wk[w].pc = "write" /\ wk[w].sub \in Subs
         /\ wk[w].run \in 1 .. Len(runs[wk[w].sub])
              /\ wk[w].verdict \in Verdicts
         /\ SlotIs(w, "ack", wk[w].sub, wk[w].run, wk[w].verdict)
         /\ RunEnds(wk[w].sub, wk[w].run, wk[w].verdict)
         /\ StatusIs(wk[w].sub, wk[w].verdict)
         /\ UNCHANGED <<apiVars, job, errors, faults>>
<1>1. /\ wk[w].pc = "write" /\ wk[w].sub \in Subs /\ "ack" \in InHandler
      /\ wk[w].run \in 1 .. Len(runs[wk[w].sub]) /\ wk[w].verdict \in Verdicts
      /\ wk[w].verdict \in Ends
  BY DEF WriteResult, AboutCommitted, OwnsItsRun, HasRun, InHandler, Ends
<1> QED
  BY <1>1, SlotRows, RunsRows, StatusRows DEF WriteResult, WriteVerdict, Goto

LEMMA AckDoes ==
  ASSUME TypedPipeline, AboutCommitted, NEW w \in Workers, Ack(w)
  PROVE  /\ wk[w].pc = "ack" /\ wk[w].sub \in Subs
         /\ SlotIs(w, "idle", None, 0, None)
         /\ \/ /\ Holds(w, wk[w].sub)
               /\ JobIs(wk[w].sub, "completed", None, job[wk[w].sub].attempts,
                        job[wk[w].sub].stalls)
            \/ ~ Holds(w, wk[w].sub) /\ job' = job
         /\ UNCHANGED <<apiVars, status, runs, errors, faults>>
<1>1. wk[w].pc = "ack" /\ wk[w].sub \in Subs /\ "completed" \in JobStates
  BY DEF Ack, AboutCommitted, JobStates
<1> QED
  BY <1>1, SlotRows, JobRows DEF Ack

LEMMA HandlerThrowsDoes ==
  ASSUME TypedPipeline, AboutCommitted, NEW w \in Workers, HandlerThrows(w)
  PROVE  /\ wk[w].pc \in {"insert", "mark", "call", "write"}
              /\ wk[w].sub \in Subs
         /\ SlotIs(w, "idle", None, 0, None)
         /\ \/ /\ Holds(w, wk[w].sub)
               /\ JobIs(wk[w].sub,
                        IF job[wk[w].sub].attempts + 1 < MaxAttempts THEN "waiting"
                        ELSE "failed",
                        None, job[wk[w].sub].attempts + 1,
                          job[wk[w].sub].stalls)
            \/ ~ Holds(w, wk[w].sub) /\ job' = job
         /\ errors' = errors + 1
         /\ UNCHANGED <<apiVars, status, runs, faults>>
<1> DEFINE s == wk[w].sub
           p == IF job[s].attempts + 1 < MaxAttempts THEN "waiting" ELSE "failed"
<1>1. wk[w].pc \in {"insert", "mark", "call", "write"} /\ s \in Subs
  BY DEF HandlerThrows, AboutCommitted
<1>2. p \in JobStates /\ job[s].attempts + 1 \in Nat
  BY <1>1 DEF JobStates, TypedPipeline, JobRow
<1>3. CASE Holds(w, s)
  <2>2. job' = [job EXCEPT ![s] = [@ EXCEPT !.owner = None,
          !.attempts = job[s].attempts + 1,
                                            !.state = p]]
    BY <1>1, <1>3 DEF HandlerThrows, AttemptFails
  <2>1. JobIs(s, p, None, job[s].attempts + 1, job[s].stalls)
    BY <1>1, <1>2, <2>2, JobRows
  <2> QED
    BY <1>1, <1>3, <2>1, SlotRows DEF HandlerThrows
<1>4. CASE ~ Holds(w, s)
  BY <1>1, <1>4, SlotRows DEF HandlerThrows
<1> QED
  BY <1>3, <1>4

LEMMA WorkerCrashDoes ==
  ASSUME TypedPipeline, NEW w \in Workers, WorkerCrash(w)
  PROVE  /\ SlotIs(w, "idle", None, 0, None) /\ faults' = faults + 1
         /\ UNCHANGED <<apiVars, status, runs, job, errors>>
  BY SlotRows DEF WorkerCrash, Fault

LEMMA StalledDoes ==
  ASSUME TypedPipeline, NEW x \in Subs, job' = Stalled(x)
  PROVE  \/ /\ job[x].stalls < MaxStalls
            /\ JobIs(x, "waiting", None, job[x].attempts, job[x].stalls + 1)
         \/ JobIs(x, "failed", None, job[x].attempts, job[x].stalls)
<1>1. job[x].stalls + 1 \in Nat /\ {"waiting", "failed"} \subseteq JobStates
  BY DEF TypedPipeline, JobRow, JobStates
<1>2. CASE job[x].stalls < MaxStalls
  <2>1. job' = [job EXCEPT ![x] = [@ EXCEPT !.owner = None,
          !.state = "waiting",
                                            !.stalls = job[x].stalls + 1]]
    BY <1>2 DEF Stalled
  <2> QED
    BY <1>1, <1>2, <2>1, JobRows
<1>3. CASE ~ (job[x].stalls < MaxStalls)
  BY <1>1, <1>3, JobRows DEF Stalled
<1> QED
  BY <1>2, <1>3

-----------------------------------------------------------------------------
(* Each part is preserved by each step.                                     *)

LEMMA TypedStep == PipelineSound /\ [Next]_vars => TypedPipeline'
<1> SUFFICES ASSUME PipelineSound, [Next]_vars PROVE TypedPipeline'
  OBVIOUS
<1> USE DEF PipelineSound, TypedPipeline, Counters
<1>1. ASSUME NEW r \in Requests, NEW x \in Subs, Submit(r, x)
      PROVE  TypedPipeline'
  BY <1>1, SubmitDoes DEF RequestIs
<1>2. ASSUME NEW r \in Requests, Reserve(r)
      PROVE  TypedPipeline'
  BY <1>2, ReserveDoes DEF RequestIs
<1>3. ASSUME NEW r \in Requests, Commit(r)
      PROVE  TypedPipeline'
  BY <1>3, CommitDoes DEF RequestIs, StatusIs
<1>4. ASSUME NEW r \in Requests, Release(r)
      PROVE  TypedPipeline'
  BY <1>4, ReleaseDoes DEF RequestIs
<1>5. ASSUME NEW r \in Requests, Enqueue(r)
      PROVE  TypedPipeline'
  BY <1>5, EnqueueDoes DEF RequestIs, JobIs
<1>6. ASSUME NEW r \in Requests, CommitUnacknowledged(r)
      PROVE  TypedPipeline'
  BY <1>6, CommitUnacknowledgedDoes DEF RequestIs, StatusIs
<1>7. ASSUME NEW r \in Requests, Abandon(r)
      PROVE  TypedPipeline'
  BY <1>7, AbandonDoes DEF RequestIs
<1>8. ASSUME NEW w \in Workers, NEW x \in Subs, Take(w, x)
      PROVE  TypedPipeline'
  BY <1>8, TakeDoes DEF SlotIs, JobIs, apiVars
<1>9. ASSUME NEW w \in Workers, InsertRun(w)
      PROVE  TypedPipeline'
  BY <1>9, InsertRunDoes DEF SlotIs, RunStarts, apiVars
<1>10. ASSUME NEW w \in Workers, MarkRunning(w)
      PROVE  TypedPipeline'
  BY <1>10, MarkRunningDoes DEF SlotIs, StatusIs, apiVars
<1>11. ASSUME NEW w \in Workers, NEW v \in Verdicts, SandboxAnswers(w, v)
      PROVE  TypedPipeline'
  BY <1>11, SandboxAnswersDoes DEF SlotIs, apiVars
<1>12. ASSUME NEW w \in Workers, WriteResult(w)
      PROVE  TypedPipeline'
  BY <1>12, WriteResultDoes DEF SlotIs, RunEnds, StatusIs, apiVars
<1>13. ASSUME NEW w \in Workers, Ack(w)
      PROVE  TypedPipeline'
  BY <1>13, AckDoes DEF SlotIs, JobIs, apiVars
<1>14. ASSUME NEW w \in Workers, HandlerThrows(w)
      PROVE  TypedPipeline'
  BY <1>14, HandlerThrowsDoes DEF SlotIs, JobIs, apiVars
<1>15. ASSUME NEW w \in Workers, WorkerCrash(w)
      PROVE  TypedPipeline'
  BY <1>15, WorkerCrashDoes DEF SlotIs, apiVars
<1>16. ASSUME NEW x \in Subs, LockExpires(x)
      PROVE  TypedPipeline'
  BY <1>16, StalledDoes DEF LockExpires, JobIs, apiVars
<1>17. ASSUME NEW x \in Subs, LockLost(x)
      PROVE  TypedPipeline'
  <2>1. faults' \in Nat
    <3>1. faults' = faults + 1 /\ faults \in Nat
      BY <1>17 DEF LockLost, Fault
    <3> QED
      BY <3>1
  <2>2. job' \in [Subs -> JobRow]
    BY <1>17, StalledDoes DEF LockLost, JobIs
  <2> QED
    BY <1>17, <2>1, <2>2 DEF LockLost, apiVars
<1>18. CASE UNCHANGED vars
  BY <1>18 DEF vars
<1> QED
  BY <1>1, <1>2, <1>3, <1>4, <1>5, <1>6, <1>7, <1>8, <1>9, <1>10, <1>11,
     <1>12, <1>13, <1>14, <1>15, <1>16, <1>17, <1>18 DEF Next, Proceed, Work

LEMMA AboutStep == PipelineSound /\ [Next]_vars => AboutCommitted'
<1> SUFFICES ASSUME PipelineSound, [Next]_vars PROVE AboutCommitted'
  OBVIOUS
<1> USE DEF PipelineSound, AboutCommitted
<1>1. ASSUME NEW r \in Requests, NEW x \in Subs, Submit(r, x)
      PROVE  AboutCommitted'
  BY <1>1, SubmitDoes DEF RequestIs
<1>2. ASSUME NEW r \in Requests, Reserve(r)
      PROVE  AboutCommitted'
  BY <1>2, ReserveDoes DEF RequestIs
<1>3. ASSUME NEW r \in Requests, Commit(r)
      PROVE  AboutCommitted'
  BY <1>3, CommitDoes DEF RequestIs, StatusIs
<1>4. ASSUME NEW r \in Requests, Release(r)
      PROVE  AboutCommitted'
  BY <1>4, ReleaseDoes DEF RequestIs
<1>5. ASSUME NEW r \in Requests, Enqueue(r)
      PROVE  AboutCommitted'
  BY <1>5, EnqueueDoes DEF RequestIs, JobIs
<1>6. ASSUME NEW r \in Requests, CommitUnacknowledged(r)
      PROVE  AboutCommitted'
  BY <1>6, CommitUnacknowledgedDoes DEF RequestIs, StatusIs
<1>7. ASSUME NEW r \in Requests, Abandon(r)
      PROVE  AboutCommitted'
  BY <1>7, AbandonDoes DEF RequestIs
<1>8. ASSUME NEW w \in Workers, NEW x \in Subs, Take(w, x)
      PROVE  AboutCommitted'
  BY <1>8, TakeDoes DEF SlotIs, JobIs, apiVars
<1>9. ASSUME NEW w \in Workers, InsertRun(w)
      PROVE  AboutCommitted'
  BY <1>9, InsertRunDoes DEF SlotIs, RunStarts, apiVars
<1>10. ASSUME NEW w \in Workers, MarkRunning(w)
      PROVE  AboutCommitted'
  BY <1>10, MarkRunningDoes DEF SlotIs, StatusIs, apiVars
<1>11. ASSUME NEW w \in Workers, NEW v \in Verdicts, SandboxAnswers(w, v)
      PROVE  AboutCommitted'
  BY <1>11, SandboxAnswersDoes DEF SlotIs, apiVars
<1>12. ASSUME NEW w \in Workers, WriteResult(w)
      PROVE  AboutCommitted'
  <2>1. /\ \A x \in Subs : status[x] # "absent" => status'[x] # "absent"
        /\ UNCHANGED <<req, job>>
    BY <1>12, WriteResultDoes DEF StatusIs, Verdicts, apiVars
  <2> QED
    BY <1>12, WriteResultDoes, <2>1 DEF SlotIs
<1>13. ASSUME NEW w \in Workers, Ack(w)
      PROVE  AboutCommitted'
  BY <1>13, AckDoes DEF SlotIs, JobIs, apiVars
<1>14. ASSUME NEW w \in Workers, HandlerThrows(w)
      PROVE  AboutCommitted'
  BY <1>14, HandlerThrowsDoes DEF SlotIs, JobIs, apiVars
<1>15. ASSUME NEW w \in Workers, WorkerCrash(w)
      PROVE  AboutCommitted'
  BY <1>15, WorkerCrashDoes DEF SlotIs, apiVars
<1>16. ASSUME NEW x \in Subs, LockExpires(x)
      PROVE  AboutCommitted'
  BY <1>16, StalledDoes DEF LockExpires, JobIs, apiVars
<1>17. ASSUME NEW x \in Subs, LockLost(x)
      PROVE  AboutCommitted'
  BY ZenonT(40), <1>17, StalledDoes DEF LockLost, Fault, JobIs, apiVars
<1>18. CASE UNCHANGED vars
  BY <1>18 DEF vars
<1> QED
  BY <1>1, <1>2, <1>3, <1>4, <1>5, <1>6, <1>7, <1>8, <1>9, <1>10, <1>11,
     <1>12, <1>13, <1>14, <1>15, <1>16, <1>17, <1>18 DEF Next, Proceed, Work

LEMMA OwnsStep == PipelineSound /\ [Next]_vars => OwnsItsRun'
<1> SUFFICES ASSUME PipelineSound, [Next]_vars PROVE OwnsItsRun'
  OBVIOUS
<1> USE DEF PipelineSound, OwnsItsRun, HasRun
<1>a. CASE UNCHANGED <<wk, runs>>
  BY <1>a
<1>1. ASSUME NEW r \in Requests, NEW x \in Subs, Submit(r, x)
      PROVE  OwnsItsRun'
  BY <1>1, <1>a, SubmitDoes
<1>2. ASSUME NEW r \in Requests, Reserve(r)
      PROVE  OwnsItsRun'
  BY <1>2, <1>a, ReserveDoes
<1>3. ASSUME NEW r \in Requests, Commit(r)
      PROVE  OwnsItsRun'
  BY <1>3, <1>a, CommitDoes
<1>4. ASSUME NEW r \in Requests, Release(r)
      PROVE  OwnsItsRun'
  BY <1>4, <1>a, ReleaseDoes
<1>5. ASSUME NEW r \in Requests, Enqueue(r)
      PROVE  OwnsItsRun'
  BY <1>5, <1>a, EnqueueDoes
<1>6. ASSUME NEW r \in Requests, CommitUnacknowledged(r)
      PROVE  OwnsItsRun'
  BY <1>6, <1>a, CommitUnacknowledgedDoes
<1>7. ASSUME NEW r \in Requests, Abandon(r)
      PROVE  OwnsItsRun'
  BY <1>7, <1>a, AbandonDoes
<1>8. ASSUME NEW w \in Workers, NEW x \in Subs, Take(w, x)
      PROVE  OwnsItsRun'
  BY <1>8, TakeDoes DEF SlotIs, JobIs, apiVars
<1>9. ASSUME NEW w \in Workers, InsertRun(w)
      PROVE  OwnsItsRun'
  <2>1. /\ \A x \in Workers : wk[x].pc # "idle" => wk[x].sub \in Subs
        /\ \A x \in Workers : wk[x].pc = "idle" \/ wk[x].sub \in Subs
        /\ wk'[w].run = Len(runs[wk[w].sub]) + 1
        /\ wk'[w].sub = wk[w].sub /\ wk'[w].pc = "mark"
        /\ \A x \in Workers : x # w => wk'[x] = wk[x]
        /\ RunStarts(wk[w].sub)
    BY <1>9, InsertRunDoes DEF AboutCommitted, SlotIs
  <2>2. ASSUME NEW x \in Workers, x # w, wk[x].pc \in HasRun
        PROVE  /\ wk[x].sub \in Subs
               /\ wk[x].run \in 1 .. Len(runs'[wk[x].sub])
               /\ runs'[wk[x].sub][wk[x].run] = runs[wk[x].sub][wk[x].run]
               /\ wk[x].sub = wk[w].sub => wk[x].run # wk'[w].run
    <3>1. /\ wk[x].run \in 1 .. Len(runs[wk[x].sub]) /\ wk[x].sub \in Subs
          /\ Len(runs[wk[w].sub]) \in Nat
      BY <2>1, <2>2 DEF RunStarts
    <3>2. CASE wk[x].sub = wk[w].sub
      <4>1. /\ Len(runs'[wk[w].sub]) = Len(runs[wk[w].sub]) + 1
            /\ \A k \in 1 .. Len(runs[wk[w].sub]) : runs'[wk[w].sub][k] = runs[wk[w].sub][k]
        BY <2>1 DEF RunStarts
      <4>2. PICK k \in Nat, n \in Nat : k = wk[x].run
              /\ n = Len(runs[wk[w].sub])
        BY <3>1
      <4>3. k \in 1 .. n /\ k \in 1 .. (n + 1) /\ k # n + 1
        BY <3>1, <3>2, <4>2
      <4>4. k \in 1 .. Len(runs'[wk[w].sub])
              /\ runs'[wk[w].sub][k] = runs[wk[w].sub][k]
        BY <4>1, <4>2, <4>3
      <4> QED
        BY <2>1, <3>1, <3>2, <4>2, <4>3, <4>4
    <3>3. CASE wk[x].sub # wk[w].sub
      BY <2>1, <3>1, <3>3 DEF RunStarts
    <3> QED
      BY <3>2, <3>3
  <2>3. /\ wk'[w].run \in 1 .. Len(runs'[wk'[w].sub])
        /\ runs'[wk'[w].sub][wk'[w].run] = "running"
    BY <2>1 DEF RunStarts
  <2> QED
    BY SMTT(20), <2>1, <2>2, <2>3
<1>10. ASSUME NEW w \in Workers, MarkRunning(w)
      PROVE  OwnsItsRun'
  BY <1>10, MarkRunningDoes DEF SlotIs, StatusIs, apiVars
<1>11. ASSUME NEW w \in Workers, NEW v \in Verdicts, SandboxAnswers(w, v)
      PROVE  OwnsItsRun'
  BY <1>11, SandboxAnswersDoes DEF SlotIs, apiVars
<1>12. ASSUME NEW w \in Workers, WriteResult(w)
      PROVE  OwnsItsRun'
  <2>1. /\ \A x \in Workers : wk[x].pc = "idle" \/ wk[x].sub \in Subs
        /\ wk[w].pc = "write" /\ wk[w].verdict \in Verdicts
        /\ wk'[w].run = wk[w].run /\ wk'[w].verdict = wk[w].verdict
        /\ wk'[w].sub = wk[w].sub /\ wk'[w].pc = "ack"
        /\ \A x \in Workers : x # w => wk'[x] = wk[x]
        /\ RunEnds(wk[w].sub, wk[w].run, wk[w].verdict)
    BY <1>12, WriteResultDoes DEF AboutCommitted, SlotIs
  <2>2. ASSUME NEW x \in Workers, x # w, wk[x].pc \in HasRun
        PROVE  /\ wk[x].run \in 1 .. Len(runs'[wk[x].sub])
               /\ runs'[wk[x].sub][wk[x].run] = runs[wk[x].sub][wk[x].run]
               /\ wk[x].sub = wk[w].sub => wk[x].run # wk[w].run
    BY SMTT(20), <2>1, <2>2 DEF RunEnds
  <2>3. /\ wk'[w].run \in 1 .. Len(runs'[wk'[w].sub])
        /\ runs'[wk'[w].sub][wk'[w].run] = wk'[w].verdict
    BY <2>1 DEF RunEnds
  <2>4. \A x, y \in Workers : wk'[x].pc \in HasRun /\ wk'[y].pc \in HasRun
           /\ wk'[x].sub = wk'[y].sub /\ wk'[x].run = wk'[y].run => x = y
    BY <2>1
  <2>5. ASSUME NEW x \in Workers, wk'[x].pc \in HasRun
        PROVE  /\ wk'[x].run \in 1 .. Len(runs'[wk'[x].sub])
               /\ wk'[x].pc # "ack" =>
                    runs'[wk'[x].sub][wk'[x].run] = "running"
               /\ wk'[x].pc \in {"write", "ack"} => wk'[x].verdict \in Verdicts
               /\ wk'[x].pc = "ack" =>
                    runs'[wk'[x].sub][wk'[x].run] = wk'[x].verdict
    BY SMTT(20), <2>1, <2>2, <2>3, <2>5
  <2> QED
    BY <2>4, <2>5
<1>13. ASSUME NEW w \in Workers, Ack(w)
      PROVE  OwnsItsRun'
  BY <1>13, AckDoes DEF SlotIs, JobIs, apiVars
<1>14. ASSUME NEW w \in Workers, HandlerThrows(w)
      PROVE  OwnsItsRun'
  BY <1>14, HandlerThrowsDoes DEF SlotIs, JobIs, apiVars
<1>15. ASSUME NEW w \in Workers, WorkerCrash(w)
      PROVE  OwnsItsRun'
  BY <1>15, WorkerCrashDoes DEF SlotIs, apiVars
<1>16. ASSUME NEW x \in Subs, LockExpires(x)
      PROVE  OwnsItsRun'
  BY <1>16, <1>a DEF LockExpires, apiVars
<1>17. ASSUME NEW x \in Subs, LockLost(x)
      PROVE  OwnsItsRun'
  BY <1>17, <1>a DEF LockLost, apiVars
<1>18. CASE UNCHANGED vars
  BY <1>18, <1>a DEF vars
<1> QED
  BY <1>1, <1>2, <1>3, <1>4, <1>5, <1>6, <1>7, <1>8, <1>9, <1>10, <1>11,
     <1>12, <1>13, <1>14, <1>15, <1>16, <1>17, <1>18 DEF Next, Proceed, Work

LEMMA VerdictsStep == PipelineSound /\ [Next]_vars => VerdictsHaveRuns'
<1> SUFFICES ASSUME PipelineSound, [Next]_vars PROVE VerdictsHaveRuns'
  OBVIOUS
<1> USE DEF PipelineSound, VerdictsHaveRuns, Decided, Verdicts
<1>a. CASE UNCHANGED <<status, runs>>
  BY <1>a
<1>1. ASSUME NEW r \in Requests, NEW x \in Subs, Submit(r, x)
      PROVE  VerdictsHaveRuns'
  BY <1>1, <1>a, SubmitDoes
<1>2. ASSUME NEW r \in Requests, Reserve(r)
      PROVE  VerdictsHaveRuns'
  BY <1>2, <1>a, ReserveDoes
<1>3. ASSUME NEW r \in Requests, Commit(r)
      PROVE  VerdictsHaveRuns'
  BY <1>3, CommitDoes DEF RequestIs, StatusIs
<1>4. ASSUME NEW r \in Requests, Release(r)
      PROVE  VerdictsHaveRuns'
  BY <1>4, <1>a, ReleaseDoes
<1>5. ASSUME NEW r \in Requests, Enqueue(r)
      PROVE  VerdictsHaveRuns'
  BY <1>5, <1>a, EnqueueDoes
<1>6. ASSUME NEW r \in Requests, CommitUnacknowledged(r)
      PROVE  VerdictsHaveRuns'
  BY <1>6, CommitUnacknowledgedDoes DEF RequestIs, StatusIs
<1>7. ASSUME NEW r \in Requests, Abandon(r)
      PROVE  VerdictsHaveRuns'
  BY <1>7, <1>a, AbandonDoes
<1>8. ASSUME NEW w \in Workers, NEW x \in Subs, Take(w, x)
      PROVE  VerdictsHaveRuns'
  BY <1>8, <1>a, TakeDoes DEF apiVars
<1>9. ASSUME NEW w \in Workers, InsertRun(w)
      PROVE  VerdictsHaveRuns'
  <2>1. UNCHANGED status /\ wk[w].sub \in Subs /\ RunStarts(wk[w].sub)
    BY <1>9, InsertRunDoes
  <2> SUFFICES ASSUME NEW s \in Subs, status'[s] \in {"passed", "failed"}
               PROVE  \E n \in 1 .. Len(runs'[s]) : runs'[s][n] = status'[s]
    OBVIOUS
  <2>2. PICK n \in 1 .. Len(runs[s]) : runs[s][n] = status[s]
    BY <2>1
  <2>3. n \in 1 .. Len(runs'[s]) /\ runs'[s][n] = runs[s][n]
    <3>1. CASE s = wk[w].sub
      BY <2>1, <2>2, <3>1 DEF RunStarts
    <3>2. CASE s # wk[w].sub
      BY <2>1, <2>2, <3>2 DEF RunStarts
    <3> QED
      BY <3>1, <3>2
  <2> QED
    BY <2>1, <2>2, <2>3
<1>10. ASSUME NEW w \in Workers, MarkRunning(w)
      PROVE  VerdictsHaveRuns'
  BY <1>10, MarkRunningDoes DEF SlotIs, StatusIs, apiVars
<1>11. ASSUME NEW w \in Workers, NEW v \in Verdicts, SandboxAnswers(w, v)
      PROVE  VerdictsHaveRuns'
  BY <1>11, <1>a, SandboxAnswersDoes DEF apiVars
<1>12. ASSUME NEW w \in Workers, WriteResult(w)
      PROVE  VerdictsHaveRuns'
  <2>1. /\ wk[w].sub \in Subs /\ wk[w].run \in 1 .. Len(runs[wk[w].sub])
        /\ RunEnds(wk[w].sub, wk[w].run, wk[w].verdict)
        /\ StatusIs(wk[w].sub, wk[w].verdict)
    BY <1>12, WriteResultDoes
  <2> SUFFICES ASSUME NEW s \in Subs, status'[s] \in {"passed", "failed"}
               PROVE  \E n \in 1 .. Len(runs'[s]) : runs'[s][n] = status'[s]
    OBVIOUS
  <2>2. CASE s = wk[w].sub
    <3>1. wk[w].run \in 1 .. Len(runs'[s]) /\ runs'[s][wk[w].run] = status'[s]
      BY <2>1, <2>2 DEF RunEnds, StatusIs
    <3> QED
      BY <3>1
  <2>3. CASE s # wk[w].sub
    <3>1. status'[s] = status[s] /\ runs'[s] = runs[s]
      BY <2>1, <2>3 DEF RunEnds, StatusIs
    <3> QED
      BY <3>1
  <2> QED
    BY <2>2, <2>3
<1>13. ASSUME NEW w \in Workers, Ack(w)
      PROVE  VerdictsHaveRuns'
  BY <1>13, <1>a, AckDoes DEF apiVars
<1>14. ASSUME NEW w \in Workers, HandlerThrows(w)
      PROVE  VerdictsHaveRuns'
  BY <1>14, <1>a, HandlerThrowsDoes DEF apiVars
<1>15. ASSUME NEW w \in Workers, WorkerCrash(w)
      PROVE  VerdictsHaveRuns'
  BY <1>15, <1>a, WorkerCrashDoes DEF apiVars
<1>16. ASSUME NEW x \in Subs, LockExpires(x)
      PROVE  VerdictsHaveRuns'
  BY <1>16, <1>a DEF LockExpires, apiVars
<1>17. ASSUME NEW x \in Subs, LockLost(x)
      PROVE  VerdictsHaveRuns'
  BY <1>17, <1>a DEF LockLost, apiVars
<1>18. CASE UNCHANGED vars
  BY <1>18, <1>a DEF vars
<1> QED
  BY <1>1, <1>2, <1>3, <1>4, <1>5, <1>6, <1>7, <1>8, <1>9, <1>10, <1>11,
     <1>12, <1>13, <1>14, <1>15, <1>16, <1>17, <1>18 DEF Next, Proceed, Work

LEMMA HoldsStep == PipelineSound /\ [Next]_vars => HoldsItsJob'
<1> SUFFICES ASSUME PipelineSound, [Next]_vars PROVE HoldsItsJob'
  OBVIOUS
<1> USE DEF PipelineSound
<1>0. /\ \A x \in Workers : wk[x].pc # "idle" => wk[x].sub \in Subs
           /\ status[wk[x].sub] # "absent"
      /\ faults = 0 => \A x, y \in Workers :
           wk[x].pc # "idle" /\ wk[y].pc # "idle"
             /\ wk[x].sub = wk[y].sub => x = y
      /\ \A x \in Subs : job[x].state = "active" => job[x].owner \in Workers
  BY DEF AboutCommitted, HoldsItsJob, HolderHolds, Holds
<1>a. CASE UNCHANGED <<wk, runs, job, status, faults>>
  BY <1>a DEF HoldsItsJob, HolderHolds, ActiveIsWorkedOn, WorksOnLastRun,
             ShowsItsVerdict, Holds
<1>f. CASE faults' = faults + 1
  BY <1>f DEF TypedPipeline, Counters, HoldsItsJob
<1>1. ASSUME NEW r \in Requests, NEW x \in Subs, Submit(r, x)
      PROVE  HoldsItsJob'
  BY <1>1, <1>a, SubmitDoes
<1>2. ASSUME NEW r \in Requests, Reserve(r)
      PROVE  HoldsItsJob'
  BY <1>2, <1>a, ReserveDoes
<1>3. ASSUME NEW r \in Requests, Commit(r)
      PROVE  HoldsItsJob'
  <2> SUFFICES ASSUME faults' = 0 PROVE HoldsItsJob'
    BY DEF HoldsItsJob
  <2>0. faults' = faults
    BY <1>3, CommitDoes DEF apiVars
  <2>h. HolderHolds /\ ActiveIsWorkedOn /\ WorksOnLastRun /\ ShowsItsVerdict
    BY <2>0 DEF HoldsItsJob
  <2>1. HolderHolds'
    BY <1>3, CommitDoes, <1>0, <2>0, <2>h DEF HolderHolds, Holds
  <2>2. ActiveIsWorkedOn'
    BY <1>3, CommitDoes, <1>0, <2>0, <2>h
       DEF ActiveIsWorkedOn, Holds, HolderHolds
  <2>3. WorksOnLastRun'
    BY <1>3, CommitDoes, <1>0, <2>0, <2>h
       DEF WorksOnLastRun, HasRun, Holds, HolderHolds
  <2>4. ShowsItsVerdict'
    BY <1>3, CommitDoes, <1>0, <2>0, <2>h
       DEF ShowsItsVerdict, Holds, HolderHolds, StatusIs
  <2> QED
    BY <2>1, <2>2, <2>3, <2>4 DEF HoldsItsJob
<1>4. ASSUME NEW r \in Requests, Release(r)
      PROVE  HoldsItsJob'
  BY <1>4, <1>a, ReleaseDoes
<1>5. ASSUME NEW r \in Requests, Enqueue(r)
      PROVE  HoldsItsJob'
  <2> SUFFICES ASSUME faults' = 0 PROVE HoldsItsJob'
    BY DEF HoldsItsJob
  <2>0. faults' = faults
    BY <1>5, EnqueueDoes DEF apiVars
  <2>h. HolderHolds /\ ActiveIsWorkedOn /\ WorksOnLastRun /\ ShowsItsVerdict
    BY <2>0 DEF HoldsItsJob
  <2>1. HolderHolds'
    BY <1>5, EnqueueDoes, <1>0, <2>0, <2>h DEF HolderHolds, Holds, JobIs
  <2>2. ActiveIsWorkedOn'
    BY <1>5, EnqueueDoes, <1>0, <2>0, <2>h
       DEF ActiveIsWorkedOn, Holds, HolderHolds, JobIs
  <2>3. WorksOnLastRun'
    BY <1>5, EnqueueDoes, <1>0, <2>0, <2>h
       DEF WorksOnLastRun, HasRun, Holds, HolderHolds
  <2>4. ShowsItsVerdict'
    BY <1>5, EnqueueDoes, <1>0, <2>0, <2>h
       DEF ShowsItsVerdict, Holds, HolderHolds
  <2> QED
    BY <2>1, <2>2, <2>3, <2>4 DEF HoldsItsJob
<1>6. ASSUME NEW r \in Requests, CommitUnacknowledged(r)
      PROVE  HoldsItsJob'
  BY <1>6, <1>f, CommitUnacknowledgedDoes
<1>7. ASSUME NEW r \in Requests, Abandon(r)
      PROVE  HoldsItsJob'
  BY <1>7, <1>f, AbandonDoes
<1>8. ASSUME NEW w \in Workers, NEW x \in Subs, Take(w, x)
      PROVE  HoldsItsJob'
  <2> SUFFICES ASSUME faults' = 0 PROVE HoldsItsJob'
    BY DEF HoldsItsJob
  <2>0. faults' = faults
    BY <1>8, TakeDoes DEF apiVars
  <2>h. HolderHolds /\ ActiveIsWorkedOn /\ WorksOnLastRun /\ ShowsItsVerdict
    BY <2>0 DEF HoldsItsJob
  <2>1. HolderHolds'
    BY <1>8, TakeDoes, <1>0, <2>0, <2>h
       DEF HolderHolds, Holds, SlotIs, JobIs, apiVars
  <2>2. ActiveIsWorkedOn'
    BY <1>8, TakeDoes, <1>0, <2>0, <2>h
       DEF ActiveIsWorkedOn, Holds, HolderHolds, SlotIs, JobIs, apiVars
  <2>3. WorksOnLastRun'
    BY <1>8, TakeDoes, <1>0, <2>0, <2>h
       DEF WorksOnLastRun, HasRun, Holds, HolderHolds, SlotIs, apiVars
  <2>4. ShowsItsVerdict'
    BY <1>8, TakeDoes, <1>0, <2>0, <2>h
       DEF ShowsItsVerdict, Holds, HolderHolds, SlotIs, apiVars
  <2> QED
    BY <2>1, <2>2, <2>3, <2>4 DEF HoldsItsJob
<1>9. ASSUME NEW w \in Workers, InsertRun(w)
      PROVE  HoldsItsJob'
  <2> SUFFICES ASSUME faults' = 0 PROVE HoldsItsJob'
    BY DEF HoldsItsJob
  <2>0. faults' = faults
    BY <1>9, InsertRunDoes DEF apiVars
  <2>h. HolderHolds /\ ActiveIsWorkedOn /\ WorksOnLastRun /\ ShowsItsVerdict
    BY <2>0 DEF HoldsItsJob
  <2>1. HolderHolds'
    BY <1>9, InsertRunDoes, <1>0, <2>0, <2>h
       DEF HolderHolds, Holds, SlotIs, apiVars
  <2>2. ActiveIsWorkedOn'
    BY <1>9, InsertRunDoes, <1>0, <2>0, <2>h
       DEF ActiveIsWorkedOn, Holds, HolderHolds, SlotIs, apiVars
  <2>3. WorksOnLastRun'
    BY <1>9, InsertRunDoes, <1>0, <2>0, <2>h
       DEF WorksOnLastRun, HasRun, Holds, HolderHolds, SlotIs, RunStarts,
              apiVars
  <2>4. ShowsItsVerdict'
    BY <1>9, InsertRunDoes, <1>0, <2>0, <2>h
       DEF ShowsItsVerdict, Holds, HolderHolds, SlotIs, apiVars
  <2> QED
    BY <2>1, <2>2, <2>3, <2>4 DEF HoldsItsJob
<1>10. ASSUME NEW w \in Workers, MarkRunning(w)
      PROVE  HoldsItsJob'
  <2> SUFFICES ASSUME faults' = 0 PROVE HoldsItsJob'
    BY DEF HoldsItsJob
  <2>0. faults' = faults
    BY <1>10, MarkRunningDoes DEF apiVars
  <2>h. HolderHolds /\ ActiveIsWorkedOn /\ WorksOnLastRun /\ ShowsItsVerdict
    BY <2>0 DEF HoldsItsJob
  <2>1. HolderHolds'
    BY <1>10, MarkRunningDoes, <1>0, <2>0, <2>h
       DEF HolderHolds, Holds, SlotIs, apiVars
  <2>2. ActiveIsWorkedOn'
    BY <1>10, MarkRunningDoes, <1>0, <2>0, <2>h
       DEF ActiveIsWorkedOn, Holds, HolderHolds, SlotIs, apiVars
  <2>3. WorksOnLastRun'
    BY <1>10, MarkRunningDoes, <1>0, <2>0, <2>h
       DEF WorksOnLastRun, HasRun, Holds, HolderHolds, SlotIs, apiVars
  <2>4. ShowsItsVerdict'
    BY <1>10, MarkRunningDoes, <1>0, <2>0, <2>h
       DEF ShowsItsVerdict, Holds, HolderHolds, SlotIs, StatusIs, apiVars
  <2> QED
    BY <2>1, <2>2, <2>3, <2>4 DEF HoldsItsJob
<1>11. ASSUME NEW w \in Workers, NEW v \in Verdicts, SandboxAnswers(w, v)
      PROVE  HoldsItsJob'
  <2> SUFFICES ASSUME faults' = 0 PROVE HoldsItsJob'
    BY DEF HoldsItsJob
  <2>0. faults' = faults
    BY <1>11, SandboxAnswersDoes DEF apiVars
  <2>h. HolderHolds /\ ActiveIsWorkedOn /\ WorksOnLastRun /\ ShowsItsVerdict
    BY <2>0 DEF HoldsItsJob
  <2>1. HolderHolds'
    BY <1>11, SandboxAnswersDoes, <1>0, <2>0, <2>h
       DEF HolderHolds, Holds, SlotIs, apiVars
  <2>2. ActiveIsWorkedOn'
    BY <1>11, SandboxAnswersDoes, <1>0, <2>0, <2>h
       DEF ActiveIsWorkedOn, Holds, HolderHolds, SlotIs, apiVars
  <2>3. WorksOnLastRun'
    BY <1>11, SandboxAnswersDoes, <1>0, <2>0, <2>h
       DEF WorksOnLastRun, HasRun, Holds, HolderHolds, SlotIs, apiVars
  <2>4. ShowsItsVerdict'
    BY <1>11, SandboxAnswersDoes, <1>0, <2>0, <2>h
       DEF ShowsItsVerdict, Holds, HolderHolds, SlotIs, apiVars
  <2> QED
    BY <2>1, <2>2, <2>3, <2>4 DEF HoldsItsJob
<1>12. ASSUME NEW w \in Workers, WriteResult(w)
      PROVE  HoldsItsJob'
  <2> SUFFICES ASSUME faults' = 0 PROVE HoldsItsJob'
    BY DEF HoldsItsJob
  <2>0. faults' = faults
    BY <1>12, WriteResultDoes DEF apiVars
  <2>h. HolderHolds /\ ActiveIsWorkedOn /\ WorksOnLastRun /\ ShowsItsVerdict
    BY <2>0 DEF HoldsItsJob
  <2>1. HolderHolds'
    BY <1>12, WriteResultDoes, <1>0, <2>0, <2>h
       DEF HolderHolds, Holds, SlotIs, apiVars
  <2>2. ActiveIsWorkedOn'
    BY <1>12, WriteResultDoes, <1>0, <2>0, <2>h
       DEF ActiveIsWorkedOn, Holds, HolderHolds, SlotIs, apiVars
  <2>3. WorksOnLastRun'
    BY <1>12, WriteResultDoes, <1>0, <2>0, <2>h
       DEF WorksOnLastRun, HasRun, Holds, HolderHolds, SlotIs, RunEnds, apiVars
  <2>4. ShowsItsVerdict'
    BY <1>12, WriteResultDoes, <1>0, <2>0, <2>h
       DEF ShowsItsVerdict, Holds, HolderHolds, SlotIs, StatusIs, apiVars
  <2> QED
    BY <2>1, <2>2, <2>3, <2>4 DEF HoldsItsJob
<1>13. ASSUME NEW w \in Workers, Ack(w)
      PROVE  HoldsItsJob'
  <2> SUFFICES ASSUME faults' = 0 PROVE HoldsItsJob'
    BY DEF HoldsItsJob
  <2>0. faults' = faults
    BY <1>13, AckDoes DEF apiVars
  <2>h. HolderHolds /\ ActiveIsWorkedOn /\ WorksOnLastRun /\ ShowsItsVerdict
    BY <2>0 DEF HoldsItsJob
  <2>1. HolderHolds'
    BY <1>13, AckDoes, <1>0, <2>0, <2>h
       DEF HolderHolds, Holds, SlotIs, JobIs, apiVars
  <2>2. ActiveIsWorkedOn'
    BY <1>13, AckDoes, <1>0, <2>0, <2>h
       DEF ActiveIsWorkedOn, Holds, HolderHolds, SlotIs, JobIs, apiVars
  <2>3. WorksOnLastRun'
    BY <1>13, AckDoes, <1>0, <2>0, <2>h
       DEF WorksOnLastRun, HasRun, Holds, HolderHolds, SlotIs, apiVars
  <2>4. ShowsItsVerdict'
    BY <1>13, AckDoes, <1>0, <2>0, <2>h
       DEF ShowsItsVerdict, Holds, HolderHolds, SlotIs, apiVars
  <2> QED
    BY <2>1, <2>2, <2>3, <2>4 DEF HoldsItsJob
<1>14. ASSUME NEW w \in Workers, HandlerThrows(w)
      PROVE  HoldsItsJob'
  <2> SUFFICES ASSUME faults' = 0 PROVE HoldsItsJob'
    BY DEF HoldsItsJob
  <2>0. faults' = faults
    BY <1>14, HandlerThrowsDoes DEF apiVars
  <2>h. HolderHolds /\ ActiveIsWorkedOn /\ WorksOnLastRun /\ ShowsItsVerdict
    BY <2>0 DEF HoldsItsJob
  <2>1. HolderHolds'
    BY <1>14, HandlerThrowsDoes, <1>0, <2>0, <2>h
       DEF HolderHolds, Holds, SlotIs, JobIs, apiVars
  <2>2. ActiveIsWorkedOn'
    BY <1>14, HandlerThrowsDoes, <1>0, <2>0, <2>h
       DEF ActiveIsWorkedOn, Holds, HolderHolds, SlotIs, JobIs, apiVars
  <2>3. WorksOnLastRun'
    BY <1>14, HandlerThrowsDoes, <1>0, <2>0, <2>h
       DEF WorksOnLastRun, HasRun, Holds, HolderHolds, SlotIs, apiVars
  <2>4. ShowsItsVerdict'
    BY <1>14, HandlerThrowsDoes, <1>0, <2>0, <2>h
       DEF ShowsItsVerdict, Holds, HolderHolds, SlotIs, apiVars
  <2> QED
    BY <2>1, <2>2, <2>3, <2>4 DEF HoldsItsJob
<1>15. ASSUME NEW w \in Workers, WorkerCrash(w)
      PROVE  HoldsItsJob'
  BY <1>15, <1>f, WorkerCrashDoes
<1>16. ASSUME NEW x \in Subs, LockExpires(x)
      PROVE  HoldsItsJob'
  <2> SUFFICES ASSUME faults' = 0 PROVE HoldsItsJob'
    BY DEF HoldsItsJob
  <2>0. faults' = faults
    BY <1>16 DEF LockExpires, apiVars
  <2>h. HolderHolds /\ ActiveIsWorkedOn /\ WorksOnLastRun /\ ShowsItsVerdict
    BY <2>0 DEF HoldsItsJob
  <2>1. HolderHolds'
    BY <1>16, StalledDoes, <1>0, <2>0, <2>h
       DEF HolderHolds, Holds, JobIs, apiVars, LockExpires
  <2>2. ActiveIsWorkedOn'
    BY <1>16, StalledDoes, <1>0, <2>0, <2>h
       DEF ActiveIsWorkedOn, Holds, HolderHolds, JobIs, apiVars, LockExpires
  <2>3. WorksOnLastRun'
    BY <1>16, StalledDoes, <1>0, <2>0, <2>h
       DEF WorksOnLastRun, HasRun, Holds, HolderHolds, apiVars, LockExpires
  <2>4. ShowsItsVerdict'
    BY <1>16, StalledDoes, <1>0, <2>0, <2>h
       DEF ShowsItsVerdict, Holds, HolderHolds, apiVars, LockExpires
  <2> QED
    BY <2>1, <2>2, <2>3, <2>4 DEF HoldsItsJob
<1>17. ASSUME NEW x \in Subs, LockLost(x)
      PROVE  HoldsItsJob'
  BY <1>17, <1>f DEF LockLost, Fault
<1>18. CASE UNCHANGED vars
  BY <1>18, <1>a DEF vars
<1> QED
  BY <1>1, <1>2, <1>3, <1>4, <1>5, <1>6, <1>7, <1>8, <1>9, <1>10, <1>11,
     <1>12, <1>13, <1>14, <1>15, <1>16, <1>17, <1>18 DEF Next, Proceed, Work

LEMMA UnderWayStep == PipelineSound /\ [Next]_vars => WorkIsUnderWay'
<1> SUFFICES ASSUME PipelineSound, [Next]_vars PROVE WorkIsUnderWay'
  OBVIOUS
<1> USE DEF PipelineSound, WorkIsUnderWay
<1>0. /\ \A x \in Workers : wk[x].pc # "idle" => wk[x].sub \in Subs
      /\ faults = 0 => \A x \in Workers : wk[x].pc # "idle" =>
           job[wk[x].sub].state = "active"
      /\ faults = 0 => \A x \in Workers : wk[x].pc = "ack" =>
           /\ status[wk[x].sub] = wk[x].verdict
           /\ runs[wk[x].sub][Len(runs[wk[x].sub])] = wk[x].verdict
  BY
     DEF AboutCommitted, HoldsItsJob, HolderHolds, WorksOnLastRun,
            ShowsItsVerdict,
         Holds, HasRun, OwnsItsRun
<1>f. CASE faults' = faults + 1
  BY <1>f DEF TypedPipeline, Counters
<1>1. ASSUME NEW r \in Requests, NEW x \in Subs, Submit(r, x)
      PROVE  WorkIsUnderWay'
  BY <1>1, SubmitDoes, <1>0 DEF RequestIs
<1>2. ASSUME NEW r \in Requests, Reserve(r)
      PROVE  WorkIsUnderWay'
  BY <1>2, ReserveDoes, <1>0 DEF RequestIs
<1>3. ASSUME NEW r \in Requests, Commit(r)
      PROVE  WorkIsUnderWay'
  <2> SUFFICES ASSUME faults' = 0, NEW s \in Subs, status'[s] # "absent"
               PROVE  /\ job'[s].state = "none" =>
                           \E x \in Requests : req'[x].pc = "enqueue"
                             /\ req'[x].sub = s
                      /\ job'[s].state = "completed" =>
                           status'[s] = runs'[s][Len(runs'[s])]
    OBVIOUS
  <2>1. /\ faults = 0 /\ job' = job /\ runs' = runs /\ req[r].pc = "commit"
        /\ \A x \in Requests : x # r => req'[x] = req[x]
    BY <1>3, CommitDoes DEF RequestIs
  <2>2. CASE status[s] = "absent"
    <3>1. job[s].state = "none"
      BY <2>2 DEF AboutCommitted
    <3>2. req'[r].pc = "enqueue" /\ req'[r].sub = s
      BY <1>3, <2>2, CommitDoes DEF RequestIs, StatusIs
    <3> QED
      BY <2>1, <3>1, <3>2
  <2>3. CASE status[s] # "absent"
    <3>1. status'[s] = status[s]
      BY <1>3, <2>3, CommitDoes DEF StatusIs
    <3> QED
      BY <2>1, <2>3, <3>1
  <2> QED
    BY <2>2, <2>3
<1>4. ASSUME NEW r \in Requests, Release(r)
      PROVE  WorkIsUnderWay'
  BY <1>4, ReleaseDoes, <1>0 DEF RequestIs
<1>5. ASSUME NEW r \in Requests, Enqueue(r)
      PROVE  WorkIsUnderWay'
  BY <1>5, EnqueueDoes, <1>0 DEF RequestIs, JobIs
<1>6. ASSUME NEW r \in Requests, CommitUnacknowledged(r)
      PROVE  WorkIsUnderWay'
  BY <1>6, <1>f, CommitUnacknowledgedDoes
<1>7. ASSUME NEW r \in Requests, Abandon(r)
      PROVE  WorkIsUnderWay'
  BY <1>7, <1>f, AbandonDoes
<1>8. ASSUME NEW w \in Workers, NEW x \in Subs, Take(w, x)
      PROVE  WorkIsUnderWay'
  BY <1>8, TakeDoes, <1>0 DEF SlotIs, JobIs, apiVars
<1>9. ASSUME NEW w \in Workers, InsertRun(w)
      PROVE  WorkIsUnderWay'
  <2> SUFFICES ASSUME faults' = 0 PROVE WorkIsUnderWay'
    OBVIOUS
  <2>1. /\ faults = 0 /\ job' = job /\ req' = req /\ status' = status
        /\ job[wk[w].sub].state = "active"
        /\ \A x \in Subs : x # wk[w].sub => runs'[x] = runs[x]
    BY <1>9, InsertRunDoes, <1>0 DEF RunStarts, apiVars
  <2> QED
    BY <2>1
<1>10. ASSUME NEW w \in Workers, MarkRunning(w)
      PROVE  WorkIsUnderWay'
  BY <1>10, MarkRunningDoes, <1>0 DEF SlotIs, StatusIs, apiVars
<1>11. ASSUME NEW w \in Workers, NEW v \in Verdicts, SandboxAnswers(w, v)
      PROVE  WorkIsUnderWay'
  BY <1>11, SandboxAnswersDoes, <1>0 DEF SlotIs, apiVars
<1>12. ASSUME NEW w \in Workers, WriteResult(w)
      PROVE  WorkIsUnderWay'
  <2> SUFFICES ASSUME faults' = 0 PROVE WorkIsUnderWay'
    OBVIOUS
  <2>1. /\ faults = 0 /\ job' = job /\ req' = req
             /\ job[wk[w].sub].state = "active"
        /\ wk[w].sub \in Subs /\ status[wk[w].sub] # "absent"
        /\ \A x \in Subs : x # wk[w].sub => runs'[x] = runs[x]
             /\ status'[x] = status[x]
    BY <1>12, WriteResultDoes, <1>0
       DEF RunEnds, StatusIs, apiVars, AboutCommitted
  <2> QED
    BY <2>1
<1>13. ASSUME NEW w \in Workers, Ack(w)
      PROVE  WorkIsUnderWay'
  BY <1>13, AckDoes, <1>0 DEF SlotIs, JobIs, apiVars
<1>14. ASSUME NEW w \in Workers, HandlerThrows(w)
      PROVE  WorkIsUnderWay'
  BY <1>14, HandlerThrowsDoes, <1>0 DEF SlotIs, JobIs, apiVars
<1>15. ASSUME NEW w \in Workers, WorkerCrash(w)
      PROVE  WorkIsUnderWay'
  BY <1>15, <1>f, WorkerCrashDoes
<1>16. ASSUME NEW x \in Subs, LockExpires(x)
      PROVE  WorkIsUnderWay'
  BY <1>16, StalledDoes, <1>0 DEF LockExpires, JobIs, apiVars
<1>17. ASSUME NEW x \in Subs, LockLost(x)
      PROVE  WorkIsUnderWay'
  BY <1>17, <1>f DEF LockLost, Fault
<1>18. CASE UNCHANGED vars
  BY <1>18 DEF vars
<1> QED
  BY <1>1, <1>2, <1>3, <1>4, <1>5, <1>6, <1>7, <1>8, <1>9, <1>10, <1>11,
     <1>12, <1>13, <1>14, <1>15, <1>16, <1>17, <1>18 DEF Next, Proceed, Work

-----------------------------------------------------------------------------
(* Counting: what the quota has to cover, and the runs a submission is      *)
(* allowed.                                                                 *)

LEMMA OneMore ==
  ASSUME NEW S, IsFiniteSet(S), NEW x, x \notin S
  PROVE  Cardinality(S \cup {x}) = Cardinality(S) + 1
  BY FS_AddElement

LEMMA OneLess ==
  ASSUME NEW S, IsFiniteSet(S), NEW x, x \in S
  PROVE  Cardinality(S \ {x}) = Cardinality(S) - 1
  BY FS_RemoveElement

LEMMA Countable ==
  /\ IsFiniteSet(Committed) /\ Cardinality(Committed) \in Nat
  /\ IsFiniteSet(Held) /\ Cardinality(Held) \in Nat
  /\ \A s \in Subs : IsFiniteSet(Inserting(s))
       /\ Cardinality(Inserting(s)) \in Nat
<1>1. IsFiniteSet(Requests) /\ IsFiniteSet(Workers) /\ IsFiniteSet(Subs)
  BY FinitelyMany
<1>2. Committed \subseteq Subs /\ Held \subseteq Requests
  BY DEF Committed, Held, InFlight
<1>3. IsFiniteSet(Committed) /\ IsFiniteSet(Held)
  BY <1>1, <1>2, FS_Subset
<1>4. ASSUME NEW s \in Subs PROVE IsFiniteSet(Inserting(s))
  <2>1. Inserting(s) \subseteq Workers
    BY DEF Inserting
  <2> QED
    BY <1>1, <2>1, FS_Subset
<1> QED
  BY <1>3, <1>4, FS_CardinalityType

(* The cost of one unit more, or less.                                      *)
LEMMA CostOfOne ==
  ASSUME NEW n \in Int
  PROVE  Cost * n \in Int /\ Cost * (n + 1) = Cost * n + Cost
           /\ Cost * (n - 1) = Cost * n - Cost
  OBVIOUS

LEMMA HeldAfter ==
  ASSUME TypedPipeline, NEW r \in Requests, NEW p, NEW s, RequestIs(r, p, s)
  PROVE  /\ p \in {"commit", "release"} => Held' = Held \cup {r}
         /\ p \notin {"commit", "release"} => Held' = Held \ {r}
  BY DEF Held, InFlight, RequestIs

LEMMA HeldSame == UNCHANGED req => Held' = Held
  BY DEF Held, InFlight

LEMMA CommittedAfter ==
  ASSUME NEW s \in Subs, StatusIs(s, "queued")
  PROVE  Committed' = Committed \cup {s}
  BY DEF Committed, StatusIs

LEMMA CommittedSame ==
  ASSUME \A s \in Subs : (status'[s] = "absent") <=> (status[s] = "absent")
  PROVE  Committed' = Committed
  BY DEF Committed

LEMMA QuotaStep == PipelineSound /\ [Next]_vars => QuotaCovers'
<1> SUFFICES ASSUME PipelineSound, [Next]_vars PROVE QuotaCovers'
  OBVIOUS
<1> USE DEF PipelineSound
<1>q. /\ quota \in Int /\ unacked \in Nat /\ faults \in Nat /\ Units \in Nat
      /\ quota <= DailyQuota
      /\ quota + Cost * unacked >= Cost * Units
      /\ faults = 0 => unacked = 0 /\ quota = Cost * Units
  BY Countable DEF TypedPipeline, Counters, QuotaCovers, Units
<1>c. /\ Cost * Units \in Int /\ Cost * unacked \in Int
      /\ Cost * (Units + 1) = Cost * Units + Cost
      /\ Cost * (Units - 1) = Cost * Units - Cost
      /\ Cost * (unacked + 1) = Cost * unacked + Cost
  BY <1>q, CostOfOne
<1> HIDE DEF PipelineSound
<1>a. ASSUME UNCHANGED <<quota, unacked>>, faults' = faults
               \/ faults' = faults + 1,
             Committed' = Committed, Held' = Held
      PROVE  QuotaCovers'
  <2>1. Units' = Units
    BY <1>a DEF Units
  <2> QED
    BY <1>a, <1>q, <2>1 DEF QuotaCovers
<1>1. ASSUME NEW r \in Requests, NEW x \in Subs, Submit(r, x)
      PROVE  QuotaCovers'
  <2>1. Held' = Held
    BY <1>1, SubmitDoes, HeldAfter DEF PipelineSound, Held, InFlight
  <2> QED
    BY <1>1, <1>a, <2>1, SubmitDoes, CommittedSame DEF PipelineSound
<1>2. ASSUME NEW r \in Requests, Reserve(r)
      PROVE  QuotaCovers'
  <2>1. req[r].pc = "reserve" /\ r \notin Held /\ Committed' = Committed
    BY <1>2, ReserveDoes, CommittedSame DEF PipelineSound, Held, InFlight
  <2>2. CASE RequestIs(r, "commit", req[r].sub) /\ quota + Cost <= DailyQuota
             /\ quota' = quota + Cost
    <3>1. Held' = Held \cup {r}
      BY <2>2, HeldAfter DEF PipelineSound
    <3>2. Cardinality(Held') = Cardinality(Held) + 1
      BY <2>1, <3>1, Countable, OneMore
    <3>3. Units' = Units + 1
      BY <2>1, <3>2, Countable DEF Units
    <3>4. unacked' = unacked /\ faults' = faults
      BY <1>2, ReserveDoes DEF PipelineSound
    <3> QED
      BY <1>q, <1>c, <2>2, <3>3, <3>4 DEF QuotaCovers
  <2>3. CASE RequestIs(r, "idle", None) /\ quota' = quota
    <3>1. Held' = Held \ {r}
      BY <2>3, HeldAfter DEF PipelineSound
    <3>2. Held' = Held
      BY <2>1, <3>1
    <3> QED
      BY <1>2, <1>a, <2>1, <2>3, <3>2, ReserveDoes DEF PipelineSound
  <2> QED
    BY <1>2, <2>2, <2>3, ReserveDoes DEF PipelineSound
<1>3. ASSUME NEW r \in Requests, Commit(r)
      PROVE  QuotaCovers'
  <2> DEFINE s == req[r].sub
  <2>1. /\ r \in Held /\ s \in Subs
        /\ UNCHANGED <<quota, unacked, faults>>
    BY <1>3, CommitDoes DEF PipelineSound, Held, InFlight
  <2>2. CASE StatusIs(s, "queued") /\ status[s] = "absent"
          /\ RequestIs(r, "enqueue", s)
    <3>1. Committed' = Committed \cup {s} /\ s \notin Committed
            /\ Held' = Held \ {r}
      BY <2>1, <2>2, HeldAfter, CommittedAfter DEF PipelineSound, Committed
    <3>2. /\ Cardinality(Committed') = Cardinality(Committed) + 1
          /\ Cardinality(Held') = Cardinality(Held) - 1
      BY <2>1, <3>1, Countable, OneMore, OneLess
    <3>3. Units' = Units
      BY <3>2, Countable DEF Units
    <3> QED
      BY <1>q, <2>1, <3>3 DEF QuotaCovers
  <2>3. CASE RequestIs(r, "release", s) /\ UNCHANGED status
    <3>1. Held' = Held \cup {r} /\ Committed' = Committed
      BY <2>3, HeldAfter, CommittedSame DEF PipelineSound
    <3> QED
      BY <1>a, <2>1, <3>1
  <2> QED
    BY <1>3, <2>2, <2>3, CommitDoes DEF PipelineSound
<1>4. ASSUME NEW r \in Requests, Release(r)
      PROVE  QuotaCovers'
  <2>1. /\ r \in Held /\ Committed' = Committed /\ RequestIs(r, "idle", None)
        /\ quota' = quota - Cost /\ UNCHANGED <<unacked, faults>>
    BY <1>4, ReleaseDoes, CommittedSame DEF PipelineSound, Held, InFlight
  <2>2. Held' = Held \ {r}
    BY <2>1, HeldAfter DEF PipelineSound
  <2>3. Cardinality(Held') = Cardinality(Held) - 1
    BY <2>1, <2>2, Countable, OneLess
  <2>4. Units' = Units - 1
    BY <2>1, <2>3, Countable DEF Units
  <2> QED
    BY <1>q, <1>c, <2>1, <2>4 DEF QuotaCovers
<1>5. ASSUME NEW r \in Requests, Enqueue(r)
      PROVE  QuotaCovers'
  <2>1. /\ r \notin Held /\ Committed' = Committed
             /\ RequestIs(r, "idle", None)
        /\ UNCHANGED <<quota, unacked, faults>>
    BY <1>5, EnqueueDoes, CommittedSame DEF PipelineSound, Held, InFlight
  <2>2. Held' = Held \ {r}
    BY <2>1, HeldAfter DEF PipelineSound
  <2> QED
    BY <1>a, <2>1, <2>2
<1>6. ASSUME NEW r \in Requests, CommitUnacknowledged(r)
      PROVE  QuotaCovers'
  <2> DEFINE s == req[r].sub
  <2>1. /\ r \in Held /\ s \in Subs /\ s \notin Committed
        /\ quota' = quota /\ unacked' = unacked + 1 /\ faults' = faults + 1
        /\ RequestIs(r, "release", s) /\ StatusIs(s, "queued")
    BY <1>6, CommitUnacknowledgedDoes
       DEF PipelineSound, Held, InFlight, Committed
  <2>2. Committed' = Committed \cup {s} /\ Held' = Held \cup {r}
    BY <2>1, HeldAfter, CommittedAfter DEF PipelineSound
  <2>3. Held' = Held /\ Cardinality(Committed') = Cardinality(Committed) + 1
    BY <2>1, <2>2, Countable, OneMore
  <2>4. Units' = Units + 1
    BY <2>3, Countable DEF Units
  <2> QED
    BY <1>q, <1>c, <2>1, <2>4 DEF QuotaCovers
<1>7. ASSUME NEW r \in Requests, Abandon(r)
      PROVE  QuotaCovers'
  <2>1. /\ Committed' = Committed /\ RequestIs(r, "idle", None)
        /\ UNCHANGED <<quota, unacked>> /\ faults' = faults + 1
    BY <1>7, AbandonDoes, CommittedSame DEF PipelineSound
  <2>2. Held' = Held \ {r}
    BY <2>1, HeldAfter DEF PipelineSound
  <2>3. CASE r \in Held
    <3>1. Cardinality(Held') = Cardinality(Held) - 1
      BY <2>2, <2>3, Countable, OneLess
    <3>2. Units' = Units - 1
      BY <2>1, <3>1, Countable DEF Units
    <3> QED
      BY <1>q, <1>c, <2>1, <3>2 DEF QuotaCovers
  <2>4. CASE r \notin Held
    BY <1>a, <2>1, <2>2, <2>4
  <2> QED
    BY <2>3, <2>4
<1>8. ASSUME NEW w \in Workers, NEW x \in Subs, Take(w, x)
      PROVE  QuotaCovers'
  <2>1. UNCHANGED <<quota, unacked, status, req>> /\ (faults' = faults
          \/ faults' = faults + 1)
    BY <1>8, TakeDoes DEF PipelineSound, apiVars
  <2> QED
    BY <1>a, <2>1, HeldSame, CommittedSame
<1>9. ASSUME NEW w \in Workers, InsertRun(w)
      PROVE  QuotaCovers'
  <2>1. UNCHANGED <<quota, unacked, status, req>> /\ (faults' = faults
          \/ faults' = faults + 1)
    BY <1>9, InsertRunDoes DEF PipelineSound, apiVars
  <2> QED
    BY <1>a, <2>1, HeldSame, CommittedSame
<1>10. ASSUME NEW w \in Workers, MarkRunning(w)
      PROVE  QuotaCovers'
  <2>1. UNCHANGED <<quota, unacked, req, faults>>
    BY <1>10, MarkRunningDoes DEF PipelineSound, apiVars
  <2>2. \A s \in Subs : (status'[s] = "absent") <=> (status[s] = "absent")
    BY <1>10, MarkRunningDoes
       DEF PipelineSound, AboutCommitted, StatusIs, Verdicts
  <2> QED
    BY <1>a, <2>1, <2>2, HeldSame, CommittedSame
<1>11. ASSUME NEW w \in Workers, NEW v \in Verdicts, SandboxAnswers(w, v)
      PROVE  QuotaCovers'
  <2>1. UNCHANGED <<quota, unacked, status, req>> /\ (faults' = faults
          \/ faults' = faults + 1)
    BY <1>11, SandboxAnswersDoes DEF PipelineSound, apiVars
  <2> QED
    BY <1>a, <2>1, HeldSame, CommittedSame
<1>12. ASSUME NEW w \in Workers, WriteResult(w)
      PROVE  QuotaCovers'
  <2>1. UNCHANGED <<quota, unacked, req, faults>>
    BY <1>12, WriteResultDoes DEF PipelineSound, apiVars
  <2>2. \A s \in Subs : (status'[s] = "absent") <=> (status[s] = "absent")
    BY <1>12, WriteResultDoes
       DEF PipelineSound, AboutCommitted, StatusIs, Verdicts
  <2> QED
    BY <1>a, <2>1, <2>2, HeldSame, CommittedSame
<1>13. ASSUME NEW w \in Workers, Ack(w)
      PROVE  QuotaCovers'
  <2>1. UNCHANGED <<quota, unacked, status, req>> /\ (faults' = faults
          \/ faults' = faults + 1)
    BY <1>13, AckDoes DEF PipelineSound, apiVars
  <2> QED
    BY <1>a, <2>1, HeldSame, CommittedSame
<1>14. ASSUME NEW w \in Workers, HandlerThrows(w)
      PROVE  QuotaCovers'
  <2>1. UNCHANGED <<quota, unacked, status, req>> /\ (faults' = faults
          \/ faults' = faults + 1)
    BY <1>14, HandlerThrowsDoes DEF PipelineSound, apiVars
  <2> QED
    BY <1>a, <2>1, HeldSame, CommittedSame
<1>15. ASSUME NEW w \in Workers, WorkerCrash(w)
      PROVE  QuotaCovers'
  <2>1. UNCHANGED <<quota, unacked, status, req>> /\ (faults' = faults
          \/ faults' = faults + 1)
    BY <1>15, WorkerCrashDoes DEF PipelineSound, apiVars
  <2> QED
    BY <1>a, <2>1, HeldSame, CommittedSame
<1>16. ASSUME NEW x \in Subs, LockExpires(x)
      PROVE  QuotaCovers'
  <2>1. UNCHANGED <<quota, unacked, status, req>> /\ (faults' = faults
          \/ faults' = faults + 1)
    BY <1>16 DEF LockExpires, apiVars
  <2> QED
    BY <1>a, <2>1, HeldSame, CommittedSame
<1>17. ASSUME NEW x \in Subs, LockLost(x)
      PROVE  QuotaCovers'
  <2>1. UNCHANGED <<quota, unacked, status, req>> /\ (faults' = faults
          \/ faults' = faults + 1)
    BY <1>17 DEF LockLost, apiVars, Fault
  <2> QED
    BY <1>a, <2>1, HeldSame, CommittedSame
<1>18. CASE UNCHANGED vars
  BY <1>18, <1>a, HeldSame, CommittedSame DEF vars
<1> QED
  BY <1>1, <1>2, <1>3, <1>4, <1>5, <1>6, <1>7, <1>8, <1>9, <1>10, <1>11,
     <1>12, <1>13, <1>14, <1>15, <1>16, <1>17, <1>18 DEF Next, Proceed, Work

(* A slot that takes a job is about to insert a run; one that goes on, or   *)
(* stops, no longer is.                                                     *)
LEMMA InsertingAfter ==
  ASSUME TypedPipeline, NEW w \in Workers, NEW p, NEW x, NEW n, NEW v,
           SlotIs(w, p, x, n, v),
         NEW s \in Subs
  PROVE  Inserting(s)' = IF p = "insert" /\ x = s THEN Inserting(s) \cup {w}
                         ELSE Inserting(s) \ {w}
  BY DEF Inserting, SlotIs

LEMMA InsertingSame ==
  ASSUME UNCHANGED wk, NEW s
  PROVE  Inserting(s)' = Inserting(s)
  BY DEF Inserting

LEMMA InsertingLess ==
  ASSUME TypedPipeline, NEW w \in Workers, NEW p, NEW x, NEW n, NEW v,
           SlotIs(w, p, x, n, v),
         p # "insert", NEW s \in Subs
  PROVE  /\ Cardinality(Inserting(s)') \in Nat
         /\ Cardinality(Inserting(s)') <= Cardinality(Inserting(s))
         /\ wk[w].pc = "insert" /\ wk[w].sub = s =>
              Cardinality(Inserting(s)') = Cardinality(Inserting(s)) - 1
<1>1. Inserting(s)' = Inserting(s) \ {w}
  BY InsertingAfter
<1>2. CASE w \in Inserting(s)
  <2>1. Cardinality(Inserting(s)') = Cardinality(Inserting(s)) - 1
    BY <1>1, <1>2, Countable, OneLess
  <2>2. Cardinality(Inserting(s)) # 0
    BY <1>2, Countable, FS_EmptySet
  <2> QED
    BY <2>1, <2>2, Countable
<1>3. CASE w \notin Inserting(s)
  <2>1. Inserting(s)' = Inserting(s) /\ ~ (wk[w].pc = "insert"
          /\ wk[w].sub = s)
    BY <1>1, <1>3 DEF Inserting
  <2> QED
    BY <2>1, Countable
<1> QED
  BY <1>2, <1>3

LEMMA StartedIsNatural == TypedPipeline => \A s \in Subs : Started(s) \in Nat
<1> SUFFICES ASSUME TypedPipeline, NEW s \in Subs PROVE Started(s) \in Nat
  OBVIOUS
<1>1. Len(runs[s]) \in Nat
  BY DEF TypedPipeline
<1> QED
  BY <1>1, Countable DEF Started

LEMMA PaidAfter ==
  ASSUME NEW x \in Subs, NEW p, NEW o, NEW a, NEW k, JobIs(x, p, o, a, k),
           p # "none",
         p \in {"waiting", "active"} => a < MaxAttempts /\ k <= MaxStalls,
         p = "waiting" => Started(x)' <= a + k,
         p = "active" => Started(x)' <= a + k + 1,
         Started(x)' <= MaxAttempts + MaxStalls
  PROVE  PaidFor(x)'
  BY DEF JobIs, PaidFor

LEMMA PaidStep == PipelineSound /\ [Next]_vars => RunsArePaidFor'
<1> SUFFICES ASSUME PipelineSound, [Next]_vars PROVE RunsArePaidFor'
  OBVIOUS
<1>s. TypedPipeline /\ AboutCommitted /\ OwnsItsRun /\ RunsArePaidFor
  BY DEF PipelineSound
<1>t. \A s \in Subs : /\ Len(runs[s]) \in Nat /\ Started(s) \in Nat
                      /\ Cardinality(Inserting(s)) \in Nat
                      /\ job[s].attempts \in Nat /\ job[s].stalls \in Nat
                      /\ job[s].state \in JobStates
  BY <1>s, StartedIsNatural, Countable DEF TypedPipeline, JobRow
<1>a. ASSUME job' = job, \A s \in Subs : Started(s)' \in Nat
               /\ Started(s)' <= Started(s)
      PROVE  RunsArePaidFor'
  BY <1>a, <1>s, <1>t DEF RunsArePaidFor, PaidFor
<1>p. ASSUME NEW x \in Subs, PaidFor(x)',
             \A s \in Subs : s # x => job'[s] = job[s],
             \A s \in Subs : s # x => Started(s)' \in Nat
               /\ Started(s)' <= Started(s)
      PROVE  RunsArePaidFor'
  <2>1. ASSUME NEW s \in Subs, s # x PROVE PaidFor(s)'
    <3>1. PaidFor(s) /\ job'[s] = job[s] /\ Started(s)' \in Nat
            /\ Started(s)' <= Started(s)
      BY <1>p, <1>s, <2>1 DEF RunsArePaidFor
    <3>2. /\ Started(s) \in Nat /\ job[s].attempts + job[s].stalls \in Nat
          /\ MaxAttempts + MaxStalls \in Nat
      BY <1>t
    <3>3. \A n \in Nat : Started(s) <= n => Started(s)' <= n
      BY <3>1, <3>2
    <3>4. /\ job[s].state = "none" => Started(s)' = 0
          /\ job[s].state = "waiting" =>
               Started(s)' <= job[s].attempts + job[s].stalls
          /\ job[s].state = "active" =>
               Started(s)' <= job[s].attempts + job[s].stalls + 1
          /\ Started(s)' <= MaxAttempts + MaxStalls
      BY <3>1, <3>2, <3>3 DEF PaidFor
    <3> QED
      BY <3>1, <3>4 DEF PaidFor
  <2> QED
    BY <1>p, <2>1 DEF RunsArePaidFor
<1>b. ASSUME UNCHANGED <<runs, wk>>
               PROVE \A s \in Subs : Started(s)' = Started(s)
  BY <1>b, InsertingSame DEF Started
<1>c. ASSUME UNCHANGED runs, NEW w \in Workers, NEW p, NEW x, NEW n, NEW v,
             SlotIs(w, p, x, n, v), p # "insert"
      PROVE  \A s \in Subs : Started(s)' \in Nat /\ Started(s)' <= Started(s)
  BY <1>c, <1>s, <1>t, InsertingLess DEF Started
<1>1. ASSUME NEW r \in Requests, NEW x \in Subs, Submit(r, x)
      PROVE  RunsArePaidFor'
  <2>1. UNCHANGED <<runs, wk, job>>
    BY <1>1, <1>s, SubmitDoes
  <2> QED
    BY <1>a, <1>b, <1>t, <2>1
<1>2. ASSUME NEW r \in Requests, Reserve(r)
      PROVE  RunsArePaidFor'
  <2>1. UNCHANGED <<runs, wk, job>>
    BY <1>2, <1>s, ReserveDoes
  <2> QED
    BY <1>a, <1>b, <1>t, <2>1
<1>3. ASSUME NEW r \in Requests, Commit(r)
      PROVE  RunsArePaidFor'
  <2>1. UNCHANGED <<runs, wk, job>>
    BY <1>3, <1>s, CommitDoes
  <2> QED
    BY <1>a, <1>b, <1>t, <2>1
<1>4. ASSUME NEW r \in Requests, Release(r)
      PROVE  RunsArePaidFor'
  <2>1. UNCHANGED <<runs, wk, job>>
    BY <1>4, <1>s, ReleaseDoes
  <2> QED
    BY <1>a, <1>b, <1>t, <2>1
<1>5. ASSUME NEW r \in Requests, Enqueue(r)
      PROVE  RunsArePaidFor'
  <2>0. PICK x \in Subs : x = req[r].sub
    BY <1>5, <1>s, EnqueueDoes
  <2>1. x \in Subs /\ \A s \in Subs : Started(s)' = Started(s)
    BY <1>5, <1>b, <1>s, EnqueueDoes
  <2>2. CASE job[x].state = "none"
          /\ JobIs(x, "waiting", job[x].owner, job[x].attempts, job[x].stalls)
    <3>1. job[x].attempts = 0 /\ job[x].stalls = 0
      BY <1>s, <2>1, <2>2 DEF AboutCommitted
    <3>2. 0 < MaxAttempts /\ 0 <= MaxStalls /\ Started(x)' <= 0 + 0
          /\ Started(x)' <= MaxAttempts + MaxStalls
      BY <1>s, <2>1, <2>2 DEF RunsArePaidFor, PaidFor
    <3>8. PaidFor(x)'
      BY <2>2, <3>1, <3>2, PaidAfter
    <3> QED
      BY <1>p, <1>t, <3>8, <2>1, <2>2, <3>1 DEF JobIs
  <2>3. CASE job' = job
    BY <1>a, <1>t, <2>1, <2>3
  <2> QED
    BY <1>5, <1>s, <2>0, <2>2, <2>3, EnqueueDoes
<1>6. ASSUME NEW r \in Requests, CommitUnacknowledged(r)
      PROVE  RunsArePaidFor'
  <2>1. UNCHANGED <<runs, wk, job>>
    BY <1>6, <1>s, CommitUnacknowledgedDoes
  <2> QED
    BY <1>a, <1>b, <1>t, <2>1
<1>7. ASSUME NEW r \in Requests, Abandon(r)
      PROVE  RunsArePaidFor'
  <2>1. UNCHANGED <<runs, wk, job>>
    BY <1>7, <1>s, AbandonDoes
  <2> QED
    BY <1>a, <1>b, <1>t, <2>1
<1>8. ASSUME NEW w \in Workers, NEW x \in Subs, Take(w, x)
      PROVE  RunsArePaidFor'
  <2>1. /\ wk[w].pc = "idle" /\ job[x].state = "waiting" /\ runs' = runs
        /\ SlotIs(w, "insert", x, 0, None)
        /\ JobIs(x, "active", w, job[x].attempts, job[x].stalls)
    BY <1>8, <1>s, TakeDoes DEF apiVars
  <2>2. \A s \in Subs : w \notin Inserting(s)
    BY <2>1 DEF Inserting
  <2>3. ASSUME NEW s \in Subs
        PROVE  Started(s)' = IF s = x THEN Started(s) + 1 ELSE Started(s)
    <3>1. CASE s = x
      <4>1. Inserting(s)' = Inserting(s) \cup {w}
        BY <1>s, <2>1, <3>1, InsertingAfter
      <4>2. Cardinality(Inserting(s)') = Cardinality(Inserting(s)) + 1
        BY <2>2, <4>1, Countable, OneMore
      <4> QED
        BY <1>t, <2>1, <3>1, <4>2 DEF Started
    <3>2. CASE s # x
      <4>1. Inserting(s)' = Inserting(s) \ {w}
        BY <1>s, <2>1, <3>2, InsertingAfter
      <4>2. Inserting(s)' = Inserting(s)
        BY <2>2, <4>1
      <4> QED
        BY <2>1, <3>2, <4>2 DEF Started
    <3> QED
      BY <3>1, <3>2
  <2>4. Started(x)' = Started(x) + 1
          /\ \A s \in Subs : s # x => Started(s)' = Started(s)
    BY <2>3
  <2>6. /\ job[x].attempts < MaxAttempts /\ job[x].stalls <= MaxStalls
        /\ Started(x)' <= job[x].attempts + job[x].stalls + 1
        /\ Started(x)' <= MaxAttempts + MaxStalls
    BY <1>s, <1>t, <2>1, <2>4 DEF RunsArePaidFor, PaidFor
  <2>5. PaidFor(x)'
    BY <2>1, <2>6, PaidAfter
  <2> QED
    BY <1>p, <1>t, <2>1, <2>4, <2>5 DEF JobIs
<1>9. ASSUME NEW w \in Workers, InsertRun(w)
      PROVE  RunsArePaidFor'
  <2>1. /\ wk[w].pc = "insert" /\ wk[w].sub \in Subs /\ job' = job
        /\ SlotIs(w, "mark", wk[w].sub, Len(runs[wk[w].sub]) + 1,
             wk[w].verdict)
        /\ RunStarts(wk[w].sub)
    BY <1>9, <1>s, InsertRunDoes
  <2>2. ASSUME NEW s \in Subs
                 PROVE Started(s)' \in Nat /\ Started(s)' <= Started(s)
    <3>1. /\ Cardinality(Inserting(s)') \in Nat
          /\ Cardinality(Inserting(s)') <= Cardinality(Inserting(s))
          /\ wk[w].sub = s =>
               Cardinality(Inserting(s)') = Cardinality(Inserting(s)) - 1
      BY <1>s, <2>1, InsertingLess
    <3>2. CASE s = wk[w].sub
      <4>1. Len(runs'[s]) = Len(runs[s]) + 1
        BY <2>1, <3>2 DEF RunStarts
      <4>2. Cardinality(Inserting(s)') = Cardinality(Inserting(s)) - 1
        BY <3>1, <3>2
      <4>3. Started(s)' = Len(runs'[s]) + Cardinality(Inserting(s)')
        BY DEF Started
      <4>4. Started(s) = Len(runs[s]) + Cardinality(Inserting(s))
        BY DEF Started
      <4>5. Started(s)' = Started(s)
        BY <1>t, <4>1, <4>2, <4>3, <4>4
      <4> QED
        BY <1>t, <4>5
    <3>3. CASE s # wk[w].sub
      BY <1>t, <2>1, <3>1, <3>3 DEF Started, RunStarts
    <3> QED
      BY <3>2, <3>3
  <2> QED
    BY <1>a, <2>1, <2>2
<1>10. ASSUME NEW w \in Workers, MarkRunning(w)
      PROVE  RunsArePaidFor'
  <2>1. job' = job /\ \A s \in Subs : Started(s)' \in Nat
          /\ Started(s)' <= Started(s)
    BY <1>10, <1>c, <1>s, MarkRunningDoes DEF apiVars
  <2> QED
    BY <1>a, <2>1
<1>11. ASSUME NEW w \in Workers, NEW v \in Verdicts, SandboxAnswers(w, v)
      PROVE  RunsArePaidFor'
  <2>1. job' = job /\ \A s \in Subs : Started(s)' \in Nat
          /\ Started(s)' <= Started(s)
    BY <1>11, <1>c, <1>s, SandboxAnswersDoes DEF apiVars
  <2> QED
    BY <1>a, <2>1
<1>12. ASSUME NEW w \in Workers, WriteResult(w)
      PROVE  RunsArePaidFor'
  <2>1. /\ job' = job /\ wk[w].sub \in Subs
             /\ RunEnds(wk[w].sub, wk[w].run, wk[w].verdict)
        /\ SlotIs(w, "ack", wk[w].sub, wk[w].run, wk[w].verdict)
    BY <1>12, <1>s, WriteResultDoes
  <2>2. ASSUME NEW s \in Subs
                 PROVE Started(s)' \in Nat /\ Started(s)' <= Started(s)
    <3>1. /\ Cardinality(Inserting(s)') \in Nat
          /\ Cardinality(Inserting(s)') <= Cardinality(Inserting(s))
      BY <1>s, <2>1, InsertingLess
    <3>2. Len(runs'[s]) = Len(runs[s])
      BY <2>1 DEF RunEnds
    <3> QED
      BY <1>t, <3>1, <3>2 DEF Started
  <2> QED
    BY <1>a, <2>1, <2>2
<1>13. ASSUME NEW w \in Workers, Ack(w)
      PROVE  RunsArePaidFor'
  <2>1. \A s \in Subs : Started(s)' \in Nat /\ Started(s)' <= Started(s)
    BY <1>13, <1>c, <1>s, AckDoes
  <2>2. CASE job' = job
    BY <1>a, <2>1, <2>2
  <2>3. ASSUME NEW x \in Subs, JobIs(x, "completed", None, job[x].attempts,
                 job[x].stalls)
        PROVE  RunsArePaidFor'
    <3>1. Started(x)' <= MaxAttempts + MaxStalls
      BY <1>s, <1>t, <2>1 DEF RunsArePaidFor, PaidFor
    <3>8. PaidFor(x)'
      BY <2>3, <3>1, PaidAfter
    <3> QED
      BY <1>p, <1>t, <3>8, <2>1, <2>3 DEF JobIs
  <2> QED
    BY <1>13, <1>s, <2>2, <2>3, AckDoes
<1>14. ASSUME NEW w \in Workers, HandlerThrows(w)
      PROVE  RunsArePaidFor'
  <2>1. \A s \in Subs : Started(s)' \in Nat /\ Started(s)' <= Started(s)
    BY <1>14, <1>c, <1>s, HandlerThrowsDoes DEF apiVars
  <2>2. CASE job' = job
    BY <1>a, <2>1, <2>2
  <2>3. ASSUME NEW x \in Subs, job[x].state = "active",
               JobIs(x,
                 IF job[x].attempts + 1 < MaxAttempts THEN "waiting" ELSE "failed",
                     None, job[x].attempts + 1, job[x].stalls)
        PROVE  RunsArePaidFor'
    <3>1. /\ job[x].stalls <= MaxStalls
          /\ Started(x)' <= job[x].attempts + 1 + job[x].stalls
          /\ Started(x)' <= MaxAttempts + MaxStalls
      BY SMTT(20), <1>s, <1>t, <2>1, <2>3 DEF RunsArePaidFor, PaidFor
    <3>8. PaidFor(x)'
      <4>1. CASE job[x].attempts + 1 < MaxAttempts
        <5>1. JobIs(x, "waiting", None, job[x].attempts + 1, job[x].stalls)
          BY <2>3, <4>1
        <5> QED
          BY <3>1, <4>1, <5>1, PaidAfter
      <4>2. CASE ~ (job[x].attempts + 1 < MaxAttempts)
        <5>1. JobIs(x, "failed", None, job[x].attempts + 1, job[x].stalls)
          BY <2>3, <4>2
        <5> QED
          BY <3>1, <5>1, PaidAfter
      <4> QED
        BY <4>1, <4>2
    <3> QED
      BY <1>p, <1>t, <3>8, <2>1, <2>3 DEF JobIs
  <2> QED
    BY <1>14, <1>s, <2>2, <2>3, HandlerThrowsDoes DEF Holds
<1>15. ASSUME NEW w \in Workers, WorkerCrash(w)
      PROVE  RunsArePaidFor'
  <2>1. job' = job /\ \A s \in Subs : Started(s)' \in Nat
          /\ Started(s)' <= Started(s)
    BY <1>15, <1>c, <1>s, WorkerCrashDoes DEF apiVars
  <2> QED
    BY <1>a, <2>1
<1>16. ASSUME NEW x \in Subs, LockExpires(x)
      PROVE  RunsArePaidFor'
  <2>1. job[x].state = "active" /\ job' = Stalled(x) /\ UNCHANGED <<runs, wk>>
    BY <1>16 DEF LockExpires
  <2>2. \A s \in Subs : Started(s)' = Started(s)
    BY <1>b, <2>1
  <2>3. CASE job[x].stalls < MaxStalls
          /\ JobIs(x, "waiting", None, job[x].attempts, job[x].stalls + 1)
    <3>1. /\ job[x].attempts < MaxAttempts /\ job[x].stalls + 1 <= MaxStalls
          /\ Started(x)' <= job[x].attempts + (job[x].stalls + 1)
          /\ Started(x)' <= MaxAttempts + MaxStalls
      BY SMTT(20), <1>s, <1>t, <2>1, <2>2, <2>3 DEF RunsArePaidFor, PaidFor
    <3>8. PaidFor(x)'
      BY <2>3, <3>1, PaidAfter
    <3> QED
      BY <1>p, <1>t, <3>8, <2>1, <2>2, <2>3 DEF JobIs
  <2>4. CASE JobIs(x, "failed", None, job[x].attempts, job[x].stalls)
    <3>1. Started(x)' <= MaxAttempts + MaxStalls
      BY <1>s, <1>t, <2>1, <2>2 DEF RunsArePaidFor, PaidFor
    <3>8. PaidFor(x)'
      BY <2>4, <3>1, PaidAfter
    <3> QED
      BY <1>p, <1>t, <3>8, <2>1, <2>2, <2>4 DEF JobIs
  <2> QED
    BY <1>s, <2>1, <2>3, <2>4, StalledDoes
<1>17. ASSUME NEW x \in Subs, LockLost(x)
      PROVE  RunsArePaidFor'
  <2>1. job[x].state = "active" /\ job' = Stalled(x) /\ UNCHANGED <<runs, wk>>
    BY <1>17 DEF LockLost
  <2>2. \A s \in Subs : Started(s)' = Started(s)
    BY <1>b, <2>1
  <2>3. CASE job[x].stalls < MaxStalls
          /\ JobIs(x, "waiting", None, job[x].attempts, job[x].stalls + 1)
    <3>1. /\ job[x].attempts < MaxAttempts /\ job[x].stalls + 1 <= MaxStalls
          /\ Started(x)' <= job[x].attempts + (job[x].stalls + 1)
          /\ Started(x)' <= MaxAttempts + MaxStalls
      BY SMTT(20), <1>s, <1>t, <2>1, <2>2, <2>3 DEF RunsArePaidFor, PaidFor
    <3>8. PaidFor(x)'
      BY <2>3, <3>1, PaidAfter
    <3> QED
      BY <1>p, <1>t, <3>8, <2>1, <2>2, <2>3 DEF JobIs
  <2>4. CASE JobIs(x, "failed", None, job[x].attempts, job[x].stalls)
    <3>1. Started(x)' <= MaxAttempts + MaxStalls
      BY <1>s, <1>t, <2>1, <2>2 DEF RunsArePaidFor, PaidFor
    <3>8. PaidFor(x)'
      BY <2>4, <3>1, PaidAfter
    <3> QED
      BY <1>p, <1>t, <3>8, <2>1, <2>2, <2>4 DEF JobIs
  <2> QED
    BY <1>s, <2>1, <2>3, <2>4, StalledDoes
<1>18. CASE UNCHANGED vars
  <2>1. UNCHANGED <<runs, wk, job>>
    BY <1>18 DEF vars
  <2> QED
    BY <1>a, <1>b, <1>t, <2>1
<1> QED
  BY <1>1, <1>2, <1>3, <1>4, <1>5, <1>6, <1>7, <1>8, <1>9, <1>10, <1>11,
     <1>12, <1>13, <1>14, <1>15, <1>16, <1>17, <1>18 DEF Next, Proceed, Work

-----------------------------------------------------------------------------
(* The theorems about the pipeline.                                         *)

LEMMA PipelineInit == Init => PipelineSound
<1> SUFFICES ASSUME Init PROVE PipelineSound
  OBVIOUS
<1>1. TypedPipeline /\ AboutCommitted
  BY
     DEF Init, TypedPipeline, Counters, AboutCommitted, Ends, JobRow,
            JobStates, NoJob, ReqState,
         ReqSteps, IdleReq, WkState, InHandler, IdleWk
<1>2. OwnsItsRun /\ VerdictsHaveRuns /\ HoldsItsJob /\ WorkIsUnderWay
  BY
     DEF Init, OwnsItsRun, HasRun, VerdictsHaveRuns, Decided, Verdicts,
            HoldsItsJob, HolderHolds,
         ActiveIsWorkedOn, WorksOnLastRun, ShowsItsVerdict, WorkIsUnderWay,
         NoJob, IdleWk
<1>3. QuotaCovers
  <2>1. Committed = {} /\ Held = {}
    BY DEF Init, Committed, Held, InFlight, IdleReq
  <2>2. Units = 0
    BY <2>1, FS_EmptySet DEF Units
  <2> QED
    BY <2>2 DEF Init, QuotaCovers
<1>4. RunsArePaidFor
  <2> SUFFICES ASSUME NEW s \in Subs PROVE PaidFor(s)
    BY DEF RunsArePaidFor
  <2>1. Inserting(s) = {} /\ Len(runs[s]) = 0
    BY DEF Init, Inserting, IdleWk
  <2>2. Started(s) = 0
    BY <2>1, FS_EmptySet DEF Started
  <2> QED
    BY <2>2 DEF Init, PaidFor, NoJob
<1> QED
  BY <1>1, <1>2, <1>3, <1>4 DEF PipelineSound

LEMMA PipelineStep == PipelineSound /\ [Next]_vars => PipelineSound'
  BY TypedStep, AboutStep, OwnsStep, VerdictsStep, QuotaStep, PaidStep,
     HoldsStep, UnderWayStep
     DEF PipelineSound

(* The inductive invariant: who works on what, which run is whose, and what *)
(* was paid for it.                                                         *)
THEOREM PipelineSoundAlways == Spec => []PipelineSound
  BY PipelineInit, PipelineStep, PTL DEF Spec

LEMMA QuotaOfSound == PipelineSound => QuotaMatchesCharges
<1> SUFFICES ASSUME PipelineSound PROVE QuotaMatchesCharges
  OBVIOUS
<1>1. QuotaCovers /\ quota \in Int /\ unacked \in Nat
  BY DEF PipelineSound, TypedPipeline, Counters
<1>2. PICK n \in Nat, m \in Nat : n = Cardinality(Committed)
        /\ m = Cardinality(Held)
  BY Countable
<1>3. Cost * (n + m) = Cost * n + Cost * m /\ Cost * m \in Nat
        /\ Cost * n \in Nat
  OBVIOUS
<1>4. Cost * unacked \in Nat
  BY <1>1
<1> QED
  BY <1>1, <1>2, <1>3, <1>4 DEF QuotaMatchesCharges, QuotaCovers, Units, Held

LEMMA VerdictOfSound == PipelineSound => VerdictHasRun
<1> SUFFICES ASSUME PipelineSound, NEW s \in Subs
             PROVE  /\ Decided(s) =>
                         \E n \in 1 .. Len(runs[s]) : runs[s][n] = status[s]
                    /\ Len(runs[s]) <= MaxAttempts + MaxStalls
  BY DEF VerdictHasRun
<1>1. Len(runs[s]) \in Nat /\ Cardinality(Inserting(s)) \in Nat
  BY Countable DEF PipelineSound, TypedPipeline
<1>2. Started(s) <= MaxAttempts + MaxStalls
  BY DEF PipelineSound, RunsArePaidFor, PaidFor
<1> QED
  BY <1>1, <1>2 DEF PipelineSound, VerdictsHaveRuns, Started

LEMMA UnderWayOfSound == PipelineSound => ChargedWorkIsUnderWay
  BY
     DEF PipelineSound, HoldsItsJob, ActiveIsWorkedOn, WorkIsUnderWay,
            ChargedWorkIsUnderWay,
         Committed, InFlight

(* Reservation, debit and release keep the Redis counter in step with what  *)
(* PostgreSQL charged, for any number of requests, keys and faults: it is   *)
(* exact without faults, and covers every acknowledged charge with them     *)
(* (submit 296-365).                                                        *)
THEOREM QuotaAlwaysMatchesCharges == Spec => []QuotaMatchesCharges
  BY PipelineSoundAlways, QuotaOfSound, PTL

(* A verdict is the verdict of one of the submission's runs, and the job    *)
(* never runs more often than its attempts and stalls allow                 *)
(* (execution.worker 88-111, submit 367-377).                               *)
THEOREM VerdictAlwaysHasRun == Spec => []VerdictHasRun
  BY PipelineSoundAlways, VerdictOfSound, PTL

(* Without faults what was charged is on its way to a verdict, and a        *)
(* completed job has left the verdict of the last run (submit 367,          *)
(* execution.worker).                                                       *)
THEOREM ChargedWorkAlwaysUnderWay == Spec => []ChargedWorkIsUnderWay
  BY PipelineSoundAlways, UnderWayOfSound, PTL

(* Only a commit that finds a fresh key and enough credits charges; ...     *)
LEMMA ChargesOnce ==
  ASSUME PipelineSound, NEW s \in Subs, credits >= Cost,
           credits' = credits - Cost,
         status[s] = "absent", StatusIs(s, "queued")
  PROVE  Ledger!Next
<1>1. credits \in Nat /\ Committed' = Committed \cup {s} /\ s \notin Committed
  BY CommittedAfter DEF PipelineSound, TypedPipeline, Committed
<1>2. Debit(s) \in Ledger!Entry
  BY DEF Debit, Ledger!Entry, Ledger!Kinds
<1>3. Debit(s).agent = "agent" /\ Debit(s).amount = -Cost
        /\ Debit(s).kind = "compute_debit"
      /\ Debit(s).of = s
  BY DEF Debit
<1>4. [a \in {"agent"} |-> credits][Debit(s).agent] + Debit(s).amount >= 0
  BY <1>1, <1>3
<1>5. [a \in {"agent"} |-> credits']
        = [[a \in {"agent"} |-> credits] EXCEPT ![Debit(s).agent] = @ + Debit(s).amount]
  BY <1>1, <1>3
<1>6. Ledger!FreshIn({Debit(x) : x \in Committed}, Debit(s).kind, Debit(s).of)
  <2>1. \A x \in Committed : Debit(x).of = x
    BY DEF Debit
  <2> QED
    BY <1>1, <1>3, <2>1 DEF Ledger!FreshIn
<1>7. {Debit(x) : x \in Committed'} = {Debit(x) : x \in Committed} \cup {Debit(s)}
  BY <1>1
<1>8. Ledger!Post(Debit(s))
  BY <1>4, <1>5, <1>6, <1>7 DEF Ledger!Post
<1> QED
  BY <1>2, <1>8 DEF Ledger!Next

LEMMA ChargesNothing ==
  ASSUME credits' = credits, Committed' = Committed
  PROVE  UNCHANGED Ledger!ledgerVars
  BY DEF Ledger!ledgerVars

(* ... and so the debits of the pipeline are those of the points ledger:    *)
(* one entry per submission, however often a key is sent again, and no      *)
(* balance below zero (submit 322-361).                                     *)
THEOREM PipelineImplementsLedger == Spec => ImplementsLedger
<1>1. Init => Ledger!Init
  BY DEF Init, Committed, Ledger!Init
<1>2. PipelineSound /\ [Next]_vars => [Ledger!Next]_(Ledger!ledgerVars)
  <2> SUFFICES ASSUME PipelineSound, [Next]_vars
               PROVE  Ledger!Next \/ UNCHANGED Ledger!ledgerVars
    OBVIOUS
  <2>s. TypedPipeline /\ AboutCommitted /\ OwnsItsRun
    BY DEF PipelineSound
  <2>1. ASSUME NEW r \in Requests, NEW x \in Subs, Submit(r, x)
        PROVE  Ledger!Next \/ UNCHANGED Ledger!ledgerVars
    <3>1. UNCHANGED <<credits, status>>
      BY <2>1, <2>s, SubmitDoes
    <3> QED
      BY <3>1, CommittedSame, ChargesNothing
  <2>2. ASSUME NEW r \in Requests, Reserve(r)
        PROVE  Ledger!Next \/ UNCHANGED Ledger!ledgerVars
    <3>1. UNCHANGED <<credits, status>>
      BY <2>2, <2>s, ReserveDoes
    <3> QED
      BY <3>1, CommittedSame, ChargesNothing
  <2>3. ASSUME NEW r \in Requests, Commit(r)
        PROVE  Ledger!Next \/ UNCHANGED Ledger!ledgerVars
    <3>0. PICK s \in Subs : s = req[r].sub
      BY <2>3, <2>s, CommitDoes
    <3>1. CASE /\ credits >= Cost /\ credits' = credits - Cost
               /\ status[s] = "absent" /\ StatusIs(s, "queued")
      BY <3>1, ChargesOnce
    <3>2. CASE UNCHANGED <<credits, status>>
      BY <3>2, CommittedSame, ChargesNothing
    <3> QED
      BY <2>3, <2>s, <3>0, <3>1, <3>2, CommitDoes
  <2>4. ASSUME NEW r \in Requests, Release(r)
        PROVE  Ledger!Next \/ UNCHANGED Ledger!ledgerVars
    <3>1. UNCHANGED <<credits, status>>
      BY <2>4, <2>s, ReleaseDoes
    <3> QED
      BY <3>1, CommittedSame, ChargesNothing
  <2>5. ASSUME NEW r \in Requests, Enqueue(r)
        PROVE  Ledger!Next \/ UNCHANGED Ledger!ledgerVars
    <3>1. UNCHANGED <<credits, status>>
      BY <2>5, <2>s, EnqueueDoes
    <3> QED
      BY <3>1, CommittedSame, ChargesNothing
  <2>6. ASSUME NEW r \in Requests, CommitUnacknowledged(r)
        PROVE  Ledger!Next \/ UNCHANGED Ledger!ledgerVars
    <3>0. PICK s \in Subs : s = req[r].sub
      BY <2>6, <2>s, CommitUnacknowledgedDoes
    <3>1. CASE /\ credits >= Cost /\ credits' = credits - Cost
               /\ status[s] = "absent" /\ StatusIs(s, "queued")
      BY <3>1, ChargesOnce
    <3> QED
      BY <2>6, <2>s, <3>0, <3>1, CommitUnacknowledgedDoes
  <2>7. ASSUME NEW r \in Requests, Abandon(r)
        PROVE  Ledger!Next \/ UNCHANGED Ledger!ledgerVars
    <3>1. UNCHANGED <<credits, status>>
      BY <2>7, <2>s, AbandonDoes
    <3> QED
      BY <3>1, CommittedSame, ChargesNothing
  <2>8. ASSUME NEW w \in Workers, NEW x \in Subs, Take(w, x)
        PROVE  Ledger!Next \/ UNCHANGED Ledger!ledgerVars
    <3>1. UNCHANGED <<credits, status>>
      BY <2>8, <2>s, TakeDoes DEF apiVars
    <3> QED
      BY <3>1, CommittedSame, ChargesNothing
  <2>9. ASSUME NEW w \in Workers, InsertRun(w)
        PROVE  Ledger!Next \/ UNCHANGED Ledger!ledgerVars
    <3>1. UNCHANGED <<credits, status>>
      BY <2>9, <2>s, InsertRunDoes DEF apiVars
    <3> QED
      BY <3>1, CommittedSame, ChargesNothing
  <2>10. ASSUME NEW w \in Workers, MarkRunning(w)
        PROVE  Ledger!Next \/ UNCHANGED Ledger!ledgerVars
    <3>1. credits' = credits
            /\ \A s \in Subs : (status'[s] = "absent") <=> (status[s] = "absent")
      BY <2>10, <2>s, MarkRunningDoes
         DEF apiVars, AboutCommitted, StatusIs, Verdicts
    <3> QED
      BY <3>1, CommittedSame, ChargesNothing
  <2>11. ASSUME NEW w \in Workers, NEW v \in Verdicts, SandboxAnswers(w, v)
        PROVE  Ledger!Next \/ UNCHANGED Ledger!ledgerVars
    <3>1. UNCHANGED <<credits, status>>
      BY <2>11, <2>s, SandboxAnswersDoes DEF apiVars
    <3> QED
      BY <3>1, CommittedSame, ChargesNothing
  <2>12. ASSUME NEW w \in Workers, WriteResult(w)
        PROVE  Ledger!Next \/ UNCHANGED Ledger!ledgerVars
    <3>1. credits' = credits
            /\ \A s \in Subs : (status'[s] = "absent") <=> (status[s] = "absent")
      BY <2>12, <2>s, WriteResultDoes
         DEF apiVars, AboutCommitted, StatusIs, Verdicts
    <3> QED
      BY <3>1, CommittedSame, ChargesNothing
  <2>13. ASSUME NEW w \in Workers, Ack(w)
        PROVE  Ledger!Next \/ UNCHANGED Ledger!ledgerVars
    <3>1. UNCHANGED <<credits, status>>
      BY <2>13, <2>s, AckDoes DEF apiVars
    <3> QED
      BY <3>1, CommittedSame, ChargesNothing
  <2>14. ASSUME NEW w \in Workers, HandlerThrows(w)
        PROVE  Ledger!Next \/ UNCHANGED Ledger!ledgerVars
    <3>1. UNCHANGED <<credits, status>>
      BY <2>14, <2>s, HandlerThrowsDoes DEF apiVars
    <3> QED
      BY <3>1, CommittedSame, ChargesNothing
  <2>15. ASSUME NEW w \in Workers, WorkerCrash(w)
        PROVE  Ledger!Next \/ UNCHANGED Ledger!ledgerVars
    <3>1. UNCHANGED <<credits, status>>
      BY <2>15, <2>s, WorkerCrashDoes DEF apiVars
    <3> QED
      BY <3>1, CommittedSame, ChargesNothing
  <2>16. ASSUME NEW x \in Subs, LockExpires(x)
        PROVE  Ledger!Next \/ UNCHANGED Ledger!ledgerVars
    <3>1. UNCHANGED <<credits, status>>
      BY <2>16 DEF LockExpires, apiVars
    <3> QED
      BY <3>1, CommittedSame, ChargesNothing
  <2>17. ASSUME NEW x \in Subs, LockLost(x)
        PROVE  Ledger!Next \/ UNCHANGED Ledger!ledgerVars
    <3>1. UNCHANGED <<credits, status>>
      BY <2>17 DEF LockLost, apiVars
    <3> QED
      BY <3>1, CommittedSame, ChargesNothing
  <2>18. CASE UNCHANGED vars
    <3>1. UNCHANGED <<credits, status>>
      BY <2>18 DEF vars
    <3> QED
      BY <3>1, CommittedSame, ChargesNothing
  <2> QED
    BY <2>1, <2>2, <2>3, <2>4, <2>5, <2>6, <2>7, <2>8, <2>9, <2>10, <2>11,
       <2>12, <2>13, <2>14, <2>15, <2>16, <2>17, <2>18 DEF Next, Proceed, Work
<1> QED
  BY <1>1, <1>2, PipelineSoundAlways, PTL
     DEF Spec, ImplementsLedger, Ledger!Spec

-----------------------------------------------------------------------------
(* Feedback: callers and observers around the pipeline.                     *)

(* A key is sent once, so one request at most is about it, and the caller   *)
(* waits for that one; what it waits for was not charged before the commit. *)
WaitsFor(r) ==
  req[r].pc # "idle" =>
    /\ call[req[r].sub] \in {"sent", "failing"}
    /\ req[r].pc \in {"reserve", "commit"} => status[req[r].sub] = "absent"
    /\ req[r].pc = "reserve" => call[req[r].sub] = "sent"
    /\ req[r].pc = "release"
         /\ call[req[r].sub] = "sent" => status[req[r].sub] = "absent"
OneRequestEach ==
  \A q, r \in Requests :
    req[q].pc # "idle" /\ req[r].pc # "idle"
      /\ req[q].sub = req[r].sub => q = r
KnowsOf(s) ==
  /\ call[s] \in {"unsent", "refused"} => status[s] = "absent"
  /\ call[s] = "answered" => status[s] # "absent" /\ job[s].state # "none"

CallersWait ==
  /\ call \in [Subs -> Calls]
  /\ \A r \in Requests : WaitsFor(r)
  /\ OneRequestEach
  /\ \A s \in Subs : KnowsOf(s)

(* What an observer has read, or got over the socket, is the end of a run   *)
(* of the submission that it watches.                                       *)
Seen == Ends \cup {"absent", "queued"}
ObsState ==
  [pc : {"closed", "poll", "read", "done", "stopped"}, sub : Subs \cup {None},
   seen : Seen, status : Seen, runs : Seq(Ends)]
LiveState == [run : Nat, joined : BOOLEAN, events : SUBSET [run : Nat,
  data : Verdicts]]

TypedObservers == obs \in [Observers -> ObsState] /\ live \in LiveState

ReadsItsRuns(o) ==
  /\ obs[o].pc = "closed" => obs[o].sub = None
  /\ Polling(o) => obs[o].sub \in Subs
  /\ obs[o].pc = "read" /\ obs[o].seen \in Verdicts =>
       \E n \in 1 .. Len(runs[obs[o].sub]) : runs[obs[o].sub][n] = obs[o].seen
ReadsRuns == \A o \in Observers : ReadsItsRuns(o)

HearsRuns ==
  \A e \in live.events :
    /\ obs["page"].sub \in Subs
    /\ e.run \in 1 .. Len(runs[obs["page"].sub])
    /\ runs[obs["page"].sub][e.run] = e.data

FeedbackSound ==
  /\ PipelineSound
  /\ CallersWait
  /\ TypedObservers
  /\ ReadsRuns
  /\ PolledVerdictHasRun
  /\ HearsRuns

(* The end of a run is final.                                               *)
RunsStay ==
  \A s \in Subs :
    /\ Len(runs[s]) \in Nat /\ Len(runs'[s]) \in Nat
         /\ Len(runs[s]) <= Len(runs'[s])
    /\ \A n \in 1 .. Len(runs[s]) : runs[s][n] \in Verdicts =>
         runs'[s][n] = runs[s][n]

LEMMA EndsAreFinal == PipelineSound /\ [Next]_vars => RunsStay
<1> SUFFICES ASSUME PipelineSound, [Next]_vars PROVE RunsStay
  OBVIOUS
<1>s. TypedPipeline /\ AboutCommitted /\ OwnsItsRun
  BY DEF PipelineSound
<1>t. \A s \in Subs : Len(runs[s]) \in Nat
  BY <1>s DEF TypedPipeline
<1>a. CASE UNCHANGED runs
  BY <1>a, <1>t DEF RunsStay
<1>1. ASSUME NEW r \in Requests, NEW x \in Subs, Submit(r, x)
      PROVE  RunsStay
  BY <1>1, <1>a, <1>s, SubmitDoes
<1>2. ASSUME NEW r \in Requests, Reserve(r)
      PROVE  RunsStay
  BY <1>2, <1>a, <1>s, ReserveDoes
<1>3. ASSUME NEW r \in Requests, Commit(r)
      PROVE  RunsStay
  BY <1>3, <1>a, <1>s, CommitDoes
<1>4. ASSUME NEW r \in Requests, Release(r)
      PROVE  RunsStay
  BY <1>4, <1>a, <1>s, ReleaseDoes
<1>5. ASSUME NEW r \in Requests, Enqueue(r)
      PROVE  RunsStay
  BY <1>5, <1>a, <1>s, EnqueueDoes
<1>6. ASSUME NEW r \in Requests, CommitUnacknowledged(r)
      PROVE  RunsStay
  BY <1>6, <1>a, <1>s, CommitUnacknowledgedDoes
<1>7. ASSUME NEW r \in Requests, Abandon(r)
      PROVE  RunsStay
  BY <1>7, <1>a, <1>s, AbandonDoes
<1>8. ASSUME NEW w \in Workers, NEW x \in Subs, Take(w, x)
      PROVE  RunsStay
  BY <1>8, <1>a, <1>s, TakeDoes
<1>9. ASSUME NEW w \in Workers, InsertRun(w)
      PROVE  RunsStay
  <2>1. wk[w].sub \in Subs /\ RunStarts(wk[w].sub)
    BY <1>9, <1>s, InsertRunDoes
  <2>2. ASSUME NEW s \in Subs
        PROVE  /\ Len(runs'[s]) \in Nat /\ Len(runs[s]) <= Len(runs'[s])
               /\ \A k \in 1 .. Len(runs[s]) : runs'[s][k] = runs[s][k]
    <3>1. CASE s = wk[w].sub
      BY <2>1, <1>t, <3>1 DEF RunStarts
    <3>2. CASE s # wk[w].sub
      BY <2>1, <1>t, <3>2 DEF RunStarts
    <3> QED
      BY <3>1, <3>2
  <2> QED
    BY <2>2, <1>t DEF RunsStay
<1>10. ASSUME NEW w \in Workers, MarkRunning(w)
      PROVE  RunsStay
  BY <1>10, <1>a, <1>s, MarkRunningDoes
<1>11. ASSUME NEW w \in Workers, NEW v \in Verdicts, SandboxAnswers(w, v)
      PROVE  RunsStay
  BY <1>11, <1>a, <1>s, SandboxAnswersDoes
<1>12. ASSUME NEW w \in Workers, WriteResult(w)
      PROVE  RunsStay
  <2>1. /\ wk[w].sub \in Subs /\ RunEnds(wk[w].sub, wk[w].run, wk[w].verdict)
        /\ runs[wk[w].sub][wk[w].run] = "running"
    BY <1>12, <1>s, WriteResultDoes DEF OwnsItsRun, HasRun
  <2> QED
    BY <2>1, <1>t DEF RunEnds, RunsStay, Verdicts
<1>13. ASSUME NEW w \in Workers, Ack(w)
      PROVE  RunsStay
  BY <1>13, <1>a, <1>s, AckDoes
<1>14. ASSUME NEW w \in Workers, HandlerThrows(w)
      PROVE  RunsStay
  BY <1>14, <1>a, <1>s, HandlerThrowsDoes
<1>15. ASSUME NEW w \in Workers, WorkerCrash(w)
      PROVE  RunsStay
  BY <1>15, <1>a, <1>s, WorkerCrashDoes
<1>16. ASSUME NEW x \in Subs, LockExpires(x)
      PROVE  RunsStay
  BY <1>16, <1>a DEF LockExpires
<1>17. ASSUME NEW x \in Subs, LockLost(x)
      PROVE  RunsStay
  BY <1>17, <1>a DEF LockLost
<1>18. CASE UNCHANGED vars
  BY <1>18, <1>a DEF vars
<1> QED
  BY <1>1, <1>2, <1>3, <1>4, <1>5, <1>6, <1>7, <1>8, <1>9, <1>10, <1>11,
     <1>12, <1>13, <1>14, <1>15, <1>16, <1>17, <1>18 DEF Next, Proceed, Work

(* A worker neither makes nor unmakes charges and jobs.                     *)
Uncharging ==
  /\ UNCHANGED req
  /\ status' \in [Subs -> Seen]
  /\ \A s \in Subs : (status'[s] = "absent") <=> (status[s] = "absent")
  /\ \A s \in Subs : job[s].state # "none" => job'[s].state # "none"

LEMMA WorkersChargeNothing ==
  ASSUME PipelineSound,
         \/ \E w \in Workers : Work(w) \/ HandlerThrows(w) \/ WorkerCrash(w)
         \/ \E x \in Subs : LockExpires(x) \/ LockLost(x)
  PROVE  Uncharging
<1>s. TypedPipeline /\ AboutCommitted /\ OwnsItsRun
        /\ status \in [Subs -> Seen]
  BY DEF PipelineSound, TypedPipeline, Seen
<1>a. CASE UNCHANGED <<req, status, job>>
  BY <1>a, <1>s DEF Uncharging
<1>8. ASSUME NEW w \in Workers, NEW x \in Subs, Take(w, x)
      PROVE  Uncharging
  <2>1. UNCHANGED <<req, status>>
    BY <1>8, <1>s, TakeDoes DEF apiVars
  <2> QED
    BY <1>8, <1>s, <2>1, TakeDoes DEF JobIs, Uncharging
<1>9. ASSUME NEW w \in Workers, InsertRun(w)
      PROVE  Uncharging
  BY <1>9, <1>s, <1>a, InsertRunDoes DEF apiVars
<1>10. ASSUME NEW w \in Workers, MarkRunning(w)
      PROVE  Uncharging
  <2>1. UNCHANGED <<req, job>>
          /\ \A s \in Subs : (status'[s] = "absent") <=> (status[s] = "absent")
    BY <1>10, <1>s, MarkRunningDoes
       DEF apiVars, AboutCommitted, StatusIs, Verdicts
  <2>2. status' \in [Subs -> Seen]
    BY <1>10, <1>s, MarkRunningDoes DEF StatusIs, Seen
  <2> QED
    BY <2>1, <2>2 DEF Uncharging
<1>11. ASSUME NEW w \in Workers, NEW v \in Verdicts, SandboxAnswers(w, v)
      PROVE  Uncharging
  BY <1>11, <1>s, <1>a, SandboxAnswersDoes DEF apiVars
<1>12. ASSUME NEW w \in Workers, WriteResult(w)
      PROVE  Uncharging
  <2>1. UNCHANGED <<req, job>>
          /\ \A s \in Subs : (status'[s] = "absent") <=> (status[s] = "absent")
    BY <1>12, <1>s, WriteResultDoes
       DEF apiVars, AboutCommitted, StatusIs, Verdicts
  <2>2. status' \in [Subs -> Seen]
    BY <1>12, <1>s, WriteResultDoes DEF StatusIs, Seen
  <2> QED
    BY <2>1, <2>2 DEF Uncharging
<1>13. ASSUME NEW w \in Workers, Ack(w)
      PROVE  Uncharging
  <2>1. UNCHANGED <<req, status>>
    BY <1>13, <1>s, AckDoes DEF apiVars
  <2> QED
    BY <1>13, <1>s, <2>1, AckDoes DEF JobIs, Uncharging
<1>14. ASSUME NEW w \in Workers, HandlerThrows(w)
      PROVE  Uncharging
  <2>1. UNCHANGED <<req, status>>
    BY <1>14, <1>s, HandlerThrowsDoes DEF apiVars
  <2> QED
    BY <1>14, <1>s, <2>1, HandlerThrowsDoes DEF JobIs, Uncharging
<1>15. ASSUME NEW w \in Workers, WorkerCrash(w)
      PROVE  Uncharging
  BY <1>15, <1>s, <1>a, WorkerCrashDoes DEF apiVars
<1>16. ASSUME NEW x \in Subs, LockExpires(x)
      PROVE  Uncharging
  <2>1. UNCHANGED <<req, status>>
    BY <1>16 DEF LockExpires, apiVars
  <2> QED
    BY <1>16, <1>s, <2>1, StalledDoes DEF LockExpires, JobIs, Uncharging
<1>17. ASSUME NEW x \in Subs, LockLost(x)
      PROVE  Uncharging
  <2>1. UNCHANGED <<req, status>>
    BY <1>17 DEF LockLost, apiVars
  <2> QED
    BY <1>17, <1>s, <2>1, StalledDoes DEF LockLost, JobIs, Uncharging
<1> QED
  BY <1>8, <1>9, <1>10, <1>11, <1>12, <1>13, <1>14, <1>15, <1>16, <1>17
     DEF Work

LEMMA UnchargingKeepsCallers ==
  ASSUME AboutCommitted, CallersWait, Uncharging, UNCHANGED call
  PROVE  CallersWait'
<1>1. \A r \in Requests : WaitsFor(r)'
  BY DEF AboutCommitted, CallersWait, Uncharging, WaitsFor
<1>2. OneRequestEach'
  BY DEF CallersWait, Uncharging, OneRequestEach
<1>3. \A s \in Subs : KnowsOf(s)'
  BY DEF CallersWait, Uncharging, KnowsOf
<1> QED
  BY <1>1, <1>2, <1>3 DEF CallersWait

(* Feedback adds to the pipeline what its callers and observers know, and   *)
(* createTask, which takes credits.                                         *)
LEMMA StepsOfPipeline ==
  ASSUME FeedbackNext \/ UNCHANGED feedbackVars
  PROVE  [Next]_vars \/ LockBounty
<1>1. ASSUME NEW r \in Requests, NEW s \in Subs, Send(r, s) PROVE Next
  BY <1>1 DEF Send, Next
<1>2. ASSUME NEW r \in Requests, Respond(r) PROVE Next
  BY <1>2 DEF Respond, Next, Proceed
<1>3. ASSUME NEW w \in Workers, Execute(w) PROVE Next
  BY <1>3 DEF Execute, Next, Work
<1>4. ASSUME Disturb PROVE Next
  BY <1>4 DEF Disturb, Next
<1>5. ASSUME NEW s \in Subs, Recover(s) PROVE Next
  BY <1>5 DEF Recover, Next
<1>6. ASSUME \/ \E w \in Workers : EmitVerdict(w)
             \/ \E o \in Observers, s \in Subs : Watch(o, s)
             \/ \E o \in Observers : Poll(o) \/ PollRefused(o)
                  \/ PollRejected(o)
             \/ TimedOut \/ Join \/ SocketDrops \/ UNCHANGED feedbackVars
      PROVE  UNCHANGED vars
  BY <1>6
     DEF EmitVerdict, Watch, Poll, ReadStatus, ReadRuns, PollRefused,
            PollRejected,
              TimedOut, Join, SocketDrops, feedbackVars
<1> QED
  BY <1>1, <1>2, <1>3, <1>4, <1>5, <1>6 DEF FeedbackNext

LEMMA BountyStep == PipelineSound /\ LockBounty => PipelineSound' /\ RunsStay
<1> SUFFICES ASSUME PipelineSound, LockBounty PROVE PipelineSound' /\ RunsStay
  OBVIOUS
<1>1. UNCHANGED <<quota, status, runs, job, req, wk, unacked, errors, faults>>
  BY DEF LockBounty
<1>2. credits' \in Nat
  BY FeedbackAssumption DEF LockBounty, PipelineSound, TypedPipeline
<1>3. TypedPipeline' /\ AboutCommitted' /\ OwnsItsRun' /\ VerdictsHaveRuns'
        /\ WorkIsUnderWay'
  BY <1>1, <1>2
     DEF PipelineSound, TypedPipeline, Counters, AboutCommitted, OwnsItsRun,
                    VerdictsHaveRuns, Decided, WorkIsUnderWay
<1>4. QuotaCovers'
  BY <1>1 DEF PipelineSound, QuotaCovers, Units, Committed, Held, InFlight
<1>5. RunsArePaidFor'
  BY <1>1 DEF PipelineSound, RunsArePaidFor, PaidFor, Started, Inserting
<1>6. HoldsItsJob'
  BY <1>1
     DEF PipelineSound, HoldsItsJob, HolderHolds, ActiveIsWorkedOn,
            WorksOnLastRun,
              ShowsItsVerdict, Holds
<1>7. RunsStay
  BY <1>1 DEF PipelineSound, TypedPipeline, RunsStay
<1> QED
  BY <1>3, <1>4, <1>5, <1>6, <1>7 DEF PipelineSound

LEMMA FeedbackKeepsPipeline ==
  PipelineSound /\ [FeedbackNext]_feedbackVars => PipelineSound' /\ RunsStay
  BY StepsOfPipeline, PipelineStep, EndsAreFinal, BountyStep

(* What a caller learns of one call.                                        *)
CallIs(s, what) ==
  /\ call' \in [Subs -> Calls]
  /\ call'[s] = what
  /\ \A x \in Subs : x # s => call'[x] = call[x]

LEMMA LearnsDoes ==
  ASSUME CallersWait, NEW s \in Subs, NEW what \in Calls, Learns(s, what)
  PROVE  CallIs(s, what)
  BY DEF CallersWait, Learns, CallIs

(* A step of the one request that is about key x concerns that call only.   *)
LEMMA OneCallMoves ==
  ASSUME CallersWait, AboutCommitted, NEW r \in Requests, NEW x \in Subs,
         NEW p, NEW y, RequestIs(r, p, y), p # "idle" => y = x,
         \A q \in Requests : q # r /\ req[q].pc # "idle" => req[q].sub # x,
         call' \in [Subs -> Calls],
         \A s \in Subs : s # x =>
           call'[s] = call[s] /\ status'[s] = status[s] /\ job'[s] = job[s],
         WaitsFor(r)', KnowsOf(x)'
  PROVE  CallersWait'
<1>1. ASSUME NEW q \in Requests PROVE WaitsFor(q)'
  <2>1. CASE q = r
    BY <2>1
  <2>2. CASE q # r
    <3>1. req'[q] = req[q] /\ WaitsFor(q)
      BY <2>2 DEF RequestIs, CallersWait
    <3>2. req[q].pc # "idle" => req[q].sub \in Subs /\ req[q].sub # x
      BY <2>2 DEF AboutCommitted
    <3> QED
      BY <3>1, <3>2 DEF WaitsFor
  <2> QED
    BY <2>1, <2>2
<1>2. OneRequestEach'
  BY DEF OneRequestEach, CallersWait, RequestIs
<1>3. ASSUME NEW s \in Subs PROVE KnowsOf(s)'
  <2>1. CASE s = x
    BY <2>1
  <2>2. CASE s # x
    BY <2>2 DEF KnowsOf, CallersWait
  <2> QED
    BY <2>1, <2>2
<1> QED
  BY <1>1, <1>2, <1>3 DEF CallersWait

LEMMA CallersStep == FeedbackSound
  /\ [FeedbackNext]_feedbackVars => CallersWait'
<1> SUFFICES ASSUME FeedbackSound, [FeedbackNext]_feedbackVars
      PROVE CallersWait'
  OBVIOUS
<1>s. PipelineSound /\ CallersWait
  BY DEF FeedbackSound
<1>t. TypedPipeline /\ AboutCommitted
  BY <1>s DEF PipelineSound
<1>a. CASE UNCHANGED <<call, req, status, job>>
  BY <1>a, <1>s DEF CallersWait, WaitsFor, OneRequestEach, KnowsOf
<1>1. ASSUME NEW r \in Requests, NEW x \in Subs, Send(r, x) PROVE CallersWait'
  <2>1. /\ req[r].pc = "idle" /\ RequestIs(r, "reserve", x)
             /\ UNCHANGED <<status, job>>
        /\ call[x] = "unsent" /\ CallIs(x, "sent")
    BY <1>1, <1>s, <1>t, SubmitDoes, LearnsDoes DEF Send, MaySend, Calls
  <2>2. \A q \in Requests : req[q].pc # "idle" => req[q].sub # x
    BY <1>s, <2>1 DEF CallersWait, WaitsFor
  <2>3. status[x] = "absent"
    BY <1>s, <2>1 DEF CallersWait, KnowsOf
  <2>4. WaitsFor(r)' /\ KnowsOf(x)'
    BY <2>1, <2>3 DEF RequestIs, CallIs, WaitsFor, KnowsOf
  <2> QED
    BY <1>s, <1>t, <2>1, <2>2, <2>4, OneCallMoves DEF CallIs
<1>2. ASSUME NEW r \in Requests, Respond(r) PROVE CallersWait'
  <2>0. PICK x \in Subs : x = req[r].sub /\ req[r].pc # "idle"
    BY <1>2, <1>t
       DEF Respond, Reserve, Commit, CommitUnacknowledged, Release, Enqueue,
              Abandon,
                      AboutCommitted
  <2>w. /\ WaitsFor(r) /\ KnowsOf(x) /\ call \in [Subs -> Calls]
        /\ \A q \in Requests : q # r /\ req[q].pc # "idle" => req[q].sub # x
    BY <1>s, <2>0 DEF CallersWait, OneRequestEach
  <2>1. CASE Reserve(r)
          /\ Learns(x, IF req'[r].pc = "idle" THEN "refused" ELSE "sent")
    <3>1. UNCHANGED <<status, job>> /\ req[r].pc = "reserve"
      BY <2>1, <1>t, ReserveDoes
    <3>2. CASE RequestIs(r, "commit", x)
      <4>1. CallIs(x, "sent")
        BY <1>s, <2>1, <3>2, LearnsDoes DEF RequestIs, Calls
      <4>2. WaitsFor(r)' /\ KnowsOf(x)'
        BY <2>0, <2>w, <3>1, <3>2, <4>1
           DEF RequestIs, CallIs, WaitsFor, KnowsOf
      <4> QED
        BY <1>s, <1>t, <2>w, <3>1, <3>2, <4>1, <4>2, OneCallMoves DEF CallIs
    <3>3. CASE RequestIs(r, "idle", None)
      <4>1. CallIs(x, "refused")
        BY <1>s, <2>1, <3>3, LearnsDoes DEF RequestIs, Calls
      <4>2. WaitsFor(r)' /\ KnowsOf(x)'
        BY <2>0, <2>w, <3>1, <3>3, <4>1
           DEF RequestIs, CallIs, WaitsFor, KnowsOf
      <4> QED
        BY <1>s, <1>t, <2>w, <3>1, <3>3, <4>1, <4>2, OneCallMoves DEF CallIs
    <3> QED
      BY <2>1, <2>0, <1>t, <3>2, <3>3, ReserveDoes
  <2>2. CASE Commit(r) /\ UNCHANGED call
    <3>1. UNCHANGED <<call, job>> /\ req[r].pc = "commit"
      BY <2>2, <1>t, CommitDoes
    <3>2. CASE RequestIs(r, "enqueue", x) /\ StatusIs(x, "queued")
      <4>1. WaitsFor(r)' /\ KnowsOf(x)'
        BY <2>0, <2>w, <3>1, <3>2 DEF RequestIs, StatusIs, WaitsFor, KnowsOf
      <4> QED
        BY <1>s, <1>t, <2>w, <3>1, <3>2, <4>1, OneCallMoves DEF StatusIs
    <3>3. CASE RequestIs(r, "release", x) /\ UNCHANGED status
      <4>1. WaitsFor(r)' /\ KnowsOf(x)'
        BY <2>0, <2>w, <3>1, <3>3 DEF RequestIs, WaitsFor, KnowsOf
      <4> QED
        BY <1>s, <1>t, <2>w, <3>1, <3>3, <4>1, OneCallMoves
    <3> QED
      BY <2>2, <2>0, <1>t, <3>2, <3>3, CommitDoes
  <2>3. CASE CommitUnacknowledged(r) /\ Learns(x, "failing")
    <3>1. /\ UNCHANGED job /\ RequestIs(r, "release", x)
               /\ StatusIs(x, "queued")
          /\ CallIs(x, "failing")
      BY <2>3, <2>0, <1>s, <1>t, CommitUnacknowledgedDoes, LearnsDoes DEF Calls
    <3>2. WaitsFor(r)' /\ KnowsOf(x)'
      BY <2>0, <3>1 DEF RequestIs, StatusIs, CallIs, WaitsFor, KnowsOf
    <3> QED
      BY <1>s, <1>t, <2>w, <3>1, <3>2, OneCallMoves DEF CallIs, StatusIs
  <2>4. CASE Release(r) /\ Learns(x, Failed(x))
    <3>1. UNCHANGED <<status, job>> /\ req[r].pc = "release"
            /\ RequestIs(r, "idle", None)
      BY <2>4, <1>t, ReleaseDoes
    <3>2. CallIs(x, Failed(x))
      BY <2>4, <1>s, LearnsDoes DEF Failed, Calls
    <3>3. WaitsFor(r)' /\ KnowsOf(x)'
      BY <2>0, <2>w, <3>1, <3>2
         DEF RequestIs, CallIs, WaitsFor, KnowsOf, Failed
    <3> QED
      BY <1>s, <1>t, <2>w, <3>1, <3>2, <3>3, OneCallMoves DEF CallIs
  <2>5. CASE Enqueue(r) /\ (Learns(x, "answered") \/ Learns(x, "unknown"))
    <3>1. /\ UNCHANGED status /\ req[r].pc = "enqueue"
               /\ RequestIs(r, "idle", None)
          /\ status[x] # "absent"
      BY <2>5, <2>0, <1>t, EnqueueDoes DEF AboutCommitted
    <3>2. job'[x].state # "none" /\ \A s \in Subs : s # x => job'[s] = job[s]
      BY <2>5, <2>0, <1>t, EnqueueDoes DEF JobIs
    <3>3. CASE CallIs(x, "answered")
      <4>1. WaitsFor(r)' /\ KnowsOf(x)'
        BY <3>1, <3>2, <3>3 DEF RequestIs, CallIs, WaitsFor, KnowsOf
      <4> QED
        BY <1>s, <1>t, <2>w, <3>1, <3>2, <3>3, <4>1, OneCallMoves DEF CallIs
    <3>4. CASE CallIs(x, "unknown")
      <4>1. WaitsFor(r)' /\ KnowsOf(x)'
        BY <3>1, <3>4 DEF RequestIs, CallIs, WaitsFor, KnowsOf
      <4> QED
        BY <1>s, <1>t, <2>w, <3>1, <3>2, <3>4, <4>1, OneCallMoves DEF CallIs
    <3> QED
      BY <2>5, <1>s, <3>3, <3>4, LearnsDoes DEF Calls
  <2>6. CASE Abandon(r) /\ Learns(x, "unknown")
    <3>1. UNCHANGED <<status, job>> /\ RequestIs(r, "idle", None)
            /\ CallIs(x, "unknown")
      BY <2>6, <1>s, <1>t, AbandonDoes, LearnsDoes DEF Calls
    <3>2. WaitsFor(r)' /\ KnowsOf(x)'
      BY <3>1 DEF RequestIs, CallIs, WaitsFor, KnowsOf
    <3> QED
      BY <1>s, <1>t, <2>w, <3>1, <3>2, OneCallMoves DEF CallIs
  <2> QED
    BY <1>2, <2>0, <2>1, <2>2, <2>3, <2>4, <2>5, <2>6 DEF Respond
<1>3. ASSUME NEW w \in Workers, Execute(w) PROVE CallersWait'
  <2>1. Work(w) /\ UNCHANGED call
    BY <1>3 DEF Execute, Work
  <2> QED
    BY <2>1, <1>s, <1>t, WorkersChargeNothing, UnchargingKeepsCallers
<1>4. ASSUME Disturb PROVE CallersWait'
  <2>1. /\ UNCHANGED call
        /\ \/ \E w \in Workers : HandlerThrows(w) \/ WorkerCrash(w)
           \/ \E x \in Subs : LockLost(x)
    BY <1>4 DEF Disturb
  <2> QED
    BY <2>1, <1>s, <1>t, WorkersChargeNothing, UnchargingKeepsCallers
<1>5. ASSUME NEW x \in Subs, Recover(x) PROVE CallersWait'
  <2>1. UNCHANGED call /\ LockExpires(x)
    BY <1>5 DEF Recover, watching
  <2> QED
    BY <2>1, <1>s, <1>t, WorkersChargeNothing, UnchargingKeepsCallers
<1>6. CASE LockBounty
  BY <1>6, <1>a DEF LockBounty, watching
<1>7. ASSUME \/ \E w \in Workers : EmitVerdict(w)
             \/ \E o \in Observers, x \in Subs : Watch(o, x)
             \/ \E o \in Observers : Poll(o) \/ PollRefused(o)
                  \/ PollRejected(o)
             \/ TimedOut \/ Join \/ SocketDrops \/ UNCHANGED feedbackVars
      PROVE  CallersWait'
  <2>1. UNCHANGED <<vars, call>>
    BY <1>7
       DEF EmitVerdict, Watch, Poll, ReadStatus, ReadRuns, PollRefused,
              PollRejected,
                TimedOut, Join, SocketDrops, feedbackVars, watching
  <2> QED
    BY <2>1, <1>a DEF vars
<1> QED
  BY <1>1, <1>2, <1>3, <1>4, <1>5, <1>6, <1>7 DEF FeedbackNext

(* What a step does to one observer.                                        *)
ObsIs(o, p, x, sn, st, rn) ==
  /\ obs' \in [Observers -> ObsState]
  /\ obs'[o].pc = p /\ obs'[o].sub = x /\ obs'[o].seen = sn
  /\ obs'[o].status = st /\ obs'[o].runs = rn
  /\ \A q \in Observers : q # o => obs'[q] = obs[q]

LEMMA ObsRows ==
  ASSUME TypedObservers, NEW o \in Observers,
         NEW row \in ObsState, obs' = [obs EXCEPT ![o] = row]
  PROVE  ObsIs(o, row.pc, row.sub, row.seen, row.status, row.runs)
  BY DEF TypedObservers, ObsIs

PolledHasRun(o) ==
  obs[o].status \in Verdicts =>
    \E n \in 1 .. Len(obs[o].runs) : obs[o].runs[n] = obs[o].status

(* The runs that were seen stay as they were, ...                           *)
LEMMA ReadingStays ==
  ASSUME FeedbackSound, RunsStay, NEW o \in Observers, obs'[o] = obs[o]
  PROVE  ReadsItsRuns(o)' /\ PolledHasRun(o)'
<1>1. ReadsItsRuns(o) /\ PolledHasRun(o)
  BY DEF FeedbackSound, ReadsRuns, PolledVerdictHasRun, PolledHasRun
<1>2. PolledHasRun(o)'
  BY <1>1 DEF PolledHasRun
<1>3. CASE obs[o].pc = "read" /\ obs[o].seen \in Verdicts
  <2>1. obs[o].sub \in Subs
    BY <1>1, <1>3 DEF ReadsItsRuns, Polling
  <2>2. PICK n \in 1 .. Len(runs[obs[o].sub]) : runs[obs[o].sub][n] = obs[o].seen
    BY <1>1, <1>3 DEF ReadsItsRuns
  <2>3. n \in 1 .. Len(runs'[obs[o].sub]) /\ runs'[obs[o].sub][n] = obs[o].seen
    BY <1>3, <2>1, <2>2 DEF RunsStay
  <2> QED
    BY <1>1, <1>2, <2>3 DEF ReadsItsRuns, Polling
<1>4. CASE ~ (obs[o].pc = "read" /\ obs[o].seen \in Verdicts)
  BY <1>1, <1>2, <1>4 DEF ReadsItsRuns, Polling
<1> QED
  BY <1>3, <1>4

LEMMA OneObserverMoves ==
  ASSUME FeedbackSound, RunsStay, NEW o \in Observers,
         \A q \in Observers : q # o => obs'[q] = obs[q],
         ReadsItsRuns(o)', PolledHasRun(o)'
  PROVE  ReadsRuns' /\ PolledVerdictHasRun'
<1>1. ASSUME NEW q \in Observers PROVE ReadsItsRuns(q)' /\ PolledHasRun(q)'
  BY ReadingStays
<1> QED
  BY <1>1 DEF ReadsRuns, PolledVerdictHasRun, PolledHasRun

(* ... and so do those that were heard of.                                  *)
LEMMA HearingStays ==
  ASSUME FeedbackSound, RunsStay, obs'["page"].sub = obs["page"].sub,
         live'.events = live.events
  PROVE  HearsRuns'
<1> SUFFICES ASSUME NEW e \in live.events
             PROVE  /\ obs["page"].sub \in Subs
                    /\ e.run \in 1 .. Len(runs'[obs["page"].sub])
                    /\ runs'[obs["page"].sub][e.run] = e.data
  BY DEF HearsRuns
<1>1. /\ obs["page"].sub \in Subs
      /\ e.run \in 1 .. Len(runs[obs["page"].sub])
      /\ runs[obs["page"].sub][e.run] = e.data
  BY DEF FeedbackSound, HearsRuns
<1>2. e.data \in Verdicts
  BY DEF FeedbackSound, TypedObservers, LiveState
<1> QED
  BY <1>1, <1>2 DEF RunsStay

Observing == TypedObservers /\ ReadsRuns /\ PolledVerdictHasRun /\ HearsRuns

LEMMA ObservingStays ==
  ASSUME FeedbackSound, RunsStay, UNCHANGED obs,
         live' \in LiveState, live'.events = live.events
  PROVE  Observing'
<1>1. TypedObservers'
  BY DEF FeedbackSound, TypedObservers
<1>2. HearsRuns'
  BY HearingStays
<1>3. "page" \in Observers
  BY DEF Observers
<1>4. ReadsItsRuns("page")' /\ PolledHasRun("page")'
  BY <1>3, ReadingStays
<1>5. ReadsRuns' /\ PolledVerdictHasRun'
  BY <1>3, <1>4, OneObserverMoves
<1> QED
  BY <1>1, <1>2, <1>5 DEF Observing

(* An observer that moves on without looking at another submission.         *)
LEMMA ObserverMoves ==
  ASSUME FeedbackSound, RunsStay, NEW o \in Observers,
         NEW p, NEW x, NEW sn, NEW st, NEW rn, ObsIs(o, p, x, sn, st, rn),
         o = "page" => x = obs[o].sub,
         live' \in LiveState, live'.events = live.events,
         ReadsItsRuns(o)', PolledHasRun(o)'
  PROVE  Observing'
<1>1. obs'["page"].sub = obs["page"].sub
  BY DEF ObsIs, Observers
<1>2. TypedObservers'
  BY DEF ObsIs, TypedObservers
<1>3. ReadsRuns' /\ PolledVerdictHasRun'
  BY OneObserverMoves DEF ObsIs
<1> QED
  BY <1>1, <1>2, <1>3, HearingStays DEF Observing

LEMMA ClosedRow ==
  /\ Closed \in ObsState
  /\ Closed.pc = "closed" /\ Closed.sub = None /\ Closed.seen = "absent"
  /\ Closed.status = "absent" /\ Closed.runs = <<>>
  BY DEF Closed, ObsState, Seen, Ends

LEMMA ObserversStep ==
  ASSUME FeedbackSound, RunsStay, FeedbackNext \/ UNCHANGED feedbackVars
  PROVE  Observing'
<1>s. /\ PipelineSound /\ TypedPipeline /\ AboutCommitted /\ OwnsItsRun
           /\ VerdictsHaveRuns
      /\ CallersWait /\ TypedObservers /\ ReadsRuns /\ PolledVerdictHasRun
           /\ HearsRuns
  BY DEF FeedbackSound, PipelineSound
<1>t. /\ live \in LiveState /\ live.run \in Nat /\ live.joined \in BOOLEAN
      /\ status \in [Subs -> Seen] /\ runs \in [Subs -> Seq(Ends)]
      /\ \A o \in Observers : /\ obs[o] \in ObsState /\ ReadsItsRuns(o)
           /\ PolledHasRun(o)
  BY <1>s DEF TypedObservers, LiveState, TypedPipeline, Seen, ReadsRuns,
              PolledVerdictHasRun, PolledHasRun
<1>a. CASE UNCHANGED <<obs, live>>
  BY <1>a, <1>t, ObservingStays
<1>1. ASSUME \/ \E r \in Requests, x \in Subs : Send(r, x)
             \/ LockBounty \/ Disturb \/ UNCHANGED feedbackVars
             \/ \E r \in Requests : Respond(r)
             \/ \E w \in Workers : Execute(w)
             \/ \E x \in Subs : Recover(x)
      PROVE  Observing'
  BY <1>1, <1>a
     DEF Send, LockBounty, Disturb, Respond, Execute, Recover, watching,
            feedbackVars
<1>2. ASSUME NEW w \in Workers, EmitVerdict(w) PROVE Observing'
  <2>1. /\ UNCHANGED <<obs, runs>> /\ wk[w].pc = "ack"
             /\ Emit(w, wk[w].verdict)
    BY <1>2 DEF EmitVerdict, MayEmit, vars
  <2>2. /\ wk[w].verdict \in Verdicts
             /\ wk[w].run \in 1 .. Len(runs[wk[w].sub])
        /\ runs[wk[w].sub][wk[w].run] = wk[w].verdict
        /\ wk[w].sub \in Subs
    BY <1>s, <2>1 DEF OwnsItsRun, HasRun, AboutCommitted
  <2>3. CASE live' = live
    BY <2>1, <2>3, <1>a
  <2>4. CASE /\ live.joined /\ live.run = wk[w].run
          /\ obs["page"].sub = wk[w].sub
             /\ live' = [live EXCEPT !.events =
                           live.events \cup {[run |-> live.run,
                             data |-> wk[w].verdict]}]
    <3>1. /\ live'.run = live.run /\ live'.joined = live.joined
          /\ live'.events = live.events \cup {[run |-> live.run,
               data |-> wk[w].verdict]}
      BY <1>t, <2>4 DEF LiveState
    <3>2. [run |-> live.run, data |-> wk[w].verdict] \in [run : Nat,
            data : Verdicts]
      BY <1>t, <2>2
    <3>3. live' \in LiveState
      BY <1>t, <2>4, <3>1, <3>2 DEF LiveState
    <3>4. HearsRuns'
      <4> SUFFICES ASSUME NEW e \in live'.events
                   PROVE  /\ obs["page"].sub \in Subs
                          /\ e.run \in 1 .. Len(runs[obs["page"].sub])
                          /\ runs[obs["page"].sub][e.run] = e.data
        BY <2>1 DEF HearsRuns
      <4>1. CASE e \in live.events
        BY <1>s, <4>1 DEF HearsRuns
      <4>2. CASE e.run = live.run /\ e.data = wk[w].verdict
        BY <2>2, <2>4, <4>2
      <4> QED
        BY <3>1, <4>1, <4>2
    <3>5. TypedObservers' /\ ReadsRuns' /\ PolledVerdictHasRun'
      BY <1>s, <2>1, <3>3
         DEF TypedObservers, ReadsRuns, ReadsItsRuns, Polling,
                PolledVerdictHasRun
    <3> QED
      BY <3>4, <3>5 DEF Observing
  <2> QED
    BY <2>1, <2>3, <2>4 DEF Emit
<1>3. ASSUME NEW o \in Observers, NEW x \in Subs, Watch(o, x) PROVE Observing'
  <2>1. obs[o].pc = "closed" /\ UNCHANGED <<runs, live>>
        /\ obs' = [obs EXCEPT ![o] = [obs[o] EXCEPT !.pc = "poll", !.sub = x]]
    BY <1>3, <1>s DEF Watch, vars, TypedObservers
  <2>2. [obs[o] EXCEPT !.pc = "poll", !.sub = x] \in ObsState
    BY <1>t DEF ObsState
  <2>3. ObsIs(o, "poll", x, obs[o].seen, obs[o].status, obs[o].runs)
    <3>1. ObsIs(o, [obs[o] EXCEPT !.pc = "poll", !.sub = x].pc,
                   [obs[o] EXCEPT !.pc = "poll", !.sub = x].sub,
                   [obs[o] EXCEPT !.pc = "poll", !.sub = x].seen,
                   [obs[o] EXCEPT !.pc = "poll", !.sub = x].status,
                   [obs[o] EXCEPT !.pc = "poll", !.sub = x].runs)
      BY <1>s, <2>1, <2>2, ObsRows
    <3>2. obs[o] \in ObsState
      BY <1>t
    <3> QED
      BY <3>1, <3>2 DEF ObsState
  <2>4. ReadsItsRuns(o)' /\ PolledHasRun(o)'
    BY <1>t, <2>3 DEF ReadsItsRuns, PolledHasRun, Polling, ObsIs
  <2>5. ReadsRuns' /\ PolledVerdictHasRun'
    BY <2>3, <2>4, OneObserverMoves DEF ObsIs
  <2>6. TypedObservers'
    BY <1>t, <2>1, <2>3 DEF ObsIs, TypedObservers
  <2>7. HearsRuns'
    <3>1. CASE o = "page"
      <4>1. obs["page"].sub \notin Subs
        BY <1>t, <2>1, <3>1 DEF ReadsItsRuns
      <4>2. live.events = {}
        BY <1>s, <4>1 DEF HearsRuns
      <4> QED
        BY <2>1, <4>2 DEF HearsRuns
    <3>2. CASE o # "page"
      BY <2>1, <2>3, <3>2, HearingStays DEF ObsIs, Observers
    <3> QED
      BY <3>1, <3>2
  <2> QED
    BY <2>5, <2>6, <2>7 DEF Observing
<1>4. ASSUME NEW o \in Observers, ReadStatus(o) PROVE Observing'
  <2>1. /\ obs[o].pc = "poll" /\ obs[o].sub \in Subs
             /\ UNCHANGED <<runs, live>>
        /\ obs' = [obs EXCEPT ![o] = [obs[o] EXCEPT !.pc = "read",
                                                    !.seen = status[obs[o].sub]]]
    BY <1>4, <1>s, <1>t
       DEF ReadStatus, vars, TypedObservers, ReadsItsRuns, Polling
  <2>2. PICK v \in Seen : v = status[obs[o].sub]
    BY <1>t, <2>1
  <2>3. [obs[o] EXCEPT !.pc = "read", !.seen = v] \in ObsState
    BY <1>t DEF ObsState
  <2>4. ObsIs(o, "read", obs[o].sub, v, obs[o].status, obs[o].runs)
    <3>1. ObsIs(o, [obs[o] EXCEPT !.pc = "read", !.seen = v].pc,
                   [obs[o] EXCEPT !.pc = "read", !.seen = v].sub,
                   [obs[o] EXCEPT !.pc = "read", !.seen = v].seen,
                   [obs[o] EXCEPT !.pc = "read", !.seen = v].status,
                   [obs[o] EXCEPT !.pc = "read", !.seen = v].runs)
      BY <1>s, <2>1, <2>2, <2>3, ObsRows
    <3>2. obs[o] \in ObsState
      BY <1>t
    <3> QED
      BY <3>1, <3>2 DEF ObsState
  <2>5. v \in Verdicts =>
          \E n \in 1 .. Len(runs[obs[o].sub]) : runs[obs[o].sub][n] = v
    BY <1>s, <2>1, <2>2 DEF VerdictsHaveRuns, Decided
  <2>6. ReadsItsRuns(o)' /\ PolledHasRun(o)'
    BY <1>t, <2>1, <2>4, <2>5 DEF ReadsItsRuns, PolledHasRun, Polling, ObsIs
  <2> QED
    BY <1>t, <2>1, <2>4, <2>6, ObserverMoves
<1>5. ASSUME NEW o \in Observers, ReadRuns(o) PROVE Observing'
  <2> DEFINE x == obs[o].sub
             row == IF Satisfied(o, obs[o].seen)
                    THEN [[obs[o] EXCEPT !.seen = "absent",
                      !.status = obs[o].seen,
                                         !.runs = runs[x]] EXCEPT !.pc = "done"]
                    ELSE IF o = "page"
                    THEN [[obs[o] EXCEPT !.seen = "absent",
                      !.status = obs[o].seen,
                                         !.runs = runs[x]] EXCEPT !.pc = "poll"]
                    ELSE [obs[o] EXCEPT !.seen = "absent", !.pc = "poll"]
  <2>1. /\ obs[o].pc = "read" /\ obs' = [obs EXCEPT ![o] = row]
             /\ UNCHANGED runs
        /\ Follow(o, runs[x])
    BY <1>5 DEF ReadRuns, RunsOf, vars
  <2>2. x \in Subs /\ runs[x] \in Seq(Ends) /\ obs[o].seen \in Seen
          /\ Len(runs[x]) \in Nat
    BY <1>t, <2>1 DEF ReadsItsRuns, Polling, ObsState
  <2>3. row \in ObsState
    BY <1>t, <2>2 DEF ObsState, Seen
  <2>4. ObsIs(o, row.pc, row.sub, row.seen, row.status, row.runs)
    BY <1>s, <2>1, <2>3, ObsRows
  <2>5. /\ row.pc \in {"done", "poll"} /\ row.sub = x /\ row.seen = "absent"
        /\ \/ row.status = obs[o].seen /\ row.runs = runs[x]
           \/ row.status = obs[o].status /\ row.runs = obs[o].runs
    BY <1>t DEF ObsState
  <2>6. live' \in LiveState /\ live'.events = live.events
    BY <1>t, <2>1, <2>2 DEF Follow, NewestRun, LiveState
  <2>7. obs[o].seen \in Verdicts =>
          \E n \in 1 .. Len(runs[x]) : runs[x][n] = obs[o].seen
    BY <1>t, <2>1 DEF ReadsItsRuns
  <2> HIDE DEF row
  <2>8. ReadsItsRuns(o)'
    BY <2>2, <2>4, <2>5 DEF ReadsItsRuns, Polling, ObsIs
  <2>9. PolledHasRun(o)'
    BY <1>t, <2>4, <2>5, <2>7 DEF PolledHasRun, ObsIs
  <2> QED
    BY <2>4, <2>5, <2>6, <2>8, <2>9, ObserverMoves
<1>6. ASSUME NEW o \in Observers, NEW row \in ObsState, UNCHANGED <<runs,
               live>>,
             obs' = [obs EXCEPT ![o] = row], o = "page" =>
               row.sub = obs[o].sub,
             row.pc \in {"closed", "poll", "stopped"},
               row.pc = "closed" => row.sub = None,
             row.pc = "poll" => row.sub \in Subs,
             \/ row.status = "absent"
             \/ row.status = obs[o].status /\ row.runs = obs[o].runs
      PROVE  Observing'
  <2>1. ObsIs(o, row.pc, row.sub, row.seen, row.status, row.runs)
    BY <1>s, <1>6, ObsRows
  <2>2. ReadsItsRuns(o)'
    BY <1>6, <2>1 DEF ReadsItsRuns, Polling, ObsIs
  <2>3. PolledHasRun(o)'
    BY <1>6, <1>t, <2>1 DEF PolledHasRun, ObsIs, Verdicts
  <2> QED
    BY <1>6, <1>t, <2>1, <2>2, <2>3, ObserverMoves
<1>7. ASSUME UNCHANGED <<runs, live>>,
               obs' = [obs EXCEPT !["sdk"] = Closed] PROVE Observing'
  BY <1>7, <1>6, ClosedRow DEF Observers
<1>8. ASSUME NEW o \in Observers, Polling(o), NEW p \in {"poll", "stopped"},
             UNCHANGED <<runs, live>>,
             obs' = [obs EXCEPT ![o] = [obs[o] EXCEPT !.pc = p,
               !.seen = "absent"]]
      PROVE  Observing'
  <2> DEFINE row == [obs[o] EXCEPT !.pc = p, !.seen = "absent"]
  <2>1. row \in ObsState /\ row.pc = p /\ row.sub = obs[o].sub
        /\ row.status = obs[o].status /\ row.runs = obs[o].runs
    BY <1>t DEF ObsState, Seen
  <2>2. obs[o].sub \in Subs
    BY <1>8, <1>t DEF ReadsItsRuns
  <2> HIDE DEF row
  <2>3. obs' = [obs EXCEPT ![o] = row]
    BY <1>8 DEF row
  <2> QED
    BY <1>6, <1>8, <2>1, <2>2, <2>3
<1>9. ASSUME TimedOut PROVE Observing'
  BY <1>9, <1>7 DEF TimedOut, vars
<1>10. ASSUME NEW o \in Observers, PollRefused(o) \/ PollRejected(o)
                PROVE Observing'
  <2>1. UNCHANGED <<runs, live>> /\ Polling(o)
    BY <1>10 DEF PollRefused, PollRejected, vars, Polling
  <2>2. CASE o = "sdk"
    BY <1>10, <1>7, <2>1, <2>2 DEF PollRefused, PollRejected
  <2>3. CASE o # "sdk"
    <3>1. \E p \in {"poll", "stopped"} :
            obs' = [obs EXCEPT ![o] = [obs[o] EXCEPT !.pc = p,
              !.seen = "absent"]]
      BY <1>10, <2>3 DEF PollRefused, PollRejected
    <3> QED
      BY <1>8, <2>1, <3>1
  <2> QED
    BY <2>2, <2>3
<1>11. ASSUME Join \/ SocketDrops PROVE Observing'
  <2>1. UNCHANGED obs /\ \E b \in BOOLEAN : live' = [live EXCEPT !.joined = b]
    BY <1>11 DEF Join, SocketDrops
  <2>2. live' \in LiveState /\ live'.events = live.events
    BY <1>t, <2>1 DEF LiveState
  <2> QED
    BY <2>1, <2>2, ObservingStays
<1> QED
  BY <1>1, <1>2, <1>3, <1>4, <1>5, <1>9, <1>10, <1>11 DEF FeedbackNext, Poll

-----------------------------------------------------------------------------
(* The theorems about callers and observers.                                *)

LEMMA FeedbackInitSound == FeedbackInit => FeedbackSound
<1> SUFFICES ASSUME FeedbackInit PROVE FeedbackSound
  OBVIOUS
<1>1. PipelineSound
  BY PipelineInit DEF FeedbackInit
<1>2. CallersWait
  BY
     DEF FeedbackInit, Init, CallersWait, WaitsFor, OneRequestEach, KnowsOf,
            Calls, IdleReq
<1>3. TypedObservers
  BY ClosedRow DEF FeedbackInit, TypedObservers, Deaf, LiveState
<1>4. ReadsRuns /\ PolledVerdictHasRun /\ HearsRuns
  BY ClosedRow
     DEF FeedbackInit, ReadsRuns, ReadsItsRuns, Polling, PolledVerdictHasRun,
            Verdicts,
                   HearsRuns, Deaf
<1> QED
  BY <1>1, <1>2, <1>3, <1>4 DEF FeedbackSound

LEMMA FeedbackStep == FeedbackSound
  /\ [FeedbackNext]_feedbackVars => FeedbackSound'
<1> SUFFICES ASSUME FeedbackSound, [FeedbackNext]_feedbackVars
      PROVE FeedbackSound'
  OBVIOUS
<1>1. PipelineSound' /\ RunsStay
  BY FeedbackKeepsPipeline DEF FeedbackSound
<1>2. CallersWait'
  BY CallersStep
<1>3. Observing'
  BY <1>1, ObserversStep
<1> QED
  BY <1>1, <1>2, <1>3 DEF FeedbackSound, Observing

(* The inductive invariant: what callers and observers know, on top of that *)
(* of the pipeline.                                                         *)
THEOREM FeedbackSoundAlways == FeedbackSpec => []FeedbackSound
  BY FeedbackInitSound, FeedbackStep, PTL DEF FeedbackSpec

(* Whoever was given an id has a charged submission with a job, and a       *)
(* refusal is one, whatever fails in between (submit 311-381).              *)
THEOREM AnswersAlwaysTruthful == FeedbackSpec => []AnswersAreTruthful
<1>1. FeedbackSound => AnswersAreTruthful
  BY DEF FeedbackSound, CallersWait, KnowsOf, AnswersAreTruthful, Committed
<1> QED
  BY <1>1, FeedbackSoundAlways, PTL

(* Every verdict that an observer gets, by polling or over the socket, is   *)
(* the committed end of a run (getSubmission 384-396, execution.worker      *)
(* 88-123).                                                                 *)
THEOREM WhatIsShownAlwaysCommitted == FeedbackSpec => []WhatIsShownIsCommitted
<1>1. FeedbackSound => WhatIsShownIsCommitted
  BY
     DEF FeedbackSound, HearsRuns, WhatIsShownIsCommitted,
            LiveVerdictIsCommitted
<1> QED
  BY <1>1, FeedbackSoundAlways, PTL

=============================================================================
