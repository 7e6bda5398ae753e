------------------------- MODULE BountyEscrowProofs -------------------------
(***************************************************************************)
(* Theorems about BountyEscrow, for every number of agents, tasks,         *)
(* submissions and concurrent requests, every bounty and every quorum.     *)
(***************************************************************************)
EXTENDS BountyEscrow, FiniteSetTheorems, TLAPS

USE EscrowAssumption

-----------------------------------------------------------------------------
(* The effect of posting an entry.                                          *)

(* An entry as the handlers build it: of the right type, save that a bounty *)
(* of zero gives an amount of zero, which is not posted.                    *)
Draft == [kind : Ledger!Kinds, of : Tasks \cup Subs, agent : Agents,
          amount : Amounts \cup {0}]

LEMMA AmountsAreIntegers == \A x \in Amounts : x \in Int
BY DEF Amounts

LEMMA DraftsOfHandlers ==
  ASSUME TypeOK
  PROVE  /\ \A t \in Tasks, b \in Bounties : LockEntry(t, b) \in Draft
         /\ \A t \in Tasks : RefundEntry(t) \in Draft
         /\ \A t \in Tasks, s \in Subs : RewardEntry(t, s) \in Draft
         /\ \A s \in Subs : ComputeEntry(s) \in Draft
BY DEF TypeOK, TaskRow, Draft, Amounts, LockEntry, RefundEntry, RewardEntry,
       ComputeEntry, Ledger!Kinds

LEMMA MoveCreditsTyped ==
  ASSUME credits \in [Agents -> Nat], ledger \subseteq Ledger!Entry,
         NEW e \in Draft, credits[e.agent] + e.amount >= 0, MoveCredits(e)
  PROVE  credits' \in [Agents -> Nat] /\ ledger' \subseteq Ledger!Entry
<1>1. e.agent \in Agents /\ e.amount \in Int
  BY AmountsAreIntegers DEF Draft
<1>2. CASE e.amount = 0
  BY <1>2 DEF MoveCredits
<1>3. CASE e.amount # 0
  <2>1. e \in Ledger!Entry
    BY <1>3 DEF Draft, Ledger!Entry
  <2>2. credits[e.agent] + e.amount \in Nat
    BY <1>1
  <2> QED
    BY <1>1, <1>3, <2>1, <2>2 DEF MoveCredits
<1> QED
  BY <1>2, <1>3

-----------------------------------------------------------------------------
(* The database only grows.                                                 *)

(* No handler deletes a task or a submission, moves a submission to another *)
(* task, changes a bounty or a quorum, or takes an approval back.           *)
RowsKept ==
  /\ \A t \in Tasks : tasks[t].status # "absent" =>
       /\ tasks'[t].status # "absent"
       /\ tasks'[t].bounty = tasks[t].bounty
       /\ tasks'[t].required = tasks[t].required
  /\ \A s \in Subs : subs[s].status # "absent" =>
       /\ subs'[s].status # "absent"
       /\ subs'[s].task = subs[s].task
ApprovalsKept ==
  \A s \in Subs : Approvals(s) \subseteq {a \in Agents : audits'[s][a] = "approve"}

LEMMA RowsAreKept == TypeOK /\ [Next]_vars => RowsKept
<1> SUFFICES ASSUME TypeOK, [Next]_vars PROVE RowsKept
  OBVIOUS
<1> USE DEF TypeOK, RowsKept
<1>1. ASSUME NEW t \in Tasks, NEW b \in Bounties, NEW q \in Quorums,
               CreateTask(t, b, q)
      PROVE  RowsKept
  BY <1>1 DEF CreateTask
<1>2. ASSUME NEW r \in Requests, NEW t \in Tasks, CancelCheck(r, t)
      PROVE  RowsKept
  BY <1>2 DEF CancelCheck, dbVars
<1>3. ASSUME NEW r \in Requests, CancelCommit(r) PROVE RowsKept
  BY <1>3 DEF CancelCommit, TaskRow
<1>4. ASSUME NEW r \in Requests, NEW s \in Subs, NEW t \in Tasks,
               SubmitCheck(r, s, t)
      PROVE  RowsKept
  BY <1>4 DEF SubmitCheck, dbVars
<1>5. ASSUME NEW r \in Requests, SubmitCommit(r) PROVE RowsKept
  BY <1>5 DEF SubmitCommit
<1>6. ASSUME NEW s \in Subs, RunStart(s) PROVE RowsKept
  BY <1>6 DEF RunStart, SubRow
<1>7. ASSUME NEW s \in Subs, NEW v \in {"passed", "failed"}, RunVerdict(s, v)
      PROVE  RowsKept
  BY <1>7 DEF RunVerdict, SubRow
<1>8. ASSUME NEW r \in Requests, NEW a \in Agents, NEW s \in Subs,
             NEW v \in Verdicts, AuditCheck(r, a, s, v)
      PROVE  RowsKept
  BY <1>8 DEF AuditCheck, dbVars
<1>9. ASSUME NEW r \in Requests, AuditEligible(r) PROVE RowsKept
  BY <1>9 DEF AuditEligible, dbVars
<1>10. ASSUME NEW r \in Requests, AuditVote(r) PROVE RowsKept
  BY <1>10 DEF AuditVote, dbVars
<1>11. ASSUME NEW r \in Requests, AuditCount(r) PROVE RowsKept
  BY <1>11 DEF AuditCount, dbVars
<1>12. ASSUME NEW r \in Requests, SettleCommit(r) PROVE RowsKept
  <2> DEFINE t == req[r].task
  <2>1. CASE tasks' = [tasks EXCEPT ![t].status = "resolved",
                                    ![t].accepted = req[r].sub]
    <3>1. ASSUME NEW u \in Tasks
          PROVE  /\ tasks'[u].bounty = tasks[u].bounty
                 /\ tasks'[u].required = tasks[u].required
                 /\ tasks'[u].status \in {tasks[u].status, "resolved"}
      <4>1. tasks[u] \in TaskRow
        OBVIOUS
      <4>2. CASE u = t
        BY <2>1, <4>1, <4>2 DEF TaskRow
      <4>3. CASE u # t
        BY <2>1, <4>3
      <4> QED
        BY <4>2, <4>3
    <3>2. subs' = subs
      BY <1>12 DEF SettleCommit
    <3> QED
      BY <3>1, <3>2
  <2>2. CASE tasks' = tasks
    BY <1>12, <2>2 DEF SettleCommit
  <2> QED
    BY <1>12, <2>1, <2>2 DEF SettleCommit
<1>13. ASSUME NEW r \in Requests, Abandon(r) PROVE RowsKept
  BY <1>13 DEF Abandon, dbVars
<1>14. CASE UNCHANGED vars
  BY <1>14 DEF vars
<1> QED
  BY <1>1, <1>2, <1>3, <1>4, <1>5, <1>6, <1>7, <1>8, <1>9, <1>10, <1>11,
     <1>12, <1>13, <1>14
  DEF Next, Proceed

(* Votes are written by the voting step only.                               *)
LEMMA AuditsChangeByVote ==
  [Next]_vars => audits' = audits \/ \E r \in Requests : AuditVote(r)
<1> SUFFICES ASSUME [Next]_vars
             PROVE  audits' = audits \/ \E r \in Requests : AuditVote(r)
  OBVIOUS
<1> DEFINE G == audits' = audits \/ \E r \in Requests : AuditVote(r)
<1> SUFFICES G
  OBVIOUS
<1>1. ASSUME NEW t \in Tasks, NEW b \in Bounties, NEW q \in Quorums,
               CreateTask(t, b, q)
      PROVE  G
  BY <1>1 DEF CreateTask, dbVars
<1>2. ASSUME NEW r \in Requests, NEW t \in Tasks, CancelCheck(r, t) PROVE G
  BY <1>2 DEF CancelCheck, dbVars
<1>3. ASSUME NEW r \in Requests, CancelCommit(r) PROVE G
  BY <1>3 DEF CancelCommit, dbVars
<1>4. ASSUME NEW r \in Requests, NEW s \in Subs, NEW t \in Tasks,
               SubmitCheck(r, s, t)
      PROVE  G
  BY <1>4 DEF SubmitCheck, dbVars
<1>5. ASSUME NEW r \in Requests, SubmitCommit(r) PROVE G
  BY <1>5 DEF SubmitCommit, dbVars
<1>6. ASSUME NEW s \in Subs, RunStart(s) PROVE G
  BY <1>6 DEF RunStart, dbVars
<1>7. ASSUME NEW s \in Subs, NEW v \in {"passed", "failed"}, RunVerdict(s, v)
      PROVE  G
  BY <1>7 DEF RunVerdict, dbVars
<1>8. ASSUME NEW r \in Requests, NEW a \in Agents, NEW s \in Subs,
             NEW v \in Verdicts, AuditCheck(r, a, s, v)
      PROVE  G
  BY <1>8 DEF AuditCheck, dbVars
<1>9. ASSUME NEW r \in Requests, AuditEligible(r) PROVE G
  BY <1>9 DEF AuditEligible, dbVars
<1>10. ASSUME NEW r \in Requests, AuditVote(r) PROVE G
  BY <1>10
<1>11. ASSUME NEW r \in Requests, AuditCount(r) PROVE G
  BY <1>11 DEF AuditCount, dbVars
<1>12. ASSUME NEW r \in Requests, SettleCommit(r) PROVE G
  BY <1>12 DEF SettleCommit, dbVars
<1>13. ASSUME NEW r \in Requests, Abandon(r) PROVE G
  BY <1>13 DEF Abandon, dbVars
<1>14. CASE UNCHANGED vars
  BY <1>14 DEF vars
<1> QED
  BY <1>1, <1>2, <1>3, <1>4, <1>5, <1>6, <1>7, <1>8, <1>9, <1>10, <1>11,
     <1>12, <1>13, <1>14
  DEF Next, Proceed

LEMMA ApprovalsAreKept == TypeOK /\ [Next]_vars => ApprovalsKept
<1> SUFFICES ASSUME TypeOK, [Next]_vars PROVE ApprovalsKept
  OBVIOUS
<1> USE DEF ApprovalsKept, Approvals
<1>1. ASSUME NEW t \in Tasks, NEW b \in Bounties, NEW q \in Quorums,
               CreateTask(t, b, q)
      PROVE  ApprovalsKept
  BY <1>1 DEF CreateTask, dbVars
<1>2. ASSUME NEW r \in Requests, NEW t \in Tasks, CancelCheck(r, t)
      PROVE  ApprovalsKept
  BY <1>2 DEF CancelCheck, dbVars
<1>3. ASSUME NEW r \in Requests, CancelCommit(r) PROVE ApprovalsKept
  BY <1>3 DEF CancelCommit, dbVars
<1>4. ASSUME NEW r \in Requests, NEW s \in Subs, NEW t \in Tasks,
               SubmitCheck(r, s, t)
      PROVE  ApprovalsKept
  BY <1>4 DEF SubmitCheck, dbVars
<1>5. ASSUME NEW r \in Requests, SubmitCommit(r) PROVE ApprovalsKept
  BY <1>5 DEF SubmitCommit, dbVars
<1>6. ASSUME NEW s \in Subs, RunStart(s) PROVE ApprovalsKept
  BY <1>6 DEF RunStart, dbVars
<1>7. ASSUME NEW s \in Subs, NEW v \in {"passed", "failed"}, RunVerdict(s, v)
      PROVE  ApprovalsKept
  BY <1>7 DEF RunVerdict, dbVars
<1>8. ASSUME NEW r \in Requests, NEW a \in Agents, NEW s \in Subs,
             NEW v \in Verdicts, AuditCheck(r, a, s, v)
      PROVE  ApprovalsKept
  BY <1>8 DEF AuditCheck, dbVars
<1>9. ASSUME NEW r \in Requests, AuditEligible(r) PROVE ApprovalsKept
  BY <1>9 DEF AuditEligible, dbVars
<1>10. ASSUME NEW r \in Requests, AuditVote(r) PROVE ApprovalsKept
  BY <1>10 DEF AuditVote, TypeOK, Verdicts
<1>11. ASSUME NEW r \in Requests, AuditCount(r) PROVE ApprovalsKept
  BY <1>11 DEF AuditCount, dbVars
<1>12. ASSUME NEW r \in Requests, SettleCommit(r) PROVE ApprovalsKept
  BY <1>12 DEF SettleCommit, dbVars
<1>13. ASSUME NEW r \in Requests, Abandon(r) PROVE ApprovalsKept
  BY <1>13 DEF Abandon, dbVars
<1>14. CASE UNCHANGED vars
  BY <1>14 DEF vars
<1> QED
  BY <1>1, <1>2, <1>3, <1>4, <1>5, <1>6, <1>7, <1>8, <1>9, <1>10, <1>11,
     <1>12, <1>13, <1>14
  DEF Next, Proceed

(* So the number of approvals a request has counted is a lower bound.       *)
LEMMA ApprovalsOnlyGrow ==
  ASSUME TypeOK, [Next]_vars, NEW s \in Subs
  PROVE  /\ Cardinality(Approvals(s)) \in Nat
         /\ Cardinality(Approvals(s)') \in Nat
         /\ Cardinality(Approvals(s)) <= Cardinality(Approvals(s)')
<1>1. Approvals(s) \subseteq Approvals(s)'
  BY ApprovalsAreKept DEF ApprovalsKept, Approvals
<1>2. Approvals(s)' \subseteq Agents
  BY DEF Approvals
<1>3. IsFiniteSet(Approvals(s)') /\ IsFiniteSet(Approvals(s))
  BY <1>1, <1>2, FS_Subset
<1> QED
  BY <1>1, <1>3, FS_Subset, FS_CardinalityType

-----------------------------------------------------------------------------
(* Types and references are inductive together.                             *)

(* What a request relies on stays true while other requests run.            *)
LEMMA RequestStillAgrees ==
  ASSUME TypeOK, [Next]_vars, NEW r \in Requests,
         RequestAgrees(req[r]), req'[r] = req[r]
  PROVE  RequestAgrees(req[r])'
<1> DEFINE q == req[r]
<1>1. RowsKept
  BY RowsAreKept
<1>2. /\ q.pc # "idle" => q.task \in Tasks /\ tasks'[q.task].status # "absent"
      /\ q.pc = "charge" => q.sub \in Subs
  BY <1>1 DEF RequestAgrees, RowsKept
<1>3. Auditing(q) => /\ q.sub \in Subs
                     /\ q.agent \in Agents
                     /\ q.verdict \in Verdicts
                     /\ subs'[q.sub].status # "absent"
                     /\ subs'[q.sub].task = q.task
                     /\ subs[q.sub].task = q.task
  BY <1>1 DEF RequestAgrees, RowsKept
<1>4. q.pc = "vote" => q.agent \in Qualified /\ Independent(q.agent, q.sub)
  BY DEF RequestAgrees
<1>5. q.pc = "settle" =>
        Cardinality({a \in Agents : audits'[q.sub][a] = "approve"}) >=
          tasks'[q.task].required
  <2> SUFFICES ASSUME q.pc = "settle"
               PROVE  Cardinality({a \in Agents : audits'[q.sub][a] = "approve"})
                        >= tasks'[q.task].required
    OBVIOUS
  <2>1. q.sub \in Subs /\ q.task \in Tasks /\ tasks[q.task].status # "absent"
    BY <1>3 DEF Auditing, RequestAgrees
  <2>2. tasks'[q.task].required = tasks[q.task].required
    BY <1>1, <2>1 DEF RowsKept
  <2>3. tasks[q.task].required \in Nat
    BY <2>1 DEF TypeOK, TaskRow
  <2>4. Cardinality(Approvals(q.sub)) >= tasks[q.task].required
    BY DEF RequestAgrees
  <2> HIDE DEF q
  <2>5. \A s \in Subs :
          /\ Cardinality(Approvals(s)) \in Nat
          /\ Cardinality({a \in Agents : audits'[s][a] = "approve"}) \in Nat
          /\ Cardinality(Approvals(s)) <=
               Cardinality({a \in Agents : audits'[s][a] = "approve"})
    BY ApprovalsOnlyGrow DEF Approvals
  <2> QED
    BY <2>1, <2>2, <2>3, <2>4, <2>5
<1>6. req'[r] = q
  OBVIOUS
<1> HIDE DEF q
<1> QED
  BY <1>2, <1>3, <1>4, <1>5, <1>6
  DEF RequestAgrees, Auditing, Independent, Approvals

LEMMA BountiesAreNatural == TypeOK => \A t \in Tasks : tasks[t].bounty \in Nat
<1> SUFFICES ASSUME TypeOK, NEW t \in Tasks PROVE tasks[t].bounty \in Nat
  OBVIOUS
<1>1. tasks[t].bounty \in Bounties \cup {0}
  BY DEF TypeOK, TaskRow
<1>2. \A b \in Bounties \cup {0} : b \in Nat
  OBVIOUS
<1> QED
  BY <1>1, <1>2, Zenon

(* Writing one column of a row keeps the row's type.                        *)
LEMMA StatusTyped ==
  ASSUME TypeOK
  PROVE  /\ \A t \in Tasks, x \in TaskStatus :
              [tasks EXCEPT ![t].status = x] \in [Tasks -> TaskRow]
         /\ \A t \in Tasks, x \in TaskStatus, s \in Subs :
              [tasks EXCEPT ![t].status = x,
                ![t].accepted = s] \in [Tasks -> TaskRow]
         /\ \A s \in Subs, x \in SubStatus :
              [subs EXCEPT ![s].status = x] \in [Subs -> SubRow]
<1>1. \A x \in TaskStatus, s \in Subs, row \in TaskRow :
        [row EXCEPT !.status = x, !.accepted = s] \in TaskRow
  BY DEF TaskRow
<1>2. \A x \in SubStatus, row \in SubRow : [row EXCEPT !.status = x] \in SubRow
  BY DEF SubRow
<1>3. ASSUME NEW t \in Tasks, NEW x \in TaskStatus, NEW s \in Subs
      PROVE  [tasks EXCEPT ![t].status = x,
               ![t].accepted = s] \in [Tasks -> TaskRow]
  <2>1. [tasks EXCEPT ![t].status = x, ![t].accepted = s] =
          [tasks EXCEPT ![t] = [tasks[t] EXCEPT !.status = x, !.accepted = s]]
    BY DEF TypeOK
  <2> QED
    BY <1>1, <2>1 DEF TypeOK
<1>4. ASSUME NEW t \in Tasks, NEW x \in TaskStatus
      PROVE  [tasks EXCEPT ![t].status = x] \in [Tasks -> TaskRow]
  <2>1. tasks[t] \in TaskRow /\ tasks \in [Tasks -> TaskRow]
    BY DEF TypeOK
  <2>2. [tasks[t] EXCEPT !.status = x] \in TaskRow
    BY <2>1 DEF TaskRow
  <2> QED
    BY <2>1, <2>2
<1>5. ASSUME NEW s \in Subs, NEW x \in SubStatus
      PROVE  [subs EXCEPT ![s].status = x] \in [Subs -> SubRow]
  BY <1>2 DEF TypeOK
<1> QED
  BY <1>3, <1>4, <1>5

LEMMA StepTyped ==
  ASSUME TypeOK
  PROVE  \A r \in Requests, p \in Steps :
           [req EXCEPT ![r].pc = p] \in [Requests -> Request]
<1>1. \A p \in Steps, q \in Request : [q EXCEPT !.pc = p] \in Request
  BY DEF Request
<1> QED
  BY <1>1 DEF TypeOK

LEMMA TypeStep == Sound /\ [Next]_vars => TypeOK'
<1> SUFFICES ASSUME Sound, [Next]_vars PROVE TypeOK'
  OBVIOUS
<1> USE DEF Sound
<1>t. /\ credits \in [Agents -> Nat]
      /\ ledger \subseteq Ledger!Entry
      /\ tasks \in [Tasks -> TaskRow]
      /\ req \in [Requests -> Request]
  BY DEF TypeOK
<1>b. \A t \in Tasks : tasks[t].bounty \in Nat
  BY BountiesAreNatural
<1>0. Idle \in Request
  BY DEF Idle, Request, Steps
<1>1. ASSUME NEW t \in Tasks, NEW b \in Bounties, NEW q \in Quorums,
               CreateTask(t, b, q)
      PROVE  TypeOK'
  <2> DEFINE e == LockEntry(t, b)
  <2>1. e \in Draft /\ e.agent = Author[t] /\ e.amount = -b /\ MoveCredits(e)
    BY <1>1, DraftsOfHandlers DEF CreateTask, LockEntry
  <2> HIDE DEF e
  <2>2. credits[e.agent] + e.amount >= 0
    <3>1. credits[Author[t]] >= b
      BY <1>1 DEF CreateTask, CanAfford
    <3>2. credits[Author[t]] \in Nat /\ b \in Nat
      BY <1>t
    <3> QED
      BY <2>1, <3>1, <3>2
  <2>3. credits' \in [Agents -> Nat] /\ ledger' \subseteq Ledger!Entry
    BY <1>t, <2>1, <2>2, MoveCreditsTyped
  <2>4. tasks' \in [Tasks -> TaskRow]
    BY <1>1 DEF CreateTask, TaskRow, TaskStatus, TypeOK
  <2> QED
    BY <1>1, <2>3, <2>4 DEF CreateTask, TypeOK
<1>2. ASSUME NEW r \in Requests, NEW t \in Tasks, CancelCheck(r, t)
      PROVE  TypeOK'
  BY <1>2, <1>0 DEF CancelCheck, dbVars, Request, Steps, TypeOK
<1>3. ASSUME NEW r \in Requests, CancelCommit(r) PROVE TypeOK'
  <2> DEFINE t == req[r].task
            e == RefundEntry(t)
  <2>1. t \in Tasks
    BY <1>3 DEF CancelCommit, RequestsAgree, RequestAgrees
  <2>2. tasks' \in [Tasks -> TaskRow]
    <3>1. tasks' \in {tasks, [tasks EXCEPT ![t].status = "cancelled"]}
      BY <1>3 DEF CancelCommit
    <3>2. "cancelled" \in TaskStatus
      BY DEF TaskStatus
    <3>3. [tasks EXCEPT ![t].status = "cancelled"] \in [Tasks -> TaskRow]
      BY <2>1, <3>2, StatusTyped, Zenon
    <3> QED
      BY <1>t, <3>1, <3>3, Zenon
  <2>3. e \in Draft /\ e.agent \in Agents /\ e.amount \in Nat
    <3>1. tasks[t].bounty \in Nat
      BY <1>b, <2>1
    <3> QED
      BY <2>1, <3>1, DraftsOfHandlers DEF RefundEntry
  <2>4. MoveCredits(e) \/ UNCHANGED <<credits, ledger>>
    BY <1>3 DEF CancelCommit
  <2> HIDE DEF e
  <2>5. credits' \in [Agents -> Nat] /\ ledger' \subseteq Ledger!Entry
    BY <2>3, <2>4, <1>t, MoveCreditsTyped
  <2>6. req' \in [Requests -> Request]
    BY <1>3, <1>t, <1>0 DEF CancelCommit, Answer
  <2> QED
    BY <1>3, <2>2, <2>5, <2>6 DEF CancelCommit, TypeOK
<1>4. ASSUME NEW r \in Requests, NEW s \in Subs, NEW t \in Tasks,
               SubmitCheck(r, s, t)
      PROVE  TypeOK'
  BY <1>4, <1>0 DEF SubmitCheck, dbVars, Request, Steps, TypeOK
<1>5. ASSUME NEW r \in Requests, SubmitCommit(r) PROVE TypeOK'
  <2> DEFINE s == req[r].sub
            e == ComputeEntry(s)
  <2>1. s \in Subs /\ req[r].task \in Tasks
    BY <1>5 DEF SubmitCommit, RequestsAgree, RequestAgrees
  <2>2. subs' \in [Subs -> SubRow]
    BY <1>5, <2>1 DEF SubmitCommit, SubRow, SubStatus, TypeOK
  <2>3. e \in Draft /\ e.agent = Worker[s] /\ e.amount = -ComputeCost
    BY <2>1, DraftsOfHandlers DEF ComputeEntry
  <2>4. \/ MoveCredits(e) /\ CanAfford(Worker[s], ComputeCost)
        \/ UNCHANGED <<credits, ledger>>
    BY <1>5 DEF SubmitCommit
  <2> HIDE DEF e
  <2>5. CanAfford(Worker[s], ComputeCost) => credits[e.agent] + e.amount >= 0
    BY <2>1, <2>3, <1>t DEF CanAfford
  <2>6. credits' \in [Agents -> Nat] /\ ledger' \subseteq Ledger!Entry
    BY <2>3, <2>4, <2>5, <1>t, MoveCreditsTyped
  <2>7. req' \in [Requests -> Request]
    BY <1>5, <1>t, <1>0 DEF SubmitCommit, Answer
  <2> QED
    BY <1>5, <2>2, <2>6, <2>7 DEF SubmitCommit, TypeOK
<1>6. ASSUME NEW s \in Subs, RunStart(s) PROVE TypeOK'
  <2>1. subs' \in [Subs -> SubRow]
    BY <1>6, StatusTyped DEF RunStart, SubStatus
  <2> QED
    BY <1>6, <2>1 DEF RunStart, TypeOK
<1>7. ASSUME NEW s \in Subs, NEW v \in {"passed", "failed"}, RunVerdict(s, v)
      PROVE  TypeOK'
  <2>1. subs' \in [Subs -> SubRow]
    BY <1>7, StatusTyped DEF RunVerdict, SubStatus
  <2> QED
    BY <1>7, <2>1 DEF RunVerdict, TypeOK
<1>8. ASSUME NEW r \in Requests, NEW a \in Agents, NEW s \in Subs,
             NEW v \in Verdicts, AuditCheck(r, a, s, v)
      PROVE  TypeOK'
  <2>1. subs[s].task \in Tasks \cup {None}
    BY DEF SubRow, TypeOK
  <2> QED
    BY <1>8, <2>1 DEF AuditCheck, dbVars, Request, Steps, TypeOK
<1>9. ASSUME NEW r \in Requests, AuditEligible(r) PROVE TypeOK'
  <2>1. req' \in [Requests -> Request]
    <3>1. req' \in {[req EXCEPT ![r].pc = "vote"], [req EXCEPT ![r] = Idle]}
      BY <1>9 DEF AuditEligible, Goto, Answer
    <3>2. "vote" \in Steps
      BY DEF Steps
    <3> QED
      BY <1>t, <1>0, <3>1, <3>2, StepTyped
  <2> QED
    BY <1>9, <2>1 DEF AuditEligible, dbVars, TypeOK
<1>10. ASSUME NEW r \in Requests, AuditVote(r) PROVE TypeOK'
  <2>1. req[r].verdict \in Verdicts /\ req[r].sub \in Subs
          /\ req[r].agent \in Agents
    BY <1>10 DEF AuditVote, RequestsAgree, RequestAgrees, Auditing
  <2>2. audits' \in [Subs -> [Agents -> Verdicts \cup {None}]]
    BY <1>10, <2>1 DEF AuditVote, TypeOK
  <2>3. req' \in [Requests -> Request]
    BY <1>10, StepTyped DEF AuditVote, Goto, Steps
  <2> QED
    BY <1>10, <2>2, <2>3 DEF AuditVote, TypeOK
<1>11. ASSUME NEW r \in Requests, AuditCount(r) PROVE TypeOK'
  <2>1. req' \in [Requests -> Request]
    <3>1. req' \in {[req EXCEPT ![r].pc = "settle"], [req EXCEPT ![r] = Idle]}
      BY <1>11 DEF AuditCount, Goto, Answer
    <3>2. "settle" \in Steps
      BY DEF Steps
    <3> QED
      BY <1>t, <1>0, <3>1, <3>2, StepTyped
  <2> QED
    BY <1>11, <2>1 DEF AuditCount, dbVars, TypeOK
<1>12. ASSUME NEW r \in Requests, SettleCommit(r) PROVE TypeOK'
  <2> DEFINE t == req[r].task
            s == req[r].sub
            e == RewardEntry(t, s)
  <2>1. t \in Tasks /\ s \in Subs
    BY <1>12 DEF SettleCommit, RequestsAgree, RequestAgrees, Auditing
  <2>2. tasks' \in [Tasks -> TaskRow]
    <3>1. tasks' \in {tasks, [tasks EXCEPT ![t].status = "resolved",
            ![t].accepted = s]}
      BY <1>12 DEF SettleCommit
    <3>2. "resolved" \in TaskStatus
      BY DEF TaskStatus
    <3>3. [tasks EXCEPT ![t].status = "resolved",
            ![t].accepted = s] \in [Tasks -> TaskRow]
      BY <2>1, <3>2, StatusTyped, Zenon
    <3> QED
      BY <1>t, <3>1, <3>3, Zenon
  <2>3. outbox' \in [Tasks -> Nat]
    BY <1>12, <2>1 DEF SettleCommit, TypeOK
  <2>4. e \in Draft /\ e.agent \in Agents /\ e.amount \in Nat
    <3>1. tasks[t].bounty \in Nat
      BY <1>b, <2>1
    <3> QED
      BY <2>1, <3>1, DraftsOfHandlers DEF RewardEntry
  <2>5. MoveCredits(e) \/ UNCHANGED <<credits, ledger>>
    BY <1>12 DEF SettleCommit
  <2> HIDE DEF e
  <2>6. credits' \in [Agents -> Nat] /\ ledger' \subseteq Ledger!Entry
    BY <2>4, <2>5, <1>t, MoveCreditsTyped
  <2>7. req' \in [Requests -> Request]
    BY <1>12, <1>t, <1>0 DEF SettleCommit, Answer
  <2> QED
    BY <1>12, <2>2, <2>3, <2>6, <2>7 DEF SettleCommit, TypeOK
<1>13. ASSUME NEW r \in Requests, Abandon(r) PROVE TypeOK'
  BY <1>13, <1>0 DEF Abandon, dbVars, Answer, TypeOK
<1>14. CASE UNCHANGED vars
  BY <1>14 DEF vars, TypeOK
<1> QED
  BY <1>1, <1>2, <1>3, <1>4, <1>5, <1>6, <1>7, <1>8, <1>9, <1>10, <1>11,
     <1>12, <1>13, <1>14
  DEF Next, Proceed

(* A row that is written for the first time refers to rows that exist; a    *)
(* row that does not exist is not written.                                  *)
NewRowsAgree ==
  /\ \A t \in Tasks :
       \/ tasks'[t] = tasks[t]
       \/ tasks'[t].status # "absent" /\ tasks[t].status # "absent"
       \/ tasks'[t].status # "absent" /\ tasks'[t].required \in Quorums
  /\ \A s \in Subs : subs[s].status = "absent" =>
       \/ subs'[s] = subs[s] /\ audits'[s] = audits[s]
       \/ /\ subs'[s].status # "absent"
          /\ subs'[s].task \in Tasks
          /\ tasks'[subs'[s].task].status # "absent"

LEMMA NewRowsStep == Sound /\ [Next]_vars => NewRowsAgree
<1> SUFFICES ASSUME Sound, [Next]_vars PROVE NewRowsAgree
  OBVIOUS
<1> USE DEF NewRowsAgree
<1>t. /\ tasks \in [Tasks -> TaskRow]
      /\ subs \in [Subs -> SubRow]
      /\ audits \in [Subs -> [Agents -> Verdicts \cup {None}]]
  BY DEF Sound, TypeOK
<1>r. \A r \in Requests : RequestAgrees(req[r])
  BY DEF Sound, RequestsAgree
<1>1. ASSUME NEW t \in Tasks, NEW b \in Bounties, NEW q \in Quorums,
               CreateTask(t, b, q)
      PROVE  NewRowsAgree
  BY <1>1, <1>t DEF CreateTask
<1>2. ASSUME NEW r \in Requests, NEW t \in Tasks, CancelCheck(r, t)
      PROVE  NewRowsAgree
  BY <1>2 DEF CancelCheck, dbVars
<1>3. ASSUME NEW r \in Requests, CancelCommit(r) PROVE NewRowsAgree
  <2>1. \A t \in Tasks : \/ tasks'[t] = tasks[t]
                         \/ t = req[r].task /\ tasks'[t].status = "cancelled"
    BY <1>3, <1>t DEF CancelCommit, TaskRow
  <2>2. tasks[req[r].task].status # "absent"
    BY <1>3, <1>r DEF CancelCommit, RequestAgrees
  <2> QED
    BY <1>3, <2>1, <2>2 DEF CancelCommit
<1>4. ASSUME NEW r \in Requests, NEW s \in Subs, NEW t \in Tasks,
               SubmitCheck(r, s, t)
      PROVE  NewRowsAgree
  BY <1>4 DEF SubmitCheck, dbVars
<1>5. ASSUME NEW r \in Requests, SubmitCommit(r) PROVE NewRowsAgree
  <2>1. /\ req[r].sub \in Subs
        /\ req[r].task \in Tasks
        /\ tasks[req[r].task].status # "absent"
    BY <1>5, <1>r DEF SubmitCommit, RequestAgrees
  <2>2. \A s \in Subs :
          \/ subs'[s] = subs[s]
          \/ subs'[s] = [status |-> "queued", task |-> req[r].task]
    BY <1>5, <1>t, <2>1 DEF SubmitCommit
  <2> QED
    BY <1>5, <2>1, <2>2 DEF SubmitCommit
<1>6. ASSUME NEW s \in Subs, RunStart(s) PROVE NewRowsAgree
  BY <1>6, <1>t DEF RunStart
<1>7. ASSUME NEW s \in Subs, NEW v \in {"passed", "failed"}, RunVerdict(s, v)
      PROVE  NewRowsAgree
  BY <1>7, <1>t DEF RunVerdict
<1>8. ASSUME NEW r \in Requests, NEW a \in Agents, NEW s \in Subs,
             NEW v \in Verdicts, AuditCheck(r, a, s, v)
      PROVE  NewRowsAgree
  BY <1>8 DEF AuditCheck, dbVars
<1>9. ASSUME NEW r \in Requests, AuditEligible(r) PROVE NewRowsAgree
  BY <1>9 DEF AuditEligible, dbVars
<1>10. ASSUME NEW r \in Requests, AuditVote(r) PROVE NewRowsAgree
  <2>1. req[r].sub \in Subs /\ subs[req[r].sub].status # "absent"
    BY <1>10, <1>r DEF AuditVote, RequestAgrees, Auditing
  <2>2. \A s \in Subs : s # req[r].sub => audits'[s] = audits[s]
    BY <1>10, <1>t DEF AuditVote
  <2> QED
    BY <1>10, <2>1, <2>2 DEF AuditVote
<1>11. ASSUME NEW r \in Requests, AuditCount(r) PROVE NewRowsAgree
  BY <1>11 DEF AuditCount, dbVars
<1>12. ASSUME NEW r \in Requests, SettleCommit(r) PROVE NewRowsAgree
  <2>1. CASE tasks' = [tasks EXCEPT ![req[r].task].status = "resolved",
                                    ![req[r].task].accepted = req[r].sub]
    <3>1. ASSUME NEW t \in Tasks
          PROVE  \/ tasks'[t] = tasks[t]
                 \/ t = req[r].task /\ tasks'[t].status = "resolved"
      <4>1. tasks[t] \in TaskRow
        BY <1>t
      <4>2. CASE t = req[r].task
        BY <1>t, <2>1, <4>1, <4>2 DEF TaskRow
      <4>3. CASE t # req[r].task
        BY <1>t, <2>1, <4>3
      <4> QED
        BY <4>2, <4>3
    <3>2. tasks[req[r].task].status # "absent"
      BY <1>12, <1>r DEF SettleCommit, RequestAgrees
    <3> QED
      BY <1>12, <3>1, <3>2 DEF SettleCommit
  <2>2. CASE tasks' = tasks
    BY <1>12, <2>2 DEF SettleCommit
  <2> QED
    BY <1>12, <2>1, <2>2 DEF SettleCommit
<1>13. ASSUME NEW r \in Requests, Abandon(r) PROVE NewRowsAgree
  BY <1>13 DEF Abandon, dbVars
<1>14. CASE UNCHANGED vars
  BY <1>14 DEF vars
<1> QED
  BY <1>1, <1>2, <1>3, <1>4, <1>5, <1>6, <1>7, <1>8, <1>9, <1>10, <1>11,
     <1>12, <1>13, <1>14
  DEF Next, Proceed

LEMMA RowsStep == Sound /\ [Next]_vars => RowsAgree'
<1> SUFFICES ASSUME Sound, [Next]_vars PROVE RowsAgree'
  OBVIOUS
<1>1. TypeOK /\ RowsAgree
  BY DEF Sound
<1>2. RowsKept /\ NewRowsAgree
  BY <1>1, RowsAreKept, NewRowsStep
<1>3. ASSUME NEW t \in Tasks
      PROVE  IF tasks'[t].status = "absent"
             THEN tasks'[t] = NoTask ELSE tasks'[t].required \in Quorums
  BY <1>1, <1>2 DEF RowsAgree, RowsKept, NewRowsAgree
<1>4. ASSUME NEW s \in Subs
      PROVE  IF subs'[s].status = "absent"
             THEN subs'[s] = NoSub /\ audits'[s] = [a \in Agents |-> None]
             ELSE subs'[s].task \in Tasks
               /\ tasks'[subs'[s].task].status # "absent"
  <2>1. CASE subs[s].status # "absent"
    BY <1>1, <1>2, <2>1 DEF RowsAgree, RowsKept
  <2>2. CASE subs[s].status = "absent"
    <3>1. subs[s] = NoSub /\ audits[s] = [a \in Agents |-> None]
      BY <1>1, <2>2 DEF RowsAgree
    <3>2. \/ subs'[s] = subs[s] /\ audits'[s] = audits[s]
          \/ /\ subs'[s].status # "absent"
             /\ subs'[s].task \in Tasks
             /\ tasks'[subs'[s].task].status # "absent"
      BY <1>2, <2>2 DEF NewRowsAgree
    <3> QED
      BY <2>2, <3>1, <3>2
  <2> QED
    BY <2>1, <2>2
<1> QED
  BY <1>3, <1>4 DEF RowsAgree

(* A request that takes a step has just checked what it relies on.          *)
NewRequestsAgree ==
  \A r \in Requests : req'[r] = req[r] \/ RequestAgrees(req[r])'

LEMMA NewRequestsStep == Sound /\ [Next]_vars => NewRequestsAgree
<1> SUFFICES ASSUME Sound, [Next]_vars PROVE NewRequestsAgree
  OBVIOUS
<1> USE DEF NewRequestsAgree
<1>t. /\ req \in [Requests -> Request]
      /\ subs \in [Subs -> SubRow]
  BY DEF Sound, TypeOK
<1>r. RowsAgree /\ \A r \in Requests : RequestAgrees(req[r])
  BY DEF Sound, RequestsAgree
<1>i. \A r \in Requests : req'[r] = Idle => RequestAgrees(req[r])'
  BY DEF RequestAgrees, Auditing, Idle
<1>1. ASSUME NEW t \in Tasks, NEW b \in Bounties, NEW q \in Quorums,
               CreateTask(t, b, q)
      PROVE  NewRequestsAgree
  BY <1>1 DEF CreateTask
<1>2. ASSUME NEW r \in Requests, NEW t \in Tasks, CancelCheck(r, t)
      PROVE  NewRequestsAgree
  <2>1. req'[r].pc = "cancel" /\ req'[r].task = t
    BY <1>2, <1>t DEF CancelCheck, Idle
  <2>2. tasks' = tasks /\ tasks[t].status # "absent"
    BY <1>2 DEF CancelCheck, dbVars, AcceptsWork
  <2>3. RequestAgrees(req[r])'
    BY <2>1, <2>2 DEF RequestAgrees, Auditing
  <2>4. \A u \in Requests : u # r => req'[u] = req[u]
    BY <1>2, <1>t DEF CancelCheck
  <2> QED
    BY <2>3, <2>4
<1>3. ASSUME NEW r \in Requests, CancelCommit(r) PROVE NewRequestsAgree
  <2>1. req' = [req EXCEPT ![r] = Idle]
    BY <1>3 DEF CancelCommit, Answer
  <2> QED
    BY <1>i, <1>t, <2>1
<1>4. ASSUME NEW r \in Requests, NEW s \in Subs, NEW t \in Tasks,
               SubmitCheck(r, s, t)
      PROVE  NewRequestsAgree
  <2>1. req'[r].pc = "charge" /\ req'[r].task = t /\ req'[r].sub = s
    BY <1>4, <1>t DEF SubmitCheck, Idle
  <2>2. tasks' = tasks /\ tasks[t].status # "absent"
    BY <1>4 DEF SubmitCheck, dbVars, AcceptsWork
  <2>3. RequestAgrees(req[r])'
    BY <2>1, <2>2 DEF RequestAgrees, Auditing
  <2>4. \A u \in Requests : u # r => req'[u] = req[u]
    BY <1>4, <1>t DEF SubmitCheck
  <2> QED
    BY <2>3, <2>4
<1>5. ASSUME NEW r \in Requests, SubmitCommit(r) PROVE NewRequestsAgree
  <2>1. req' = [req EXCEPT ![r] = Idle]
    BY <1>5 DEF SubmitCommit, Answer
  <2> QED
    BY <1>i, <1>t, <2>1
<1>6. ASSUME NEW s \in Subs, RunStart(s) PROVE NewRequestsAgree
  BY <1>6 DEF RunStart
<1>7. ASSUME NEW s \in Subs, NEW v \in {"passed", "failed"}, RunVerdict(s, v)
      PROVE  NewRequestsAgree
  BY <1>7 DEF RunVerdict
<1>8. ASSUME NEW r \in Requests, NEW a \in Agents, NEW s \in Subs,
             NEW v \in Verdicts, AuditCheck(r, a, s, v)
      PROVE  NewRequestsAgree
  <2>1. req'[r] = [pc |-> "eligible", agent |-> a, sub |-> s,
                  task |-> subs[s].task, verdict |-> v]
    BY <1>8, <1>t DEF AuditCheck
  <2>2. /\ UNCHANGED <<tasks, subs>>
        /\ subs[s].status # "absent"
        /\ subs[s].task \in Tasks
        /\ tasks[subs[s].task].status # "absent"
    BY <1>8, <1>r DEF AuditCheck, dbVars, RowsAgree
  <2>3. RequestAgrees(req[r])'
    BY <2>1, <2>2 DEF RequestAgrees, Auditing
  <2>4. \A u \in Requests : u # r => req'[u] = req[u]
    BY <1>8, <1>t DEF AuditCheck
  <2> QED
    BY <2>3, <2>4
<1>9. ASSUME NEW r \in Requests, AuditEligible(r) PROVE NewRequestsAgree
  <2>1. CASE req' = [req EXCEPT ![r] = Idle]
    BY <1>i, <1>t, <2>1
  <2>2. CASE req' = [req EXCEPT ![r].pc = "vote"]
          /\ req[r].agent \in Qualified
               /\ Independent(req[r].agent, req[r].sub)
    <3>1. \A u \in Requests : u # r => req'[u] = req[u]
      BY <1>t, <2>2
    <3>2. /\ req'[r].pc = "vote"
          /\ req'[r].agent = req[r].agent
          /\ req'[r].task = req[r].task
          /\ req'[r].sub = req[r].sub
          /\ req'[r].verdict = req[r].verdict
      BY <1>t, <2>2 DEF Request
    <3>3. RequestAgrees(req[r]) /\ req[r].pc = "eligible"
      BY <1>9, <1>r DEF AuditEligible
    <3>4. UNCHANGED <<tasks, subs, audits>>
      BY <1>9 DEF AuditEligible, dbVars
    <3>5. RequestAgrees(req[r])'
      BY <2>2, <3>2, <3>3, <3>4
      DEF RequestAgrees, Auditing, Independent, Approvals, Consensus
    <3> QED
      BY <3>1, <3>5
  <2> QED
    BY <1>9, <2>1, <2>2 DEF AuditEligible, Goto, Answer
<1>10. ASSUME NEW r \in Requests, AuditVote(r) PROVE NewRequestsAgree
  <2>1. /\ req'[r].pc = "count"
        /\ req'[r].agent = req[r].agent
        /\ req'[r].task = req[r].task
        /\ req'[r].sub = req[r].sub
        /\ req'[r].verdict = req[r].verdict
    BY <1>10, <1>t DEF AuditVote, Goto, Request
  <2>2. RequestAgrees(req[r]) /\ req[r].pc = "vote"
          /\ UNCHANGED <<tasks, subs>>
    BY <1>10, <1>r DEF AuditVote
  <2>3. RequestAgrees(req[r])'
    BY <2>1, <2>2 DEF RequestAgrees, Auditing
  <2>4. \A u \in Requests : u # r => req'[u] = req[u]
    BY <1>10, <1>t DEF AuditVote, Goto
  <2> QED
    BY <2>3, <2>4
<1>11. ASSUME NEW r \in Requests, AuditCount(r) PROVE NewRequestsAgree
  <2>1. CASE req' = [req EXCEPT ![r] = Idle]
    BY <1>i, <1>t, <2>1
  <2>2. CASE req' = [req EXCEPT ![r].pc = "settle"]
          /\ Consensus(req[r].sub, tasks[req[r].task].required)
    <3>1. \A u \in Requests : u # r => req'[u] = req[u]
      BY <1>t, <2>2
    <3>2. /\ req'[r].pc = "settle"
          /\ req'[r].agent = req[r].agent
          /\ req'[r].task = req[r].task
          /\ req'[r].sub = req[r].sub
          /\ req'[r].verdict = req[r].verdict
      BY <1>t, <2>2 DEF Request
    <3>3. RequestAgrees(req[r]) /\ req[r].pc = "count"
      BY <1>11, <1>r DEF AuditCount
    <3>4. UNCHANGED <<tasks, subs, audits>>
      BY <1>11 DEF AuditCount, dbVars
    <3>5. RequestAgrees(req[r])'
      BY <2>2, <3>2, <3>3, <3>4
      DEF RequestAgrees, Auditing, Independent, Approvals, Consensus
    <3> QED
      BY <3>1, <3>5
  <2> QED
    BY <1>11, <2>1, <2>2 DEF AuditCount, Goto, Answer
<1>12. ASSUME NEW r \in Requests, SettleCommit(r) PROVE NewRequestsAgree
  <2>1. req' = [req EXCEPT ![r] = Idle]
    BY <1>12 DEF SettleCommit, Answer
  <2> QED
    BY <1>i, <1>t, <2>1
<1>13. ASSUME NEW r \in Requests, Abandon(r) PROVE NewRequestsAgree
  <2>1. req' = [req EXCEPT ![r] = Idle]
    BY <1>13 DEF Abandon, Answer
  <2> QED
    BY <1>i, <1>t, <2>1
<1>14. CASE UNCHANGED vars
  BY <1>14 DEF vars
<1> QED
  BY <1>1, <1>2, <1>3, <1>4, <1>5, <1>6, <1>7, <1>8, <1>9, <1>10, <1>11,
     <1>12, <1>13, <1>14
  DEF Next, Proceed

LEMMA RequestsStep == Sound /\ [Next]_vars => RequestsAgree'
<1> SUFFICES ASSUME Sound, [Next]_vars, NEW r \in Requests
             PROVE  RequestAgrees(req[r])'
  BY DEF RequestsAgree
<1>1. CASE req'[r] = req[r]
  BY <1>1, RequestStillAgrees DEF Sound, RequestsAgree
<1>2. CASE req'[r] # req[r]
  BY <1>2, NewRequestsStep DEF NewRequestsAgree
<1> QED
  BY <1>1, <1>2

LEMMA SoundInit == Init => Sound
<1> SUFFICES ASSUME Init PROVE Sound
  OBVIOUS
<1>1. TypeOK
  BY DEF Init, TypeOK, TaskRow, SubRow, Request, NoTask, NoSub, Idle,
         TaskStatus, SubStatus, Steps
<1>2. RowsAgree
  BY DEF Init, RowsAgree, NoTask, NoSub
<1>3. RequestsAgree
  BY DEF Init, RequestsAgree, RequestAgrees, Auditing, Idle
<1> QED
  BY <1>1, <1>2, <1>3 DEF Sound

(* Every reachable state is well typed (no balance is ever negative), rows  *)
(* refer to rows that exist, and no request acts on a row that is gone, a   *)
(* vote that is not independent or a quorum that is not there.              *)
THEOREM SoundAlways == Spec => []Sound
<1>1. Sound /\ [Next]_vars => Sound'
  BY TypeStep, RowsStep, RequestsStep DEF Sound
<1> QED
  BY SoundInit, <1>1, PTL DEF Spec

(* No row, request or balance leaves its type; in particular concurrent     *)
(* debits never overdraw an agent (createTask, submit).                     *)
THEOREM TypeCorrect == Spec => []TypeOK
<1>1. Sound => TypeOK
  BY DEF Sound
<1> QED
  BY SoundAlways, <1>1, PTL

-----------------------------------------------------------------------------
(* The five ways a step can touch the escrow.                               *)

Still == UNCHANGED <<credits, ledger, tasks, outbox>>
Charge(s) ==
  /\ CanAfford(Worker[s], ComputeCost)
  /\ Insertable(ComputeEntry(s))
  /\ MoveCredits(ComputeEntry(s))
  /\ UNCHANGED <<tasks, outbox>>
Refund(t) ==
  /\ Cancellable(t)
  /\ tasks[t].status # "absent"
  /\ Insertable(RefundEntry(t))
  /\ tasks' = [tasks EXCEPT ![t].status = "cancelled"]
  /\ MoveCredits(RefundEntry(t))
  /\ UNCHANGED outbox
Settle(t, s) ==
  /\ Settleable(t)
  /\ tasks[t].status # "absent"
  /\ subs[s].status # "absent"
  /\ subs[s].task = t
  /\ Cardinality(Approvals(s)) >= tasks[t].required
  /\ Insertable(RewardEntry(t, s))
  /\ tasks' = [tasks EXCEPT ![t].status = "resolved", ![t].accepted = s]
  /\ MoveCredits(RewardEntry(t, s))
  /\ outbox' = [outbox EXCEPT ![t] = @ + 1]
  /\ UNCHANGED <<subs, audits>>

EscrowStep ==
  \/ Still
  \/ \E t \in Tasks, b \in Bounties, q \in Quorums : CreateTask(t, b, q)
  \/ \E s \in Subs : Charge(s)
  \/ \E t \in Tasks : Refund(t)
  \/ \E t \in Tasks, s \in Subs : Settle(t, s)

LEMMA EscrowSteps == Sound /\ [Next]_vars => EscrowStep
<1> SUFFICES ASSUME Sound, [Next]_vars PROVE EscrowStep
  OBVIOUS
<1> USE DEF EscrowStep
<1>r. \A r \in Requests : RequestAgrees(req[r])
  BY DEF Sound, RequestsAgree
<1>1. ASSUME NEW t \in Tasks, NEW b \in Bounties, NEW q \in Quorums,
               CreateTask(t, b, q)
      PROVE  EscrowStep
  BY <1>1
<1>2. ASSUME NEW r \in Requests, NEW t \in Tasks, CancelCheck(r, t)
      PROVE  EscrowStep
  BY <1>2 DEF CancelCheck, dbVars, Still
<1>3. ASSUME NEW r \in Requests, CancelCommit(r) PROVE EscrowStep
  <2>1. req[r].task \in Tasks /\ tasks[req[r].task].status # "absent"
    BY <1>3, <1>r DEF CancelCommit, RequestAgrees
  <2>2. Still \/ Refund(req[r].task)
    BY <1>3, <2>1 DEF CancelCommit, Still, Refund
  <2> QED
    BY <2>1, <2>2
<1>4. ASSUME NEW r \in Requests, NEW s \in Subs, NEW t \in Tasks,
               SubmitCheck(r, s, t)
      PROVE  EscrowStep
  BY <1>4 DEF SubmitCheck, dbVars, Still
<1>5. ASSUME NEW r \in Requests, SubmitCommit(r) PROVE EscrowStep
  <2>1. req[r].sub \in Subs
    BY <1>5, <1>r DEF SubmitCommit, RequestAgrees
  <2>2. Still \/ Charge(req[r].sub)
    BY <1>5 DEF SubmitCommit, Still, Charge
  <2> QED
    BY <2>1, <2>2
<1>6. ASSUME NEW s \in Subs, RunStart(s) PROVE EscrowStep
  BY <1>6 DEF RunStart, dbVars, Still
<1>7. ASSUME NEW s \in Subs, NEW v \in {"passed", "failed"}, RunVerdict(s, v)
      PROVE  EscrowStep
  BY <1>7 DEF RunVerdict, dbVars, Still
<1>8. ASSUME NEW r \in Requests, NEW a \in Agents, NEW s \in Subs,
             NEW v \in Verdicts, AuditCheck(r, a, s, v)
      PROVE  EscrowStep
  BY <1>8 DEF AuditCheck, dbVars, Still
<1>9. ASSUME NEW r \in Requests, AuditEligible(r) PROVE EscrowStep
  BY <1>9 DEF AuditEligible, dbVars, Still
<1>10. ASSUME NEW r \in Requests, AuditVote(r) PROVE EscrowStep
  BY <1>10 DEF AuditVote, dbVars, Still
<1>11. ASSUME NEW r \in Requests, AuditCount(r) PROVE EscrowStep
  BY <1>11 DEF AuditCount, dbVars, Still
<1>12. ASSUME NEW r \in Requests, SettleCommit(r) PROVE EscrowStep
  <2> DEFINE t == req[r].task
            s == req[r].sub
  <2>1. /\ t \in Tasks
        /\ s \in Subs
        /\ tasks[t].status # "absent"
        /\ subs[s].status # "absent"
        /\ subs[s].task = t
        /\ Cardinality(Approvals(s)) >= tasks[t].required
    BY <1>12, <1>r DEF SettleCommit, RequestAgrees, Auditing
  <2>2. Still \/ Settle(t, s)
    BY <1>12, <2>1 DEF SettleCommit, Still, Settle
  <2> QED
    BY <2>1, <2>2
<1>13. ASSUME NEW r \in Requests, Abandon(r) PROVE EscrowStep
  BY <1>13 DEF Abandon, dbVars, Still
<1>14. CASE UNCHANGED vars
  BY <1>14 DEF vars, Still
<1> QED
  BY <1>1, <1>2, <1>3, <1>4, <1>5, <1>6, <1>7, <1>8, <1>9, <1>10, <1>11,
     <1>12, <1>13, <1>14
  DEF Next, Proceed

-----------------------------------------------------------------------------
(* The ledger.                                                              *)

LEMMA PostedOrNothing ==
  ASSUME credits \in [Agents -> Nat], NEW e \in Draft, Insertable(e),
         credits[e.agent] + e.amount >= 0, MoveCredits(e)
  PROVE  Ledger!Next \/ UNCHANGED Ledger!ledgerVars
<1>1. CASE e.amount = 0
  BY <1>1 DEF MoveCredits, Ledger!ledgerVars
<1>2. CASE e.amount # 0
  <2>1. e \in Ledger!Entry
    BY <1>2 DEF Draft, Ledger!Entry
  <2>2. Ledger!Post(e)
    BY <1>2 DEF Insertable, MoveCredits, Ledger!Post
  <2> QED
    BY <2>1, <2>2 DEF Ledger!Next
<1> QED
  BY <1>1, <1>2

(* Whatever the interleaving, the handlers only ever post new entries that  *)
(* the agent can pay for: BountyEscrow implements PointsLedger (createTask, *)
(* submit, cancelTask, settleBounty).                                       *)
THEOREM EscrowImplementsLedger == Spec => ImplementsLedger
<1>1. Init => Ledger!Init
  BY DEF Init, Ledger!Init
<1>2. Sound /\ [Next]_vars => [Ledger!Next]_(Ledger!ledgerVars)
  <2> SUFFICES ASSUME Sound, [Next]_vars
               PROVE  Ledger!Next \/ UNCHANGED Ledger!ledgerVars
    OBVIOUS
  <2>t. TypeOK /\ credits \in [Agents -> Nat]
    BY DEF Sound, TypeOK
  <2>b. \A t \in Tasks : tasks[t].bounty \in Nat
    BY <2>t, BountiesAreNatural
  <2>1. CASE Still
    BY <2>1 DEF Still, Ledger!ledgerVars
  <2>2. ASSUME NEW t \in Tasks, NEW b \in Bounties, NEW q \in Quorums,
               CreateTask(t, b, q)
        PROVE  Ledger!Next \/ UNCHANGED Ledger!ledgerVars
    <3> DEFINE e == LockEntry(t, b)
    <3>1. e \in Draft /\ e.agent = Author[t] /\ e.amount = -b
      BY <2>t, DraftsOfHandlers DEF LockEntry
    <3>2. Insertable(e) /\ MoveCredits(e) /\ credits[Author[t]] >= b
      BY <2>2 DEF CreateTask, CanAfford
    <3>3. b \in Nat /\ credits[Author[t]] \in Nat
      BY <2>t
    <3> HIDE DEF e
    <3> QED
      BY <2>t, <3>1, <3>2, <3>3, PostedOrNothing
  <2>3. ASSUME NEW s \in Subs, Charge(s)
        PROVE  Ledger!Next \/ UNCHANGED Ledger!ledgerVars
    <3> DEFINE e == ComputeEntry(s)
    <3>1. e \in Draft /\ e.agent = Worker[s] /\ e.amount = -ComputeCost
      BY <2>t, DraftsOfHandlers DEF ComputeEntry
    <3>2. Insertable(e) /\ MoveCredits(e) /\ credits[Worker[s]] >= ComputeCost
      BY <2>3 DEF Charge, CanAfford
    <3>3. credits[Worker[s]] \in Nat
      BY <2>t
    <3> HIDE DEF e
    <3> QED
      BY <2>t, <3>1, <3>2, <3>3, PostedOrNothing
  <2>4. ASSUME NEW t \in Tasks, Refund(t)
        PROVE  Ledger!Next \/ UNCHANGED Ledger!ledgerVars
    <3> DEFINE e == RefundEntry(t)
    <3>1. e \in Draft /\ e.agent = Author[t] /\ e.amount = tasks[t].bounty
      BY <2>t, DraftsOfHandlers DEF RefundEntry
    <3>2. Insertable(e) /\ MoveCredits(e)
      BY <2>4 DEF Refund
    <3>3. credits[Author[t]] \in Nat /\ tasks[t].bounty \in Nat
      BY <2>t, <2>b
    <3> HIDE DEF e
    <3> QED
      BY <2>t, <3>1, <3>2, <3>3, PostedOrNothing
  <2>5. ASSUME NEW t \in Tasks, NEW s \in Subs, Settle(t, s)
        PROVE  Ledger!Next \/ UNCHANGED Ledger!ledgerVars
    <3> DEFINE e == RewardEntry(t, s)
    <3>1. e \in Draft /\ e.agent = Worker[s] /\ e.amount = tasks[t].bounty
      BY <2>t, DraftsOfHandlers DEF RewardEntry
    <3>2. Insertable(e) /\ MoveCredits(e)
      BY <2>5 DEF Settle
    <3>3. credits[Worker[s]] \in Nat /\ tasks[t].bounty \in Nat
      BY <2>t, <2>b
    <3> HIDE DEF e
    <3> QED
      BY <2>t, <3>1, <3>2, <3>3, PostedOrNothing
  <2> QED
    BY <2>1, <2>2, <2>3, <2>4, <2>5, EscrowSteps DEF EscrowStep
<1> QED
  BY SoundAlways, <1>1, <1>2, PTL DEF Spec, ImplementsLedger, Ledger!Spec

-----------------------------------------------------------------------------
(* Escrow and ledger agree.                                                 *)

(* Posting an entry adds it to the entries of its kind and subject only.    *)
LEMMA EntriesAfterMove ==
  ASSUME NEW e, MoveCredits(e), NEW kind, NEW of
  PROVE  Entries(kind, of)' =
           IF e.amount # 0 /\ e.kind = kind /\ e.of = of
           THEN Entries(kind, of) \cup {e} ELSE Entries(kind, of)
BY DEF MoveCredits, Entries

Matches(t) == LockedOnce(t) /\ RewardedOnce(t) /\ RefundedOnce(t)

(* A step that leaves a task and its entries alone keeps them in agreement. *)
LEMMA MatchesKept ==
  ASSUME NEW t \in Tasks, Matches(t), tasks'[t] = tasks[t],
         \A kind \in {"bounty_lock", "reward", "refund"} :
           Entries(kind, t)' = Entries(kind, t)
  PROVE  Matches(t)'
BY DEF Matches, LockedOnce, RewardedOnce, RefundedOnce, LockEntry, RefundEntry

LEMMA MatchesInit == Init => EscrowMatchesTasks
BY
   DEF Init, EscrowMatchesTasks, LockedOnce, RewardedOnce, RefundedOnce,
          Entries,
       NoTask

LEMMA MatchesStep ==
  Sound /\ EscrowMatchesTasks /\ [Next]_vars => EscrowMatchesTasks'
<1> SUFFICES ASSUME Sound, EscrowMatchesTasks, [Next]_vars, NEW u \in Tasks
             PROVE  Matches(u)'
  BY DEF EscrowMatchesTasks, Matches
<1>m. Matches(u)
  BY DEF EscrowMatchesTasks, Matches
<1>t. /\ TypeOK
      /\ RowsAgree
      /\ tasks \in [Tasks -> TaskRow]
      /\ tasks[u].bounty \in Nat
  BY BountiesAreNatural DEF Sound, TypeOK
<1>1. CASE Still
  BY <1>1, <1>m, MatchesKept DEF Still, Entries
<1>2. ASSUME NEW t \in Tasks, NEW b \in Bounties, NEW q \in Quorums,
             CreateTask(t, b, q)
      PROVE  Matches(u)'
  <2> DEFINE e == LockEntry(t, b)
  <2>1. e.kind = "bounty_lock" /\ e.of = t /\ e.amount = -b /\ b \in Nat
    BY DEF LockEntry
  <2>2. MoveCredits(e) /\ tasks[t] = NoTask
    BY <1>t, <1>2 DEF CreateTask, RowsAgree
  <2>3. \A kind \in {"bounty_lock", "reward", "refund"} :
          Entries(kind, u)' = IF b # 0 /\ kind = "bounty_lock" /\ u = t
                              THEN Entries(kind,
                                u) \cup {e} ELSE Entries(kind, u)
    <3> HIDE DEF e
    <3> QED
      BY <2>1, <2>2, EntriesAfterMove
  <2>4. CASE u = t
    <3>1. tasks'[u] = [status |-> "open", bounty |-> b, required |-> q,
                       accepted |-> None]
      BY <1>2, <1>t, <2>4 DEF CreateTask
    <3>2. \A kind \in {"bounty_lock", "reward", "refund"} : Entries(kind,
            u) = {}
      BY <1>m, <2>2, <2>4
      DEF Matches, LockedOnce, RewardedOnce, RefundedOnce, NoTask
    <3>3. Entries("bounty_lock", u)' = IF b > 0 THEN {LockEntry(u, b)} ELSE {}
      BY <2>1, <2>3, <2>4, <3>2
    <3>4. Entries("reward", u)' = {} /\ Entries("refund", u)' = {}
      BY <2>3, <3>2
    <3> QED
      BY <3>1, <3>3, <3>4
      DEF Matches, LockedOnce, RewardedOnce, RefundedOnce, LockEntry
  <2>5. CASE u # t
    <3>1. tasks'[u] = tasks[u]
      BY <1>2, <1>t, <2>5 DEF CreateTask
    <3> QED
      BY <1>m, <2>3, <2>5, <3>1, MatchesKept
  <2> QED
    BY <2>4, <2>5
<1>3. ASSUME NEW s \in Subs, Charge(s)
      PROVE  Matches(u)'
  <2> DEFINE e == ComputeEntry(s)
  <2>1. e.kind = "compute_debit" /\ MoveCredits(e) /\ tasks'[u] = tasks[u]
    BY <1>3 DEF ComputeEntry, Charge
  <2> HIDE DEF e
  <2>2. \A kind \in {"bounty_lock", "reward", "refund"} :
          Entries(kind, u)' = Entries(kind, u)
    BY <2>1, EntriesAfterMove
  <2> QED
    BY <1>m, <2>1, <2>2, MatchesKept
<1>4. ASSUME NEW t \in Tasks, Refund(t)
      PROVE  Matches(u)'
  <2> DEFINE e == RefundEntry(t)
  <2>1. /\ e.kind = "refund"
        /\ e.of = t
        /\ e.amount = tasks[t].bounty
        /\ MoveCredits(e)
    BY <1>4 DEF RefundEntry, Refund
  <2>2. \A kind \in {"bounty_lock", "reward", "refund"} :
          Entries(kind, u)' = IF tasks[t].bounty # 0 /\ kind = "refund"
            /\ u = t
                              THEN Entries(kind,
                                u) \cup {e} ELSE Entries(kind, u)
    <3> HIDE DEF e
    <3> QED
      BY <2>1, EntriesAfterMove
  <2>3. CASE u = t
    <3>1. tasks[u] \in TaskRow
      BY <1>t
    <3>2. /\ tasks'[u].status = "cancelled"
          /\ tasks'[u].bounty = tasks[u].bounty
          /\ tasks'[u].accepted = tasks[u].accepted
      BY <1>4, <1>t, <2>3, <3>1 DEF Refund, TaskRow
    <3>3. Entries("refund", u) = {}
      BY <1>4, <1>m, <2>3 DEF Refund, Cancellable, Matches, RefundedOnce
    <3>4. Entries("refund", u)' =
            IF tasks[u].bounty > 0 THEN {RefundEntry(u)} ELSE {}
      BY <1>t, <2>2, <2>3, <3>3
    <3>5. /\ Entries("bounty_lock", u)' = Entries("bounty_lock", u)
          /\ Entries("reward", u)' = Entries("reward", u)
      BY <2>2
    <3> QED
      BY <1>m, <3>2, <3>4, <3>5
      DEF Matches, LockedOnce, RewardedOnce, RefundedOnce, LockEntry,
             RefundEntry
  <2>4. CASE u # t
    <3>1. tasks'[u] = tasks[u]
      BY <1>4, <1>t, <2>4 DEF Refund
    <3> QED
      BY <1>m, <2>2, <2>4, <3>1, MatchesKept
  <2> QED
    BY <2>3, <2>4
<1>5. ASSUME NEW t \in Tasks, NEW s \in Subs, Settle(t, s)
      PROVE  Matches(u)'
  <2> DEFINE e == RewardEntry(t, s)
  <2>1. /\ e.kind = "reward"
        /\ e.of = t
        /\ e.amount = tasks[t].bounty
        /\ MoveCredits(e)
    BY <1>5 DEF RewardEntry, Settle
  <2>2. \A kind \in {"bounty_lock", "reward", "refund"} :
          Entries(kind, u)' = IF tasks[t].bounty # 0 /\ kind = "reward"
            /\ u = t
                              THEN Entries(kind,
                                u) \cup {e} ELSE Entries(kind, u)
    <3> HIDE DEF e
    <3> QED
      BY <2>1, EntriesAfterMove
  <2>3. CASE u = t
    <3>1. tasks[u] \in TaskRow /\ s # None
      BY <1>t
    <3>2. /\ tasks'[u].status = "resolved"
          /\ tasks'[u].bounty = tasks[u].bounty
          /\ tasks'[u].accepted = s
      BY <1>5, <1>t, <2>3, <3>1 DEF Settle, TaskRow
    <3>3. /\ Entries("reward", u) = {}
          /\ Entries("refund", u) = {}
      BY <1>5, <1>m, <2>3
      DEF Settle, Settleable, Matches, RewardedOnce, RefundedOnce
    <3>4. Entries("reward", u)' =
            IF tasks[u].bounty > 0 THEN {RewardEntry(u, s)} ELSE {}
      BY <1>t, <2>2, <2>3, <3>3
    <3>5. /\ Entries("bounty_lock", u)' = Entries("bounty_lock", u)
          /\ Entries("refund", u)' = Entries("refund", u)
      BY <2>2
    <3> QED
      BY <1>m, <3>1, <3>2, <3>3, <3>4, <3>5
      DEF Matches, LockedOnce, RewardedOnce, RefundedOnce, LockEntry,
             RewardEntry
  <2>4. CASE u # t
    <3>1. tasks'[u] = tasks[u]
      BY <1>5, <1>t, <2>4 DEF Settle
    <3> QED
      BY <1>m, <2>2, <2>4, <3>1, MatchesKept
  <2> QED
    BY <2>3, <2>4
<1> QED
  BY <1>1, <1>2, <1>3, <1>4, <1>5, EscrowSteps DEF EscrowStep

(* The ledger rows of a task are exactly what its state calls for: locked   *)
(* while it exists, rewarded to the worker of the accepted submission,      *)
(* refunded to the creator when cancelled (createTask, settleBounty,        *)
(* cancelTask).                                                             *)
THEOREM EscrowMatchesAlways == Spec => []EscrowMatchesTasks
BY SoundAlways, MatchesInit, MatchesStep, PTL DEF Spec

-----------------------------------------------------------------------------
(* Settlement: justified, announced and final.                              *)

(* A task's accepted submission changes only when a settlement writes it.   *)
LEMMA AcceptedBySettlement ==
  ASSUME Sound, [Next]_vars, NEW t \in Tasks
  PROVE  \/ /\ tasks'[t].accepted = tasks[t].accepted
            /\ outbox'[t] = outbox[t]
         \/ \E s \in Subs :
              /\ Settle(t, s)
              /\ tasks'[t].accepted = s
              /\ outbox'[t] = outbox[t] + 1
<1>t. /\ tasks \in [Tasks -> TaskRow]
      /\ outbox \in [Tasks -> Nat]
      /\ RowsAgree
      /\ tasks[t] \in TaskRow
  BY DEF Sound, TypeOK
<1>1. CASE Still
  BY <1>1 DEF Still
<1>2. ASSUME NEW u \in Tasks, NEW b \in Bounties, NEW q \in Quorums,
             CreateTask(u, b, q)
      PROVE  tasks'[t].accepted = tasks[t].accepted /\ outbox'[t] = outbox[t]
  <2>1. tasks[u] = NoTask /\ outbox' = outbox
    BY <1>2, <1>t DEF CreateTask, RowsAgree
  <2>2. tasks'[t] = IF t = u THEN [status |-> "open", bounty |-> b,
          required |-> q,
                                   accepted |-> None] ELSE tasks[t]
    BY <1>2, <1>t DEF CreateTask
  <2> QED
    BY <2>1, <2>2 DEF NoTask
<1>3. CASE \E s \in Subs : Charge(s)
  BY <1>3 DEF Charge
<1>4. ASSUME NEW u \in Tasks, Refund(u)
      PROVE  tasks'[t].accepted = tasks[t].accepted /\ outbox'[t] = outbox[t]
  <2>1. CASE t = u
    BY <1>4, <1>t, <2>1 DEF Refund, TaskRow
  <2>2. CASE t # u
    BY <1>4, <1>t, <2>2 DEF Refund
  <2> QED
    BY <2>1, <2>2
<1>5. ASSUME NEW u \in Tasks, NEW s \in Subs, Settle(u, s)
      PROVE  \/ tasks'[t].accepted = tasks[t].accepted
                  /\ outbox'[t] = outbox[t]
             \/ Settle(t, s) /\ tasks'[t].accepted = s
                  /\ outbox'[t] = outbox[t] + 1
  <2>1. CASE t = u
    BY <1>5, <1>t, <2>1 DEF Settle, TaskRow
  <2>2. CASE t # u
    BY <1>5, <1>t, <2>2 DEF Settle
  <2> QED
    BY <2>1, <2>2
<1> QED
  BY <1>1, <1>2, <1>3, <1>4, <1>5, EscrowSteps DEF EscrowStep

LEMMA JustifiedStep ==
  Sound /\ SettlementJustified /\ [Next]_vars => SettlementJustified'
<1> SUFFICES ASSUME Sound, SettlementJustified, [Next]_vars, NEW t \in Tasks,
                    NEW s \in Subs, tasks'[t].accepted = s
             PROVE  /\ subs'[s].status # "absent"
                    /\ subs'[s].task = t
                    /\ Cardinality(Approvals(s)') >= tasks'[t].required
  BY DEF SettlementJustified
<1>t. TypeOK /\ RowsAgree /\ tasks[t] \in TaskRow
  BY DEF Sound, TypeOK
<1>k. RowsKept
  BY <1>t, RowsAreKept
<1>1. /\ tasks[t].status # "absent"
      /\ subs[s].status # "absent"
      /\ subs[s].task = t
      /\ Cardinality(Approvals(s)) >= tasks[t].required
  <2>1. CASE tasks'[t].accepted = tasks[t].accepted
    BY <1>t, <2>1 DEF SettlementJustified, RowsAgree, NoTask, TaskRow
  <2>2. CASE \E x \in Subs : Settle(t, x) /\ tasks'[t].accepted = x
    BY <2>2 DEF Settle
  <2> QED
    BY <2>1, <2>2, AcceptedBySettlement
<1>2. subs'[s].status # "absent" /\ subs'[s].task = t
  BY <1>1, <1>k DEF RowsKept
<1>3. tasks'[t].required = tasks[t].required /\ tasks[t].required \in Nat
  BY <1>1, <1>k, <1>t DEF RowsKept, TaskRow
<1>4. /\ Cardinality(Approvals(s)) \in Nat
      /\ Cardinality(Approvals(s)') \in Nat
      /\ Cardinality(Approvals(s)) <= Cardinality(Approvals(s)')
  BY <1>t, <1>1, ApprovalsOnlyGrow
<1>5. Cardinality(Approvals(s)') >= tasks'[t].required
  BY <1>1, <1>3, <1>4
<1> QED
  BY <1>2, <1>5

(* No interleaving of votes, cancellations, re-executions and crashes       *)
(* accepts a submission without its quorum (audit, settleBounty).           *)
THEOREM SettlementAlwaysJustified == Spec => []SettlementJustified
<1>1. Init => SettlementJustified
  BY DEF Init, SettlementJustified, NoTask
<1> QED
  BY SoundAlways, JustifiedStep, <1>1, PTL DEF Spec

(* Each settlement writes its outbox events once, together with the         *)
(* acceptance, however many voters see the quorum (settleBounty).           *)
THEOREM AlwaysAnnouncedOnce == Spec => []AnnouncedOnce
<1>1. Init => AnnouncedOnce
  BY DEF Init, AnnouncedOnce, NoTask
<1>2. Sound /\ AnnouncedOnce /\ [Next]_vars => AnnouncedOnce'
  <2> SUFFICES ASSUME Sound, AnnouncedOnce, [Next]_vars, NEW t \in Tasks
               PROVE  outbox'[t] = IF tasks'[t].accepted = None THEN 0 ELSE 1
    BY DEF AnnouncedOnce
  <2>1. CASE tasks'[t].accepted = tasks[t].accepted /\ outbox'[t] = outbox[t]
    BY <2>1 DEF AnnouncedOnce
  <2>2. ASSUME NEW s \in Subs, Settle(t, s), tasks'[t].accepted = s,
               outbox'[t] = outbox[t] + 1
        PROVE  outbox'[t] = IF tasks'[t].accepted = None THEN 0 ELSE 1
    BY <2>2 DEF AnnouncedOnce, Settle, Settleable
  <2> QED
    BY <2>1, <2>2, AcceptedBySettlement
<1> QED
  BY SoundAlways, <1>1, <1>2, PTL DEF Spec

(* Votes come from qualified agents whose developer controls neither the    *)
(* worker nor the creator (audit).                                          *)
THEOREM VotesAlwaysIndependent == Spec => []VotesIndependent
<1>1. Init => VotesIndependent
  BY DEF Init, VotesIndependent, Approvals, Rejections, Verdicts
<1>2. Sound /\ VotesIndependent /\ [Next]_vars => VotesIndependent'
  <2> SUFFICES ASSUME Sound, VotesIndependent, [Next]_vars, NEW s \in Subs,
                      NEW a \in Agents, audits'[s][a] \in Verdicts
               PROVE  /\ a \in Qualified
                      /\ Developer[a] \notin {NoDeveloper,
                           Developer[Worker[s]],
                                              Developer[Author[subs'[s].task]]}
    BY DEF VotesIndependent, Approvals, Rejections, Verdicts
  <2>t. TypeOK /\ RowsAgree /\ RequestsAgree
    BY DEF Sound
  <2>k. RowsKept
    BY <2>t, RowsAreKept
  <2>1. CASE audits'[s][a] = audits[s][a]
    <3>1. a \in Approvals(s) \cup Rejections(s)
      BY <2>1 DEF Approvals, Rejections, Verdicts
    <3>2. subs[s].status # "absent"
      BY <2>1, <2>t DEF RowsAgree
    <3>3. subs'[s].task = subs[s].task
      BY <2>k, <3>2 DEF RowsKept
    <3> QED
      BY <3>1, <3>3 DEF VotesIndependent
  <2>2. ASSUME NEW r \in Requests, AuditVote(r), audits'[s][a] # audits[s][a]
        PROVE  /\ a \in Qualified
               /\ Developer[a] \notin {NoDeveloper, Developer[Worker[s]],
                                       Developer[Author[subs'[s].task]]}
    <3>1. s = req[r].sub /\ a = req[r].agent
      BY <2>2, <2>t DEF AuditVote, TypeOK
    <3>2. RequestAgrees(req[r]) /\ req[r].pc = "vote" /\ subs' = subs
      BY <2>2, <2>t DEF AuditVote, RequestsAgree
    <3> QED
      BY <3>1, <3>2 DEF RequestAgrees, Independent
  <2>3. CASE audits' = audits
    BY <2>1, <2>3
  <2> QED
    BY <2>1, <2>2, <2>3, AuditsChangeByVote
<1> QED
  BY SoundAlways, <1>1, <1>2, PTL DEF Spec

(* A cancelled task is not written again.                                   *)
LEMMA CancelledIsFinal ==
  ASSUME Sound, [Next]_vars, NEW t \in Tasks, tasks[t].status = "cancelled"
  PROVE  tasks'[t] = tasks[t]
<1>t. tasks \in [Tasks -> TaskRow]
  BY DEF Sound, TypeOK
<1>1. CASE Still \/ \E s \in Subs : Charge(s)
  BY <1>1 DEF Still, Charge
<1>2. ASSUME NEW u \in Tasks, NEW b \in Bounties, NEW q \in Quorums,
             CreateTask(u, b, q)
      PROVE  tasks'[t] = tasks[t]
  BY <1>2, <1>t DEF CreateTask
<1>3. ASSUME NEW u \in Tasks, Refund(u) PROVE tasks'[t] = tasks[t]
  BY <1>3, <1>t DEF Refund, Cancellable
<1>4. ASSUME NEW u \in Tasks, NEW s \in Subs, Settle(u, s)
      PROVE  tasks'[t] = tasks[t]
  <2>1. u # t
    BY <1>4 DEF Settle, Settleable
  <2> QED
    BY <1>4, <1>t, <2>1 DEF Settle
<1> QED
  BY <1>1, <1>2, <1>3, <1>4, EscrowSteps DEF EscrowStep

(* What was decided stays decided: acceptances, cancellations, votes and    *)
(* ledger rows are never taken back (audit, settleBounty, cancelTask).      *)
THEOREM DecisionsStayFinal == Spec => DecisionsAreFinal
<1> DEFINE Final ==
      /\ \A t \in Tasks :
           /\ tasks[t].accepted # None =>
                tasks'[t].accepted = tasks[t].accepted
           /\ tasks[t].status = "cancelled" => tasks'[t] = tasks[t]
      /\ \A s \in Subs, a \in Agents :
           audits[s][a] # None => audits'[s][a] = audits[s][a]
      /\ ledger \subseteq ledger'
<1>1. Sound /\ [Next]_vars => Final
  <2> SUFFICES ASSUME Sound, [Next]_vars PROVE Final
    OBVIOUS
  <2>1. ASSUME NEW t \in Tasks, tasks[t].accepted # None
        PROVE  tasks'[t].accepted = tasks[t].accepted
    BY <2>1, AcceptedBySettlement DEF Settle, Settleable
  <2>2. ASSUME NEW t \in Tasks, tasks[t].status = "cancelled"
        PROVE  tasks'[t] = tasks[t]
    BY <2>2, CancelledIsFinal
  <2>3. ASSUME NEW s \in Subs, NEW a \in Agents, audits[s][a] # None
        PROVE  audits'[s][a] = audits[s][a]
    <3>t. audits \in [Subs -> [Agents -> Verdicts \cup {None}]]
      BY DEF Sound, TypeOK
    <3>1. ASSUME NEW r \in Requests, AuditVote(r)
          PROVE  audits'[s][a] = audits[s][a]
      <4> DEFINE x == req[r].sub
                 y == req[r].agent
      <4>1. audits' = [audits EXCEPT ![x][y] =
                         IF audits[x][y] = None THEN req[r].verdict ELSE audits[x][y]]
        BY <3>1 DEF AuditVote
      <4> HIDE DEF x, y
      <4>2. CASE s = x /\ a = y
        BY <2>3, <3>t, <4>1, <4>2
      <4>3. CASE ~(s = x /\ a = y)
        BY <3>t, <4>1, <4>3
      <4> QED
        BY <4>2, <4>3
    <3> QED
      BY <3>1, AuditsChangeByVote
  <2>4. ledger \subseteq ledger'
    BY EscrowSteps
    DEF EscrowStep, Still, CreateTask, Charge, Refund, Settle, MoveCredits
  <2> QED
    BY <2>1, <2>2, <2>3, <2>4
<1>2. Sound /\ [Next]_vars => [Final]_vars
  BY <1>1
<1> HIDE DEF Final
<1>3. Spec => [][Final]_vars
  BY SoundAlways, <1>2, PTL DEF Spec
<1> QED
  BY <1>3 DEF Final, DecisionsAreFinal

-----------------------------------------------------------------------------
(* A quorum is not overlooked.                                              *)

Pending(t, s) == Approved(t, s) /\ Undecided(t)

(* Only a vote makes a quorum: created tasks ask for at least one approval, *)
(* so a submission does not bring its quorum along.                         *)
LEMMA PendingBefore ==
  ASSUME Sound, Sound', [Next]_vars, NEW t \in Tasks, NEW s \in Subs,
         audits' = audits, Pending(t, s)'
  PROVE  Pending(t, s)
<1>t. /\ TypeOK
      /\ RowsAgree
      /\ RowsAgree'
      /\ tasks \in [Tasks -> TaskRow]
  BY DEF Sound, TypeOK
<1>k. RowsKept
  BY <1>t, RowsAreKept
<1>1. Undecided(t)
  <2>1. tasks'[t].accepted = None /\ tasks'[t].status # "cancelled"
    BY DEF Pending, Undecided
  <2>2. tasks[t].accepted = None
    BY <2>1, AcceptedBySettlement
  <2>3. tasks[t].status # "cancelled"
    BY <2>1, CancelledIsFinal
  <2> QED
    BY <2>2, <2>3 DEF Undecided
<1>2. /\ subs'[s].task = t
      /\ Cardinality(Approvals(s)) >= tasks'[t].required
      /\ Rejections(s) = {}
  BY DEF Pending, Approved, Approvals, Rejections
<1>3. subs[s].status # "absent"
  <2> SUFFICES ASSUME subs[s].status = "absent" PROVE FALSE
    OBVIOUS
  <2>1. Approvals(s) = {}
    BY <1>t DEF RowsAgree, Approvals, Verdicts
  <2>2. Cardinality(Approvals(s)) = 0
    BY <2>1, FS_EmptySet
  <2>3. subs'[s].status # "absent"
    BY <1>2, <1>t DEF RowsAgree, NoSub
  <2>4. tasks'[t].required \in Quorums
    BY <1>2, <1>t, <2>3 DEF RowsAgree
  <2>5. \A q \in Quorums : q \in Nat /\ q > 0
    OBVIOUS
  <2>6. tasks'[t].required > 0
    BY <2>4, <2>5, Zenon
  <2>7. tasks'[t].required \in Nat
    BY <2>4, <2>5, Zenon
  <2> QED
    BY <1>2, <2>2, <2>6, <2>7
<1>4. subs[s].task = t
  BY <1>2, <1>3, <1>k DEF RowsKept
<1>5. tasks[t].status # "absent"
  BY <1>3, <1>4, <1>t DEF RowsAgree
<1>6. tasks'[t].required = tasks[t].required
  BY <1>5, <1>k DEF RowsKept
<1> QED
  BY <1>1, <1>2, <1>4, <1>6 DEF Pending, Approved

(* A settling request whose task is undecided commits: no reward entry is   *)
(* in its way.                                                              *)
LEMMA SettlementSucceeds ==
  ASSUME Sound, EscrowMatchesTasks, NEW r \in Requests, SettleCommit(r),
         NEW t \in Tasks, NEW s \in Subs, req[r].sub = s, Pending(t, s)
  PROVE  ~Pending(t, s)'
<1>t. tasks \in [Tasks -> TaskRow] /\ tasks[t] \in TaskRow
        /\ RequestAgrees(req[r])
  BY DEF Sound, TypeOK, RequestsAgree
<1>1. req[r].task = t
  BY <1>t DEF SettleCommit, RequestAgrees, Auditing, Pending, Approved
<1>2. Settleable(t)
  BY DEF Pending, Undecided, Settleable
<1>3. Entries("reward", t) = {}
  BY DEF Pending, Undecided, EscrowMatchesTasks, RewardedOnce
<1>4. Insertable(RewardEntry(t, s))
  BY <1>3 DEF Entries, Insertable, Ledger!FreshIn, RewardEntry
<1>5. tasks' = [tasks EXCEPT ![t].status = "resolved", ![t].accepted = s]
  BY <1>1, <1>2, <1>4 DEF SettleCommit
<1>6. tasks'[t].accepted = s /\ s # None
  BY <1>5, <1>t DEF TaskRow
<1> QED
  BY <1>6 DEF Pending, Undecided

LEMMA OverlookedStep ==
  ASSUME Sound, Sound', EscrowMatchesTasks, QuorumNeverOverlooked, [Next]_vars
  PROVE  QuorumNeverOverlooked'
<1> SUFFICES ASSUME faults' = 0, NEW t \in Tasks, NEW s \in Subs, Pending(t,
      s)'
             PROVE  \E r \in Requests :
                      req'[r].sub = s /\ req'[r].pc \in {"count", "settle"}
  BY DEF QuorumNeverOverlooked, Pending
<1> DEFINE Found == \E r \in Requests :
                      req'[r].sub = s /\ req'[r].pc \in {"count", "settle"}
<1> SUFFICES Found
  OBVIOUS
<1>t. req \in [Requests -> Request] /\ faults \in Nat
  BY DEF Sound, TypeOK
<1>p. audits' = audits /\ faults' = faults =>
        Pending(t, s) /\ \E r \in Requests :
                           req[r].sub = s /\ req[r].pc \in {"count", "settle"}
  BY PendingBefore DEF QuorumNeverOverlooked, Pending
<1>i. req' = req /\ audits' = audits /\ faults' = faults => Found
  BY <1>p
<1>1. ASSUME NEW k \in Tasks, NEW b \in Bounties, NEW q \in Quorums,
               CreateTask(k, b, q)
      PROVE  Found
  BY <1>1, <1>i DEF CreateTask
<1>2. ASSUME NEW r \in Requests, NEW k \in Tasks, CancelCheck(r, k)
      PROVE  Found
  <2>1. \A u \in Requests : u # r => req'[u] = req[u]
    BY <1>2, <1>t DEF CancelCheck, Answer, Goto
  <2>2. /\ audits' = audits
        /\ faults' = faults
        /\ req[r].pc \notin {"count", "settle"}
    BY <1>2 DEF CancelCheck, dbVars
  <2> QED
    BY <1>p, <2>1, <2>2
<1>3. ASSUME NEW r \in Requests, CancelCommit(r) PROVE Found
  <2>1. \A u \in Requests : u # r => req'[u] = req[u]
    BY <1>3, <1>t DEF CancelCommit, Answer, Goto
  <2>2. /\ audits' = audits
        /\ faults' = faults
        /\ req[r].pc \notin {"count", "settle"}
    BY <1>3 DEF CancelCommit, dbVars
  <2> QED
    BY <1>p, <2>1, <2>2
<1>4. ASSUME NEW r \in Requests, NEW z \in Subs, NEW k \in Tasks,
               SubmitCheck(r, z, k)
      PROVE  Found
  <2>1. \A u \in Requests : u # r => req'[u] = req[u]
    BY <1>4, <1>t DEF SubmitCheck, Answer, Goto
  <2>2. /\ audits' = audits
        /\ faults' = faults
        /\ req[r].pc \notin {"count", "settle"}
    BY <1>4 DEF SubmitCheck, dbVars
  <2> QED
    BY <1>p, <2>1, <2>2
<1>5. ASSUME NEW r \in Requests, SubmitCommit(r) PROVE Found
  <2>1. \A u \in Requests : u # r => req'[u] = req[u]
    BY <1>5, <1>t DEF SubmitCommit, Answer, Goto
  <2>2. /\ audits' = audits
        /\ faults' = faults
        /\ req[r].pc \notin {"count", "settle"}
    BY <1>5 DEF SubmitCommit, dbVars
  <2> QED
    BY <1>p, <2>1, <2>2
<1>6. ASSUME NEW z \in Subs, RunStart(z) PROVE Found
  BY <1>6, <1>i DEF RunStart
<1>7. ASSUME NEW z \in Subs, NEW v \in {"passed", "failed"}, RunVerdict(z, v)
      PROVE  Found
  BY <1>7, <1>i DEF RunVerdict
<1>8. ASSUME NEW r \in Requests, NEW a \in Agents, NEW z \in Subs,
             NEW v \in Verdicts, AuditCheck(r, a, z, v)
      PROVE  Found
  <2>1. \A u \in Requests : u # r => req'[u] = req[u]
    BY <1>8, <1>t DEF AuditCheck, Answer, Goto
  <2>2. /\ audits' = audits
        /\ faults' = faults
        /\ req[r].pc \notin {"count", "settle"}
    BY <1>8 DEF AuditCheck, dbVars
  <2> QED
    BY <1>p, <2>1, <2>2
<1>9. ASSUME NEW r \in Requests, AuditEligible(r) PROVE Found
  <2>1. \A u \in Requests : u # r => req'[u] = req[u]
    BY <1>9, <1>t DEF AuditEligible, Answer, Goto
  <2>2. /\ audits' = audits
        /\ faults' = faults
        /\ req[r].pc \notin {"count", "settle"}
    BY <1>9 DEF AuditEligible, dbVars
  <2> QED
    BY <1>p, <2>1, <2>2
<1>10. ASSUME NEW r \in Requests, AuditVote(r) PROVE Found
  <2>1. \A u \in Requests : u # r => req'[u] = req[u]
    BY <1>10, <1>t DEF AuditVote, Goto
  <2>2. req'[r].pc = "count" /\ req'[r].sub = req[r].sub
    BY <1>10, <1>t DEF AuditVote, Goto, Request
  <2>3. CASE req[r].sub = s
    BY <2>2, <2>3
  <2>4. CASE req[r].sub # s
    <3>1. /\ UNCHANGED <<tasks, subs, faults>>
          /\ audits'[s] = audits[s]
      BY <1>10, <2>4 DEF AuditVote, Sound, TypeOK
    <3>2. Pending(t, s)
      BY <3>1 DEF Pending, Approved, Undecided, Approvals, Rejections
    <3>3. PICK u \in Requests : req[u].sub = s
            /\ req[u].pc \in {"count", "settle"}
      BY <3>1, <3>2 DEF QuorumNeverOverlooked, Pending
    <3> QED
      BY <2>1, <2>4, <3>3
  <2> QED
    BY <2>3, <2>4
<1>11. ASSUME NEW r \in Requests, AuditCount(r) PROVE Found
  <2>1. \A u \in Requests : u # r => req'[u] = req[u]
    BY <1>11, <1>t DEF AuditCount, Answer, Goto
  <2>2. audits' = audits /\ faults' = faults
    BY <1>11 DEF AuditCount, dbVars
  <2>3. CASE req[r].sub = s
    <3>1. Approved(t, s) /\ req[r].task = t
      BY <1>11, <1>p, <2>2, <2>3
      DEF AuditCount, Sound, RequestsAgree, RequestAgrees, Auditing, Pending,
             Approved
    <3>2. Consensus(req[r].sub, tasks[req[r].task].required)
      BY <2>3, <3>1 DEF Approved, Consensus
    <3>3. req'[r].sub = s /\ req'[r].pc = "settle"
      BY <1>11, <1>t, <2>3, <3>2 DEF AuditCount, Goto, Request
    <3> QED
      BY <3>3
  <2>4. CASE req[r].sub # s
    BY <1>p, <2>1, <2>2, <2>4
  <2> QED
    BY <2>3, <2>4
<1>12. ASSUME NEW r \in Requests, SettleCommit(r) PROVE Found
  <2>1. \A u \in Requests : u # r => req'[u] = req[u]
    BY <1>12, <1>t DEF SettleCommit, Answer
  <2>2. audits' = audits /\ faults' = faults
    BY <1>12 DEF SettleCommit
  <2>3. req[r].sub # s
    BY <1>12, <1>p, <2>2, SettlementSucceeds
  <2> QED
    BY <1>p, <2>1, <2>2, <2>3
<1>13. ASSUME NEW r \in Requests, Abandon(r) PROVE Found
  BY <1>13, <1>t DEF Abandon
<1>14. CASE UNCHANGED vars
  BY <1>14, <1>i DEF vars
<1> QED
  BY <1>1, <1>2, <1>3, <1>4, <1>5, <1>6, <1>7, <1>8, <1>9, <1>10, <1>11,
     <1>12, <1>13, <1>14
  DEF Next, Proceed

(* Although every voter counts on its own and outside any lock, a quorum    *)
(* is always in some request's hands until it is settled, unless a request  *)
(* was lost (audit).                                                        *)
THEOREM QuorumNeverOverlookedAlways == Spec => []QuorumNeverOverlooked
<1>1. Init => QuorumNeverOverlooked
  BY DEF Init, QuorumNeverOverlooked, Approved, NoSub
<1> QED
  BY SoundAlways, EscrowMatchesAlways, OverlookedStep, <1>1, PTL DEF Spec
=============================================================================
