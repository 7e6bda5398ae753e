------------------------ MODULE ReputationEngineProofs ------------------------
(***************************************************************************)
(* Theorems about ReputationEngine, for every number of agents,            *)
(* submissions, recalculations, runs and faults, and every quorum, sample  *)
(* and threshold.                                                          *)
(***************************************************************************)
EXTENDS ReputationEngine, FiniteSetTheorems, WellFoundedInduction, TLAPS

(* What the proofs use of the parameters but for their finiteness.          *)
LEMMA Parameters ==
  /\ Worker \in [Subs -> Agents] /\ Seeded \subseteq Agents
  /\ Quorum \in Nat /\ Quorum > 0 /\ MinSample \in Nat
  /\ None \notin Subs /\ None \notin Verdicts
BY ReputationAssumption

-----------------------------------------------------------------------------
(* The inductive invariant.                                                 *)

Standing == {"absent", "queued", "running", "passed", "failed"}

(* What scores look like does not matter here: S is any set of rows.        *)
CallState(S) == [pc : {"idle", "read", "insert"}, event : Subs \cup {None},
                 waited : BOOLEAN, row : S]

Typed ==
  /\ status \in [Subs -> Standing]
  /\ votes \in [Subs -> [Agents -> Verdicts \cup {None}]]
  /\ settled \subseteq Subs
  /\ processed \subseteq settled
  /\ overlapped \subseteq Agents
  /\ \E S : call \in [Calls -> CallState(S)]
  /\ DOMAIN snapshots = Agents
  /\ \A a \in Agents : \E S : snapshots[a] \in Seq(S)

(* A vote is about a submission that exists, a settlement about one with    *)
(* votes, a recalculation about a settled one.                              *)
AboutSettled ==
  /\ \A s \in Subs, a \in Agents : votes[s][a] # None => status[s] # "absent"
  /\ \A s \in settled : status[s] # "absent"
  /\ \A c \in Calls : call[c].pc # "idle" => call[c].event \in settled

(* Two recalculations of one agent at the same time are noted for good.     *)
OneAtATime ==
  \A c, d \in Calls :
    /\ call[c].pc # "idle" /\ call[d].pc # "idle"
    /\ Worker[call[c].event] = Worker[call[d].event]
    /\ Worker[call[c].event] \notin overlapped
    => c = d

(* A row that is about to be inserted counts what the agent had submitted   *)
(* when it was read, and without an overlap nothing has been processed      *)
(* since.                                                                   *)
RowCounts(c) ==
  LET a == Worker[call[c].event] IN
  call[c].pc = "insert" =>
    /\ call[c].event \in call[c].row.counted
    /\ call[c].row.counted \subseteq Attempts(a)
    /\ call[c].row.sampleSize = Cardinality(call[c].row.counted)
    /\ a \notin overlapped =>
         \A s \in processed : Worker[s] = a => s \in call[c].row.counted
RowsCount == \A c \in Calls : RowCounts(c)

(* So does the latest snapshot, which a settlement brought about unless an  *)
(* operator wrote it.                                                       *)
Earned(a) ==
  a \notin Seeded /\ snapshots[a] # <<>> =>
    /\ Latest(a).counted \subseteq Attempts(a)
    /\ Latest(a).sampleSize = Cardinality(Latest(a).counted)
    /\ \E s \in settled : Worker[s] = a
SnapshotsAreEarned == \A a \in Agents : Earned(a)

VoteIsEarned(a) ==
  (\E s \in Subs : votes[s][a] # None) =>
    /\ \E s \in settled : Worker[s] = a
    /\ Cardinality(Attempts(a)) >= MinSample
VotesAreEarned == \A a \in Agents \ Seeded : VoteIsEarned(a)

EngineSound ==
  /\ Typed
  /\ AboutSettled
  /\ OneAtATime
  /\ RowsCount
  /\ SnapshotsAreEarned
  /\ VotesAreEarned
  /\ LatestCoversSettled

-----------------------------------------------------------------------------
(* What a step does to one recalculation, and to the rest.                  *)

CallIs(c, p, e, b, r) ==
  /\ \E S : call' \in [Calls -> CallState(S)]
  /\ call'[c].pc = p /\ call'[c].event = e /\ call'[c].waited = b
       /\ call'[c].row = r
  /\ \A d \in Calls : d # c => call'[d] = call[d]

LEMMA CallRows ==
  ASSUME NEW S, call \in [Calls -> CallState(S)], NEW c \in Calls,
         NEW T, NEW row \in CallState(T), call' = [call EXCEPT ![c] = row]
  PROVE  CallIs(c, row.pc, row.event, row.waited, row.row)
<1>1. \A d \in Calls : call'[d] = IF d = c THEN row ELSE call[d]
  OBVIOUS
<1>2. \A x \in CallState(S) : x \in CallState(S \cup T)
  BY DEF CallState
<1>3. row \in CallState(S \cup T)
  BY DEF CallState
<1>4. call' \in [Calls -> CallState(S \cup T)]
  BY <1>1, <1>2, <1>3
<1> QED
  BY <1>1, <1>4 DEF CallIs

LEMMA RowOfEngine ==
  ASSUME NEW a, NEW m
  PROVE  Row(a, m).counted = Attempts(a)
           /\ Row(a, m).sampleSize = Cardinality(Attempts(a))
BY DEF Row

LEMMA AttemptsAreFinite ==
  ASSUME NEW a
  PROVE  IsFiniteSet(Attempts(a)) /\ Cardinality(Attempts(a)) \in Nat
<1>1. IsFiniteSet(Subs) /\ Attempts(a) \subseteq Subs
  BY ReputationAssumption DEF Attempts
<1> QED
  BY <1>1, FS_Subset, FS_CardinalityType

LEMMA AppendIsLast ==
  ASSUME NEW S, NEW q \in Seq(S), NEW x
  PROVE  /\ \E T : Append(q, x) \in Seq(T)
         /\ Append(q, x) # <<>>
         /\ Last(Append(q, x)) = x
<1>1. q \in Seq(S \cup {x})
  OBVIOUS
<1>2. /\ Append(q, x) \in Seq(S \cup {x}) /\ Len(Append(q, x)) = Len(q) + 1
      /\ Append(q, x)[Len(q) + 1] = x
  BY <1>1
<1>3. Append(q, x) # <<>>
  BY <1>1, <1>2
<1> QED
  BY <1>2, <1>3 DEF Last

(* What the engine relies on: nothing that was submitted, voted or settled  *)
(* is undone.                                                               *)
Onward ==
  /\ \A s \in Subs : status[s] # "absent" => status'[s] # "absent"
  /\ settled \subseteq settled' /\ settled' \subseteq Subs
  /\ overlapped \subseteq overlapped'

LEMMA AttemptsGrow == Onward => \A a : Attempts(a) \subseteq Attempts(a)'
  BY DEF Onward, Attempts

LEMMA MoreAttempts ==
  ASSUME Onward, NEW a, NEW S, S \subseteq Attempts(a)
  PROVE  /\ S \subseteq Attempts(a)'
         /\ IsFiniteSet(S) /\ Cardinality(S) \in Nat
              /\ Cardinality(Attempts(a)') \in Nat
         /\ Cardinality(S) <= Cardinality(Attempts(a)')
<1>1. S \subseteq Attempts(a)'
  BY AttemptsGrow
<1>2. IsFiniteSet(Attempts(a)') /\ Cardinality(Attempts(a)') \in Nat
  <2>1. IsFiniteSet(Subs) /\ Attempts(a)' \subseteq Subs
    BY ReputationAssumption DEF Attempts
  <2> QED
    BY <2>1, FS_Subset, FS_CardinalityType
<1> QED
  BY <1>1, <1>2, FS_Subset, FS_CardinalityType

(* What a voter has earned stays earned.                                    *)
LEMMA EarnedStays ==
  ASSUME Typed, Onward, NEW a \in Agents
  PROVE  /\ Earned(a) /\ snapshots'[a] = snapshots[a] => Earned(a)'
         /\ VoteIsEarned(a)
              /\ (\A s \in Subs : votes'[s][a] = votes[s][a]) =>
                   VoteIsEarned(a)'
<1>1. ASSUME Earned(a), snapshots'[a] = snapshots[a] PROVE Earned(a)'
  BY <1>1, AttemptsGrow DEF Earned, Latest, Onward
<1>2. ASSUME VoteIsEarned(a), \A s \in Subs : votes'[s][a] = votes[s][a]
      PROVE  VoteIsEarned(a)'
  <2> SUFFICES ASSUME \E s \in Subs : votes[s][a] # None
               PROVE  /\ \E s \in settled' : Worker[s] = a
                      /\ Cardinality(Attempts(a)') >= MinSample
    BY <1>2 DEF VoteIsEarned
  <2>1. /\ \E s \in settled : Worker[s] = a
        /\ Cardinality(Attempts(a)) >= MinSample
    BY <1>2 DEF VoteIsEarned
  <2>2. /\ Cardinality(Attempts(a)) <= Cardinality(Attempts(a)')
        /\ Cardinality(Attempts(a)') \in Nat
             /\ Cardinality(Attempts(a)) \in Nat
    BY MoreAttempts
  <2> QED
    BY <2>1, <2>2, Parameters DEF Onward
<1> QED
  BY <1>1, <1>2

(* A recalculation that goes on, in a step that processes nothing.          *)
LEMMA RowStays ==
  ASSUME Onward, NEW c \in Calls, RowCounts(c), call'[c].pc = call[c].pc,
         call'[c].event = call[c].event, call'[c].row = call[c].row,
         \A s \in processed' : Worker[s] = Worker[call[c].event]
           /\ call[c].pc = "insert" =>
           s \in processed \/ Worker[s] \in overlapped
  PROVE  RowCounts(c)'
<1> SUFFICES ASSUME call[c].pc = "insert"
             PROVE  RowCounts(c)'
  BY DEF RowCounts
<1>1. \A x : x \in call[c].row.counted =>
        x \in Attempts(Worker[call[c].event])'
  BY AttemptsGrow DEF RowCounts
<1> QED
  BY <1>1 DEF RowCounts, Onward

(* Steps that leave recalculations and snapshots alone.                     *)
LEMMA EngineRests ==
  ASSUME EngineSound, Onward, UNCHANGED <<processed, snapshots, call,
           overlapped>>,
         status' \in [Subs -> Standing],
         votes' \in [Subs -> [Agents -> Verdicts \cup {None}]],
         \A s \in Subs, a \in Agents : votes'[s][a] # None =>
           status'[s] # "absent",
         \A s \in settled' : status'[s] # "absent",
         \A a \in Agents \ Seeded : VoteIsEarned(a)'
  PROVE  EngineSound'
<1>1. Typed'
  BY DEF EngineSound, Typed, Onward
<1>2. AboutSettled'
  BY DEF EngineSound, AboutSettled, Onward
<1>3. OneAtATime' /\ LatestCoversSettled'
  BY DEF EngineSound, OneAtATime, LatestCoversSettled, Latest
<1>4. RowsCount'
  BY RowStays DEF EngineSound, RowsCount
<1>5. SnapshotsAreEarned'
  BY EarnedStays DEF EngineSound, SnapshotsAreEarned
<1> QED
  BY <1>1, <1>2, <1>3, <1>4, <1>5 DEF EngineSound, VotesAreEarned

(* Steps of one recalculation, which leave submissions and votes alone.     *)
LEMMA WorldRests ==
  ASSUME EngineSound, UNCHANGED <<status, votes, settled>>,
         processed' \subseteq settled, overlapped \subseteq overlapped',
         overlapped' \subseteq Agents
  PROVE  /\ Onward
         /\ \A a \in Agents \ Seeded : VoteIsEarned(a)'
         /\ \A s \in Subs, a \in Agents : votes'[s][a] # None =>
              status'[s] # "absent"
         /\ \A s \in settled' : status'[s] # "absent"
<1>1. Onward
  BY DEF EngineSound, Typed, Onward
<1> QED
  BY <1>1, EarnedStays DEF EngineSound, VotesAreEarned, AboutSettled

LEMMA OneCallMoves ==
  ASSUME EngineSound, UNCHANGED <<status, votes, settled, processed,
           snapshots>>,
         overlapped \subseteq overlapped', overlapped' \subseteq Agents,
         NEW c \in Calls, NEW p, NEW e, NEW b, NEW r, CallIs(c, p, e, b, r),
         p # "idle" => e \in settled,
         RowCounts(c)',
         \A d \in Calls : p # "idle" /\ d # c /\ call[d].pc # "idle"
                          /\ Worker[call[d].event] = Worker[e] =>
                               Worker[e] \in overlapped'
  PROVE  EngineSound'
<1>w. /\ Onward /\ \A a \in Agents \ Seeded : VoteIsEarned(a)'
      /\ \A s \in Subs, a \in Agents : votes'[s][a] # None =>
           status'[s] # "absent"
      /\ \A s \in settled' : status'[s] # "absent"
  BY WorldRests DEF EngineSound, Typed
<1>1. Typed'
  BY DEF EngineSound, Typed, CallIs
<1>2. AboutSettled'
  BY <1>w DEF EngineSound, AboutSettled, CallIs
<1>3. OneAtATime'
  BY DEF EngineSound, OneAtATime, CallIs
<1>4. ASSUME NEW d \in Calls, d # c PROVE RowCounts(d)'
  BY <1>4, <1>w, RowStays DEF EngineSound, RowsCount, CallIs
<1>5. RowsCount'
  BY <1>4 DEF RowsCount
<1>6. SnapshotsAreEarned'
  BY <1>w, EarnedStays DEF EngineSound, SnapshotsAreEarned
<1>7. LatestCoversSettled'
  BY DEF EngineSound, LatestCoversSettled, Latest
<1> QED
  BY <1>w, <1>1, <1>2, <1>3, <1>5, <1>6, <1>7 DEF EngineSound, VotesAreEarned

-----------------------------------------------------------------------------
LEMMA EngineInit == Init => EngineSound
<1> SUFFICES ASSUME Init PROVE EngineSound
  OBVIOUS
<1>1. Typed
  <2>1. call \in [Calls -> CallState({<<>>})]
    BY DEF Init, Idle, CallState
  <2>2. ASSUME NEW a \in Agents PROVE \E S : snapshots[a] \in Seq(S)
    <3>1. <<[counted |-> {}, sampleSize |-> MinSample, score |-> Scale]>>
            \in Seq({[counted |-> {}, sampleSize |-> MinSample,
              score |-> Scale]})
      OBVIOUS
    <3>2. <<>> \in Seq({})
      OBVIOUS
    <3> QED
      BY <3>1, <3>2 DEF Init
  <2>3. /\ status \in [Subs -> Standing]
        /\ votes \in [Subs -> [Agents -> Verdicts \cup {None}]]
        /\ settled = {} /\ processed = {} /\ overlapped = {}
             /\ DOMAIN snapshots = Agents
    BY DEF Init, Standing
  <2> QED
    BY <2>1, <2>2, <2>3 DEF Typed
<1>2. AboutSettled /\ OneAtATime
  BY DEF Init, AboutSettled, OneAtATime, Idle
<1>3. RowsCount /\ LatestCoversSettled
  BY DEF Init, RowsCount, RowCounts, LatestCoversSettled, Idle
<1>4. SnapshotsAreEarned
  BY DEF Init, SnapshotsAreEarned, Earned
<1>5. VotesAreEarned
  BY DEF Init, VotesAreEarned, VoteIsEarned
<1> QED
  BY <1>1, <1>2, <1>3, <1>4, <1>5 DEF EngineSound

LEMMA EngineStep == EngineSound /\ [Next]_vars => EngineSound'
<1> SUFFICES ASSUME EngineSound, [Next]_vars PROVE EngineSound'
  OBVIOUS
<1>s. Typed /\ AboutSettled /\ OneAtATime /\ RowsCount /\ SnapshotsAreEarned
      /\ VotesAreEarned /\ LatestCoversSettled
  BY DEF EngineSound
<1>w. /\ \A a \in Agents : \A s \in Subs : votes[s][a] # None =>
           status[s] # "absent"
      /\ \A s \in settled : status[s] # "absent"
      /\ status \in [Subs -> Standing]
      /\ votes \in [Subs -> [Agents -> Verdicts \cup {None}]]
      /\ processed \subseteq settled /\ settled \subseteq Subs
           /\ overlapped \subseteq Agents
  BY <1>s DEF Typed, AboutSettled
<1>a. ASSUME UNCHANGED <<votes, settled, processed, snapshots, call,
               overlapped>>,
             status' \in [Subs -> Standing],
             \A s \in Subs : status[s] # "absent" => status'[s] # "absent"
      PROVE  EngineSound'
  <2>1. Onward
    BY <1>a, <1>w DEF Onward
  <2>2. \A a \in Agents \ Seeded : VoteIsEarned(a)'
    BY <1>a, <1>s, <2>1, EarnedStays DEF VotesAreEarned
  <2> QED
    BY <1>a, <1>w, <2>1, <2>2, EngineRests
<1>1. ASSUME NEW x \in Subs, Submit(x) PROVE EngineSound'
  BY <1>1, <1>a, <1>w DEF Submit, Standing
<1>2. ASSUME NEW x \in Subs, StartRun(x) PROVE EngineSound'
  BY <1>2, <1>a, <1>w DEF StartRun, Standing
<1>3. ASSUME NEW x \in Subs, NEW v \in {"passed", "failed"}, EndRun(x,
               v) PROVE EngineSound'
  BY <1>3, <1>a, <1>w DEF EndRun, Standing
<1>4. ASSUME NEW a \in Agents, NEW x \in Subs, NEW v \in Verdicts, Vote(a, x,
               v)
      PROVE  EngineSound'
  <2>1. /\ UNCHANGED <<status, settled, processed, snapshots, call,
             overlapped>>
        /\ status[x] = "passed" /\ Eligible(a)
    BY <1>4 DEF Vote, work
  <2>2. /\ votes' \in [Subs -> [Agents -> Verdicts \cup {None}]]
        /\ \A s \in Subs, b \in Agents : s # x
             \/ b # a => votes'[s][b] = votes[s][b]
    BY <1>4, <1>w DEF Vote
  <2>3. Onward
    BY <2>1, <1>w DEF Onward
  <2>4. ASSUME NEW b \in Agents \ Seeded PROVE VoteIsEarned(b)'
    <3>1. CASE b # a
      BY <1>s, <2>2, <2>3, <3>1, EarnedStays DEF VotesAreEarned
    <3>2. CASE b = a
      <4>1. /\ Latest(a).counted \subseteq Attempts(a)
            /\ Latest(a).sampleSize = Cardinality(Latest(a).counted)
            /\ \E s \in settled : Worker[s] = a
            /\ Latest(a).sampleSize >= MinSample
        BY <1>s, <2>1, <3>2 DEF SnapshotsAreEarned, Earned, Eligible
      <4>2. /\ Cardinality(Latest(a).counted) \in Nat
                 /\ Cardinality(Attempts(a)') \in Nat
            /\ Cardinality(Latest(a).counted) <= Cardinality(Attempts(a)')
        BY <2>3, <4>1, MoreAttempts
      <4>3. Cardinality(Attempts(a)') >= MinSample
        BY <4>1, <4>2, Parameters
      <4> QED
        BY <2>1, <3>2, <4>1, <4>3 DEF VoteIsEarned
    <3> QED
      BY <3>1, <3>2
  <2>5. /\ \A s \in Subs, b \in Agents : votes'[s][b] # None =>
             status'[s] # "absent"
        /\ \A s \in settled' : status'[s] # "absent"
        /\ status' \in [Subs -> Standing]
    BY <1>w, <2>1, <2>2
  <2> QED
    BY <2>1, <2>2, <2>3, <2>4, <2>5, EngineRests
<1>5. ASSUME NEW x \in Subs, Settle(x) PROVE EngineSound'
  <2>1. /\ UNCHANGED <<status, votes, processed, snapshots, call, overlapped>>
        /\ settled' = settled \cup {x}
    BY <1>5 DEF Settle, work
  <2>2. status[x] # "absent"
    <3>1. {a \in Agents : votes[x][a] = "approve"} # {}
      BY <1>5, Parameters, FS_EmptySet DEF Settle
    <3>2. PICK a \in Agents : votes[x][a] = "approve"
      BY <3>1
    <3> QED
      BY <3>2, <1>w, Parameters DEF Verdicts
  <2>3. Onward
    BY <2>1, <1>w DEF Onward
  <2>4. \A a \in Agents \ Seeded : VoteIsEarned(a)'
    BY <1>s, <2>1, <2>3, EarnedStays DEF VotesAreEarned
  <2> QED
    BY <1>w, <2>1, <2>2, <2>3, <2>4, EngineRests
<1>6. ASSUME NEW c \in Calls, NEW x \in Subs, Dispatch(c, x) PROVE EngineSound'
  <2> DEFINE row == [Idle EXCEPT !.pc = "read", !.event = x, !.waited = TRUE]
  <2>1. /\ UNCHANGED <<status, votes, settled, processed, snapshots>>
        /\ call[c].pc = "idle" /\ x \in settled
             /\ call' = [call EXCEPT ![c] = row]
        /\ overlapped' = IF \E d \in Calls : call[d].pc # "idle"
             /\ Subject(d) = Worker[x]
                         THEN overlapped \cup {Worker[x]} ELSE overlapped
    BY <1>6 DEF Dispatch, work
  <2>2. /\ row \in CallState({<<>>}) /\ row.pc = "read" /\ row.event = x
        /\ row.waited = TRUE /\ row.row = <<>>
    BY DEF Idle, CallState
  <2> HIDE DEF row
  <2>3. CallIs(c, "read", x, TRUE, <<>>)
    BY <1>s, <2>1, <2>2, CallRows DEF Typed
  <2>4. RowCounts(c)'
    BY <2>3 DEF RowCounts, CallIs
  <2>5. Worker[x] \in Agents
    BY Parameters
  <2>6. overlapped \subseteq overlapped' /\ overlapped' \subseteq Agents
    BY <1>w, <2>1, <2>5
  <2>7. \A d \in Calls : d # c /\ call[d].pc # "idle"
          /\ Worker[call[d].event] = Worker[x]
          => Worker[x] \in overlapped'
    BY <2>1 DEF Subject
  <2> QED
    BY <2>1, <2>3, <2>4, <2>6, <2>7, OneCallMoves
<1>7. ASSUME NEW c \in Calls, ReadStats(c) PROVE EngineSound'
  <2>0. PICK a : a = Worker[call[c].event]
    OBVIOUS
  <2>1. /\ UNCHANGED <<status, votes, settled, processed, snapshots,
             overlapped>>
        /\ call[c].pc = "read" /\ call[c].event \in settled
             /\ call[c].event \in Subs
    BY <1>7, <1>s, <1>w DEF ReadStats, work, AboutSettled
  <2>2. PICK m \in Medians : call' = [call EXCEPT ![c].pc = "insert",
          ![c].row = Row(a, m)]
    BY <1>7, <2>0 DEF ReadStats, Subject
  <2>3. PICK R : R = Row(a, m)
    OBVIOUS
  <2>4. PICK S : call \in [Calls -> CallState(S)]
    BY <1>s DEF Typed
  <2> DEFINE row == [call[c] EXCEPT !.pc = "insert", !.row = R]
  <2>5. /\ row \in CallState({R}) /\ row.pc = "insert"
             /\ row.event = call[c].event
        /\ row.waited = call[c].waited /\ row.row = R
    BY <2>4 DEF CallState
  <2>6. call' = [call EXCEPT ![c] = row]
    BY <2>2, <2>3, <2>4
  <2> HIDE DEF row
  <2>7. CallIs(c, "insert", call[c].event, call[c].waited, R)
    BY <2>4, <2>5, <2>6, CallRows
  <2>8. R.counted = Attempts(a) /\ R.sampleSize = Cardinality(Attempts(a))
    BY <2>3, RowOfEngine
  <2>9. \A s \in settled : Worker[s] = a => s \in Attempts(a)
    BY <1>w DEF Attempts
  <2>10. Attempts(a)' = Attempts(a)
    BY <2>1 DEF Attempts
  <2>11. RowCounts(c)'
    BY <1>w, <2>0, <2>1, <2>7, <2>8, <2>9, <2>10 DEF RowCounts, CallIs
  <2>12. \A d \in Calls : d # c /\ call[d].pc # "idle"
           /\ Worker[call[d].event] = a
           => a \in overlapped
    BY <1>s, <2>0, <2>1 DEF OneAtATime
  <2> QED
    BY <1>w, <2>0, <2>1, <2>7, <2>11, <2>12, OneCallMoves
<1>8. ASSUME NEW c \in Calls, InsertSnapshot(c) PROVE EngineSound'
  <2>0. PICK a, e, R : e = call[c].event /\ a = Worker[e] /\ R = call[c].row
    OBVIOUS
  <2>1. /\ UNCHANGED <<status, votes, settled, overlapped>>
        /\ call[c].pc = "insert" /\ e \in settled /\ e \in Subs /\ a \in Agents
        /\ snapshots' = [snapshots EXCEPT ![a] = Append(snapshots[a], R)]
        /\ call' = [call EXCEPT ![c] = Idle]
        /\ processed \subseteq processed'
             /\ processed' \subseteq processed \cup {e}
    BY <1>8, <1>s, <1>w, <2>0, Parameters
       DEF InsertSnapshot, work, AboutSettled, Subject
  <2>2. PICK S : call \in [Calls -> CallState(S)]
    BY <1>s DEF Typed
  <2>3. CallIs(c, "idle", None, FALSE, <<>>)
    <3>1. /\ Idle \in CallState({<<>>}) /\ Idle.pc = "idle"
               /\ Idle.event = None
          /\ Idle.waited = FALSE /\ Idle.row = <<>>
      BY DEF Idle, CallState
    <3> QED
      BY <2>1, <2>2, <3>1, CallRows
  <2>4. PICK T : snapshots[a] \in Seq(T)
    BY <1>s, <2>1 DEF Typed
  <2>5. /\ \E U : snapshots'[a] \in Seq(U) /\ snapshots'[a] # <<>>
        /\ Latest(a)' = R
        /\ \A b \in Agents : b # a => snapshots'[b] = snapshots[b]
        /\ DOMAIN snapshots' = Agents
    <3>1. PICK q : q = Append(snapshots[a], R)
      OBVIOUS
    <3>2. (\E U : q \in Seq(U)) /\ q # <<>> /\ Last(q) = R
      BY <2>4, <3>1, AppendIsLast
    <3>3. /\ snapshots'[a] = q
               /\ \A b \in Agents : b # a => snapshots'[b] = snapshots[b]
          /\ DOMAIN snapshots' = Agents
      BY <1>s, <2>1, <3>1 DEF Typed
    <3> QED
      BY <3>2, <3>3 DEF Latest
  <2>6. RowCounts(c)
    BY <1>s DEF RowsCount
  <2>7. R.counted \subseteq Attempts(a)
          /\ R.sampleSize = Cardinality(R.counted) /\ e \in R.counted
        /\ (a \notin overlapped => \A s \in processed : Worker[s] = a =>
             s \in R.counted)
    BY <2>0, <2>1, <2>6 DEF RowCounts
  <2>o. /\ Onward /\ \A b \in Agents \ Seeded : VoteIsEarned(b)'
        /\ \A s \in Subs, b \in Agents : votes'[s][b] # None =>
             status'[s] # "absent"
        /\ \A s \in settled' : status'[s] # "absent"
    BY <1>w, <2>1, WorldRests
  <2>8. Typed'
    BY <1>s, <1>w, <2>1, <2>3, <2>5 DEF Typed, CallIs
  <2>9. AboutSettled'
    BY <1>s, <2>1, <2>3, <2>o DEF AboutSettled, CallIs
  <2>10. OneAtATime'
    BY <1>s, <2>1, <2>3 DEF OneAtATime, CallIs
  <2>11. ASSUME NEW d \in Calls PROVE RowCounts(d)'
    <3>1. CASE d = c
      BY <2>3, <3>1 DEF RowCounts, CallIs
    <3>2. CASE d # c
      <4>1. call[d].pc = "insert"
              /\ Worker[e] = Worker[call[d].event] => Worker[e] \in overlapped
        BY <1>s, <2>0, <2>1, <3>2 DEF OneAtATime
      <4>2. \A s \in processed' : Worker[s] = Worker[call[d].event]
              /\ call[d].pc = "insert"
              => s \in processed \/ Worker[s] \in overlapped
        BY <2>0, <2>1, <4>1
      <4> QED
        BY <1>s, <2>3, <2>o, <3>2, <4>2, RowStays DEF RowsCount, CallIs
    <3> QED
      BY <3>1, <3>2
  <2>12. ASSUME NEW b \in Agents PROVE Earned(b)'
    <3>1. CASE b # a
      BY <1>s, <2>o, <2>5, <3>1, EarnedStays DEF SnapshotsAreEarned
    <3>2. CASE b = a
      <4>1. Attempts(a)' = Attempts(a)
        BY <2>1 DEF Attempts
      <4> QED
        BY <2>0, <2>1, <2>5, <2>7, <3>2, <4>1 DEF Earned
    <3> QED
      BY <3>1, <3>2
  <2>13. LatestCoversSettled'
    <3> SUFFICES ASSUME NEW s \in processed', Worker[s] \notin overlapped
                 PROVE  s \in Latest(Worker[s])'.counted
      BY <2>1 DEF LatestCoversSettled
    <3>1. CASE Worker[s] = a
      BY <2>0, <2>1, <2>5, <2>7, <3>1
    <3>2. CASE Worker[s] # a
      <4>1. s \in processed /\ Worker[s] \in Agents
        BY <1>w, <2>0, <2>1, <3>2, Parameters
      <4>2. s \in Latest(Worker[s]).counted
        BY <1>s, <4>1 DEF LatestCoversSettled
      <4>3. Latest(Worker[s])' = Latest(Worker[s])
        BY <2>5, <3>2, <4>1 DEF Latest
      <4> QED
        BY <4>2, <4>3
    <3> QED
      BY <3>1, <3>2
  <2> QED
    BY <2>o, <2>8, <2>9, <2>10, <2>11, <2>12, <2>13
       DEF EngineSound, RowsCount, SnapshotsAreEarned, VotesAreEarned
<1>9. ASSUME NEW c \in Calls, GiveUp(c) PROVE EngineSound'
  <2>0. PICK p, e, r : p = call[c].pc /\ e = call[c].event /\ r = call[c].row
    OBVIOUS
  <2>1. /\ UNCHANGED <<status, votes, settled, processed, snapshots,
             overlapped>>
        /\ call' = [call EXCEPT ![c].waited = FALSE]
    BY <1>9 DEF GiveUp, work
  <2>2. PICK S : call \in [Calls -> CallState(S)]
    BY <1>s DEF Typed
  <2> DEFINE row == [call[c] EXCEPT !.waited = FALSE]
  <2>3. /\ row \in CallState(S) /\ row.pc = call[c].pc
             /\ row.event = call[c].event
        /\ row.waited = FALSE /\ row.row = call[c].row
    BY <2>2 DEF CallState
  <2>4. call' = [call EXCEPT ![c] = row]
    BY <2>1, <2>2
  <2> HIDE DEF row
  <2>5. CallIs(c, p, e, FALSE, r)
    BY <2>0, <2>2, <2>3, <2>4, CallRows
  <2>6. Onward
    BY <1>w, <2>1 DEF Onward
  <2>7. RowCounts(c)'
    BY <1>s, <2>0, <2>1, <2>5, <2>6, RowStays DEF RowsCount, CallIs
  <2>8. \A d \in Calls : p # "idle" /\ d # c /\ call[d].pc # "idle"
          /\ Worker[call[d].event] = Worker[e] => Worker[e] \in overlapped'
    BY <1>s, <2>0, <2>1 DEF OneAtATime
  <2>9. p # "idle" => e \in settled
    BY <1>s, <2>0 DEF AboutSettled
  <2> QED
    BY <1>w, <2>1, <2>5, <2>7, <2>8, <2>9, OneCallMoves
<1>10. ASSUME NEW c \in Calls, EngineFails(c) PROVE EngineSound'
  <2>1. /\ UNCHANGED <<status, votes, settled, processed, snapshots,
             overlapped>>
        /\ call' = [call EXCEPT ![c] = Idle]
    BY <1>10 DEF EngineFails, work
  <2>2. /\ Idle \in CallState({<<>>}) /\ Idle.pc = "idle" /\ Idle.event = None
        /\ Idle.waited = FALSE /\ Idle.row = <<>>
    BY DEF Idle, CallState
  <2>3. CallIs(c, "idle", None, FALSE, <<>>)
    BY <1>s, <2>1, <2>2, CallRows DEF Typed
  <2>4. RowCounts(c)'
    BY <2>3 DEF RowCounts, CallIs
  <2> QED
    BY <1>w, <2>1, <2>3, <2>4, OneCallMoves
<1>11. CASE UNCHANGED vars
  BY <1>11, <1>a, <1>w DEF vars
<1> QED
  BY <1>1, <1>2, <1>3, <1>4, <1>5, <1>6, <1>7, <1>8, <1>9, <1>10, <1>11
     DEF Next

-----------------------------------------------------------------------------
(* The theorems.                                                            *)

(* The inductive invariant: what rows, snapshots and votes are based on.    *)
THEOREM EngineSoundAlways == Spec => []EngineSound
  BY EngineInit, EngineStep, PTL DEF Spec

(* The latest snapshot counts every submission whose event is processed,    *)
(* through repeated dispatches, calls given up and failures, unless two     *)
(* recalculations of the agent overlapped (recalculate 37-98).              *)
THEOREM LatestAlwaysCoversSettled == Spec => []LatestCoversSettled
<1>1. EngineSound => LatestCoversSettled
  BY DEF EngineSound
<1> QED
  BY <1>1, EngineSoundAlways, PTL

(* Whoever voted without an operator's snapshot had submitted enough and    *)
(* had been accepted before (audit 465-471, settleBounty 544-555).          *)
THEOREM VotersHaveAlwaysEarned == Spec => []VotersHaveEarned
<1>1. EngineSound => VotersHaveEarned
  BY DEF EngineSound, VotesAreEarned, VoteIsEarned, VotersHaveEarned
<1> QED
  BY <1>1, EngineSoundAlways, PTL

-----------------------------------------------------------------------------
(* The score.  Decay is defined by recursion; that it is what its equation  *)
(* says, and what it does, follows from a set of numbers having a least one.*)

LEMMA Smallest ==
  ASSUME NEW T, T \subseteq Nat, T # {}
  PROVE  \E x \in T : \A y \in T : x <= y
<1>1. PICK x \in T : \A y \in T : ~ (<<y, x>> \in OpToRel(<, Nat))
  BY NatLessThanWellFounded, WFMin
<1>2. \A y \in T : ~ (y < x)
  BY <1>1 DEF OpToRel
<1> QED
  BY <1>2

LEMMA ScaleIs == Scale \in Nat \ {0}
BY DEF Scale

LeavesOf(d) == (d * 9512) \div Scale

(* Its values up to n.                                                      *)
DecaysTo(n, f) ==
  /\ DOMAIN f = 0 .. n
  /\ f[0] = Scale
  /\ \A k \in 0 .. n : k # 0 => f[k] = LeavesOf(f[k - 1])

LEMMA OneDecay ==
  ASSUME NEW n \in Nat, NEW f, DecaysTo(n, f), NEW m \in Nat, NEW g,
           DecaysTo(m, g),
         NEW k \in Nat, k <= n, k <= m
  PROVE  f[k] = g[k]
<1> DEFINE Differ == {j \in Nat : j <= n /\ j <= m /\ f[j] # g[j]}
<1>1. ASSUME Differ # {} PROVE FALSE
  <2>1. PICK j \in Differ : \A i \in Differ : j <= i
    <3>1. Differ \subseteq Nat
      OBVIOUS
    <3> HIDE DEF Differ
    <3> QED
      BY <1>1, <3>1, Smallest
  <2>2. j # 0
    BY <2>1 DEF DecaysTo
  <2>3. j - 1 \in Nat /\ j - 1 <= n /\ j - 1 <= m /\ ~ (j <= j - 1)
    BY <2>1, <2>2
  <2>4. f[j - 1] = g[j - 1]
    BY <2>1, <2>3
  <2>5. j \in 0 .. n /\ j \in 0 .. m
    BY <2>1
  <2>6. f[j] = LeavesOf(f[j - 1]) /\ g[j] = LeavesOf(g[j - 1])
    BY <2>2, <2>5 DEF DecaysTo
  <2> QED
    BY <2>1, <2>4, <2>6
<1> QED
  BY <1>1

LEMMA SomeDecay ==
  ASSUME NEW n \in Nat
  PROVE  \E f : DecaysTo(n, f)
<1> DEFINE Without == {j \in Nat : ~ \E f : DecaysTo(j, f)}
<1>1. ASSUME Without # {} PROVE FALSE
  <2>1. PICK j \in Without : \A i \in Without : j <= i
    <3>1. Without \subseteq Nat
      OBVIOUS
    <3> HIDE DEF Without
    <3> QED
      BY <1>1, <3>1, Smallest
  <2>2. j # 0
    <3>1. DecaysTo(0, [k \in 0 .. 0 |-> Scale])
      BY DEF DecaysTo
    <3> QED
      BY <2>1, <3>1
  <2>3. j \in Nat /\ j - 1 \in Nat /\ ~ (j <= j - 1)
    BY <2>1, <2>2
  <2>4. PICK f : DecaysTo(j - 1, f)
    BY <2>1, <2>3
  <2> DEFINE g == [k \in 0 .. j |-> IF k = j THEN LeavesOf(f[j - 1]) ELSE f[k]]
  <2>5. g[0] = Scale
    <3>1. 0 \in 0 .. j
      BY <2>3
    <3> QED
      BY <2>2, <2>4, <3>1 DEF DecaysTo
  <2>6. ASSUME NEW k \in 0 .. j, k # 0 PROVE g[k] = LeavesOf(g[k - 1])
    <3>1. k - 1 \in 0 .. j /\ k - 1 # j
      BY <2>3, <2>6
    <3>2. g[k - 1] = f[k - 1]
      BY <3>1
    <3>3. CASE k = j
      BY <3>2, <3>3
    <3>4. CASE k # j
      <4>1. k \in 0 .. j - 1
        BY <2>3, <3>4
      <4>2. f[k] = LeavesOf(f[k - 1])
        BY <2>4, <2>6, <4>1 DEF DecaysTo
      <4>3. g[k] = f[k]
        BY <3>4
      <4> QED
        BY <3>2, <4>2, <4>3
    <3> QED
      BY <3>3, <3>4
  <2>7. DOMAIN g = 0 .. j
    OBVIOUS
  <2> HIDE DEF g
  <2>8. DecaysTo(j, g)
    BY <2>5, <2>6, <2>7 DEF DecaysTo
  <2> QED
    BY <2>1, <2>8
<1> QED
  BY <1>1

LEMMA DecayIs ==
  /\ Decay[0] = Scale
  /\ \A n \in Nat : n # 0 => Decay[n] = (Decay[n - 1] * 9512) \div Scale
<1> DEFINE Solves(u) ==
             u = [n \in Nat |-> IF n = 0 THEN Scale ELSE LeavesOf(u[n - 1])]
           Upto(n) == CHOOSE f : DecaysTo(n, f)
           F == [n \in Nat |-> Upto(n)[n]]
<1>1. \A n \in Nat : DecaysTo(n, Upto(n))
  BY SomeDecay
<1> HIDE DEF Upto
<1>2. ASSUME NEW n \in Nat
      PROVE  F[n] = IF n = 0 THEN Scale ELSE LeavesOf(F[n - 1])
  <2>1. CASE n = 0
    <3>1. Upto(0)[0] = Scale
      BY <1>1 DEF DecaysTo
    <3> QED
      BY <2>1, <3>1
  <2>2. CASE n # 0
    <3>1. n - 1 \in Nat /\ n - 1 <= n /\ n \in 0 .. n
      BY <2>2
    <3>2. Upto(n)[n] = LeavesOf(Upto(n)[n - 1])
      BY <1>1, <2>2, <3>1 DEF DecaysTo
    <3>3. Upto(n)[n - 1] = Upto(n - 1)[n - 1]
      BY <1>1, <3>1, OneDecay
    <3>4. F[n] = Upto(n)[n] /\ F[n - 1] = Upto(n - 1)[n - 1]
      BY <3>1
    <3> QED
      BY <2>2, <3>2, <3>3, <3>4
  <2> QED
    BY <2>1, <2>2
<1>3. F = [n \in Nat |-> F[n]]
  OBVIOUS
<1> HIDE DEF F
<1>4. Solves(F)
  <2>1. F = [n \in Nat |-> IF n = 0 THEN Scale ELSE LeavesOf(F[n - 1])]
    BY <1>2, <1>3
  <2> QED
    BY <2>1
<1>5. Solves(CHOOSE u : Solves(u))
  BY <1>4
<1>6. Decay = CHOOSE u : Solves(u)
  BY DEF Decay, LeavesOf
<1> HIDE DEF Solves
<1>7. Solves(Decay)
  BY <1>5, <1>6
<1> QED
  BY <1>7 DEF Solves, LeavesOf

LEMMA Leaves ==
  ASSUME NEW d \in Nat
  PROVE  (d * 9512) \div Scale \in Nat /\ (d * 9512) \div Scale <= d
BY DEF Scale

LEMMA DecayBounds ==
  ASSUME NEW n \in Nat
  PROVE  Decay[n] \in 0 .. Scale /\ Decay[n + 1] <= Decay[n]
<1> DEFINE Out == {j \in Nat : Decay[j] \notin 0 .. Scale}
<1>1. ASSUME Out # {} PROVE FALSE
  <2>1. PICK j \in Out : \A i \in Out : j <= i
    <3>1. Out \subseteq Nat
      OBVIOUS
    <3> HIDE DEF Out
    <3> QED
      BY <1>1, <3>1, Smallest
  <2>2. j # 0
    <3>1. Scale \in 0 .. Scale
      BY ScaleIs
    <3> QED
      BY <2>1, <3>1, DecayIs
  <2>3. j - 1 \in Nat /\ ~ (j <= j - 1)
    BY <2>1, <2>2
  <2>4. PICK d \in 0 .. Scale : d = Decay[j - 1]
    BY <2>1, <2>3
  <2>5. Decay[j] = (d * 9512) \div Scale
    BY <2>1, <2>2, <2>4, DecayIs
  <2>6. (d * 9512) \div Scale \in 0 .. Scale
    <3>1. d \in Nat /\ d <= Scale
      BY ScaleIs
    <3>2. (d * 9512) \div Scale \in Nat /\ (d * 9512) \div Scale <= d
      BY <3>1, Leaves
    <3> QED
      BY <3>1, <3>2, ScaleIs
  <2> QED
    BY <2>1, <2>5, <2>6
<1>2. PICK d \in 0 .. Scale : d = Decay[n]
  BY <1>1
<1>3. Decay[n + 1] = (d * 9512) \div Scale
  <2>1. n + 1 \in Nat /\ n + 1 # 0 /\ (n + 1) - 1 = n
    OBVIOUS
  <2> QED
    BY <1>2, <2>1, DecayIs
<1>4. (d * 9512) \div Scale <= d
  <2>1. d \in Nat
    BY ScaleIs
  <2> QED
    BY <2>1, Leaves
<1> QED
  BY <1>2, <1>3, <1>4

(* What division and multiplication keep.                                   *)
LEMMA AtMostScale ==
  ASSUME NEW x \in Nat, x <= Scale
  PROVE  x \in 0 .. Scale
BY ScaleIs

LEMMA Within ==
  ASSUME NEW x \in 0 .. Scale, NEW y \in 0 .. Scale
  PROVE  x \in Nat /\ x <= Scale /\ x <= x /\ (x <= y => y >= x)
BY ScaleIs

LEMMA DivIs ==
  ASSUME NEW a \in Nat, NEW b \in Nat \ {0}
  PROVE  /\ a \div b \in Nat
         /\ b * (a \div b) <= a /\ a < b * (a \div b) + b
OBVIOUS

LEMMA DivAtLeast ==
  ASSUME NEW a \in Nat, NEW b \in Nat \ {0}, NEW q \in Nat, b * q <= a
  PROVE  q <= a \div b
OBVIOUS

LEMMA DivAtMost ==
  ASSUME NEW a \in Nat, NEW b \in Nat \ {0}, NEW q \in Nat, a <= b * q
  PROVE  a \div b <= q
OBVIOUS

LEMMA DivGrows ==
  ASSUME NEW a \in Nat, NEW b \in Nat, a <= b, NEW c \in Nat \ {0}
  PROVE  a \div c <= b \div c
BY DivIs, DivAtLeast

LEMMA DivShrinks ==
  ASSUME NEW a \in Nat, NEW b \in Nat \ {0}, NEW c \in Nat \ {0}, b <= c
  PROVE  a \div c <= a \div b
<1> DEFINE q == a \div c
<1>1. q \in Nat /\ c * q <= a
  BY DivIs
<1> HIDE DEF q
<1>2. b * q <= c * q
  BY <1>1
<1> QED
  BY <1>1, <1>2, DivAtLeast DEF q

LEMMA TimesGrows ==
  ASSUME NEW a \in Nat, NEW b \in Nat, NEW c \in Nat, NEW d \in Nat, a <= b,
           c <= d
  PROVE  a * c \in Nat /\ b * d \in Nat /\ a * c <= b * d
OBVIOUS

LEMMA SmallerOfTwo ==
  ASSUME NEW a \in Nat, NEW b \in Nat
  PROVE  Min({a, b}) = IF a <= b THEN a ELSE b
BY DEF Min

(* The parts of a score are between 0 and 1, and each goes the way it       *)
(* should when a test passes.                                               *)
LEMMA Rates ==
  ASSUME NEW n \in Nat, NEW p \in 0 .. n
  PROVE  /\ (Scale * (p + 2)) \div (n + 4) \in 0 .. Scale
         /\ (Scale * (p + 2)) \div (n + 4) <= (Scale * (p + 3)) \div (n + 5)
         /\ (Scale * (p + 2)) \div (n + 5) <= (Scale * (p + 3)) \div (n + 5)
<1> DEFINE q == (Scale * (p + 2)) \div (n + 4)
<1>1. Scale * (p + 2) \in Nat /\ Scale * (p + 3) = Scale * (p + 2) + Scale
  BY ScaleIs
<1>2. q \in Nat /\ (n + 4) * q <= Scale * (p + 2)
  BY <1>1, DivIs
<1>3. q <= Scale
  <2>1. Scale * (p + 2) <= (n + 4) * Scale /\ Scale \in Nat
    BY ScaleIs
  <2> QED
    BY <1>1, <2>1, DivAtMost
<1> HIDE DEF q
<1>4. (n + 5) * q <= Scale * (p + 3) /\ Scale \in Nat
  <2>1. (n + 5) * q = (n + 4) * q + q
    BY <1>2
  <2> QED
    BY <1>1, <1>2, <1>3, <2>1, ScaleIs
<1>5. q <= (Scale * (p + 3)) \div (n + 5)
  BY <1>1, <1>2, <1>4, DivAtLeast, ScaleIs
<1>6. (Scale * (p + 2)) \div (n + 5) <= (Scale * (p + 3)) \div (n + 5)
  BY <1>1, DivGrows, ScaleIs
<1>7. q \in 0 .. Scale
  BY <1>2, <1>3, AtMostScale
<1> QED
  BY <1>5, <1>6, <1>7 DEF q

LEMMA Hallucinations ==
  ASSUME NEW n \in Nat, NEW k \in 0 .. n
  PROVE  /\ (Scale * (k + 1)) \div (n + 10) \in 0 .. Scale
         /\ (Scale * (k + 1)) \div (n + 11) <= (Scale * (k + 1)) \div (n + 10)
         /\ (Scale * (k + 1)) \div (n + 11) <= (Scale * (k + 2)) \div (n + 11)
<1>1. /\ Scale * (k + 1) \in Nat /\ Scale * (k + 2) \in Nat
      /\ Scale * (k + 1) <= Scale * (k + 2)
      /\ Scale * (k + 1) <= (n + 10) * Scale
  BY ScaleIs
<1>2. (Scale * (k + 1)) \div (n + 10) \in Nat
  BY <1>1, DivIs
<1>3. (Scale * (k + 1)) \div (n + 10) <= Scale
  BY <1>1, DivAtMost, ScaleIs
<1>4. (Scale * (k + 1)) \div (n + 11) <= (Scale * (k + 1)) \div (n + 10)
  BY <1>1, DivShrinks
<1>5. (Scale * (k + 1)) \div (n + 11) <= (Scale * (k + 2)) \div (n + 11)
  BY <1>1, DivGrows
<1>6. (Scale * (k + 1)) \div (n + 10) \in 0 .. Scale
  BY <1>2, <1>3, AtMostScale
<1> QED
  BY <1>4, <1>5, <1>6

LEMMA SpeedBounds ==
  ASSUME NEW m \in Nat, NEW f, f.median = m
  PROVE  Speed(f) \in 0 .. Scale
<1>1. CASE m = 0
  BY <1>1, ScaleIs DEF Speed
<1>2. CASE m # 0
  <2>1. Scale * TargetMs \in Nat
    BY ReputationAssumption, ScaleIs
  <2>2. PICK q \in Nat : q = (Scale * TargetMs) \div m
    BY <1>2, <2>1, DivIs
  <2>3. Speed(f) = Min({Scale, q})
    BY <1>2, <2>2 DEF Speed
  <2>4. Scale \in Nat
    BY ScaleIs
  <2>5. Min({Scale, q}) = IF Scale <= q THEN Scale ELSE q
    BY <2>4, SmallerOfTwo
  <2> QED
    BY <2>3, <2>4, <2>5
<1> QED
  BY <1>1, <1>2

Trust(n) == 6000 + (4 * (Scale - Decay[n])) \div 10

LEMMA TrustOf ==
  ASSUME NEW d \in Nat, NEW e \in Nat, e <= d, d <= Scale
  PROVE  /\ 6000 + (4 * (Scale - d)) \div 10 \in 0 .. Scale
         /\ 6000 + (4 * (Scale - d)) \div 10 <= 6000 + (4 * (Scale - e)) \div 10
<1>1. /\ 4 * (Scale - d) \in Nat /\ 4 * (Scale - e) \in Nat
      /\ 4 * (Scale - d) <= 4 * (Scale - e) /\ 4 * (Scale - d) <= 10 * 4000
  BY DEF Scale
<1>2. PICK x \in Nat, y \in Nat : x = 4 * (Scale - d) /\ y = 4 * (Scale - e)
  BY <1>1
<1>3. x <= y /\ x <= 10 * 4000
  BY <1>1, <1>2
<1>4. x \div 10 \in Nat /\ x \div 10 <= y \div 10 /\ x \div 10 <= 4000
  BY <1>3, DivIs, DivGrows, DivAtMost
<1>5. y \div 10 \in Nat
  BY DivIs
<1>6. PICK t \in Nat : t = 6000 + x \div 10 /\ t <= 6000 + y \div 10
  BY <1>4, <1>5
<1>7. t <= Scale
  BY <1>4, <1>6 DEF Scale
<1>8. t \in 0 .. Scale
  BY <1>7, AtMostScale
<1> QED
  BY <1>2, <1>6, <1>8

LEMMA TrustGrows ==
  ASSUME NEW n \in Nat
  PROVE  Trust(n) \in 0 .. Scale /\ Trust(n) <= Trust(n + 1)
<1>0. n + 1 \in Nat
  OBVIOUS
<1>1. /\ Decay[n] \in 0 .. Scale /\ Decay[n + 1] \in 0 .. Scale
      /\ Decay[n + 1] <= Decay[n]
  BY <1>0, DecayBounds
<1>2. Decay[n] \in Nat /\ Decay[n] <= Scale /\ Decay[n + 1] \in Nat
  BY <1>1, Within
<1> QED
  BY <1>1, <1>2, TrustOf DEF Trust

(* The score of four rates.                                                 *)
Weighing(a, b, h, g) == (55 * a + 20 * b + 15 * (Scale - h) + 10 * g) \div 100

LEMMA WeighingBounds ==
  ASSUME NEW a \in 0 .. Scale, NEW b \in 0 .. Scale, NEW h \in 0 .. Scale,
         NEW g \in 0 .. Scale
  PROVE  Weighing(a, b, h, g) \in 0 .. Scale
BY ScaleIs DEF Weighing

LEMMA WeighingGrows ==
  ASSUME NEW a \in 0 .. Scale, NEW b \in 0 .. Scale, NEW h \in 0 .. Scale,
         NEW g \in 0 .. Scale, NEW c \in 0 .. Scale, NEW k \in 0 .. Scale,
         a <= c, k <= h
  PROVE  Weighing(a, b, h, g) <= Weighing(c, b, k, g)
BY ScaleIs DEF Weighing

LEMMA TrustedGrows ==
  ASSUME NEW v \in 0 .. Scale, NEW w \in 0 .. Scale, NEW c \in 0 .. Scale,
         NEW d \in 0 .. Scale, v <= w, c <= d
  PROVE  /\ (v * c) \div Scale \in 0 .. Scale
         /\ (v * c) \div Scale <= (w * d) \div Scale
<1>0. /\ v \in Nat /\ w \in Nat /\ c \in Nat /\ d \in Nat
      /\ v <= Scale /\ c <= Scale
  BY ScaleIs
<1>1. Scale \in Nat \ {0}
  BY ScaleIs
<1>2. v * c \in Nat /\ w * d \in Nat /\ v * c <= w * d
  BY <1>0, TimesGrows
<1>3. v * c <= Scale * Scale
  BY <1>0, <1>1, TimesGrows
<1>4. (v * c) \div Scale \in Nat /\ (v * c) \div Scale <= Scale
  BY <1>2, <1>3, <1>1, DivIs, DivAtMost
<1>5. (v * c) \div Scale <= (w * d) \div Scale
  BY <1>2, <1>1, DivGrows
<1>6. (v * c) \div Scale \in 0 .. Scale
  BY <1>4, AtMostScale
<1> QED
  BY <1>5, <1>6

(* The score of a history, taken apart.                                     *)
LEMMA ScoreOf ==
  ASSUME NEW n \in Nat, NEW p \in 0 .. n, NEW m \in Nat, NEW g
  PROVE  LET f == History(n, p, m, g)
         IN  Score(f) = (Weighing((Scale * (p + 2)) \div (n + 4), Speed(f),
                                  (Scale * ((n - p) + 1)) \div (n + 10), g)
                           * Trust(n)) \div Scale
<1> DEFINE f == History(n, p, m, g)
<1>1. /\ f.attempts = n /\ f.successes = p /\ f.passed = p /\ f.failed = n - p
      /\ f.agreement = g
  BY DEF History
<1>2. (n - p) + p + 10 = n + 10
  OBVIOUS
<1> HIDE DEF f
<1>3. SuccessRate(f) = (Scale * (p + 2)) \div (n + 4)
  BY <1>1 DEF SuccessRate
<1>4. Hallucination(f) = (Scale * ((n - p) + 1)) \div (n + 10)
  BY <1>1, <1>2 DEF Hallucination
<1>5. Confidence(f) = Trust(n)
  BY <1>1 DEF Confidence, Trust
<1> QED
  BY <1>1, <1>3, <1>4, <1>5 DEF Score, Weighted, Weighing, f

(* While attempts are few, a failure costs more than the confidence that    *)
(* it adds.                                                                 *)
LEMMA EarlyTrust ==
  /\ Trust(0) = 6000
  /\ Trust(1) = 6195
  /\ Trust(2) = 6381
  /\ Trust(3) = 6558
  /\ Trust(4) = 6726
  /\ Trust(5) = 6886
  /\ Trust(6) = 7038
  /\ Trust(7) = 7182
  /\ Trust(8) = 7320
  /\ Trust(9) = 7451
  /\ Trust(10) = 7575
  /\ Trust(11) = 7694
  /\ Trust(12) = 7806
  /\ Trust(13) = 7914
  /\ Trust(14) = 8016
  /\ Trust(15) = 8113
  /\ Trust(16) = 8205
<1>1. Decay[0] = 10000
  BY DecayIs DEF Scale
<1>2. Decay[1] = 9512
  BY <1>1, DecayIs DEF Scale
<1>3. Decay[2] = 9047
  BY <1>2, DecayIs DEF Scale
<1>4. Decay[3] = 8605
  BY <1>3, DecayIs DEF Scale
<1>5. Decay[4] = 8185
  BY <1>4, DecayIs DEF Scale
<1>6. Decay[5] = 7785
  BY <1>5, DecayIs DEF Scale
<1>7. Decay[6] = 7405
  BY <1>6, DecayIs DEF Scale
<1>8. Decay[7] = 7043
  BY <1>7, DecayIs DEF Scale
<1>9. Decay[8] = 6699
  BY <1>8, DecayIs DEF Scale
<1>10. Decay[9] = 6372
  BY <1>9, DecayIs DEF Scale
<1>11. Decay[10] = 6061
  BY <1>10, DecayIs DEF Scale
<1>12. Decay[11] = 5765
  BY <1>11, DecayIs DEF Scale
<1>13. Decay[12] = 5483
  BY <1>12, DecayIs DEF Scale
<1>14. Decay[13] = 5215
  BY <1>13, DecayIs DEF Scale
<1>15. Decay[14] = 4960
  BY <1>14, DecayIs DEF Scale
<1>16. Decay[15] = 4717
  BY <1>15, DecayIs DEF Scale
<1>17. Decay[16] = 4486
  BY <1>16, DecayIs DEF Scale
<1> QED
  BY <1>1, <1>2, <1>3, <1>4, <1>5, <1>6, <1>7, <1>8, <1>9, <1>10, <1>11,
         <1>12, <1>13, <1>14, <1>15, <1>16, <1>17 DEF Trust, Scale

LEMMA FailingCosts ==
  ASSUME NEW n \in 0 .. Early, NEW p \in 0 .. n,
         NEW b \in Nat, b <= Scale, NEW g \in Nat, g <= Scale
  PROVE  LET v(k) == Weighing((Scale * (p + 2)) \div (k + 4), b,
                              (Scale * ((k - p) + 1)) \div (k + 10), g)
         IN  (v(n + 1) * Trust(n + 1)) \div Scale <= (v(n) * Trust(n)) \div Scale
<1>0. CASE n = 0
  BY <1>0, EarlyTrust, SMTT(60) DEF Weighing, Scale
<1>1. CASE n = 1
  BY <1>1, EarlyTrust, SMTT(60) DEF Weighing, Scale
<1>2. CASE n = 2
  BY <1>2, EarlyTrust, SMTT(60) DEF Weighing, Scale
<1>3. CASE n = 3
  BY <1>3, EarlyTrust, SMTT(60) DEF Weighing, Scale
<1>4. CASE n = 4
  BY <1>4, EarlyTrust, SMTT(60) DEF Weighing, Scale
<1>5. CASE n = 5
  BY <1>5, EarlyTrust, SMTT(60) DEF Weighing, Scale
<1>6. CASE n = 6
  BY <1>6, EarlyTrust, SMTT(60) DEF Weighing, Scale
<1>7. CASE n = 7
  BY <1>7, EarlyTrust, SMTT(60) DEF Weighing, Scale
<1>8. CASE n = 8
  BY <1>8, EarlyTrust, SMTT(60) DEF Weighing, Scale
<1>9. CASE n = 9
  BY <1>9, EarlyTrust, SMTT(60) DEF Weighing, Scale
<1>10. CASE n = 10
  BY <1>10, EarlyTrust, SMTT(60) DEF Weighing, Scale
<1>11. CASE n = 11
  BY <1>11, EarlyTrust, SMTT(60) DEF Weighing, Scale
<1>12. CASE n = 12
  BY <1>12, EarlyTrust, SMTT(60) DEF Weighing, Scale
<1>13. CASE n = 13
  BY <1>13, EarlyTrust, SMTT(60) DEF Weighing, Scale
<1>14. CASE n = 14
  BY <1>14, EarlyTrust, SMTT(60) DEF Weighing, Scale
<1>15. CASE n = 15
  BY <1>15, EarlyTrust, SMTT(60) DEF Weighing, Scale
<1> QED
  BY <1>0, <1>1, <1>2, <1>3, <1>4, <1>5, <1>6, <1>7, <1>8, <1>9, <1>10, <1>11,
         <1>12, <1>13, <1>14, <1>15 DEF Early

(* Whatever an agent's history, however long its runs took and whatever     *)
(* auditors made of it, its score lies between 0 and 100 points, one more   *)
(* passed test does not lower it and earns no less than a failed one, and   *)
(* early on a failed one does not raise it (calculateReliability).          *)
THEOREM EveryHistoryIsFair ==
  ASSUME NEW n \in Nat, NEW p \in 0 .. n, NEW m \in Nat, NEW g \in 0 .. Scale
  PROVE  FairTo(History(n, p, m, g))
<1> DEFINE f == History(n, p, m, g)
           rate(q, k) == (Scale * (q + 2)) \div (k + 4)
           fails(j, k) == (Scale * (j + 1)) \div (k + 10)
           v(q, k) == Weighing(rate(q, k), Speed(f), fails(k - q, k), g)
           score(q, k) == (v(q, k) * Trust(k)) \div Scale
<1>1. /\ After(f, 1) = History(n + 1, p + 1, m, g)
      /\ After(f, 0) = History(n + 1, p, m, g)
      /\ f.attempts = n
  BY DEF After, History
<1>2. \A h : h.median = m => Speed(h) = Speed(f)
  BY DEF Speed, History
<1>3. /\ Score(f) = score(p, n)
      /\ Score(After(f, 1)) = score(p + 1, n + 1)
      /\ Score(After(f, 0)) = score(p, n + 1)
  <2>1. Speed(History(n + 1, p + 1, m, g)) = Speed(f)
    BY <1>2 DEF History
  <2>2. Speed(History(n + 1, p, m, g)) = Speed(f)
    BY <1>2 DEF History
  <2>3. n + 1 \in Nat /\ p + 1 \in 0 .. n + 1 /\ p \in 0 .. n + 1
    OBVIOUS
  <2> QED
    BY <1>1, <2>1, <2>2, <2>3, ScoreOf
<1>4. /\ rate(p, n) \in 0 .. Scale /\ rate(p + 1, n + 1) \in 0 .. Scale
      /\ rate(p, n + 1) \in 0 .. Scale
      /\ rate(p, n) <= rate(p + 1, n + 1)
      /\ rate(p, n + 1) <= rate(p + 1, n + 1)
  <2>1. p + 1 \in 0 .. n + 1 /\ p \in 0 .. n + 1 /\ n + 1 \in Nat
    OBVIOUS
  <2>2. (p + 1) + 2 = p + 3 /\ (n + 1) + 4 = n + 5
    OBVIOUS
  <2> QED
    BY <2>1, <2>2, Rates
<1>5. /\ fails(n - p, n) \in 0 .. Scale
      /\ fails((n + 1) - (p + 1), n + 1) \in 0 .. Scale
      /\ fails((n + 1) - p, n + 1) \in 0 .. Scale
      /\ fails((n + 1) - (p + 1), n + 1) <= fails(n - p, n)
      /\ fails((n + 1) - (p + 1), n + 1) <= fails((n + 1) - p, n + 1)
  <2>1. /\ n - p \in 0 .. n /\ n - p \in 0 .. n + 1
             /\ (n + 1) - p \in 0 .. n + 1
        /\ (n + 1) - (p + 1) = n - p /\ n + 1 \in Nat
    OBVIOUS
  <2>2. ((n + 1) - p) + 1 = (n - p) + 2 /\ (n + 1) + 10 = n + 11
    OBVIOUS
  <2> QED
    BY <2>1, <2>2, Hallucinations
<1>6. Speed(f) \in 0 .. Scale
  BY SpeedBounds DEF History
<1>7. ASSUME n <= Early PROVE score(p, n + 1) <= score(p, n)
  <2>1. /\ Speed(f) \in Nat /\ Speed(f) <= Scale
        /\ g \in Nat /\ g <= Scale
    BY <1>6, Within
  <2>2. n \in 0 .. Early
    BY <1>7 DEF Early
  <2> HIDE DEF f
  <2> QED
    BY <2>1, <2>2, FailingCosts
<1> HIDE DEF f, rate, fails
<1>8. /\ v(p, n) \in 0 .. Scale /\ v(p + 1, n + 1) \in 0 .. Scale
      /\ v(p, n + 1) \in 0 .. Scale
      /\ v(p, n) <= v(p + 1, n + 1) /\ v(p, n + 1) <= v(p + 1, n + 1)
  BY <1>4, <1>5, <1>6, WeighingBounds, WeighingGrows
<1>9. /\ Trust(n) \in 0 .. Scale /\ Trust(n + 1) \in 0 .. Scale
      /\ Trust(n) <= Trust(n + 1) /\ Trust(n + 1) <= Trust(n + 1)
  <2>1. n + 1 \in Nat
    OBVIOUS
  <2>2. /\ Trust(n) \in 0 .. Scale /\ Trust(n + 1) \in 0 .. Scale
        /\ Trust(n) <= Trust(n + 1)
    BY <2>1, TrustGrows
  <2> QED
    BY <2>2, Within
<1> HIDE DEF v
<1>10. /\ score(p, n) \in 0 .. Scale
       /\ score(p, n) <= score(p + 1, n + 1)
       /\ score(p, n + 1) <= score(p + 1, n + 1)
  BY <1>8, <1>9, TrustedGrows
<1>11. score(p + 1, n + 1) \in 0 .. Scale /\ score(p, n + 1) \in 0 .. Scale
  <2>1. v(p + 1, n + 1) <= v(p + 1, n + 1)
    BY <1>8, Within
  <2> QED
    BY <1>8, <1>9, <2>1, TrustedGrows
<1>12. /\ score(p + 1, n + 1) >= score(p, n)
       /\ score(p + 1, n + 1) >= score(p, n + 1)
  BY <1>10, <1>11, Within
<1> HIDE DEF score
<1> QED
  BY <1>1, <1>3, <1>7, <1>10, <1>12 DEF FairTo, f

LEMMA NoneIsUnfair == Unfair = {}
<1>1. ASSUME NEW f \in Histories PROVE FairTo(f)
  <2>1. PICK n \in 0 .. MaxHistory :
               f \in {History(n, p, m, g) : p \in 0 .. n, m \in Medians,
                                            g \in {0, Scale \div 2, Scale}}
    BY DEF Histories
  <2>2. PICK p \in 0 .. n, m \in Medians, g \in {0, Scale \div 2, Scale} :
               f = History(n, p, m, g)
    BY <2>1
  <2>3. n \in Nat /\ m \in Nat /\ g \in 0 .. Scale
    BY ReputationAssumption, ScaleIs
  <2> QED
    BY <2>2, <2>3, EveryHistoryIsFair
<1> QED
  BY <1>1 DEF Unfair

(* So no history that lies ahead of an agent makes its work count against   *)
(* it, up to any number of attempts (calculateReliability).                 *)
THEOREM ScoreAlwaysRewardsWork == Spec => []ScoreRewardsWork
<1>1. ScoreRewardsWork
  BY NoneIsUnfair DEF ScoreRewardsWork
<1> QED
  BY <1>1, PTL
=============================================================================
