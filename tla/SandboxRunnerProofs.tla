------------------------- MODULE SandboxRunnerProofs -------------------------
(***************************************************************************)
(* Theorems about SandboxRunner, for every number of executions, of failed *)
(* Docker calls and of crashes.                                            *)
(***************************************************************************)
EXTENDS SandboxRunner, TLAPS

USE RunnerAssumption

-----------------------------------------------------------------------------
(* The inductive invariant.                                                 *)

Ways == {"zero", "nonzero", "killed"}
Statuses == {"passed", "failed", "timeout", "internal_error", "refused"}

Typed ==
  /\ pc \in [Executions -> Awaiting \cup {"idle", "done", "dead"}]
  /\ timedOut \subseteq Executions
  /\ answer \in [Executions -> Statuses \cup {None}]
  /\ container \in [Executions -> Alive \cup {"none", "removed"}]
  /\ exit \in [Executions -> Ways \cup {None}]
  /\ failing \subseteq Executions
  /\ failed \subseteq Executions \X Calls

(* Which container the calls of execute find: the one they made, running    *)
(* once it was started, at its end unless the timer won.                    *)
FindsItsContainer ==
  \A e \in Executions :
    /\ pc[e] \in {"idle", "create"} => container[e] = "none"
    /\ pc[e] \in {"archive", "attach", "start"} => container[e] = "created"
    /\ pc[e] \in {"stats", "race", "kill", "reap"} => container[e] \in {"running", "exited"}
    /\ pc[e] \in {"kill", "reap"} => e \in timedOut
    /\ pc[e] \in {"drain", "inspect"} =>
         \/ container[e] = "exited"
         \/ container[e] = "running" /\ e \in timedOut

(* How a program ended is known from its end on, and only a program whose   *)
(* time was up was killed.                                                  *)
EndsOnce ==
  \A e \in Executions :
    /\ container[e] \in {"none", "created", "running"} => exit[e] = None
    /\ container[e] = "exited" => exit[e] # None
    /\ exit[e] = "killed" => e \in timedOut

(* Nothing is answered before the catch block or the inspection; what came  *)
(* after a timeout is not judged; what was judged has ended.                *)
AnswersOnce ==
  \A e \in Executions :
    /\ pc[e] \in {"remove", "done"} => answer[e] # None
    /\ pc[e] \notin {"remove", "done", "dead"} => answer[e] = None
    /\ e \in timedOut =>
         /\ pc[e] \in {"kill", "reap", "drain", "inspect", "remove", "done", "dead"}
         /\ answer[e] \in {None, "timeout", "internal_error"}
    /\ answer[e] \in {"passed", "failed"} => container[e] \in {"exited", "removed"}

Sound ==
  /\ Typed
  /\ FindsItsContainer
  /\ EndsOnce
  /\ AnswersOnce
  /\ VerdictIsThePrograms
  /\ CleanedUp

-----------------------------------------------------------------------------
(* Each part is preserved by each step.                                     *)

LEMMA TypedStep == Sound /\ [Next]_vars => Typed'
<1> SUFFICES ASSUME Sound, [Next]_vars PROVE Typed'
  OBVIOUS
<1> USE DEF Sound, Typed, Awaiting, Calls, Alive, Ways, Statuses
<1>1. ASSUME NEW e \in Executions, Request(e) PROVE Typed'
  BY <1>1 DEF Request, Goto, program
<1>2. ASSUME NEW e \in Executions, Create(e) PROVE Typed'
  BY <1>2 DEF Create, Goto, program
<1>3. ASSUME NEW e \in Executions, PutArchive(e) PROVE Typed'
  BY <1>3 DEF PutArchive, Goto, program
<1>4. ASSUME NEW e \in Executions, Attach(e) PROVE Typed'
  BY <1>4 DEF Attach, Goto, program
<1>5. ASSUME NEW e \in Executions, Start(e) PROVE Typed'
  BY <1>5 DEF Start, Goto, program
<1>6. ASSUME NEW e \in Executions, Stats(e) PROVE Typed'
  BY <1>6 DEF Stats, Goto, program
<1>7. ASSUME NEW e \in Executions, WaitReturns(e) PROVE Typed'
  BY <1>7 DEF WaitReturns, Goto, program
<1>8. ASSUME NEW e \in Executions, Timeout(e) PROVE Typed'
  BY <1>8 DEF Timeout, Goto, TimerFires, program
<1>9. ASSUME NEW e \in Executions, Kill(e) PROVE Typed'
  BY <1>9 DEF Kill, Goto, program
<1>10. ASSUME NEW e \in Executions, Reap(e) PROVE Typed'
  BY <1>10 DEF Reap, Goto, program
<1>11. ASSUME NEW e \in Executions, Drain(e) PROVE Typed'
  BY <1>11 DEF Drain, Goto, program
<1>12. ASSUME NEW e \in Executions, Inspect(e) PROVE Typed'
  BY <1>12 DEF Inspect, Goto, Reply, Status, ExitCode, program
<1>13. ASSUME NEW e \in Executions, Remove(e) PROVE Typed'
  BY <1>13 DEF Remove, Goto, program
<1>14. ASSUME NEW e \in Executions, CreateFails(e) PROVE Typed'
  BY <1>14 DEF CreateFails, Goto, Fail, Reply, program
<1>15. ASSUME NEW e \in Executions, CallFails(e) PROVE Typed'
  BY <1>15 DEF CallFails, Goto, Fail, Reply, Caught, AfterError, program
<1>16. ASSUME NEW e \in Executions, FailureIgnored(e) PROVE Typed'
  BY <1>16 DEF FailureIgnored, Goto, Fail, program
<1>17. ASSUME Crash PROVE Typed'
  BY <1>17 DEF Crash, program
<1>18. ASSUME NEW e \in Executions, NEW code \in {"zero", "nonzero"},
     NEW reports \in BOOLEAN, ProgramExits(e, code, reports) PROVE Typed'
  BY <1>18 DEF ProgramExits, program
<1>19. ASSUME NEW e \in Executions, OutputArrives(e) PROVE Typed'
  BY <1>19 DEF OutputArrives, program
<1>20. CASE UNCHANGED vars
  BY <1>20 DEF vars
<1> QED
  BY <1>1, <1>2, <1>3, <1>4, <1>5, <1>6, <1>7, <1>8, <1>9, <1>10, <1>11,
     <1>12, <1>13, <1>14, <1>15, <1>16, <1>17, <1>18, <1>19, <1>20 DEF Next, Run

LEMMA ContainerStep == Sound /\ [Next]_vars => FindsItsContainer'
<1> SUFFICES ASSUME Sound, [Next]_vars PROVE FindsItsContainer'
  OBVIOUS
<1> USE DEF Sound, Typed, FindsItsContainer, AnswersOnce, Awaiting, Calls
<1>1. ASSUME NEW e \in Executions, Request(e) PROVE FindsItsContainer'
  BY <1>1 DEF Request, Goto, program
<1>2. ASSUME NEW e \in Executions, Create(e) PROVE FindsItsContainer'
  BY <1>2 DEF Create, Goto, program
<1>3. ASSUME NEW e \in Executions, PutArchive(e) PROVE FindsItsContainer'
  BY <1>3 DEF PutArchive, Goto, program
<1>4. ASSUME NEW e \in Executions, Attach(e) PROVE FindsItsContainer'
  BY <1>4 DEF Attach, Goto, program
<1>5. ASSUME NEW e \in Executions, Start(e) PROVE FindsItsContainer'
  BY <1>5 DEF Start, Goto, program
<1>6. ASSUME NEW e \in Executions, Stats(e) PROVE FindsItsContainer'
  BY <1>6 DEF Stats, Goto, program
<1>7. ASSUME NEW e \in Executions, WaitReturns(e) PROVE FindsItsContainer'
  BY <1>7 DEF WaitReturns, Goto, program
<1>8. ASSUME NEW e \in Executions, Timeout(e) PROVE FindsItsContainer'
  BY <1>8 DEF Timeout, Goto, TimerFires, program
<1>9. ASSUME NEW e \in Executions, Kill(e) PROVE FindsItsContainer'
  BY <1>9 DEF Kill, Goto, program
<1>10. ASSUME NEW e \in Executions, Reap(e) PROVE FindsItsContainer'
  BY <1>10 DEF Reap, Goto, program
<1>11. ASSUME NEW e \in Executions, Drain(e) PROVE FindsItsContainer'
  BY <1>11 DEF Drain, Goto, program
<1>12. ASSUME NEW e \in Executions, Inspect(e) PROVE FindsItsContainer'
  BY <1>12 DEF Inspect, Goto, Reply, Status, ExitCode, program
<1>13. ASSUME NEW e \in Executions, Remove(e) PROVE FindsItsContainer'
  BY <1>13 DEF Remove, Goto, program
<1>14. ASSUME NEW e \in Executions, CreateFails(e) PROVE FindsItsContainer'
  BY <1>14 DEF CreateFails, Goto, Fail, Reply, program
<1>15. ASSUME NEW e \in Executions, CallFails(e) PROVE FindsItsContainer'
  BY <1>15 DEF CallFails, Goto, Fail, Reply, Caught, AfterError, program
<1>16. ASSUME NEW e \in Executions, FailureIgnored(e) PROVE FindsItsContainer'
  BY <1>16 DEF FailureIgnored, Goto, Fail, program
<1>17. ASSUME Crash PROVE FindsItsContainer'
  BY <1>17 DEF Crash, program
<1>18. ASSUME NEW e \in Executions, NEW code \in {"zero", "nonzero"},
     NEW reports \in BOOLEAN, ProgramExits(e, code, reports) PROVE FindsItsContainer'
  BY <1>18 DEF ProgramExits, program
<1>19. ASSUME NEW e \in Executions, OutputArrives(e) PROVE FindsItsContainer'
  BY <1>19 DEF OutputArrives, program
<1>20. CASE UNCHANGED vars
  BY <1>20 DEF vars
<1> QED
  BY <1>1, <1>2, <1>3, <1>4, <1>5, <1>6, <1>7, <1>8, <1>9, <1>10, <1>11,
     <1>12, <1>13, <1>14, <1>15, <1>16, <1>17, <1>18, <1>19, <1>20 DEF Next, Run

LEMMA EndsStep == Sound /\ [Next]_vars => EndsOnce'
<1> SUFFICES ASSUME Sound, [Next]_vars PROVE EndsOnce'
  OBVIOUS
<1> USE DEF Sound, Typed, FindsItsContainer, EndsOnce, AnswersOnce, Alive, Ways
<1>1. ASSUME NEW e \in Executions, Request(e) PROVE EndsOnce'
  BY <1>1 DEF Request, Goto, program
<1>2. ASSUME NEW e \in Executions, Create(e) PROVE EndsOnce'
  BY <1>2 DEF Create, Goto, program
<1>3. ASSUME NEW e \in Executions, PutArchive(e) PROVE EndsOnce'
  BY <1>3 DEF PutArchive, Goto, program
<1>4. ASSUME NEW e \in Executions, Attach(e) PROVE EndsOnce'
  BY <1>4 DEF Attach, Goto, program
<1>5. ASSUME NEW e \in Executions, Start(e) PROVE EndsOnce'
  BY <1>5 DEF Start, Goto, program
<1>6. ASSUME NEW e \in Executions, Stats(e) PROVE EndsOnce'
  BY <1>6 DEF Stats, Goto, program
<1>7. ASSUME NEW e \in Executions, WaitReturns(e) PROVE EndsOnce'
  BY <1>7 DEF WaitReturns, Goto, program
<1>8. ASSUME NEW e \in Executions, Timeout(e) PROVE EndsOnce'
  BY <1>8 DEF Timeout, Goto, TimerFires, program
<1>9. ASSUME NEW e \in Executions, Kill(e) PROVE EndsOnce'
  BY <1>9 DEF Kill, Goto, program
<1>10. ASSUME NEW e \in Executions, Reap(e) PROVE EndsOnce'
  BY <1>10 DEF Reap, Goto, program
<1>11. ASSUME NEW e \in Executions, Drain(e) PROVE EndsOnce'
  BY <1>11 DEF Drain, Goto, program
<1>12. ASSUME NEW e \in Executions, Inspect(e) PROVE EndsOnce'
  BY <1>12 DEF Inspect, Goto, Reply, Status, ExitCode, program
<1>13. ASSUME NEW e \in Executions, Remove(e) PROVE EndsOnce'
  BY <1>13 DEF Remove, Goto, program
<1>14. ASSUME NEW e \in Executions, CreateFails(e) PROVE EndsOnce'
  BY <1>14 DEF CreateFails, Goto, Fail, Reply, program
<1>15. ASSUME NEW e \in Executions, CallFails(e) PROVE EndsOnce'
  BY <1>15 DEF CallFails, Goto, Fail, Reply, Caught, AfterError, program
<1>16. ASSUME NEW e \in Executions, FailureIgnored(e) PROVE EndsOnce'
  BY <1>16 DEF FailureIgnored, Goto, Fail, program
<1>17. ASSUME Crash PROVE EndsOnce'
  BY <1>17 DEF Crash, program
<1>18. ASSUME NEW e \in Executions, NEW code \in {"zero", "nonzero"},
     NEW reports \in BOOLEAN, ProgramExits(e, code, reports) PROVE EndsOnce'
  BY <1>18 DEF ProgramExits, program
<1>19. ASSUME NEW e \in Executions, OutputArrives(e) PROVE EndsOnce'
  BY <1>19 DEF OutputArrives, program
<1>20. CASE UNCHANGED vars
  BY <1>20 DEF vars
<1> QED
  BY <1>1, <1>2, <1>3, <1>4, <1>5, <1>6, <1>7, <1>8, <1>9, <1>10, <1>11,
     <1>12, <1>13, <1>14, <1>15, <1>16, <1>17, <1>18, <1>19, <1>20 DEF Next, Run

LEMMA AnswersStep == Sound /\ [Next]_vars => AnswersOnce'
<1> SUFFICES ASSUME Sound, [Next]_vars PROVE AnswersOnce'
  OBVIOUS
<1> USE DEF Sound, Typed, FindsItsContainer, EndsOnce, AnswersOnce, Awaiting, Calls
<1>1. ASSUME NEW e \in Executions, Request(e) PROVE AnswersOnce'
  BY <1>1 DEF Request, Goto, program
<1>2. ASSUME NEW e \in Executions, Create(e) PROVE AnswersOnce'
  BY <1>2 DEF Create, Goto, program
<1>3. ASSUME NEW e \in Executions, PutArchive(e) PROVE AnswersOnce'
  BY <1>3 DEF PutArchive, Goto, program
<1>4. ASSUME NEW e \in Executions, Attach(e) PROVE AnswersOnce'
  BY <1>4 DEF Attach, Goto, program
<1>5. ASSUME NEW e \in Executions, Start(e) PROVE AnswersOnce'
  BY <1>5 DEF Start, Goto, program
<1>6. ASSUME NEW e \in Executions, Stats(e) PROVE AnswersOnce'
  BY <1>6 DEF Stats, Goto, program
<1>7. ASSUME NEW e \in Executions, WaitReturns(e) PROVE AnswersOnce'
  BY <1>7 DEF WaitReturns, Goto, program
<1>8. ASSUME NEW e \in Executions, Timeout(e) PROVE AnswersOnce'
  BY <1>8 DEF Timeout, Goto, TimerFires, program
<1>9. ASSUME NEW e \in Executions, Kill(e) PROVE AnswersOnce'
  BY <1>9 DEF Kill, Goto, program
<1>10. ASSUME NEW e \in Executions, Reap(e) PROVE AnswersOnce'
  BY <1>10 DEF Reap, Goto, program
<1>11. ASSUME NEW e \in Executions, Drain(e) PROVE AnswersOnce'
  BY <1>11 DEF Drain, Goto, program
<1>12. ASSUME NEW e \in Executions, Inspect(e) PROVE AnswersOnce'
  BY <1>12 DEF Inspect, Goto, Reply, Status, ExitCode, program
<1>13. ASSUME NEW e \in Executions, Remove(e) PROVE AnswersOnce'
  BY <1>13 DEF Remove, Goto, program
<1>14. ASSUME NEW e \in Executions, CreateFails(e) PROVE AnswersOnce'
  BY <1>14 DEF CreateFails, Goto, Fail, Reply, program
<1>15. ASSUME NEW e \in Executions, CallFails(e) PROVE AnswersOnce'
  BY <1>15 DEF CallFails, Goto, Fail, Reply, Caught, AfterError, program
<1>16. ASSUME NEW e \in Executions, FailureIgnored(e) PROVE AnswersOnce'
  BY <1>16 DEF FailureIgnored, Goto, Fail, program
<1>17. ASSUME Crash PROVE AnswersOnce'
  BY <1>17 DEF Crash, program
<1>18. ASSUME NEW e \in Executions, NEW code \in {"zero", "nonzero"},
     NEW reports \in BOOLEAN, ProgramExits(e, code, reports) PROVE AnswersOnce'
  BY <1>18 DEF ProgramExits, program
<1>19. ASSUME NEW e \in Executions, OutputArrives(e) PROVE AnswersOnce'
  BY <1>19 DEF OutputArrives, program
<1>20. CASE UNCHANGED vars
  BY <1>20 DEF vars
<1> QED
  BY <1>1, <1>2, <1>3, <1>4, <1>5, <1>6, <1>7, <1>8, <1>9, <1>10, <1>11,
     <1>12, <1>13, <1>14, <1>15, <1>16, <1>17, <1>18, <1>19, <1>20 DEF Next, Run

LEMMA VerdictStep == Sound /\ [Next]_vars => VerdictIsThePrograms'
<1> SUFFICES ASSUME Sound, [Next]_vars PROVE VerdictIsThePrograms'
  OBVIOUS
<1> USE DEF Sound, Typed, FindsItsContainer, EndsOnce, AnswersOnce, VerdictIsThePrograms,
            Ways, ReportsFailures
<1>1. ASSUME NEW e \in Executions, Request(e) PROVE VerdictIsThePrograms'
  BY <1>1 DEF Request, Goto, program
<1>2. ASSUME NEW e \in Executions, Create(e) PROVE VerdictIsThePrograms'
  BY <1>2 DEF Create, Goto, program
<1>3. ASSUME NEW e \in Executions, PutArchive(e) PROVE VerdictIsThePrograms'
  BY <1>3 DEF PutArchive, Goto, program
<1>4. ASSUME NEW e \in Executions, Attach(e) PROVE VerdictIsThePrograms'
  BY <1>4 DEF Attach, Goto, program
<1>5. ASSUME NEW e \in Executions, Start(e) PROVE VerdictIsThePrograms'
  BY <1>5 DEF Start, Goto, program
<1>6. ASSUME NEW e \in Executions, Stats(e) PROVE VerdictIsThePrograms'
  BY <1>6 DEF Stats, Goto, program
<1>7. ASSUME NEW e \in Executions, WaitReturns(e) PROVE VerdictIsThePrograms'
  BY <1>7 DEF WaitReturns, Goto, program
<1>8. ASSUME NEW e \in Executions, Timeout(e) PROVE VerdictIsThePrograms'
  BY <1>8 DEF Timeout, Goto, TimerFires, program
<1>9. ASSUME NEW e \in Executions, Kill(e) PROVE VerdictIsThePrograms'
  BY <1>9 DEF Kill, Goto, program
<1>10. ASSUME NEW e \in Executions, Reap(e) PROVE VerdictIsThePrograms'
  BY <1>10 DEF Reap, Goto, program
<1>11. ASSUME NEW e \in Executions, Drain(e) PROVE VerdictIsThePrograms'
  BY <1>11 DEF Drain, Goto, program
<1>12. ASSUME NEW e \in Executions, Inspect(e) PROVE VerdictIsThePrograms'
  BY <1>12 DEF Inspect, Goto, Reply, Status, ExitCode, program
<1>13. ASSUME NEW e \in Executions, Remove(e) PROVE VerdictIsThePrograms'
  BY <1>13 DEF Remove, Goto, program
<1>14. ASSUME NEW e \in Executions, CreateFails(e) PROVE VerdictIsThePrograms'
  BY <1>14 DEF CreateFails, Goto, Fail, Reply, program
<1>15. ASSUME NEW e \in Executions, CallFails(e) PROVE VerdictIsThePrograms'
  BY <1>15 DEF CallFails, Goto, Fail, Reply, Caught, AfterError, program
<1>16. ASSUME NEW e \in Executions, FailureIgnored(e) PROVE VerdictIsThePrograms'
  BY <1>16 DEF FailureIgnored, Goto, Fail, program
<1>17. ASSUME Crash PROVE VerdictIsThePrograms'
  BY <1>17 DEF Crash, program
<1>18. ASSUME NEW e \in Executions, NEW code \in {"zero", "nonzero"},
     NEW reports \in BOOLEAN, ProgramExits(e, code, reports) PROVE VerdictIsThePrograms'
  BY <1>18 DEF ProgramExits, program
<1>19. ASSUME NEW e \in Executions, OutputArrives(e) PROVE VerdictIsThePrograms'
  BY <1>19 DEF OutputArrives, program
<1>20. CASE UNCHANGED vars
  BY <1>20 DEF vars
<1> QED
  BY <1>1, <1>2, <1>3, <1>4, <1>5, <1>6, <1>7, <1>8, <1>9, <1>10, <1>11,
     <1>12, <1>13, <1>14, <1>15, <1>16, <1>17, <1>18, <1>19, <1>20 DEF Next, Run

LEMMA CleanedStep == Sound /\ [Next]_vars => CleanedUp'
<1> SUFFICES ASSUME Sound, [Next]_vars PROVE CleanedUp'
  OBVIOUS
<1> USE DEF Sound, Typed, FindsItsContainer, AnswersOnce, CleanedUp, Alive
<1>1. ASSUME NEW e \in Executions, Request(e) PROVE CleanedUp'
  BY <1>1 DEF Request, Goto, program
<1>2. ASSUME NEW e \in Executions, Create(e) PROVE CleanedUp'
  BY <1>2 DEF Create, Goto, program
<1>3. ASSUME NEW e \in Executions, PutArchive(e) PROVE CleanedUp'
  BY <1>3 DEF PutArchive, Goto, program
<1>4. ASSUME NEW e \in Executions, Attach(e) PROVE CleanedUp'
  BY <1>4 DEF Attach, Goto, program
<1>5. ASSUME NEW e \in Executions, Start(e) PROVE CleanedUp'
  BY <1>5 DEF Start, Goto, program
<1>6. ASSUME NEW e \in Executions, Stats(e) PROVE CleanedUp'
  BY <1>6 DEF Stats, Goto, program
<1>7. ASSUME NEW e \in Executions, WaitReturns(e) PROVE CleanedUp'
  BY <1>7 DEF WaitReturns, Goto, program
<1>8. ASSUME NEW e \in Executions, Timeout(e) PROVE CleanedUp'
  BY <1>8 DEF Timeout, Goto, TimerFires, program
<1>9. ASSUME NEW e \in Executions, Kill(e) PROVE CleanedUp'
  BY <1>9 DEF Kill, Goto, program
<1>10. ASSUME NEW e \in Executions, Reap(e) PROVE CleanedUp'
  BY <1>10 DEF Reap, Goto, program
<1>11. ASSUME NEW e \in Executions, Drain(e) PROVE CleanedUp'
  BY <1>11 DEF Drain, Goto, program
<1>12. ASSUME NEW e \in Executions, Inspect(e) PROVE CleanedUp'
  BY <1>12 DEF Inspect, Goto, Reply, Status, ExitCode, program
<1>13. ASSUME NEW e \in Executions, Remove(e) PROVE CleanedUp'
  BY <1>13 DEF Remove, Goto, program
<1>14. ASSUME NEW e \in Executions, CreateFails(e) PROVE CleanedUp'
  <2>1. failed \subseteq failed' /\ <<e, "create">> \in failed'
    BY <1>14 DEF CreateFails, Fail
  <2>2. answer'[e] # None /\ \A x \in Executions \ {e} :
          pc'[x] = pc[x] /\ answer'[x] = answer[x] /\ container'[x] = container[x]
    BY <1>14 DEF CreateFails, Goto, Reply
  <2> QED
    BY <2>1, <2>2
<1>15. ASSUME NEW e \in Executions, CallFails(e) PROVE CleanedUp'
  BY <1>15 DEF CallFails, Goto, Fail, Reply, Caught, AfterError, program
<1>16. ASSUME NEW e \in Executions, FailureIgnored(e) PROVE CleanedUp'
  BY ZenonT(40), <1>16 DEF FailureIgnored, Goto, Fail, program
<1>17. ASSUME Crash PROVE CleanedUp'
  BY <1>17 DEF Crash, program
<1>18. ASSUME NEW e \in Executions, NEW code \in {"zero", "nonzero"},
     NEW reports \in BOOLEAN, ProgramExits(e, code, reports) PROVE CleanedUp'
  BY <1>18 DEF ProgramExits, program
<1>19. ASSUME NEW e \in Executions, OutputArrives(e) PROVE CleanedUp'
  BY <1>19 DEF OutputArrives, program
<1>20. CASE UNCHANGED vars
  BY <1>20 DEF vars
<1> QED
  BY SMTT(20), <1>1, <1>2, <1>3, <1>4, <1>5, <1>6, <1>7, <1>8, <1>9, <1>10, <1>11,
     <1>12, <1>13, <1>14, <1>15, <1>16, <1>17, <1>18, <1>19, <1>20 DEF Next, Run

-----------------------------------------------------------------------------
(* The theorems.                                                            *)

LEMMA SoundInit == Init => Sound
  BY DEF Init, Sound, Typed, FindsItsContainer, EndsOnce, AnswersOnce, VerdictIsThePrograms,
         CleanedUp, Awaiting, Calls, Alive

(* The inductive invariant: what each call of execute finds, and when an    *)
(* execution is answered.                                                   *)
THEOREM SandboxSound == Spec => []Sound
<1>1. Sound /\ [Next]_vars => Sound'
  BY TypedStep, ContainerStep, EndsStep, AnswersStep, VerdictStep, CleanedStep DEF Sound
<1> QED
  BY <1>1, SoundInit, PTL DEF Spec

(* "passed" and "failed" are given to a program that ended by itself and    *)
(* accordingly, and one that was killed is never judged, however timer,     *)
(* kill, output and failing calls interleave (execute 139-188).             *)
THEOREM VerdictAlwaysThePrograms == Spec => []VerdictIsThePrograms
  BY SandboxSound, PTL DEF Sound

(* An execution that ends has an answer and leaves no container behind,     *)
(* unless the call that creates or removes it failed (execute 62-78,        *)
(* 174-195).                                                                *)
THEOREM AlwaysCleanedUp == Spec => []CleanedUp
  BY SandboxSound, PTL DEF Sound
=============================================================================
