---------------------------- MODULE SandboxRunner ----------------------------
(***************************************************************************)
(* The sandbox runner: one container per execution request, driven by a    *)
(* sequence of Docker calls that the container's program, a timer and      *)
(* failing calls cut across.                                               *)
(*                                                                         *)
(* Docker is external.  A call fails before or after it took effect; a     *)
(* container without a handle, because its creation was not acknowledged   *)
(* or the runner died, is never looked for again.  The program may run for *)
(* ever, and its test report reaches the runner some time after it was     *)
(* printed.  Limits other than the time limit only change how a program    *)
(* ends.                                                                   *)
(***************************************************************************)
EXTENDS Naturals, FiniteSets

CONSTANTS
  Executions,      \* execution requests, each with a runId of its own
  MaxFailures,     \* bound: Docker calls that fail
  MaxCrashes,      \* bound: times that the runner process dies
  None

ASSUME RunnerAssumption ==
  /\ IsFiniteSet(Executions)
  /\ {MaxFailures, MaxCrashes} \subseteq Nat
  /\ None \notin {"passed", "failed", "timeout", "internal_error", "refused",
                  "zero", "nonzero", "killed"}

VARIABLES
  pc,              \* the call that an execution awaits
  timedOut,        \* executions whose timer won the race
  answer,          \* status of the result that execute returns, or None
  container,       \* Docker: the state of the container
  exit,            \* Docker: how the program ended, or None
  failing,         \* executions whose program reported failed assertions
  heard,           \* executions whose report has reached the runner
  failed,          \* Docker calls that failed: <<execution, call>>
  crashes          \* times that the runner died

vars == <<pc, timedOut, answer, container, exit, failing, heard, failed, crashes>>
program == <<exit, failing, heard>>

Calls == {"create", "archive", "attach", "start", "stats", "race", "kill", "reap",
          "inspect", "remove"}
Awaiting == Calls \cup {"drain"}
Alive == {"created", "running", "exited"}

Init ==
  /\ pc = [e \in Executions |-> "idle"]
  /\ timedOut = {}
  /\ answer = [e \in Executions |-> None]
  /\ container = [e \in Executions |-> "none"]
  /\ exit = [e \in Executions |-> None]
  /\ failing = {}
  /\ heard = {}
  /\ failed = {}
  /\ crashes = 0

-----------------------------------------------------------------------------
(* State.ExitCode of a container that still runs is zero.                   *)
ExitCode(e) == IF container[e] = "exited" THEN exit[e] ELSE "zero"

(* Plausible mistakes, each standing in for the definition it names.        *)

ReturnsAtOnce == "done"                                        \* AfterError
VerdictByExitCode(e) ==                                        \* Status
  IF ExitCode(e) = "zero" THEN "passed" ELSE "failed"
NoLimit(e) == FALSE                                            \* TimerFires

-----------------------------------------------------------------------------
Goto(e, call) == pc' = [pc EXCEPT ![e] = call]
Reply(e, status) == answer' = [answer EXCEPT ![e] = status]

(* parseAssertionMetrics finds failures in the output that has arrived and  *)
(* was not cut off; what it does not find counts as none.                   *)
ReportsFailures(e) == e \in failing \cap heard

(* What execute makes of an exit code, the timer and the report.            *)
Status(e) ==
  IF e \in timedOut THEN "timeout"
  ELSE IF ExitCode(e) = "zero" /\ ~ ReportsFailures(e) THEN "passed"
  ELSE "failed"

(* The catch block turns an error into a result, the finally block follows. *)
Caught == "internal_error"
AfterError == "remove"

(* A request arrives.                                                       *)
Request(e) ==
  /\ pc[e] = "idle"
  /\ Goto(e, "create")
  /\ UNCHANGED <<timedOut, answer, container, program, failed, crashes>>

Create(e) ==
  /\ pc[e] = "create"
  /\ container' = [container EXCEPT ![e] = "created"]
  /\ Goto(e, "archive")
  /\ UNCHANGED <<timedOut, answer, program, failed, crashes>>

(* Solution and tests are packed and copied into the container, ...         *)
PutArchive(e) ==
  /\ pc[e] = "archive"
  /\ Goto(e, "attach")
  /\ UNCHANGED <<timedOut, answer, container, program, failed, crashes>>

(* ... and its output is attached.                                          *)
Attach(e) ==
  /\ pc[e] = "attach"
  /\ Goto(e, "start")
  /\ UNCHANGED <<timedOut, answer, container, program, failed, crashes>>

Start(e) ==
  /\ pc[e] = "start"
  /\ container' = [container EXCEPT ![e] = "running"]
  /\ Goto(e, "stats")
  /\ UNCHANGED <<timedOut, answer, program, failed, crashes>>

(* Only when the statistics stream is open does the timer start.            *)
Stats(e) ==
  /\ pc[e] = "stats"
  /\ Goto(e, "race")
  /\ UNCHANGED <<timedOut, answer, container, program, failed, crashes>>

(* The race between the end of the program and the timer, ...               *)
WaitReturns(e) ==
  /\ pc[e] = "race"
  /\ container[e] = "exited"
  /\ Goto(e, "drain")
  /\ UNCHANGED <<timedOut, answer, container, program, failed, crashes>>

TimerFires(e) == pc[e] = "race"
Timeout(e) ==
  /\ TimerFires(e)
  /\ timedOut' = timedOut \cup {e}
  /\ Goto(e, "kill")
  /\ UNCHANGED <<answer, container, program, failed, crashes>>

(* ... which may have ended by itself when it is killed.                    *)
Kill(e) ==
  /\ pc[e] = "kill"
  /\ IF container[e] = "running"
     THEN /\ container' = [container EXCEPT ![e] = "exited"]
          /\ exit' = [exit EXCEPT ![e] = "killed"]
     ELSE UNCHANGED <<container, exit>>
  /\ Goto(e, "reap")
  /\ UNCHANGED <<timedOut, answer, failing, heard, failed, crashes>>

(* The second wait has no timer.                                            *)
Reap(e) ==
  /\ pc[e] = "reap"
  /\ container[e] = "exited"
  /\ Goto(e, "drain")
  /\ UNCHANGED <<timedOut, answer, container, program, failed, crashes>>

(* Twenty milliseconds for the rest of the output, which may come later.    *)
Drain(e) ==
  /\ pc[e] = "drain"
  /\ Goto(e, "inspect")
  /\ UNCHANGED <<timedOut, answer, container, program, failed, crashes>>

Inspect(e) ==
  /\ pc[e] = "inspect"
  /\ Reply(e, Status(e))
  /\ Goto(e, "remove")
  /\ UNCHANGED <<timedOut, container, program, failed, crashes>>

(* The finally block removes the container by force.                        *)
Remove(e) ==
  /\ pc[e] = "remove"
  /\ container' = [container EXCEPT ![e] = "removed"]
  /\ Goto(e, "done")
  /\ UNCHANGED <<timedOut, answer, program, failed, crashes>>

-----------------------------------------------------------------------------
(* Failures.                                                                *)

Fail(e, calls) ==
  /\ pc[e] \in calls
  /\ Cardinality(failed) < MaxFailures
  /\ failed' = failed \cup {<<e, pc[e]>>}

(* A container that was not acknowledged has no handle; the request is      *)
(* answered with an error, which makes the worker throw.                    *)
CreateFails(e) ==
  /\ Fail(e, {"create"})
  /\ \E state \in {"none", "created"} :
       container' = [container EXCEPT ![e] = state]
  /\ Reply(e, "refused")
  /\ Goto(e, "done")
  /\ UNCHANGED <<timedOut, program, crashes>>

(* A call of the try block fails; start may have taken effect.              *)
CallFails(e) ==
  /\ Fail(e, {"archive", "attach", "start", "stats", "race", "inspect"})
  /\ \/ UNCHANGED container
     \/ pc[e] = "start" /\ container' = [container EXCEPT ![e] = "running"]
  /\ Reply(e, Caught)
  /\ Goto(e, AfterError)
  /\ UNCHANGED <<timedOut, program, crashes>>

(* Failures of kill, of the second wait and of remove are swallowed.        *)
FailureIgnored(e) ==
  /\ Fail(e, {"kill", "reap", "remove"})
  /\ \/ pc[e] = "kill" /\ Goto(e, "reap")
     \/ pc[e] = "reap" /\ Goto(e, "drain")
     \/ pc[e] = "remove" /\ Goto(e, "done")
  /\ UNCHANGED <<timedOut, answer, container, program, crashes>>

(* The process dies with all its executions; nothing cleans up after it.    *)
Crash ==
  /\ crashes < MaxCrashes
  /\ \E e \in Executions : pc[e] \in Awaiting
  /\ crashes' = crashes + 1
  /\ pc' = [e \in Executions |-> IF pc[e] \in Awaiting THEN "dead" ELSE pc[e]]
  /\ UNCHANGED <<timedOut, answer, container, program, failed>>

-----------------------------------------------------------------------------
(* The program and its output.                                              *)

ProgramExits(e, code, reports) ==
  /\ container[e] = "running"
  /\ container' = [container EXCEPT ![e] = "exited"]
  /\ exit' = [exit EXCEPT ![e] = code]
  /\ failing' = IF reports THEN failing \cup {e} ELSE failing
  /\ UNCHANGED <<pc, timedOut, answer, heard, failed, crashes>>

OutputArrives(e) ==
  /\ exit[e] # None /\ e \notin heard
  /\ pc[e] \in Awaiting
  /\ heard' = heard \cup {e}
  /\ UNCHANGED <<pc, timedOut, answer, container, exit, failing, failed, crashes>>

Run(e) ==
  \/ Create(e)
  \/ PutArchive(e)
  \/ Attach(e)
  \/ Start(e)
  \/ Stats(e)
  \/ WaitReturns(e)
  \/ Timeout(e)
  \/ Kill(e)
  \/ Reap(e)
  \/ Drain(e)
  \/ Inspect(e)
  \/ Remove(e)

Next ==
  \/ \E e \in Executions : Request(e)
  \/ \E e \in Executions : Run(e)
  \/ \E e \in Executions : CreateFails(e)
  \/ \E e \in Executions : CallFails(e)
  \/ \E e \in Executions : FailureIgnored(e)
  \/ Crash
  \/ \E e \in Executions, code \in {"zero", "nonzero"}, reports \in BOOLEAN :
       ProgramExits(e, code, reports)
  \/ \E e \in Executions : OutputArrives(e)

Spec == Init /\ [][Next]_vars

(* Docker answers each call or fails it, and the timer fires.  Nothing is   *)
(* assumed of the program.                                                  *)
FairSpec == Spec /\ \A e \in Executions : WF_vars(Run(e))

-----------------------------------------------------------------------------
(* Properties.                                                              *)

(* A verdict is the program's own: "passed" and "failed" are given to a     *)
(* program that ended by itself and accordingly, and one that was killed is *)
(* never judged, in whatever order program, timer, kill, output and failing *)
(* calls come (execute 139-188).                                            *)
VerdictIsThePrograms ==
  \A e \in Executions :
    /\ answer[e] = "passed" => exit[e] = "zero"
    /\ answer[e] = "failed" => exit[e] = "nonzero" \/ e \in failing
    /\ exit[e] = "killed" => answer[e] \in {None, "timeout", "internal_error"}
    /\ answer[e] = "timeout" => e \in timedOut

(* SECURITY.md, "forced cleanup after every result, error, or timeout": an  *)
(* execution that ends has an answer and leaves no container behind, unless *)
(* the very call that creates or removes it failed (execute 62-78,          *)
(* 174-195).                                                                *)
CleanedUp ==
  \A e \in Executions : pc[e] = "done" =>
    /\ answer[e] # None
    /\ container[e] \in Alive =>
         {<<e, "create">>, <<e, "remove">>} \cap failed # {}

(* Every execution ends, also when its program does not, unless the runner  *)
(* dies or the container could not be killed: the failure of kill is        *)
(* swallowed and the wait that follows has no limit (execute 131-149).      *)
EveryExecutionEnds ==
  \A e \in Executions :
    pc[e] # "idle" ~>
      pc[e] \in {"done", "dead"} \/ <<e, "kill">> \in failed
=============================================================================
