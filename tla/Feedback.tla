------------------------------- MODULE Feedback -------------------------------
(***************************************************************************)
(* How the verdict of a submission comes back: SubmissionPipeline together *)
(* with those who called it and those who watch it.                        *)
(*                                                                         *)
(* A caller (the SDKs, the solution form of the web application) draws a   *)
(* fresh idempotency key per call and never sends one twice; call[s] is    *)
(* what it knows of the call with key s.  Two observers poll               *)
(* GET /v1/submissions/:id, which is two SELECTs: the SDK until a verdict, *)
(* a deadline or an error; the page for ever, except that a fetch which is *)
(* rejected ends it, as the next poll is scheduled after the answer only.  *)
(* The page also listens to the newest run it knows of; it misses what is  *)
(* emitted before it joined (and, as LogsGateway has no adapter, what a    *)
(* worker emits in another API process than the one of its socket).        *)
(***************************************************************************)
EXTENDS SubmissionPipeline

CONSTANTS
  Bounty,          \* what the agent may put on a task of its own meanwhile
  MaxLosses        \* bound: polls, answers and sockets that fail

ASSUME FeedbackAssumption == {Bounty, MaxLosses} \subseteq Nat

VARIABLES
  call,            \* what the caller knows of its call with this key
  obs,             \* the SDK's waitForFeedback, and the page
  live,            \* the page's socket: its room, and the events it received
  told,            \* slots that have emitted their verdict
  losses

watching == <<call, obs, live, told, losses>>
feedbackVars == <<vars, watching>>

Calls == {"unsent", "sent", "failing", "answered", "refused", "unknown"}
Observers == {"sdk", "page"}
Closed == [pc |-> "closed", sub |-> None, seen |-> "absent", status |-> "absent",
           runs |-> <<>>]
Deaf == [run |-> 0, joined |-> FALSE, events |-> {}]
Polling(o) == obs[o].pc \in {"poll", "read"}

FeedbackInit ==
  /\ Init
  /\ call = [s \in Subs |-> "unsent"]
  /\ obs = [o \in Observers |-> Closed]
  /\ live = Deaf
  /\ told = {}
  /\ losses = 0

Loss == losses < MaxLosses /\ losses' = losses + 1
Learns(s, what) == call' = [call EXCEPT ![s] = what]

-----------------------------------------------------------------------------
(* Plausible mistakes, each standing in for the definition it names.        *)

AlwaysRefused(s) == "refused"                                  \* Failed
NewestRunOnly(s) ==                                            \* RunsOf
  IF runs[s] = <<>> THEN <<>> ELSE <<runs[s][Len(runs[s])]>>
StopAtVerdict(o, v) == v \in Verdicts                          \* Satisfied

-----------------------------------------------------------------------------
(* The caller.                                                              *)

(* The form sends one call at a time, ...                                   *)
MaySend(s) ==
  call[s] = "unsent" /\ \A other \in Subs : call[other] \notin {"sent", "failing"}

(* ... each with a new key.                                                 *)
Send(r, s) ==
  /\ MaySend(s)
  /\ Submit(r, s)
  /\ Learns(s, "sent")
  /\ UNCHANGED <<obs, live, told, losses>>

(* createTask of the same agent competes for its credits.                   *)
LockBounty ==
  /\ credits >= Bounty
  /\ credits' = credits - Bounty
  /\ UNCHANGED <<quota, status, runs, job, req, wk, unacked, errors, faults, watching>>

(* What a failed transaction is reported as: an HTTP error of its own for a *)
(* refusal, status 500 for a commit that was not acknowledged.              *)
Failed(s) == IF call[s] = "failing" THEN "unknown" ELSE "refused"

(* What a step of the request lets the caller know: the id comes after the  *)
(* enqueue, a refusal after the quota was released; an answer may get lost. *)
Respond(r) ==
  LET s == req[r].sub IN
  /\ \/ /\ Reserve(r)
        /\ Learns(s, IF req'[r].pc = "idle" THEN "refused" ELSE "sent")
        /\ UNCHANGED losses
     \/ Commit(r) /\ UNCHANGED <<call, losses>>
     \/ CommitUnacknowledged(r) /\ Learns(s, "failing") /\ UNCHANGED losses
     \/ Release(r) /\ Learns(s, Failed(s)) /\ UNCHANGED losses
     \/ Enqueue(r) /\ Learns(s, "answered") /\ UNCHANGED losses
     \/ Enqueue(r) /\ Learns(s, "unknown") /\ Loss
     \/ Abandon(r) /\ Learns(s, "unknown") /\ UNCHANGED losses
  /\ UNCHANGED <<obs, live, told>>

-----------------------------------------------------------------------------
(* The worker's events.                                                     *)

(* emitRun: whoever has joined the room of the run receives the event.  The *)
(* events before the verdict (running, output, metrics) are left out.       *)
Emit(w, data) ==
  live' = IF live.joined /\ live.run = wk[w].run /\ obs["page"].sub = wk[w].sub
          THEN [live EXCEPT !.events = @ \cup {[run |-> live.run, data |-> data]}]
          ELSE live

(* The verdict is announced after its transaction, and before the handler   *)
(* returns.                                                                 *)
MayEmit(w) == wk[w].pc = "ack"

EmitVerdict(w) ==
  /\ MayEmit(w) /\ w \notin told
  /\ Emit(w, wk[w].verdict)
  /\ told' = told \cup {w}
  /\ UNCHANGED <<vars, call, obs, losses>>

Execute(w) ==
  /\ \/ Ack(w) /\ w \in told /\ told' = told \ {w} /\ UNCHANGED live
     \/ /\ \/ \E s \in Subs : Take(w, s)
           \/ InsertRun(w)
           \/ MarkRunning(w)
           \/ \E v \in Verdicts : SandboxAnswers(w, v)
           \/ WriteResult(w)
        /\ UNCHANGED <<live, told>>
  /\ UNCHANGED <<call, obs, losses>>

(* The job fails, its worker dies, or its lock is lost.                     *)
Disturb ==
  /\ \/ \E w \in Workers : HandlerThrows(w) /\ told' = told \ {w}
     \/ \E w \in Workers : WorkerCrash(w) /\ told' = told \ {w}
     \/ \E s \in Subs : LockLost(s) /\ UNCHANGED told
  /\ UNCHANGED <<call, obs, live, losses>>

Recover(s) == LockExpires(s) /\ UNCHANGED watching

-----------------------------------------------------------------------------
(* The observers.                                                           *)

(* The SDK waits for the id it was given, a page is opened on it.           *)
Watch(o, s) ==
  /\ obs[o].pc = "closed"
  /\ call[s] = "answered"
  /\ obs' = [obs EXCEPT ![o].pc = "poll", ![o].sub = s]
  /\ UNCHANGED <<vars, call, live, told, losses>>

(* getSubmission reads the submission, ...                                  *)
ReadStatus(o) ==
  /\ obs[o].pc = "poll"
  /\ obs' = [obs EXCEPT ![o].pc = "read", ![o].seen = status[obs[o].sub]]
  /\ UNCHANGED <<vars, call, live, told, losses>>

(* ... and in a second query its runs.                                      *)
RunsOf(s) == runs[s]

(* waitForFeedback returns a verdict; the page polls on.                    *)
Satisfied(o, v) == o = "sdk" /\ v \in Verdicts

(* The page shows the newest run and follows it: a new one closes the       *)
(* socket and opens another, but the events of the old one stay.            *)
NewestRun(list) == Len(list)
Follow(o, list) ==
  live' = IF o = "page" /\ NewestRun(list) # live.run
          THEN [live EXCEPT !.run = NewestRun(list), !.joined = FALSE] ELSE live

ReadRuns(o) ==
  LET list == RunsOf(obs[o].sub)
      answer == [obs[o] EXCEPT !.seen = "absent", !.status = obs[o].seen, !.runs = list]
  IN  /\ obs[o].pc = "read"
      /\ obs' = [obs EXCEPT ![o] =
                   IF Satisfied(o, obs[o].seen) THEN [answer EXCEPT !.pc = "done"]
                   ELSE IF o = "page" THEN [answer EXCEPT !.pc = "poll"]
                   ELSE [obs[o] EXCEPT !.seen = "absent", !.pc = "poll"]]
      /\ Follow(o, list)
      /\ UNCHANGED <<vars, call, told, losses>>

(* The deadline passes before the next poll: an exception, after which the  *)
(* agent may wait again.                                                    *)
TimedOut ==
  /\ obs["sdk"].pc = "poll"
  /\ obs' = [obs EXCEPT !["sdk"] = Closed]
  /\ UNCHANGED <<vars, call, live, told, losses>>

(* The proxy or the API answers with an error: the SDK throws it, the page  *)
(* polls on.                                                                *)
PollRefused(o) ==
  /\ obs[o].pc = "read"
  /\ Loss
  /\ obs' = [obs EXCEPT ![o] = IF o = "sdk" THEN Closed
                               ELSE [@ EXCEPT !.pc = "poll", !.seen = "absent"]]
  /\ UNCHANGED <<vars, call, live, told>>

(* The connection fails: the SDK throws, and so does the page's poll, which *)
(* was to schedule the next one.                                            *)
PollRejected(o) ==
  /\ Polling(o)
  /\ Loss
  /\ obs' = [obs EXCEPT ![o] = IF o = "sdk" THEN Closed
                               ELSE [@ EXCEPT !.pc = "stopped", !.seen = "absent"]]
  /\ UNCHANGED <<vars, call, live, told>>

(* The handshake names the run; a dropped socket connects again.            *)
Join ==
  /\ live.run # 0 /\ ~ live.joined
  /\ live' = [live EXCEPT !.joined = TRUE]
  /\ UNCHANGED <<vars, call, obs, told, losses>>

SocketDrops ==
  /\ live.joined
  /\ Loss
  /\ live' = [live EXCEPT !.joined = FALSE]
  /\ UNCHANGED <<vars, call, obs, told>>

-----------------------------------------------------------------------------
Poll(o) == ReadStatus(o) \/ ReadRuns(o)

FeedbackNext ==
  \/ \E r \in Requests, s \in Subs : Send(r, s)
  \/ LockBounty
  \/ \E r \in Requests : Respond(r)
  \/ \E w \in Workers : Execute(w)
  \/ \E w \in Workers : EmitVerdict(w)
  \/ Disturb
  \/ \E s \in Subs : Recover(s)
  \/ \E o \in Observers, s \in Subs : Watch(o, s)
  \/ \E o \in Observers : Poll(o)
  \/ TimedOut
  \/ \E o \in Observers : PollRefused(o)
  \/ \E o \in Observers : PollRejected(o)
  \/ Join
  \/ SocketDrops

(* An idle slot takes a waiting job (blocking pop), the sandbox answers or  *)
(* the fetch times out, the stalled checker runs, an observer polls on.     *)
(* Requests, callers and faults are not fair.                               *)
FeedbackSpec ==
  /\ FeedbackInit /\ [][FeedbackNext]_feedbackVars
  /\ \A w \in Workers : WF_feedbackVars(Execute(w)) /\ WF_feedbackVars(EmitVerdict(w))
  /\ \A s \in Subs : WF_feedbackVars(Recover(s))
  /\ \A o \in Observers : WF_feedbackVars(Poll(o))

-----------------------------------------------------------------------------
(* Properties.                                                              *)

(* What a caller concludes from an answer is true: an id stands for a       *)
(* submission with a job, a refusal for one that was not charged, also when *)
(* the database or the API process fails; only an error that is neither     *)
(* leaves it open (submit 311-381).                                         *)
AnswersAreTruthful ==
  \A s \in Subs :
    /\ call[s] = "answered" => s \in Committed /\ job[s].state # "none"
    /\ call[s] = "refused" => s \notin Committed

(* A verdict that an observer gets comes with a run that ended so, although *)
(* status and runs are read by two queries while workers write both         *)
(* (getSubmission 384-396), and ...                                         *)
PolledVerdictHasRun ==
  \A o \in Observers :
    obs[o].status \in Verdicts =>
      \E n \in 1 .. Len(obs[o].runs) : obs[o].runs[n] = obs[o].status

(* ... one that comes over the socket is the committed verdict of its run   *)
(* (execution.worker 88-123).                                               *)
LiveVerdictIsCommitted ==
  \A e \in live.events :
    e.data \in Verdicts => runs[obs["page"].sub][e.run] = e.data

WhatIsShownIsCommitted == PolledVerdictHasRun /\ LiveVerdictIsCommitted

(* Whoever was given an id gets a verdict for good, through one thrown      *)
(* error (the job has a second attempt), a crashed worker and a crashed     *)
(* API: one that dies between commit and enqueue gives no id.  It takes     *)
(* workers that keep their lock while they live: one that does not could    *)
(* mark the submission as running after its verdict and then throw.         *)
AnswerLeadsToVerdict ==
  \A s \in Subs : call[s] = "answered" ~> [](Decided(s))

(* A page ends up showing the verdict and the run it comes from, however    *)
(* often the job is delivered, unless a poll was rejected (submission-view  *)
(* 22-28): the page polls on after a verdict.                               *)
PageCatchesUp ==
  LET page == obs["page"]
      upToDate == /\ page.sub # None /\ Decided(page.sub)
                  /\ page.status = status[page.sub]
                  /\ page.runs # <<>> /\ page.runs[Len(page.runs)] = page.status
  IN  page.pc = "poll" ~> [](page.pc = "stopped" \/ upToDate)
=============================================================================
