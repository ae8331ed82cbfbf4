----------------------------- MODULE RunLifecycle -----------------------------
(***************************************************************************)
(* The life of TestRun rows under everything that writes them: triggerRun  *)
(* and cancelRun of the orchestrator, the Jenkins webhook handlers, the    *)
(* reaper's sweep and the queue of aborts, together with the Jenkins       *)
(* builds they start and stop.                                             *)
(*                                                                         *)
(* Each call is split where another actor can get in between: at every     *)
(* await outside a transaction, and inside a webhook transaction (READ     *)
(* COMMITTED) between the read of the row and the conditional update.  A   *)
(* conditional update (updateMany with the expected status) and what       *)
(* commits with it is one step.                                            *)
(***************************************************************************)
EXTENDS AbortsQueue, FiniteSets

CONSTANTS
  Cancels,      \* DELETE /runs/:id requests that may be made
  Target,       \* the run each of them cancels
  Faults,       \* what may go wrong, a subset of FaultKinds
  MaxCrashes    \* bound: API crashes plus sweeps that throw

FaultKinds ==
  { "trigger",    \* archive, upload, presign or trigger call fails
    "database",   \* a transaction of triggerRun or of a webhook fails
    "params",     \* the pipeline rejects its parameters
    "pins",       \* build_started reports other pins than were stored
    "pipeline",   \* a stage of the pipeline fails
    "delivery",   \* the pipeline's six attempts at a webhook all fail
    "node",       \* the agent dies with the build
    "stop",       \* the abort call of a cancelRun answers an error
    "abort" }     \* the abort call of a worker answers an error

ASSUME LifecycleAssumption ==
  /\ Target \in [Cancels -> Runs]
  /\ Faults \subseteq FaultKinds
  /\ MaxCrashes \in Nat

VARIABLES
  status, cases,  \* as in RunStateMachine
  url,            \* jenkins_build_url of the row
  signal,         \* age of heartbeat_at, or of started_at before the first one
  overdue,        \* timeout_at has passed
  trig,           \* where triggerRun is, for each run
  job,            \* the Jenkins build of each run
  hook,           \* the webhook requests of each build, by event
  deferred,       \* setImmediate callbacks that will enqueue an abort
  cancel,         \* where each cancel request is
  cancelUrl,      \* the URL it has read
  sweep,          \* the scan the reaper is working through
  picked,         \* why the current scan picked each run
  crashes

machineVars == <<status, cases>>
rowVars     == <<status, cases, url, signal, overdue>>
buildVars   == <<job, hook>>
cancelVars  == <<cancel, cancelUrl>>
sweepVars   == <<sweep, picked>>

vars == <<rowVars, trig, buildVars, deferred, cancelVars, sweepVars,
          queueVars, crashes>>

Event      == {"build_started", "build_completed", "build_errored"}
HookState  == {"idle", "sent", "queued", "running", "ok", "gone", "lost"}
BuildState == {"none", "waiting", "starting", "building", "completing",
               "failing", "over"}
Executing  == {"starting", "building", "completing", "failing"}

RowTypeOK ==
  /\ status    \in [Runs -> Status \union {"none"}]
  /\ cases     \in [Runs -> Verdicts \union {"none"}]
  /\ url       \in [Runs -> Url]
  /\ signal    \in [Runs -> {"none", "fresh", "stale"}]
  /\ overdue   \in [Runs -> BOOLEAN]

BuildTypeOK ==
  /\ job       \in [Runs -> BuildState]
  /\ hook      \in [Runs -> [Event -> HookState]]

CallTypeOK ==
  /\ trig      \in [Runs -> {"idle", "counted", "created", "triggered",
                             "catching", "done"}]
  /\ deferred  \in SUBSET Runs
  /\ cancel    \in [Cancels -> {"idle", "checked", "read_queued",
                                "read_running", "stopped", "erroring",
                                "requeueing", "answering", "done"}]
  /\ cancelUrl \in [Cancels -> Url]
  /\ sweep     \in {"idle", "running", "queued", "aborts"}
  /\ picked    \in [Runs -> {"no", "wall_clock", "heartbeat", "unstarted",
                             "orphan"}]
  /\ crashes   \in 0 .. MaxCrashes

TypeOK == RowTypeOK /\ BuildTypeOK /\ CallTypeOK /\ QueueTypeOK

Init ==
  /\ QueueInit
  /\ status    = [r \in Runs |-> "none"]
  /\ cases     = [r \in Runs |-> "none"]
  /\ url       = [r \in Runs |-> "null"]
  /\ signal    = [r \in Runs |-> "none"]
  /\ overdue   = [r \in Runs |-> FALSE]
  /\ trig      = [r \in Runs |-> "idle"]
  /\ job       = [r \in Runs |-> "none"]
  /\ hook      = [r \in Runs |-> [e \in Event |-> "idle"]]
  /\ deferred  = {}
  /\ cancel    = [c \in Cancels |-> "idle"]
  /\ cancelUrl = [c \in Cancels |-> "null"]
  /\ sweep     = "idle"
  /\ picked    = [r \in Runs |-> "no"]
  /\ crashes   = 0

-----------------------------------------------------------------------------
(***************************************************************************)
(* Steps shared by several handlers.                                       *)
(***************************************************************************)
SetStatus(r, to) == status' = [status EXCEPT ![r] = to]
At(pc, p, from, to) == pc[p] = from /\ pc' = [pc EXCEPT ![p] = to]

\* The move to a terminal status; what it adds to the audit log is left out.
Finish(r, to) ==
  /\ SetStatus(r, to)
  /\ UNCHANGED <<cases, url, signal, overdue>>

\* Mistake: update by id, without the expected status.
FinishAnyway(r, from, to) == Finish(r, to)

\* updateMany where status = from, in a transaction of its own:
\* nothing is written when the status is no longer the expected one.
FinishIf(r, from, to) ==
  IF status[r] = from THEN Finish(r, to) ELSE UNCHANGED rowVars

Answer(r, e, reply) == hook' = [hook EXCEPT ![r][e] = reply]

\* Jenkins ends an executing build through its post section, which reports
\* build_errored.
EndInFailure(r) ==
  /\ job'  = [job  EXCEPT ![r] = "failing"]
  /\ hook' = [hook EXCEPT ![r].build_errored = "sent"]

\* Mistake: /cancelQueue for every kind of URL.
AbortQueueItem(r, u) ==
  IF job[r] = "waiting"
    THEN job' = [job EXCEPT ![r] = "over"] /\ UNCHANGED hook
    ELSE UNCHANGED buildVars

(***************************************************************************)
(* What a successful abortBuild does: /cancelQueue drops a waiting item,   *)
(* /stop interrupts an executing build.  Anything else is answered with a  *)
(* redirect or a 404, which the client also takes for success.             *)
(***************************************************************************)
AbortBuild(r, u) ==
  \/ /\ u = "queue" /\ job[r] = "waiting"
     /\ job' = [job EXCEPT ![r] = "over"]
     /\ UNCHANGED hook
  \/ /\ u = "build" /\ job[r] \in {"starting", "building", "completing"}
     /\ EndInFailure(r)
  \/ /\ ~ (u = "queue" /\ job[r] = "waiting")
     /\ ~ (u = "build" /\ job[r] \in {"starting", "building", "completing"})
     /\ UNCHANGED buildVars

-----------------------------------------------------------------------------
(***************************************************************************)
(* RunsOrchestrator.triggerRun                                             *)
(***************************************************************************)

\* Mistake: count without the advisory lock.
CountWithoutLock(r) ==
  /\ trig[r] = "idle"
  /\ trig' = [trig EXCEPT ![r] =
                IF \E s \in Runs : SameOwner(r, s) /\ status[s] \in NonTerminal
                  THEN "done" ELSE "counted"]
  /\ UNCHANGED <<rowVars, buildVars, deferred, cancelVars,
                 sweepVars, queueVars, crashes>>

\* The transaction of the fence: take the user's advisory lock, which its
\* holder keeps until commit ("counted"), and count the user's active runs.
TriggerCount(r) ==
  /\ trig[r] = "idle"
  /\ \A s \in Runs : SameOwner(r, s) => trig[s] # "counted"
  /\ trig' = [trig EXCEPT ![r] =
                IF \E s \in Runs : SameOwner(r, s) /\ status[s] \in NonTerminal
                  THEN "done" ELSE "counted"]
  /\ UNCHANGED <<rowVars, buildVars, deferred, cancelVars,
                 sweepVars, queueVars, crashes>>

\* ... insert the row and commit, which releases the lock.
TriggerCreate(r) ==
  /\ At(trig, r, "counted", "created")
  /\ SetStatus(r, "queued")
  /\ UNCHANGED <<cases, url, signal, overdue, buildVars,
                 deferred, cancelVars, sweepVars, queueVars, crashes>>

\* The archive is uploaded and Jenkins queues the build.
TriggerBuild(r) ==
  /\ At(trig, r, "created", "triggered")
  /\ job' = [job EXCEPT ![r] = "waiting"]
  /\ UNCHANGED <<rowVars, hook, deferred, cancelVars, sweepVars,
                 queueVars, crashes>>

\* Archiving, uploading, presigning or the call to Jenkins throws; the call
\* may throw although Jenkins has queued the build.
TriggerFails(r) ==
  /\ "trigger" \in Faults
  /\ At(trig, r, "created", "catching")
  /\ job' \in {job, [job EXCEPT ![r] = "waiting"]}
  /\ UNCHANGED <<rowVars, hook, deferred, cancelVars, sweepVars,
                 queueVars, crashes>>

\* The second transaction stores the queue item's URL whatever the row's
\* status or URL have become in the meantime.
TriggerRecord(r) ==
  /\ At(trig, r, "triggered", "done")
  /\ url' = [url EXCEPT ![r] = "queue"]
  /\ UNCHANGED <<status, cases, signal, overdue, buildVars,
                 deferred, cancelVars, sweepVars, queueVars, crashes>>

TriggerRecordFails(r) ==
  /\ "database" \in Faults
  /\ At(trig, r, "triggered", "catching")
  /\ UNCHANGED <<rowVars, buildVars, deferred, cancelVars,
                 sweepVars, queueVars, crashes>>

\* The catch block fails the run if it is still queued.
TriggerCatch(r) ==
  /\ At(trig, r, "catching", "done")
  /\ IF status[r] = "queued" THEN SetStatus(r, "error") ELSE UNCHANGED status
  /\ UNCHANGED <<cases, url, signal, overdue, buildVars, deferred,
                 cancelVars, sweepVars, queueVars, crashes>>

\* The catch block's own transaction throws: nothing more is done.
TriggerCatchFails(r) ==
  /\ "database" \in Faults
  /\ At(trig, r, "catching", "done")
  /\ UNCHANGED <<rowVars, buildVars, deferred, cancelVars,
                 sweepVars, queueVars, crashes>>

Trigger(r) ==
  \/ TriggerCount(r)  \/ TriggerCreate(r) \/ TriggerBuild(r)
  \/ TriggerFails(r)  \/ TriggerRecord(r) \/ TriggerRecordFails(r)
  \/ TriggerCatch(r)  \/ TriggerCatchFails(r)

-----------------------------------------------------------------------------
(***************************************************************************)
(* The Jenkins pipeline.  Builds of the job never overlap                  *)
(* (disableConcurrentBuilds), and the pipeline waits for the answer to a   *)
(* webhook before it goes on; 200, 409 and 410 all count as delivered.     *)
(***************************************************************************)
Agent == UNCHANGED <<rowVars, trig, deferred, cancelVars, sweepVars,
                     queueVars, crashes>>

Delivered(r, e) == hook[r][e] \in {"ok", "gone"}

\* The event an executing build is waiting to have delivered.
Awaiting(r) ==
  CASE job[r] = "starting"   -> "build_started"
    [] job[r] = "completing" -> "build_completed"
    [] OTHER                 -> "build_errored"

BuildStarts(r) ==
  /\ job[r] = "waiting"
  /\ \A s \in Runs : job[s] \notin Executing
  /\ \/ /\ job'  = [job  EXCEPT ![r] = "starting"]
        /\ hook' = [hook EXCEPT ![r].build_started = "sent"]
     \/ "params" \in Faults /\ EndInFailure(r)
  /\ Agent

\* build_started is delivered: start the heartbeat and run the stages.
BuildProceeds(r) ==
  /\ job[r] = "starting" /\ Delivered(r, "build_started")
  /\ job' = [job EXCEPT ![r] = "building"]
  /\ UNCHANGED hook
  /\ Agent

BuildCompletes(r) ==
  /\ job[r] = "building"
  /\ job'  = [job  EXCEPT ![r] = "completing"]
  /\ hook' = [hook EXCEPT ![r].build_completed = "sent"]
  /\ Agent

BuildFails(r) ==
  /\ "pipeline" \in Faults
  /\ job[r] = "building"
  /\ EndInFailure(r)
  /\ Agent

BuildEnds(r) ==
  /\ job[r] \in {"completing", "failing"}
  /\ Delivered(r, Awaiting(r))
  /\ job' = [job EXCEPT ![r] = "over"]
  /\ UNCHANGED hook
  /\ Agent

\* Six attempts fail, or their answers get lost, and the stage fails with them.
\* A request whose handler is already at work stays with the API.
DeliveryFails(r) ==
  /\ "delivery" \in Faults
  /\ job[r] \in Executing \ {"building"}
  /\ LET e     == Awaiting(r)
         given == IF hook[r][e] = "sent" THEN [hook[r] EXCEPT ![e] = "lost"]
                                         ELSE hook[r]
     IN /\ hook[r][e] # "lost"
        /\ IF job[r] = "failing"
             THEN /\ job'  = [job  EXCEPT ![r] = "over"]
                  /\ hook' = [hook EXCEPT ![r] = given]
             ELSE /\ job'  = [job  EXCEPT ![r] = "failing"]
                  /\ hook' = [hook EXCEPT ![r] =
                                [given EXCEPT !.build_errored = "sent"]]
  /\ Agent

\* The agent dies: the build reports nothing more.
BuildVanishes(r) ==
  /\ "node" \in Faults
  /\ job[r] \in Executing
  /\ job' = [job EXCEPT ![r] = "over"]
  /\ UNCHANGED hook
  /\ Agent

Jenkins(r) ==
  \/ BuildStarts(r) \/ BuildProceeds(r) \/ BuildCompletes(r) \/ BuildFails(r)
  \/ BuildEnds(r)   \/ DeliveryFails(r) \/ BuildVanishes(r)

-----------------------------------------------------------------------------
(***************************************************************************)
(* JenkinsWebhookService.  A request is "sent" until its transaction has   *)
(* read the row; then hook holds the status it read, until the answer:     *)
(* "ok" for 200 and 202, "gone" for 410.  Requests with one idempotency    *)
(* key take effect once, so a request is one per event here.               *)
(***************************************************************************)
Webhook == UNCHANGED <<trig, job, cancelVars, sweepVars, queueVars,
                       crashes>>

\* applyEvent: read the row; a terminal one is answered at once, and a late
\* build_started has its build aborted after the transaction.
WebhookRead(r, e) ==
  /\ hook[r][e] = "sent"
  /\ IF status[r] \in Terminal
       THEN /\ Answer(r, e, "gone")
            /\ deferred' = IF e = "build_started" THEN deferred \union {r}
                                                  ELSE deferred
       ELSE Answer(r, e, status[r]) /\ UNCHANGED deferred
  /\ UNCHANGED rowVars
  /\ Webhook

\* Mistake: start the run on the strength of the read alone.
StartAnyway(r) ==
  /\ SetStatus(r, "running")
  /\ url'    = [url    EXCEPT ![r] = "build"]
  /\ signal' = [signal EXCEPT ![r] = "fresh"]
  /\ Answer(r, "build_started", "ok")
  /\ UNCHANGED <<cases, overdue>>

StartRun(r) ==
  IF status[r] = "queued"
    THEN /\ SetStatus(r, "running")
         /\ url'    = [url    EXCEPT ![r] = "build"]
         /\ signal' = [signal EXCEPT ![r] = "fresh"]
         /\ Answer(r, "build_started", "ok")
         /\ UNCHANGED <<cases, overdue>>
    ELSE Answer(r, "build_started", "gone") /\ UNCHANGED rowVars

\* The pins differ: fail the run if it is still queued, and abort the build
\* in either case.
RefuseStart(r) ==
  /\ IF status[r] = "queued"
       THEN /\ SetStatus(r, "error")
            /\ url' = [url EXCEPT ![r] = "build"]
       ELSE UNCHANGED <<status, url>>
  /\ Answer(r, "build_started", "ok")
  /\ deferred' = deferred \union {r}
  /\ UNCHANGED <<cases, signal, overdue>>

HandleBuildStarted(r) ==
  /\ hook[r].build_started \in NonTerminal
  /\ \/ StartRun(r) /\ UNCHANGED deferred
     \/ "pins" \in Faults /\ RefuseStart(r)
  /\ Webhook

\* Mistake: store the cases although the conditional update missed.
StoreAnyway(r) ==
  /\ hook[r].build_completed \in NonTerminal
  /\ IF hook[r].build_completed = "running"
       THEN \E verdict \in Verdicts :
              /\ SetStatus(r, IF status[r] = "running" THEN StatusOf(verdict)
                                                     ELSE status[r])
              /\ cases' = [cases EXCEPT ![r] = verdict]
              /\ Answer(r, "build_completed", "ok")
              /\ UNCHANGED <<url, signal, overdue>>
       ELSE Answer(r, "build_completed", "gone") /\ UNCHANGED rowVars
  /\ UNCHANGED deferred
  /\ Webhook

\* The verdict, the artifacts and the cases commit together.
HandleBuildCompleted(r) ==
  /\ hook[r].build_completed \in NonTerminal
  /\ IF hook[r].build_completed = "running" /\ status[r] = "running"
       THEN \E verdict \in Verdicts :
              /\ SetStatus(r, StatusOf(verdict))
              /\ cases' = [cases EXCEPT ![r] = verdict]
              /\ Answer(r, "build_completed", "ok")
              /\ UNCHANGED <<url, signal, overdue>>
       ELSE Answer(r, "build_completed", "gone") /\ UNCHANGED rowVars
  /\ UNCHANGED deferred
  /\ Webhook

HandleBuildErrored(r) ==
  /\ hook[r].build_errored \in NonTerminal
  /\ IF hook[r].build_errored = "running" /\ status[r] = "running"
       THEN Finish(r, "error") /\ Answer(r, "build_errored", "ok")
       ELSE Answer(r, "build_errored", "gone") /\ UNCHANGED rowVars
  /\ UNCHANGED deferred
  /\ Webhook

\* The transaction throws and rolls back: 500, and the pipeline tries again.
WebhookFails(r, e) ==
  /\ "database" \in Faults
  /\ hook[r][e] \in NonTerminal
  /\ Answer(r, e, "sent")
  /\ UNCHANGED <<rowVars, deferred>>
  /\ Webhook

\* Mistake: record a heartbeat whatever the status.
HeartbeatAnyway(r) ==
  /\ job[r] \in {"building", "completing", "failing"}
  /\ signal' = [signal EXCEPT ![r] = "fresh"]
  /\ UNCHANGED <<status, cases, url, overdue, hook, deferred>>
  /\ Webhook

\* heartbeat_at is set to the time in the payload, which a slow delivery has
\* let grow old.
HandleHeartbeat(r) ==
  /\ job[r] \in {"building", "completing", "failing"}
  /\ status[r] = "running"
  /\ \E age \in {"fresh", "stale"} :
       /\ age = "stale" => "delivery" \in Faults
       /\ signal' = [signal EXCEPT ![r] = age]
  /\ UNCHANGED <<status, cases, url, overdue, hook, deferred>>
  /\ Webhook

\* setImmediate: enqueue the abort with the URL of the payload.
RunDeferred(r) ==
  /\ r \in deferred
  /\ deferred' = deferred \ {r}
  /\ EnqueueAsserted(r, "build")
  /\ UNCHANGED <<rowVars, trig, buildVars, cancelVars, sweepVars, crashes>>

Webhooks(r) ==
  \/ \E e \in Event : WebhookRead(r, e) \/ WebhookFails(r, e)
  \/ HandleBuildStarted(r) \/ HandleBuildCompleted(r) \/ HandleBuildErrored(r)
  \/ HandleHeartbeat(r)    \/ RunDeferred(r)

-----------------------------------------------------------------------------
(***************************************************************************)
(* RunsService.cancel and RunsOrchestrator.cancelRun                       *)
(***************************************************************************)
Api == UNCHANGED <<trig, deferred, sweepVars, crashes>>

\* The service's own check: the run exists; a terminal one is answered 409.
CancelCheck(c) ==
  /\ cancel[c] = "idle"
  /\ status[Target[c]] # "none"
  /\ cancel' = [cancel EXCEPT ![c] =
                  IF status[Target[c]] \in Terminal THEN "done" ELSE "checked"]
  /\ UNCHANGED <<rowVars, buildVars, cancelUrl, queueVars>>
  /\ Api

\* cancelRun reads the row again and chooses by its status.
CancelRead(c) ==
  LET r == Target[c] IN
  /\ cancel[c] = "checked"
  /\ cancel' = [cancel EXCEPT ![c] =
       CASE status[r] = "queued"                      -> "read_queued"
         [] status[r] = "running" /\ url[r] # "null"  -> "read_running"
         [] status[r] = "running" /\ url[r] = "null"  -> "erroring"
         [] OTHER                                     -> "done"]
  /\ cancelUrl' = [cancelUrl EXCEPT ![c] = url[r]]
  /\ UNCHANGED <<rowVars, buildVars, queueVars>>
  /\ Api

\* Mistake: on a miss, repeat the update without reading the row again.
CancelQueuedAgain(c) ==
  LET r == Target[c] IN
  /\ cancel[c] = "read_queued"
  /\ IF status[r] = "queued"
       THEN SetStatus(r, "cancelled") /\ cancel' = [cancel EXCEPT ![c] = "answering"]
       ELSE UNCHANGED <<status, cancel>>
  /\ UNCHANGED <<cases, url, signal, overdue, buildVars, cancelUrl, queueVars>>
  /\ Api

\* Conditional update of a run read as queued; on a miss, start over.
CancelQueued(c) ==
  LET r == Target[c] IN
  /\ cancel[c] = "read_queued"
  /\ IF status[r] = "queued"
       THEN SetStatus(r, "cancelled") /\ cancel' = [cancel EXCEPT ![c] = "answering"]
       ELSE UNCHANGED status /\ cancel' = [cancel EXCEPT ![c] = "checked"]
  /\ UNCHANGED <<cases, url, signal, overdue, buildVars, cancelUrl, queueVars>>
  /\ Api

\* A run read as running: abort the build under the URL that was read.
CancelAbort(c) ==
  /\ At(cancel, c, "read_running", "stopped")
  /\ AbortBuild(Target[c], cancelUrl[c])
  /\ UNCHANGED <<rowVars, cancelUrl, queueVars>>
  /\ Api

CancelAbortFails(c) ==
  /\ "stop" \in Faults
  /\ At(cancel, c, "read_running", "erroring")
  /\ AbortBuild(Target[c], cancelUrl[c]) \/ UNCHANGED buildVars
  /\ UNCHANGED <<rowVars, cancelUrl, queueVars>>
  /\ Api

\* The build is stopped: conditional update; a miss counts as success.
CancelRunning(c) ==
  LET r == Target[c] IN
  /\ cancel[c] = "stopped"
  /\ IF status[r] = "running"
       THEN SetStatus(r, "cancelled") /\ cancel' = [cancel EXCEPT ![c] = "answering"]
       ELSE UNCHANGED status /\ cancel' = [cancel EXCEPT ![c] = "answering"]
  /\ UNCHANGED <<cases, url, signal, overdue, buildVars, cancelUrl, queueVars>>
  /\ Api

\* The audit entries of the orchestrator and of the service, then the answer.
CancelAnswer(c) ==
  /\ At(cancel, c, "answering", "done")
  /\ UNCHANGED <<rowVars, buildVars, cancelUrl, queueVars>>
  /\ Api

\* markRunningAsError, then enqueue the abort and rethrow.
CancelError(c) ==
  /\ At(cancel, c, "erroring", "requeueing")
  /\ FinishIf(Target[c], "running", "error")
  /\ UNCHANGED <<buildVars, cancelUrl, queueVars>>
  /\ Api

CancelRequeue(c) ==
  /\ At(cancel, c, "requeueing", "done")
  /\ EnqueueStored(Target[c], url[Target[c]])
  /\ UNCHANGED <<rowVars, buildVars, cancelUrl>>
  /\ Api

Cancel(c) ==
  \/ CancelCheck(c) \/ CancelRead(c) \/ CancelQueued(c) \/ CancelAbort(c)
  \/ CancelAbortFails(c) \/ CancelRunning(c)
  \/ CancelAnswer(c) \/ CancelError(c) \/ CancelRequeue(c)

-----------------------------------------------------------------------------
(***************************************************************************)
(* RunsReaper.sweep: three scans, each followed by one transaction or one  *)
(* enqueue per row it picked.  The rows may have changed by then.          *)
(***************************************************************************)
Reaper == UNCHANGED <<trig, buildVars, deferred, cancelVars, crashes>>

Exhausted == \A r \in Runs : picked[r] = "no"

Scan(from, to, rows) ==
  /\ sweep = from /\ Exhausted
  /\ sweep'  = to
  /\ picked' = rows
  /\ UNCHANGED <<rowVars, queueVars>>
  /\ Reaper

Stale(r) ==
  CASE status[r] = "running" /\ overdue[r]          -> "wall_clock"
    [] status[r] = "running" /\ ~ overdue[r] /\ signal[r] = "stale" -> "heartbeat"
    [] OTHER                                        -> "no"

\* Mistake: only rows that triggerRun has given a URL.
StuckWithUrl(r) ==
  IF status[r] = "queued" /\ overdue[r] /\ url[r] # "null"
    THEN "unstarted" ELSE "no"

StuckQueued(r) ==
  IF status[r] = "queued" /\ overdue[r] THEN "unstarted" ELSE "no"

\* Mistake: forget the runs that timed out.
ErrorOrCancelled(r) ==
  IF status[r] \in {"cancelled", "error"} /\ url[r] # "null"
    THEN "orphan" ELSE "no"

\* Mistake: any row with a URL.
AnyWithUrl(r) == IF url[r] # "null" THEN "orphan" ELSE "no"

TerminalWithUrl(r) ==
  IF status[r] \in {"cancelled", "timed_out", "error"} /\ url[r] # "null"
    THEN "orphan" ELSE "no"

SweepScan ==
  \/ Scan("idle",    "running", [r \in Runs |-> Stale(r)])
  \/ Scan("running", "queued",  [r \in Runs |-> StuckQueued(r)])
  \/ Scan("queued",  "aborts",  [r \in Runs |-> TerminalWithUrl(r)])

SweepDone ==
  /\ sweep = "aborts" /\ Exhausted
  /\ sweep' = "idle"
  /\ UNCHANGED <<rowVars, picked, queueVars>>
  /\ Reaper

Drop(r) == picked' = [picked EXCEPT ![r] = "no"] /\ UNCHANGED sweep

SweepRow(r) ==
  /\ \/ /\ picked[r] \in {"wall_clock", "heartbeat"}
        /\ FinishIf(r, "running", "timed_out")
        /\ UNCHANGED queueVars
     \/ /\ picked[r] = "unstarted"
        /\ FinishIf(r, "queued", "error")
        /\ UNCHANGED queueVars
     \/ /\ picked[r] = "orphan"
        /\ EnqueueStored(r, url[r])
        /\ UNCHANGED rowVars
  /\ Drop(r)
  /\ Reaper

\* A transaction throws and the whole sweep with it, until the next tick.
SweepThrows ==
  /\ ~ Exhausted /\ crashes < MaxCrashes
  /\ sweep'   = "idle"
  /\ picked'  = [r \in Runs |-> "no"]
  /\ crashes' = crashes + 1
  /\ UNCHANGED <<rowVars, trig, buildVars, deferred, cancelVars, queueVars>>

Sweep == SweepScan \/ SweepDone \/ \E r \in Runs : SweepRow(r)

-----------------------------------------------------------------------------
(***************************************************************************)
(* AbortsQueue's worker                                                    *)
(***************************************************************************)
Worker == UNCHANGED <<rowVars, trig, deferred, cancelVars, sweepVars,
                      crashes>>

AbortTaken(r) == TakeJob(r) /\ UNCHANGED buildVars /\ Worker

AbortSucceeds(r) == AbortBuild(r, jobUrl[r]) /\ JobSucceeds(r) /\ Worker

AbortFails(r) ==
  /\ "abort" \in Faults
  /\ AbortBuild(r, jobUrl[r]) \/ UNCHANGED buildVars
  /\ JobFails(r)
  /\ Worker

Aborts(r) == AbortTaken(r) \/ AbortSucceeds(r) \/ AbortFails(r)

-----------------------------------------------------------------------------
(***************************************************************************)
(* Time passes, and the API process dies.                                  *)
(***************************************************************************)
SignalAges(r) ==
  /\ status[r] = "running" /\ signal[r] = "fresh"
  /\ signal' = [signal EXCEPT ![r] = "stale"]
  /\ UNCHANGED <<status, cases, url, overdue, trig, buildVars,
                 deferred, cancelVars, sweepVars, queueVars, crashes>>

TimeLimitPasses(r) ==
  /\ status[r] \in NonTerminal /\ ~ overdue[r]
  /\ overdue' = [overdue EXCEPT ![r] = TRUE]
  /\ UNCHANGED <<status, cases, url, signal, trig, buildVars,
                 deferred, cancelVars, sweepVars, queueVars, crashes>>

\* Calls in progress are lost and open transactions roll back.  Webhooks
\* will be tried again; the sweep and the abort jobs are redelivered.
Crash ==
  /\ crashes < MaxCrashes
  /\ crashes'  = crashes + 1
  /\ trig'     = [r \in Runs |-> IF trig[r] = "idle" THEN "idle" ELSE "done"]
  /\ hook'     = [r \in Runs |-> [e \in Event |->
                    IF hook[r][e] \in NonTerminal THEN "sent" ELSE hook[r][e]]]
  /\ cancel'   = [c \in Cancels |-> IF cancel[c] = "idle" THEN "idle" ELSE "done"]
  /\ deferred' = {}
  /\ sweep'    = "idle"
  /\ picked'   = [r \in Runs |-> "no"]
  /\ JobsStall
  /\ UNCHANGED <<rowVars, job, cancelUrl>>

-----------------------------------------------------------------------------
Next ==
  \/ \E r \in Runs :
       \/ Trigger(r) \/ Jenkins(r) \/ Webhooks(r) \/ Aborts(r)
       \/ SignalAges(r) \/ TimeLimitPasses(r)
  \/ \E c \in Cancels : Cancel(c)
  \/ Sweep \/ SweepThrows
  \/ Crash

Spec == Init /\ [][Next]_vars

(***************************************************************************)
(* What keeps going: the clock, the reaper's 60-second tick, the abort     *)
(* worker, callbacks, and a cancelRun once it is called.  Users owe        *)
(* nothing, and neither does Jenkins: a build may hang for ever.           *)
(***************************************************************************)
CancelContinues(c) == cancel[c] # "idle" /\ Cancel(c)

Fairness ==
  /\ \A r \in Runs :
       /\ WF_vars(TimeLimitPasses(r))
       /\ WF_vars(SweepRow(r))
       /\ WF_vars(AbortTaken(r))
       /\ WF_vars(AbortSucceeds(r))
       /\ WF_vars(RunDeferred(r))
  /\ \A c \in Cancels : WF_vars(CancelContinues(c))
  /\ WF_vars(SweepScan)
  /\ WF_vars(SweepDone)

FairSpec == Spec /\ Fairness

-----------------------------------------------------------------------------
Machine == INSTANCE RunStateMachine

(***************************************************************************)
(* However the callers interleave, the rows move only as the table of the  *)
(* state machine allows, one non-terminal run per user, verdict and cases  *)
(* together: every writer's conditional update and the advisory lock of    *)
(* triggerRun combine into RunStateMachine.                                *)
(***************************************************************************)
RefinesStateMachine == Machine!MachineSpec

(***************************************************************************)
(* The fence by itself: a user never has two queued or running runs, with  *)
(* the triggers of a user interleaved with the ends of earlier runs.       *)
(***************************************************************************)
OneActiveRunPerUser == Machine!OneActiveRunPerUser

(***************************************************************************)
(* Cases are stored exactly for the runs with a verdict, and one of them   *)
(* failed exactly when the run did, though a cancel and the reaper compete *)
(* with build_completed for the row.  (docs/run-state-machine.md:11 asks   *)
(* more of "passed": that all cases passed.)                               *)
(***************************************************************************)
ResultsMatchVerdict == Machine!ResultsMatchVerdict

(***************************************************************************)
(* An abort job, or a callback about to create one, exists only for a      *)
(* terminal run: no retry of an abort can kill the build of a live run,    *)
(* although markRunningAsError and the pin check enqueue whatever their    *)
(* conditional update did.                                                 *)
(***************************************************************************)
AbortsOnlyTerminalRuns ==
  \A r \in Runs :
    jobState[r] # "absent" \/ r \in deferred => status[r] \in Terminal

(***************************************************************************)
(* A terminal row takes no further heartbeat and no further cases, though  *)
(* the build's heartbeat loop outlives the run.                            *)
(***************************************************************************)
TerminalRowsFrozen ==
  [][\A r \in Runs :
       status[r] \in Terminal =>
         /\ signal'[r] = signal[r]
         /\ cases'[r]  = cases[r]]_vars

(***************************************************************************)
(* cancelRun of a running run whose build URL it read marks it cancelled   *)
(* only when the build is no longer doing its work.                        *)
(***************************************************************************)
CancelledFromRunning(c) ==
  /\ status[Target[c]] = "running"
  /\ status'[Target[c]] = "cancelled"
  /\ cancel[c] = "stopped" /\ cancel'[c] = "answering"

CancelStopsBuild ==
  [][\A c \in Cancels :
       CancelledFromRunning(c) /\ cancelUrl[c] = "build"
         => job[Target[c]] \in {"failing", "over"}]_vars

(***************************************************************************)
(* Every created run reaches a terminal status, whatever becomes of        *)
(* triggerRun, the build and its webhooks: the reaper sees to it.          *)
(***************************************************************************)
EveryRunEnds ==
  \A r \in Runs : status[r] \in NonTerminal ~> status[r] \in Terminal

(***************************************************************************)
(* The build of a run that was cancelled, timed out or failed is stopped   *)
(* in the end, even when the API crashes in between, if the row has the    *)
(* build's URL, or if the abort that a late build_started asked for is in  *)
(* the queue under it.  (While a worker is at the run's job under another  *)
(* URL, that abort does not get there: EnqueueAsserted.)                   *)
(***************************************************************************)
Orphaned(r) ==
  /\ status[r] \in {"cancelled", "timed_out", "error"}
  /\ \/ url[r] = "build" /\ trig[r] = "done"
     \/ jobUrl[r] = "build" /\ jobState[r] \in {"waiting", "active"}

OrphanBuildsStopped ==
  \A r \in Runs : Orphaned(r) ~> job[r] \in {"failing", "over"}

(***************************************************************************)
(* A cancel request is answered: cancelRun's "re-read and retry" cannot go *)
(* round for ever, because a run leaves the queue only once.               *)
(***************************************************************************)
CancelAnswered ==
  \A c \in Cancels : cancel[c] # "idle" ~> cancel[c] = "done"

-----------------------------------------------------------------------------
(***************************************************************************)
(* The inductive invariant behind the safety properties above.             *)
(***************************************************************************)

\* No row before the transaction of the fence commits; while that transaction
\* is open its user has no active run, and no other transaction like it.
FenceInv ==
  \A r \in Runs :
    /\ trig[r] \in {"idle", "counted"} => status[r] = "none"
    /\ trig[r] = "counted" =>
         \A s \in Runs :
           SameOwner(r, s) =>
             /\ status[s] \notin NonTerminal
             /\ trig[s] = "counted" => s = r

\* A build exists only after its row, and reports its start at most once; the
\* report is what made a running row running.
StartInv ==
  \A r \in Runs :
    /\ trig[r] \notin {"idle", "counted", "done"} \/ job[r] # "none"
         => status[r] # "none"
    /\ trig[r] \in {"idle", "counted", "created"} => job[r] = "none"
    /\ job[r] \in {"none", "waiting"} => \A e \in Event : hook[r][e] = "idle"
    /\ status[r] = "running" => hook[r].build_started = "ok"

\* What a cancel or a scan has read is still true enough to act upon.
SnapshotInv ==
  /\ \A c \in Cancels :
       /\ cancel[c] \in {"read_running", "stopped", "erroring"}
            => status[Target[c]] \notin {"none", "queued"}
       /\ cancel[c] = "requeueing" => status[Target[c]] \in Terminal
  /\ \A r \in Runs : picked[r] = "orphan" => status[r] \in Terminal

Begun(r)    == job[r] \notin {"none", "waiting"}
Stopping(r) == job[r] \in {"failing", "over"}

\* A build URL, on the row or read from it by a cancel, is that of a build that
\* has begun; and the abort under that URL has stopped it.
StopInv ==
  /\ \A r \in Runs : url[r] = "build" => Begun(r)
  /\ \A c \in Cancels :
       cancelUrl[c] = "build" =>
         /\ Begun(Target[c])
         /\ cancel[c] = "stopped" => Stopping(Target[c])

\* Every part of the argument at once: what TLC checks and the proofs carry.
LifecycleInv ==
  /\ OneActiveRunPerUser
  /\ FenceInv
  /\ StartInv
  /\ SnapshotInv
  /\ StopInv
  /\ AbortsOnlyTerminalRuns

-----------------------------------------------------------------------------
(***************************************************************************)
(* What the documents and comments of the repository say and the code does *)
(* not keep to.                                                            *)
(***************************************************************************)

\* A running run is cancelled once the abort has stopped its build.  The second
\* transaction of triggerRun may have put the queue item's URL back on the row;
\* the abort then goes to an item long gone, and its 404 counts as success.
RunningCancelStopsBuild ==
  [][\A c \in Cancels :
       CancelledFromRunning(c) => job[Target[c]] \in {"failing", "over"}]_vars

\* The sweep enqueues the abort of every orphan again.  A job in the failed
\* set makes that a no-op, so after MaxAttempts failures nobody tries again.
SweepReenqueues ==
  [][\A r \in Runs :
       picked[r] = "orphan" /\ picked'[r] = "no" /\ crashes' = crashes
         => jobState'[r] \in {"waiting", "active"}]_vars
=============================================================================
