-------------------------- MODULE RunLifecycleProofs --------------------------
(***************************************************************************)
(* The safety properties of RunLifecycle for any runs, users, cancel       *)
(* requests, faults and bounds.                                            *)
(*                                                                         *)
(* The argument: a row only ever moves along the state machine (RowSteps), *)
(* so what is known of a row that has left the queue stays true, and what  *)
(* a caller read before an await is still good enough when it acts.  Each  *)
(* part of the inductive invariant LifecycleInv then has a step lemma.     *)
(***************************************************************************)
EXTENDS RunLifecycleTyping
-----------------------------------------------------------------------------
(***************************************************************************)
(* What a step does to the rows: it leaves status and cases alone, or it   *)
(* takes one row along the state machine.                                  *)
(***************************************************************************)
Quiet == UNCHANGED machineVars

Onward(s) ==
  \/ status'[s] = status[s]
  \/ status[s] = "queued" /\ status'[s] \in {"running", "error", "cancelled"}
  \/ status[s] = "running" /\ status'[s] \in Terminal

Moves(r, from, targets) ==
  /\ status[r] = from
  /\ \E to \in targets : status' = [status EXCEPT ![r] = to]
  /\ UNCHANGED cases

Completes(r) ==
  /\ status[r] = "running"
  /\ \E verdict \in Verdicts :
       /\ status' = [status EXCEPT ![r] = StatusOf(verdict)]
       /\ cases'  = [cases  EXCEPT ![r] = verdict]

RowStep ==
  \/ Quiet
  \/ \E r \in Runs :
       \/ Moves(r, "queued", {"running"}) \/ Moves(r, "queued", {"error", "cancelled"})
       \/ Moves(r, "running", {"error", "cancelled", "timed_out"})
       \/ Completes(r)

LEMMA RowSteps ==
  ASSUME TypeOK, [Next]_vars
  PROVE  RowStep \/ \E r \in Runs : TriggerCreate(r)
  <1> USE LifecycleAssumption DEF rowVars
  <1>1. ASSUME NEW r \in Runs, TriggerCount(r) PROVE Quiet
    BY <1>1 DEF TriggerCount, Quiet, machineVars
  <1>2. ASSUME NEW r \in Runs, TriggerCreate(r)
        PROVE  \E s \in Runs : TriggerCreate(s)
    BY <1>2
  <1>4. ASSUME NEW r \in Runs, TriggerBuild(r) PROVE Quiet
    BY <1>4 DEF TriggerBuild, Quiet, machineVars
  <1>5. ASSUME NEW r \in Runs, TriggerFails(r) PROVE Quiet
    BY <1>5 DEF TriggerFails, Quiet, machineVars
  <1>6. ASSUME NEW r \in Runs, TriggerRecord(r) PROVE Quiet
    BY <1>6 DEF TriggerRecord, Quiet, machineVars
  <1>7. ASSUME NEW r \in Runs, TriggerRecordFails(r) PROVE Quiet
    BY <1>7 DEF TriggerRecordFails, Quiet, machineVars
  <1>8. ASSUME NEW r \in Runs, TriggerCatch(r) PROVE RowStep
    BY <1>8 DEF TriggerCatch, SetStatus, RowStep, Moves, Quiet, machineVars
  <1>9. ASSUME NEW r \in Runs, TriggerCatchFails(r) PROVE Quiet
    BY <1>9 DEF TriggerCatchFails, Quiet, machineVars
  <1>11. ASSUME NEW r \in Runs, BuildStarts(r) PROVE Quiet
    BY <1>11 DEF BuildStarts, Agent, Quiet, machineVars
  <1>12. ASSUME NEW r \in Runs, BuildProceeds(r) PROVE Quiet
    BY <1>12 DEF BuildProceeds, Agent, Quiet, machineVars
  <1>13. ASSUME NEW r \in Runs, BuildCompletes(r) PROVE Quiet
    BY <1>13 DEF BuildCompletes, Agent, Quiet, machineVars
  <1>14. ASSUME NEW r \in Runs, BuildFails(r) PROVE Quiet
    BY <1>14 DEF BuildFails, Agent, Quiet, machineVars
  <1>15. ASSUME NEW r \in Runs, BuildEnds(r) PROVE Quiet
    BY <1>15 DEF BuildEnds, Agent, Quiet, machineVars
  <1>16. ASSUME NEW r \in Runs, DeliveryFails(r) PROVE Quiet
    BY <1>16 DEF DeliveryFails, Agent, Quiet, machineVars
  <1>17. ASSUME NEW r \in Runs, BuildVanishes(r) PROVE Quiet
    BY <1>17 DEF BuildVanishes, Agent, Quiet, machineVars
  <1>18. ASSUME NEW r \in Runs, NEW e \in Event, WebhookRead(r, e) PROVE Quiet
    BY <1>18 DEF WebhookRead, Webhook, Quiet, machineVars
  <1>19. ASSUME NEW r \in Runs, NEW e \in Event, WebhookFails(r, e)
        PROVE  Quiet
    BY <1>19 DEF WebhookFails, Webhook, Quiet, machineVars
  <1>20. ASSUME NEW r \in Runs, HandleBuildStarted(r) PROVE RowStep
    BY <1>20 DEF HandleBuildStarted, Webhook, StartRun, RefuseStart,
       SetStatus, RowStep, Moves, Quiet, machineVars
  <1>21. ASSUME NEW r \in Runs, HandleBuildCompleted(r) PROVE RowStep
    BY <1>21 DEF HandleBuildCompleted, Webhook, SetStatus, RowStep,
       Completes, Quiet, machineVars
  <1>22. ASSUME NEW r \in Runs, HandleBuildErrored(r) PROVE RowStep
    BY <1>22 DEF HandleBuildErrored, Webhook, Finish, SetStatus, RowStep,
       Moves, Quiet, machineVars
  <1>23. ASSUME NEW r \in Runs, HandleHeartbeat(r) PROVE Quiet
    BY <1>23 DEF HandleHeartbeat, Webhook, Quiet, machineVars
  <1>24. ASSUME NEW r \in Runs, RunDeferred(r) PROVE Quiet
    BY <1>24 DEF RunDeferred, Quiet, machineVars
  <1>25. ASSUME NEW r \in Runs, AbortTaken(r) PROVE Quiet
    BY <1>25 DEF AbortTaken, Worker, Quiet, machineVars
  <1>26. ASSUME NEW r \in Runs, AbortSucceeds(r) PROVE Quiet
    BY <1>26 DEF AbortSucceeds, Worker, Quiet, machineVars
  <1>27. ASSUME NEW r \in Runs, AbortFails(r) PROVE Quiet
    BY <1>27 DEF AbortFails, Worker, Quiet, machineVars
  <1>28. ASSUME NEW r \in Runs, SignalAges(r) PROVE Quiet
    BY <1>28 DEF SignalAges, Quiet, machineVars
  <1>29. ASSUME NEW r \in Runs, TimeLimitPasses(r) PROVE Quiet
    BY <1>29 DEF TimeLimitPasses, Quiet, machineVars
  <1>30. ASSUME NEW c \in Cancels, CancelCheck(c) PROVE Quiet
    BY <1>30 DEF CancelCheck, Api, Quiet, machineVars
  <1>31. ASSUME NEW c \in Cancels, CancelRead(c) PROVE Quiet
    BY <1>31 DEF CancelRead, Api, Quiet, machineVars
  <1>32. ASSUME NEW c \in Cancels, CancelQueued(c) PROVE RowStep
    BY <1>32 DEF CancelQueued, Api, SetStatus, RowStep, Moves, Quiet,
       machineVars
  <1>33. ASSUME NEW c \in Cancels, CancelAbort(c) PROVE Quiet
    BY <1>33 DEF CancelAbort, Api, Quiet, machineVars
  <1>34. ASSUME NEW c \in Cancels, CancelAbortFails(c) PROVE Quiet
    BY <1>34 DEF CancelAbortFails, Api, Quiet, machineVars
  <1>35. ASSUME NEW c \in Cancels, CancelRunning(c) PROVE RowStep
    BY <1>35 DEF CancelRunning, Api, SetStatus, RowStep, Moves, Quiet,
       machineVars
  <1>36. ASSUME NEW c \in Cancels, CancelAnswer(c) PROVE Quiet
    BY <1>36 DEF CancelAnswer, Api, Quiet, machineVars
  <1>37. ASSUME NEW c \in Cancels, CancelError(c) PROVE RowStep
    BY <1>37 DEF CancelError, Api, FinishIf, Finish, SetStatus, RowStep,
       Moves, Quiet, machineVars
  <1>38. ASSUME NEW c \in Cancels, CancelRequeue(c) PROVE Quiet
    BY <1>38 DEF CancelRequeue, Api, Quiet, machineVars
  <1>39. ASSUME SweepScan PROVE Quiet
    BY <1>39 DEF SweepScan, Reaper, Scan, Quiet, machineVars
  <1>40. ASSUME SweepDone PROVE Quiet
    BY <1>40 DEF SweepDone, Reaper, Quiet, machineVars
  <1>41. ASSUME NEW r \in Runs, SweepRow(r) PROVE RowStep
    BY <1>41 DEF SweepRow, Reaper, FinishIf, Finish, SetStatus, RowStep,
       Moves, Quiet, machineVars
  <1>42. ASSUME SweepThrows PROVE Quiet
    BY <1>42 DEF SweepThrows, Quiet, machineVars
  <1>43. ASSUME Crash PROVE Quiet
    BY <1>43 DEF Crash, Quiet, machineVars
  <1>44. ASSUME UNCHANGED vars PROVE Quiet
    BY <1>44 DEF vars, Quiet, machineVars
  <1>45. QED
    BY <1>1, <1>2, <1>4, <1>5, <1>6, <1>7, <1>8, <1>9, <1>11,
       <1>12, <1>13, <1>14, <1>15, <1>16, <1>17, <1>18, <1>19, <1>20, <1>21,
       <1>22, <1>23, <1>24, <1>25, <1>26, <1>27, <1>28, <1>29, <1>30, <1>31,
       <1>32, <1>33, <1>34, <1>35, <1>36, <1>37, <1>38, <1>39, <1>40,
       <1>41, <1>42, <1>43, <1>44
       DEF RowStep, Next, Trigger, Jenkins, Webhooks, Aborts, Cancel, Sweep

LEMMA RowStepOnward ==
  ASSUME TypeOK, RowStep
  PROVE  \A s \in Runs : Onward(s)
  BY DEF RowStep, Quiet, machineVars, Moves, Completes, StatusOf, Onward, Terminal,
         TypeOK, RowTypeOK, Verdicts

LEMMA RowStepMapped ==
  ASSUME RowStep
  PROVE  [Machine!MachineNext]_(Machine!machineVars)
  <1>1. CASE Quiet
    BY <1>1 DEF Quiet, machineVars, Machine!machineVars
  <1>2. ASSUME NEW r \in Runs, Moves(r, "queued", {"running"})
        PROVE  Machine!Start(r)
    BY <1>2 DEF Moves, Machine!Start, Machine!Move
  <1>3. ASSUME NEW r \in Runs, Moves(r, "queued", {"error", "cancelled"})
        PROVE  Machine!LeaveQueue(r)
    BY <1>3 DEF Moves, Machine!LeaveQueue, Machine!Move
  <1>4. ASSUME NEW r \in Runs, Moves(r, "running", {"error", "cancelled", "timed_out"})
        PROVE  Machine!GiveUp(r)
    BY <1>4 DEF Moves, Machine!GiveUp, Machine!Move
  <1>5. ASSUME NEW r \in Runs, Completes(r)
        PROVE  \E verdict \in Machine!Verdicts : Machine!Complete(r, verdict)
    BY <1>5 DEF Completes, Verdicts, StatusOf, Machine!Verdicts, Machine!StatusOf,
                Machine!Complete, Machine!Move
  <1>6. QED
    BY <1>1, <1>2, <1>3, <1>4, <1>5 DEF RowStep, Machine!MachineNext

-----------------------------------------------------------------------------
(***************************************************************************)
(* Which variables each actor leaves alone.                                *)
(***************************************************************************)
Clock(r) == SignalAges(r) \/ TimeLimitPasses(r)

LEMMA TriggerFrame ==
  ASSUME NEW r \in Runs, Trigger(r)
  PROVE  UNCHANGED <<hook, deferred, cancel, picked, jobState>>
  BY DEF Trigger, TriggerCount, TriggerCreate, TriggerBuild,
         TriggerFails, TriggerRecord, TriggerRecordFails, TriggerCatch,
         TriggerCatchFails, rowVars, buildVars, cancelVars,
         sweepVars, queueVars

LEMMA JenkinsFrame ==
  ASSUME NEW r \in Runs, Jenkins(r)
  PROVE  UNCHANGED <<status, trig, deferred, cancel, picked, jobState>>
  BY DEF Jenkins, BuildStarts, BuildProceeds, BuildCompletes, BuildFails,
         BuildEnds, DeliveryFails, BuildVanishes, Agent, rowVars,
         cancelVars, sweepVars, queueVars

LEMMA WebhooksFrame ==
  ASSUME NEW r \in Runs, Webhooks(r)
  PROVE  UNCHANGED <<trig, job, cancel, picked>>
  BY DEF Webhooks, WebhookRead, WebhookFails, HandleBuildStarted,
         HandleBuildCompleted, HandleBuildErrored, HandleHeartbeat, RunDeferred,
         Webhook, buildVars, cancelVars, sweepVars

LEMMA CancelFrame ==
  ASSUME NEW c \in Cancels, Cancel(c)
  PROVE  UNCHANGED <<trig, deferred, picked>>
  BY DEF Cancel, CancelCheck, CancelRead, CancelQueued, CancelAbort,
         CancelAbortFails, CancelRunning, CancelAnswer, CancelError,
         CancelRequeue, Api, sweepVars

LEMMA SweepFrame ==
  ASSUME Sweep \/ SweepThrows
  PROVE  UNCHANGED <<trig, job, hook, deferred, cancel>>
  BY DEF Sweep, SweepScan, Scan, SweepDone, SweepRow, SweepThrows, Reaper,
         buildVars, cancelVars

LEMMA AbortsFrame ==
  ASSUME NEW r \in Runs, Aborts(r)
  PROVE  UNCHANGED <<status, trig, deferred, cancel, picked>>
  BY DEF Aborts, AbortTaken, AbortSucceeds, AbortFails, Worker, rowVars,
         cancelVars, sweepVars

LEMMA ClockFrame ==
  ASSUME NEW r \in Runs, Clock(r)
  PROVE  UNCHANGED <<status, trig, job, hook, deferred, cancel, picked, jobState>>
  BY DEF Clock, SignalAges, TimeLimitPasses, buildVars, cancelVars,
         sweepVars, queueVars

-----------------------------------------------------------------------------
(***************************************************************************)
(* The fence.  A run can only be created while its user has no other, and  *)
(* a row that has become terminal never comes back.                        *)
(***************************************************************************)

\* No step but TriggerCount brings a triggerRun into the fence's transaction.
NoEntry == \A s \in Runs : trig'[s] \in {"idle", "counted"} => trig'[s] = trig[s]

LEMMA TriggerEntries ==
  ASSUME TypeOK, NEW r \in Runs, Trigger(r)
  PROVE  NoEntry \/ TriggerCount(r)
  BY DEF Trigger, TriggerCreate, TriggerBuild, TriggerFails,
         TriggerRecord, TriggerRecordFails, TriggerCatch, TriggerCatchFails, At, NoEntry, TypeOK, CallTypeOK

LEMMA Entries ==
  ASSUME TypeOK, [Next]_vars
  PROVE  NoEntry \/ \E r \in Runs : TriggerCount(r)
  <1>1. ASSUME NEW r \in Runs, Trigger(r)
        PROVE  NoEntry \/ \E s \in Runs : TriggerCount(s)
    BY <1>1, TriggerEntries
  <1>2. ASSUME NEW r \in Runs, Jenkins(r) PROVE NoEntry
    BY <1>2, JenkinsFrame DEF NoEntry
  <1>3. ASSUME NEW r \in Runs, Webhooks(r) PROVE NoEntry
    BY <1>3, WebhooksFrame DEF NoEntry
  <1>4. ASSUME NEW r \in Runs, Aborts(r) PROVE NoEntry
    BY <1>4, AbortsFrame DEF NoEntry
  <1>5. ASSUME NEW r \in Runs, Clock(r) PROVE NoEntry
    BY <1>5, ClockFrame DEF NoEntry
  <1>6. ASSUME NEW c \in Cancels, Cancel(c) PROVE NoEntry
    BY <1>6, CancelFrame DEF NoEntry
  <1>7. ASSUME Sweep \/ SweepThrows PROVE NoEntry
    BY <1>7, SweepFrame DEF NoEntry
  <1>8. ASSUME Crash PROVE NoEntry
    BY <1>8 DEF Crash, NoEntry, TypeOK, CallTypeOK
  <1>9. ASSUME UNCHANGED vars PROVE NoEntry
    BY <1>9 DEF vars, NoEntry
  <1>10. QED
    BY <1>1, <1>2, <1>3, <1>4, <1>5, <1>6, <1>7, <1>8, <1>9 DEF Next, Clock

LEMMA CreateMapped ==
  ASSUME FenceInv, NEW r \in Runs, TriggerCreate(r)
  PROVE  Machine!Create(r)
  BY DEF FenceInv, TriggerCreate, At, SetStatus, Machine!Create, Machine!Move,
         Machine!NonTerminal, NonTerminal, Machine!SameOwner, SameOwner

LEMMA FenceCreate ==
  ASSUME TypeOK, FenceInv, OneActiveRunPerUser, NEW r \in Runs, TriggerCreate(r)
  PROVE  FenceInv' /\ OneActiveRunPerUser'
  <1>1. /\ trig[r] = "counted"
        /\ \A s \in Runs : SameOwner(r, s) =>
             status[s] \notin NonTerminal /\ (trig[s] = "counted" => s = r)
    BY DEF TriggerCreate, At, FenceInv
  <1>2. /\ status' = [status EXCEPT ![r] = "queued"]
        /\ trig'   = [trig   EXCEPT ![r] = "created"]
    BY DEF TriggerCreate, At, SetStatus
  <1>3. \A s \in Runs : SameOwner(r, s) <=> SameOwner(s, r)
    BY DEF SameOwner
  <1>4. FenceInv'
    BY <1>1, <1>2, <1>3 DEF FenceInv, TypeOK, RowTypeOK, CallTypeOK, SameOwner
  <1>5. OneActiveRunPerUser'
    BY <1>1, <1>2, <1>3
       DEF OneActiveRunPerUser, Machine!OneActiveRunPerUser, Machine!SameOwner,
           Machine!NonTerminal, NonTerminal, SameOwner, TypeOK, RowTypeOK
  <1>6. QED
    BY <1>4, <1>5

LEMMA FenceCount ==
  ASSUME TypeOK, FenceInv, NEW r \in Runs, TriggerCount(r)
  PROVE  FenceInv'
  <1>1. /\ trig[r] = "idle"
        /\ UNCHANGED status
        /\ \A s \in Runs : SameOwner(r, s) => trig[s] # "counted"
    BY DEF TriggerCount, rowVars
  <1>2. \/ trig' = [trig EXCEPT ![r] = "done"]
        \/ /\ trig' = [trig EXCEPT ![r] = "counted"]
           /\ \A s \in Runs : SameOwner(r, s) => status[s] \notin NonTerminal
    BY DEF TriggerCount
  <1>3. QED
    BY <1>1, <1>2 DEF FenceInv, SameOwner, TypeOK, CallTypeOK

LEMMA FenceOnward ==
  ASSUME FenceInv, OneActiveRunPerUser, \A s \in Runs : Onward(s)
  PROVE  OneActiveRunPerUser' /\ (NoEntry => FenceInv')
  <1>1. \A s \in Runs : status'[s] \in NonTerminal => status[s] \in NonTerminal
    BY DEF Onward, NonTerminal, Terminal
  <1>2. OneActiveRunPerUser'
    BY <1>1 DEF OneActiveRunPerUser, Machine!OneActiveRunPerUser,
                Machine!SameOwner, Machine!NonTerminal, NonTerminal
  <1>3. ASSUME NoEntry PROVE FenceInv'
    BY <1>1, <1>3 DEF FenceInv, NoEntry, Onward, SameOwner
  <1>4. QED
    BY <1>2, <1>3

LEMMA FenceStep ==
  ASSUME TypeOK, FenceInv, OneActiveRunPerUser, [Next]_vars
  PROVE  FenceInv' /\ OneActiveRunPerUser'
  <1>1. CASE \E r \in Runs : TriggerCreate(r)
    BY <1>1, FenceCreate
  <1>2. CASE RowStep
    <2>1. \A s \in Runs : Onward(s)
      BY <1>2, RowStepOnward
    <2>2. CASE NoEntry
      BY <2>1, <2>2, FenceOnward
    <2>3. CASE \E r \in Runs : TriggerCount(r)
      BY <2>1, <2>3, FenceOnward, FenceCount
    <2>4. QED
      BY <2>2, <2>3, Entries
  <1>3. QED
    BY <1>1, <1>2, RowSteps

-----------------------------------------------------------------------------
(***************************************************************************)
(* Builds and reports: a build has a row, and only a delivered             *)
(* build_started makes a run running.                                      *)
(***************************************************************************)
LEMMA StartKept ==
  ASSUME StartInv, \A s \in Runs : Onward(s), UNCHANGED <<trig, job, hook>>,
         \A s \in Runs : status'[s] = "running" => status[s] = "running"
  PROVE  StartInv'
  BY DEF StartInv, Onward, Terminal

\* Stopping a build starts none, and leaves reports of its start alone.
LEMMA StartAbort ==
  ASSUME TypeOK, StartInv, NEW r \in Runs, NEW u \in Url,
         AbortBuild(r, u) \/ UNCHANGED buildVars, UNCHANGED <<status, trig>>
  PROVE  StartInv'
  <1>1. CASE job' = [job EXCEPT ![r] = "over"] /\ UNCHANGED hook /\ job[r] = "waiting"
    BY <1>1 DEF StartInv, TypeOK, BuildTypeOK
  <1>2. CASE /\ job[r] \in {"starting", "building", "completing"}
             /\ EndInFailure(r)
    BY <1>2 DEF EndInFailure, StartInv, TypeOK, BuildTypeOK, Event
  <1>3. CASE UNCHANGED buildVars
    BY <1>3 DEF buildVars, StartInv
  <1>4. QED
    BY <1>1, <1>2, <1>3 DEF AbortBuild

LEMMA StartTrigger ==
  ASSUME TypeOK, StartInv, NEW r \in Runs, Trigger(r)
  PROVE  StartInv'
  <1> USE DEF TypeOK, RowTypeOK, CallTypeOK, BuildTypeOK, StartInv
  <1>1. CASE TriggerCount(r)
    BY <1>1 DEF TriggerCount, rowVars, buildVars
  <1>2. CASE TriggerCreate(r)
    BY <1>2 DEF TriggerCreate, At, SetStatus, buildVars
  <1>4. CASE TriggerBuild(r)
    BY <1>4 DEF TriggerBuild, At, rowVars
  <1>5. CASE TriggerFails(r)
    BY <1>5 DEF TriggerFails, At, rowVars
  <1>6. CASE TriggerRecord(r) \/ TriggerRecordFails(r)
    BY <1>6 DEF TriggerRecord, TriggerRecordFails, At, rowVars, buildVars
  <1>7. CASE TriggerCatch(r) \/ TriggerCatchFails(r)
    BY <1>7 DEF TriggerCatch, TriggerCatchFails, At, SetStatus, rowVars, buildVars
  <1>9. QED
    BY <1>1, <1>2, <1>4, <1>5, <1>6, <1>7 DEF Trigger

LEMMA StartJenkins ==
  ASSUME TypeOK, StartInv, NEW r \in Runs, Jenkins(r)
  PROVE  StartInv'
  <1> USE DEF TypeOK, BuildTypeOK, StartInv, Event
  <1>0. UNCHANGED <<status, trig>>
    BY JenkinsFrame
  <1>1. CASE BuildStarts(r)
    BY <1>0, <1>1 DEF BuildStarts, EndInFailure
  <1>2. CASE BuildProceeds(r)
    BY <1>0, <1>2 DEF BuildProceeds
  <1>3. CASE BuildCompletes(r)
    BY <1>0, <1>3 DEF BuildCompletes
  <1>4. CASE BuildFails(r)
    BY <1>0, <1>4 DEF BuildFails, EndInFailure
  <1>5. CASE BuildEnds(r)
    BY <1>0, <1>5 DEF BuildEnds
  <1>6. CASE DeliveryFails(r)
    <2> DEFINE e == Awaiting(r)
    <2>1. e \in Event
      BY DEF Awaiting
    <2>2. \A s \in Runs : s # r => job'[s] = job[s] /\ hook'[s] = hook[s]
      BY <1>6 DEF DeliveryFails
    <2>3. job[r] \in Executing /\ job'[r] \in {"over", "failing"}
      BY <1>6 DEF DeliveryFails, Executing
    <2>4. hook[r].build_started = "ok" => hook'[r].build_started = "ok"
      <3> HIDE DEF e
      <3>1. \E given : /\ \/ given = hook[r]
                          \/ hook[r][e] = "sent" /\ given = [hook[r] EXCEPT ![e] = "lost"]
                       /\ \/ hook'[r] = given
                          \/ hook'[r] = [given EXCEPT !["build_errored"] = "sent"]
        BY <1>6 DEF DeliveryFails, e
      <3>2. QED
        BY <2>1, <3>1
    <2>5. QED
      BY <1>0, <2>2, <2>3, <2>4 DEF Executing
  <1>7. CASE BuildVanishes(r)
    BY <1>0, <1>7 DEF BuildVanishes, Executing
  <1>8. QED
    BY <1>1, <1>2, <1>3, <1>4, <1>5, <1>6, <1>7 DEF Jenkins

LEMMA StartWebhooks ==
  ASSUME TypeOK, StartInv, NEW r \in Runs, Webhooks(r), \A s \in Runs : Onward(s)
  PROVE  StartInv'
  <1> USE DEF TypeOK, BuildTypeOK, StartInv, Event
  <1>0. UNCHANGED <<trig, job>>
    BY WebhooksFrame
  <1>1. ASSUME NEW e \in Event, WebhookRead(r, e) PROVE StartInv'
    BY <1>0, <1>1 DEF WebhookRead, Answer, rowVars
  <1>2. ASSUME NEW e \in Event, WebhookFails(r, e) PROVE StartInv'
    BY <1>0, <1>2 DEF WebhookFails, Answer, rowVars, NonTerminal
  <1>3. CASE HandleBuildStarted(r)
    BY <1>0, <1>3 DEF HandleBuildStarted, StartRun, RefuseStart, SetStatus,
                      Answer, rowVars, NonTerminal, RowTypeOK
  <1>4. CASE HandleBuildCompleted(r)
    <2>1. CASE hook[r].build_completed = "running" /\ status[r] = "running"
      <3>1. PICK verdict \in Verdicts : SetStatus(r, StatusOf(verdict))
        BY <1>4, <2>1 DEF HandleBuildCompleted
      <3>2. Answer(r, "build_completed", "ok") /\ UNCHANGED url
        BY <1>4, <2>1 DEF HandleBuildCompleted
      <3>3. QED
        BY <1>0, <2>1, <3>1, <3>2 DEF SetStatus, StatusOf, Answer, NonTerminal, RowTypeOK
    <2>2. CASE ~(hook[r].build_completed = "running" /\ status[r] = "running")
      BY <1>0, <1>4, <2>2 DEF HandleBuildCompleted, Answer, rowVars, NonTerminal
    <2>3. QED
      BY <2>1, <2>2
  <1>5. CASE HandleBuildErrored(r)
    BY <1>0, <1>5 DEF HandleBuildErrored, Finish, SetStatus, Answer, rowVars,
                      NonTerminal, RowTypeOK
  <1>6. CASE HandleHeartbeat(r) \/ RunDeferred(r)
    BY <1>0, <1>6 DEF HandleHeartbeat, RunDeferred, rowVars, buildVars
  <1>7. QED
    BY <1>1, <1>2, <1>3, <1>4, <1>5, <1>6 DEF Webhooks

LEMMA StartCancel ==
  ASSUME TypeOK, StartInv, NEW c \in Cancels, Cancel(c), \A s \in Runs : Onward(s)
  PROVE  StartInv'
  <1>0. UNCHANGED trig /\ Target[c] \in Runs /\ cancelUrl[c] \in Url
    BY CancelFrame, LifecycleAssumption DEF TypeOK, CallTypeOK
  <1>1. CASE CancelAbort(c) \/ CancelAbortFails(c)
    BY <1>0, <1>1, StartAbort DEF CancelAbort, CancelAbortFails, rowVars
  <1>2. CASE CancelCheck(c) \/ CancelRead(c) \/ CancelAnswer(c)
    BY <1>0, <1>2, StartKept
       DEF CancelCheck, CancelRead, CancelAnswer, rowVars, buildVars
  <1>3. CASE CancelQueued(c) \/ CancelRunning(c) \/ CancelError(c)
    BY <1>0, <1>3, StartKept
       DEF CancelQueued, CancelRunning, CancelError, FinishIf, Finish, SetStatus,
           TypeOK, RowTypeOK, rowVars, buildVars
  <1>4. CASE CancelRequeue(c)
    BY <1>0, <1>4, StartKept DEF CancelRequeue, rowVars, buildVars
  <1>5. QED
    BY <1>1, <1>2, <1>3, <1>4 DEF Cancel

LEMMA StartSweep ==
  ASSUME TypeOK, StartInv, Sweep \/ SweepThrows, \A s \in Runs : Onward(s)
  PROVE  StartInv'
  <1>1. \A s \in Runs : status'[s] = "running" => status[s] = "running"
    BY DEF Sweep, SweepScan, Scan, SweepDone, SweepRow, SweepThrows, FinishIf,
           Finish, SetStatus, TypeOK, RowTypeOK, rowVars
  <1>2. QED
    BY <1>1, SweepFrame, StartKept

LEMMA StartStep ==
  ASSUME TypeOK, StartInv, [Next]_vars
  PROVE  StartInv'
  <1>1. ASSUME NEW r \in Runs, Trigger(r) PROVE StartInv'
    BY <1>1, StartTrigger
  <1>2. ASSUME NEW r \in Runs, Jenkins(r) PROVE StartInv'
    BY <1>2, StartJenkins
  <1>3. CASE \E r \in Runs : TriggerCreate(r)
    BY <1>1, <1>3 DEF Trigger
  <1>4. CASE \A s \in Runs : Onward(s)
    <2>1. ASSUME NEW r \in Runs, Webhooks(r) PROVE StartInv'
      BY <1>4, <2>1, StartWebhooks
    <2>2. ASSUME NEW r \in Runs, Aborts(r) PROVE StartInv'
      <3>1. AbortBuild(r, jobUrl[r]) \/ UNCHANGED buildVars
        BY <2>2 DEF Aborts, AbortTaken, AbortSucceeds, AbortFails
      <3>2. QED
        BY <2>2, <3>1, AbortsFrame, StartAbort DEF TypeOK, QueueTypeOK
    <2>3. ASSUME NEW r \in Runs, Clock(r) PROVE StartInv'
      BY <1>4, <2>3, ClockFrame, StartKept
    <2>4. ASSUME NEW c \in Cancels, Cancel(c) PROVE StartInv'
      BY <1>4, <2>4, StartCancel
    <2>5. ASSUME Sweep \/ SweepThrows PROVE StartInv'
      BY <1>4, <2>5, StartSweep
    <2>6. ASSUME Crash PROVE StartInv'
      BY <2>6 DEF Crash, rowVars, StartInv, NonTerminal, TypeOK, CallTypeOK, Event
    <2>7. ASSUME UNCHANGED vars PROVE StartInv'
      BY <1>4, <2>7, StartKept DEF vars, rowVars, buildVars
    <2>8. QED
      BY <1>1, <1>2, <2>1, <2>2, <2>3, <2>4, <2>5, <2>6, <2>7 DEF Next, Clock
  <1>5. QED
    BY <1>3, <1>4, RowSteps, RowStepOnward

-----------------------------------------------------------------------------
(***************************************************************************)
(* What was read stays true: a run that has left the queue never returns   *)
(* to it, so a cancel or a scan may act on an old reading of the row.      *)
(***************************************************************************)
LEMMA SnapshotKept ==
  ASSUME SnapshotInv, \A s \in Runs : Onward(s), UNCHANGED <<cancel, picked>>
  PROVE  SnapshotInv'
  <1>1. \A s \in Runs :
          /\ status[s] \notin {"none", "queued"} => status'[s] \notin {"none", "queued"}
          /\ status[s] \in Terminal => status'[s] \in Terminal
    BY DEF Onward, Terminal
  <1>2. \A c \in Cancels : Target[c] \in Runs
    BY LifecycleAssumption
  <1>3. QED
    BY <1>1, <1>2 DEF SnapshotInv

LEMMA SnapshotCreate ==
  ASSUME TypeOK, SnapshotInv, NEW r \in Runs, TriggerCreate(r), status[r] = "none"
  PROVE  SnapshotInv'
  <1>1. status' = [status EXCEPT ![r] = "queued"] /\ UNCHANGED <<cancel, picked>>
    BY DEF TriggerCreate, SetStatus, cancelVars, sweepVars
  <1>2. \A c \in Cancels : Target[c] \in Runs
    BY LifecycleAssumption
  <1>3. QED
    BY <1>1, <1>2 DEF SnapshotInv, TypeOK, RowTypeOK, Terminal

LEMMA SnapshotCancel ==
  ASSUME TypeOK, SnapshotInv, NEW c \in Cancels, Cancel(c), \A s \in Runs : Onward(s)
  PROVE  SnapshotInv'
  <1> DEFINE r == Target[c]
  <1>1. r \in Runs /\ \A d \in Cancels : Target[d] \in Runs
    BY LifecycleAssumption
  <1>2. \A s \in Runs :
          /\ status[s] \notin {"none", "queued"} => status'[s] \notin {"none", "queued"}
          /\ status[s] \in Terminal => status'[s] \in Terminal
    BY DEF Onward, Terminal
  <1>3. cancel \in [Cancels -> {"idle", "checked", "read_queued", "read_running",
                                "stopped", "erroring", "requeueing",
                                "answering", "done"}]
    BY DEF TypeOK, CallTypeOK
  <1>4. \A s \in Runs : picked'[s] = "orphan" => status'[s] \in Terminal
    BY <1>2, CancelFrame DEF SnapshotInv
  <1>5. ASSUME NEW pc,
               pc \in {"read_running", "stopped", "erroring"}
                 => status'[r] \notin {"none", "queued"},
               pc = "requeueing" => status'[r] \in Terminal,
               cancel' = [cancel EXCEPT ![c] = pc]
        PROVE  SnapshotInv'
    BY <1>1, <1>2, <1>3, <1>4, <1>5 DEF SnapshotInv
  <1>6. CASE CancelCheck(c)
    BY <1>5, <1>6 DEF CancelCheck
  <1>7. CASE CancelRead(c)
    <2>1. UNCHANGED status
      BY <1>7 DEF CancelRead, rowVars
    <2>2. CASE status[r] = "queued"
      BY <1>5, <1>7, <2>2 DEF CancelRead
    <2>3. CASE status[r] = "running"
      BY <1>5, <1>7, <2>1, <2>3 DEF CancelRead
    <2>4. CASE status[r] \notin {"queued", "running"}
      BY <1>5, <1>7, <2>4 DEF CancelRead
    <2>5. QED
      BY <2>2, <2>3, <2>4
  <1>8. CASE CancelQueued(c)
    <2>1. CASE status[r] = "queued"
      BY <1>5, <1>8, <2>1 DEF CancelQueued
    <2>2. CASE status[r] # "queued"
      BY <1>5, <1>8, <2>2 DEF CancelQueued
    <2>3. QED
      BY <2>1, <2>2
  <1>9. CASE CancelAbort(c)
    BY <1>1, <1>2, <1>5, <1>9 DEF CancelAbort, At, SnapshotInv
  <1>10. CASE CancelAbortFails(c)
    BY <1>1, <1>2, <1>5, <1>10 DEF CancelAbortFails, At, SnapshotInv
  <1>11. CASE CancelRunning(c)
    <2>1. CASE status[r] = "running"
      BY <1>5, <1>11, <2>1 DEF CancelRunning
    <2>2. CASE status[r] # "running"
      BY <1>5, <1>11, <2>2 DEF CancelRunning
    <2>3. QED
      BY <2>1, <2>2
  <1>12. CASE CancelAnswer(c) \/ CancelRequeue(c)
    BY <1>5, <1>12 DEF CancelAnswer, CancelRequeue, At
  <1>13. CASE CancelError(c)
    \* a run read as running is running still, or terminal
    <2>1. status[r] \in {"running"} \union Terminal
      BY <1>1, <1>13
         DEF CancelError, At, SnapshotInv, TypeOK, RowTypeOK, Status, NonTerminal
    <2>2. status'[r] \in Terminal
      BY <1>1, <1>13, <2>1
         DEF CancelError, FinishIf, Finish, SetStatus, TypeOK, RowTypeOK, rowVars,
             Terminal
    <2>3. QED
      BY <1>5, <1>13, <2>2 DEF CancelError, At
  <1>14. QED
    BY <1>6, <1>7, <1>8, <1>9, <1>10, <1>11, <1>12, <1>13 DEF Cancel

LEMMA SnapshotSweep ==
  ASSUME TypeOK, SnapshotInv, Sweep \/ SweepThrows, \A s \in Runs : Onward(s)
  PROVE  SnapshotInv'
  <1>1. \A s \in Runs :
          /\ status[s] \notin {"none", "queued"} => status'[s] \notin {"none", "queued"}
          /\ status[s] \in Terminal => status'[s] \in Terminal
    BY DEF Onward, Terminal
  <1>2. UNCHANGED cancel /\ \A d \in Cancels : Target[d] \in Runs
    BY SweepFrame, LifecycleAssumption
  <1>3. \A s \in Runs : picked'[s] = "orphan" => status'[s] \in Terminal
    <2>1. CASE Scan("idle", "running", [r \in Runs |-> Stale(r)])
      BY <2>1 DEF Scan, Stale
    <2>2. CASE Scan("running", "queued", [r \in Runs |-> StuckQueued(r)])
      BY <2>2 DEF Scan, StuckQueued
    <2>3. CASE Scan("queued", "aborts", [r \in Runs |-> TerminalWithUrl(r)])
      BY <2>3 DEF Scan, TerminalWithUrl, Terminal, rowVars
    <2>4. CASE SweepDone
      BY <1>1, <2>4 DEF SweepDone, SnapshotInv
    <2>5. ASSUME NEW r \in Runs, SweepRow(r)
          PROVE  \A s \in Runs : picked'[s] = "orphan" => picked[s] = "orphan"
      BY <2>5 DEF SweepRow, Drop, TypeOK, CallTypeOK
    <2>6. CASE SweepThrows
      BY <2>6 DEF SweepThrows
    <2>7. QED
      BY <1>1, <2>1, <2>2, <2>3, <2>4, <2>5, <2>6
         DEF Sweep, SweepScan, SnapshotInv
  <1>4. QED
    BY <1>1, <1>2, <1>3 DEF SnapshotInv

LEMMA SnapshotStep ==
  ASSUME TypeOK, FenceInv, SnapshotInv, [Next]_vars
  PROVE  SnapshotInv'
  <1>1. CASE \E r \in Runs : TriggerCreate(r)
    BY <1>1, SnapshotCreate DEF TriggerCreate, At, FenceInv
  <1>2. CASE \A s \in Runs : Onward(s)
    <2>1. ASSUME NEW r \in Runs,
                 Trigger(r) \/ Jenkins(r) \/ Webhooks(r) \/ Aborts(r) \/ Clock(r)
          PROVE  UNCHANGED <<cancel, picked>>
      BY <2>1, TriggerFrame, JenkinsFrame, WebhooksFrame, AbortsFrame, ClockFrame
    <2>2. ASSUME NEW c \in Cancels, Cancel(c) PROVE SnapshotInv'
      BY <1>2, <2>2, SnapshotCancel
    <2>3. ASSUME Sweep \/ SweepThrows PROVE SnapshotInv'
      BY <1>2, <2>3, SnapshotSweep
    <2>4. ASSUME Crash PROVE SnapshotInv'
      BY <2>4 DEF Crash, SnapshotInv
    <2>5. ASSUME UNCHANGED vars PROVE UNCHANGED <<cancel, picked>>
      BY <2>5 DEF vars, cancelVars, sweepVars
    <2>6. QED
      BY <1>2, <2>1, <2>2, <2>3, <2>4, <2>5, SnapshotKept DEF Next, Clock
  <1>3. QED
    BY <1>1, <1>2, RowSteps, RowStepOnward

-----------------------------------------------------------------------------
(***************************************************************************)
(* Stopping a build.  A build that has begun never waits again and one     *)
(* that is stopping does not resume; so the abort that a cancel has sent   *)
(* under a build URL has stopped the build it meant, and for good.         *)
(***************************************************************************)
GoesOn(r) == (Begun(r) => Begun(r)') /\ (Stopping(r) => Stopping(r)')

LEMMA AbortGoesOn ==
  ASSUME TypeOK, NEW r \in Runs, NEW u \in Url, AbortBuild(r, u) \/ UNCHANGED buildVars
  PROVE  \A s \in Runs : GoesOn(s)
  BY DEF AbortBuild, EndInFailure, buildVars, TypeOK, BuildTypeOK, GoesOn, Begun, Stopping

\* What an abort under a build URL does to a build that has begun.
LEMMA AbortStops ==
  ASSUME TypeOK, NEW r \in Runs, Begun(r), AbortBuild(r, "build")
  PROVE  Stopping(r)'
  BY DEF AbortBuild, EndInFailure, buildVars, TypeOK, BuildTypeOK, BuildState, Begun, Stopping

LEMMA BuildsGoOn ==
  ASSUME TypeOK, StartInv, [Next]_vars
  PROVE  \A s \in Runs : GoesOn(s)
  <1> USE DEF GoesOn, Begun, Stopping, TypeOK, BuildTypeOK
  <1>1. ASSUME NEW r \in Runs, Trigger(r) PROVE \A s \in Runs : GoesOn(s)
    <2>1. CASE TriggerBuild(r)
      BY <2>1 DEF TriggerBuild, At, StartInv
    <2>2. CASE TriggerFails(r)
      BY <2>2 DEF TriggerFails, At, StartInv
    <2>3. CASE ~ TriggerBuild(r) /\ ~ TriggerFails(r)
      BY <1>1, <2>3 DEF Trigger, TriggerCount, TriggerCreate, TriggerRecord,
                        TriggerRecordFails, TriggerCatch, TriggerCatchFails,
                        buildVars
    <2>4. QED
      BY <2>1, <2>2, <2>3
  <1>2. ASSUME NEW r \in Runs, Jenkins(r) PROVE \A s \in Runs : GoesOn(s)
    <2>1. \A s \in Runs \ {r} : job'[s] = job[s]
      BY <1>2 DEF Jenkins, BuildStarts, BuildProceeds, BuildCompletes, BuildFails, BuildEnds,
                  DeliveryFails, BuildVanishes, EndInFailure
    <2>2. GoesOn(r)
      BY <1>2 DEF Jenkins, BuildStarts, BuildProceeds, BuildCompletes, BuildFails, BuildEnds,
                  DeliveryFails, BuildVanishes, EndInFailure, Executing
    <2>3. QED
      BY <2>1, <2>2
  <1>3. ASSUME NEW r \in Runs, Aborts(r) PROVE \A s \in Runs : GoesOn(s)
    <2>1. AbortBuild(r, jobUrl[r]) \/ UNCHANGED buildVars
      BY <1>3 DEF Aborts, AbortTaken, AbortSucceeds, AbortFails
    <2>2. jobUrl[r] \in Url
      BY DEF QueueTypeOK
    <2>3. QED
      BY <2>1, <2>2, AbortGoesOn
  <1>4. ASSUME NEW c \in Cancels, CancelAbort(c) \/ CancelAbortFails(c)
        PROVE  \A s \in Runs : GoesOn(s)
    <2>1. AbortBuild(Target[c], cancelUrl[c]) \/ UNCHANGED buildVars
      BY <1>4 DEF CancelAbort, CancelAbortFails
    <2>2. cancelUrl[c] \in Url /\ Target[c] \in Runs
      BY LifecycleAssumption DEF CallTypeOK
    <2>3. QED
      BY <2>1, <2>2, AbortGoesOn
  <1>5. ASSUME NEW c \in Cancels, Cancel(c), ~ CancelAbort(c), ~ CancelAbortFails(c)
        PROVE  UNCHANGED job
    BY <1>5 DEF Cancel, CancelCheck, CancelRead, CancelQueued, CancelRunning,
                CancelAnswer, CancelError, CancelRequeue, buildVars
  <1>6. ASSUME NEW r \in Runs, Webhooks(r) \/ Clock(r) PROVE UNCHANGED job
    BY <1>6, WebhooksFrame, ClockFrame
  <1>7. ASSUME Sweep \/ SweepThrows \/ Crash PROVE UNCHANGED job
    BY <1>7, SweepFrame DEF Crash
  <1>8. ASSUME UNCHANGED vars PROVE UNCHANGED job
    BY <1>8 DEF vars, buildVars
  <1>9. QED
    BY <1>1, <1>2, <1>3, <1>4, <1>5, <1>6, <1>7, <1>8 DEF Next, Clock

\* Only a build_started puts a build URL on a row.
LEMMA UrlOfBegun ==
  ASSUME TypeOK, StartInv, [Next]_vars, NEW s \in Runs, url'[s] = "build"
  PROVE  url[s] = "build" \/ Begun(s)
  <1> USE DEF TypeOK, RowTypeOK, rowVars
  <1>1. ASSUME NEW r \in Runs, Trigger(r), ~ TriggerRecord(r) PROVE UNCHANGED url
    BY <1>1 DEF Trigger, TriggerCount, TriggerCreate, TriggerBuild, TriggerFails,
                TriggerRecordFails, TriggerCatch, TriggerCatchFails
  <1>2. ASSUME NEW r \in Runs, TriggerRecord(r) PROVE url[s] = "build"
    BY <1>2 DEF TriggerRecord
  <1>3. ASSUME NEW r \in Runs, HandleBuildStarted(r) PROVE url[s] = "build" \/ Begun(s)
    <2>1. Begun(r)
      BY <1>3 DEF HandleBuildStarted, StartInv, Begun, NonTerminal, Event
    <2>2. \A t \in Runs : t # r => url'[t] = url[t]
      BY <1>3 DEF HandleBuildStarted, StartRun, RefuseStart
    <2>3. QED
      BY <2>1, <2>2
  <1>4. ASSUME NEW r \in Runs, Webhooks(r), ~ HandleBuildStarted(r) PROVE UNCHANGED url
    BY <1>4 DEF Webhooks, WebhookRead, WebhookFails, HandleBuildCompleted, HandleBuildErrored,
                Finish, HandleHeartbeat, RunDeferred
  <1>5. ASSUME NEW r \in Runs, Jenkins(r) PROVE UNCHANGED url
    BY <1>5 DEF Jenkins, BuildStarts, BuildProceeds, BuildCompletes, BuildFails, BuildEnds,
                DeliveryFails, BuildVanishes, Agent
  <1>6. ASSUME NEW r \in Runs, Aborts(r) PROVE UNCHANGED url
    BY <1>6 DEF Aborts, AbortTaken, AbortSucceeds, AbortFails, Worker
  <1>7. ASSUME NEW r \in Runs, Clock(r) PROVE UNCHANGED url
    BY <1>7 DEF Clock, SignalAges, TimeLimitPasses
  <1>8. ASSUME NEW c \in Cancels, Cancel(c) PROVE UNCHANGED url
    BY <1>8 DEF Cancel, CancelCheck, CancelRead, CancelQueued, CancelAbort, CancelAbortFails,
                CancelRunning, CancelAnswer, CancelError, FinishIf, Finish,
                CancelRequeue
  <1>9. ASSUME Sweep \/ SweepThrows \/ Crash PROVE UNCHANGED url
    BY <1>9 DEF Sweep, SweepScan, Scan, SweepDone, SweepRow, SweepThrows, FinishIf, Finish, Crash
  <1>10. ASSUME UNCHANGED vars PROVE UNCHANGED url
    BY <1>10 DEF vars
  <1>11. QED
    BY <1>1, <1>2, <1>3, <1>4, <1>5, <1>6, <1>7, <1>8, <1>9, <1>10 DEF Next, Clock

\* A cancel has the URL it had, or that of the row; and is past its abort only
\* if it was before or has just sent it.
LEMMA CancelReads ==
  ASSUME TypeOK, [Next]_vars, NEW d \in Cancels
  PROVE  /\ cancelUrl'[d] = cancelUrl[d] \/ (cancelUrl'[d] = url[Target[d]] /\ cancel'[d] # "stopped")
         /\ cancel'[d] = "stopped" => cancel[d] = "stopped" \/ CancelAbort(d)
  <1> USE DEF TypeOK, CallTypeOK
  <1>1. ASSUME NEW c \in Cancels, CancelRead(c)
        PROVE  /\ cancelUrl'[d] = cancelUrl[d] \/ (cancelUrl'[d] = url[Target[d]] /\ cancel'[d] # "stopped")
               /\ cancel'[d] = "stopped" => cancel[d] = "stopped"
    BY <1>1 DEF CancelRead
  <1>2. ASSUME NEW c \in Cancels, CancelAbort(c)
        PROVE  UNCHANGED cancelUrl /\ (cancel'[d] = "stopped" => cancel[d] = "stopped" \/ c = d)
    BY <1>2 DEF CancelAbort, At
  <1>3. ASSUME NEW c \in Cancels, Cancel(c), ~ CancelRead(c), ~ CancelAbort(c)
        PROVE  UNCHANGED cancelUrl /\ (cancel'[d] = "stopped" => cancel[d] = "stopped")
    BY <1>3 DEF Cancel, CancelCheck, CancelQueued, CancelAbortFails, CancelRunning,
                CancelAnswer, CancelError, CancelRequeue, At
  <1>4. ASSUME NEW r \in Runs,
               Trigger(r) \/ Jenkins(r) \/ Webhooks(r) \/ Aborts(r) \/ Clock(r)
        PROVE  UNCHANGED cancelVars
    BY <1>4 DEF Trigger, TriggerCount, TriggerCreate, TriggerBuild,
                TriggerFails, TriggerRecord, TriggerRecordFails, TriggerCatch,
                TriggerCatchFails, Jenkins, BuildStarts, BuildProceeds,
                BuildCompletes, BuildFails, BuildEnds, DeliveryFails, BuildVanishes, Agent,
                Webhooks, WebhookRead, WebhookFails, HandleBuildStarted, HandleBuildCompleted,
                HandleBuildErrored, HandleHeartbeat, RunDeferred, Webhook, Aborts, AbortTaken,
                AbortSucceeds, AbortFails, Worker, Clock, SignalAges, TimeLimitPasses
  <1>5. ASSUME Sweep \/ SweepThrows PROVE UNCHANGED cancelVars
    BY <1>5 DEF Sweep, SweepScan, Scan, SweepDone, SweepRow, SweepThrows, Reaper
  <1>6. ASSUME Crash PROVE UNCHANGED cancelUrl /\ cancel'[d] # "stopped"
    BY <1>6 DEF Crash
  <1>7. ASSUME UNCHANGED vars PROVE UNCHANGED cancelVars
    BY <1>7 DEF vars
  <1>8. QED
    BY <1>1, <1>2, <1>3, <1>4, <1>5, <1>6, <1>7 DEF Next, Clock, cancelVars

LEMMA StopStep ==
  ASSUME TypeOK, StartInv, StopInv, [Next]_vars
  PROVE  StopInv'
  <1>1. \A s \in Runs : GoesOn(s)
    BY BuildsGoOn
  <1>2. ASSUME NEW s \in Runs, url'[s] = "build" PROVE Begun(s)'
    BY <1>1, <1>2, UrlOfBegun DEF StopInv, GoesOn
  <1>3. ASSUME NEW c \in Cancels, cancelUrl'[c] = "build"
        PROVE  Begun(Target[c])' /\ (cancel'[c] = "stopped" => Stopping(Target[c])')
    <2>1. Target[c] \in Runs
      BY LifecycleAssumption
    <2>2. Begun(Target[c])
      BY <1>3, <2>1, CancelReads DEF StopInv
    <2>3. CASE CancelAbort(c)
      <3>1. AbortBuild(Target[c], "build")
        BY <1>3, <2>3 DEF CancelAbort
      <3>2. QED
        BY <1>1, <2>1, <2>2, <3>1, AbortStops DEF GoesOn
    <2>4. CASE ~ CancelAbort(c)
      <3>1. cancel'[c] = "stopped" => cancel[c] = "stopped" /\ cancelUrl[c] = "build"
        BY <1>3, <2>4, CancelReads
      <3>2. QED
        BY <1>1, <2>1, <2>2, <3>1 DEF StopInv, GoesOn
    <2>5. QED
      BY <2>3, <2>4
  <1>4. QED
    BY <1>2, <1>3 DEF StopInv

-----------------------------------------------------------------------------
(***************************************************************************)
(* Aborts.  Whoever enqueues one has seen the run past its active states.  *)
(***************************************************************************)
HasAbort(r) == jobState[r] # "absent" \/ r \in deferred

LEMMA AbortsKept ==
  ASSUME AbortsOnlyTerminalRuns, \A s \in Runs : Onward(s),
         \A s \in Runs : HasAbort(s)' => HasAbort(s) \/ status'[s] \in Terminal
  PROVE  AbortsOnlyTerminalRuns'
  BY DEF AbortsOnlyTerminalRuns, HasAbort, Onward, Terminal

LEMMA EnqueuedAborts ==
  ASSUME TypeOK, NEW r \in Runs, NEW u \in Url, UNCHANGED deferred,
         EnqueueStored(r, u) \/ EnqueueAsserted(r, u)
  PROVE  \A s \in Runs : HasAbort(s)' => HasAbort(s) \/ s = r
  BY DEF EnqueueStored, EnqueueAsserted, PutJob, HasAbort, queueVars, TypeOK,
         QueueTypeOK

LEMMA WebhookAborts ==
  ASSUME TypeOK, StartInv, NEW r \in Runs, Webhooks(r)
  PROVE  \A s \in Runs : HasAbort(s)' => HasAbort(s) \/ status'[s] \in Terminal
  <1>1. ASSUME NEW e \in Event, WebhookRead(r, e)
        PROVE  \A s \in Runs : HasAbort(s)' => HasAbort(s) \/ status'[s] \in Terminal
    BY <1>1 DEF WebhookRead, Webhook, HasAbort, rowVars, queueVars
  <1>2. CASE HandleBuildStarted(r) /\ RefuseStart(r)
    \* the transaction is still open, so the run was never started
    <2>1. status[r] \in {"queued"} \union Terminal
      <3>1. job[r] \notin {"none", "waiting"} /\ hook[r].build_started # "ok"
        BY <1>2 DEF HandleBuildStarted, StartInv, NonTerminal, Event, TypeOK,
                    BuildTypeOK
      <3>2. QED
        BY <3>1 DEF StartInv, TypeOK, RowTypeOK, Status, NonTerminal
    <2>2. status'[r] \in Terminal
      BY <1>2, <2>1 DEF RefuseStart, SetStatus, TypeOK, RowTypeOK, Terminal
    <2>3. QED
      BY <1>2, <2>2 DEF HandleBuildStarted, RefuseStart, Webhook, HasAbort, queueVars
  <1>3. CASE \/ HandleBuildStarted(r) /\ UNCHANGED deferred
             \/ HandleBuildCompleted(r) \/ HandleBuildErrored(r)
             \/ HandleHeartbeat(r) \/ \E e \in Event : WebhookFails(r, e)
    BY <1>3 DEF HandleBuildStarted, HandleBuildCompleted, HandleBuildErrored,
                HandleHeartbeat, WebhookFails, Webhook, HasAbort, queueVars
  <1>4. CASE RunDeferred(r)
    BY <1>4 DEF RunDeferred, EnqueueAsserted, PutJob, HasAbort, queueVars, TypeOK,
                QueueTypeOK
  <1>5. QED
    BY <1>1, <1>2, <1>3, <1>4 DEF Webhooks, HandleBuildStarted

LEMMA AbortsStep ==
  ASSUME TypeOK, FenceInv, StartInv, SnapshotInv, AbortsOnlyTerminalRuns,
         [Next]_vars
  PROVE  AbortsOnlyTerminalRuns'
  <1> DEFINE Safe == \A s \in Runs : HasAbort(s)' => HasAbort(s) \/ status'[s] \in Terminal
  <1>1. CASE \E r \in Runs : TriggerCreate(r)
    <2> PICK r \in Runs : TriggerCreate(r)
      BY <1>1
    <2>1. status[r] = "none" /\ status' = [status EXCEPT ![r] = "queued"]
      BY DEF TriggerCreate, At, SetStatus, FenceInv
    <2>2. UNCHANGED <<jobState, deferred>>
      BY DEF TriggerCreate, queueVars
    <2>3. QED
      BY <2>1, <2>2 DEF AbortsOnlyTerminalRuns, TypeOK, RowTypeOK, Terminal
  <1>2. CASE \A s \in Runs : Onward(s)
    <2>1. ASSUME NEW r \in Runs, Trigger(r) \/ Jenkins(r) \/ Clock(r) PROVE Safe
      BY <2>1, TriggerFrame, JenkinsFrame, ClockFrame DEF HasAbort
    <2>2. ASSUME NEW r \in Runs, Webhooks(r) PROVE Safe
      BY <2>2, WebhookAborts
    <2>3. ASSUME NEW r \in Runs, Aborts(r) PROVE Safe
      BY <2>3, AbortsFrame DEF Aborts, AbortTaken, AbortSucceeds, AbortFails, TakeJob,
            JobSucceeds, JobFails, PutJob, HasAbort, TypeOK, QueueTypeOK
    <2>4. ASSUME NEW c \in Cancels, Cancel(c) PROVE Safe
      <3> DEFINE r == Target[c]
      <3>1. r \in Runs /\ UNCHANGED deferred
        BY <2>4, CancelFrame, LifecycleAssumption
      <3>2. CASE CancelRequeue(c)
        <4>1. status'[r] \in Terminal
          BY <3>2 DEF CancelRequeue, At, SnapshotInv, rowVars
        <4>2. EnqueueStored(r, url[r]) /\ url[r] \in Url
          BY <3>1, <3>2 DEF CancelRequeue, TypeOK, RowTypeOK
        <4>3. QED
          BY <3>1, <4>1, <4>2, EnqueuedAborts
      <3>3. CASE ~ CancelRequeue(c)
        <4>1. UNCHANGED jobState
          BY <2>4, <3>3
             DEF Cancel, CancelCheck, CancelRead, CancelQueued, CancelAbort,
                 CancelAbortFails, CancelRunning, CancelAnswer,
                 CancelError, queueVars
        <4>2. QED
          BY <3>1, <4>1 DEF HasAbort
      <3>4. QED
        BY <3>2, <3>3
    <2>5. ASSUME NEW r \in Runs, SweepRow(r) PROVE Safe
      <3>1. UNCHANGED deferred
        BY <2>5, SweepFrame DEF Sweep
      <3>2. CASE picked[r] = "orphan"
        <4>1. status'[r] \in Terminal /\ EnqueueStored(r, url[r]) /\ url[r] \in Url
          BY <2>5, <3>2 DEF SweepRow, SnapshotInv, rowVars, TypeOK, RowTypeOK
        <4>2. QED
          BY <3>1, <4>1, EnqueuedAborts
      <3>3. CASE picked[r] # "orphan"
        BY <2>5, <3>1, <3>3 DEF SweepRow, HasAbort, queueVars
      <3>4. QED
        BY <3>2, <3>3
    <2>6. ASSUME SweepScan \/ SweepDone \/ SweepThrows PROVE Safe
      BY <2>6 DEF SweepScan, Scan, SweepDone, SweepThrows, Reaper, HasAbort, queueVars
    <2>7. ASSUME Crash PROVE Safe
      BY <2>7 DEF Crash, JobsStall, HasAbort, TypeOK, QueueTypeOK
    <2>8. ASSUME UNCHANGED vars PROVE Safe
      BY <2>8 DEF vars, queueVars, HasAbort
    <2>9. Safe
      BY <2>1, <2>2, <2>3, <2>4, <2>5, <2>6, <2>7, <2>8 DEF Next, Clock, Sweep
    <2>10. QED
      BY <1>2, <2>9, AbortsKept
  <1>3. QED
    BY <1>1, <1>2, RowSteps, RowStepOnward

-----------------------------------------------------------------------------
(***************************************************************************)
(* The inductive invariant, and what follows from it.                      *)
(***************************************************************************)
IInv == TypeOK /\ LifecycleInv

LEMMA InvInit == Init => IInv
  <1> SUFFICES ASSUME Init PROVE LifecycleInv
    BY TypeInit DEF IInv
  <1>1. FenceInv /\ StartInv /\ SnapshotInv /\ StopInv /\ AbortsOnlyTerminalRuns
    BY LifecycleAssumption
       DEF Init, QueueInit, FenceInv, StartInv, SnapshotInv, StopInv,
           AbortsOnlyTerminalRuns, NonTerminal
  <1>2. OneActiveRunPerUser
    BY DEF Init, OneActiveRunPerUser, Machine!OneActiveRunPerUser,
           Machine!NonTerminal
  <1>3. QED
    BY <1>1, <1>2 DEF LifecycleInv

LEMMA InvStep == IInv /\ [Next]_vars => IInv'
  BY TypeStep, FenceStep, StartStep, SnapshotStep, StopStep, AbortsStep
     DEF IInv, LifecycleInv

LEMMA Invariance == Spec => []IInv
  BY InvInit, InvStep, PTL DEF Spec

(***************************************************************************)
(* Every variable keeps its type in every behaviour: no handler stores a   *)
(* status, and no abort job an attempt count, outside its range.           *)
(***************************************************************************)
THEOREM TypeCorrect == Spec => []TypeOK
  <1>1. IInv => TypeOK
    BY DEF IInv
  <1>2. QED
    BY Invariance, <1>1, PTL

(***************************************************************************)
(* The inductive invariant holds for any number of runs, users, cancel     *)
(* requests and crashes, and under any faults.                             *)
(***************************************************************************)
THEOREM Lifecycle == Spec => []LifecycleInv
  <1>1. IInv => LifecycleInv
    BY DEF IInv
  <1>2. QED
    BY Invariance, <1>1, PTL

(***************************************************************************)
(* The advisory lock of triggerRun and the conditional updates of all the  *)
(* other writers keep every user at one active run.                        *)
(***************************************************************************)
THEOREM Fence == Spec => []OneActiveRunPerUser
  <1>1. IInv => OneActiveRunPerUser
    BY DEF IInv, LifecycleInv
  <1>2. QED
    BY Invariance, <1>1, PTL

(***************************************************************************)
(* No abort, however late or often retried, is for a run still active.     *)
(***************************************************************************)
THEOREM AbortsSafe == Spec => []AbortsOnlyTerminalRuns
  <1>1. IInv => AbortsOnlyTerminalRuns
    BY DEF IInv, LifecycleInv
  <1>2. QED
    BY Invariance, <1>1, PTL

LEMMA MachineStep ==
  IInv /\ [Next]_vars => [Machine!MachineNext]_(Machine!machineVars)
  <1> SUFFICES ASSUME IInv, [Next]_vars
               PROVE  [Machine!MachineNext]_(Machine!machineVars)
    OBVIOUS
  <1>1. ASSUME NEW r \in Runs, TriggerCreate(r)
        PROVE  Machine!MachineNext
    BY <1>1, CreateMapped DEF Machine!MachineNext, IInv, LifecycleInv
  <1>2. QED
    BY <1>1, RowSteps, RowStepMapped DEF IInv

(***************************************************************************)
(* The writers together implement the state machine: the rows start empty  *)
(* and every step of every actor is a transition of the table, or leaves   *)
(* status and cases as they are.                                           *)
(***************************************************************************)
THEOREM Refinement == Spec => RefinesStateMachine
  <1>1. Init => Machine!MachineInit
    BY DEF Init, Machine!MachineInit
  <1>2. QED
    BY <1>1, Invariance, MachineStep, PTL
       DEF Spec, RefinesStateMachine, Machine!MachineSpec

LEMMA ResultsStep ==
  TypeOK /\ ResultsMatchVerdict /\ [Machine!MachineNext]_(Machine!machineVars)
    => ResultsMatchVerdict'
  BY DEF TypeOK, RowTypeOK, Status, NonTerminal, Terminal, Verdicts,
         ResultsMatchVerdict, Machine!ResultsMatchVerdict, Machine!Verdicts,
         Machine!StatusOf, Machine!MachineNext, Machine!machineVars, Machine!Move,
         Machine!Create, Machine!Start, Machine!LeaveQueue, Machine!Complete,
         Machine!GiveUp

(***************************************************************************)
(* Whoever else writes the row while build_completed is handled, cases are *)
(* stored exactly for the runs with a verdict, and agree with it.          *)
(***************************************************************************)
THEOREM Results == Spec => []ResultsMatchVerdict
  <1>1. Init => ResultsMatchVerdict
    BY DEF Init, ResultsMatchVerdict, Machine!ResultsMatchVerdict, Machine!Verdicts
  <1>2. IInv /\ ResultsMatchVerdict /\ [Next]_vars => ResultsMatchVerdict'
    BY MachineStep, ResultsStep DEF IInv
  <1>3. QED
    BY <1>1, <1>2, Invariance, PTL DEF Spec

-----------------------------------------------------------------------------
(***************************************************************************)
(* Terminal rows.                                                          *)
(***************************************************************************)
LEMMA CasesFrozen ==
  ASSUME TypeOK, RowStep, NEW s \in Runs, status[s] \in Terminal
  PROVE  cases'[s] = cases[s]
  BY DEF RowStep, Quiet, machineVars, Moves, Completes, Terminal, TypeOK,
         RowTypeOK

LEMMA SignalFrozen ==
  ASSUME TypeOK, [Next]_vars, NEW s \in Runs, status[s] \in Terminal
  PROVE  signal'[s] = signal[s]
  <1> USE DEF Terminal, rowVars
  <1>1. ASSUME NEW r \in Runs, Trigger(r) PROVE UNCHANGED signal
    BY <1>1 DEF Trigger, TriggerCount, TriggerCreate,
                TriggerBuild, TriggerFails, TriggerRecord, TriggerRecordFails,
                TriggerCatch, TriggerCatchFails
  <1>2. ASSUME NEW r \in Runs, Jenkins(r) PROVE UNCHANGED signal
    BY <1>2 DEF Jenkins, BuildStarts, BuildProceeds, BuildCompletes, BuildFails,
                BuildEnds, DeliveryFails, BuildVanishes, Agent
  <1>3. ASSUME NEW r \in Runs, HandleBuildStarted(r) PROVE signal'[s] = signal[s]
    BY <1>3 DEF HandleBuildStarted, StartRun, RefuseStart, TypeOK, RowTypeOK
  <1>4. ASSUME NEW r \in Runs, HandleHeartbeat(r) PROVE signal'[s] = signal[s]
    BY <1>4 DEF HandleHeartbeat, TypeOK, RowTypeOK
  <1>5. ASSUME NEW r \in Runs, Webhooks(r),
               ~ HandleBuildStarted(r), ~ HandleHeartbeat(r)
        PROVE  UNCHANGED signal
    BY <1>5 DEF Webhooks, WebhookRead, WebhookFails, HandleBuildCompleted,
                HandleBuildErrored, Finish, RunDeferred
  <1>6. ASSUME NEW r \in Runs, Aborts(r) PROVE UNCHANGED signal
    BY <1>6 DEF Aborts, AbortTaken, AbortSucceeds, AbortFails, Worker
  <1>7. ASSUME NEW r \in Runs, Clock(r) PROVE signal'[s] = signal[s]
    BY <1>7 DEF Clock, SignalAges, TimeLimitPasses, TypeOK, RowTypeOK
  <1>8. ASSUME NEW c \in Cancels, Cancel(c) PROVE UNCHANGED signal
    BY <1>8 DEF Cancel, CancelCheck, CancelRead, CancelQueued, CancelAbort,
                CancelAbortFails, CancelRunning, CancelAnswer,
                CancelError, FinishIf, Finish, CancelRequeue
  <1>9. ASSUME Sweep \/ SweepThrows \/ Crash PROVE UNCHANGED signal
    BY <1>9 DEF Sweep, SweepScan, Scan, SweepDone, SweepRow, SweepThrows,
                FinishIf, Finish, Crash
  <1>10. ASSUME UNCHANGED vars PROVE UNCHANGED signal
    BY <1>10 DEF vars
  <1>11. QED
    BY <1>1, <1>2, <1>3, <1>4, <1>5, <1>6, <1>7, <1>8, <1>9, <1>10
       DEF Next, Clock

(***************************************************************************)
(* A terminal row takes no heartbeat and no cases, whichever of its calls  *)
(* were still on their way when it became terminal.                        *)
(***************************************************************************)
THEOREM Frozen == Spec => TerminalRowsFrozen
  <1> DEFINE Kept == \A r \in Runs :
                       status[r] \in Terminal =>
                         /\ signal'[r] = signal[r]
                         /\ cases'[r]  = cases[r]
  <1>1. IInv /\ [Next]_vars => [Kept]_vars
    <2> SUFFICES ASSUME IInv, [Next]_vars PROVE Kept
      OBVIOUS
    <2>1. CASE RowStep
      BY <2>1, CasesFrozen, SignalFrozen DEF IInv
    <2>2. CASE \E r \in Runs : TriggerCreate(r)
      BY <2>2, SignalFrozen DEF TriggerCreate, IInv
    <2>3. QED
      BY <2>1, <2>2, RowSteps DEF IInv
  <1>2. QED
    BY Invariance, <1>1, PTL DEF Spec, TerminalRowsFrozen

(***************************************************************************)
(* A run cancelled under its build's URL is marked cancelled only when     *)
(* that build has stopped working, whatever became of run and build since  *)
(* the cancel read the row.                                                *)
(***************************************************************************)
THEOREM CancelsStop == Spec => CancelStopsBuild
  <1> DEFINE Stops == \A c \in Cancels :
                        CancelledFromRunning(c) /\ cancelUrl[c] = "build"
                          => job[Target[c]] \in {"failing", "over"}
  <1>1. IInv /\ [Next]_vars => [Stops]_vars
    BY DEF IInv, LifecycleInv, StopInv, Stopping, CancelledFromRunning
  <1>2. QED
    BY Invariance, <1>1, PTL DEF Spec, CancelStopsBuild
=============================================================================
