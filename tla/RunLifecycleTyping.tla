-------------------------- MODULE RunLifecycleTyping --------------------------
(***************************************************************************)
(* Every step of RunLifecycle keeps the variables within their types.      *)
(***************************************************************************)
EXTENDS RunLifecycle, TLAPS

-----------------------------------------------------------------------------
(***************************************************************************)
(* Type correctness, from lemmas about the steps that handlers share.      *)
(***************************************************************************)

LEMMA AnswerType ==
  ASSUME BuildTypeOK, NEW r \in Runs, NEW e \in Event, NEW reply \in HookState,
         Answer(r, e, reply), UNCHANGED job
  PROVE  BuildTypeOK'
  BY DEF BuildTypeOK, Answer

LEMMA EndInFailureType ==
  ASSUME BuildTypeOK, NEW r \in Runs, EndInFailure(r)
  PROVE  BuildTypeOK'
  BY DEF BuildTypeOK, EndInFailure, BuildState, Event, HookState

LEMMA AbortBuildType ==
  ASSUME BuildTypeOK, NEW r \in Runs, NEW u \in Url, AbortBuild(r, u)
  PROVE  BuildTypeOK'
  <1>1. CASE EndInFailure(r)
    BY <1>1, EndInFailureType
  <1>2. CASE job' = [job EXCEPT ![r] = "over"] /\ UNCHANGED hook
    BY <1>2 DEF BuildTypeOK, BuildState
  <1>3. CASE UNCHANGED buildVars
    BY <1>3 DEF BuildTypeOK, buildVars
  <1>4. QED
    BY <1>1, <1>2, <1>3 DEF AbortBuild

LEMMA FinishType ==
  ASSUME RowTypeOK, NEW r \in Runs, NEW to \in Terminal, Finish(r, to)
  PROVE  RowTypeOK'
  BY DEF RowTypeOK, Finish, SetStatus, Status

LEMMA FinishIfType ==
  ASSUME RowTypeOK, NEW r \in Runs, NEW from, NEW to \in Terminal,
         FinishIf(r, from, to)
  PROVE  RowTypeOK'
  <1>1. CASE Finish(r, to)
    BY <1>1, FinishType
  <1>2. CASE UNCHANGED rowVars
    BY <1>2 DEF RowTypeOK, rowVars
  <1>3. QED
    BY <1>1, <1>2 DEF FinishIf

LEMMA PutJobType ==
  ASSUME QueueTypeOK, NEW r \in Runs, NEW state \in JobState, NEW u \in Url,
         PutJob(r, state, u)
  PROVE  QueueTypeOK'
  BY AttemptsAssumption DEF QueueTypeOK, PutJob

LEMMA EnqueueType ==
  ASSUME QueueTypeOK, NEW r \in Runs, NEW u \in Url,
         EnqueueStored(r, u) \/ EnqueueAsserted(r, u)
  PROVE  QueueTypeOK'
  <1>1. CASE PutJob(r, "waiting", u)
    BY <1>1, PutJobType DEF JobState
  <1>2. CASE UNCHANGED queueVars
    BY <1>2 DEF QueueTypeOK, queueVars
  <1>3. QED
    BY <1>1, <1>2 DEF EnqueueStored, EnqueueAsserted

LEMMA WorkerType ==
  ASSUME QueueTypeOK, NEW r \in Runs,
         TakeJob(r) \/ JobSucceeds(r) \/ JobFails(r)
  PROVE  QueueTypeOK'
  <1>1. CASE TakeJob(r)
    BY <1>1 DEF QueueTypeOK, TakeJob, JobState
  <1>2. CASE JobSucceeds(r)
    BY <1>2, PutJobType DEF JobSucceeds, JobState, Url
  <1>3. CASE JobFails(r)
    BY <1>3, AttemptsAssumption DEF QueueTypeOK, JobFails, JobState
  <1>4. QED
    BY <1>1, <1>2, <1>3

LEMMA StallType == QueueTypeOK /\ JobsStall => QueueTypeOK'
  BY DEF QueueTypeOK, JobsStall, JobState

LEMMA TypeInit == Init => TypeOK
  BY LifecycleAssumption, AttemptsAssumption
     DEF Init, QueueInit, TypeOK, RowTypeOK, BuildTypeOK, CallTypeOK,
         QueueTypeOK, Status, Verdicts, Url, BuildState, HookState, JobState

LEMMA TypeKept ==
  /\ RowTypeOK   /\ UNCHANGED rowVars   => RowTypeOK'
  /\ BuildTypeOK /\ UNCHANGED buildVars => BuildTypeOK'
  /\ QueueTypeOK /\ UNCHANGED queueVars => QueueTypeOK'
  /\ CallTypeOK  /\ UNCHANGED <<trig, deferred, cancelVars, sweepVars, crashes>>
       => CallTypeOK'
  BY DEF RowTypeOK, BuildTypeOK, QueueTypeOK, CallTypeOK, rowVars, buildVars,
         queueVars, cancelVars, sweepVars

LEMMA TypeStep == TypeOK /\ StartInv /\ [Next]_vars => TypeOK'
  <1> SUFFICES ASSUME RowTypeOK, BuildTypeOK, CallTypeOK, QueueTypeOK,
                      StartInv, [Next]_vars
               PROVE  TypeOK'
    BY DEF TypeOK
  <1> USE LifecycleAssumption DEF TypeOK
  <1>1. ASSUME NEW r \in Runs, TriggerCount(r) PROVE TypeOK'
    <2>1. RowTypeOK' /\ BuildTypeOK' /\ QueueTypeOK'
      BY <1>1, TypeKept DEF TriggerCount
    <2>2. CallTypeOK'
      BY <1>1 DEF TriggerCount, CallTypeOK, cancelVars,
         sweepVars
    <2>3. QED
      BY <2>1, <2>2
  <1>2. ASSUME NEW r \in Runs, TriggerCreate(r) PROVE TypeOK'
    <2>1. BuildTypeOK' /\ QueueTypeOK'
      BY <1>2, TypeKept DEF TriggerCreate
    <2>2. RowTypeOK'
      BY <1>2 DEF TriggerCreate, RowTypeOK, SetStatus, Status, NonTerminal
    <2>3. CallTypeOK'
      BY <1>2 DEF TriggerCreate, At, CallTypeOK, cancelVars, sweepVars
    <2>4. QED
      BY <2>1, <2>2, <2>3
  <1>4. ASSUME NEW r \in Runs, TriggerBuild(r) PROVE TypeOK'
    <2>1. RowTypeOK' /\ QueueTypeOK'
      BY <1>4, TypeKept DEF TriggerBuild
    <2>2. BuildTypeOK'
      BY <1>4 DEF TriggerBuild, BuildTypeOK, BuildState
    <2>3. CallTypeOK'
      BY <1>4 DEF TriggerBuild, At, CallTypeOK, cancelVars, sweepVars
    <2>4. QED
      BY <2>1, <2>2, <2>3
  <1>5. ASSUME NEW r \in Runs, TriggerFails(r) PROVE TypeOK'
    <2>1. RowTypeOK' /\ QueueTypeOK'
      BY <1>5, TypeKept DEF TriggerFails
    <2>2. BuildTypeOK'
      BY <1>5 DEF TriggerFails, BuildTypeOK, BuildState
    <2>3. CallTypeOK'
      BY <1>5 DEF TriggerFails, At, CallTypeOK, cancelVars, sweepVars
    <2>4. QED
      BY <2>1, <2>2, <2>3
  <1>6. ASSUME NEW r \in Runs, TriggerRecord(r) PROVE TypeOK'
    <2>1. BuildTypeOK' /\ QueueTypeOK'
      BY <1>6, TypeKept DEF TriggerRecord
    <2>2. RowTypeOK'
      BY <1>6 DEF TriggerRecord, RowTypeOK, Url
    <2>3. CallTypeOK'
      BY <1>6 DEF TriggerRecord, At, CallTypeOK, cancelVars, sweepVars
    <2>4. QED
      BY <2>1, <2>2, <2>3
  <1>7. ASSUME NEW r \in Runs, TriggerRecordFails(r) PROVE TypeOK'
    <2>1. RowTypeOK' /\ BuildTypeOK' /\ QueueTypeOK'
      BY <1>7, TypeKept DEF TriggerRecordFails
    <2>2. CallTypeOK'
      BY <1>7 DEF TriggerRecordFails, At, CallTypeOK, cancelVars, sweepVars
    <2>3. QED
      BY <2>1, <2>2
  <1>8. ASSUME NEW r \in Runs, TriggerCatch(r) PROVE TypeOK'
    <2>1. BuildTypeOK' /\ QueueTypeOK'
      BY <1>8, TypeKept DEF TriggerCatch
    <2>2. RowTypeOK'
      BY <1>8 DEF TriggerCatch, RowTypeOK, SetStatus, Status, Terminal
    <2>3. CallTypeOK'
      BY <1>8 DEF TriggerCatch, At, CallTypeOK, cancelVars, sweepVars
    <2>4. QED
      BY <2>1, <2>2, <2>3
  <1>9. ASSUME NEW r \in Runs, TriggerCatchFails(r) PROVE TypeOK'
    <2>1. RowTypeOK' /\ BuildTypeOK' /\ QueueTypeOK'
      BY <1>9, TypeKept DEF TriggerCatchFails
    <2>2. CallTypeOK'
      BY <1>9 DEF TriggerCatchFails, At, CallTypeOK, cancelVars, sweepVars
    <2>3. QED
      BY <2>1, <2>2
  <1>11. ASSUME NEW r \in Runs, BuildStarts(r) PROVE TypeOK'
    <2>1. RowTypeOK' /\ CallTypeOK' /\ QueueTypeOK'
      BY <1>11, TypeKept DEF BuildStarts, Agent
    <2>2. BuildTypeOK'
      BY <1>11, EndInFailureType DEF BuildStarts, Agent, BuildTypeOK,
         BuildState, HookState, Event
    <2>3. QED
      BY <2>1, <2>2
  <1>12. ASSUME NEW r \in Runs, BuildProceeds(r) PROVE TypeOK'
    <2>1. RowTypeOK' /\ CallTypeOK' /\ QueueTypeOK'
      BY <1>12, TypeKept DEF BuildProceeds, Agent
    <2>2. BuildTypeOK'
      BY <1>12 DEF BuildProceeds, Agent, BuildTypeOK, BuildState
    <2>3. QED
      BY <2>1, <2>2
  <1>13. ASSUME NEW r \in Runs, BuildCompletes(r) PROVE TypeOK'
    <2>1. RowTypeOK' /\ CallTypeOK' /\ QueueTypeOK'
      BY <1>13, TypeKept DEF BuildCompletes, Agent
    <2>2. BuildTypeOK'
      BY <1>13 DEF BuildCompletes, Agent, BuildTypeOK, BuildState, HookState,
         Event
    <2>3. QED
      BY <2>1, <2>2
  <1>14. ASSUME NEW r \in Runs, BuildFails(r) PROVE TypeOK'
    <2>1. RowTypeOK' /\ CallTypeOK' /\ QueueTypeOK'
      BY <1>14, TypeKept DEF BuildFails, Agent
    <2>2. BuildTypeOK'
      BY <1>14, EndInFailureType DEF BuildFails, Agent
    <2>3. QED
      BY <2>1, <2>2
  <1>15. ASSUME NEW r \in Runs, BuildEnds(r) PROVE TypeOK'
    <2>1. RowTypeOK' /\ CallTypeOK' /\ QueueTypeOK'
      BY <1>15, TypeKept DEF BuildEnds, Agent
    <2>2. BuildTypeOK'
      BY <1>15 DEF BuildEnds, Agent, BuildTypeOK, BuildState
    <2>3. QED
      BY <2>1, <2>2
  <1>16. ASSUME NEW r \in Runs, DeliveryFails(r) PROVE TypeOK'
    <2>1. RowTypeOK' /\ CallTypeOK' /\ QueueTypeOK'
      BY <1>16, TypeKept DEF DeliveryFails, Agent
    <2>2. BuildTypeOK'
      BY <1>16 DEF DeliveryFails, Agent, Awaiting, BuildTypeOK, BuildState,
         HookState, Event
    <2>3. QED
      BY <2>1, <2>2
  <1>17. ASSUME NEW r \in Runs, BuildVanishes(r) PROVE TypeOK'
    <2>1. RowTypeOK' /\ CallTypeOK' /\ QueueTypeOK'
      BY <1>17, TypeKept DEF BuildVanishes, Agent
    <2>2. BuildTypeOK'
      BY <1>17 DEF BuildVanishes, Agent, BuildTypeOK, BuildState
    <2>3. QED
      BY <2>1, <2>2
  <1>18. ASSUME NEW r \in Runs, NEW e \in Event, WebhookRead(r, e)
        PROVE  TypeOK'
    <2>1. RowTypeOK' /\ QueueTypeOK'
      BY <1>18, TypeKept DEF WebhookRead, Webhook
    <2>2. BuildTypeOK'
      <3>1. status[r] \in Status
        \* only a run with a row has a build that reports
        BY <1>18 DEF WebhookRead, StartInv, RowTypeOK, BuildTypeOK, BuildState
      <3>2. CASE Answer(r, e, "gone")
        BY <1>18, <3>2, AnswerType DEF WebhookRead, Webhook, HookState
      <3>3. CASE status[r] \notin Terminal /\ Answer(r, e, status[r])
        <4>1. status[r] \in HookState
          BY <3>1, <3>3 DEF Status, NonTerminal, HookState
        <4>2. QED
          BY <1>18, <3>3, <4>1, AnswerType DEF WebhookRead, Webhook
      <3>4. QED
        BY <1>18, <3>2, <3>3 DEF WebhookRead
    <2>3. CallTypeOK'
      BY <1>18 DEF WebhookRead, Webhook, CallTypeOK, cancelVars,
         sweepVars
    <2>4. QED
      BY <2>1, <2>2, <2>3
  <1>19. ASSUME NEW r \in Runs, NEW e \in Event, WebhookFails(r, e)
        PROVE  TypeOK'
    <2>1. RowTypeOK' /\ CallTypeOK' /\ QueueTypeOK'
      BY <1>19, TypeKept DEF WebhookFails, Webhook
    <2>2. BuildTypeOK'
      BY <1>19, AnswerType DEF WebhookFails, Webhook, HookState
    <2>3. QED
      BY <2>1, <2>2
  <1>20. ASSUME NEW r \in Runs, HandleBuildStarted(r) PROVE TypeOK'
    <2>1. QueueTypeOK'
      BY <1>20, TypeKept DEF HandleBuildStarted, Webhook
    <2>2. RowTypeOK'
      BY <1>20 DEF HandleBuildStarted, Webhook, StartRun, RefuseStart,
         SetStatus, RowTypeOK, Status, Terminal, NonTerminal, Url, rowVars
    <2>3. BuildTypeOK'
      BY <1>20, AnswerType DEF HandleBuildStarted, Webhook, StartRun,
         RefuseStart, HookState, Event
    <2>4. CallTypeOK'
      BY <1>20 DEF HandleBuildStarted, Webhook, RefuseStart, CallTypeOK,
         cancelVars, sweepVars
    <2>5. QED
      BY <2>1, <2>2, <2>3, <2>4
  <1>21. ASSUME NEW r \in Runs, HandleBuildCompleted(r) PROVE TypeOK'
    <2>1. CallTypeOK' /\ QueueTypeOK'
      BY <1>21, TypeKept DEF HandleBuildCompleted, Webhook
    <2>2. RowTypeOK'
      BY <1>21 DEF HandleBuildCompleted, Webhook, SetStatus, StatusOf,
         RowTypeOK, Status, Terminal, rowVars
    <2>3. BuildTypeOK'
      BY <1>21, AnswerType DEF HandleBuildCompleted, Webhook, HookState,
         Event
    <2>4. QED
      BY <2>1, <2>2, <2>3
  <1>22. ASSUME NEW r \in Runs, HandleBuildErrored(r) PROVE TypeOK'
    <2>1. CallTypeOK' /\ QueueTypeOK'
      BY <1>22, TypeKept DEF HandleBuildErrored, Webhook
    <2>2. RowTypeOK'
      BY <1>22, FinishType DEF HandleBuildErrored, Webhook, RowTypeOK,
         Status, Terminal, rowVars
    <2>3. BuildTypeOK'
      BY <1>22, AnswerType DEF HandleBuildErrored, Webhook, HookState, Event
    <2>4. QED
      BY <2>1, <2>2, <2>3
  <1>23. ASSUME NEW r \in Runs, HandleHeartbeat(r) PROVE TypeOK'
    <2>1. BuildTypeOK' /\ CallTypeOK' /\ QueueTypeOK'
      BY <1>23, TypeKept DEF HandleHeartbeat, Webhook, buildVars
    <2>2. RowTypeOK'
      BY <1>23 DEF HandleHeartbeat, Webhook, RowTypeOK
    <2>3. QED
      BY <2>1, <2>2
  <1>24. ASSUME NEW r \in Runs, RunDeferred(r) PROVE TypeOK'
    <2>1. RowTypeOK' /\ BuildTypeOK'
      BY <1>24, TypeKept DEF RunDeferred
    <2>2. CallTypeOK'
      BY <1>24 DEF RunDeferred, CallTypeOK, cancelVars,
         sweepVars
    <2>3. QueueTypeOK'
      BY <1>24, EnqueueType DEF RunDeferred, Url
    <2>4. QED
      BY <2>1, <2>2, <2>3
  <1>25. ASSUME NEW r \in Runs, AbortTaken(r) PROVE TypeOK'
    <2>1. RowTypeOK' /\ BuildTypeOK' /\ CallTypeOK'
      BY <1>25, TypeKept DEF AbortTaken, Worker
    <2>2. QueueTypeOK'
      BY <1>25, WorkerType DEF AbortTaken, Worker
    <2>3. QED
      BY <2>1, <2>2
  <1>26. ASSUME NEW r \in Runs, AbortSucceeds(r) PROVE TypeOK'
    <2>1. RowTypeOK' /\ CallTypeOK'
      BY <1>26, TypeKept DEF AbortSucceeds, Worker
    <2>2. BuildTypeOK'
      BY <1>26, AbortBuildType DEF AbortSucceeds, Worker, QueueTypeOK
    <2>3. QueueTypeOK'
      BY <1>26, WorkerType DEF AbortSucceeds, Worker
    <2>4. QED
      BY <2>1, <2>2, <2>3
  <1>27. ASSUME NEW r \in Runs, AbortFails(r) PROVE TypeOK'
    <2>1. RowTypeOK' /\ CallTypeOK'
      BY <1>27, TypeKept DEF AbortFails, Worker
    <2>2. BuildTypeOK'
      BY <1>27, AbortBuildType DEF AbortFails, Worker, QueueTypeOK,
         BuildTypeOK, buildVars
    <2>3. QueueTypeOK'
      BY <1>27, WorkerType DEF AbortFails, Worker
    <2>4. QED
      BY <2>1, <2>2, <2>3
  <1>28. ASSUME NEW r \in Runs, SignalAges(r) PROVE TypeOK'
    <2>1. BuildTypeOK' /\ CallTypeOK' /\ QueueTypeOK'
      BY <1>28, TypeKept DEF SignalAges
    <2>2. RowTypeOK'
      BY <1>28 DEF SignalAges, RowTypeOK
    <2>3. QED
      BY <2>1, <2>2
  <1>29. ASSUME NEW r \in Runs, TimeLimitPasses(r) PROVE TypeOK'
    <2>1. BuildTypeOK' /\ CallTypeOK' /\ QueueTypeOK'
      BY <1>29, TypeKept DEF TimeLimitPasses
    <2>2. RowTypeOK'
      BY <1>29 DEF TimeLimitPasses, RowTypeOK
    <2>3. QED
      BY <2>1, <2>2
  <1>30. ASSUME NEW c \in Cancels, CancelCheck(c) PROVE TypeOK'
    <2>1. RowTypeOK' /\ BuildTypeOK' /\ QueueTypeOK'
      BY <1>30, TypeKept DEF CancelCheck, Api
    <2>2. CallTypeOK'
      BY <1>30 DEF CancelCheck, Api, CallTypeOK, sweepVars
    <2>3. QED
      BY <2>1, <2>2
  <1>31. ASSUME NEW c \in Cancels, CancelRead(c) PROVE TypeOK'
    <2>1. RowTypeOK' /\ BuildTypeOK' /\ QueueTypeOK'
      BY <1>31, TypeKept DEF CancelRead, Api
    <2>2. CallTypeOK'
      BY <1>31 DEF CancelRead, Api, RowTypeOK, CallTypeOK,
         sweepVars
    <2>3. QED
      BY <2>1, <2>2
  <1>32. ASSUME NEW c \in Cancels, CancelQueued(c) PROVE TypeOK'
    <2>1. BuildTypeOK' /\ QueueTypeOK'
      BY <1>32, TypeKept DEF CancelQueued, Api
    <2>2. RowTypeOK'
      BY <1>32 DEF CancelQueued, Api, RowTypeOK, SetStatus, Status, Terminal
    <2>3. CallTypeOK'
      BY <1>32 DEF CancelQueued, Api, CallTypeOK, sweepVars
    <2>4. QED
      BY <2>1, <2>2, <2>3
  <1>33. ASSUME NEW c \in Cancels, CancelAbort(c) PROVE TypeOK'
    <2>1. RowTypeOK' /\ QueueTypeOK'
      BY <1>33, TypeKept DEF CancelAbort, Api
    <2>2. BuildTypeOK'
      BY <1>33, AbortBuildType DEF CancelAbort, Api, CallTypeOK
    <2>3. CallTypeOK'
      BY <1>33 DEF CancelAbort, Api, At, CallTypeOK, sweepVars
    <2>4. QED
      BY <2>1, <2>2, <2>3
  <1>34. ASSUME NEW c \in Cancels, CancelAbortFails(c) PROVE TypeOK'
    <2>1. RowTypeOK' /\ QueueTypeOK'
      BY <1>34, TypeKept DEF CancelAbortFails, Api
    <2>2. BuildTypeOK'
      BY <1>34, AbortBuildType DEF CancelAbortFails, Api, CallTypeOK,
         BuildTypeOK, buildVars
    <2>3. CallTypeOK'
      BY <1>34 DEF CancelAbortFails, Api, At, CallTypeOK,
         sweepVars
    <2>4. QED
      BY <2>1, <2>2, <2>3
  <1>35. ASSUME NEW c \in Cancels, CancelRunning(c) PROVE TypeOK'
    <2>1. BuildTypeOK' /\ QueueTypeOK'
      BY <1>35, TypeKept DEF CancelRunning, Api
    <2>2. RowTypeOK'
      BY <1>35 DEF CancelRunning, Api, RowTypeOK, SetStatus, Status, Terminal
    <2>3. CallTypeOK'
      BY <1>35 DEF CancelRunning, Api, CallTypeOK, sweepVars
    <2>4. QED
      BY <2>1, <2>2, <2>3
  <1>36. ASSUME NEW c \in Cancels, CancelAnswer(c) PROVE TypeOK'
    <2>1. BuildTypeOK' /\ QueueTypeOK'
      BY <1>36, TypeKept DEF CancelAnswer, Api
    <2>2. RowTypeOK'
      BY <1>36 DEF CancelAnswer, Api, RowTypeOK, rowVars
    <2>3. CallTypeOK'
      BY <1>36 DEF CancelAnswer, Api, At, CallTypeOK, sweepVars
    <2>4. QED
      BY <2>1, <2>2, <2>3
  <1>37. ASSUME NEW c \in Cancels, CancelError(c) PROVE TypeOK'
    <2>1. BuildTypeOK' /\ QueueTypeOK'
      BY <1>37, TypeKept DEF CancelError, Api
    <2>2. RowTypeOK'
      BY <1>37, FinishIfType DEF CancelError, Api, Status, Terminal
    <2>3. CallTypeOK'
      BY <1>37 DEF CancelError, Api, At, CallTypeOK, sweepVars
    <2>4. QED
      BY <2>1, <2>2, <2>3
  <1>38. ASSUME NEW c \in Cancels, CancelRequeue(c) PROVE TypeOK'
    <2>1. RowTypeOK' /\ BuildTypeOK'
      BY <1>38, TypeKept DEF CancelRequeue, Api
    <2>2. CallTypeOK'
      BY <1>38 DEF CancelRequeue, Api, At, CallTypeOK, sweepVars
    <2>3. QueueTypeOK'
      BY <1>38, EnqueueType DEF CancelRequeue, Api, RowTypeOK
    <2>4. QED
      BY <2>1, <2>2, <2>3
  <1>39. CASE SweepScan
    <2>1. RowTypeOK' /\ BuildTypeOK' /\ QueueTypeOK'
      BY <1>39, TypeKept DEF SweepScan, Reaper, Scan
    <2>2. CallTypeOK'
      BY <1>39 DEF SweepScan, Reaper, Scan, Stale, StuckQueued,
         TerminalWithUrl, CallTypeOK, cancelVars
    <2>3. QED
      BY <2>1, <2>2
  <1>40. CASE SweepDone
    <2>1. RowTypeOK' /\ BuildTypeOK' /\ QueueTypeOK'
      BY <1>40, TypeKept DEF SweepDone, Reaper
    <2>2. CallTypeOK'
      BY <1>40 DEF SweepDone, Reaper, CallTypeOK, cancelVars
    <2>3. QED
      BY <2>1, <2>2
  <1>41. ASSUME NEW r \in Runs, SweepRow(r) PROVE TypeOK'
    <2>1. BuildTypeOK'
      BY <1>41, TypeKept DEF SweepRow, Reaper
    <2>2. RowTypeOK'
      BY <1>41, FinishIfType DEF SweepRow, Reaper, RowTypeOK, Status,
         Terminal, rowVars
    <2>3. CallTypeOK'
      BY <1>41 DEF SweepRow, Reaper, Drop, CallTypeOK,
         cancelVars
    <2>4. QueueTypeOK'
      BY <1>41, EnqueueType DEF SweepRow, Reaper, RowTypeOK, QueueTypeOK,
         queueVars
    <2>5. QED
      BY <2>1, <2>2, <2>3, <2>4
  <1>42. CASE SweepThrows
    <2>1. RowTypeOK' /\ BuildTypeOK' /\ QueueTypeOK'
      BY <1>42, TypeKept DEF SweepThrows
    <2>2. CallTypeOK'
      BY <1>42 DEF SweepThrows, CallTypeOK, cancelVars
    <2>3. QED
      BY <2>1, <2>2
  <1>43. CASE Crash
    <2>1. RowTypeOK'
      BY <1>43, TypeKept DEF Crash
    <2>2. BuildTypeOK'
      BY <1>43 DEF Crash, BuildTypeOK, HookState, NonTerminal
    <2>3. CallTypeOK'
      BY <1>43 DEF Crash, CallTypeOK, cancelVars
    <2>4. QueueTypeOK'
      BY <1>43, StallType DEF Crash
    <2>5. QED
      BY <2>1, <2>2, <2>3, <2>4
  <1>44. CASE UNCHANGED vars
    BY <1>44, TypeKept DEF vars
  <1>45. QED
    BY <1>1, <1>2, <1>4, <1>5, <1>6, <1>7, <1>8, <1>9, <1>11,
       <1>12, <1>13, <1>14, <1>15, <1>16, <1>17, <1>18, <1>19, <1>20, <1>21,
       <1>22, <1>23, <1>24, <1>25, <1>26, <1>27, <1>28, <1>29, <1>30, <1>31,
       <1>32, <1>33, <1>34, <1>35, <1>36, <1>37, <1>38, <1>39, <1>40,
       <1>41, <1>42, <1>43, <1>44
       DEF Next, Trigger, Jenkins, Webhooks, Aborts, Cancel, Sweep
=============================================================================
