--------------------------- MODULE WebhookDelivery ---------------------------
(***************************************************************************)
(* emitWebhook of the pipeline at the other end of the wire: an event is   *)
(* sent with one key, curl waits 15 seconds for the answer, and an event   *)
(* without a final answer is sent again, MaxAttempts times in all.         *)
(***************************************************************************)
EXTENDS WebhookReceiver, FiniteSets

CONSTANT MaxRetries      \* bound: how often a build retries, all its events together

ASSUME RetriesAssumption == MaxRetries \in Nat

\* The answer of the attempt that ends is read or comes too late.
HangUp(e) ==
  [request EXCEPT ![e][attempt[e]] = IF @.at = "answered" THEN Lost ELSE @]

Conclude(e, how) ==
  /\ outcome' = [outcome EXCEPT ![e] = how]
  /\ request' = HangUp(e)
  /\ UNCHANGED <<runVars, pinsMatch, report, row, attempt>>

SendNext(e) ==
  /\ attempt' = [attempt EXCEPT ![e] = @ + 1]
  /\ LET before == IF attempt[e] = 0 THEN request ELSE HangUp(e) IN
       request' = [before EXCEPT ![e][attempt[e] + 1].at = "sent"]
  /\ UNCHANGED <<runVars, pinsMatch, report, row, outcome>>

Emitting(e) == outcome[e] = "pending" /\ attempt[e] > 0

Emit(e) ==
  /\ outcome[e] = "pending" /\ attempt[e] = 0
  /\ SendNext(e)

\* Mistake: any answer stops the retries.
AnyAnswer(code) == TRUE

TakenAsDelivered(code) == code \in {"200", "409", "410"}

\* curl has the answer of the current attempt; 404 and 422 fail the stage.
ReadAnswer(e) ==
  /\ Emitting(e)
  /\ LET r == request[e][attempt[e]] IN
       /\ r.at = "answered"
       /\ Conclude(e, IF TakenAsDelivered(r.code) THEN "delivered" ELSE "failed")

\* Mistake: the loop over the attempts has no end.
RetriesForever(e) == TRUE

MayRetry(e) ==
  /\ attempt[e] < MaxAttempts
  /\ Cardinality({retry \in Events \X (2..MaxAttempts) : retry[2] <= attempt[retry[1]]}) < MaxRetries

(***************************************************************************)
(* No answer in time, a 5xx, or an answer lost on its way.  The server may *)
(* still be at work on the attempt when the next one is sent.              *)
(***************************************************************************)
TimeOut(e) ==
  /\ Emitting(e)
  /\ IF MayRetry(e) THEN SendNext(e) ELSE Conclude(e, "failed")

\* The step is interrupted while it sends.
CutOff(e) ==
  /\ Emitting(e)
  /\ Conclude(e, "failed")

DeliveryNext ==
  \/ ReceiverNext
  \/ \E e \in Events : Emit(e) \/ ReadAnswer(e) \/ TimeOut(e) \/ CutOff(e)

DeliverySpec == ReceiverInit /\ [][DeliveryNext]_deliveryStateVars

-----------------------------------------------------------------------------
(***************************************************************************)
(* An event whose row is there without processed_at is build_started that  *)
(* lost its update: the run has ended, so the event is as good as ignored. *)
(***************************************************************************)
EffectOf(state) ==
  IF state = "none" THEN "none"
  ELSE IF state = "processed" THEN "applied" ELSE "ignored"

Abstract == INSTANCE Deliveries
              WITH effect <- [e \in Events |-> EffectOf(row[e])], outcome <- outcome

(***************************************************************************)
(* The sending and receiving ends together implement Deliveries: an event  *)
(* is settled at most once and for good whatever is retried, overtaken or  *)
(* lost, and one the pipeline takes as delivered has been settled          *)
(* (emitWebhook's reading of 409 and 410 as success, the unique key and    *)
(* processed_at of webhook_events).                                        *)
(***************************************************************************)
SettledOnce == Abstract!DeliveriesSpec

(***************************************************************************)
(* An event row is left without processed_at only when the run of a        *)
(* build_started has ended meanwhile (the early return of                  *)
(* handleBuildStarted), so the retry that finds it changes nothing.        *)
(***************************************************************************)
OpenRowMeansEnded ==
  \A e \in Events : row[e] = "open" => e = "build_started" /\ Finished(run)

\* Results are there with a verdict, and stored once, by the event that was applied.
StoredOnce ==
  /\ results \in {0, 1}
  /\ results = 1 <=> run \in {"passed", "failed"}
  /\ results = 1 => row["build_completed"] = "processed"
  /\ row["build_completed"] = "processed" => results = 1 \/ run = "gone"

(***************************************************************************)
(* Test-case results are stored once, together with the verdict the report *)
(* of the harness justifies, however often build_completed is sent and     *)
(* whatever else ends the run, and only an event that was applied stores   *)
(* them.  handleBuildCompleted reads everything that is not failing as     *)
(* passed; that no missing or malformed report gets there is up to the     *)
(* stages of the build and validatePayload.                                *)
(***************************************************************************)
ResultsMatchReport ==
  /\ StoredOnce
  /\ run = "passed" => report = "passing"
  /\ run = "failed" => report = "failing"

(***************************************************************************)
(* A run whose build_started was delivered has ended once a final event of *)
(* its build is delivered: neither retries of the first nor a late answer  *)
(* can leave it running behind a finished build.                           *)
(***************************************************************************)
ReportedRunEnds ==
  /\ outcome["build_started"] = "delivered"
  /\ "delivered" \in {outcome["build_completed"], outcome["build_errored"]}
  => Finished(run)
=============================================================================
