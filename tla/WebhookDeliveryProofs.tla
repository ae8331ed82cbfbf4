------------------------- MODULE WebhookDeliveryProofs -------------------------
(***************************************************************************)
(* Proofs about the delivery of webhooks: that the sending and receiving   *)
(* ends implement Deliveries, and what an unprocessed row means.           *)
(*                                                                         *)
(* The lemmas are about single steps, for Pipeline to use as well: there   *)
(* the report is written by the harness while events are under way.        *)
(***************************************************************************)
EXTENDS WebhookDelivery, TLAPS

\* The harness writes the report.
ReportWritten ==
  /\ report = "none" /\ report' \in Report
  /\ UNCHANGED <<runVars, pinsMatch, row, request, senderVars>>

DeliveryStep == DeliveryNext \/ ReportWritten \/ UNCHANGED deliveryStateVars

-----------------------------------------------------------------------------
\* A request after the lookup that found the given row.
InApi(r, found) == r.at \in {"looked", "in_tx"} /\ r.found = found

Ignored == {"open", "terminal", "not_found"}

\* A request found an open row only if the run had ended, and it stays ended.
OpenFound ==
  \A e \in Events, i \in Attempts :
    InApi(request[e][i], "open") =>
      e = "build_started" /\ pinsMatch /\ Finished(run) /\ row[e] \in Ignored

\* A transaction that inserts the row of its event is alone with it.
FreshAlone ==
  \A e \in Events, i \in Attempts :
    request[e][i].at = "in_tx" /\ request[e][i].found = "none" =>
      /\ row[e] = "none"
      /\ \A j \in Attempts :
           request[e][j].at = "in_tx" /\ request[e][j].found = "none" => j = i

\* What the pipeline takes for delivered has been settled.
AnswersTrue ==
  \A e \in Events, i \in Attempts :
    request[e][i].at = "answered" /\ TakenAsDelivered(request[e][i].code) => row[e] # "none"

OpenRows ==
  \A e \in Events : row[e] = "open" => e = "build_started" /\ pinsMatch /\ Finished(run)

\* Only build_started makes a run running.
RunningStarted == run = "running" => row["build_started"] = "processed"

\* A transaction that read that the run has ended read something lasting.
SawFinished ==
  \A e \in Events, i \in Attempts :
    request[e][i].at = "in_tx" /\ Finished(request[e][i].saw) => Finished(run)

DeliveryInv ==
  /\ ReceiverTypeOK
  /\ OpenFound
  /\ FreshAlone
  /\ AnswersTrue
  /\ OpenRows
  /\ RunningStarted
  /\ SawFinished

-----------------------------------------------------------------------------
(***************************************************************************)
(* Replacing one request leaves all others as they are.                    *)
(***************************************************************************)
LEMMA SetRequest ==
  ASSUME request \in [Events -> [Attempts -> Request]],
         NEW e \in Events, NEW i \in Attempts, NEW r \in Request,
         request' = [request EXCEPT ![e][i] = r]
  PROVE  /\ request' \in [Events -> [Attempts -> Request]]
         /\ request'[e][i] = r
         /\ \A f \in Events, j \in Attempts :
              <<f, j>> # <<e, i>> => request'[f][j] = request[f][j]
  OBVIOUS

(***************************************************************************)
(* An answer ends a request: it waits for its reader, with its code, or is *)
(* lost.                                                                   *)
(***************************************************************************)
LEMMA AnswerEnds ==
  ASSUME ReceiverTypeOK, NEW e \in Events, NEW i \in Attempts, NEW code \in Code,
         Answer(e, i, code)
  PROVE  /\ request' \in [Events -> [Attempts -> Request]]
         /\ request'[e][i].at \in {"answered", "lost"}
         /\ request'[e][i].at = "answered" => request'[e][i].code = code
         /\ \A f \in Events, j \in Attempts :
              <<f, j>> # <<e, i>> => request'[f][j] = request[f][j]
<1> DEFINE r == IF Waiting(e, i) THEN [NoRequest EXCEPT !.at = "answered", !.code = code]
                                 ELSE Lost
<1>1. /\ r \in Request
      /\ r.at \in {"answered", "lost"}
      /\ r.at = "answered" => r.code = code
  BY DEF Lost, NoRequest, Request, Phase, Code
<1>2. request' = [request EXCEPT ![e][i] = r]
  BY DEF Answer
<1> HIDE DEF r
<1> QED
  BY <1>1, <1>2, SetRequest DEF ReceiverTypeOK

(***************************************************************************)
(* curl hanging up loses an answer that nobody has read, no other request. *)
(***************************************************************************)
LEMMA HangUpLoses ==
  ASSUME ReceiverTypeOK, NEW e \in Events, attempt[e] # 0
  PROVE  /\ HangUp(e) \in [Events -> [Attempts -> Request]]
         /\ \A f \in Events, j \in Attempts :
              \/ HangUp(e)[f][j] = request[f][j]
              \/ request[f][j].at = "answered" /\ HangUp(e)[f][j] = Lost
<1>1. Lost \in Request
  BY DEF Lost, NoRequest, Request, Phase, Code
<1>2. attempt[e] \in Attempts
  BY DEF ReceiverTypeOK, Attempts
<1>3. HangUp(e) = [request EXCEPT ![e] =
                    [request[e] EXCEPT ![attempt[e]] =
                       IF request[e][attempt[e]].at = "answered"
                         THEN Lost ELSE request[e][attempt[e]]]]
  BY DEF HangUp
<1> QED
  BY <1>1, <1>2, <1>3 DEF ReceiverTypeOK

(***************************************************************************)
(* The sender: a request is sent, or loses its answer; nothing else.       *)
(***************************************************************************)
LEMMA ConcludeStep ==
  ASSUME ReceiverTypeOK, NEW e \in Events, attempt[e] # 0,
         NEW how \in {"delivered", "failed"}, Conclude(e, how)
  PROVE  /\ ReceiverTypeOK'
         /\ \A f \in Events, j \in Attempts :
              request'[f][j] = request[f][j] \/ request'[f][j] = Lost
  BY HangUpLoses DEF Conclude, ReceiverTypeOK, runVars

LEMMA SendStep ==
  ASSUME ReceiverTypeOK, NEW e \in Events, attempt[e] < MaxAttempts, SendNext(e)
  PROVE  /\ ReceiverTypeOK'
         /\ \A f \in Events, j \in Attempts :
              \/ request'[f][j] = request[f][j]
              \/ request'[f][j] = Lost
              \/ request'[f][j].at = "sent"
<1> DEFINE before == IF attempt[e] = 0 THEN request ELSE HangUp(e)
           next   == attempt[e] + 1
<1>1. /\ before \in [Events -> [Attempts -> Request]]
      /\ \A f \in Events, j \in Attempts :
           before[f][j] = request[f][j] \/ before[f][j] = Lost
  BY HangUpLoses DEF ReceiverTypeOK
<1>2. next \in Attempts
  BY AttemptsAssumption DEF ReceiverTypeOK, Attempts
<1>3. request' = [before EXCEPT ![e] = [before[e] EXCEPT ![next] =
                    [before[e][next] EXCEPT !.at = "sent"]]]
  BY DEF SendNext
<1> HIDE DEF before, next
<1>4. before[e][next] \in Request
  BY <1>1, <1>2
<1>5. /\ [before[e][next] EXCEPT !.at = "sent"] \in Request
      /\ [before[e][next] EXCEPT !.at = "sent"].at = "sent"
  BY <1>4 DEF Request, Phase
<1>6. /\ request' \in [Events -> [Attempts -> Request]]
      /\ request'[e][next].at = "sent"
      /\ \A f \in Events, j \in Attempts :
           <<f, j>> # <<e, next>> => request'[f][j] = before[f][j]
  BY <1>1, <1>2, <1>3, <1>4, <1>5
<1>7. attempt' \in [Events -> 0 .. MaxAttempts]
  BY AttemptsAssumption DEF SendNext, ReceiverTypeOK
<1> QED
  BY <1>1, <1>6, <1>7 DEF SendNext, ReceiverTypeOK, runVars

(***************************************************************************)
(* What an action of the sender does to the requests.                      *)
(***************************************************************************)
SenderStep ==
  /\ ReceiverTypeOK'
  /\ UNCHANGED <<runVars, pinsMatch, report, row>>
  /\ \A f \in Events, j \in Attempts :
       \/ request'[f][j] = request[f][j]
       \/ request'[f][j].at \in {"sent", "lost"}

Sends(e) == Emit(e) \/ ReadAnswer(e) \/ TimeOut(e) \/ CutOff(e)

LEMMA SenderSteps ==
  ASSUME ReceiverTypeOK, NEW e \in Events, Sends(e)
  PROVE  SenderStep
<1>0. Lost.at = "lost"
  BY DEF Lost, NoRequest
<1>1. CASE Emit(e) \/ (TimeOut(e) /\ MayRetry(e))
  <2>1. SendNext(e) /\ attempt[e] < MaxAttempts
    BY <1>1, AttemptsAssumption DEF Emit, TimeOut, MayRetry
  <2> QED
    BY <1>0, <2>1, SendStep DEF SenderStep, SendNext
<1>2. CASE ReadAnswer(e) \/ (TimeOut(e) /\ ~MayRetry(e)) \/ CutOff(e)
  <2>1. /\ Conclude(e, "delivered") \/ Conclude(e, "failed")
        /\ attempt[e] # 0
    BY <1>2 DEF ReadAnswer, TimeOut, CutOff, Emitting, ReceiverTypeOK
  <2> QED
    BY <1>0, <2>1, ConcludeStep DEF SenderStep, Conclude
<1> QED
  BY <1>1, <1>2 DEF Sends

-----------------------------------------------------------------------------
(***************************************************************************)
(* What a transaction commits for event e, whichever handler it ran: state *)
(* is the new state of its row.                                            *)
(***************************************************************************)
Commits(e, state) ==
  /\ UNCHANGED <<pinsMatch, report, senderVars>>
  /\ row' = [row EXCEPT ![e] = state]
  /\ run' \in RunStatuses
  /\ Finished(run) => run' = run
  /\ run' = "running" => run = "running" \/ (e = "build_started" /\ state = "processed")
  /\ state = "open" => e = "build_started" /\ pinsMatch /\ run # "queued"
                       /\ (run # "running" => Finished(run))
  /\ e = "build_started" /\ pinsMatch /\ Finished(run) /\ row[e] \in Ignored
       => state \in Ignored

\* What it does to the results, and when it leaves the run unfinished.
Judges(e, i, state) ==
  /\ \/ /\ results' = results
        /\ run' \in {run, "running", "error"}
        /\ e = "build_completed" => state # "processed"
     \/ /\ e = "build_completed" /\ state = "processed" /\ run = "running"
        /\ run' = IF report = "failing" THEN "failed" ELSE "passed"
        /\ results' = results + 1
  /\ e = "build_started" => run' # "queued"
  /\ e # "build_started" /\ request[e][i].saw # "queued" /\ run # "queued" => Finished(run')

LEMMA ApplyCommits ==
  ASSUME ReceiverTypeOK, SawFinished,
         NEW e \in Events, NEW i \in Attempts, applyEvent(e, i)
  PROVE  \E state \in RowState \ {"none"}, code \in Code :
           Commits(e, state) /\ Judges(e, i, state) /\ Answer(e, i, code)
<1> DEFINE saw == request[e][i].saw
<1>1. /\ UNCHANGED <<pinsMatch, report, senderVars>>
      /\ run \in RunStatuses
      /\ Finished(saw) => Finished(run)
  BY DEF applyEvent, ReceiverTypeOK, SawFinished
<1>2. CASE saw \in TerminalStatuses \union {"gone"}
  <2>1. Finished(run)
    BY <1>1, <1>2 DEF Finished
  <2>2. PICK state \in {"terminal", "not_found"}, code \in {"404", "410"} :
          Commit(e, i, state, run, code) /\ UNCHANGED results
    BY <1>2 DEF applyEvent, TerminalStatuses
  <2>3. Commits(e, state) /\ Judges(e, i, state) /\ Answer(e, i, code)
    BY <1>1, <2>1, <2>2 DEF Commits, Judges, Commit, Ignored, Finished, TerminalStatuses, RunStatuses
  <2> QED
    BY <2>3 DEF RowState, Processed, Code
<1>3. CASE saw \in {"queued", "running"} /\ e = "build_started"
  <2>1. handleBuildStarted(e, i)
    BY <1>3 DEF applyEvent, TerminalStatuses
  <2>2. CASE pinsMatch => run = "queued"
    <3> DEFINE status == IF pinsMatch THEN "running" ELSE IF run = "queued" THEN "error" ELSE run
    <3>1. Commit(e, i, "processed", status, "200") /\ UNCHANGED results
      BY <2>1, <2>2 DEF handleBuildStarted
    <3>2. Commits(e, "processed") /\ Judges(e, i, "processed") /\ Answer(e, i, "200")
      BY <1>1, <1>3, <2>2, <3>1
         DEF Commits, Judges, Commit, Finished, TerminalStatuses, RunStatuses
    <3> QED
      BY <3>2 DEF RowState, Processed, Code
  <2>3. CASE pinsMatch /\ run # "queued"
    <3> DEFINE state == IF row[e] = "none" THEN "open" ELSE row[e]
    <3>1. Commit(e, i, state, run, "410") /\ UNCHANGED results
      BY <2>1, <2>3 DEF handleBuildStarted, LosesStart
    <3>2. state \in RowState \ {"none"}
      BY DEF ReceiverTypeOK, RowState
    <3>3. Commits(e, state) /\ Judges(e, i, state) /\ Answer(e, i, "410")
      BY <1>1, <1>3, <2>3, <3>1
         DEF Commits, Judges, Commit, Ignored, Finished, TerminalStatuses, RunStatuses
    <3> QED
      BY <3>2, <3>3 DEF Code
  <2> QED
    BY <2>2, <2>3
<1>4. CASE saw \in {"queued", "running"} /\ e # "build_started"
  <2>1. CASE saw = "running" /\ run = "running"
    <3> DEFINE status == IF e = "build_errored" THEN "error"
                         ELSE IF report = "failing" THEN "failed" ELSE "passed"
    <3>1. /\ Commit(e, i, "processed", status, "200")
          /\ results' = IF e = "build_completed" THEN results + 1 ELSE results
          /\ e \in {"build_completed", "build_errored"}
      BY <1>4, <2>1 DEF applyEvent, TerminalStatuses, handleBuildCompleted, handleBuildErrored
    <3>2. Commits(e, "processed") /\ Judges(e, i, "processed") /\ Answer(e, i, "200")
      BY <1>1, <1>4, <2>1, <3>1
         DEF Commits, Judges, Commit, Finished, TerminalStatuses, RunStatuses
    <3> QED
      BY <3>2 DEF RowState, Processed, Code
  <2>2. CASE ~(saw = "running" /\ run = "running")
    <3>1. Commit(e, i, "terminal", run, "410") /\ UNCHANGED results
      BY <1>4, <2>2 DEF applyEvent, TerminalStatuses, handleBuildCompleted, handleBuildErrored
    <3>2. Commits(e, "terminal") /\ Judges(e, i, "terminal") /\ Answer(e, i, "410")
      BY <1>1, <1>4, <2>2, <3>1
         DEF Commits, Judges, Commit, Finished, TerminalStatuses, RunStatuses
    <3> QED
      BY <3>2 DEF RowState, Processed, Code
  <2> QED
    BY <2>1, <2>2
<1>5. saw \in TerminalStatuses \union {"gone"} \/ saw \in {"queued", "running"}
  BY DEF applyEvent
<1> QED
  BY <1>2, <1>3, <1>4, <1>5

-----------------------------------------------------------------------------
(***************************************************************************)
(* A step that leaves the rows alone, ends the run if it changes it, and   *)
(* brings no request into a transaction or to an answer.                   *)
(***************************************************************************)
LEMMA QuietKeeps ==
  ASSUME DeliveryInv, ReceiverTypeOK', UNCHANGED <<row, pinsMatch>>,
         run' = run \/ (run' # "running" /\ Finished(run')),
         \A f \in Events, j \in Attempts :
           request'[f][j] = request[f][j] \/ request'[f][j].at \in {"unsent", "sent", "lost"}
  PROVE  DeliveryInv'
<1>1. Finished(run) => Finished(run)'
  BY DEF Finished
<1>2. OpenFound'
  BY <1>1 DEF DeliveryInv, OpenFound, InApi
<1>3. FreshAlone'
  BY DEF DeliveryInv, FreshAlone
<1>4. AnswersTrue'
  BY DEF DeliveryInv, AnswersTrue
<1>5. OpenRows' /\ RunningStarted'
  BY <1>1 DEF DeliveryInv, OpenRows, RunningStarted
<1>6. SawFinished'
  BY <1>1 DEF DeliveryInv, SawFinished
<1> QED
  BY <1>2, <1>3, <1>4, <1>5, <1>6 DEF DeliveryInv

LEMMA LostRequest == Lost \in Request /\ Lost.at = "lost"
  BY DEF Lost, NoRequest, Request, Phase, Code

LEMMA SenderKeeps ==
  ASSUME DeliveryInv, NEW e \in Events, Sends(e)
  PROVE  DeliveryInv'
<1>1. SenderStep
  BY SenderSteps DEF DeliveryInv
<1> QED
  BY <1>1, QuietKeeps DEF SenderStep, runVars

LEMMA RollBackKeeps ==
  ASSUME DeliveryInv, NEW e \in Events, NEW i \in Attempts, RollBack(e, i)
  PROVE  DeliveryInv'
<1>1. /\ request' \in [Events -> [Attempts -> Request]]
      /\ request'[e][i] = Lost
      /\ \A f \in Events, j \in Attempts :
           <<f, j>> # <<e, i>> => request'[f][j] = request[f][j]
  BY LostRequest, SetRequest DEF DeliveryInv, ReceiverTypeOK, RollBack
<1>2. ReceiverTypeOK'
  BY <1>1 DEF DeliveryInv, ReceiverTypeOK, RollBack, runVars, senderVars
<1> QED
  BY <1>1, <1>2, LostRequest, QuietKeeps DEF RollBack, runVars

LEMMA OthersKeep ==
  ASSUME DeliveryInv,
         EndElsewhere \/ DeleteRun \/ ReportWritten \/ UNCHANGED deliveryStateVars
  PROVE  DeliveryInv'
<1>1. ReceiverTypeOK'
  BY DEF DeliveryInv, ReceiverTypeOK, EndElsewhere, DeleteRun, ReportWritten, RunStatuses,
         TerminalStatuses, deliveryStateVars, receiverVars, runVars, senderVars
<1>2. /\ UNCHANGED <<row, pinsMatch, request>>
      /\ run' \in {run, "cancelled", "gone"}
  BY DEF EndElsewhere, DeleteRun, ReportWritten, deliveryStateVars, receiverVars, runVars
<1> QED
  BY <1>1, <1>2, QuietKeeps DEF Finished, TerminalStatuses

LEMMA LookupKeeps ==
  ASSUME DeliveryInv, NEW e \in Events, NEW i \in Attempts, Lookup(e, i)
  PROVE  DeliveryInv'
<1>1. UNCHANGED <<runVars, pinsMatch, report, row, senderVars>>
  BY DEF Lookup
<1>2. CASE \E code \in {"422", "409"} : Answer(e, i, code) /\ (code = "409" => IsDuplicate(e))
  <2>1. PICK code \in {"422", "409"} : Answer(e, i, code) /\ (code = "409" => IsDuplicate(e))
    BY <1>2
  <2>2. /\ request' \in [Events -> [Attempts -> Request]]
        /\ request'[e][i].at \in {"answered", "lost"}
        /\ request'[e][i].at = "answered" => request'[e][i].code = code
        /\ \A f \in Events, j \in Attempts :
             <<f, j>> # <<e, i>> => request'[f][j] = request[f][j]
    BY <2>1, AnswerEnds DEF DeliveryInv, Code
  <2>3. ReceiverTypeOK'
    BY <1>1, <2>2 DEF DeliveryInv, ReceiverTypeOK, runVars, senderVars
  <2>4. AnswersTrue'
    BY <1>1, <2>1, <2>2 DEF DeliveryInv, AnswersTrue, TakenAsDelivered, IsDuplicate, Processed
  <2>5. OpenFound' /\ FreshAlone' /\ SawFinished'
    BY <1>1, <2>2 DEF DeliveryInv, OpenFound, InApi, FreshAlone, SawFinished, runVars, Finished
  <2> QED
    BY <1>1, <2>3, <2>4, <2>5 DEF DeliveryInv, OpenRows, RunningStarted, runVars, Finished
<1>3. CASE /\ ~IsDuplicate(e)
           /\ request' = [request EXCEPT ![e][i] =
                [@ EXCEPT !.at = "looked", !.found = IF row[e] = "none" THEN "none" ELSE "open"]]
  <2> DEFINE found == IF row[e] = "none" THEN "none" ELSE "open"
             r     == [request[e][i] EXCEPT !.at = "looked", !.found = found]
  <2>1. request[e][i] \in Request
    BY DEF DeliveryInv, ReceiverTypeOK
  <2>2. r \in Request /\ r.at = "looked" /\ r.found = found
    BY <2>1 DEF Request, Phase
  <2>3. request' = [request EXCEPT ![e][i] = r]
    BY <1>3
  <2> HIDE DEF r
  <2>4. /\ request' \in [Events -> [Attempts -> Request]]
        /\ request'[e][i] = r
        /\ \A f \in Events, j \in Attempts :
             <<f, j>> # <<e, i>> => request'[f][j] = request[f][j]
    BY <2>2, <2>3, SetRequest DEF DeliveryInv, ReceiverTypeOK
  <2>5. found = "open" => row[e] = "open"
    BY <1>3 DEF DeliveryInv, ReceiverTypeOK, RowState, IsDuplicate
  <2>6. OpenFound'
    BY <1>1, <2>2, <2>4, <2>5
       DEF DeliveryInv, OpenFound, OpenRows, InApi, Ignored, runVars, Finished
  <2>7. FreshAlone' /\ AnswersTrue' /\ SawFinished'
    BY <1>1, <2>2, <2>4 DEF DeliveryInv, FreshAlone, AnswersTrue, SawFinished, runVars, Finished
  <2>8. ReceiverTypeOK'
    BY <1>1, <2>4 DEF DeliveryInv, ReceiverTypeOK, runVars, senderVars
  <2> QED
    BY <1>1, <2>6, <2>7, <2>8 DEF DeliveryInv, OpenRows, RunningStarted, runVars, Finished
<1> QED
  BY <1>2, <1>3 DEF Lookup

LEMMA BeginKeeps ==
  ASSUME DeliveryInv, NEW e \in Events, NEW i \in Attempts, Begin(e, i)
  PROVE  DeliveryInv'
<1>1. UNCHANGED <<runVars, pinsMatch, report, row, senderVars>>
  BY DEF Begin
<1>2. CASE UniqueViolation(e, i) /\ Answer(e, i, "409")
  <2>1. /\ request' \in [Events -> [Attempts -> Request]]
        /\ request'[e][i].at \in {"answered", "lost"}
        /\ \A f \in Events, j \in Attempts :
             <<f, j>> # <<e, i>> => request'[f][j] = request[f][j]
    BY <1>2, AnswerEnds DEF DeliveryInv, Code
  <2>2. row[e] # "none"
    BY <1>2 DEF UniqueViolation
  <2>3. ReceiverTypeOK'
    BY <1>1, <2>1 DEF DeliveryInv, ReceiverTypeOK, runVars, senderVars
  <2>4. OpenFound' /\ FreshAlone' /\ AnswersTrue' /\ SawFinished'
    BY <1>1, <2>1, <2>2
       DEF DeliveryInv, OpenFound, InApi, FreshAlone, AnswersTrue, SawFinished, runVars, Finished
  <2> QED
    BY <1>1, <2>3, <2>4 DEF DeliveryInv, OpenRows, RunningStarted, runVars, Finished
<1>3. CASE /\ ~UniqueViolation(e, i)
           /\ request' = [request EXCEPT ![e][i] = [@ EXCEPT !.at = "in_tx", !.saw = run]]
  <2> DEFINE found == request[e][i].found
             r     == [request[e][i] EXCEPT !.at = "in_tx", !.saw = run]
  <2>1. request[e][i] \in Request /\ run \in RunStatuses
    BY DEF DeliveryInv, ReceiverTypeOK
  <2>2. r \in Request /\ r.at = "in_tx" /\ r.saw = run /\ r.found = found
    BY <2>1 DEF Request, Phase
  <2>3. request' = [request EXCEPT ![e][i] = r]
    BY <1>3
  <2> HIDE DEF r
  <2>4. /\ request' \in [Events -> [Attempts -> Request]]
        /\ request'[e][i] = r
        /\ \A f \in Events, j \in Attempts :
             <<f, j>> # <<e, i>> => request'[f][j] = request[f][j]
    BY <2>2, <2>3, SetRequest DEF DeliveryInv, ReceiverTypeOK
  <2>5. OpenFound'
    BY <1>1, <2>2, <2>4 DEF Begin, DeliveryInv, OpenFound, InApi, runVars, Finished
  <2>6. FreshAlone'
    BY <1>1, <1>3, <2>2, <2>4 DEF Begin, DeliveryInv, FreshAlone, RowHeld, UniqueViolation
  <2>7. AnswersTrue' /\ SawFinished'
    BY <1>1, <2>2, <2>4 DEF DeliveryInv, AnswersTrue, SawFinished, runVars, Finished
  <2>8. ReceiverTypeOK'
    BY <1>1, <2>4 DEF DeliveryInv, ReceiverTypeOK, runVars, senderVars
  <2> QED
    BY <1>1, <2>5, <2>6, <2>7, <2>8 DEF DeliveryInv, OpenRows, RunningStarted, runVars, Finished
<1> QED
  BY <1>2, <1>3 DEF Begin

LEMMA ApplyKeeps ==
  ASSUME DeliveryInv, NEW e \in Events, NEW i \in Attempts, applyEvent(e, i)
  PROVE  DeliveryInv'
<1>1. PICK state \in RowState \ {"none"}, code \in Code :
        Commits(e, state) /\ Judges(e, i, state) /\ Answer(e, i, code)
  BY ApplyCommits DEF DeliveryInv
<1>2. /\ request' \in [Events -> [Attempts -> Request]]
      /\ request'[e][i].at \in {"answered", "lost"}
      /\ \A f \in Events, j \in Attempts :
           <<f, j>> # <<e, i>> => request'[f][j] = request[f][j]
  BY <1>1, AnswerEnds DEF DeliveryInv
<1>3. /\ row' \in [Events -> RowState]
      /\ row'[e] = state
      /\ \A f \in Events : f # e => row'[f] = row[f]
  BY <1>1 DEF Commits, DeliveryInv, ReceiverTypeOK
<1>4. /\ run \in RunStatuses /\ run' \in RunStatuses
      /\ Finished(run) => run' = run
      /\ pinsMatch' = pinsMatch
  BY <1>1 DEF Commits, DeliveryInv, ReceiverTypeOK
<1>5. \/ request[e][i].found = "none" /\ row[e] = "none"
      \/ InApi(request[e][i], "open")
  <2>1. request[e][i].at = "in_tx" /\ request[e][i].found \in {"none", "open"}
    BY DEF applyEvent, DeliveryInv, ReceiverTypeOK, Request
  <2> QED
    BY <2>1 DEF DeliveryInv, FreshAlone, InApi
<1>6. ReceiverTypeOK'
  <2>1. results' \in Nat
    BY <1>1 DEF Judges, DeliveryInv, ReceiverTypeOK
  <2> QED
    BY <1>1, <1>2, <1>3, <1>4, <2>1 DEF Commits, DeliveryInv, ReceiverTypeOK, senderVars
<1>7. OpenFound'
  <2> SUFFICES ASSUME NEW f \in Events, NEW j \in Attempts, InApi(request'[f][j], "open")
               PROVE  f = "build_started" /\ pinsMatch /\ Finished(run) /\ row'[f] \in Ignored
    BY <1>4 DEF OpenFound, Finished
  <2>1. InApi(request[f][j], "open")
    BY <1>2 DEF InApi
  <2>2. f = "build_started" /\ pinsMatch /\ Finished(run) /\ row[f] \in Ignored
    BY <2>1 DEF DeliveryInv, OpenFound
  <2> QED
    BY <1>1, <1>3, <2>2 DEF Commits
<1>8. FreshAlone'
  <2> SUFFICES ASSUME NEW f \in Events, NEW j \in Attempts,
                      request'[f][j].at = "in_tx" /\ request'[f][j].found = "none"
               PROVE  /\ row'[f] = "none"
                      /\ \A k \in Attempts :
                           request'[f][k].at = "in_tx" /\ request'[f][k].found = "none" => k = j
    BY DEF FreshAlone
  <2>1. request[f][j].at = "in_tx" /\ request[f][j].found = "none" /\ <<f, j>> # <<e, i>>
    BY <1>2
  <2>2. f # e
    BY <1>5, <2>1 DEF applyEvent, DeliveryInv, FreshAlone, OpenFound, Ignored
  <2> QED
    BY <1>2, <1>3, <2>1, <2>2 DEF DeliveryInv, FreshAlone
<1>9. AnswersTrue'
  BY <1>2, <1>3 DEF DeliveryInv, AnswersTrue
<1>10. OpenRows'
  <2> SUFFICES ASSUME NEW f \in Events, row'[f] = "open"
               PROVE  f = "build_started" /\ pinsMatch /\ Finished(run)
    BY <1>4 DEF OpenRows, Finished
  <2>1. CASE f # e
    BY <1>3, <2>1 DEF DeliveryInv, OpenRows
  <2>2. CASE f = e
    <3>1. e = "build_started" /\ pinsMatch /\ (run # "running" => Finished(run))
      BY <1>1, <1>3, <2>2 DEF Commits
    <3>2. run # "running"
      BY <1>5, <3>1 DEF DeliveryInv, RunningStarted, OpenFound, Finished, TerminalStatuses
    <3> QED
      BY <2>2, <3>1, <3>2
  <2> QED
    BY <2>1, <2>2
<1>11. RunningStarted'
  <2>1. run' = "running" /\ run = "running" /\ row[e] # "none" => FALSE
    BY <1>5 DEF DeliveryInv, OpenFound, Finished, TerminalStatuses
  <2> QED
    BY <1>1, <1>3, <2>1 DEF Commits, DeliveryInv, RunningStarted
<1>12. SawFinished'
  BY <1>2, <1>4 DEF DeliveryInv, SawFinished, Finished
<1> QED
  BY <1>6, <1>7, <1>8, <1>9, <1>10, <1>11, <1>12 DEF DeliveryInv

(***************************************************************************)
(* DeliveryInv is inductive, also when the harness writes the report.      *)
(***************************************************************************)
LEMMA DeliveryInit == ReceiverInit => DeliveryInv
<1> SUFFICES ASSUME ReceiverInit PROVE DeliveryInv
  OBVIOUS
<1>1. NoRequest \in Request /\ NoRequest.at = "unsent"
  BY DEF NoRequest, Request, Phase, Code
<1>2. ReceiverTypeOK
  BY <1>1, AttemptsAssumption DEF ReceiverInit, ReceiverTypeOK, RunStatuses, RowState
<1>3. \A e \in Events, i \in Attempts : request[e][i].at = "unsent"
  BY <1>1 DEF ReceiverInit
<1> QED
  BY <1>2, <1>3 DEF ReceiverInit, DeliveryInv, OpenFound, InApi, FreshAlone, AnswersTrue,
                    OpenRows, RunningStarted, SawFinished

LEMMA DeliveryKeeps == DeliveryInv /\ DeliveryStep => DeliveryInv'
<1> SUFFICES ASSUME DeliveryInv, DeliveryStep PROVE DeliveryInv'
  OBVIOUS
<1>1. ASSUME NEW e \in Events, NEW i \in Attempts,
             Lookup(e, i) \/ Begin(e, i) \/ applyEvent(e, i) \/ RollBack(e, i)
      PROVE  DeliveryInv'
  BY <1>1, LookupKeeps, BeginKeeps, ApplyKeeps, RollBackKeeps
<1>2. ASSUME NEW e \in Events, Sends(e)
      PROVE  DeliveryInv'
  BY <1>2, SenderKeeps
<1> QED
  BY <1>1, <1>2, OthersKeep DEF DeliveryStep, DeliveryNext, ReceiverNext, Sends

-----------------------------------------------------------------------------
(***************************************************************************)
(* Steps that are not a transaction's commit change neither rows nor, but  *)
(* for ending it, the run.                                                 *)
(***************************************************************************)
LEMMA CommitOrQuiet ==
  ASSUME DeliveryStep
  PROVE  \/ \E e \in Events, i \in Attempts : applyEvent(e, i)
         \/ UNCHANGED <<row, pinsMatch>>
            /\ \/ UNCHANGED <<runVars, report>>
               \/ EndElsewhere
               \/ DeleteRun
               \/ ReportWritten
<1>1. ASSUME NEW e \in Events, NEW i \in Attempts, Lookup(e, i) \/ Begin(e, i) \/ RollBack(e, i)
      PROVE  UNCHANGED <<row, pinsMatch, runVars, report>>
  BY <1>1 DEF Lookup, Begin, RollBack
<1>2. ASSUME NEW e \in Events, Emit(e) \/ ReadAnswer(e) \/ TimeOut(e) \/ CutOff(e)
      PROVE  UNCHANGED <<row, pinsMatch, runVars, report>>
  BY <1>2 DEF Emit, ReadAnswer, TimeOut, CutOff, SendNext, Conclude
<1>3. UNCHANGED deliveryStateVars => UNCHANGED <<row, pinsMatch, runVars, report>>
  BY DEF deliveryStateVars, receiverVars
<1>4. EndElsewhere \/ DeleteRun \/ ReportWritten => UNCHANGED <<row, pinsMatch>>
  BY DEF EndElsewhere, DeleteRun, ReportWritten
<1> QED
  BY <1>1, <1>2, <1>3, <1>4 DEF DeliveryStep, DeliveryNext, ReceiverNext

LEMMA ResultsInit == ReceiverInit => StoredOnce
  BY DEF ReceiverInit, StoredOnce, Events

LEMMA ResultsKeep == DeliveryInv /\ StoredOnce /\ DeliveryStep => StoredOnce'
<1> SUFFICES ASSUME DeliveryInv, StoredOnce, DeliveryStep
             PROVE  StoredOnce'
  OBVIOUS
<1>1. CASE \E e \in Events, i \in Attempts : applyEvent(e, i)
  <2>1. PICK e \in Events, i \in Attempts : applyEvent(e, i)
    BY <1>1
  <2>2. PICK state \in RowState \ {"none"}, code \in Code :
          Commits(e, state) /\ Judges(e, i, state)
    BY <2>1, ApplyCommits DEF DeliveryInv
  <2>3. /\ row'[e] = state
        /\ \A f \in Events : f # e => row'[f] = row[f]
        /\ run \in RunStatuses /\ results \in Nat
        /\ report' = report
    BY <2>2 DEF Commits, DeliveryInv, ReceiverTypeOK
  <2>4. e = "build_completed" => row[e] = "none"
    BY <2>1 DEF applyEvent, DeliveryInv, ReceiverTypeOK, Request, FreshAlone, OpenFound, InApi
  <2>5. "build_completed" \in Events
    BY DEF Events
  <2>6. CASE results' = results /\ (e = "build_completed" => state # "processed")
    <3>1. run' = run \/ (run \in {"queued", "running"} /\ run' \in {"running", "error"})
      BY <2>2, <2>3, <2>6 DEF Commits, Judges, Finished, RunStatuses
    <3>2. results = 1 => row'["build_completed"] = "processed"
      BY <2>3, <2>4, <2>5 DEF StoredOnce
    <3>3. row'["build_completed"] = "processed" => row["build_completed"] = "processed"
      BY <2>3, <2>5, <2>6
    <3> QED
      BY <2>3, <2>6, <3>1, <3>2, <3>3 DEF StoredOnce
  <2>7. CASE /\ e = "build_completed" /\ state = "processed" /\ run = "running"
             /\ run' = IF report = "failing" THEN "failed" ELSE "passed"
             /\ results' = results + 1
    BY <2>3, <2>7 DEF StoredOnce
  <2> QED
    BY <2>2, <2>6, <2>7 DEF Judges
<1>2. CASE UNCHANGED <<row, pinsMatch>> /\ (UNCHANGED <<runVars, report>> \/ EndElsewhere
                                            \/ DeleteRun \/ ReportWritten)
  BY <1>2 DEF StoredOnce, runVars, EndElsewhere, DeleteRun, ReportWritten
<1> QED
  BY <1>1, <1>2, CommitOrQuiet

(***************************************************************************)
(* A commit settles its event, or adds nothing to what was settled.        *)
(***************************************************************************)
LEMMA CommitSettles ==
  ASSUME DeliveryInv, NEW e \in Events, NEW i \in Attempts, applyEvent(e, i)
  PROVE  [Abstract!DeliveriesNext]_Abstract!deliveryVars
<1>1. PICK state \in RowState \ {"none"} : Commits(e, state)
  BY ApplyCommits DEF DeliveryInv
<1>2. /\ row' = [row EXCEPT ![e] = state]
      /\ UNCHANGED outcome
      /\ row \in [Events -> RowState]
  BY <1>1 DEF Commits, senderVars, DeliveryInv, ReceiverTypeOK
<1>3. CASE row[e] = "none"
  <2>1. EffectOf(row[e]) = "none" /\ EffectOf(state) \in {"applied", "ignored"}
    BY <1>3 DEF EffectOf
  <2>2. Abstract!Settle(e)
    BY <1>2, <2>1 DEF Abstract!Settle, Abstract!Settled
  <2> QED
    BY <2>2 DEF Abstract!DeliveriesNext
<1>4. CASE row[e] # "none"
  <2>1. InApi(request[e][i], "open")
    BY <1>4 DEF applyEvent, InApi, DeliveryInv, ReceiverTypeOK, Request, FreshAlone
  <2>2. row[e] \in Ignored /\ state \in Ignored
    BY <1>1, <2>1 DEF DeliveryInv, OpenFound, Commits
  <2>3. EffectOf(row[e]) = EffectOf(state)
    BY <2>2 DEF EffectOf, Ignored
  <2>4. \A f \in Events : EffectOf(row'[f]) = EffectOf(row[f])
    BY <1>2, <2>3
  <2> QED
    BY <1>2, <2>4 DEF Abstract!deliveryVars
<1> QED
  BY <1>3, <1>4

LEMMA SenderBelieves ==
  ASSUME DeliveryInv, NEW e \in Events, Sends(e)
  PROVE  [Abstract!DeliveriesNext]_Abstract!deliveryVars
<1>1. UNCHANGED row
  BY SenderSteps DEF DeliveryInv, SenderStep
<1>2. CASE UNCHANGED outcome
  BY <1>1, <1>2 DEF Abstract!deliveryVars
<1>3. CASE outcome[e] = "pending" /\ Conclude(e, "failed")
  <2>1. Abstract!GiveUp(e)
    BY <1>1, <1>3 DEF Conclude, Abstract!GiveUp
  <2> QED
    BY <2>1 DEF Abstract!DeliveriesNext
<1>4. CASE ReadAnswer(e) /\ Conclude(e, "delivered")
  <2>1. PICK i \in Attempts : i = attempt[e]
    BY <1>4 DEF ReadAnswer, Emitting, DeliveryInv, ReceiverTypeOK, Attempts
  <2>2. CASE TakenAsDelivered(request[e][i].code)
    <3>1. EffectOf(row[e]) \in {"applied", "ignored"}
      BY <1>4, <2>1, <2>2 DEF ReadAnswer, DeliveryInv, AnswersTrue, EffectOf
    <3>2. Abstract!Deliver(e)
      BY <1>1, <1>4, <3>1 DEF ReadAnswer, Emitting, Conclude, Abstract!Deliver, Abstract!Settled
    <3> QED
      BY <3>2 DEF Abstract!DeliveriesNext
  <2>3. CASE ~TakenAsDelivered(request[e][i].code)
    <3>1. outcome[e] = "pending" /\ Conclude(e, "failed")
      BY <1>4, <2>1, <2>3 DEF ReadAnswer, Emitting
    <3> QED
      BY <1>3, <3>1
  <2> QED
    BY <2>2, <2>3
<1> QED
  BY <1>2, <1>3, <1>4
     DEF Sends, Emit, ReadAnswer, TimeOut, CutOff, Emitting, SendNext

(***************************************************************************)
(* The initial states and the steps of the delivery are those of           *)
(* Deliveries, or stutter.                                                 *)
(***************************************************************************)
LEMMA DeliveriesStart == ReceiverInit => Abstract!DeliveriesInit
  BY DEF ReceiverInit, Abstract!DeliveriesInit, EffectOf

LEMMA DeliveriesSteps ==
  DeliveryInv /\ DeliveryStep => [Abstract!DeliveriesNext]_Abstract!deliveryVars
<1> SUFFICES ASSUME DeliveryInv, DeliveryStep
             PROVE  [Abstract!DeliveriesNext]_Abstract!deliveryVars
  OBVIOUS
<1>1. CASE \E e \in Events, i \in Attempts : applyEvent(e, i)
  BY <1>1, CommitSettles
<1>2. CASE \E e \in Events : Sends(e)
  BY <1>2, SenderBelieves
<1>3. CASE UNCHANGED <<row, outcome>>
  BY <1>3 DEF Abstract!deliveryVars
<1>4. ASSUME NEW e \in Events, NEW i \in Attempts, Lookup(e, i) \/ Begin(e, i) \/ RollBack(e, i)
      PROVE  UNCHANGED <<row, outcome>>
  BY <1>4 DEF Lookup, Begin, RollBack, senderVars
<1>5. EndElsewhere \/ DeleteRun \/ ReportWritten \/ UNCHANGED deliveryStateVars
        => UNCHANGED <<row, outcome>>
  BY DEF EndElsewhere, DeleteRun, ReportWritten, deliveryStateVars, receiverVars, senderVars
<1> QED
  BY <1>1, <1>2, <1>3, <1>4, <1>5 DEF DeliveryStep, DeliveryNext, ReceiverNext, Sends

-----------------------------------------------------------------------------
(***************************************************************************)
(* Builds that send a final event only after build_started was delivered,  *)
(* or when it never will be.                                               *)
(***************************************************************************)
StartConcluded ==
  outcome'["build_started"] = "delivered" /\ outcome["build_started"] # "delivered"
    => attempt["build_completed"] = 0 /\ attempt["build_errored"] = 0

\* Nothing is known of an event that was never sent.
SentFirst ==
  \A e \in Events : attempt[e] = 0 =>
    row[e] = "none" /\ \A i \in Attempts : request[e][i].at = "unsent"

DeliveredRows == \A e \in Events : outcome[e] = "delivered" => row[e] # "none"

StartLeavesQueue == row["build_started"] # "none" => run # "queued"

\* A final event of a started build does not read a queued run, and ends it.
FinalEventsEnd ==
  outcome["build_started"] = "delivered" =>
    \A e \in Events \ {"build_started"} :
      /\ \A i \in Attempts : request[e][i].at = "in_tx" => request[e][i].saw # "queued"
      /\ row[e] # "none" => Finished(run)

OrderInv == SentFirst /\ DeliveredRows /\ StartLeavesQueue /\ FinalEventsEnd

LEMMA SendsOwn ==
  ASSUME ReceiverTypeOK, NEW e \in Events, Sends(e)
  PROVE  /\ attempt'[e] > 0
         /\ \A f \in Events : f # e => /\ request'[f] = request[f]
                                       /\ attempt'[f] = attempt[f]
                                       /\ outcome'[f] = outcome[f]
<1> USE DEF ReceiverTypeOK
<1>1. CASE SendNext(e)
  BY <1>1, AttemptsAssumption DEF SendNext, HangUp
<1>2. CASE attempt[e] > 0 /\ (Conclude(e, "delivered") \/ Conclude(e, "failed"))
  BY <1>2 DEF Conclude, HangUp
<1> QED
  BY <1>1, <1>2 DEF Sends, Emit, ReadAnswer, TimeOut, CutOff, Emitting

LEMMA DeliveredMeansSettled ==
  ASSUME DeliveryInv, NEW e \in Events, Sends(e),
         outcome[e] # "delivered", outcome'[e] = "delivered"
  PROVE  row[e] # "none"
<1>1. /\ ReadAnswer(e) /\ attempt[e] \in Attempts
      /\ TakenAsDelivered(request[e][attempt[e]].code)
  BY DEF Sends, Emit, ReadAnswer, TimeOut, CutOff, Emitting, SendNext, Conclude,
         DeliveryInv, ReceiverTypeOK, Attempts
<1> QED
  BY <1>1 DEF ReadAnswer, DeliveryInv, AnswersTrue

LEMMA RequestMoves ==
  ASSUME ReceiverTypeOK, NEW e \in Events, NEW i \in Attempts,
         Lookup(e, i) \/ Begin(e, i) \/ RollBack(e, i)
  PROVE  /\ request'[e][i].at = "in_tx" => request'[e][i].saw = run
         /\ \A f \in Events, j \in Attempts :
              <<f, j>> # <<e, i>> => request'[f][j] = request[f][j]
<1>1. ASSUME NEW code \in Code, Answer(e, i, code)
      PROVE  /\ request'[e][i].at \in {"answered", "lost"}
             /\ \A f \in Events, j \in Attempts :
                  <<f, j>> # <<e, i>> => request'[f][j] = request[f][j]
  BY <1>1, AnswerEnds
<1>2. CASE \E code \in {"422", "409"} : Answer(e, i, code)
  BY <1>1, <1>2 DEF Code
<1>3. CASE \E found \in {"none", "open"} :
             request' = [request EXCEPT ![e][i] = [@ EXCEPT !.at = "looked", !.found = found]]
  <2> PICK found \in {"none", "open"} :
             request' = [request EXCEPT ![e][i] = [@ EXCEPT !.at = "looked", !.found = found]]
    BY <1>3
  <2> QED
    BY DEF ReceiverTypeOK, Request
<1>4. CASE request' = [request EXCEPT ![e][i] = [@ EXCEPT !.at = "in_tx", !.saw = run]]
  BY <1>4 DEF ReceiverTypeOK, Request
<1>5. CASE request' = [request EXCEPT ![e][i] = Lost]
  BY <1>5, LostRequest DEF ReceiverTypeOK
<1> QED
  BY <1>2, <1>3, <1>4, <1>5 DEF Lookup, Begin, RollBack

LEMMA OrderStarts == ReceiverInit => OrderInv
  BY DEF ReceiverInit, OrderInv, SentFirst, DeliveredRows, StartLeavesQueue, FinalEventsEnd,
         NoRequest, Events

LEMMA OrderKept == DeliveryInv /\ OrderInv /\ DeliveryStep /\ StartConcluded => OrderInv'
<1> SUFFICES ASSUME DeliveryInv, OrderInv, DeliveryStep, StartConcluded PROVE OrderInv'
  OBVIOUS
<1> USE DEF OrderInv, SentFirst, DeliveredRows, StartLeavesQueue, FinalEventsEnd
<1>0. /\ ReceiverTypeOK
      /\ "build_started" \in Events
  BY DEF DeliveryInv, Events
<1>1. ASSUME NEW e \in Events, NEW i \in Attempts, applyEvent(e, i)
      PROVE  OrderInv'
  <2>1. PICK state \in RowState \ {"none"}, code \in Code :
          Commits(e, state) /\ Judges(e, i, state) /\ Answer(e, i, code)
    BY <1>1, ApplyCommits DEF DeliveryInv
  <2>2. /\ request'[e][i].at \in {"answered", "lost"}
        /\ \A f \in Events, j \in Attempts :
             <<f, j>> # <<e, i>> => request'[f][j] = request[f][j]
    BY <1>0, <2>1, AnswerEnds
  <2>3. /\ row'[e] = state
        /\ \A f \in Events : f # e => row'[f] = row[f]
        /\ UNCHANGED <<outcome, attempt>>
        /\ Finished(run) => run' = run
        /\ run # "queued" => run' # "queued"
    BY <1>0, <2>1 DEF Commits, Judges, ReceiverTypeOK, senderVars
  <2>4. request[e][i].at = "in_tx" /\ attempt[e] # 0
    BY <1>1 DEF applyEvent
  <2>5. SentFirst' /\ DeliveredRows'
    BY <2>2, <2>3, <2>4
  <2>6. StartLeavesQueue'
    BY <1>0, <2>1, <2>3 DEF Judges
  <2>7. FinalEventsEnd'
    <3> SUFFICES ASSUME outcome["build_started"] = "delivered",
                        NEW f \in Events \ {"build_started"}
                 PROVE  /\ \A j \in Attempts :
                             request'[f][j].at = "in_tx" => request'[f][j].saw # "queued"
                        /\ row'[f] # "none" => Finished(run')
      BY <2>3 DEF Finished
    <3>1. run # "queued"
      BY <1>0
    <3>2. f = e => Finished(run')
      BY <2>1, <2>4, <3>1 DEF Judges
    <3> QED
      BY <2>2, <2>3, <3>2 DEF Finished
  <2> QED
    BY <2>5, <2>6, <2>7
<1>2. ASSUME NEW e \in Events, NEW i \in Attempts, Lookup(e, i) \/ Begin(e, i) \/ RollBack(e, i)
      PROVE  OrderInv'
  <2>1. /\ UNCHANGED <<run, row, outcome, attempt>>
        /\ request[e][i].at # "unsent"
        /\ request[e][i].at = "in_tx" \/ request[e][i].at \in {"sent", "looked"}
    BY <1>2 DEF Lookup, Begin, RollBack, runVars, senderVars
  <2>2. /\ request'[e][i].at = "in_tx" => request'[e][i].saw = run
        /\ \A f \in Events, j \in Attempts :
             <<f, j>> # <<e, i>> => request'[f][j] = request[f][j]
    BY <1>0, <1>2, RequestMoves
  <2> QED
    BY <1>0, <2>1, <2>2 DEF Finished
<1>3. ASSUME NEW e \in Events, Sends(e)
      PROVE  OrderInv'
  <2>1. SenderStep
    BY <1>0, <1>3, SenderSteps
  <2>2. /\ UNCHANGED <<run, row>>
        /\ \A f \in Events, j \in Attempts :
             request'[f][j] = request[f][j] \/ request'[f][j].at \in {"sent", "lost"}
    BY <2>1 DEF SenderStep, runVars
  <2>3. /\ attempt'[e] > 0
        /\ \A f \in Events : f # e => /\ request'[f] = request[f]
                                      /\ attempt'[f] = attempt[f]
                                      /\ outcome'[f] = outcome[f]
    BY <1>0, <1>3, SendsOwn
  <2>4. SentFirst' /\ StartLeavesQueue'
    BY <2>2, <2>3
  <2>5. DeliveredRows'
    BY <1>3, <2>2, <2>3, DeliveredMeansSettled
  <2>6. FinalEventsEnd'
    <3>1. CASE outcome["build_started"] = "delivered"
      BY <2>2, <3>1 DEF Finished
    <3>2. CASE outcome["build_started"] # "delivered" /\ outcome'["build_started"] = "delivered"
      <4>1. e = "build_started"
        BY <1>0, <2>3, <3>2
      <4>2. \A f \in Events \ {"build_started"} : attempt[f] = 0
        BY <3>2 DEF StartConcluded, Events
      <4> QED
        BY <2>2, <4>1, <4>2
    <3> QED
      BY <3>1, <3>2
  <2> QED
    BY <2>4, <2>5, <2>6
<1>4. CASE EndElsewhere \/ DeleteRun \/ ReportWritten \/ UNCHANGED deliveryStateVars
  <2>1. /\ UNCHANGED <<row, request, outcome, attempt>>
        /\ run' \in {run, "cancelled", "gone"}
    BY <1>4 DEF EndElsewhere, DeleteRun, ReportWritten, deliveryStateVars, receiverVars,
                runVars, senderVars
  <2> QED
    BY <2>1 DEF Finished, TerminalStatuses
<1> QED
  BY <1>1, <1>2, <1>3, <1>4 DEF DeliveryStep, DeliveryNext, ReceiverNext, Sends

-----------------------------------------------------------------------------
(***************************************************************************)
(* The verdict of a run is that of the report, and a request that          *)
(* validatePayload has let through carries one that can be judged, as long *)
(* as build_completed is sent only once there is a report.                 *)
(***************************************************************************)
VerdictInv ==
  /\ \A i \in Attempts :
       request["build_completed"][i].at \in {"looked", "in_tx"} => report \in {"passing", "failing"}
  /\ run = "passed" => report = "passing"
  /\ run = "failed" => report = "failing"

SentWithReport == attempt["build_completed"] > 0 => report # "none"

LEMMA VerdictStarts == ReceiverInit => VerdictInv
  BY DEF ReceiverInit, VerdictInv, NoRequest, Events

LEMMA VerdictKept ==
  DeliveryInv /\ SentFirst /\ SentWithReport /\ VerdictInv /\ DeliveryStep => VerdictInv'
<1> SUFFICES ASSUME DeliveryInv, SentFirst, SentWithReport, VerdictInv, DeliveryStep
             PROVE  VerdictInv'
  OBVIOUS
<1> USE DEF VerdictInv
<1>0. /\ ReceiverTypeOK
      /\ "build_completed" \in Events
  BY DEF DeliveryInv, Events
<1>1. ASSUME NEW e \in Events, NEW i \in Attempts, applyEvent(e, i)
      PROVE  VerdictInv'
  <2>1. PICK state \in RowState \ {"none"}, code \in Code :
          Commits(e, state) /\ Judges(e, i, state) /\ Answer(e, i, code)
    BY <1>1, ApplyCommits DEF DeliveryInv
  <2>2. \A j \in Attempts : \/ request'["build_completed"][j] = request["build_completed"][j]
                            \/ request'["build_completed"][j].at \in {"answered", "lost"}
    BY <1>0, <2>1, AnswerEnds
  <2>3. report' = report /\ report \in Report
    BY <1>0, <2>1 DEF Commits, ReceiverTypeOK
  <2>4. CASE run' \in {run, "running", "error"}
    BY <2>2, <2>3, <2>4
  <2>5. CASE e = "build_completed" /\ run' = IF report = "failing" THEN "failed" ELSE "passed"
    <3>1. report \in {"passing", "failing"}
      BY <1>1, <2>5 DEF applyEvent
    <3> QED
      BY <2>2, <2>3, <2>5, <3>1
  <2> QED
    BY <2>1, <2>4, <2>5 DEF Judges
<1>2. ASSUME NEW e \in Events, NEW i \in Attempts, Lookup(e, i) \/ Begin(e, i) \/ RollBack(e, i)
      PROVE  VerdictInv'
  <2>1. /\ UNCHANGED <<run, report>>
        /\ request[e][i].at \in {"sent", "looked", "in_tx"}
    BY <1>2 DEF Lookup, Begin, RollBack, runVars
  <2>2. \A f \in Events, j \in Attempts : <<f, j>> # <<e, i>> => request'[f][j] = request[f][j]
    BY <1>0, <1>2, RequestMoves
  <2>3. e = "build_completed" /\ request'[e][i].at \in {"looked", "in_tx"}
          => report \in {"passing", "failing"}
    <3> SUFFICES ASSUME e = "build_completed", request'[e][i].at \in {"looked", "in_tx"},
                        Lookup(e, i)
                 PROVE  report \in {"passing", "failing"}
      BY <1>2 DEF Begin, RollBack
    <3>1. ~Answer(e, i, "422")
      BY <1>0, AnswerEnds DEF Code
    <3>2. report # "malformed" /\ request[e][i].at = "sent"
      BY <3>1 DEF Lookup, ValidPayload
    <3>3. report # "none"
      BY <1>0, <3>2 DEF SentFirst, SentWithReport, ReceiverTypeOK
    <3> QED
      BY <1>0, <3>2, <3>3 DEF ReceiverTypeOK, Report
  <2> QED
    BY <1>0, <2>1, <2>2, <2>3
<1>3. ASSUME NEW e \in Events, Sends(e)
      PROVE  VerdictInv'
  <2>1. SenderStep
    BY <1>0, <1>3, SenderSteps
  <2> QED
    BY <1>0, <2>1 DEF SenderStep, runVars
<1>4. CASE EndElsewhere \/ DeleteRun \/ ReportWritten \/ UNCHANGED deliveryStateVars
  <2>1. /\ request' = request
        /\ run' \in {run, "cancelled", "gone"}
        /\ report' = report \/ (report = "none" /\ run' = run)
    BY <1>4 DEF EndElsewhere, DeleteRun, ReportWritten, deliveryStateVars, receiverVars, runVars
  <2> QED
    BY <2>1
<1> QED
  BY <1>1, <1>2, <1>3, <1>4 DEF DeliveryStep, DeliveryNext, ReceiverNext, Sends

-----------------------------------------------------------------------------
(***************************************************************************)
(* The sending and receiving ends alone, in whatever order events are      *)
(* sent, implement Deliveries.                                             *)
(***************************************************************************)
THEOREM DeliveryImplementsDeliveries == DeliverySpec => SettledOnce
<1>1. DeliverySpec => []DeliveryInv
  BY DeliveryInit, DeliveryKeeps, PTL DEF DeliverySpec, DeliveryStep
<1>2. DeliveryInv /\ [DeliveryNext]_deliveryStateVars
        => [Abstract!DeliveriesNext]_Abstract!deliveryVars
  BY DeliveriesSteps DEF DeliveryStep
<1> QED
  BY <1>1, <1>2, DeliveriesStart, PTL DEF DeliverySpec, SettledOnce, Abstract!DeliveriesSpec
=============================================================================
