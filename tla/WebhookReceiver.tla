--------------------------- MODULE WebhookReceiver ---------------------------
(***************************************************************************)
(* JenkinsWebhookService.handle: the idempotency table in front of the     *)
(* event handlers.  A build sends an event several times with one key, and *)
(* does not wait for a request it has timed out, so two requests for one   *)
(* key may be in the API at once, and a request may be overtaken by the    *)
(* next event of its build.                                                *)
(*                                                                         *)
(* A request reads the event row before its transaction.  Inside the       *)
(* transaction (READ COMMITTED) the insert of the row and the read of the  *)
(* run are one step, which waits for another request's uncommitted row of  *)
(* the same key; the conditional update locks the run until the commit, so *)
(* the rest is one step.  A transaction that throws leaves nothing behind. *)
(***************************************************************************)
EXTENDS Naturals

CONSTANT MaxAttempts     \* how often the build sends an event: 6 in the code

ASSUME AttemptsAssumption == MaxAttempts \in Nat \ {0}

Attempts == 1..MaxAttempts
Events   == {"build_started", "build_completed", "build_errored"}

TerminalStatuses == {"passed", "failed", "error", "cancelled"}
RunStatuses      == {"queued", "running", "gone"} \union TerminalStatuses

\* processed_at is set on the rows in these states, which name what was done.
Processed == {"processed", "terminal", "not_found"}
RowState  == Processed \union {"none", "open"}

VARIABLES
  run,       \* status of the run the build reports on; "gone" once deleted
  results,   \* how often its TestCaseResult rows have been stored
  pinsMatch, \* build_started reports the pins that triggerRun stored
  report,    \* the result.json of the build: none yet, or what it says
  row,       \* the webhook_events row of each event
  request,   \* the requests that carry each event
  outcome,   \* what the build believes about each event
  attempt    \* the attempt it is making, 0 before the first

runVars      == <<run, results>>
receiverVars == <<runVars, pinsMatch, report, row, request>>
senderVars   == <<outcome, attempt>>
deliveryStateVars == <<receiverVars, senderVars>>

Report  == {"none", "passing", "failing", "malformed"}
Phase   == {"unsent", "sent", "looked", "in_tx", "answered", "lost"}
Code    == {"none", "200", "404", "409", "410", "422"}
Request ==
  [at : Phase, found : {"none", "open"}, saw : RunStatuses \union {"none"}, code : Code]

NoRequest == [at |-> "unsent", found |-> "none", saw |-> "none", code |-> "none"]

ReceiverTypeOK ==
  /\ run       \in RunStatuses
  /\ results   \in Nat
  /\ pinsMatch \in BOOLEAN
  /\ report    \in Report
  /\ row       \in [Events -> RowState]
  /\ request   \in [Events -> [Attempts -> Request]]
  /\ outcome   \in [Events -> {"pending", "delivered", "failed"}]
  /\ attempt   \in [Events -> 0..MaxAttempts]

ReceiverInit ==
  /\ run = "queued" /\ results = 0
  /\ pinsMatch \in BOOLEAN
  /\ report \in Report
  /\ row     = [e \in Events |-> "none"]
  /\ request = [e \in Events |-> [i \in Attempts |-> NoRequest]]
  /\ outcome = [e \in Events |-> "pending"]
  /\ attempt = [e \in Events |-> 0]

Lost == [NoRequest EXCEPT !.at = "lost"]

\* curl has hung up on the attempts before the current one.
Waiting(e, i) == outcome[e] = "pending" /\ attempt[e] = i

Answer(e, i, code) ==
  request' = [request EXCEPT ![e][i] =
    IF Waiting(e, i) THEN [NoRequest EXCEPT !.at = "answered", !.code = code] ELSE Lost]

Finished(status) == status \in TerminalStatuses \union {"gone"}

-----------------------------------------------------------------------------
\* Mistake: the cases of a report are not looked at.
AnyPayload(e) == TRUE

\* validatePayload: the cases of a report must have a name, a status, a duration.
ValidPayload(e) == e = "build_completed" => report # "malformed"

\* Mistake: a row counts as a duplicate only while it is unprocessed.
IsOpenRow(e) == row[e] = "open"

\* existing.processed_at; every attempt sends the same bytes, so the hash agrees.
IsDuplicate(e) == row[e] \in Processed

\* The request arrives: signature, payload, findUnique.
Lookup(e, i) ==
  /\ request[e][i].at = "sent"
  /\ \/ /\ ~ValidPayload(e)
        /\ Answer(e, i, "422")
     \/ /\ ValidPayload(e) /\ IsDuplicate(e)
        /\ Answer(e, i, "409")
     \/ /\ ValidPayload(e) /\ ~IsDuplicate(e)
        /\ request' = [request EXCEPT ![e][i] =
             [@ EXCEPT !.at = "looked", !.found = IF row[e] = "none" THEN "none" ELSE "open"]]
  /\ UNCHANGED <<runVars, pinsMatch, report, row, senderVars>>

\* Another request's transaction has inserted the row and not ended.
RowHeld(e, i) ==
  \E j \in Attempts \ {i} : request[e][j].at = "in_tx" /\ request[e][j].found = "none"

\* P2002: the row has been committed since the lookup.
UniqueViolation(e, i) == request[e][i].found = "none" /\ row[e] # "none"

\* The transaction starts: webhookEvent.create unless there is a row, then findUnique.
Begin(e, i) ==
  /\ request[e][i].at = "looked"
  /\ request[e][i].found = "none" => ~RowHeld(e, i)
  /\ \/ UniqueViolation(e, i) /\ Answer(e, i, "409")
     \/ /\ ~UniqueViolation(e, i)
        /\ request' = [request EXCEPT ![e][i] = [@ EXCEPT !.at = "in_tx", !.saw = run]]
  /\ UNCHANGED <<runVars, pinsMatch, report, row, senderVars>>

(***************************************************************************)
(* The handlers.  Each says what its transaction commits: the state of the *)
(* row, the status of the run, and the answer.  saw is the status read at  *)
(* the start of the transaction; the conditional update tests run itself.  *)
(***************************************************************************)
Commit(e, i, rowState, status, code) ==
  /\ row' = [row EXCEPT ![e] = rowState]
  /\ run' = status
  /\ Answer(e, i, code)

\* The lost update of build_started returns before processed_at is set.
LosesStart(e, i) ==
  Commit(e, i, IF row[e] = "none" THEN "open" ELSE row[e], run, "410")

handleBuildStarted(e, i) ==
  /\ UNCHANGED results
  /\ \/ /\ ~pinsMatch
        /\ Commit(e, i, "processed", IF run = "queued" THEN "error" ELSE run, "200")
     \/ /\ pinsMatch /\ run = "queued"
        /\ Commit(e, i, "processed", "running", "200")
     \/ /\ pinsMatch /\ run # "queued"
        /\ LosesStart(e, i)

\* Mistake: like build_started, a late report leaves processed_at unset.
LosesReport(e, i, saw) ==
  \/ /\ saw = "running" /\ run = "running"
     /\ Commit(e, i, "processed", IF report = "failing" THEN "failed" ELSE "passed", "200")
     /\ results' = results + 1
  \/ /\ ~(saw = "running" /\ run = "running")
     /\ Commit(e, i, "open", run, "410")
     /\ UNCHANGED results

handleBuildCompleted(e, i, saw) ==
  \/ /\ saw = "running" /\ run = "running"
     /\ Commit(e, i, "processed", IF report = "failing" THEN "failed" ELSE "passed", "200")
     /\ results' = results + 1
  \/ /\ ~(saw = "running" /\ run = "running")
     /\ Commit(e, i, "terminal", run, "410")
     /\ UNCHANGED results

handleBuildErrored(e, i, saw) ==
  /\ UNCHANGED results
  /\ \/ /\ saw = "running" /\ run = "running"
        /\ Commit(e, i, "processed", "error", "200")
     \/ /\ ~(saw = "running" /\ run = "running")
        /\ Commit(e, i, "terminal", run, "410")

applyEvent(e, i) ==
  LET saw == request[e][i].saw IN
  /\ request[e][i].at = "in_tx"
  /\ UNCHANGED <<pinsMatch, report, senderVars>>
  /\ \/ /\ saw = "gone"
        /\ Commit(e, i, "not_found", run, "404")
        /\ UNCHANGED results
     \/ /\ saw \in TerminalStatuses
        /\ Commit(e, i, "terminal", run, "410")
        /\ UNCHANGED results
     \/ /\ saw \in {"queued", "running"}
        /\ \/ e = "build_started"   /\ handleBuildStarted(e, i)
           \/ e = "build_completed" /\ handleBuildCompleted(e, i, saw)
           \/ e = "build_errored"   /\ handleBuildErrored(e, i, saw)

(***************************************************************************)
(* A statement throws, or the API dies: the transaction is rolled back and *)
(* the answer, if any, is a 500.  A request that is lost before its        *)
(* transaction is one that gets no further.                                *)
(***************************************************************************)
RollBack(e, i) ==
  /\ request[e][i].at = "in_tx"
  /\ request' = [request EXCEPT ![e][i] = Lost]
  /\ UNCHANGED <<runVars, pinsMatch, report, row, senderVars>>

\* cancelRun, the reaper or the catch block of triggerRun ends the run.
EndElsewhere ==
  /\ run \in {"queued", "running"}
  /\ run' = "cancelled"
  /\ UNCHANGED <<results, pinsMatch, report, row, request, senderVars>>

\* The user deletes the repository; run and results go with it.
DeleteRun ==
  /\ run # "gone"
  /\ run' = "gone" /\ results' = 0
  /\ UNCHANGED <<pinsMatch, report, row, request, senderVars>>

ReceiverNext ==
  \/ \E e \in Events, i \in Attempts :
       Lookup(e, i) \/ Begin(e, i) \/ applyEvent(e, i) \/ RollBack(e, i)
  \/ EndElsewhere
  \/ DeleteRun
=============================================================================
