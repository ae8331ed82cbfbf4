----------------------------- MODULE AbortsQueue -----------------------------
(***************************************************************************)
(* The durable BullMQ queue of Jenkins aborts: at most one job per run,    *)
(* because the job's id is derived from the run's.  The module gives the   *)
(* queue's state and the operations on it; RunLifecycle extends it and     *)
(* says who calls them, and when.                                          *)
(*                                                                         *)
(* A job that failed MaxAttempts times stays in the failed set             *)
(* (removeOnFail: false) and keeps its id, so adding it again is a no-op.  *)
(***************************************************************************)
EXTENDS RunStatus, Naturals

CONSTANT MaxAttempts     \* attempts of a job before it is given up

ASSUME AttemptsAssumption == MaxAttempts \in Nat \ {0}

VARIABLES
  jobState,     \* of the job of each run; "waiting" includes backing off
  jobUrl,       \* the URL in the job's data
  attempts      \* attempts the job has failed

queueVars == <<jobState, jobUrl, attempts>>

JobState == {"absent", "waiting", "active", "failed"}

QueueTypeOK ==
  /\ jobState \in [Runs -> JobState]
  /\ jobUrl   \in [Runs -> Url]
  /\ attempts \in [Runs -> 0 .. MaxAttempts]
  /\ \A r \in Runs :
       jobState[r] \in {"waiting", "active"} => attempts[r] < MaxAttempts

QueueInit ==
  /\ jobState = [r \in Runs |-> "absent"]
  /\ jobUrl   = [r \in Runs |-> "null"]
  /\ attempts = [r \in Runs |-> 0]

\* The entry for r becomes a fresh job, or disappears.
PutJob(r, state, url) ==
  /\ jobState' = [jobState EXCEPT ![r] = state]
  /\ jobUrl'   = [jobUrl   EXCEPT ![r] = url]
  /\ attempts' = [attempts EXCEPT ![r] = 0]

(***************************************************************************)
(* enqueue(run): the caller leaves the URL to the row.  Without a URL, or  *)
(* with a job for the run in any state, nothing happens.                   *)
(***************************************************************************)
EnqueueStored(r, rowUrl) ==
  IF rowUrl # "null" /\ jobState[r] = "absent"
    THEN PutJob(r, "waiting", rowUrl)
    ELSE UNCHANGED queueVars

(***************************************************************************)
(* enqueue(run, url): the caller vouches for the URL.  A job with another  *)
(* URL is removed first, but BullMQ refuses to remove a job a worker is    *)
(* running, and the refusal is swallowed.                                  *)
(***************************************************************************)
Replaceable(r, url) ==
  \/ jobState[r] = "absent"
  \/ jobState[r] \in {"waiting", "failed"} /\ jobUrl[r] # url

EnqueueAsserted(r, url) ==
  IF Replaceable(r, url)
    THEN PutJob(r, "waiting", url)
    ELSE UNCHANGED queueVars

TakeJob(r) ==
  /\ jobState[r] = "waiting"
  /\ jobState' = [jobState EXCEPT ![r] = "active"]
  /\ UNCHANGED <<jobUrl, attempts>>

JobSucceeds(r) ==
  /\ jobState[r] = "active"
  /\ PutJob(r, "absent", "null")

\* Mistake: back off once more after the last attempt.
RetryAlways(r) ==
  /\ jobState[r] = "active"
  /\ attempts' = [attempts EXCEPT ![r] = @ + 1]
  /\ jobState' = [jobState EXCEPT ![r] = "waiting"]
  /\ UNCHANGED jobUrl

JobFails(r) ==
  /\ jobState[r] = "active"
  /\ attempts' = [attempts EXCEPT ![r] = @ + 1]
  /\ jobState' = [jobState EXCEPT
                    ![r] = IF attempts[r] + 1 < MaxAttempts
                             THEN "waiting" ELSE "failed"]
  /\ UNCHANGED jobUrl

\* The worker died with its jobs unfinished: the queue delivers them again.
JobsStall ==
  /\ jobState' = [r \in Runs |->
                    IF jobState[r] = "active" THEN "waiting" ELSE jobState[r]]
  /\ UNCHANGED <<jobUrl, attempts>>
=============================================================================
