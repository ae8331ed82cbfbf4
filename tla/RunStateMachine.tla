--------------------------- MODULE RunStateMachine ---------------------------
(***************************************************************************)
(* What the platform promises about TestRun rows, whoever writes them: the *)
(* transition table of the state machine, one non-terminal run per user,   *)
(* and test-case results that appear together with the verdict.            *)
(*                                                                         *)
(* This is the abstract specification that RunLifecycle implements.  Every *)
(* action below is one row of the table; RunLifecycle has, for most rows,  *)
(* several pieces of code racing to perform it.                            *)
(***************************************************************************)
EXTENDS RunStatus

VARIABLES
  status,     \* status column of each run; "none" while there is no row
  cases       \* what the stored TestCaseResult rows of each run amount to

machineVars == <<status, cases>>

MachineInit ==
  /\ status = [r \in Runs |-> "none"]
  /\ cases  = [r \in Runs |-> "none"]

Move(r, from, to) ==
  /\ status[r] = from
  /\ status' = [status EXCEPT ![r] = to]

Create(r) ==
  /\ \A s \in Runs : SameOwner(r, s) => status[s] \notin NonTerminal
  /\ Move(r, "none", "queued")
  /\ UNCHANGED cases

Start(r) ==
  /\ Move(r, "queued", "running")
  /\ UNCHANGED cases

\* A queued run fails (trigger, pins, time limit) or is cancelled.
LeaveQueue(r) ==
  /\ \E to \in {"error", "cancelled"} : Move(r, "queued", to)
  /\ UNCHANGED cases

\* The verdict and the rows that justify it are written in one step.
Complete(r, verdict) ==
  /\ Move(r, "running", StatusOf(verdict))
  /\ cases' = [cases EXCEPT ![r] = verdict]

\* A running run errs, is cancelled, or times out.
GiveUp(r) ==
  /\ \E to \in {"error", "cancelled", "timed_out"} : Move(r, "running", to)
  /\ UNCHANGED cases

MachineNext ==
  \E r \in Runs :
    \/ Create(r)
    \/ Start(r)
    \/ LeaveQueue(r)
    \/ \E verdict \in Verdicts : Complete(r, verdict)
    \/ GiveUp(r)

MachineSpec == MachineInit /\ [][MachineNext]_machineVars

-----------------------------------------------------------------------------
MachineTypeOK ==
  /\ status \in [Runs -> Status \union {"none"}]
  /\ cases  \in [Runs -> Verdicts \union {"none"}]

(***************************************************************************)
(* The concurrency fence of triggerRun: a user never has two runs that are *)
(* queued or running at the same time.                                     *)
(***************************************************************************)
OneActiveRunPerUser ==
  \A r, s \in Runs :
    /\ SameOwner(r, s)
    /\ status[r] \in NonTerminal
    /\ status[s] \in NonTerminal
    => r = s

(***************************************************************************)
(* TestCaseResult rows exist exactly for the runs with a verdict, and a    *)
(* run is failed exactly when one of its stored cases failed.              *)
(***************************************************************************)
ResultsMatchVerdict ==
  \A r \in Runs :
    /\ status[r] \in {"passed", "failed"} <=> cases[r] \in Verdicts
    /\ status[r] = "failed" <=> cases[r] = "some_failed"
=============================================================================
