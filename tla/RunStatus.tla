------------------------------ MODULE RunStatus ------------------------------
(***************************************************************************)
(* The vocabulary of the TestRun table shared by every module about runs.  *)
(***************************************************************************)
CONSTANTS
  Users,
  Runs,       \* the identifiers (ulids) of runs that may be created
  Owner       \* the user who owns the repository of each run

ASSUME OwnerAssumption == Owner \in [Runs -> Users]

NonTerminal == {"queued", "running"}
Terminal    == {"passed", "failed", "error", "cancelled", "timed_out"}
Status      == NonTerminal \union Terminal

(***************************************************************************)
(* A build reports a list of cases.  Three kinds are told apart: every     *)
(* case passed, some case failed, and the rest (no case at all, or passed  *)
(* and skipped ones).                                                      *)
(***************************************************************************)
Verdicts == {"all_passed", "some_failed", "neither"}

StatusOf(verdict) == IF verdict = "some_failed" THEN "failed" ELSE "passed"

(***************************************************************************)
(* jenkins_build_url: absent, the queue item Jenkins returns in the        *)
(* Location header of the trigger, or the URL of the build itself.         *)
(***************************************************************************)
Url == {"null", "queue", "build"}

SameOwner(r, s) == Owner[r] = Owner[s]
=============================================================================
