------------------------------- MODULE RunPage -------------------------------
(***************************************************************************)
(* The page of one run (runs/[id]/page.tsx with useRun and useRunResults): *)
(* it polls the run until it sees it end.  The results that it loads then, *)
(* once and without a second try, change nothing else and are left out.    *)
(*                                                                         *)
(* A chain of polls is a request, then a timer, then a request...  The     *)
(* page starts one; each refetch after a cancel starts another, and        *)
(* nothing stops the first.  timer.current holds the latest timer only,    *)
(* so closing the page clears that one.  Answers may overtake each other.  *)
(***************************************************************************)
CONSTANTS
  Chains,       \* chains of polls: the first one and those that refetches start
  First,        \* the chain that opening the page starts
  NoChain

ASSUME RunPageAssumption == First \in Chains /\ NoChain \notin Chains

VARIABLES
  runStatus,    \* the status column of the run
  open,         \* the page is mounted
  shown,        \* data.status
  polls,        \* where each chain is, and the status in the answer it awaits
  timer,        \* timer.current: the chain that set a timer last
  cancelling,   \* the cancel button's DELETE
  outage        \* requests may still fail

runPageVars == <<runStatus, open, shown, polls, timer, cancelling, outage>>

Ended    == {"passed", "failed", "error", "cancelled"}
Statuses == {"queued", "running"} \union Ended
PollAt   == {"unused", "asked", "answered", "timer", "over"}

RunPageTypeOK ==
  /\ runStatus \in Statuses
  /\ open  \in BOOLEAN
  /\ shown \in Statuses \union {"none"}
  /\ polls \in [Chains -> [at : PollAt, refetch : BOOLEAN, got : Statuses \union {"none"}]]
  /\ timer \in Chains \union {NoChain}
  /\ cancelling \in {"idle", "sent", "done"}
  /\ outage \in BOOLEAN

RunPageInit ==
  /\ runStatus = "queued"
  /\ open = TRUE
  /\ shown = "none"
  /\ polls = [c \in Chains |->
       [at |-> IF c = First THEN "asked" ELSE "unused", refetch |-> TRUE, got |-> "none"]]
  /\ timer = NoChain
  /\ cancelling = "idle"
  /\ outage = TRUE

pageOnly == <<runStatus, open, cancelling, outage>>

-----------------------------------------------------------------------------
\* The run itself: started, given a verdict, or cancelled by someone else.
RunMoves ==
  /\ \/ runStatus = "queued"  /\ runStatus' \in {"running", "error", "cancelled"}
     \/ runStatus = "running" /\ runStatus' \in Ended
  /\ UNCHANGED <<open, shown, polls, timer, cancelling, outage>>

\* The API reads the run for a poll.
ApiReads(c) ==
  /\ polls[c].at = "asked"
  /\ polls' = [polls EXCEPT ![c].at = "answered", ![c].got = runStatus]
  /\ UNCHANGED <<pageOnly, shown, timer>>

\* Mistake: only a verdict ends the chain, a run cancelled is asked for again.
StopsAtVerdict(c, status) ==
  /\ polls' = [polls EXCEPT ![c] =
       [at |-> IF status \in {"passed", "failed"} THEN "over" ELSE "timer",
        refetch |-> FALSE, got |-> "none"]]
  /\ timer' = IF status \in {"passed", "failed"} THEN timer ELSE c

\* schedule: a run that has ended ends the chain, any other sets a timer.
Scheduled(c, status) ==
  /\ polls' = [polls EXCEPT ![c] =
       [at |-> IF status \in Ended THEN "over" ELSE "timer", refetch |-> FALSE, got |-> "none"]]
  /\ timer' = IF status \in Ended THEN timer ELSE c

\* setData, unless the page is closed.
Shows(status) == shown' = IF open THEN status ELSE shown

\* Mistake: an answer of an older poll is not taken to need another.
StopsWhenEnded(c) ==
  LET status == polls[c].got IN
  /\ polls[c].at = "answered"
  /\ Shows(status)
  /\ Scheduled(c, IF shown \in Ended THEN shown ELSE status)
  /\ UNCHANGED pageOnly

Arrive(c) ==
  LET status == polls[c].got IN
  /\ polls[c].at = "answered"
  /\ Shows(status)
  /\ Scheduled(c, status)
  /\ UNCHANGED pageOnly

\* A failed poll schedules the next one; a failed refetch throws and does not.
Fail(c) ==
  /\ outage /\ polls[c].at \in {"asked", "answered"}
  /\ IF polls[c].refetch
     THEN /\ polls' = [polls EXCEPT ![c] = [at |-> "over", refetch |-> FALSE, got |-> "none"]]
          /\ UNCHANGED timer
     ELSE Scheduled(c, "none")
  /\ UNCHANGED <<pageOnly, shown>>

Fire(c) ==
  /\ polls[c].at = "timer"
  /\ polls' = [polls EXCEPT ![c].at = "asked"]
  /\ UNCHANGED <<pageOnly, shown, timer>>

-----------------------------------------------------------------------------
\* The button is there while the run shown has not ended.
Cancel ==
  /\ open /\ cancelling = "idle"
  /\ shown \in {"queued", "running"}
  /\ cancelling' = "sent"
  /\ UNCHANGED <<runStatus, open, shown, polls, timer, outage>>

\* cancelRun; a run that has ended meanwhile is refused.
ApiCancels ==
  /\ cancelling = "sent"
  /\ \/ /\ runStatus \notin Ended
        /\ runStatus' = "cancelled" /\ cancelling' = "done"
     \/ /\ runStatus \in Ended \/ outage
        /\ cancelling' = "idle" /\ UNCHANGED runStatus
  /\ UNCHANGED <<open, shown, polls, timer, outage>>

\* run.refetch(): a chain of its own.
Refetch(c) ==
  /\ cancelling = "done"
  /\ polls[c].at = "unused"
  /\ cancelling' = "idle"
  /\ polls' = [polls EXCEPT ![c].at = "asked"]
  /\ UNCHANGED <<runStatus, open, shown, timer, outage>>

\* The effect's clean-up: the latest timer is cleared, no request is recalled.
Close ==
  /\ open
  /\ open' = FALSE
  /\ polls' = [c \in Chains |->
       IF c = timer /\ polls[c].at = "timer" THEN [polls[c] EXCEPT !.at = "over"] ELSE polls[c]]
  /\ UNCHANGED <<runStatus, shown, timer, cancelling, outage>>

\* The network is good from now on.
OutageEnds ==
  /\ outage
  /\ outage' = FALSE
  /\ UNCHANGED <<runStatus, open, shown, polls, timer, cancelling>>

RunPageProgress == \E c \in Chains : ApiReads(c) \/ Arrive(c) \/ Fire(c)

RunPageNext ==
  \/ RunPageProgress
  \/ RunMoves
  \/ \E c \in Chains : Fail(c) \/ Refetch(c)
  \/ Cancel \/ ApiCancels \/ Close \/ OutageEnds

RunPageSpec == RunPageInit /\ [][RunPageNext]_runPageVars

-----------------------------------------------------------------------------
Following == \E c \in Chains : polls[c].at \in {"asked", "answered", "timer"}

(***************************************************************************)
(* A page that has shown the run and stopped polling shows how it ended:   *)
(* an answer that was overtaken may put an older status back, but then its *)
(* own chain asks again (schedule after every answer, the timers of two    *)
(* chains, the catch of a failed poll).                                    *)
(***************************************************************************)
SettledPageIsCurrent ==
  open /\ shown # "none" /\ ~Following => shown \in Ended /\ shown = runStatus

(***************************************************************************)
(* Once the run has ended and requests are answered again, all polling     *)
(* ends, that of a page closed with a request or a second timer pending    *)
(* included.                                                               *)
(***************************************************************************)
PollingEnds == (runStatus \in Ended /\ ~outage) ~> [](~Following)
=============================================================================
