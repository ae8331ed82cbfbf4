---------------------------- MODULE MCRunLifecycle ----------------------------
(***************************************************************************)
(* Small instances of RunLifecycle for TLC.                                *)
(***************************************************************************)
EXTENDS RunLifecycle, TLC

CONSTANTS u1, r1, r2, c1

OneOwner   == r1 :> u1
TwoOwner   == r1 :> u1 @@ r2 :> u1
NoTarget   == <<>>
OneTarget  == c1 :> r1

AllFaults     == FaultKinds
\* Everything but abort calls of the worker that fail: they use up a job's attempts.
EnduredFaults == FaultKinds \ {"abort"}
=============================================================================
