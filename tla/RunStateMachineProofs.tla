------------------------ MODULE RunStateMachineProofs ------------------------
(***************************************************************************)
(* The promises of the state machine, for any users, runs and owners.      *)
(***************************************************************************)
EXTENDS RunStateMachine, TLAPS

MachineInv == MachineTypeOK /\ OneActiveRunPerUser /\ ResultsMatchVerdict

LEMMA MachineInvInit == MachineInit => MachineInv
  BY DEF MachineInit, MachineInv, MachineTypeOK, OneActiveRunPerUser,
         ResultsMatchVerdict, Verdicts, Status, Terminal, NonTerminal

LEMMA MachineInvStep == MachineInv /\ [MachineNext]_machineVars => MachineInv'
  <1> USE DEF MachineInv, MachineTypeOK, Status, Terminal, NonTerminal, Verdicts
  <1> SUFFICES ASSUME MachineInv, [MachineNext]_machineVars
               PROVE  MachineInv'
    OBVIOUS
  <1>1. ASSUME NEW r \in Runs, Create(r) PROVE MachineInv'
    BY <1>1 DEF Create, Move, OneActiveRunPerUser, ResultsMatchVerdict, SameOwner
  <1>2. ASSUME NEW r \in Runs, Start(r) PROVE MachineInv'
    BY <1>2 DEF Start, Move, OneActiveRunPerUser, ResultsMatchVerdict
  <1>3. ASSUME NEW r \in Runs, LeaveQueue(r) PROVE MachineInv'
    BY <1>3 DEF LeaveQueue, Move, OneActiveRunPerUser, ResultsMatchVerdict
  <1>4. ASSUME NEW r \in Runs, NEW v \in Verdicts, Complete(r, v)
        PROVE  MachineInv'
    BY <1>4 DEF Complete, Move, StatusOf, OneActiveRunPerUser,
                ResultsMatchVerdict
  <1>5. ASSUME NEW r \in Runs, GiveUp(r) PROVE MachineInv'
    BY <1>5 DEF GiveUp, Move, OneActiveRunPerUser, ResultsMatchVerdict
  <1>6. CASE UNCHANGED machineVars
    BY <1>6 DEF machineVars, OneActiveRunPerUser, ResultsMatchVerdict
  <1>7. QED
    BY <1>1, <1>2, <1>3, <1>4, <1>5, <1>6 DEF MachineNext

(***************************************************************************)
(* In every behaviour of the state machine a user has at most one active   *)
(* run, and test cases are stored exactly with the verdict they justify.   *)
(***************************************************************************)
THEOREM MachineSafety ==
  MachineSpec => [](OneActiveRunPerUser /\ ResultsMatchVerdict)
  <1>1. MachineInv => OneActiveRunPerUser /\ ResultsMatchVerdict
    BY DEF MachineInv
  <1>2. QED
    BY MachineInvInit, MachineInvStep, <1>1, PTL DEF MachineSpec
=============================================================================
