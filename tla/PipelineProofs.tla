---------------------------- MODULE PipelineProofs ----------------------------
(***************************************************************************)
(* Theorems about Pipeline: one build, its webhooks and its firewall, for  *)
(* any number of attempts, retries and failing commands, any project and   *)
(* any order of aborts, failures, answers and the steps of the sidecar.    *)
(***************************************************************************)
EXTENDS Pipeline, WebhookDeliveryProofs

-----------------------------------------------------------------------------
(***************************************************************************)
(* The build uses the delivery of webhooks as WebhookDelivery has it.      *)
(***************************************************************************)
LEMMA BuildDelivers == [Next]_vars => DeliveryStep
<1> SUFFICES ASSUME [Next]_vars PROVE DeliveryStep
  OBVIOUS
<1>1. CASE ReceiverNext \/ UNCHANGED deliveryStateVars
  BY <1>1 DEF DeliveryStep, DeliveryNext
<1>2. CASE HarnessReports
  BY <1>2 DEF HarnessReports, DeliveryStep, ReportWritten
<1>3. CASE \E e \in Events : Emit(e) \/ ReadAnswer(e) \/ TimeOut(e) \/ CutOff(e)
  BY <1>3 DEF DeliveryStep, DeliveryNext
<1>4. CASE EmitStarted \/ EmitCompleted \/ EmitErrored \/ Transmit
  BY <1>1, <1>3, <1>4 DEF EmitStarted, EmitCompleted, EmitErrored, Transmit, Events
<1>5. CASE Abort \/ AbortPost
  BY <1>1, <1>3, <1>5 DEF Abort, AbortPost, Interrupted, Events
<1>6. CASE \/ ValidateParams \/ StartedEmitted \/ PullImage \/ CreateNetwork \/ RequestRules
           \/ RulesAnswered \/ FetchWorkspace \/ CloneTests \/ RunContainer \/ ContainerGone
           \/ OrphanExits \/ CollectReport \/ UploadArtifacts \/ CompletedEmitted
  BY <1>1, <1>6
     DEF ValidateParams, StartedEmitted, PullImage, CreateNetwork, RequestRules,
         RulesAnswered, FetchWorkspace, CloneTests, RunContainer, ContainerGone,
         OrphanExits, CollectReport, UploadArtifacts, CompletedEmitted, OnlyStage
<1>7. CASE StopHeartbeat \/ CleanupAnswered \/ RemoveContainer \/ RemoveNetwork \/ End
  BY <1>1, <1>7 DEF StopHeartbeat, CleanupAnswered, RemoveContainer, RemoveNetwork, End, OnlyStage
<1>8. CASE Server \/ Sidecar \/ UNCHANGED vars
  BY <1>1, <1>8 DEF Server, Sidecar, vars
<1> QED
  BY <1>2, <1>4, <1>5, <1>6, <1>7, <1>8 DEF Next, BuildStep, KillContainer, HarnessExits

LEMMA BuildStarts == Init => DeliveryInv /\ StoredOnce /\ Abstract!DeliveriesInit
<1> SUFFICES ASSUME Init
             PROVE  DeliveryInv /\ StoredOnce /\ Abstract!DeliveriesInit
  OBVIOUS
<1>1. ReceiverInit
  BY DEF Init
<1> QED
  BY <1>1, DeliveryInit, ResultsInit, DeliveriesStart

LEMMA AlwaysDeliveryInv == Spec => [](DeliveryInv /\ StoredOnce)
<1>1. DeliveryInv /\ StoredOnce /\ [Next]_vars => (DeliveryInv /\ StoredOnce)'
  BY BuildDelivers, DeliveryKeeps, ResultsKeep
<1> QED
  BY <1>1, BuildStarts, PTL DEF Spec

(***************************************************************************)
(* Whatever is retried, overtaken or lost, an event is settled once and    *)
(* for good, and one taken as delivered has been settled.                  *)
(***************************************************************************)
THEOREM BuildImplementsDeliveries == Spec => SettledOnce
<1>1. DeliveryInv /\ [Next]_vars => [Abstract!DeliveriesNext]_Abstract!deliveryVars
  BY BuildDelivers, DeliveriesSteps
<1> QED
  BY <1>1, AlwaysDeliveryInv, BuildStarts, PTL
     DEF Spec, SettledOnce, Abstract!DeliveriesSpec

(***************************************************************************)
(* A webhook row stays without processed_at only if the run has ended.     *)
(***************************************************************************)
THEOREM OpenRowsEnded == Spec => []OpenRowMeansEnded
<1>1. DeliveryInv => OpenRowMeansEnded
  BY DEF DeliveryInv, OpenRows, OpenRowMeansEnded
<1> QED
  BY <1>1, AlwaysDeliveryInv, PTL

-----------------------------------------------------------------------------
(***************************************************************************)
(* The two halves of firewall.sh: each moves its own handler only, and     *)
(* neither touches the network.                                            *)
(***************************************************************************)
Applies ==
  \/ ensure_chain \/ AppendAllowlist \/ AppendDrop \/ FindBridge \/ HookForward \/ HookInput

Cleans == LookUpBridge \/ Unhook \/ FlushChain \/ DeleteChain

LEMMA AppliesType ==
  ASSUME FirewallTypeOK, Applies
  PROVE  FirewallTypeOK' /\ UNCHANGED network /\ handler'["cleanup"] = handler["cleanup"]
<1> USE DEF FirewallTypeOK, Goes, Filter, Requests, HandlerState, Chain, Hooks
<1> USE DEF Runs, ApplyPlaces, CleanupPlaces
<1>1. CASE ensure_chain
  BY <1>1 DEF ensure_chain
<1>2. CASE AppendAllowlist
  BY <1>2 DEF AppendAllowlist
<1>3. CASE AppendDrop
  BY <1>3 DEF AppendDrop, Step
<1>4. CASE FindBridge
  BY <1>4 DEF FindBridge, Step
<1>5. CASE HookForward
  BY <1>5 DEF HookForward, With
<1>6. CASE HookInput
  BY <1>6 DEF HookInput, With, Step
<1> QED
  BY <1>1, <1>2, <1>3, <1>4, <1>5, <1>6 DEF Applies

LEMMA CleansType ==
  ASSUME FirewallTypeOK, Cleans
  PROVE  FirewallTypeOK' /\ UNCHANGED network /\ handler'["apply"] = handler["apply"]
<1> USE DEF FirewallTypeOK, Goes, Filter, Requests, HandlerState, Chain, Hooks
<1> USE DEF Runs, ApplyPlaces, CleanupPlaces
<1>1. CASE LookUpBridge
  BY <1>1 DEF LookUpBridge, Step
<1>2. CASE Unhook
  BY <1>2 DEF Unhook, UnhookOne
<1>3. CASE FlushChain
  BY <1>3 DEF FlushChain
<1>4. CASE DeleteChain
  BY <1>4 DEF DeleteChain
<1> QED
  BY <1>1, <1>2, <1>3, <1>4 DEF Cleans

(***************************************************************************)
(* The variables the build has beside the delivery of its webhooks.        *)
(***************************************************************************)
BuildTypeOK ==
  /\ FirewallTypeOK
  /\ stage  \in Stages \union Post \union {"end"}
  /\ result \in {"success", "failure"}
  /\ heartbeat \in BOOLEAN
  /\ container \in BOOLEAN
  /\ resp \in [Requests -> {"none", "ok", "error", "no_answer"}]
  /\ undone \subseteq Post

LEMMA BuildTypeStarts == Init => BuildTypeOK
  BY FirewallAssumption
     DEF Init, BuildTypeOK, FirewallInit, FirewallTypeOK, Stages, Post, Requests, Chain, HandlerState

(***************************************************************************)
(* A step that moves neither the build nor its firewall, or is one of      *)
(* these.                                                                  *)
(***************************************************************************)
Moves ==
  \/ ValidateParams \/ StartedEmitted \/ PullImage \/ CreateNetwork \/ RequestRules
  \/ RulesAnswered \/ FetchWorkspace \/ CloneTests \/ RunContainer \/ ContainerGone
  \/ OrphanExits \/ CollectReport \/ UploadArtifacts \/ EmitCompleted \/ CompletedEmitted
  \/ Abort

Tidies ==
  \/ StopHeartbeat \/ CleanupAnswered \/ RemoveContainer \/ RemoveNetwork
  \/ EmitErrored \/ End \/ AbortPost

LEMMA StepKinds ==
  [Next]_vars => \/ UNCHANGED <<firewallVars, stateOfBuild>>
                 \/ UNCHANGED stateOfBuild /\ (Applies \/ Cleans)
                 \/ Moves
                 \/ Tidies
<1>1. \/ EmitStarted \/ Transmit \/ HarnessReports \/ Server \/ UNCHANGED vars
      => UNCHANGED <<firewallVars, stateOfBuild>>
  BY DEF EmitStarted, Transmit, HarnessReports, Server, vars
<1>2. Sidecar => UNCHANGED stateOfBuild /\ (Applies \/ Cleans)
  BY DEF Sidecar, FirewallNext, Applies, Cleans
<1> QED
  BY <1>1, <1>2 DEF Next, BuildStep, KillContainer, HarnessExits, Moves, Tidies

LEMMA BuildTypeKept == BuildTypeOK /\ [Next]_vars => BuildTypeOK'
<1> SUFFICES ASSUME BuildTypeOK, [Next]_vars PROVE BuildTypeOK'
  OBVIOUS
<1> USE DEF BuildTypeOK, At, Passes, Fails, Stages, Post, OnlyStage
<1>1. UNCHANGED firewallVars => FirewallTypeOK'
  BY DEF FirewallTypeOK, firewallVars
<1>2. CASE \/ UNCHANGED <<firewallVars, stateOfBuild>>
           \/ UNCHANGED stateOfBuild /\ (Applies \/ Cleans)
  BY <1>1, <1>2, AppliesType, CleansType DEF stateOfBuild
<1>3. CASE ValidateParams \/ StartedEmitted \/ PullImage \/ FetchWorkspace \/ CloneTests
  BY <1>1, <1>3 DEF ValidateParams, StartedEmitted, PullImage, FetchWorkspace, CloneTests
<1>4. CASE CreateNetwork
  BY <1>4 DEF CreateNetwork, FirewallTypeOK
<1>5. CASE RequestRules
  BY <1>5 DEF RequestRules, Goes, FirewallTypeOK, HandlerState, ApplyPlaces
<1>6. CASE RulesAnswered
  BY <1>1, <1>6 DEF RulesAnswered, Requests
<1>7. CASE RunContainer \/ ContainerGone \/ OrphanExits \/ CollectReport \/ UploadArtifacts
  BY <1>1, <1>7 DEF RunContainer, ContainerGone, OrphanExits, CollectReport, UploadArtifacts
<1>8. CASE EmitCompleted \/ CompletedEmitted
  BY <1>1, <1>8 DEF EmitCompleted, CompletedEmitted
<1>9. CASE Abort
  BY <1>1, <1>9 DEF Abort, Requests
<1>10. CASE StopHeartbeat
  BY <1>10 DEF StopHeartbeat, Goes, FirewallTypeOK, HandlerState, CleanupPlaces
<1>11. CASE CleanupAnswered
  BY <1>1, <1>11 DEF CleanupAnswered, CleanupAnswer, Requests
<1>12. CASE RemoveContainer \/ EmitErrored \/ End
  BY <1>1, <1>12 DEF RemoveContainer, EmitErrored, End
<1>13. CASE RemoveNetwork
  BY <1>13 DEF RemoveNetwork, FirewallTypeOK
<1>14. CASE AbortPost
  BY <1>1, <1>14 DEF AbortPost, CutAt, Requests
<1> QED
  BY <1>2, <1>3, <1>4, <1>5, <1>6, <1>7, <1>8, <1>9, <1>10, <1>11, <1>12, <1>13, <1>14, StepKinds
     DEF Moves, Tidies

THEOREM BuildTyped == Spec => []TypeOK
<1>1. Spec => []BuildTypeOK
  BY BuildTypeStarts, BuildTypeKept, PTL DEF Spec
<1>2. DeliveryInv /\ BuildTypeOK => TypeOK
  BY DEF DeliveryInv, BuildTypeOK, TypeOK
<1> QED
  BY <1>1, <1>2, AlwaysDeliveryInv, PTL

-----------------------------------------------------------------------------
(***************************************************************************)
(* Why the container is confined: a stage behind the firewall's was let    *)
(* through by the answer ok, the handler gives that answer with all rules  *)
(* in place but the one whose failure it does not see, and nobody asks for *)
(* their removal before the post section.                                  *)
(***************************************************************************)
Unasked == {"validate", "emit_started", "pull", "network", "firewall"}
Behind  == {"fetch", "clone", "harness", "running", "collect", "upload", "emit_completed"}

AskedInOrder ==
  /\ stage \in Unasked => handler["apply"] = "idle"
  /\ stage \in Behind  => handler["apply"] = "ok"
  /\ stage \in Stages \union {"stop"} => handler["cleanup"] = "idle"
  /\ container => handler["apply"] = "ok"

RulesInPlace ==
  /\ handler["apply"] = "idle" => chain = "absent" /\ hooks = {}
  /\ handler["apply"] \in {"allow", "drop"} => chain = "open"
  /\ handler["apply"] \in {"allow", "drop", "find", "hook", "hook_input", "ok"}
       => (Hermetic => ~allowed)
  /\ handler["apply"] \in {"find", "hook", "hook_input", "ok"} => chain = "deny"
  /\ handler["apply"] \in {"hook_input", "ok"} => "DOCKER-USER" \in hooks \/ "hook" \in failed
  /\ handler["apply"] = "ok" => "INPUT" \in hooks

RulesInv ==
  /\ BuildTypeOK
  /\ AskedInOrder
  /\ handler["cleanup"] = "idle" => RulesInPlace

LEMMA AppliesInOrder ==
  ASSUME FirewallTypeOK, Applies, RulesInPlace
  PROVE  /\ RulesInPlace'
         /\ handler["apply"] \notin {"idle", "ok", "error"}
<1> USE DEF FirewallTypeOK, Goes, Filter, Requests, HandlerState, RulesInPlace
<1> USE DEF Runs, ApplyPlaces, CleanupPlaces
<1>1. CASE ensure_chain
  BY <1>1 DEF ensure_chain
<1>2. CASE AppendAllowlist
  BY <1>2 DEF AppendAllowlist, ReadHermetic
<1>3. CASE AppendDrop
  BY <1>3 DEF AppendDrop, Step
<1>4. CASE FindBridge
  BY <1>4 DEF FindBridge, Step
<1>5. CASE HookForward
  BY <1>5 DEF HookForward, With
<1>6. CASE HookInput
  BY <1>6 DEF HookInput, With, Step
<1> QED
  BY <1>1, <1>2, <1>3, <1>4, <1>5, <1>6 DEF Applies

LEMMA AppliesWhileAsked ==
  ASSUME FirewallTypeOK, Applies
  PROVE  handler["apply"] \notin {"idle", "ok", "error"} /\ handler'["apply"] # "idle"
BY DEF Applies, ensure_chain, AppendAllowlist, AppendDrop, FindBridge, HookForward, HookInput,
       Step, Goes, FirewallTypeOK, Requests

LEMMA CleansWhileAsked ==
  ASSUME FirewallTypeOK, Cleans
  PROVE  handler["cleanup"] \notin {"idle", "ok", "error"} /\ handler'["cleanup"] # "idle"
BY DEF Cleans, LookUpBridge, Unhook, UnhookOne, FlushChain, DeleteChain, Step, Goes, FirewallTypeOK, Requests

LEMMA RulesStart == Init => RulesInv
  BY BuildTypeStarts
     DEF Init, RulesInv, AskedInOrder, RulesInPlace, FirewallInit, Requests, Unasked, Behind,
         Stages

LEMMA RulesKept == RulesInv /\ [Next]_vars => RulesInv'
<1> SUFFICES ASSUME RulesInv, [Next]_vars PROVE RulesInv'
  OBVIOUS
<1>0. BuildTypeOK /\ BuildTypeOK'
  BY BuildTypeKept DEF RulesInv
<1> USE DEF RulesInv, AskedInOrder, At, Passes, Fails, Stages, Unasked, Behind, OnlyStage
<1>1. UNCHANGED firewallVars => /\ RulesInPlace' = RulesInPlace
                                /\ handler' = handler
  BY DEF RulesInPlace, firewallVars
<1>2. CASE UNCHANGED <<firewallVars, stateOfBuild>>
  BY <1>0, <1>1, <1>2 DEF stateOfBuild
<1>3. CASE UNCHANGED stateOfBuild /\ Applies
  BY <1>0, <1>3, AppliesType, AppliesInOrder, AppliesWhileAsked DEF stateOfBuild, BuildTypeOK
<1>4. CASE UNCHANGED stateOfBuild /\ Cleans
  BY <1>0, <1>4, CleansType, CleansWhileAsked DEF stateOfBuild, BuildTypeOK
<1>5. CASE ValidateParams \/ StartedEmitted \/ PullImage \/ FetchWorkspace \/ CloneTests
  BY <1>0, <1>1, <1>5 DEF ValidateParams, StartedEmitted, PullImage, FetchWorkspace, CloneTests
<1>6. CASE CreateNetwork
  BY <1>0, <1>6 DEF CreateNetwork, RulesInPlace
<1>7. CASE RequestRules
  BY <1>0, <1>7 DEF RequestRules, Goes, RulesInPlace, BuildTypeOK, FirewallTypeOK, Requests
<1>8. CASE RulesAnswered
  BY <1>0, <1>1, <1>8 DEF RulesAnswered, Acknowledged
<1>9. CASE RunContainer \/ ContainerGone \/ OrphanExits \/ CollectReport \/ UploadArtifacts
  BY <1>0, <1>1, <1>9 DEF RunContainer, ContainerGone, OrphanExits, CollectReport, UploadArtifacts
<1>10. CASE EmitCompleted \/ CompletedEmitted
  BY <1>0, <1>1, <1>10 DEF EmitCompleted, CompletedEmitted
<1>11. CASE Abort
  BY <1>0, <1>1, <1>11 DEF Abort
<1>12. CASE StopHeartbeat
  BY <1>0, <1>12 DEF StopHeartbeat, Goes, RulesInPlace, BuildTypeOK, FirewallTypeOK, Requests
<1>13. CASE CleanupAnswered \/ RemoveContainer \/ EmitErrored \/ End \/ AbortPost
  BY <1>0, <1>1, <1>13 DEF CleanupAnswered, RemoveContainer, EmitErrored, End, AbortPost, Post
<1>14. CASE RemoveNetwork
  BY <1>0, <1>14 DEF RemoveNetwork, RulesInPlace
<1> QED
  BY <1>2, <1>3, <1>4, <1>5, <1>6, <1>7, <1>8, <1>9, <1>10, <1>11, <1>12, <1>13, <1>14, StepKinds
     DEF Moves, Tidies

(***************************************************************************)
(* The job container, an orphaned one too, runs only behind its rules as   *)
(* long as nobody has asked for their removal: the hook for forwarded      *)
(* traffic is missing only if the command that inserts it failed.          *)
(***************************************************************************)
THEOREM Confinement == Spec => []ContainerConfined
<1>1. Spec => []RulesInv
  BY RulesStart, RulesKept, PTL DEF Spec
<1>2. RulesInv => ContainerConfined
  BY DEF RulesInv, AskedInOrder, RulesInPlace, ContainerConfined
<1> QED
  BY <1>1, <1>2, PTL

-----------------------------------------------------------------------------
(***************************************************************************)
(* Why an ended build leaves nothing: an apply that the build did not give *)
(* up is over when the clean-up is asked for, the network stands until the *)
(* clean-up's answer is in, and the clean-up then takes every hook away    *)
(* before it deletes the chain.                                            *)
(***************************************************************************)
ApplyOver == handler["apply"] \in {"idle", "ok", "error"}

Ended == Post \union {"end"}

NetworkStands ==
  /\ stage = "firewall" => network
  /\ handler["apply"] # "idle" /\ stage \notin {"report", "end"} => network

\* How far the clean-up has come, when no apply works against it and no command fails.
CleanedSoFar ==
  failed \intersect CleanupPlaces = {} =>
    /\ handler["cleanup"] = "look" => network \/ (chain = "absent" /\ hooks = {})
    /\ handler["cleanup"] = "unhook_input" => hooks \subseteq {"INPUT"}
    /\ handler["cleanup"] \in {"flush", "delete", "ok"} => hooks = {}
    /\ handler["cleanup"] = "delete" => chain \in {"absent", "empty"}
    /\ handler["cleanup"] = "ok" => chain = "absent"

RulesGone ==
  /\ stage \in Ended /\ resp["apply"] # "no_answer" => ApplyOver
  /\ stage = "await_cleanup" /\ resp["apply"] # "no_answer" => CleanedSoFar
  /\ resp["cleanup"] = "ok" =>
       /\ stage \in {"remove_container", "remove_network", "report", "end"}
       /\ handler["cleanup"] = "ok"
       /\ resp["apply"] # "no_answer" /\ failed \intersect CleanupPlaces = {}
            => chain = "absent" /\ hooks = {}

\* What is left behind when the commands of the post section have had their turn.
HostCleared ==
  /\ stage \in {"remove_network", "report", "end"} /\ container => "remove_container" \in undone
  /\ stage \in {"report", "end"} /\ network
       => undone \intersect {"remove_container", "remove_network"} # {}

\* Nobody adds a rule before the apply has started.
NoRulesYet == handler["apply"] = "idle" => chain = "absent" /\ hooks = {}

TidyInv == RulesInv /\ NetworkStands /\ NoRulesYet /\ RulesGone /\ HostCleared

LEMMA CleansInOrder ==
  ASSUME FirewallTypeOK, Cleans, CleanedSoFar
  PROVE  CleanedSoFar'
<1> USE DEF FirewallTypeOK, Goes, Filter, Requests, CleanedSoFar, Chain, Hooks
<1> USE DEF Runs, CleanupPlaces
<1>1. CASE LookUpBridge
  BY <1>1 DEF LookUpBridge, Step
<1>2. CASE Unhook
  BY <1>2 DEF Unhook, UnhookOne
<1>3. CASE FlushChain
  BY <1>3 DEF FlushChain
<1>4. CASE DeleteChain
  BY <1>4 DEF DeleteChain, Deletable
<1> QED
  BY <1>1, <1>2, <1>3, <1>4 DEF Cleans

LEMMA CleansAddNothing ==
  ASSUME FirewallTypeOK, Cleans
  PROVE  NoRulesYet => NoRulesYet'
<1> USE DEF FirewallTypeOK, Goes, Filter, Requests, NoRulesYet
<1> QED
  BY DEF Cleans, LookUpBridge, Unhook, UnhookOne, FlushChain, DeleteChain, Step

LEMMA TidyStarts == Init => TidyInv
  BY RulesStart
     DEF Init, TidyInv, NetworkStands, NoRulesYet, RulesGone, HostCleared, FirewallInit, Requests,
         Ended, Post

LEMMA TidyKept == TidyInv /\ [Next]_vars => TidyInv'
<1> SUFFICES ASSUME TidyInv, [Next]_vars PROVE TidyInv'
  OBVIOUS
<1>0. /\ RulesInv /\ RulesInv' /\ BuildTypeOK /\ FirewallTypeOK /\ AskedInOrder
      /\ resp \in [Requests -> {"none", "ok", "error", "no_answer"}]
  BY RulesKept DEF RulesInv, TidyInv, BuildTypeOK
<1> USE DEF TidyInv, NetworkStands, NoRulesYet, RulesGone, HostCleared, At, Passes, Fails, Stages,
            Post, Ended, OnlyStage, ApplyOver
<1>1. UNCHANGED firewallVars => /\ CleanedSoFar' = CleanedSoFar
                                /\ UNCHANGED <<handler, network, chain, hooks, failed>>
  BY DEF CleanedSoFar, firewallVars
<1>2. CASE UNCHANGED <<firewallVars, stateOfBuild>>
  BY <1>0, <1>1, <1>2 DEF stateOfBuild
<1>3. CASE UNCHANGED stateOfBuild /\ Applies
  BY <1>0, <1>3, AppliesType, AppliesWhileAsked DEF stateOfBuild, AskedInOrder, Unasked
<1>4. CASE UNCHANGED stateOfBuild /\ Cleans
  BY <1>0, <1>4, CleansType, CleansWhileAsked, CleansInOrder, CleansAddNothing DEF stateOfBuild
<1>5. CASE ValidateParams \/ StartedEmitted \/ PullImage
  BY <1>0, <1>1, <1>5 DEF ValidateParams, StartedEmitted, PullImage, AskedInOrder, Unasked
<1>6. CASE FetchWorkspace \/ CloneTests \/ RunContainer \/ ContainerGone \/ OrphanExits
           \/ CollectReport \/ UploadArtifacts \/ EmitCompleted \/ CompletedEmitted
  BY <1>0, <1>1, <1>6 DEF FetchWorkspace, CloneTests, RunContainer, ContainerGone, OrphanExits,
                          CollectReport, UploadArtifacts, EmitCompleted, CompletedEmitted, AskedInOrder, Behind
<1>7. CASE CreateNetwork
  BY <1>0, <1>7 DEF CreateNetwork, AskedInOrder, Unasked
<1>8. CASE RequestRules
  BY <1>0, <1>8 DEF RequestRules, Goes, AskedInOrder, Unasked
<1>9. CASE RulesAnswered
  BY <1>0, <1>1, <1>9 DEF RulesAnswered, Requests
<1>10. CASE Abort
  BY <1>0, <1>1, <1>10 DEF Abort, Requests, AskedInOrder, Unasked, Behind
<1>11. CASE StopHeartbeat
  BY <1>0, <1>11 DEF StopHeartbeat, Goes, FirewallTypeOK, Requests, CleanedSoFar
<1>12. CASE CleanupAnswered
  BY <1>0, <1>1, <1>12 DEF CleanupAnswered, CleanupAnswer, Requests, CleanedSoFar
<1>13. CASE RemoveContainer \/ EmitErrored \/ End
  BY <1>0, <1>1, <1>13 DEF RemoveContainer, EmitErrored, End
<1>14. CASE RemoveNetwork
  BY <1>0, <1>14 DEF RemoveNetwork
<1>15. CASE AbortPost
  BY <1>0, <1>1, <1>15 DEF AbortPost, CutAt, Requests
<1> QED
  BY <1>2, <1>3, <1>4, <1>5, <1>6, <1>7, <1>8, <1>9, <1>10, <1>11, <1>12, <1>13, <1>14, <1>15,
     StepKinds
     DEF Moves, Tidies

-----------------------------------------------------------------------------
(***************************************************************************)
(* Why a reported run ends: the stages send build_completed only behind a  *)
(* delivered build_started, and build_errored when no other event is on    *)
(* its way.                                                                *)
(***************************************************************************)
EventsInOrder ==
  /\ Emitting("build_started") => stage = "emit_started"
  /\ stage \in Stages \ {"validate", "emit_started"} => outcome["build_started"] = "delivered"
  /\ attempt["build_completed"] > 0 => outcome["build_started"] = "delivered"
  /\ attempt["build_errored"] > 0 => stage \in {"report", "end"}

LEMMA ServerSendsNothing == ReceiverNext => UNCHANGED senderVars
<1>1. ASSUME NEW e \in Events, NEW i \in Attempts,
             Lookup(e, i) \/ Begin(e, i) \/ applyEvent(e, i) \/ RollBack(e, i)
      PROVE  UNCHANGED senderVars
  BY <1>1 DEF Lookup, Begin, applyEvent, RollBack
<1> QED
  BY <1>1 DEF ReceiverNext, EndElsewhere, DeleteRun

\* A stage other than emit_started is left, for one that may follow it.
GoesOn ==
  /\ stage # "emit_started"
  /\ stage' \in Stages \ {"validate", "emit_started"} =>
       stage \in Stages \ {"validate", "emit_started"}
  /\ stage \in {"report", "end"} => stage' \in {"report", "end"}

(***************************************************************************)
(* A build sends in three stages, continues what it sends, or is stopped.  *)
(***************************************************************************)
WhileSending ==
  /\ UNCHANGED stage
  /\ \/ stage = "emit_started" /\ Emit("build_started")
     \/ stage = "emit_completed" /\ Emit("build_completed")
     \/ stage = "report" /\ Emit("build_errored")
     \/ \E e \in Events : Emitting(e) /\ Sends(e)

WhileSilent ==
  /\ UNCHANGED senderVars
  /\ UNCHANGED stage \/ StartedEmitted \/ GoesOn

LEMMA WhoActs ==
  [Next]_vars => \/ WhileSilent
                 \/ EmitStarted \/ EmitCompleted \/ EmitErrored \/ Transmit
                 \/ Abort \/ AbortPost
<1> SUFFICES ASSUME [Next]_vars,
                    ~(EmitStarted \/ EmitCompleted \/ EmitErrored \/ Transmit),
                    ~(Abort \/ AbortPost)
             PROVE  WhileSilent
  OBVIOUS
<1> USE DEF WhileSilent, GoesOn
<1> USE DEF At, Passes, Fails, OnlyStage, Stages, Post, Ended, deliveryStateVars, stateOfBuild
<1>1. CASE HarnessReports \/ Server \/ Sidecar \/ UNCHANGED vars
  BY <1>1, ServerSendsNothing DEF HarnessReports, Server, Sidecar, vars
<1>2. CASE ValidateParams \/ PullImage \/ CreateNetwork \/ RequestRules \/ RulesAnswered
  BY <1>2 DEF ValidateParams, PullImage, CreateNetwork, RequestRules, RulesAnswered
<1>3. CASE StartedEmitted
  BY <1>3 DEF StartedEmitted
<1>4. CASE FetchWorkspace \/ CloneTests \/ RunContainer \/ ContainerGone \/ OrphanExits
  BY <1>4 DEF FetchWorkspace, CloneTests, RunContainer, ContainerGone, OrphanExits
<1>5. CASE CollectReport \/ UploadArtifacts \/ CompletedEmitted
  BY <1>5 DEF CollectReport, UploadArtifacts, CompletedEmitted
<1>6. CASE StopHeartbeat \/ CleanupAnswered \/ RemoveContainer \/ RemoveNetwork \/ End
  BY <1>6 DEF StopHeartbeat, CleanupAnswered, RemoveContainer, RemoveNetwork, End
<1> QED
  BY <1>1, <1>2, <1>3, <1>4, <1>5, <1>6 DEF Next, BuildStep, KillContainer, HarnessExits

LEMMA WhoSends == [Next]_vars => WhileSilent \/ WhileSending \/ Abort \/ AbortPost
<1> SUFFICES ASSUME [Next]_vars, ~Abort, ~AbortPost
             PROVE  WhileSilent \/ WhileSending
  OBVIOUS
<1> USE DEF WhileSilent, WhileSending, GoesOn
<1> USE DEF At, Passes, Fails, OnlyStage, Stages, Post, Ended, deliveryStateVars, stateOfBuild
<1>1. CASE EmitStarted \/ EmitErrored
  BY <1>1 DEF EmitStarted, EmitErrored
<1>2. CASE EmitCompleted
  BY <1>2 DEF EmitCompleted
<1>3. CASE Transmit
  BY <1>3 DEF Transmit, ReadAnswer, TimeOut, Sends
<1> QED
  BY <1>1, <1>2, <1>3, WhoActs

LEMMA EventsStart == Init => EventsInOrder
  BY DEF Init, ReceiverInit, EventsInOrder, Emitting, Stages, Events

LEMMA EventsKept ==
  DeliveryInv /\ EventsInOrder /\ [Next]_vars => EventsInOrder' /\ StartConcluded
<1> SUFFICES ASSUME DeliveryInv, EventsInOrder, [Next]_vars
             PROVE  EventsInOrder' /\ StartConcluded
  OBVIOUS
<1> USE DEF EventsInOrder, StartConcluded, Emitting
<1>0. /\ ReceiverTypeOK
      /\ {"build_started", "build_completed", "build_errored"} = Events
  BY DEF DeliveryInv, Events
<1>1. CASE WhileSilent
  <2>1. CASE UNCHANGED stage \/ GoesOn
    BY <1>0, <1>1, <2>1 DEF WhileSilent, GoesOn, senderVars, ReceiverTypeOK
  <2>2. CASE StartedEmitted
    BY <1>0, <1>1, <2>2 DEF WhileSilent, StartedEmitted, Passes, Fails, At, Stages, senderVars
  <2> QED
    BY <1>1, <2>1, <2>2 DEF WhileSilent
<1>2. CASE WhileSending
  <2>1. CASE stage = "emit_started" /\ Emit("build_started")
    BY <1>0, <1>2, <2>1, SendsOwn DEF WhileSending, Sends, Emit, SendNext, Stages
  <2>2. CASE stage = "emit_completed" /\ Emit("build_completed")
    BY <1>0, <1>2, <2>2, SendsOwn DEF WhileSending, Sends, Emit, SendNext, Stages
  <2>3. CASE stage = "report" /\ Emit("build_errored")
    BY <1>0, <1>2, <2>3, SendsOwn DEF WhileSending, Sends, Emit, SendNext, Stages
  <2>4. ASSUME NEW e \in Events, Emitting(e), Sends(e)
        PROVE  EventsInOrder' /\ StartConcluded
    BY <1>0, <1>2, <2>4, SendsOwn DEF WhileSending, Stages, ReceiverTypeOK
  <2> QED
    BY <1>2, <2>1, <2>2, <2>3, <2>4 DEF WhileSending
<1>3. CASE Abort
  <2>1. stage \in Stages /\ stage' = "stop"
    BY <1>3 DEF Abort
  <2>2. CASE UNCHANGED deliveryStateVars /\ ~Emitting("build_started")
    BY <1>0, <2>1, <2>2 DEF deliveryStateVars, senderVars, Stages, ReceiverTypeOK
  <2>3. CASE \E e \in {"build_started", "build_completed"} : CutOff(e) /\ Emitting(e)
    <3>1. PICK e \in {"build_started", "build_completed"} : CutOff(e) /\ Emitting(e)
      BY <2>3
    <3>2. Sends(e) /\ outcome'[e] = "failed" /\ attempt' = attempt
      BY <1>0, <3>1 DEF Sends, CutOff, Conclude, ReceiverTypeOK
    <3> QED
      BY <1>0, <2>1, <3>1, <3>2, SendsOwn DEF Stages, ReceiverTypeOK
  <2> QED
    BY <1>3, <2>2, <2>3 DEF Abort, Interrupted
<1>4. CASE AbortPost
  <2>1. stage \in Post /\ stage' \in {"report", "end"} /\ (stage = "report" => stage' = "end")
    BY <1>4 DEF AbortPost
  <2>2. CASE UNCHANGED deliveryStateVars
    BY <1>0, <2>1, <2>2 DEF deliveryStateVars, senderVars, Stages, Post, ReceiverTypeOK
  <2>3. CASE CutOff("build_errored") /\ stage = "report"
    <3>1. Sends("build_errored") /\ attempt' = attempt
      BY <2>3 DEF Sends, CutOff, Conclude
    <3> QED
      BY <1>0, <2>1, <2>3, <3>1, SendsOwn DEF Stages, ReceiverTypeOK
  <2> QED
    BY <1>4, <2>2, <2>3 DEF AbortPost, Interrupted
<1> QED
  BY <1>1, <1>2, <1>3, <1>4, WhoSends

(***************************************************************************)
(* A run whose build_started was delivered has ended once a final event of *)
(* its build is delivered.                                                 *)
(***************************************************************************)
THEOREM FinalEventsEndRuns == Spec => []ReportedRunEnds
<1> DEFINE Inv == DeliveryInv /\ EventsInOrder /\ OrderInv
<1>1. Init => Inv
  BY BuildStarts, EventsStart, OrderStarts DEF Init
<1>2. Inv /\ [Next]_vars => Inv'
  BY BuildDelivers, DeliveryKeeps, EventsKept, OrderKept
<1>3. Inv => ReportedRunEnds
  BY DEF OrderInv, DeliveredRows, FinalEventsEnd, ReportedRunEnds, Events
<1> HIDE DEF Inv
<1> QED
  BY <1>1, <1>2, <1>3, PTL DEF Spec

-----------------------------------------------------------------------------
(***************************************************************************)
(* Why the verdict is the report's: the stages send build_completed only   *)
(* with a report, and a report is written once.                            *)
(***************************************************************************)
ReportFirst ==
  /\ stage \in {"upload", "emit_completed"} => report # "none"
  /\ SentWithReport

LEMMA ReportStays == [Next]_vars => report' = report \/ report = "none"
<1>1. ASSUME NEW e \in Events, NEW i \in Attempts, applyEvent(e, i) PROVE report' = report
  BY <1>1 DEF applyEvent
<1> QED
  BY <1>1, BuildDelivers, CommitOrQuiet DEF EndElsewhere, DeleteRun, ReportWritten

LEMMA ReportFirstKept == DeliveryInv /\ ReportFirst /\ [Next]_vars => ReportFirst'
<1> SUFFICES ASSUME DeliveryInv, ReportFirst, [Next]_vars PROVE ReportFirst'
  OBVIOUS
<1> USE DEF ReportFirst, SentWithReport, At, Passes, Fails, OnlyStage
<1>0. /\ ReceiverTypeOK
      /\ "build_completed" \in Events
  BY DEF DeliveryInv, Events
<1>1. stage' = "upload" => stage = "upload" \/ report' # "none"
  BY ReportStays, StepKinds
     DEF Moves, Tidies, ValidateParams, StartedEmitted, PullImage, CreateNetwork, RequestRules,
         RulesAnswered, FetchWorkspace, CloneTests, RunContainer, ContainerGone, OrphanExits,
         CollectReport, UploadArtifacts, EmitCompleted, CompletedEmitted, Abort, StopHeartbeat,
         CleanupAnswered, RemoveContainer, RemoveNetwork, EmitErrored, End, AbortPost,
         stateOfBuild, deliveryStateVars, receiverVars
<1>2. stage' = "emit_completed" => stage \in {"upload", "emit_completed"}
  BY StepKinds
     DEF Moves, Tidies, ValidateParams, StartedEmitted, PullImage, CreateNetwork, RequestRules,
         RulesAnswered, FetchWorkspace, CloneTests, RunContainer, ContainerGone, OrphanExits,
         CollectReport, UploadArtifacts, EmitCompleted, CompletedEmitted, Abort, StopHeartbeat,
         CleanupAnswered, RemoveContainer, RemoveNetwork, EmitErrored, End, AbortPost,
         stateOfBuild
<1>3. ASSUME NEW e \in Events, Emitting(e), Sends(e)
      PROVE  attempt'["build_completed"] > 0 => attempt["build_completed"] > 0
  BY <1>0, <1>3, SendsOwn DEF Emitting
<1>4. attempt'["build_completed"] > 0
        => attempt["build_completed"] > 0 \/ stage = "emit_completed"
  <2>1. CASE WhileSilent
    BY <2>1 DEF WhileSilent, senderVars
  <2>2. CASE WhileSending
    <3>1. ASSUME NEW e \in Events \ {"build_completed"}, Emit(e)
          PROVE  attempt'["build_completed"] = attempt["build_completed"]
      BY <1>0, <3>1, SendsOwn DEF Sends
    <3> QED
      BY <1>3, <2>2, <3>1 DEF WhileSending, Events
  <2>3. CASE Abort \/ AbortPost
    <3>1. UNCHANGED attempt
      BY <2>3 DEF Abort, AbortPost, Interrupted, CutOff, Conclude, deliveryStateVars, senderVars
    <3> QED
      BY <3>1
  <2> QED
    BY <2>1, <2>2, <2>3, WhoSends
<1> QED
  BY <1>1, <1>2, <1>4, ReportStays

(***************************************************************************)
(* Results are stored once, by the report that was applied, and the run    *)
(* has passed only if that report is passing, failed only if it is         *)
(* failing.                                                                *)
(***************************************************************************)
THEOREM ResultsJustified == Spec => []ResultsMatchReport
<1> DEFINE Inv == /\ DeliveryInv /\ EventsInOrder /\ OrderInv
                  /\ StoredOnce /\ ReportFirst /\ VerdictInv
<1>1. Init => Inv
  <2>1. Init => ReportFirst
    BY DEF Init, ReceiverInit, ReportFirst, SentWithReport, Events
  <2> QED
    BY <2>1, BuildStarts, EventsStart, OrderStarts, VerdictStarts DEF Init
<1>2. Inv /\ [Next]_vars => Inv'
  <2>1. OrderInv => SentFirst
    BY DEF OrderInv
  <2> QED
    BY <2>1, BuildDelivers, DeliveryKeeps, EventsKept, OrderKept, ResultsKeep, ReportFirstKept,
       VerdictKept DEF ReportFirst
<1>3. Inv => ResultsMatchReport
  BY DEF VerdictInv, ResultsMatchReport
<1> HIDE DEF Inv
<1> QED
  BY <1>1, <1>2, <1>3, PTL DEF Spec

-----------------------------------------------------------------------------
(***************************************************************************)
(* Why no heartbeat is left: always stops it, and so does build_errored    *)
(* before it is sent; a build that skips the one because it was stopped    *)
(* there is aborted, and ends without the other only if that was cut off.  *)
(***************************************************************************)
HeartbeatStops ==
  /\ outcome["build_errored"] # "pending" => attempt["build_errored"] > 0
  /\ attempt["build_errored"] > 0 => stage \in {"report", "end"} /\ ~heartbeat
  /\ heartbeat /\ stage \in Ended \ {"stop"} => "stop" \in undone /\ result = "failure"
  /\ heartbeat /\ stage = "end" => "report" \in undone

\* What happens to the heartbeat outside the sender.
BeatsOn ==
  /\ heartbeat' => heartbeat \/ stage' \in Stages
  /\ heartbeat' /\ stage' \in Ended \ {"stop"} => "stop" \in undone' /\ result' = "failure"
  /\ heartbeat' /\ stage' = "end" => "report" \in undone'

LEMMA LastStages ==
  [Next]_vars => (stage \in {"report", "end"} => stage' \in {"report", "end"})
<1> SUFFICES ASSUME [Next]_vars, stage \in {"report", "end"} PROVE stage' \in {"report", "end"}
  OBVIOUS
<1>1. CASE WhileSilent \/ WhileSending
  BY <1>1 DEF WhileSilent, WhileSending, GoesOn, StartedEmitted, At, Passes, Fails
<1>2. CASE Abort \/ AbortPost
  BY <1>2 DEF Abort, AbortPost, Stages
<1> QED
  BY <1>1, <1>2, WhoSends

LEMMA BeatKept == BuildTypeOK /\ HeartbeatStops /\ [Next]_vars => BeatsOn
<1> SUFFICES ASSUME BuildTypeOK, HeartbeatStops, [Next]_vars PROVE BeatsOn
  OBVIOUS
<1> USE DEF BuildTypeOK, HeartbeatStops, BeatsOn, At, Passes, Fails, OnlyStage, Stages, Post, Ended
<1>1. CASE UNCHANGED stateOfBuild
  BY <1>1 DEF stateOfBuild
<1>2. CASE \/ ValidateParams \/ StartedEmitted \/ PullImage \/ CreateNetwork \/ RequestRules
           \/ RulesAnswered \/ FetchWorkspace
  BY <1>2 DEF ValidateParams, StartedEmitted, PullImage, CreateNetwork, RequestRules,
              RulesAnswered, FetchWorkspace
<1>3. CASE CloneTests \/ RunContainer \/ ContainerGone \/ OrphanExits \/ CollectReport
  BY <1>3 DEF CloneTests, RunContainer, ContainerGone, OrphanExits, CollectReport
<1>4. CASE UploadArtifacts \/ EmitCompleted \/ CompletedEmitted \/ Abort
  BY <1>4 DEF UploadArtifacts, EmitCompleted, CompletedEmitted, Abort
<1>5. CASE StopHeartbeat \/ CleanupAnswered \/ RemoveContainer \/ RemoveNetwork
  BY <1>5 DEF StopHeartbeat, CleanupAnswered, RemoveContainer, RemoveNetwork
<1>6. CASE EmitErrored \/ End
  BY <1>6 DEF EmitErrored, End
<1>7. CASE AbortPost
  BY <1>7 DEF AbortPost, CutAt
<1> QED
  BY <1>1, <1>2, <1>3, <1>4, <1>5, <1>6, <1>7, StepKinds DEF Moves, Tidies

LEMMA LastEventKept ==
  ASSUME ReceiverTypeOK, HeartbeatStops, [Next]_vars
  PROVE  /\ outcome'["build_errored"] # "pending" => attempt'["build_errored"] > 0
         /\ attempt'["build_errored"] > 0
              => attempt["build_errored"] > 0 \/ (EmitErrored /\ stage = "report")
<1> USE DEF HeartbeatStops
<1>0. "build_errored" \in Events
  BY DEF Events
<1>1. CASE WhileSilent
  BY <1>1 DEF WhileSilent, senderVars
<1>2. ASSUME NEW e \in Events, Sends(e), e # "build_errored" \/ Emitting(e)
      PROVE  /\ outcome'["build_errored"] # "pending" => attempt'["build_errored"] > 0
             /\ attempt'["build_errored"] > 0 => attempt["build_errored"] > 0
  BY <1>0, <1>2, SendsOwn DEF Emitting
<1>3. CASE Abort \/ AbortPost
  BY <1>2, <1>3 DEF Abort, AbortPost, Interrupted, Sends, Events, deliveryStateVars, senderVars
<1>4. CASE EmitErrored
  BY <1>0, <1>4, SendsOwn DEF EmitErrored, Sends
<1>5. CASE EmitStarted \/ EmitCompleted \/ Transmit
  BY <1>2, <1>5
     DEF EmitStarted, EmitCompleted, Transmit, ReadAnswer, TimeOut, Sends, Events,
         deliveryStateVars, senderVars
<1> QED
  BY <1>1, <1>3, <1>4, <1>5, WhoActs

(***************************************************************************)
(* Wherever a build fails or is stopped, what it leaves is what a stop in  *)
(* the post section or a failing command there left undone; and no rule,   *)
(* if the clean-up answered, none of its commands failed, and no apply was *)
(* given up.                                                               *)
(***************************************************************************)
THEOREM NothingLeft == Spec => []EndedBuildLeavesNothing
<1> DEFINE Inv == DeliveryInv /\ TidyInv /\ HeartbeatStops
<1>1. Init => Inv
  <2>1. Init => HeartbeatStops
    BY DEF Init, ReceiverInit, HeartbeatStops, Events, Ended, Post
  <2> QED
    BY <2>1, BuildStarts, TidyStarts
<1>2. Inv /\ [Next]_vars => Inv'
  <2> SUFFICES ASSUME Inv, [Next]_vars PROVE Inv'
    OBVIOUS
  <2>1. DeliveryInv' /\ TidyInv'
    BY BuildDelivers, DeliveryKeeps, TidyKept
  <2>2. BeatsOn /\ BuildTypeOK /\ ReceiverTypeOK
    BY BeatKept DEF TidyInv, RulesInv, DeliveryInv
  <2>3. /\ outcome'["build_errored"] # "pending" => attempt'["build_errored"] > 0
        /\ attempt'["build_errored"] > 0
             => attempt["build_errored"] > 0 \/ (EmitErrored /\ stage = "report")
    BY <2>2, LastEventKept
  <2>4. stage \in {"report", "end"} => stage' \in {"report", "end"}
    BY LastStages
  <2>5. attempt'["build_errored"] > 0 => stage' \in {"report", "end"} /\ ~heartbeat'
    BY <2>2, <2>3, <2>4 DEF HeartbeatStops, BeatsOn, EmitErrored, Stages
  <2> QED
    BY <2>1, <2>2, <2>3, <2>5 DEF HeartbeatStops, BeatsOn
<1>3. Inv => EndedBuildLeavesNothing
  BY DEF TidyInv, RulesGone, HostCleared, HeartbeatStops, Ended, Post, EndedBuildLeavesNothing
<1> HIDE DEF Inv
<1> QED
  BY <1>1, <1>2, <1>3, PTL DEF Spec
=============================================================================
