------------------------------- MODULE Pipeline -------------------------------
(***************************************************************************)
(* One build of the Jenkins job (Jenkinsfile): its stages in order, its    *)
(* post section, the webhooks it emits through WebhookDelivery and the     *)
(* rules it asks of the Firewall.  A build may be stopped at any time, in  *)
(* its post section too and more than once: by a user, by the abort queue, *)
(* or by the 90 minutes of its options.                                    *)
(*                                                                         *)
(* Declarative pipelines run `always' before `aborted' and `failure', in   *)
(* whatever order the conditions are written: the clean-up comes first,    *)
(* then build_errored.                                                     *)
(***************************************************************************)
EXTENDS WebhookDelivery, Firewall

VARIABLES
  stage,        \* where the build is
  result,       \* currentBuild.result; ABORTED is a failure with another text
  heartbeat,    \* the background heartbeat loop runs
  container,    \* the job container runs
  resp,         \* what the client of each firewall request was answered
  undone        \* history: the steps of the post section that were cut off or failed

stateOfBuild == <<stage, result, heartbeat, container, resp, undone>>
vars == <<deliveryStateVars, firewallVars, stateOfBuild>>

Stages == {"validate", "emit_started", "pull", "network", "firewall", "await_firewall",
           "fetch", "clone", "harness", "running", "collect", "upload", "emit_completed"}
Post   == {"stop", "await_cleanup", "remove_container", "remove_network", "report"}

TypeOK ==
  /\ ReceiverTypeOK
  /\ FirewallTypeOK
  /\ stage  \in Stages \union Post \union {"end"}
  /\ result \in {"success", "failure"}
  /\ heartbeat \in BOOLEAN
  /\ container \in BOOLEAN
  /\ resp \in [Requests -> {"none", "ok", "error", "no_answer"}]
  /\ undone \subseteq Post

Init ==
  /\ ReceiverInit /\ report = "none"
  /\ FirewallInit
  /\ stage = "validate" /\ result = "success"
  /\ heartbeat = FALSE /\ container = FALSE
  /\ resp = [q \in Requests |-> "none"]
  /\ undone = {}

At(s, next) == stage = s /\ stage' = next

\* A failed stage leads to the post section.
Fails(s) == At(s, "stop") /\ result' = "failure"
Passes(s, next) == At(s, next) /\ UNCHANGED result

OnlyStage == UNCHANGED <<deliveryStateVars, firewallVars, heartbeat, container, resp, undone>>

-----------------------------------------------------------------------------
\* validateRequiredParams: required, well-formed, within bounds.
ValidateParams ==
  /\ Passes("validate", "emit_started") \/ Fails("validate")
  /\ OnlyStage

EmitStarted ==
  /\ stage = "emit_started"
  /\ Emit("build_started")
  /\ UNCHANGED <<firewallVars, stateOfBuild>>

\* emitWebhook returns, and startHeartbeat follows; or it exits 1.
StartedEmitted ==
  /\ \/ /\ outcome["build_started"] = "delivered"
        /\ Passes("emit_started", "pull")
        /\ heartbeat' = TRUE
     \/ /\ outcome["build_started"] = "failed"
        /\ Fails("emit_started")
        /\ UNCHANGED heartbeat
  /\ UNCHANGED <<deliveryStateVars, firewallVars, container, resp, undone>>

\* docker login, docker pull by digest.
PullImage ==
  /\ Passes("pull", "network") \/ Fails("pull")
  /\ OnlyStage

CreateNetwork ==
  /\ \/ Passes("network", "firewall") /\ network' = TRUE
     \/ Fails("network") /\ UNCHANGED network
  /\ UNCHANGED <<chain, allowed, hooks, handler, failed>>
  /\ UNCHANGED <<deliveryStateVars, heartbeat, container, resp, undone>>

\* The request goes to the sidecar, unless its socket is missing.
RequestRules ==
  /\ \/ Passes("firewall", "await_firewall") /\ Goes("apply", "idle", "ensure")
     \/ Fails("firewall") /\ UNCHANGED handler
  /\ UNCHANGED <<network, chain, allowed, hooks, failed>>
  /\ UNCHANGED <<deliveryStateVars, heartbeat, container, resp, undone>>

\* Mistake: only an explicit refusal fails the stage.
NotRefused(answer) == answer # "error"

Acknowledged(answer) == answer = "ok"

(***************************************************************************)
(* socat returns the handler's answer, or nothing: half a second after the *)
(* end of its input, or after ten seconds of silence, it gives up.         *)
(***************************************************************************)
RulesAnswered ==
  /\ stage = "await_firewall"
  /\ \E answer \in {handler["apply"], "no_answer"} \intersect {"ok", "error", "no_answer"} :
       /\ resp' = [resp EXCEPT !["apply"] = answer]
       /\ IF Acknowledged(answer) THEN Passes("await_firewall", "fetch")
                                  ELSE Fails("await_firewall")
  /\ UNCHANGED <<deliveryStateVars, firewallVars, heartbeat, container, undone>>

\* curl and tar, from the presigned URL.
FetchWorkspace ==
  /\ Passes("fetch", "clone") \/ Fails("fetch")
  /\ OnlyStage

\* By its SHA, or by looking deeper and deeper for the pinned commit.
CloneTests ==
  /\ Passes("clone", "harness") \/ Fails("clone")
  /\ OnlyStage

-----------------------------------------------------------------------------
\* docker run in the background; its exit code is kept, not acted upon.
RunContainer ==
  /\ \/ Passes("harness", "running") /\ container' = TRUE
     \/ Passes("harness", "collect") /\ UNCHANGED container
  /\ UNCHANGED <<deliveryStateVars, firewallVars, heartbeat, resp, undone>>

\* The harness writes result.json, whatever it says.
HarnessReports ==
  /\ stage = "running" /\ report = "none"
  /\ report' \in Report \ {"none"}
  /\ UNCHANGED <<runVars, pinsMatch, row, request, senderVars, firewallVars, stateOfBuild>>

ContainerGone ==
  /\ Passes("running", "collect")
  /\ container' = FALSE
  /\ UNCHANGED <<deliveryStateVars, firewallVars, heartbeat, resp, undone>>

\* The container of a stopped build, for which nobody waits any more.
OrphanExits ==
  /\ container /\ stage # "running"
  /\ container' = FALSE
  /\ UNCHANGED <<deliveryStateVars, firewallVars, stage, result, heartbeat, resp, undone>>

HarnessExits == ContainerGone \/ OrphanExits

\* Mistake: the killer waits for the report of the harness.
KillAfterReport == report # "none" /\ ContainerGone

\* The killer removes the container when timeout_seconds have passed.
KillContainer == ContainerGone

\* A missing result.json is an error of the pipeline, not a verdict.
CollectReport ==
  /\ \/ report # "none" /\ Passes("collect", "upload")
     \/ report = "none" /\ Fails("collect")
  /\ OnlyStage

UploadArtifacts ==
  /\ Passes("upload", "emit_completed") \/ Fails("upload")
  /\ OnlyStage

\* stopHeartbeat, then the cases of the report; one that does not parse throws.
EmitCompleted ==
  /\ heartbeat' = FALSE
  /\ \/ /\ stage = "emit_completed"
        /\ Emit("build_completed")
        /\ UNCHANGED <<stage, result>>
     \/ /\ report = "malformed" /\ attempt["build_completed"] = 0
        /\ Fails("emit_completed")
        /\ UNCHANGED deliveryStateVars
  /\ UNCHANGED <<firewallVars, container, resp, undone>>

CompletedEmitted ==
  /\ \/ outcome["build_completed"] = "delivered" /\ Passes("emit_completed", "stop")
     \/ outcome["build_completed"] = "failed" /\ Fails("emit_completed")
  /\ OnlyStage

-----------------------------------------------------------------------------
\* The emission of e is cut off if there is one.
Interrupted(e) ==
  IF Emitting(e) THEN CutOff(e) ELSE UNCHANGED deliveryStateVars

\* The build is stopped in a stage: the running step ends, a container it started does not.
Abort ==
  /\ stage \in Stages
  /\ stage' = "stop" /\ result' = "failure"
  /\ resp' = IF stage = "await_firewall" THEN [resp EXCEPT !["apply"] = "no_answer"] ELSE resp
  /\ IF stage = "emit_completed" THEN Interrupted("build_completed")
                                 ELSE Interrupted("build_started")
  /\ UNCHANGED <<firewallVars, heartbeat, container, undone>>

\* What does not take place when the post section is cut off at a step.
CutAt(s) ==
  CASE s = "stop"                                 -> {s, "remove_container", "remove_network"}
    [] s \in {"await_cleanup", "remove_container"} -> {"remove_container", "remove_network"}
    [] OTHER                                      -> {s}

(***************************************************************************)
(* The build is stopped in its post section: the condition that runs is    *)
(* cut off, and the build, aborted now, goes on to the next condition.     *)
(***************************************************************************)
AbortPost ==
  /\ stage \in Post /\ (stage = "report" => result # "success")
  /\ result' = "failure"
  /\ undone' = undone \union CutAt(stage)
  /\ resp' = IF stage = "await_cleanup" THEN [resp EXCEPT !["cleanup"] = "no_answer"] ELSE resp
  /\ IF stage = "report" THEN stage' = "end" /\ Interrupted("build_errored")
                         ELSE stage' = "report" /\ UNCHANGED deliveryStateVars
  /\ UNCHANGED <<firewallVars, heartbeat, container>>

-----------------------------------------------------------------------------
\* always: stopHeartbeat, then ask the sidecar to clean up if its socket is there.
StopHeartbeat ==
  /\ heartbeat' = FALSE
  /\ \/ Passes("stop", "await_cleanup") /\ Goes("cleanup", "idle", "look")
     \/ Passes("stop", "remove_container") /\ UNCHANGED handler
  /\ UNCHANGED <<network, chain, allowed, hooks, failed>>
  /\ UNCHANGED <<deliveryStateVars, container, resp, undone>>

\* What socat has by the time it leaves: the answer, or nothing; `|| true'.
CleanupAnswer == IF handler["cleanup"] = "ok" THEN "ok" ELSE "no_answer"

CleanupAnswered ==
  /\ Passes("await_cleanup", "remove_container")
  /\ resp' = [resp EXCEPT !["cleanup"] = CleanupAnswer]
  /\ UNCHANGED <<deliveryStateVars, firewallVars, heartbeat, container, undone>>

\* Mistake: --rm is trusted to have removed the container.
TrustRm ==
  /\ Passes("remove_container", "remove_network")
  /\ OnlyStage

\* docker rm -f; `2>/dev/null || true' hides a failure.
RemoveContainer ==
  /\ Passes("remove_container", "remove_network")
  /\ \/ container' = FALSE /\ UNCHANGED undone
     \/ container /\ UNCHANGED container /\ undone' = undone \union {"remove_container"}
  /\ UNCHANGED <<deliveryStateVars, firewallVars, heartbeat, resp>>

\* docker network rm, which needs the container gone, `|| true'; then the files.
RemoveNetwork ==
  /\ Passes("remove_network", "report")
  /\ \/ network' = (network /\ container) /\ UNCHANGED undone
     \/ network /\ UNCHANGED network /\ undone' = undone \union {"remove_network"}
  /\ UNCHANGED <<chain, allowed, hooks, handler, failed>>
  /\ UNCHANGED <<deliveryStateVars, heartbeat, container, resp>>

\* failure or aborted: stopHeartbeat, build_errored; a success has nothing to add.
EmitErrored ==
  /\ stage = "report" /\ result # "success"
  /\ Emit("build_errored")
  /\ heartbeat' = FALSE
  /\ UNCHANGED <<firewallVars, stage, result, container, resp, undone>>

End ==
  /\ result = "success" \/ outcome["build_errored"] # "pending"
  /\ Passes("report", "end")
  /\ OnlyStage
-----------------------------------------------------------------------------
\* curl of the event the build is emitting.
Transmit ==
  /\ \E e \in Events : ReadAnswer(e) \/ TimeOut(e)
  /\ UNCHANGED <<firewallVars, stateOfBuild>>

\* What the build does by itself, as long as its agent lives.
BuildStep ==
  \/ ValidateParams \/ EmitStarted \/ StartedEmitted \/ PullImage
  \/ CreateNetwork \/ RequestRules \/ RulesAnswered \/ FetchWorkspace \/ CloneTests
  \/ RunContainer \/ KillContainer \/ CollectReport \/ UploadArtifacts
  \/ EmitCompleted \/ CompletedEmitted
  \/ StopHeartbeat \/ CleanupAnswered \/ RemoveContainer \/ RemoveNetwork
  \/ EmitErrored \/ End
  \/ Transmit

Server  == ReceiverNext /\ UNCHANGED <<firewallVars, stateOfBuild>>
Sidecar == FirewallNext /\ UNCHANGED <<deliveryStateVars, stateOfBuild>>

Next == BuildStep \/ HarnessReports \/ HarnessExits \/ Abort \/ AbortPost \/ Server \/ Sidecar

(***************************************************************************)
(* The build's own steps are fair: each is a shell command, and those that *)
(* wait do so for a limited time.  Nothing is assumed of the harness, the  *)
(* API, the sidecar or the user.                                           *)
(***************************************************************************)
Spec == Init /\ [][Next]_vars /\ WF_vars(BuildStep)

-----------------------------------------------------------------------------
(***************************************************************************)
(* The job container runs only behind its rules, an orphan of a stopped    *)
(* build as well: until the clean-up is asked for, the chain ends in DROP  *)
(* and accepts no host if the project is hermetic, and it is hooked into   *)
(* INPUT and, unless that one command failed, where Docker looks first     *)
(* (the order of the stages, the test of the sidecar's answer).  In always *)
(* the rules are dropped before `docker rm', so nothing is said from there.*)
(***************************************************************************)
ContainerConfined ==
  container /\ handler["cleanup"] = "idle" =>
    /\ chain = "deny"
    /\ Hermetic => ~allowed
    /\ "INPUT" \in hooks
    /\ "DOCKER-USER" \in hooks \/ "hook" \in failed

(***************************************************************************)
(* Wherever a build fails or is stopped, what it leaves behind is what a   *)
(* stop in the post section, or a failing docker command there, left       *)
(* undone: a heartbeat only if `always' was cut off before it and the last *)
(* report too, a container only if `docker rm' was cut off or failed, a    *)
(* network only for the same reason or its own.  No rule is left in the    *)
(* host's tables if the sidecar answered its clean-up in time, none of the *)
(* clean-up's commands failed, and no apply that the build gave up is      *)
(* still at work.                                                          *)
(***************************************************************************)
EndedBuildLeavesNothing ==
  stage = "end" =>
    /\ heartbeat => {"stop", "report"} \subseteq undone
    /\ container => "remove_container" \in undone
    /\ network => undone \intersect {"remove_container", "remove_network"} # {}
    /\ /\ resp["cleanup"] = "ok" /\ resp["apply"] # "no_answer"
       /\ failed \intersect CleanupPlaces = {}
       => chain = "absent" /\ hooks = {}

(***************************************************************************)
(* Every build ends, and has told the API so or given up trying, unless it *)
(* was stopped while it did: a harness that never returns is killed, an    *)
(* answer that never comes is timed out.                                   *)
(***************************************************************************)
BuildEnds ==
  <>(/\ stage = "end"
     /\ \/ "report" \in undone
        \/ "pending" # outcome[IF result = "success" THEN "build_completed" ELSE "build_errored"])
=============================================================================
