------------------------------- MODULE Firewall -------------------------------
(***************************************************************************)
(* The firewall sidecar (firewall.sh): the iptables chain of one build     *)
(* network, its hooks, and the two requests a build makes.  socat forks a  *)
(* handler per connection, so the handlers of apply and cleanup may run    *)
(* beside each other, and a handler may go on after its client has left.   *)
(* Every command is a step of its own, except the four with which          *)
(* ensure_chain starts a chain.  A command fails where the state makes it: *)
(* appending to or hooking a missing chain, deleting a referenced one; and *)
(* any command may fail by itself (the lock, the kernel, the Docker        *)
(* daemon).  apply_rules runs as the condition of an if, where `set -e'    *)
(* has no effect: only the statuses it tests, and the last, stop it.  A    *)
(* handler that dies (with its connection, or with the sidecar) is one     *)
(* that takes no further step.                                             *)
(***************************************************************************)
EXTENDS Naturals, FiniteSets

CONSTANTS
  Hermetic,       \* what the project asked for: no egress, or the allowlist
  MaxFailures     \* bound: how many commands fail by themselves

ASSUME FirewallAssumption == Hermetic \in BOOLEAN /\ MaxFailures \in Nat

VARIABLES
  network,    \* the Docker network of the build exists
  chain,      \* its MOUL_ chain: which kind of rules it holds
  allowed,    \* the chain accepts the hosts of the allowlist
  hooks,      \* the chains that jump to it for the bridge of the network
  handler,    \* where the handler of each request is
  failed      \* history: the places whose command has failed by itself

firewallVars == <<network, chain, allowed, hooks, handler, failed>>

Requests == {"apply", "cleanup"}
Hooks    == {"DOCKER-USER", "INPUT"}
Chain    == {"absent", "empty", "open", "deny"}

ApplyPlaces   == {"ensure", "allow", "drop", "find", "hook", "hook_input"}
CleanupPlaces == {"look", "unhook", "unhook_input", "flush", "delete"}
HandlerState  == {"idle", "ok", "error"} \union ApplyPlaces \union CleanupPlaces

FirewallTypeOK ==
  /\ network  \in BOOLEAN
  /\ chain    \in Chain
  /\ allowed  \in BOOLEAN
  /\ hooks    \subseteq Hooks
  /\ handler  \in [Requests -> HandlerState]
  /\ failed   \subseteq ApplyPlaces \union CleanupPlaces

FirewallInit ==
  /\ network = FALSE
  /\ chain = "absent" /\ allowed = FALSE /\ hooks = {}
  /\ handler = [q \in Requests |-> "idle"]
  /\ failed = {}

\* The handler of q has taken the step from one place in the script to the next.
Goes(q, from, to) ==
  /\ handler[q] = from
  /\ handler' = [handler EXCEPT ![q] = to]

Filter(c, a, h) == chain' = c /\ allowed' = a /\ hooks' = h

\* The command at a place works, or it fails by itself.
Runs(place, works) ==
  \/ works /\ UNCHANGED failed
  \/ ~works /\ Cardinality(failed) < MaxFailures /\ failed' = failed \union {place}

\* Which place the script goes to, by whether a command succeeds.
Step(q, from, succeeds, to, otherwise) ==
  Goes(q, from, IF succeeds THEN to ELSE otherwise)

\* jq's  .hermetic // true  answers true for false as well as for a missing key.
ReadHermetic(asked) == IF asked THEN asked ELSE TRUE

-----------------------------------------------------------------------------
\* The status of ensure_chain is that of its last command; an -F or a first -A
\* that fails leaves a new chain as open as it would be.
ensure_chain ==
  /\ \/ /\ \E works \in BOOLEAN : Runs("ensure", works)
        /\ Goes("apply", "ensure", "allow") /\ Filter("open", FALSE, hooks)
     \/ /\ Runs("ensure", FALSE)
        /\ Goes("apply", "ensure", "error")
        /\ \E left \in {"absent", "empty", "open"} : Filter(left, FALSE, hooks)
  /\ UNCHANGED network

\* One ACCEPT per host and port, unless the request reads as hermetic; the
\* status of the loop is not looked at.
AppendAllowlist ==
  /\ Goes("apply", "allow", "drop")
  /\ \E works \in {TRUE, ReadHermetic(Hermetic)} :
       /\ Runs("allow", works)
       /\ Filter(chain, ~ReadHermetic(Hermetic) /\ chain # "absent" /\ works, hooks)
  /\ UNCHANGED network

AppendDrop ==
  /\ \E works \in BOOLEAN :
       /\ Runs("drop", works)
       /\ Step("apply", "drop", chain # "absent" /\ works, "find", "error")
       /\ Filter(IF chain # "absent" /\ works THEN "deny" ELSE chain, allowed, hooks)
  /\ UNCHANGED network

FindBridge ==
  /\ \E works \in BOOLEAN :
       Runs("find", works) /\ Step("apply", "find", network /\ works, "hook", "error")
  /\ Filter(chain, allowed, hooks)
  /\ UNCHANGED network

With(hook, works) == IF chain # "absent" /\ works THEN hooks \union {hook} ELSE hooks

\* A failure to hook into DOCKER-USER goes unnoticed: only the last status counts.
HookForward ==
  /\ Goes("apply", "hook", "hook_input")
  /\ \E works \in BOOLEAN :
       Runs("hook", works) /\ Filter(chain, allowed, With("DOCKER-USER", works))
  /\ UNCHANGED network

HookInput ==
  /\ \E works \in BOOLEAN :
       /\ Runs("hook_input", works)
       /\ Step("apply", "hook_input", chain # "absent" /\ works, "ok", "error")
       /\ Filter(chain, allowed, With("INPUT", works))
  /\ UNCHANGED network

-----------------------------------------------------------------------------
\* Without a network to inspect there is no bridge to name, and the hooks are left.
LookUpBridge ==
  /\ \E works \in BOOLEAN :
       Runs("look", works) /\ Step("cleanup", "look", network /\ works, "unhook", "flush")
  /\ Filter(chain, allowed, hooks)
  /\ UNCHANGED network

\* The commands of the clean-up all end in `|| true'.
UnhookOne(from, to, hook) ==
  /\ Goes("cleanup", from, to)
  /\ \E works \in BOOLEAN :
       Runs(from, works) /\ Filter(chain, allowed, IF works THEN hooks \ {hook} ELSE hooks)
  /\ UNCHANGED network

Unhook ==
  \/ UnhookOne("unhook", "unhook_input", "DOCKER-USER")
  \/ UnhookOne("unhook_input", "flush", "INPUT")

FlushChain ==
  /\ Goes("cleanup", "flush", "delete")
  /\ \E works \in BOOLEAN :
       /\ Runs("flush", works)
       /\ IF chain # "absent" /\ works THEN Filter("empty", FALSE, hooks)
                                       ELSE Filter(chain, allowed, hooks)
  /\ UNCHANGED network

\* iptables -X refuses a chain that is referenced or not empty.
Deletable == hooks = {} /\ chain = "empty"

DeleteChain ==
  /\ Goes("cleanup", "delete", "ok")
  /\ \E works \in BOOLEAN :
       Runs("delete", works)
       /\ Filter(IF Deletable /\ works THEN "absent" ELSE chain, allowed, hooks)
  /\ UNCHANGED network

FirewallNext ==
  \/ ensure_chain \/ AppendAllowlist \/ AppendDrop
  \/ FindBridge \/ HookForward \/ HookInput
  \/ LookUpBridge \/ Unhook \/ FlushChain \/ DeleteChain

-----------------------------------------------------------------------------
(***************************************************************************)
(* "hermetic=false -> default-deny + one ACCEPT per (host,port) in         *)
(* allowlist" (firewall.sh): an apply that was answered ok has let through *)
(* the hosts of the allowlist, if the project has one.                     *)
(***************************************************************************)
OkMeansAsRequested ==
  handler["apply"] = "ok" /\ handler["cleanup"] = "idle" => (Hermetic <=> ~allowed)
=============================================================================
