---------------------------- MODULE JenkinsCrumb ----------------------------
(***************************************************************************)
(* Requests of the API to Jenkins with the crumb that Jenkins asks for     *)
(* (post and ensureCrumb of JenkinsClient).  The crumb is kept in one      *)
(* field of the client, which concurrent requests read, clear and set      *)
(* between their awaits.  Jenkins changes its crumb now and then, and      *)
(* answers 403 to a request that carries an older one or none; unless its  *)
(* CSRF protection is off: then it gives no crumb and asks for none.       *)
(***************************************************************************)
EXTENDS Naturals

CONSTANTS
  Posts,          \* requests to Jenkins: triggerBuild and abortBuild call post
  MaxRotations    \* bound on how often Jenkins changes its crumb

ASSUME CrumbAssumption == MaxRotations \in Nat

VARIABLES
  protected,      \* Jenkins asks for crumbs: its CSRF protection is on
  valid,          \* the crumb Jenkins accepts; 0 is none
  crumb,          \* the field this.crumb
  posts,          \* where each request is
  taken,          \* how often Jenkins has carried it out
  lastKnown       \* history: the crumb Jenkins accepted when it refused the request first

crumbVars == <<protected, valid, crumb, posts, taken, lastKnown>>

NoCrumb == 0
Crumbs  == 0..MaxRotations + 1

Post == [at     : {"idle", "asking", "told", "sent", "accepted", "refused", "done", "failed"},
         crumb  : Crumbs,           \* in finalHeaders
         told   : Crumbs,           \* in the answer of the crumb issuer
         tries  : 0..2,             \* how often it has been made ready to send
         denied : BOOLEAN]          \* history: the issuer gave it no crumb

CrumbTypeOK ==
  /\ protected \in BOOLEAN
  /\ valid \in Crumbs \ {NoCrumb}
  /\ crumb \in Crumbs
  /\ posts \in [Posts -> Post]
  /\ taken \in [Posts -> 0..2]
  /\ lastKnown \in [Posts -> Crumbs]

CrumbInit ==
  /\ protected \in BOOLEAN
  /\ valid = 1
  /\ crumb = NoCrumb
  /\ posts = [p \in Posts |-> [at |-> "idle", crumb |-> NoCrumb, told |-> NoCrumb,
                               tries |-> 0, denied |-> FALSE]]
  /\ taken = [p \in Posts |-> 0]
  /\ lastKnown = [p \in Posts |-> NoCrumb]

-----------------------------------------------------------------------------
Retried(p) == posts[p].tries = 2

\* ensureCrumb up to its first await: the crumb there is, or the issuer is asked.
EnsureCrumb(p, c) ==
  LET tries == posts[p].tries + 1 IN
  posts' = [posts EXCEPT ![p] =
    IF c # NoCrumb THEN [@ EXCEPT !.at = "sent", !.crumb = c, !.tries = tries]
                   ELSE [@ EXCEPT !.at = "asking", !.tries = tries]]

StartPost(p) ==
  /\ posts[p].at = "idle"
  /\ EnsureCrumb(p, crumb)
  /\ UNCHANGED <<protected, valid, crumb, taken, lastKnown>>

IssueCrumb(p) ==
  /\ protected /\ posts[p].at = "asking"
  /\ posts' = [posts EXCEPT ![p].at = "told", ![p].told = valid]
  /\ UNCHANGED <<protected, valid, crumb, taken, lastKnown>>

TakeCrumb(p) ==
  /\ posts[p].at = "told"
  /\ crumb' = posts[p].told
  /\ posts' = [posts EXCEPT ![p].at = "sent", ![p].crumb = posts[p].told, ![p].told = NoCrumb]
  /\ UNCHANGED <<protected, valid, taken, lastKnown>>

\* The issuer is away, switched off, or answers badly: on without a crumb, or with the
\* old header.
NoCrumbIssued(p) ==
  /\ posts[p].at \in {"asking", "told"}
  /\ posts' = [posts EXCEPT ![p].at = "sent", ![p].told = NoCrumb, ![p].denied = TRUE]
  /\ UNCHANGED <<protected, valid, crumb, taken, lastKnown>>

\* Jenkins receives the request; the answer is on its way, or lost.
Receive(p) ==
  /\ posts[p].at = "sent"
  /\ IF protected => posts[p].crumb = valid
     THEN /\ taken' = [taken EXCEPT ![p] = @ + 1]
          /\ \E at \in {"accepted", "failed"} : posts' = [posts EXCEPT ![p].at = at]
          /\ UNCHANGED lastKnown
     ELSE /\ \E at \in {"refused", "failed"} : posts' = [posts EXCEPT ![p].at = at]
          /\ lastKnown' = [lastKnown EXCEPT ![p] = IF Retried(p) THEN @ ELSE valid]
          /\ UNCHANGED taken
  /\ UNCHANGED <<protected, valid, crumb>>

\* Jenkins is not reached: fetch throws.
Unreachable(p) ==
  /\ posts[p].at = "sent"
  /\ posts' = [posts EXCEPT ![p].at = "failed"]
  /\ UNCHANGED <<protected, valid, crumb, taken, lastKnown>>

\* Any answer but a 403, and the answer to a retry, goes to the caller.
Return(p) ==
  /\ \/ posts[p].at = "accepted"
     \/ posts[p].at = "refused" /\ (Retried(p) \/ posts[p].crumb = NoCrumb)
  /\ posts' = [posts EXCEPT ![p].at = IF @ = "accepted" THEN "done" ELSE "failed"]
  /\ UNCHANGED <<protected, valid, crumb, taken, lastKnown>>

\* Mistake: a request that failed in any way is sent once more.
RetryFailed(p) ==
  /\ posts[p].at \in {"refused", "failed"} /\ posts[p].crumb # NoCrumb /\ ~Retried(p)
  /\ crumb' = NoCrumb
  /\ EnsureCrumb(p, NoCrumb)
  /\ UNCHANGED <<protected, valid, taken, lastKnown>>

\* Mistake: every 403 is tried again.
RetryForever(p) ==
  /\ posts[p].at = "refused" /\ posts[p].crumb # NoCrumb
  /\ crumb' = NoCrumb
  /\ EnsureCrumb(p, NoCrumb)
  /\ UNCHANGED <<protected, valid, taken, lastKnown>>

\* Mistake: a crumb that another request has put there is trusted.
RetryKept(p) ==
  /\ posts[p].at = "refused" /\ posts[p].crumb # NoCrumb /\ ~Retried(p)
  /\ crumb' = IF crumb = posts[p].crumb THEN NoCrumb ELSE crumb
  /\ EnsureCrumb(p, crumb')
  /\ UNCHANGED <<protected, valid, taken, lastKnown>>

\* A 403 to a crumb: whatever crumb is kept now is dropped, and the issuer asked.
Retry(p) ==
  /\ posts[p].at = "refused" /\ posts[p].crumb # NoCrumb /\ ~Retried(p)
  /\ crumb' = NoCrumb
  /\ EnsureCrumb(p, NoCrumb)
  /\ UNCHANGED <<protected, valid, taken, lastKnown>>

\* Jenkins restarts, or the session behind the crumb ends.
Rotate ==
  /\ protected /\ valid <= MaxRotations
  /\ valid' = valid + 1
  /\ UNCHANGED <<protected, crumb, posts, taken, lastKnown>>

CrumbNext ==
  \/ \E p \in Posts :
       \/ StartPost(p) \/ IssueCrumb(p) \/ TakeCrumb(p) \/ NoCrumbIssued(p)
       \/ Receive(p) \/ Unreachable(p) \/ Return(p) \/ Retry(p)
  \/ Rotate

CrumbSpec == CrumbInit /\ [][CrumbNext]_crumbVars

-----------------------------------------------------------------------------
(***************************************************************************)
(* Jenkins carries each request out at most once: the retry of post        *)
(* follows a refusal, never a lost answer (a build queued twice has one    *)
(* run and two sets of webhooks).                                          *)
(***************************************************************************)
TakenOnce == \A p \in Posts : taken[p] <= 1

(***************************************************************************)
(* A retry carries a crumb that Jenkins accepted no earlier than when it   *)
(* refused the request, so it is refused again only if Jenkins has changed *)
(* its crumb once more, or the issuer gave none; whatever crumbs           *)
(* concurrent requests put into the client meanwhile.                      *)
(***************************************************************************)
RetryIsFresh ==
  \A p \in Posts :
    posts[p].at = "sent" /\ Retried(p) =>
      posts[p].crumb >= lastKnown[p] \/ posts[p].denied
=============================================================================
