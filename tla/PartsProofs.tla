----------------------------- MODULE PartsProofs -----------------------------
(***************************************************************************)
(* Theorems about parts that share no state: the credentials of a user,    *)
(* the catalogue, and the crumb of the Jenkins client; each for any number *)
(* of concurrent requests.                                                 *)
(***************************************************************************)
EXTENDS Credentials, Catalogue, JenkinsCrumb, TLAPS

-----------------------------------------------------------------------------
(***************************************************************************)
(* A create that began after others were answered has their rows in its    *)
(* sight: those not deleted meanwhile are in what it found, then in what   *)
(* its deleteMany saw, then among the rows it has deleted.                 *)
(***************************************************************************)
InSight ==
  \A c \in Creates :
    /\ older[c] \subseteq Answered
    /\ creating[c] = "found"    => older[c] \intersect stored \subseteq found[c]
    /\ creating[c] = "deleting" => older[c] \intersect stored \subseteq target[c]
    /\ creating[c] = "deleted"  => older[c] \intersect stored \subseteq doomed[c]

CredentialsInv == CredentialsTypeOK /\ InSight /\ SupersededGone /\ NeverLeftWithout

LEMMA CredentialsStart == CredentialsInit => CredentialsInv
  BY CredentialsAssumption
     DEF CredentialsInit, CredentialsInv, CredentialsTypeOK, InSight, SupersededGone,
         NeverLeftWithout, Answered, Committed, CreateState, RemoveState

LEMMA CredentialsKept == CredentialsInv /\ [CredentialsNext]_credentialVars => CredentialsInv'
<1> SUFFICES ASSUME CredentialsInv, [CredentialsNext]_credentialVars PROVE CredentialsInv'
  OBVIOUS
<1> USE CredentialsAssumption
    DEF CredentialsInv, CredentialsTypeOK, InSight, SupersededGone, NeverLeftWithout, Answered, Committed,
        CreateState, RemoveState
<1>1. ASSUME NEW c \in Creates, FindExisting(c) PROVE CredentialsInv'
  BY <1>1 DEF FindExisting, Creating
<1>2. ASSUME NEW c \in Creates, StartDelete(c) PROVE CredentialsInv'
  BY <1>2 DEF StartDelete, Creating, Replaced
<1>3. ASSUME NEW c \in Creates, DeleteRows(c) PROVE CredentialsInv'
  BY <1>3 DEF DeleteRows, Creating
<1>4. ASSUME NEW c \in Creates, CommitCreate(c) PROVE CredentialsInv'
  BY <1>4 DEF CommitCreate, Creating, Forget
<1>5. ASSUME NEW c \in Creates, FailCreate(c) \/ AuditCreate(c) PROVE CredentialsInv'
  <2>1. CASE FailCreate(c)
    BY <2>1 DEF FailCreate, Forget
  <2>2. CASE AuditCreate(c)
    <3>1. /\ creating[c] = "committed"
          /\ UNCHANGED <<stored, found, target, doomed, removing, older>>
      BY <2>2 DEF AuditCreate, Creating
    <3>2. PICK to \in {"done", "failed"} : creating' = [creating EXCEPT ![c] = to]
      BY <2>2 DEF AuditCreate, Creating
    <3>3. creating'[c] = to /\ \A d \in Creates : d # c => creating'[d] = creating[d]
      BY <3>2
    <3>4. Answered \subseteq Answered' /\ Committed' \subseteq Committed
      BY <3>1, <3>3
    <3>5. CredentialsTypeOK' /\ InSight'
      BY <3>1, <3>2, <3>3, <3>4
    <3>6. SupersededGone' /\ NeverLeftWithout'
      BY <3>1, <3>2, <3>3, <3>4
    <3> QED
      BY <3>5, <3>6
  <2> QED
    BY <1>5, <2>1, <2>2
<1>6. ASSUME NEW d \in Removals, FindRemoved(d) \/ RemoveRow(d) PROVE CredentialsInv'
  BY <1>6 DEF FindRemoved, RemoveRow
<1>7. CASE UNCHANGED credentialVars
  BY <1>7 DEF credentialVars
<1> QED
  BY <1>1, <1>2, <1>3, <1>4, <1>5, <1>6, <1>7 DEF CredentialsNext

LEMMA CredentialsAlways == CredentialsSpec => []CredentialsInv
BY CredentialsStart, CredentialsKept, PTL DEF CredentialsSpec

(***************************************************************************)
(* Credentials that were there before a create began are gone when it is   *)
(* answered, although deleteMany sees no row committed while it waits.     *)
(***************************************************************************)
THEOREM Replacing == CredentialsSpec => []SupersededGone
<1>1. CredentialsInv => SupersededGone
  BY DEF CredentialsInv
<1> QED
  BY <1>1, CredentialsAlways, PTL

(***************************************************************************)
(* Replacing credentials, by any number of creates that overlap and fail,  *)
(* never leaves the user without one.                                      *)
(***************************************************************************)
THEOREM OneLeft == CredentialsSpec => []NeverLeftWithout
<1>1. CredentialsInv => NeverLeftWithout
  BY DEF CredentialsInv
<1> QED
  BY <1>1, CredentialsAlways, PTL

-----------------------------------------------------------------------------
(***************************************************************************)
(* A request to trigger a run is about a repository.                       *)
(***************************************************************************)
TriggersRepos ==
  \A q \in Clients : request[q].op = "trigger" => request[q].about \in Repos

CatalogueInv == CatalogueTypeOK /\ TriggersRepos /\ NoDanglingRow

LEMMA CatalogueStart == CatalogueInit => CatalogueInv
  BY DEF CatalogueInit, CatalogueInv, CatalogueTypeOK, TriggersRepos, NoDanglingRow, There,
         NoRequest

\* A check that passed: the request is noted, and nothing else.
LEMMA AskKept ==
  ASSUME CatalogueInv, NEW q \in Clients, NEW op \in Operations,
         NEW about \in Rows \union Slugs, NEW project \in Projects \union {Nothing},
         op = "trigger" => about \in Repos,
         Ask(q, op, about, project)
  PROVE  CatalogueInv'
<1>1. CatalogueTypeOK' /\ TriggersRepos'
  BY DEF Ask, CatalogueInv, CatalogueTypeOK, TriggersRepos
<1>2. NoDanglingRow'
  BY DEF Ask, CatalogueInv, NoDanglingRow, There
<1> QED
  BY <1>1, <1>2 DEF CatalogueInv

\* A request that ends makes no other request a trigger.
LEMMA EndsKept ==
  ASSUME CatalogueTypeOK, TriggersRepos, NEW q \in Clients, NEW op, Ends(q, op)
  PROVE  /\ request' \in [Clients -> [op    : Operations \union {"none"},
                                      about : Rows \union Slugs \union {Nothing},
                                      found : Projects \union {Nothing}]]
         /\ TriggersRepos'
BY DEF Ends, CatalogueTypeOK, TriggersRepos, NoRequest

LEMMA InsertKept ==
  ASSUME CatalogueInv, NEW q \in Clients, NEW op, InsertRow(q, op)
  PROVE  CatalogueInv'
<1> DEFINE row == request[q].about
           p   == request[q].found
<1>1. UNCHANGED <<live, active, building>> /\ TriggersRepos'
  BY EndsKept DEF InsertRow, CatalogueInv
<1>2. CASE row \in Rows /\ ~There(row) /\ p \in live
  <2>1. projectOf' = [projectOf EXCEPT ![row] = p] /\ p \in Projects /\ p # Nothing
    BY <1>2, CatalogueAssumption DEF InsertRow, CatalogueInv, CatalogueTypeOK
  <2> HIDE DEF row, p
  <2>2. /\ projectOf' \in [Rows -> Projects \union {Nothing}]
        /\ projectOf'[row] = p
        /\ \A x \in Rows : x # row => projectOf'[x] = projectOf[x]
    BY <1>2, <2>1 DEF CatalogueInv, CatalogueTypeOK
  <2>3. NoDanglingRow'
    BY <1>1, <1>2, <2>1, <2>2 DEF CatalogueInv, CatalogueTypeOK, NoDanglingRow, There, Rows
  <2> QED
    BY <1>1, <2>2, <2>3, EndsKept DEF InsertRow, CatalogueInv, CatalogueTypeOK
<1>3. CASE ~(row \in Rows /\ ~There(row) /\ p \in live)
  <2>1. projectOf' = projectOf
    BY <1>3 DEF InsertRow, CatalogueInv, CatalogueTypeOK
  <2>2. NoDanglingRow'
    BY <1>1, <2>1 DEF CatalogueInv, NoDanglingRow, There
  <2> QED
    BY <1>1, <2>1, <2>2, EndsKept DEF InsertRow, CatalogueInv, CatalogueTypeOK
<1> QED
  BY <1>2, <1>3

LEMMA DeleteRepoKept ==
  ASSUME CatalogueInv, NEW q \in Clients, DeleteRepo(q)
  PROVE  CatalogueInv'
<1> DEFINE row == request[q].about
<1>1. /\ UNCHANGED <<live, building>> /\ TriggersRepos'
      /\ active' = active \ {row}
      /\ projectOf' = [projectOf EXCEPT ![row] = Nothing]
  BY EndsKept DEF DeleteRepo, RunsAfterDelete, CatalogueInv
<1> HIDE DEF row
<1>2. /\ projectOf' \in [Rows -> Projects \union {Nothing}]
      /\ row \in Rows => projectOf'[row] = Nothing
      /\ \A x \in Rows : x # row => projectOf'[x] = projectOf[x]
  BY <1>1 DEF CatalogueInv, CatalogueTypeOK
<1>3. NoDanglingRow'
  BY <1>1, <1>2 DEF CatalogueInv, CatalogueTypeOK, NoDanglingRow, There, Rows
<1> QED
  BY <1>1, <1>2, <1>3, EndsKept DEF DeleteRepo, CatalogueInv, CatalogueTypeOK

LEMMA CatalogueKept == CatalogueInv /\ [CatalogueNext]_catalogueVars => CatalogueInv'
<1> SUFFICES ASSUME CatalogueInv, [CatalogueNext]_catalogueVars PROVE CatalogueInv'
  OBVIOUS
<1> USE DEF CatalogueInv
<1>1. ASSUME NEW p \in Projects, CreateProject(p) PROVE CatalogueInv'
  BY <1>1 DEF CreateProject, CatalogueTypeOK, TriggersRepos, NoDanglingRow, There
<1>2. ASSUME NEW q \in Clients, RemoveProject(q) PROVE CatalogueInv'
  <2>1. NoDanglingRow'
    BY <1>2 DEF RemoveProject, Deletable, ReferredTo, NoDanglingRow, There
  <2> QED
    BY <1>2, <2>1, EndsKept DEF RemoveProject, CatalogueTypeOK
<1>3. ASSUME NEW q \in Clients, InsertRow(q, "create_repo") \/ InsertRow(q, "create_contribution")
      PROVE  CatalogueInv'
  BY <1>3, InsertKept
<1>4. ASSUME NEW q \in Clients, DeleteRepo(q) PROVE CatalogueInv'
  BY <1>4, DeleteRepoKept
<1>5. ASSUME NEW q \in Clients, Trigger(q) PROVE CatalogueInv'
  <2>1. NoDanglingRow'
    BY <1>5 DEF Trigger, NoDanglingRow, There
  <2>2. active' \subseteq Repos /\ building' \subseteq Repos
    BY <1>5 DEF Trigger, Ends, TriggersRepos, CatalogueTypeOK
  <2> QED
    BY <1>5, <2>1, <2>2, EndsKept DEF Trigger, CatalogueTypeOK
<1>6. ASSUME NEW q \in Clients, UpdateProject(q) PROVE CatalogueInv'
  BY <1>6, EndsKept DEF UpdateProject, CatalogueTypeOK, NoDanglingRow, There
<1>7. ASSUME NEW q \in Clients,
             AskProject(q, "remove_project") \/ AskProject(q, "update_project")
      PROVE  CatalogueInv'
  BY <1>7, AskKept DEF AskProject, Operations, Slugs, CatalogueTypeOK
<1>8. ASSUME NEW q \in Clients,
             AskRow(q, "create_repo", Repos) \/ AskRow(q, "create_contribution", Contributions)
      PROVE  CatalogueInv'
  BY <1>8, AskKept DEF AskRow, Operations, Rows, CatalogueTypeOK
<1>9. ASSUME NEW q \in Clients, AskRepo(q, "delete_repo") \/ AskRepo(q, "trigger")
      PROVE  CatalogueInv'
  BY <1>9, AskKept DEF AskRepo, Operations, Rows, CatalogueTypeOK
<1>10. CASE RunEnds \/ (\E r \in Repos : OrphanEnds(r)) \/ UNCHANGED catalogueVars
  BY <1>10 DEF RunEnds, OrphanEnds, catalogueVars, CatalogueTypeOK, TriggersRepos,
               NoDanglingRow, There
<1> QED
  BY <1>1, <1>2, <1>3, <1>4, <1>5, <1>6, <1>7, <1>8, <1>9, <1>10 DEF CatalogueNext

(***************************************************************************)
(* Nothing refers to what is gone, whatever is deleted between the check   *)
(* of a request and its statement.                                         *)
(***************************************************************************)
THEOREM References == CatalogueSpec => []NoDanglingRow
<1>1. CatalogueInv => NoDanglingRow
  BY DEF CatalogueInv
<1> QED
  BY <1>1, CatalogueStart, CatalogueKept, PTL DEF CatalogueSpec

-----------------------------------------------------------------------------
(***************************************************************************)
(* A request that was carried out is not sent again; a crumb told to a     *)
(* retry is no older than the refusal, since Jenkins only moves on.        *)
(***************************************************************************)
CarriedOut ==
  \A p \in Posts :
    /\ posts[p].at = "idle" => posts[p].tries = 0
    /\ taken[p] = 0 \/ (taken[p] = 1 /\ posts[p].at \in {"accepted", "failed", "done"})

CrumbsGrow ==
  \A p \in Posts :
    /\ lastKnown[p] <= valid
    /\ posts[p].at = "told" /\ Retried(p) => posts[p].told >= lastKnown[p]

CrumbInv == CrumbTypeOK /\ CarriedOut /\ CrumbsGrow /\ RetryIsFresh

LEMMA CrumbStart == CrumbInit => CrumbInv
  BY CrumbAssumption
     DEF CrumbInit, CrumbInv, CrumbTypeOK, CarriedOut, CrumbsGrow, RetryIsFresh, Retried, Post,
         Crumbs, NoCrumb

(***************************************************************************)
(* What a request may become for CrumbInv to hold again, when Jenkins and  *)
(* the other requests stay as they are.                                    *)
(***************************************************************************)
Acceptable(p, r) ==
  /\ r \in Post
  /\ r.at = "idle" => r.tries = 0
  /\ taken[p] # 0 => r.at \in {"accepted", "failed", "done"}
  /\ r.at = "told" /\ r.tries = 2 => r.told >= lastKnown[p]
  /\ r.at = "sent" /\ r.tries = 2 => r.crumb >= lastKnown[p] \/ r.denied

LEMMA PostMoves ==
  ASSUME CrumbInv, NEW p \in Posts, NEW r, Acceptable(p, r),
         posts' = [posts EXCEPT ![p] = r],
         crumb' \in Crumbs, UNCHANGED <<protected, valid, taken, lastKnown>>
  PROVE  CrumbInv'
<1>1. /\ posts' \in [Posts -> Post]
      /\ posts'[p] = r
      /\ \A q \in Posts : q # p => posts'[q] = posts[q]
  BY DEF Acceptable, CrumbInv, CrumbTypeOK
<1> QED
  BY <1>1 DEF Acceptable, CrumbInv, CrumbTypeOK, CarriedOut, CrumbsGrow, RetryIsFresh, Retried

LEMMA CrumbKept == CrumbInv /\ [CrumbNext]_crumbVars => CrumbInv'
<1> SUFFICES ASSUME CrumbInv, [CrumbNext]_crumbVars PROVE CrumbInv'
  OBVIOUS
<1>0. /\ posts \in [Posts -> Post] /\ taken \in [Posts -> 0..2]
      /\ valid \in Crumbs /\ crumb \in Crumbs /\ NoCrumb \in Crumbs
      /\ \A p \in Posts : /\ posts[p].at = "idle" => posts[p].tries = 0
                          /\ taken[p] # 0 => posts[p].at \in {"accepted", "failed", "done"}
                          /\ lastKnown[p] <= valid
                          /\ posts[p].at = "told" /\ posts[p].tries = 2 =>
                               posts[p].told >= lastKnown[p]
                          /\ posts[p].at = "sent" /\ posts[p].tries = 2 =>
                               posts[p].crumb >= lastKnown[p] \/ posts[p].denied
  BY CrumbAssumption
     DEF CrumbInv, CrumbTypeOK, CarriedOut, CrumbsGrow, RetryIsFresh, Retried, Crumbs, NoCrumb
<1>1. ASSUME NEW p \in Posts, StartPost(p) PROVE CrumbInv'
  <2> DEFINE tries  == posts[p].tries + 1
             sent   == [posts[p] EXCEPT !.at = "sent", !.crumb = crumb, !.tries = tries]
             asking == [posts[p] EXCEPT !.at = "asking", !.tries = tries]
  <2>1. posts[p] \in Post /\ tries \in 0..2 /\ tries # 2 /\ taken[p] = 0
    BY <1>0, <1>1 DEF StartPost
  <2>2. /\ posts' = [posts EXCEPT ![p] = IF crumb # NoCrumb THEN sent ELSE asking]
        /\ UNCHANGED <<protected, valid, crumb, taken, lastKnown>>
    BY <1>1 DEF StartPost, EnsureCrumb
  <2> HIDE DEF tries
  <2>3. Acceptable(p, sent) /\ Acceptable(p, asking)
    BY <1>0, <2>1 DEF Acceptable, Post
  <2> QED
    BY <1>0, <2>2, <2>3, PostMoves
<1>2. ASSUME NEW p \in Posts, IssueCrumb(p) PROVE CrumbInv'
  <2> DEFINE r == [posts[p] EXCEPT !.at = "told", !.told = valid]
  <2>1. posts' = [posts EXCEPT ![p] = r] /\ UNCHANGED <<protected, valid, crumb, taken, lastKnown>>
    BY <1>0, <1>2 DEF IssueCrumb
  <2>2. posts[p] \in Post /\ posts[p].at = "asking" /\ taken[p] = 0
    BY <1>0, <1>2 DEF IssueCrumb
  <2>3. Acceptable(p, r)
    BY <1>0, <2>2 DEF Acceptable, Post
  <2> QED
    BY <1>0, <2>1, <2>3, PostMoves
<1>3. ASSUME NEW p \in Posts, TakeCrumb(p) PROVE CrumbInv'
  <2> DEFINE r == [posts[p] EXCEPT !.at = "sent", !.crumb = posts[p].told, !.told = NoCrumb]
  <2>1. /\ posts' = [posts EXCEPT ![p] = r]
        /\ crumb' = posts[p].told /\ UNCHANGED <<protected, valid, taken, lastKnown>>
    BY <1>0, <1>3 DEF TakeCrumb
  <2>2. posts[p] \in Post /\ posts[p].at = "told" /\ taken[p] = 0
    BY <1>0, <1>3 DEF TakeCrumb
  <2>3. Acceptable(p, r) /\ posts[p].told \in Crumbs
    BY <1>0, <2>2 DEF Acceptable, Post
  <2> QED
    BY <1>0, <2>1, <2>3, PostMoves
<1>4. ASSUME NEW p \in Posts, NoCrumbIssued(p) PROVE CrumbInv'
  <2> DEFINE r == [posts[p] EXCEPT !.at = "sent", !.told = NoCrumb, !.denied = TRUE]
  <2>1. posts' = [posts EXCEPT ![p] = r] /\ UNCHANGED <<protected, valid, crumb, taken, lastKnown>>
    BY <1>0, <1>4 DEF NoCrumbIssued
  <2>2. posts[p] \in Post /\ taken[p] = 0
    BY <1>0, <1>4 DEF NoCrumbIssued
  <2>3. Acceptable(p, r)
    BY <1>0, <2>2 DEF Acceptable, Post
  <2> QED
    BY <1>0, <2>1, <2>3, PostMoves
<1>5. ASSUME NEW p \in Posts, Receive(p) PROVE CrumbInv'
  <2>1. PICK at \in {"accepted", "refused", "failed"} :
          /\ posts' = [posts EXCEPT ![p].at = at]
          /\ \/ /\ at # "refused"
                /\ taken' = [taken EXCEPT ![p] = @ + 1]
                /\ UNCHANGED lastKnown
             \/ /\ at # "accepted"
                /\ lastKnown' = [lastKnown EXCEPT ![p] = IF Retried(p) THEN @ ELSE valid]
                /\ UNCHANGED taken
    BY <1>5 DEF Receive
  <2>2. posts[p] \in Post /\ posts[p].at = "sent" /\ taken[p] = 0 /\ UNCHANGED <<protected, valid, crumb>>
    BY <1>0, <1>5 DEF Receive
  <2>3. /\ posts' \in [Posts -> Post]
        /\ posts'[p].at = at /\ posts'[p].tries = posts[p].tries
        /\ \A q \in Posts : q # p => posts'[q] = posts[q]
    BY <1>0, <2>1, <2>2 DEF Post
  <2>4. /\ taken' \in [Posts -> 0..2]
        /\ taken'[p] = 0 \/ (taken'[p] = 1 /\ at # "refused")
        /\ \A q \in Posts : q # p => taken'[q] = taken[q]
    BY <1>0, <2>1, <2>2
  <2>5. /\ lastKnown' \in [Posts -> Crumbs]
        /\ lastKnown'[p] <= valid
        /\ \A q \in Posts : q # p => lastKnown'[q] = lastKnown[q]
    BY <1>0, <2>1, CrumbAssumption DEF CrumbInv, CrumbTypeOK, Crumbs
  <2> QED
    BY <2>1, <2>2, <2>3, <2>4, <2>5
       DEF CrumbInv, CrumbTypeOK, CarriedOut, CrumbsGrow, RetryIsFresh, Retried
<1>6. ASSUME NEW p \in Posts, Unreachable(p) \/ Return(p) PROVE CrumbInv'
  <2>1. PICK at \in {"failed", "done"} : posts' = [posts EXCEPT ![p] = [posts[p] EXCEPT !.at = at]]
    BY <1>0, <1>6 DEF Unreachable, Return
  <2>2. posts[p] \in Post /\ UNCHANGED <<protected, valid, crumb, taken, lastKnown>>
    BY <1>0, <1>6 DEF Unreachable, Return
  <2>3. Acceptable(p, [posts[p] EXCEPT !.at = at])
    BY <1>0, <2>2 DEF Acceptable, Post
  <2> QED
    BY <1>0, <2>1, <2>2, <2>3, PostMoves
<1>7. ASSUME NEW p \in Posts, Retry(p) PROVE CrumbInv'
  <2> DEFINE tries == posts[p].tries + 1
             r     == [posts[p] EXCEPT !.at = "asking", !.tries = tries]
  <2>1. posts[p] \in Post /\ tries \in 0..2 /\ taken[p] = 0
    BY <1>0, <1>7 DEF Retry, Retried, Post
  <2>2. /\ posts' = [posts EXCEPT ![p] = r]
        /\ crumb' = NoCrumb /\ UNCHANGED <<protected, valid, taken, lastKnown>>
    BY <1>7 DEF Retry, EnsureCrumb
  <2> HIDE DEF tries
  <2>3. Acceptable(p, r)
    BY <1>0, <2>1 DEF Acceptable, Post
  <2> QED
    BY <1>0, <2>2, <2>3, PostMoves
<1>8. CASE Rotate
  BY <1>8, CrumbAssumption
     DEF Rotate, CrumbInv, CrumbTypeOK, CarriedOut, CrumbsGrow, RetryIsFresh, Retried, Crumbs,
         NoCrumb
<1>9. CASE UNCHANGED crumbVars
  BY <1>9 DEF crumbVars, CrumbInv, CrumbTypeOK, CarriedOut, CrumbsGrow, RetryIsFresh, Retried
<1> QED
  BY <1>1, <1>2, <1>3, <1>4, <1>5, <1>6, <1>7, <1>8, <1>9 DEF CrumbNext

LEMMA CrumbAlways == CrumbSpec => []CrumbInv
BY CrumbStart, CrumbKept, PTL DEF CrumbSpec

(***************************************************************************)
(* Jenkins carries a request out at most once: post tries again what was   *)
(* refused, never what may have been taken.                                *)
(***************************************************************************)
THEOREM CrumbRetries == CrumbSpec => []TakenOnce
<1>1. CrumbInv => TakenOnce
  BY DEF CrumbInv, CarriedOut, TakenOnce
<1> QED
  BY <1>1, CrumbAlways, PTL

(***************************************************************************)
(* A retry is sent with a crumb no older than the refusal, or the issuer   *)
(* gave none, whatever the other requests did to the client's crumb.       *)
(***************************************************************************)
THEOREM FreshRetries == CrumbSpec => []RetryIsFresh
<1>1. CrumbInv => RetryIsFresh
  BY DEF CrumbInv
<1> QED
  BY <1>1, CrumbAlways, PTL
=============================================================================
