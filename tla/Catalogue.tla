------------------------------ MODULE Catalogue ------------------------------
(***************************************************************************)
(* Projects, the repositories and contributions that refer to them, and    *)
(* the runs of one student: ProjectsController, ReposService,             *)
(* ContributionsService, the insert of triggerRun, and the foreign keys    *)
(* of the schema between their tables.                                     *)
(*                                                                         *)
(* Every service checks first and acts in a later statement; requests of   *)
(* students and administrators run in between.  A project that is created  *)
(* again under the same slug is another row.                               *)
(***************************************************************************)
EXTENDS FiniteSets

CONSTANTS
  Projects,       \* rows of project_definitions that may be created
  SlugOf,         \* the slug of each
  Repos,          \* rows of repositories; each is also the run triggered on it
  Contributions,  \* rows of test_contributions
  Clients,        \* requests that may be in the API at the same time
  Nothing

Slugs == {SlugOf[p] : p \in Projects}

ASSUME CatalogueAssumption ==
  /\ SlugOf \in [Projects -> Slugs]
  /\ Nothing \notin Projects \union Repos \union Contributions \union Slugs

VARIABLES
  live,        \* the projects there are
  projectOf,   \* the project each repository or contribution refers to, if it is there
  active,      \* the repositories whose run is queued or running
  building,    \* the repositories whose run has a Jenkins build going on
  request      \* what each client has asked, and what its first read found

catalogueVars == <<live, projectOf, active, building, request>>

Rows       == Repos \union Contributions
Operations ==
  {"remove_project", "update_project", "create_repo", "create_contribution",
   "delete_repo", "trigger"}
NoRequest  == [op |-> "none", about |-> Nothing, found |-> Nothing]

CatalogueTypeOK ==
  /\ live      \subseteq Projects
  /\ projectOf \in [Rows -> Projects \union {Nothing}]
  /\ active    \subseteq Repos
  /\ building  \subseteq Repos
  /\ request   \in [Clients -> [op    : Operations \union {"none"},
                                about : Rows \union Slugs \union {Nothing},
                                found : Projects \union {Nothing}]]

CatalogueInit ==
  /\ live = {}
  /\ projectOf = [x \in Rows |-> Nothing]
  /\ active = {} /\ building = {}
  /\ request = [q \in Clients |-> NoRequest]

There(x) == projectOf[x] # Nothing

\* The project with a slug; the column is unique.
ProjectWith(slug) == {p \in live : SlugOf[p] = slug}

ReferredTo(p) == \E x \in Rows : projectOf[x] = p

-----------------------------------------------------------------------------
\* The check at the start of an operation; a request that fails it ends there.
Ask(q, op, about, found) ==
  /\ request[q] = NoRequest
  /\ request' = [request EXCEPT ![q] = [op |-> op, about |-> about, found |-> found]]
  /\ UNCHANGED <<live, projectOf, active, building>>

Ends(q, op) ==
  /\ request[q].op = op
  /\ request' = [request EXCEPT ![q] = NoRequest]

AskProject(q, op) ==
  \E p \in live : Ask(q, op, SlugOf[p], p)

(***************************************************************************)
(* The body of create_repo names the project, that of a contribution its   *)
(* slug.  A row is named anew (a ulid) once nobody holds its old name; two *)
(* requests for one row are two that violate a unique key.                 *)
(***************************************************************************)
AskRow(q, op, rows) ==
  \E p \in live, x \in rows :
    /\ ~There(x)
    /\ \A k \in Clients : request[k].about = x => request[k].op = op
    /\ Ask(q, op, x, p)

AskRepo(q, op) ==
  \E r \in Repos : There(r) /\ Ask(q, op, r, projectOf[r])

\* create: one insert, with an id nobody holds; a slug that is taken is P2002.
CreateProject(p) ==
  /\ ProjectWith(SlugOf[p]) = {}
  /\ \A q \in Clients : request[q].found # p
  /\ live' = live \union {p}
  /\ UNCHANGED <<projectOf, active, building, request>>

\* update where slug: whatever row has the slug now, or P2025.
UpdateProject(q) ==
  /\ Ends(q, "update_project")
  /\ UNCHANGED <<live, projectOf, active, building>>

\* Mistake: references are looked for only when the request comes in.
DeleteChecked(p) == TRUE

\* P2003: the schema restricts the deletion of a project that is referred to.
Deletable(p) == ~ReferredTo(p)

\* delete where slug: the row that has the slug now.
RemoveProject(q) ==
  /\ Ends(q, "remove_project")
  /\ live' = live \ {p \in ProjectWith(request[q].about) : Deletable(p)}
  /\ UNCHANGED <<projectOf, active, building>>

\* insert of a repository or a contribution; P2002 and P2003 fail it.
InsertRow(q, op) ==
  /\ Ends(q, op)
  /\ LET r == request[q] IN
       projectOf' = IF ~There(r.about) /\ r.found \in live
                    THEN [projectOf EXCEPT ![r.about] = r.found] ELSE projectOf
  /\ UNCHANGED <<live, active, building>>

\* onDelete: Cascade from Repository to TestRun.
RunsAfterDelete(r) == active \ {r}

\* delete of a repository; its build, if any, goes on.
DeleteRepo(q) ==
  /\ Ends(q, "delete_repo")
  /\ projectOf' = [projectOf EXCEPT ![request[q].about] = Nothing]
  /\ active' = RunsAfterDelete(request[q].about)
  /\ UNCHANGED <<live, building>>

\* The fence and the insert of triggerRun; without the repository it is P2003.
Trigger(q) ==
  /\ Ends(q, "trigger")
  /\ LET r == request[q].about IN
       IF There(r) /\ active = {}
       THEN active' = {r} /\ building' = building \union {r}
       ELSE UNCHANGED <<active, building>>
  /\ UNCHANGED <<live, projectOf>>

\* A run is ended in some way; a build ends, with or without its row.
RunEnds ==
  /\ active # {}
  /\ active' = {} /\ building' = building \ active
  /\ UNCHANGED <<live, projectOf, request>>

OrphanEnds(r) ==
  /\ r \in building \ active
  /\ building' = building \ {r}
  /\ UNCHANGED <<live, projectOf, active, request>>

CatalogueNext ==
  \/ \E p \in Projects : CreateProject(p)
  \/ \E q \in Clients :
       \/ AskProject(q, "remove_project") \/ AskProject(q, "update_project")
       \/ AskRow(q, "create_repo", Repos)
       \/ AskRow(q, "create_contribution", Contributions)
       \/ AskRepo(q, "delete_repo") \/ AskRepo(q, "trigger")
       \/ UpdateProject(q) \/ RemoveProject(q)
       \/ InsertRow(q, "create_repo") \/ InsertRow(q, "create_contribution")
       \/ DeleteRepo(q) \/ Trigger(q)
  \/ RunEnds
  \/ \E r \in Repos : OrphanEnds(r)

CatalogueSpec == CatalogueInit /\ [][CatalogueNext]_catalogueVars

-----------------------------------------------------------------------------
(***************************************************************************)
(* Nothing refers to what is gone: whatever is deleted between the check   *)
(* of a request and its statement, a repository or a contribution has its  *)
(* project, and a run its repository (the foreign keys behind the checks   *)
(* of create, remove and triggerRun).                                      *)
(***************************************************************************)
NoDanglingRow ==
  /\ \A x \in Rows : There(x) => projectOf[x] \in live
  /\ \A r \in active : There(r)
=============================================================================
