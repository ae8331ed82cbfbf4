------------------------------ MODULE ListPage ------------------------------
(***************************************************************************)
(* The pages that show a list and change it: credentials, repos, repos/id, *)
(* contribute and admin/projects, all built on useAsync.                   *)
(*                                                                         *)
(* A load is a request of useAsync.  Nothing stops the loads before it,    *)
(* and each sets data and loading when its answer arrives.  A form         *)
(* or a delete button sends a request and loads again once it has been     *)
(* answered, with the refetch of the render in which the user clicked: a   *)
(* filter chosen meanwhile is not the one it loads with.                   *)
(* What the rows say is left out, and a row once deleted does not return.  *)
(* So is which project a form has chosen: one that is submitted has one.   *)
(***************************************************************************)
EXTENDS Naturals, FiniteSets, SequencesExt

CONSTANTS
  Entries,      \* the rows the list may have
  Filters,      \* the values of statusFilter; only contribute has more than one
  AllRows,      \* the filter that every page starts with
  Matching,     \* the rows each filter lets through
  MaxLoads      \* bound on the loads on their way at the same time

ASSUME ListPageAssumption ==
  /\ AllRows \in Filters
  /\ Matching \in [Filters -> SUBSET Entries] /\ Matching[AllRows] = Entries
  /\ MaxLoads \in Nat \ {0}

VARIABLES
  page,         \* which page it is
  mounted,      \* whether it is on the screen
  entries,      \* the rows in the database
  used,         \* those that have been there
  data, loading,     \* the state of useAsync; no page reads its error
  loads,        \* the loads on their way; newest is the one asked for last
  current,      \* history: data is the answer to the newest load
  seen,         \* history: of the load whose answer data is, the filter and what it knew
  filter,       \* statusFilter
  form,         \* the form: whether it is open, and sending
  requests,     \* changes the page has asked for
  made, unmade  \* history: rows it was told it has created, and deleted

listPageVars ==
  <<page, mounted, entries, used, data, loading, loads, current, seen,
    filter, form, requests, made, unmade>>

hookVars   == <<data, loading, loads, current, seen>>
serverVars == <<entries, used>>
ownVars    == <<made, unmade>>

Pages    == {"credentials", "repos", "repo", "contribute", "projects"}
Known    == [filter : Filters, made : SUBSET Entries, unmade : SUBSET Entries]
Load     == [filter : Filters, made : SUBSET Entries, unmade : SUBSET Entries,
             answered : BOOLEAN, got : SUBSET Entries, newest : BOOLEAN]
Requests == [op : {"create", "edit", "delete"}, row : Entries, at : {"sent", "ok", "failed"},
             filter : Filters, form : BOOLEAN, gone : SUBSET Entries]

ListPageTypeOK ==
  /\ page \in Pages /\ mounted \in BOOLEAN
  /\ entries \subseteq used /\ used \subseteq Entries
  /\ data \subseteq Entries /\ loading \in BOOLEAN
  /\ loads \in Seq(Load) /\ Len(loads) \in 0..MaxLoads
  /\ current \in BOOLEAN /\ seen \in Known
  /\ filter \in Filters
  /\ form \in [open : BOOLEAN, sending : BOOLEAN]
  /\ requests \subseteq Requests
  /\ made \subseteq Entries /\ unmade \subseteq Entries

Asked(f, m, u) == [filter |-> f, made |-> m, unmade |-> u,
                   answered |-> FALSE, got |-> {}, newest |-> TRUE]
Knew(l)   == [filter |-> l.filter, made |-> l.made, unmade |-> l.unmade]
NoForm    == [open |-> FALSE, sending |-> FALSE]

ListPageInit ==
  /\ page \in Pages /\ mounted = TRUE
  /\ entries \in {e \in SUBSET Entries : Cardinality(e) < 2} /\ used = entries
  /\ data = {} /\ loading = TRUE
  /\ loads = <<Asked(AllRows, {}, {})>> /\ current = FALSE
  /\ seen = [filter |-> AllRows, made |-> {}, unmade |-> {}]
  /\ filter = AllRows
  /\ form = NoForm
  /\ requests = {}
  /\ made = {} /\ unmade = {}

-----------------------------------------------------------------------------
\* run of useAsync, up to its first await, with what the page has been told by then.
StartLoad(f) ==
  /\ Len(loads) < MaxLoads
  /\ loads' = Append([l \in DOMAIN loads |-> [loads[l] EXCEPT !.newest = FALSE]],
                      Asked(f, made', unmade'))
  /\ loading' = TRUE /\ current' = FALSE
  /\ UNCHANGED <<data, seen>>

ApiLists(l) ==
  /\ ~loads[l].answered
  /\ loads' = [loads EXCEPT ![l].answered = TRUE,
                            ![l].got = entries \intersect Matching[loads[l].filter]]
  /\ UNCHANGED <<page, mounted, serverVars, data, loading, current, seen, filter,
                 form, requests, ownVars>>

LoadArrives(l) ==
  /\ loads[l].answered
  /\ loads' = RemoveAt(loads, l)
  /\ data' = loads[l].got /\ loading' = FALSE
  /\ current' = loads[l].newest /\ seen' = Knew(loads[l])
  /\ UNCHANGED <<page, mounted, serverVars, filter, form, requests, ownVars>>

LoadFails(l) ==
  /\ loads' = RemoveAt(loads, l)
  /\ loading' = FALSE
  /\ UNCHANGED <<page, mounted, serverVars, data, current, seen, filter, form, requests,
                 ownVars>>

Displayed == IF loading THEN "spinner" ELSE IF data = {} THEN "empty" ELSE "rows"

\* The rows that have buttons.
Shown == IF Displayed = "rows" THEN data ELSE {}

-----------------------------------------------------------------------------
OpenForm ==
  /\ mounted /\ page # "repo" /\ ~form.open
  /\ form' = [open |-> TRUE, sending |-> FALSE]
  /\ UNCHANGED <<page, mounted, serverVars, hookVars, filter, requests, ownVars>>

\* A request of the form goes on without it.
Orphaned(reqs) == {[q EXCEPT !.form = FALSE] : q \in reqs}

CancelForm ==
  /\ mounted /\ form.open
  /\ form' = NoForm
  /\ requests' = Orphaned(requests)
  /\ UNCHANGED <<page, mounted, serverVars, hookVars, filter, ownVars>>

\* A click: op is asked for row, by the form or by a button outside it.
Send(op, row, byForm) ==
  /\ mounted
  /\ \A q \in requests : q.row # row
  /\ requests' = requests \union {[op |-> op, row |-> row, at |-> "sent",
                                   filter |-> filter, form |-> byForm, gone |-> {}]}
  /\ UNCHANGED <<page, mounted, serverVars, hookVars, filter, ownVars>>

\* submit of a form that is not sending already.
Submit(op, row) ==
  /\ form.open /\ ~form.sending
  /\ form' = [form EXCEPT !.sending = TRUE]
  /\ Send(op, row, TRUE)

New == Entries \ used

AddTokenForm     == page = "credentials" /\ \E r \in New : Submit("create", r)
RegisterRepoForm == page = "repos"       /\ \E r \in New : Submit("create", r)
RegisterPrForm   == page = "contribute"  /\ \E r \in New : Submit("create", r)
ProjectForm      ==
  /\ page = "projects"
  /\ \/ \E r \in New  : Submit("create", r)
     \/ \E r \in data : Submit("edit", r)

CredentialsPage   == page = "credentials" /\ (\E r \in Shown : Send("delete", r, FALSE)) /\ UNCHANGED form
AdminProjectsPage == page = "projects" /\ (\E r \in Shown : Send("delete", r, FALSE)) /\ UNCHANGED form

\* A trigger is refused while another one of the page is on its way.
RepoDetailPage ==
  /\ page = "repo" /\ requests = {}
  /\ \E r \in New : Send("create", r, FALSE)
  /\ UNCHANGED form

\* A filter button: the dependency of useContributions changes.
ContributePage ==
  /\ page = "contribute" /\ mounted
  /\ UNCHANGED <<page, mounted, serverVars, form, requests, ownVars>>
  /\ \E f \in Filters \ {filter} : filter' = f /\ StartLoad(f)

-----------------------------------------------------------------------------
Replace(q, r) == requests' = (requests \ {q}) \union {r}

(***************************************************************************)
(* The API carries a request out, or refuses it; the answer may be lost    *)
(* either way.  A new credential takes the place of those there are.       *)
(***************************************************************************)
ApiChanges(q) ==
  /\ q.at = "sent"
  /\ q.op = "create" => q.row \notin used
  /\ LET gone == CASE q.op = "delete" -> {q.row}
                   [] q.op = "create" /\ page = "credentials" -> entries
                   [] OTHER -> {}
         new  == IF q.op = "create" THEN {q.row} ELSE {}
     IN /\ q.op # "create" => q.row \in entries
        /\ entries' = (entries \ gone) \union new
        /\ used' = used \union new
        /\ \E at \in {"ok", "failed"} : Replace(q, [q EXCEPT !.at = at, !.gone = gone])
  /\ UNCHANGED <<page, mounted, hookVars, filter, form, ownVars>>

ApiRefuses(q) ==
  /\ q.at = "sent"
  /\ Replace(q, [q EXCEPT !.at = "failed"])
  /\ UNCHANGED <<page, mounted, serverVars, hookVars, filter, form, ownVars>>

\* onCreated and onSaved close the form, whichever is open now.
Closes(q) ==
  IF q.op = "delete"
  THEN requests' = requests \ {q} /\ UNCHANGED form
  ELSE requests' = Orphaned(requests \ {q}) /\ form' = NoForm

\* Mistake: the list is not loaded again when the answer comes.
NoRefetch(q) ==
  /\ q.at = "ok" /\ page # "repo"
  /\ Closes(q)
  /\ made' = made \union (IF q.op = "create" THEN {q.row} ELSE {})
  /\ unmade' = unmade \union q.gone
  /\ UNCHANGED <<page, mounted, serverVars, hookVars, filter>>

\* onCreated or onSaved, or the end of a delete button's handler.
Succeeds(q) ==
  /\ q.at = "ok" /\ page # "repo"
  /\ Closes(q)
  /\ made' = made \union (IF q.op = "create" THEN {q.row} ELSE {})
  /\ unmade' = unmade \union q.gone
  /\ StartLoad(q.filter)
  /\ UNCHANGED <<page, mounted, serverVars, filter>>

\* From here on mounted.current is false: no answer is shown any more.
Leave ==
  /\ mounted /\ mounted' = FALSE
  /\ loads' = <<>> /\ requests' = {} /\ data' = {} /\ form' = NoForm
  /\ UNCHANGED <<page, serverVars, loading, current, seen, filter, ownVars>>

\* A run is queued: the browser goes to its page.
Queued(q) ==
  /\ q.at = "ok" /\ page = "repo"
  /\ Leave

\* The error is shown; the form that sent the request can send again.
Fails(q) ==
  /\ q.at = "failed"
  /\ requests' = requests \ {q}
  /\ form' = [form EXCEPT !.sending = @ /\ ~q.form]
  /\ UNCHANGED <<page, mounted, serverVars, hookVars, filter, ownVars>>

\* Someone else, or another tab, adds or deletes a row.
Elsewhere ==
  /\ mounted
  /\ \/ \E r \in New : (\A q \in requests : q.row # r)
                       /\ entries' = entries \union {r} /\ used' = used \union {r}
     \/ \E r \in entries : entries' = entries \ {r} /\ UNCHANGED used
  /\ UNCHANGED <<page, mounted, hookVars, filter, form, requests, ownVars>>

ListPageNext ==
  \/ \E l \in DOMAIN loads : ApiLists(l) \/ LoadArrives(l) \/ LoadFails(l)
  \/ OpenForm \/ CancelForm
  \/ AddTokenForm \/ RegisterRepoForm \/ RegisterPrForm \/ ProjectForm
  \/ CredentialsPage \/ AdminProjectsPage \/ RepoDetailPage \/ ContributePage
  \/ \E q \in requests : ApiChanges(q) \/ ApiRefuses(q) \/ Succeeds(q) \/ Queued(q) \/ Fails(q)
  \/ Elsewhere \/ Leave

ListPageSpec == ListPageInit /\ [][ListPageNext]_listPageVars

-----------------------------------------------------------------------------
AtRest == mounted /\ requests = {} /\ loads = <<>>

\* Rows that show what the page knew when it asked for them.
Reflects(rows, known) ==
  /\ known.made \intersect entries \intersect Matching[known.filter] \subseteq rows
  /\ known.unmade \intersect rows = {}

(***************************************************************************)
(* Whatever load it shows the answer of, an overtaken one included, a page *)
(* shows what it had done by the time it asked: the rows it had created,   *)
(* unless someone has deleted them since or the filter of that load keeps  *)
(* them out, and none that it had deleted or replaced.  At rest it is not  *)
(* loading; and if the load asked for last answered last, what it had done *)
(* by then is all that it has done.  (useAsync orders no answers and a     *)
(* handler refetches with the filter of its own render: after an overtaken *)
(* or a failed load, rows of an earlier time, or of another filter, stay.) *)
(***************************************************************************)
OwnChangesShown ==
  /\ mounted => Reflects(data, seen)
  /\ AtRest => ~loading /\ (current => seen.made = made /\ seen.unmade = unmade)
=============================================================================
