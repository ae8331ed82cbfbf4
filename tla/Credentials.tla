----------------------------- MODULE Credentials -----------------------------
(***************************************************************************)
(* The GitHub credentials of one user (CredentialsService).  create        *)
(* replaces what is there in one transaction at READ COMMITTED: findMany,  *)
(* deleteMany, create.  Each statement sees what is committed when it      *)
(* starts; deleteMany waits for rows another transaction is deleting and   *)
(* skips them once they are gone, and it never sees a row that was         *)
(* committed while it waited.                                              *)
(* Credentials are named by the requests that create them.                 *)
(***************************************************************************)
EXTENDS FiniteSets

CONSTANTS
  Creates,      \* POST /me/credentials requests of the user, one each
  Removals,     \* DELETE /me/credentials/:id requests
  Wanted        \* the credential each of them names

ASSUME CredentialsAssumption == Wanted \in [Removals -> Creates]

VARIABLES
  stored,       \* the committed rows
  creating,     \* where each create is
  found,        \* what its findMany returned
  target,       \* what its deleteMany saw when it started
  doomed,       \* the rows it has deleted, not committed yet
  removing,     \* where each removal is
  older         \* history: the creates answered when each create began

credentialVars == <<stored, creating, found, target, doomed, removing, older>>

CreateState  == {"idle", "found", "deleting", "deleted", "committed", "done", "failed"}
RemoveState  == {"idle", "read", "done", "failed"}

CredentialsTypeOK ==
  /\ stored   \subseteq Creates
  /\ creating \in [Creates -> CreateState]
  /\ found    \in [Creates -> SUBSET Creates]
  /\ target   \in [Creates -> SUBSET Creates]
  /\ doomed   \in [Creates -> SUBSET Creates]
  /\ removing \in [Removals -> RemoveState]
  /\ older    \in [Creates -> SUBSET Creates]

CredentialsInit ==
  /\ stored   = {}
  /\ creating = [c \in Creates |-> "idle"]
  /\ found    = [c \in Creates |-> {}]
  /\ target   = [c \in Creates |-> {}]
  /\ doomed   = [c \in Creates |-> {}]
  /\ removing = [d \in Removals |-> "idle"]
  /\ older    = [c \in Creates |-> {}]

Answered  == {c \in Creates : creating[c] = "done"}
Committed == {c \in Creates : creating[c] \in {"committed", "done"}}

Creating(c, from, to) ==
  /\ creating[c] = from
  /\ creating' = [creating EXCEPT ![c] = to]

\* Rows another open transaction has deleted: they are locked.
LockedFor(c) == UNION {doomed[d] : d \in Creates \ {c}}

-----------------------------------------------------------------------------
\* GitHub accepts the token; the transaction starts.
FindExisting(c) ==
  /\ Creating(c, "idle", "found")
  /\ found' = [found EXCEPT ![c] = stored]
  /\ older' = [older EXCEPT ![c] = Answered]
  /\ UNCHANGED <<stored, target, doomed, removing>>

\* Mistake: the first credential found is replaced, not all of them.
OneOf(rows) == IF rows = {} THEN {} ELSE {CHOOSE r \in rows : TRUE}

Replaced(rows) == rows

\* deleteMany starts, if anything was found.
StartDelete(c) ==
  /\ Creating(c, "found", "deleting")
  /\ target' = [target EXCEPT ![c] = IF found[c] = {} THEN {} ELSE Replaced(stored)]
  /\ UNCHANGED <<stored, found, doomed, removing, older>>

\* Mistake: the rows go before the new one is certain.
DeleteAtOnce(c) ==
  /\ Creating(c, "deleting", "deleted")
  /\ target[c] \intersect LockedFor(c) = {}
  /\ stored' = stored \ target[c]
  /\ doomed' = [doomed EXCEPT ![c] = target[c] \intersect stored]
  /\ UNCHANGED <<found, target, removing, older>>

DeleteRows(c) ==
  /\ Creating(c, "deleting", "deleted")
  /\ target[c] \intersect LockedFor(c) = {}
  /\ doomed' = [doomed EXCEPT ![c] = target[c] \intersect stored]
  /\ UNCHANGED <<stored, found, target, removing, older>>

Forget(c) ==
  /\ found'  = [found  EXCEPT ![c] = {}]
  /\ target' = [target EXCEPT ![c] = {}]
  /\ doomed' = [doomed EXCEPT ![c] = {}]
  /\ UNCHANGED <<removing, older>>

\* The new row is inserted and everything is committed.
CommitCreate(c) ==
  /\ Creating(c, "deleted", "committed")
  /\ stored' = (stored \ doomed[c]) \union {c}
  /\ Forget(c)

\* The audit entries, outside the transaction: without them the answer is an error.
AuditCreate(c) ==
  /\ Creating(c, "committed", "done") \/ Creating(c, "committed", "failed")
  /\ UNCHANGED <<stored, found, target, doomed, removing, older>>

\* GitHub rejects the token, a statement throws, the API dies: nothing is kept.
FailCreate(c) ==
  /\ creating[c] \in {"idle", "found", "deleting", "deleted"}
  /\ creating' = [creating EXCEPT ![c] = "failed"]
  /\ UNCHANGED stored
  /\ Forget(c)

-----------------------------------------------------------------------------
\* findUnique: 404 unless the row is there.
FindRemoved(d) ==
  /\ removing[d] = "idle"
  /\ removing' = [removing EXCEPT ![d] = IF Wanted[d] \in stored THEN "read" ELSE "failed"]
  /\ UNCHANGED <<stored, creating, found, target, doomed, older>>

\* The delete waits for a transaction that is deleting the row; P2025 once it is gone.
\* (A removal that is done is answered with an error if its audit entry fails.)
RemoveRow(d) ==
  /\ removing[d] = "read"
  /\ \A c \in Creates : Wanted[d] \notin doomed[c]
  /\ removing' = [removing EXCEPT ![d] = IF Wanted[d] \in stored THEN "done" ELSE "failed"]
  /\ stored' = stored \ {Wanted[d]}
  /\ UNCHANGED <<creating, found, target, doomed, older>>

CredentialsNext ==
  \/ \E c \in Creates :
       \/ FindExisting(c) \/ StartDelete(c) \/ DeleteRows(c)
       \/ CommitCreate(c) \/ AuditCreate(c) \/ FailCreate(c)
  \/ \E d \in Removals : FindRemoved(d) \/ RemoveRow(d)

CredentialsSpec == CredentialsInit /\ [][CredentialsNext]_credentialVars

-----------------------------------------------------------------------------
(***************************************************************************)
(* A credential that was there, answered, when a later create began is     *)
(* gone once that create has committed, however many ran beside each other *)
(* before: the transaction of create replaces all that it can see.  (Two   *)
(* creates that overlap may leave both of their rows, and a create whose   *)
(* audit entry fails has replaced them and is answered with an error.)     *)
(***************************************************************************)
SupersededGone ==
  \A c \in Committed : older[c] \intersect stored = {}

(***************************************************************************)
(* Once a create has committed, the user has a credential to trigger       *)
(* runs with until one is deleted: replacing never passes through nothing, *)
(* and a create that fails half-way takes nothing away.                    *)
(***************************************************************************)
NeverLeftWithout ==
  /\ Committed # {}
  /\ \A d \in Removals : removing[d] # "done"
  => stored # {}
=============================================================================
