------------------------------- MODULE RunList -------------------------------
(***************************************************************************)
(* The list of a repository's runs, page by page (listForRepo and          *)
(* pagination.ts): the newest first, each page starting behind the cursor  *)
(* that the one before ended with.  Runs are created while a client walks  *)
(* the list, and several may carry the same created_at.                    *)
(***************************************************************************)
EXTENDS Integers, FiniteSets, SequencesExt

CONSTANTS
  Times,              \* values of created_at
  Ids,                \* ulids; among runs of one time, their order is arbitrary
  Limits,             \* values of the query parameter limit
  DEFAULT_PAGE_LIMIT,
  MAX_PAGE_LIMIT

ASSUME RunListAssumption ==
  /\ Times \subseteq Nat /\ Ids \subseteq Nat /\ Limits \subseteq Int
  /\ DEFAULT_PAGE_LIMIT \in 1..MAX_PAGE_LIMIT
  /\ MAX_PAGE_LIMIT \in Nat

VARIABLES
  listed,     \* the runs of the repository
  cursor,     \* where the next page starts: the last run of the one before
  walked,     \* history: the runs the client has been given, in order
  initial     \* history: the runs there were when it asked for the first page

listVars == <<listed, cursor, walked, initial>>

Cursor(t, i) == [createdAt |-> t, id |-> i]
RunRows      == {Cursor(t, i) : t \in Times, i \in Ids}
Start        == Cursor(-1, -1)      \* no cursor given
End          == Cursor(-2, -2)      \* next_cursor is null

RunListTypeOK ==
  /\ listed   \subseteq RunRows
  /\ cursor   \in RunRows \union {Start, End}
  /\ walked   \in Seq(RunRows)
  /\ initial  \subseteq RunRows

RunListInit ==
  /\ listed \in SUBSET RunRows /\ IsFiniteSet(listed)
  /\ \A r, s \in listed : r.id = s.id => r = s
  /\ cursor = Start
  /\ walked = <<>> /\ initial = listed

-----------------------------------------------------------------------------
clampLimit(raw) ==
  IF raw = 0 THEN DEFAULT_PAGE_LIMIT
  ELSE IF raw > MAX_PAGE_LIMIT THEN MAX_PAGE_LIMIT
  ELSE IF raw < 1 THEN 1 ELSE raw

\* Mistake: a run created at the same time as the cursor's is behind it.
BehindTime(r) == cursor = Start \/ r.createdAt < cursor.createdAt

\* The where clause: older than the cursor's run, or as old with a smaller id.
Behind(r) ==
  \/ cursor = Start
  \/ r.createdAt < cursor.createdAt
  \/ r.createdAt = cursor.createdAt /\ r.id < cursor.id

\* orderBy created_at desc, id desc.
Newer(r, s) ==
  r.createdAt > s.createdAt \/ (r.createdAt = s.createdAt /\ r.id > s.id)

Descends(rows) == \A i, j \in DOMAIN rows : i < j => Newer(rows[i], rows[j])

\* findMany, sorted: each of these runs once.
Sorted(runs) == CHOOSE rows \in SetToSeqs(runs) : Descends(rows)

Take(rows, n) == SubSeq(rows, 1, IF Len(rows) < n THEN Len(rows) ELSE n)

listForRepo(limit) ==
  LET take    == clampLimit(limit)
      rows    == Take(Sorted({r \in listed : Behind(r)}), take + 1)
      hasMore == Len(rows) > take
      page    == Take(rows, take)
  IN [items |-> page, next |-> IF hasMore /\ page # <<>> THEN page[Len(page)] ELSE End]

NextPage ==
  /\ cursor # End
  /\ \E limit \in Limits :
       LET answer == listForRepo(limit) IN
       /\ walked'   = walked \o answer.items
       /\ cursor'   = answer.next
  /\ UNCHANGED <<listed, initial>>

\* A run is created; its transaction may commit after that of a newer run.
CreateRun ==
  /\ \E r \in RunRows : (\A s \in listed : r.id # s.id) /\ listed' = listed \union {r}
  /\ UNCHANGED <<cursor, walked, initial>>

RunListNext == NextPage \/ CreateRun

RunListSpec == RunListInit /\ [][RunListNext]_listVars

-----------------------------------------------------------------------------
(***************************************************************************)
(* However many runs are created meanwhile, at whatever time, and whatever *)
(* limits are asked for, a walk to the end gives each run that was there   *)
(* at its start exactly once and no run twice, newest first (the keyset    *)
(* condition, its tie-break by id, and take + 1).                          *)
(***************************************************************************)
WalkComplete ==
  /\ Descends(walked)
  /\ cursor = End => initial \subseteq ToSet(walked)
=============================================================================
