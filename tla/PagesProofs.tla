----------------------------- MODULE PagesProofs -----------------------------
(***************************************************************************)
(* Theorems about what the web client shows, for any number of polls,      *)
(* loads, rows and limits: the page of a run, the list of runs, and the    *)
(* pages that show a list and change it.  Then all the parts at once: what *)
(* is proved of each is true of the behaviours of MCParts.                 *)
(***************************************************************************)
EXTENDS MCParts, PartsProofs, SequenceTheorems, FiniteSetTheorems

-----------------------------------------------------------------------------
(***************************************************************************)
(* A status that has ended is the run's last one, wherever it was read;    *)
(* and a page that shows another status has a chain that will ask again:   *)
(* not the first request of a refetch, which a failure ends.               *)
(***************************************************************************)
EndedIsLast ==
  /\ shown \in Ended => shown = runStatus
  /\ \A c \in Chains : polls[c].got \in Ended => polls[c].got = runStatus

GoesOn(c) == polls[c].at \in {"asked", "answered", "timer"} /\ ~polls[c].refetch

AsksAgain == open /\ shown \in {"queued", "running"} => \E c \in Chains : GoesOn(c)

RunPageInv == RunPageTypeOK /\ EndedIsLast /\ AsksAgain

LEMMA RunPageStart == RunPageInit => RunPageInv
BY RunPageAssumption
   DEF RunPageInit, RunPageInv, RunPageTypeOK, EndedIsLast, AsksAgain, Ended, Statuses, PollAt

LEMMA RunPageKept == RunPageInv /\ [RunPageNext]_runPageVars => RunPageInv'
<1> SUFFICES ASSUME RunPageInv, [RunPageNext]_runPageVars PROVE RunPageInv'
  OBVIOUS
<1> USE DEF RunPageInv, RunPageTypeOK, EndedIsLast, AsksAgain, GoesOn, Ended, Statuses, PollAt,
            pageOnly
<1>1. CASE RunMoves
  BY <1>1 DEF RunMoves
<1>2. ASSUME NEW c \in Chains, ApiReads(c) PROVE RunPageInv'
  BY <1>2 DEF ApiReads
<1>3. ASSUME NEW c \in Chains, Arrive(c) PROVE RunPageInv'
  <2> DEFINE status == polls[c].got
  <2>1. /\ polls' \in [Chains -> [at : PollAt, refetch : BOOLEAN, got : Statuses \union {"none"}]]
        /\ polls'[c].got = "none" /\ ~polls'[c].refetch
        /\ polls'[c].at = IF status \in Ended THEN "over" ELSE "timer"
        /\ \A d \in Chains : d # c => polls'[d] = polls[d]
    BY <1>3 DEF Arrive, Scheduled
  <2>2. timer' \in Chains \union {NoChain} /\ UNCHANGED pageOnly
    BY <1>3 DEF Arrive, Scheduled
  <2>3. shown' = (IF open THEN status ELSE shown)
    BY <1>3 DEF Arrive, Shows
  <2>4. status \in Statuses \union {"none"} /\ status \in Ended => status = runStatus
    OBVIOUS
  <2>5. RunPageTypeOK'
    BY <2>1, <2>2, <2>3, <2>4
  <2>6. EndedIsLast'
    BY <2>1, <2>2, <2>3, <2>4
  <2>7. AsksAgain'
    <3> HIDE DEF status
    <3>1. CASE status \in Ended
      <4>1. open /\ shown' \in {"queued", "running"} => FALSE
        BY <2>3, <3>1
      <4> QED
        BY <4>1, <2>2
    <3>2. CASE status \notin Ended
      BY <2>1, <3>2
    <3> QED
      BY <3>1, <3>2
  <2> QED
    BY <2>5, <2>6, <2>7
<1>4. ASSUME NEW c \in Chains, Fail(c) PROVE RunPageInv'
  <2>1. UNCHANGED <<runStatus, open, cancelling, outage, shown>>
    BY <1>4 DEF Fail
  <2>2. CASE polls[c].refetch
    <3>1. polls' = [polls EXCEPT ![c] = [at |-> "over", refetch |-> FALSE, got |-> "none"]]
          /\ UNCHANGED timer
      BY <1>4, <2>2 DEF Fail
    <3>2. \A d \in Chains : GoesOn(d) => GoesOn(d)'
      BY <2>2, <3>1
    <3> QED
      BY <2>1, <3>1, <3>2
  <2>3. CASE ~polls[c].refetch
    <3>1. polls' = [polls EXCEPT ![c] = [at |-> "timer", refetch |-> FALSE, got |-> "none"]]
          /\ timer' = c
      BY <1>4, <2>3 DEF Fail, Scheduled
    <3>2. GoesOn(c)'
      BY <3>1
    <3> QED
      BY <2>1, <3>1, <3>2
  <2> QED
    BY <2>2, <2>3
<1>5. ASSUME NEW c \in Chains, Fire(c) \/ Refetch(c) PROVE RunPageInv'
  BY <1>5 DEF Fire, Refetch
<1>6. CASE Cancel \/ ApiCancels
  BY <1>6 DEF Cancel, ApiCancels
<1>7. CASE Close
  <2>1. polls' \in [Chains -> [at : PollAt, refetch : BOOLEAN, got : Statuses \union {"none"}]]
    BY <1>7 DEF Close
  <2>2. \A c \in Chains : polls'[c].got = polls[c].got
    BY <1>7 DEF Close
  <2>3. /\ open' = FALSE
        /\ UNCHANGED <<runStatus, shown, timer, cancelling, outage>>
    BY <1>7 DEF Close
  <2>4. RunPageTypeOK'
    BY <2>1, <2>3
  <2>5. EndedIsLast'
    BY <2>2, <2>3
  <2>6. AsksAgain'
    BY <2>3
  <2> QED
    BY <2>4, <2>5, <2>6
<1>8. CASE OutageEnds
  BY <1>8 DEF OutageEnds
<1>9. CASE UNCHANGED runPageVars
  BY <1>9 DEF runPageVars
<1> QED
  BY <1>1, <1>2, <1>3, <1>4, <1>5, <1>6, <1>7, <1>8, <1>9 DEF RunPageNext, RunPageProgress

(***************************************************************************)
(* A page that has shown the run and stopped polling shows how it ended,   *)
(* for any number of chains of polls and in whatever order their answers   *)
(* arrive.                                                                 *)
(***************************************************************************)
THEOREM PageSettles == RunPageSpec => []SettledPageIsCurrent
<1>1. RunPageInv => SettledPageIsCurrent
  BY DEF RunPageInv, RunPageTypeOK, EndedIsLast, AsksAgain, GoesOn, SettledPageIsCurrent,
         Following, Statuses
<1> QED
  BY <1>1, RunPageStart, RunPageKept, PTL DEF RunPageSpec

-----------------------------------------------------------------------------
LEMMA RowFields ==
  \A r \in RunRows : /\ r.createdAt \in Nat /\ r.id \in Nat
                     /\ r = Cursor(r.createdAt, r.id)
BY RunListAssumption DEF RunRows, Cursor

(***************************************************************************)
(* Newer is a strict total order of the rows.                              *)
(***************************************************************************)
LEMMA NewerOrders ==
  /\ \A r \in RunRows : ~Newer(r, r)
  /\ \A r, s, t \in RunRows : Newer(r, s) /\ Newer(s, t) => Newer(r, t)
  /\ \A r, s \in RunRows : r = s \/ Newer(r, s) \/ Newer(s, r)
<1>1. \A r \in RunRows : /\ r.createdAt \in Nat /\ r.id \in Nat
                         /\ r = Cursor(r.createdAt, r.id)
  BY RowFields
<1>2. \A r \in RunRows : ~Newer(r, r)
  BY <1>1 DEF Newer
<1>3. \A r, s, t \in RunRows : Newer(r, s) /\ Newer(s, t) => Newer(r, t)
  BY <1>1 DEF Newer
<1>4. \A r, s \in RunRows : r = s \/ Newer(r, s) \/ Newer(s, r)
  <2> SUFFICES ASSUME NEW r \in RunRows, NEW s \in RunRows, ~Newer(r, s), ~Newer(s, r)
               PROVE  r = s
    OBVIOUS
  <2>1. r.createdAt = s.createdAt /\ r.id = s.id
    BY <1>1 DEF Newer
  <2>2. r = Cursor(r.createdAt, r.id) /\ s = Cursor(s.createdAt, s.id)
    BY <1>1
  <2> QED
    BY <2>1, <2>2
<1> QED
  BY <1>2, <1>3, <1>4

(***************************************************************************)
(* Finitely many rows can be put in order: each at the place that counts   *)
(* the rows newer than it.                                                 *)
(***************************************************************************)
LEMMA SortedExists ==
  ASSUME NEW runs \in SUBSET RunRows, IsFiniteSet(runs)
  PROVE  \E rows \in SetToSeqs(runs) : Descends(rows)
<1> DEFINE N        == Cardinality(runs)
           newer(r) == {x \in runs : Newer(x, r)}
           place    == [r \in runs |-> Cardinality(newer(r)) + 1]
<1>1. N \in Nat /\ IsFiniteSet(1..N) /\ Cardinality(1..N) = N
  <2>1. N \in Nat
    BY FS_CardinalityType
  <2> HIDE DEF N
  <2> QED
    BY <2>1, FS_Interval
<1>2. ASSUME NEW r \in runs
      PROVE  /\ IsFiniteSet(newer(r)) /\ Cardinality(newer(r)) \in Nat
             /\ Cardinality(newer(r)) < N
  <2>1. newer(r) \in SUBSET runs /\ newer(r) # runs
    <3>1. r \notin newer(r)
      BY NewerOrders
    <3> QED
      BY <3>1
  <2> HIDE DEF newer
  <2>2. IsFiniteSet(newer(r)) /\ Cardinality(newer(r)) <= N /\ Cardinality(newer(r)) # N
    BY <2>1, FS_Subset
  <2>3. Cardinality(newer(r)) \in Nat
    BY <2>2, FS_CardinalityType
  <2> HIDE DEF N
  <2> QED
    BY <1>1, <2>2, <2>3
<1>3. ASSUME NEW r \in runs, NEW s \in runs, Newer(r, s)
      PROVE  Cardinality(newer(r)) < Cardinality(newer(s))
  <2>1. newer(r) \in SUBSET newer(s) /\ newer(r) # newer(s)
    <3>1. r \in newer(s) /\ r \notin newer(r)
      BY <1>3, NewerOrders
    <3>2. newer(r) \subseteq newer(s)
      BY <1>3, NewerOrders
    <3> QED
      BY <3>1, <3>2
  <2>2. IsFiniteSet(newer(s)) /\ Cardinality(newer(s)) \in Nat /\ Cardinality(newer(r)) \in Nat
    BY <1>2
  <2> HIDE DEF newer
  <2>3. Cardinality(newer(r)) <= Cardinality(newer(s)) /\ Cardinality(newer(r)) # Cardinality(newer(s))
    BY <2>1, <2>2, FS_Subset
  <2> QED
    BY <2>2, <2>3
<1> HIDE DEF N, newer
<1>4. place \in [runs -> 1..N]
  <2>1. \A r \in runs : Cardinality(newer(r)) + 1 \in 1..N
    BY <1>1, <1>2
  <2> QED
    BY <2>1
<1>5. \A r, s \in runs : Newer(r, s) => place[r] < place[s]
  BY <1>2, <1>3
<1> HIDE DEF place
<1>6. place \in Injection(runs, 1..N)
  <2>1. ASSUME NEW r \in runs, NEW s \in runs, place[r] = place[s]
        PROVE  r = s
    <3>1. ~Newer(r, s) /\ ~Newer(s, r)
      <4>1. place[r] \in Nat /\ place[s] \in Nat
        BY <1>1, <1>4
      <4> QED
        BY <1>5, <2>1, <4>1
    <3> QED
      BY <3>1, NewerOrders
  <2> QED
    BY <1>4, <2>1 DEF Injection, IsInjective
<1>7. \A i \in 1..N : \E r \in runs : place[r] = i
  <2>1. place \in Surjection(runs, 1..N)
    <3>1. Cardinality(runs) = Cardinality(1..N)
      BY <1>1 DEF N
    <3> QED
      BY <1>1, <1>6, <3>1, FS_Injection
  <2> QED
    BY <2>1 DEF Surjection
<1> DEFINE rows == [i \in 1..N |-> CHOOSE r \in runs : place[r] = i]
<1>8. \A i \in 1..N : rows[i] \in runs /\ place[rows[i]] = i
  BY <1>7
<1>9. rows \in [1..N -> runs]
  BY <1>8
<1>10. DOMAIN rows = 1..N
  OBVIOUS
<1> HIDE DEF rows
<1>11. rows \in SetToSeqs(runs)
  BY <1>8, <1>9 DEF SetToSeqs, N
<1>12. Descends(rows)
  <2>1. ASSUME NEW i \in 1..N, NEW j \in 1..N, i < j
        PROVE  Newer(rows[i], rows[j])
    <3>1. rows[i] \in runs /\ rows[j] \in runs /\ place[rows[i]] = i /\ place[rows[j]] = j
      BY <1>8
    <3>2. rows[i] # rows[j] /\ ~Newer(rows[j], rows[i])
      BY <1>1, <1>5, <2>1, <3>1
    <3> QED
      BY <3>1, <3>2, NewerOrders
  <2> QED
    BY <1>10, <2>1 DEF Descends
<1> QED
  BY <1>11, <1>12

\* What Sorted returns: each row once, the newest first.
LEMMA SortedProperties ==
  ASSUME NEW runs \in SUBSET RunRows, IsFiniteSet(runs)
  PROVE  /\ Sorted(runs) \in Seq(RunRows) /\ Descends(Sorted(runs))
         /\ \A i \in 1..Len(Sorted(runs)) : Sorted(runs)[i] \in runs
         /\ \A r \in runs : \E i \in 1..Len(Sorted(runs)) : Sorted(runs)[i] = r
<1> DEFINE N == Cardinality(runs)
           rows == Sorted(runs)
<1>1. rows \in SetToSeqs(runs) /\ Descends(rows)
  BY SortedExists DEF Sorted
<1>2. N \in Nat /\ IsFiniteSet(1..N) /\ Cardinality(1..N) = N
  <2>1. N \in Nat
    BY FS_CardinalityType
  <2> HIDE DEF N
  <2> QED
    BY <2>1, FS_Interval
<1> HIDE DEF rows
<1>3. rows \in [1..N -> runs] /\ \A i, j \in 1..N : i # j => rows[i] # rows[j]
  BY <1>1 DEF SetToSeqs
<1>4. rows \in Injection(1..N, runs)
  <2> HIDE DEF N
  <2> QED
    BY <1>3 DEF Injection, IsInjective
<1>5. rows \in Surjection(1..N, runs)
  <2>1. Cardinality(1..N) = Cardinality(runs)
    BY <1>2
  <2> QED
    BY <1>2, <1>4, <2>1, FS_Injection
<1> HIDE DEF N
<1>6. rows \in Seq(RunRows)
  <2>1. rows \in [1..N -> RunRows]
    BY <1>3
  <2> QED
    BY <1>2, <2>1, SeqDef
<1>7. Len(rows) = N
  <2>1. DOMAIN rows = 1..Len(rows) /\ Len(rows) \in Nat
    BY <1>6, LenProperties
  <2>2. DOMAIN rows = 1..N
    BY <1>3
  <2> DEFINE L == Len(rows)
  <2>3. L \in Nat /\ 1..L = 1..N
    BY <2>1, <2>2
  <2> HIDE DEF L
  <2>4. ~(L < N)
    <3>1. L < N => N \in 1..N /\ N \notin 1..L
      BY <1>2, <2>3
    <3> QED
      BY <2>3, <3>1
  <2>5. ~(N < L)
    <3>1. N < L => L \in 1..L /\ L \notin 1..N
      BY <1>2, <2>3
    <3> QED
      BY <2>3, <3>1
  <2>6. L = N
    BY <1>2, <2>3, <2>4, <2>5
  <2> QED
    BY <2>6 DEF L
<1> QED
  BY <1>1, <1>3, <1>5, <1>6, <1>7 DEF Surjection, rows

LEMMA TakeProperties ==
  ASSUME NEW rows \in Seq(RunRows), NEW n \in Nat
  PROVE  /\ Take(rows, n) \in Seq(RunRows)
         /\ Len(Take(rows, n)) = IF Len(rows) < n THEN Len(rows) ELSE n
         /\ \A i \in 1..Len(Take(rows, n)) : Take(rows, n)[i] = rows[i]
<1> DEFINE m == IF Len(rows) < n THEN Len(rows) ELSE n
<1>1. m \in Nat /\ m <= Len(rows) /\ Len(rows) \in Nat
  BY LenProperties
<1>2. \A i \in 1..Len(rows) : rows[i] \in RunRows
  BY ElementOfSeq
<1>3. Take(rows, n) = SubSeq(rows, 1, m)
  BY DEF Take
<1> HIDE DEF m
<1>4. \A i \in 1..m : rows[i] \in RunRows
  BY <1>1, <1>2
<1>5. /\ SubSeq(rows, 1, m) \in Seq(RunRows)
      /\ Len(SubSeq(rows, 1, m)) = IF 1 <= m THEN m - 1 + 1 ELSE 0
      /\ \A i \in 1..(m - 1 + 1) : SubSeq(rows, 1, m)[i] = rows[1 + i - 1]
  BY <1>1, <1>4, SubSeqProperties
<1>6. Len(SubSeq(rows, 1, m)) = m
  BY <1>1, <1>5
<1>7. \A i \in 1..m : SubSeq(rows, 1, m)[i] = rows[i]
  BY <1>1, <1>5
<1> QED
  BY <1>3, <1>5, <1>6, <1>7 DEF m

(***************************************************************************)
(* A page: the first of the runs behind the cursor, in order; and behind   *)
(* its own cursor is every other one, if there is a cursor.                *)
(***************************************************************************)
LEMMA PageProperties ==
  ASSUME RunListTypeOK, IsFiniteSet(listed), NEW limit \in Limits,
         NEW items, items = listForRepo(limit).items,
         NEW next, next = listForRepo(limit).next
  PROVE  /\ items \in Seq(RunRows) /\ Descends(items)
         /\ \A i \in 1..Len(items) : Behind(items[i])
         /\ \/ /\ next = End
               /\ \A r \in listed : Behind(r) => \E i \in 1..Len(items) : items[i] = r
            \/ /\ Len(items) >= 1 /\ next = items[Len(items)]
               /\ \A r \in listed :
                    Behind(r) => Newer(next, r) \/ \E i \in 1..Len(items) : items[i] = r
<1> DEFINE behind == {r \in listed : Behind(r)}
           take   == clampLimit(limit)
           all    == Sorted(behind)
           rows   == Take(all, take + 1)
           given   == Take(rows, take)
<1>1. take \in Nat /\ take >= 1
  BY RunListAssumption DEF clampLimit
<1>2. behind \in SUBSET RunRows /\ IsFiniteSet(behind)
  <2>1. behind \in SUBSET listed
    OBVIOUS
  <2> HIDE DEF behind
  <2> QED
    BY <2>1, FS_Subset DEF RunListTypeOK
<1>3. \A r \in behind : r \in listed /\ Behind(r)
  OBVIOUS
<1>4. \A r \in listed : Behind(r) => r \in behind
  OBVIOUS
<1>5. items = given /\ next = IF Len(rows) > take /\ given # <<>> THEN given[Len(given)] ELSE End
  BY DEF listForRepo
<1> HIDE DEF behind, take
<1>6. /\ all \in Seq(RunRows) /\ Descends(all)
      /\ \A i \in 1..Len(all) : all[i] \in behind
      /\ \A r \in behind : \E i \in 1..Len(all) : all[i] = r
  BY <1>2, SortedProperties
<1>7. Len(all) \in Nat /\ DOMAIN all = 1..Len(all)
  BY <1>6, LenProperties
<1> HIDE DEF all
<1>8. /\ rows \in Seq(RunRows)
      /\ Len(rows) = IF Len(all) < take + 1 THEN Len(all) ELSE take + 1
      /\ \A i \in 1..Len(rows) : rows[i] = all[i]
  BY <1>1, <1>6, TakeProperties
<1> HIDE DEF rows
<1>9. /\ given \in Seq(RunRows)
      /\ Len(given) = IF Len(rows) < take THEN Len(rows) ELSE take
      /\ \A i \in 1..Len(given) : given[i] = rows[i]
  BY <1>1, <1>8, TakeProperties
<1>10. DOMAIN given = 1..Len(given)
  BY <1>9, LenProperties
<1> HIDE DEF given
<1>11. /\ Len(given) = IF Len(all) < take THEN Len(all) ELSE take
       /\ \A i \in 1..Len(given) : given[i] = all[i]
  BY <1>1, <1>7, <1>8, <1>9
<1>11a. /\ Len(all) <= take => Len(rows) = Len(all)
        /\ Len(all) <= take => Len(given) = Len(all)
        /\ Len(all) > take  => Len(rows) = take + 1
        /\ Len(all) > take  => Len(given) = take
  <2>1. Len(rows) = IF Len(all) < take + 1 THEN Len(all) ELSE take + 1
    BY <1>8
  <2>2. Len(given) = IF Len(all) < take THEN Len(all) ELSE take
    BY <1>11
  <2> DEFINE p == Len(given)
             q == Len(rows)
             a == Len(all)
  <2>3. q = (IF a < take + 1 THEN a ELSE take + 1) /\ p = (IF a < take THEN a ELSE take)
        /\ a \in Nat
    BY <2>1, <2>2, <1>7
  <2> HIDE DEF p, q, a
  <2>4. (a <= take => q = a /\ p = a) /\ (a > take => q = take + 1 /\ p = take)
    BY <1>1, <2>3
  <2> QED
    BY <2>4 DEF p, q, a
<1>12. Descends(given)
  BY <1>1, <1>6, <1>7, <1>10, <1>11 DEF Descends
<1>13. \A i \in 1..Len(given) : Behind(given[i])
  BY <1>1, <1>3, <1>6, <1>7, <1>11
<1>14. CASE Len(all) <= take
  <2>1. next = End
    BY <1>1, <1>5, <1>7, <1>8, <1>14
  <2>2. Len(given) = Len(all)
    BY <1>11a, <1>14
  <2>3. \A r \in listed : Behind(r) => \E i \in 1..Len(given) : given[i] = r
    BY <1>4, <1>6, <1>11, <2>2
  <2> QED
    BY <1>5, <1>9, <1>12, <1>13, <2>1, <2>3
<1>15. CASE Len(all) > take
  <2>0. Len(given) = take /\ Len(rows) > take /\ take \in 1..Len(all) /\ take \in 1..Len(given)
    <3>1. Len(given) = take /\ Len(rows) = take + 1
      BY <1>11a, <1>15
    <3> QED
      BY <1>1, <1>7, <1>15, <3>1
  <2>1. Len(given) = take /\ given # <<>>
    <3>1. Len(<<>>) = 0
      OBVIOUS
    <3> QED
      BY <1>1, <2>0, <3>1
  <2>2. next = given[take] /\ given[take] = all[take]
    <3>1. next = given[Len(given)]
      BY <1>5, <2>0, <2>1
    <3> QED
      BY <1>11, <2>0, <3>1
  <2>3. ASSUME NEW r \in listed, Behind(r)
        PROVE  Newer(next, r) \/ \E i \in 1..Len(given) : given[i] = r
    <3>1. PICK i \in 1..Len(all) : all[i] = r
      BY <1>4, <1>6, <2>3
    <3>2. CASE i <= take
      <4>1. i \in 1..Len(given)
        BY <1>1, <1>7, <2>0, <3>2
      <4> QED
        BY <1>11, <3>1, <4>1
    <3>3. CASE i > take
      BY <1>1, <1>6, <1>7, <1>15, <2>2, <3>1, <3>3 DEF Descends
    <3> QED
      BY <1>1, <1>7, <3>2, <3>3
  <2> QED
    BY <1>1, <1>5, <1>9, <1>12, <1>13, <2>1, <2>2, <2>3
<1> QED
  BY <1>1, <1>7, <1>14, <1>15

-----------------------------------------------------------------------------
Given(r) == \E i \in 1..Len(walked) : walked[i] = r

(***************************************************************************)
(* The cursor is the last run given; each run that was there at the start  *)
(* of the walk has been given or is behind the cursor.                     *)
(***************************************************************************)
WalkInv ==
  /\ RunListTypeOK
  /\ IsFiniteSet(listed) /\ initial \subseteq listed
  /\ Descends(walked)
  /\ cursor = Start => walked = <<>>
  /\ cursor \in RunRows => Len(walked) >= 1 /\ cursor = walked[Len(walked)]
  /\ \A r \in initial : cursor = Start \/ Given(r) \/ (cursor \in RunRows /\ Newer(cursor, r))

LEMMA CursorsDiffer ==
  Start \notin RunRows /\ End \notin RunRows /\ Start # End
<1>1. Start.id = -1 /\ End.id = -2
  BY DEF Start, End, Cursor
<1>2. -1 \notin Nat /\ -2 \notin Nat /\ -1 # -2
  OBVIOUS
<1> QED
  BY <1>1, <1>2, RowFields

LEMMA BehindIsOlder ==
  ASSUME NEW r \in RunRows, cursor \in RunRows
  PROVE  Behind(r) <=> Newer(cursor, r)
<1>1. /\ r.createdAt \in Nat /\ r.id \in Nat
      /\ cursor.createdAt \in Nat /\ cursor.id \in Nat
  BY RowFields
<1> QED
  BY <1>1, CursorsDiffer DEF Behind, Newer

LEMMA WalkStart == RunListInit => WalkInv
<1> SUFFICES ASSUME RunListInit PROVE WalkInv
  OBVIOUS
<1>1. walked \in Seq(RunRows) /\ DOMAIN walked = {} /\ walked = <<>>
  BY DEF RunListInit
<1>2. RunListTypeOK
  BY <1>1 DEF RunListInit, RunListTypeOK
<1> QED
  BY <1>1, <1>2, CursorsDiffer DEF RunListInit, WalkInv, Descends

LEMMA NextPageKeeps == WalkInv /\ NextPage => WalkInv'
<1> SUFFICES ASSUME WalkInv, NextPage PROVE WalkInv'
  OBVIOUS
<1>1. PICK limit \in Limits : /\ walked' = walked \o listForRepo(limit).items
                             /\ cursor' = listForRepo(limit).next
  BY DEF NextPage
<1> DEFINE items == listForRepo(limit).items
           next  == listForRepo(limit).next
<1>2. cursor # End /\ UNCHANGED <<listed, initial>>
  BY DEF NextPage
<1>3. /\ items \in Seq(RunRows) /\ Descends(items)
      /\ \A i \in 1..Len(items) : Behind(items[i])
      /\ \/ /\ next = End
            /\ \A r \in listed : Behind(r) => \E i \in 1..Len(items) : items[i] = r
         \/ /\ Len(items) >= 1 /\ next = items[Len(items)]
            /\ \A r \in listed :
                 Behind(r) => Newer(next, r) \/ \E i \in 1..Len(items) : items[i] = r
  <2> HIDE DEF items, next
  <2> QED
    BY PageProperties DEF WalkInv, items, next
<1> HIDE DEF items, next
<1>4. walked' = walked \o items /\ cursor' = next
  BY <1>1 DEF items, next
<1>5. /\ walked \in Seq(RunRows) /\ Len(walked) \in Nat /\ Len(items) \in Nat
      /\ DOMAIN walked = 1..Len(walked) /\ DOMAIN items = 1..Len(items)
      /\ \A i \in 1..Len(walked) : walked[i] \in RunRows
      /\ \A i \in 1..Len(items) : items[i] \in RunRows
  BY <1>3, LenProperties, ElementOfSeq DEF WalkInv, RunListTypeOK
<1>6. /\ walked' \in Seq(RunRows) /\ Len(walked') = Len(walked) + Len(items)
      /\ \A i \in 1..(Len(walked) + Len(items)) :
           walked'[i] = IF i <= Len(walked) THEN walked[i] ELSE items[i - Len(walked)]
  BY <1>3, <1>4, <1>5, ConcatProperties
<1>7. DOMAIN walked' = 1..(Len(walked) + Len(items))
  BY <1>6, LenProperties
<1>8. cursor' \in RunRows \union {End}
  BY <1>3, <1>4, <1>5
<1>9. RunListTypeOK'
  BY <1>2, <1>6, <1>8 DEF WalkInv, RunListTypeOK
<1>10. /\ \A i \in 1..Len(walked) : walked'[i] = walked[i]
       /\ \A i \in 1..Len(items) : walked'[Len(walked) + i] = items[i]
  BY <1>5, <1>6
<1>11. \A r : Given(r) \/ (\E i \in 1..Len(items) : items[i] = r) => Given(r)'
  <2>1. ASSUME NEW r, NEW i \in 1..Len(walked), walked[i] = r PROVE Given(r)'
    <3>1. i \in 1..Len(walked') /\ walked'[i] = r
      BY <1>5, <1>6, <1>10, <2>1
    <3> QED
      BY <3>1 DEF Given
  <2>2. ASSUME NEW r, NEW i \in 1..Len(items), items[i] = r PROVE Given(r)'
    <3>1. Len(walked) + i \in 1..Len(walked') /\ walked'[Len(walked) + i] = r
      BY <1>5, <1>6, <1>10, <2>2
    <3> QED
      BY <3>1 DEF Given
  <2> QED
    BY <2>1, <2>2 DEF Given
<1>12. ASSUME NEW i \in 1..Len(walked), NEW j \in 1..Len(items)
       PROVE  Newer(walked[i], items[j])
  <2>1. cursor \in RunRows
    BY <1>2, <1>5 DEF WalkInv, RunListTypeOK
  <2>2. Newer(cursor, items[j])
    BY <1>3, <1>5, <2>1, BehindIsOlder
  <2>3. walked[i] = cursor \/ Newer(walked[i], cursor)
    BY <1>5, <2>1 DEF WalkInv, Descends
  <2> QED
    BY <1>5, <2>1, <2>2, <2>3, NewerOrders
<1>13. Descends(walked')
  <2>1. ASSUME NEW i \in 1..(Len(walked) + Len(items)), NEW j \in 1..(Len(walked) + Len(items)),
               i < j
        PROVE  Newer(walked'[i], walked'[j])
    <3>1. CASE j <= Len(walked)
      BY <1>5, <1>6, <2>1, <3>1 DEF WalkInv, Descends
    <3>2. CASE i <= Len(walked) /\ j > Len(walked)
      <4>1. walked'[i] = walked[i] /\ walked'[j] = items[j - Len(walked)]
            /\ i \in 1..Len(walked) /\ j - Len(walked) \in 1..Len(items)
        BY <1>5, <1>6, <3>2
      <4> QED
        BY <1>12, <4>1
    <3>3. CASE i > Len(walked)
      <4>1. /\ walked'[i] = items[i - Len(walked)] /\ walked'[j] = items[j - Len(walked)]
            /\ i - Len(walked) \in 1..Len(items) /\ j - Len(walked) \in 1..Len(items)
            /\ i - Len(walked) < j - Len(walked)
        BY <1>5, <1>6, <2>1, <3>3
      <4> QED
        BY <1>3, <1>5, <4>1 DEF Descends
    <3> QED
      BY <1>5, <3>1, <3>2, <3>3
  <2> QED
    BY <1>7, <2>1 DEF Descends
<1>14. cursor' # Start
  BY <1>8, CursorsDiffer
<1>15. cursor' \in RunRows => Len(walked') >= 1 /\ cursor' = walked'[Len(walked')]
  <2> SUFFICES ASSUME cursor' \in RunRows
               PROVE  Len(walked') >= 1 /\ cursor' = walked'[Len(walked')]
    OBVIOUS
  <2>1. Len(items) >= 1 /\ next = items[Len(items)]
    BY <1>3, <1>4, CursorsDiffer
  <2>2. Len(items) \in 1..Len(items)
    BY <1>5, <2>1
  <2>3. walked'[Len(walked) + Len(items)] = items[Len(items)]
    BY <1>10, <2>2
  <2> QED
    BY <1>4, <1>5, <1>6, <2>1, <2>3
<1>16. ASSUME NEW r \in initial
       PROVE  Given(r)' \/ (cursor' \in RunRows /\ Newer(cursor', r))
  <2>1. r \in listed /\ r \in RunRows
    BY DEF WalkInv, RunListTypeOK
  <2>2. Given(r) \/ Behind(r)
    <3>1. cursor = Start \/ Given(r) \/ (cursor \in RunRows /\ Newer(cursor, r))
      BY DEF WalkInv
    <3> QED
      BY <2>1, <3>1, BehindIsOlder DEF Behind
  <2>3. CASE Given(r)
    BY <1>11, <2>3
  <2>4. CASE Behind(r)
    <3>1. CASE \E i \in 1..Len(items) : items[i] = r
      BY <1>11, <3>1
    <3>2. CASE ~\E i \in 1..Len(items) : items[i] = r
      <4>1. Newer(next, r) /\ Len(items) >= 1 /\ next = items[Len(items)]
        BY <1>3, <2>1, <2>4, <3>2
      <4>2. next \in RunRows
        BY <1>5, <4>1
      <4> QED
        BY <1>4, <4>1, <4>2
    <3> QED
      BY <3>1, <3>2
  <2> QED
    BY <2>2, <2>3, <2>4
<1> QED
  BY <1>2, <1>9, <1>13, <1>14, <1>15, <1>16 DEF WalkInv

LEMMA WalkKept == WalkInv /\ [RunListNext]_listVars => WalkInv'
<1> SUFFICES ASSUME WalkInv, [RunListNext]_listVars PROVE WalkInv'
  OBVIOUS
<1>1. CASE NextPage
  BY <1>1, NextPageKeeps
<1>2. CASE CreateRun
  <2>1. PICK r \in RunRows : listed' = listed \union {r}
    BY <1>2 DEF CreateRun
  <2>2. UNCHANGED <<cursor, walked, initial>>
    BY <1>2 DEF CreateRun
  <2>3. IsFiniteSet(listed')
    BY <2>1, FS_AddElement DEF WalkInv
  <2>4. RunListTypeOK'
    BY <2>1, <2>2 DEF WalkInv, RunListTypeOK
  <2> QED
    BY <2>1, <2>2, <2>3, <2>4 DEF WalkInv, Given, Descends
<1>3. CASE UNCHANGED listVars
  BY <1>3 DEF listVars, WalkInv, RunListTypeOK, Given, Descends
<1> QED
  BY <1>1, <1>2, <1>3 DEF RunListNext

(***************************************************************************)
(* A walk to the end gives each run that was there at its start exactly    *)
(* once and no run twice, the newest first; for any number of runs, of any *)
(* times, and any limits asked for.                                        *)
(***************************************************************************)
THEOREM WalkGivesAll == RunListSpec => []WalkComplete
<1>1. WalkInv => WalkComplete
  <2> SUFFICES ASSUME WalkInv, cursor = End PROVE initial \subseteq ToSet(walked)
    BY DEF WalkInv, WalkComplete
  <2>1. \A r \in initial : Given(r)
    BY CursorsDiffer DEF WalkInv
  <2>2. DOMAIN walked = 1..Len(walked)
    BY LenProperties DEF WalkInv, RunListTypeOK
  <2> QED
    BY <2>1, <2>2 DEF Given, ToSet
<1> QED
  BY <1>1, WalkStart, WalkKept, PTL DEF RunListSpec

-----------------------------------------------------------------------------
(***************************************************************************)
(* A sequence without its element at i: those before it keep their place,  *)
(* those behind it move up by one.                                         *)
(***************************************************************************)
LEMMA RemoveAtProperties ==
  ASSUME NEW S, NEW s \in Seq(S), NEW i \in 1..Len(s)
  PROVE  /\ RemoveAt(s, i) \in Seq(S)
         /\ Len(RemoveAt(s, i)) = Len(s) - 1
         /\ \A j \in 1..(Len(s) - 1) : RemoveAt(s, i)[j] = s[IF j < i THEN j ELSE j + 1]
<1> DEFINE before == SubSeq(s, 1, i - 1)
           after  == SubSeq(s, i + 1, Len(s))
<1>1. Len(s) \in Nat /\ \A j \in 1..Len(s) : s[j] \in S
  BY ElementOfSeq, LenProperties
<1>2. /\ before \in Seq(S) /\ Len(before) = i - 1
      /\ \A j \in 1..(i - 1) : before[j] = s[j]
  <2>1. \A j \in 1..(i - 1) : s[j] \in S
    BY <1>1
  <2> QED
    BY <1>1, <2>1, SubSeqProperties
<1>3. /\ after \in Seq(S) /\ Len(after) = Len(s) - i
      /\ \A j \in 1..(Len(s) - i) : after[j] = s[i + j]
  <2>1. \A j \in (i + 1)..Len(s) : s[j] \in S
    BY <1>1
  <2>2. /\ after \in Seq(S)
        /\ Len(after) = IF i + 1 <= Len(s) THEN Len(s) - (i + 1) + 1 ELSE 0
        /\ \A j \in 1..(Len(s) - (i + 1) + 1) : after[j] = s[(i + 1) + j - 1]
    <3> HIDE DEF after
    <3> QED
      BY <1>1, <2>1, SubSeqProperties DEF after
  <2> HIDE DEF after
  <2> QED
    BY <1>1, <2>2
<1> HIDE DEF before, after
<1>4. RemoveAt(s, i) = before \o after
  BY DEF RemoveAt, before, after
<1>5. /\ before \o after \in Seq(S)
      /\ Len(before \o after) = Len(before) + Len(after)
      /\ \A j \in 1..(Len(before) + Len(after)) :
           (before \o after)[j] =
             IF j <= Len(before) THEN before[j] ELSE after[j - Len(before)]
  BY <1>2, <1>3, ConcatProperties
<1> QED
  <2> DEFINE r == before \o after
  <2>1. r \in Seq(S) /\ Len(r) = Len(s) - 1
    BY <1>1, <1>2, <1>3, <1>5
  <2>2. ASSUME NEW j \in 1..(Len(s) - 1)
        PROVE  r[j] = s[IF j < i THEN j ELSE j + 1]
    <3>1. r[j] = IF j <= i - 1 THEN before[j] ELSE after[j - (i - 1)]
      BY <1>1, <1>2, <1>3, <1>5
    <3> HIDE DEF r
    <3>2. CASE j < i
      BY <3>1, <3>2, <1>2, <1>1
    <3>3. CASE ~(j < i)
      <4>1. j - (i - 1) \in 1..(Len(s) - i) /\ i + (j - (i - 1)) = j + 1
        BY <3>3, <1>1
      <4>2. after[j - (i - 1)] = s[i + (j - (i - 1))]
        BY <4>1, <1>3
      <4> QED
        BY <3>1, <3>3, <4>1, <4>2, <1>1
    <3> QED
      BY <3>2, <3>3
  <2> QED
    BY <1>4, <2>1, <2>2

-----------------------------------------------------------------------------
(***************************************************************************)
(* The loads are as many as allowed, and each is a load.                   *)
(***************************************************************************)
LoadsTyped == loads \in Seq(Load) /\ Len(loads) \in 0..MaxLoads

\* A new load: those before it stay as they are, and are no longer the newest.
LEMMA LoadStarted ==
  ASSUME LoadsTyped, NEW f \in Filters, StartLoad(f),
         made' \subseteq Entries, unmade' \subseteq Entries
  PROVE  /\ LoadsTyped' /\ Len(loads') = Len(loads) + 1
         /\ DOMAIN loads' = 1..(Len(loads) + 1) /\ DOMAIN loads = 1..Len(loads)
         /\ loads'[Len(loads')] = Asked(f, made', unmade')
         /\ \A l \in DOMAIN loads : /\ ~loads'[l].newest
                                    /\ Knew(loads'[l]) = Knew(loads[l])
                                    /\ loads'[l].answered = loads[l].answered
                                    /\ loads'[l].got = loads[l].got
         /\ loading' = TRUE /\ current' = FALSE /\ UNCHANGED <<data, seen>>
<1> DEFINE before == [l \in DOMAIN loads |-> [loads[l] EXCEPT !.newest = FALSE]]
<1>1. /\ Len(loads) \in Nat /\ Len(loads) < MaxLoads /\ MaxLoads \in Nat
      /\ DOMAIN loads = 1..Len(loads)
  BY ListPageAssumption, LenProperties DEF LoadsTyped, StartLoad
<1>2. before \in [1..Len(loads) -> Load]
  <2>1. \A l \in 1..Len(loads) : loads[l] \in Load
    BY <1>1, ElementOfSeq DEF LoadsTyped
  <2> QED
    BY <1>1, <2>1 DEF Load
<1>3. \A l \in 1..Len(loads) : /\ ~before[l].newest
                               /\ Knew(before[l]) = Knew(loads[l])
                               /\ before[l].answered = loads[l].answered
                               /\ before[l].got = loads[l].got
  <2>1. \A l \in 1..Len(loads) : loads[l] \in Load
    BY <1>1, ElementOfSeq DEF LoadsTyped
  <2> QED
    BY <1>1, <2>1 DEF Load, Knew
<1>4. Asked(f, made', unmade') \in Load
  BY DEF Asked, Load
<1>5. before \in Seq(Load) /\ Len(before) = Len(loads)
  <2>1. before \in Seq(Load)
    BY <1>1, <1>2, SeqDef
  <2> QED
    BY <1>1, <1>2, <2>1, LenProperties
<1>6. loads' = Append(before, Asked(f, made', unmade'))
  BY DEF StartLoad
<1> HIDE DEF before
<1>7. /\ loads' \in Seq(Load) /\ Len(loads') = Len(loads) + 1
      /\ \A l \in 1..Len(loads) : loads'[l] = before[l]
      /\ loads'[Len(loads) + 1] = Asked(f, made', unmade')
  BY <1>1, <1>4, <1>5, <1>6, AppendProperties
<1>8. DOMAIN loads' = 1..(Len(loads) + 1)
  BY <1>7, LenProperties
<1> QED
  BY <1>1, <1>3, <1>7, <1>8 DEF LoadsTyped, StartLoad

\* A load that has arrived or failed: the others move up.
LEMMA LoadOver ==
  ASSUME LoadsTyped, NEW l \in DOMAIN loads, loads' = RemoveAt(loads, l)
  PROVE  /\ LoadsTyped'
         /\ DOMAIN loads' = 1..(Len(loads) - 1) /\ DOMAIN loads = 1..Len(loads)
         /\ Len(loads) \in Nat
         /\ \A j \in DOMAIN loads' : loads'[j] = loads[IF j < l THEN j ELSE j + 1]
<1>1. DOMAIN loads = 1..Len(loads) /\ Len(loads) \in Nat /\ MaxLoads \in Nat
  BY LenProperties, ListPageAssumption DEF LoadsTyped
<1>2. /\ loads' \in Seq(Load) /\ Len(loads') = Len(loads) - 1
      /\ \A j \in 1..(Len(loads) - 1) : loads'[j] = loads[IF j < l THEN j ELSE j + 1]
  BY <1>1, RemoveAtProperties DEF LoadsTyped
<1>3. DOMAIN loads' = 1..(Len(loads) - 1)
  BY <1>1, <1>2, LenProperties
<1> QED
  BY <1>1, <1>2, <1>3 DEF LoadsTyped

\* A load that the API answers: what it finds, where it was.
LEMMA LoadAnswered ==
  ASSUME LoadsTyped, NEW l \in DOMAIN loads, ApiLists(l), entries \subseteq Entries
  PROVE  /\ LoadsTyped'
         /\ DOMAIN loads' = DOMAIN loads /\ DOMAIN loads = 1..Len(loads)
         /\ \A j \in DOMAIN loads : loads'[j].newest = loads[j].newest
         /\ \A j \in DOMAIN loads \ {l} : loads'[j] = loads[j]
         /\ Knew(loads'[l]) = Knew(loads[l])
         /\ loads'[l].got = entries \intersect Matching[loads[l].filter]
<1>1. DOMAIN loads = 1..Len(loads) /\ Len(loads) \in Nat
  BY LenProperties DEF LoadsTyped
<1>2. \A j \in DOMAIN loads : loads[j] \in Load
  BY <1>1, ElementOfSeq DEF LoadsTyped
<1> DEFINE answer == [loads[l] EXCEPT !.answered = TRUE,
                        !.got = entries \intersect Matching[loads[l].filter]]
<1>3. loads' = [loads EXCEPT ![l] = answer]
  BY DEF ApiLists
<1>4. /\ answer \in Load
      /\ answer.newest = loads[l].newest /\ Knew(answer) = Knew(loads[l])
      /\ answer.answered /\ answer.got = entries \intersect Matching[loads[l].filter]
  BY <1>2 DEF Load, Knew
<1> HIDE DEF answer
<1>5. /\ loads' \in Seq(Load) /\ Len(loads') = Len(loads)
      /\ \A j \in 1..Len(loads) : loads'[j] = IF j = l THEN answer ELSE loads[j]
  BY <1>1, <1>3, <1>4, ExceptSeq DEF LoadsTyped
<1>6. DOMAIN loads' = DOMAIN loads
  BY <1>3
<1>7. \A j \in DOMAIN loads \ {l} : loads'[j] = loads[j]
  BY <1>1, <1>5
<1>8. loads'[l] = answer
  BY <1>1, <1>5
<1>9. \A j \in DOMAIN loads : loads'[j].newest = loads[j].newest
  BY <1>4, <1>7, <1>8
<1> QED
  BY <1>1, <1>4, <1>5, <1>6, <1>7, <1>8, <1>9 DEF LoadsTyped

-----------------------------------------------------------------------------
FormType == [open : BOOLEAN, sending : BOOLEAN]

\* A request of the next state that has changed nothing, or that was there before.
Carried(q) ==
  \/ q.at # "ok" /\ q.gone = {}
  \/ \E p \in requests :
       q.op = p.op /\ q.row = p.row /\ q.gone = p.gone /\ (q.at = "ok" => p.at = "ok")

\* What the form and the buttons do: they change themselves, and ask.
FormMoves ==
  /\ UNCHANGED <<page, mounted, serverVars, hookVars, filter, ownVars>>
  /\ form' \in FormType
  /\ requests' \subseteq Requests
  /\ \A q \in requests' : Carried(q)

LEMMA OrphanedTyped ==
  ASSUME requests \subseteq Requests, NEW R \in SUBSET requests
  PROVE  /\ Orphaned(R) \subseteq Requests
         /\ \A q \in Orphaned(R) : Carried(q)
<1> SUFFICES ASSUME NEW p \in R PROVE [p EXCEPT !.form = FALSE] \in Requests /\ Carried([p EXCEPT !.form = FALSE])
  BY DEF Orphaned
<1>1. p \in requests /\ p \in Requests
  OBVIOUS
<1>2. [p EXCEPT !.form = FALSE] \in Requests
  BY <1>1 DEF Requests
<1>3. /\ [p EXCEPT !.form = FALSE].op = p.op /\ [p EXCEPT !.form = FALSE].row = p.row
      /\ [p EXCEPT !.form = FALSE].gone = p.gone /\ [p EXCEPT !.form = FALSE].at = p.at
  BY <1>1 DEF Requests
<1> QED
  BY <1>1, <1>2, <1>3 DEF Carried

LEMMA SendMoves ==
  ASSUME ListPageTypeOK, NEW row \in Entries, NEW op \in {"create", "edit", "delete"},
         NEW byForm \in BOOLEAN, Send(op, row, byForm), form' \in FormType
  PROVE  FormMoves
<1> DEFINE new == [op |-> op, row |-> row, at |-> "sent", filter |-> filter, form |-> byForm,
                   gone |-> {}]
<1>1. requests' = requests \union {new} /\ new \in Requests /\ Carried(new)
  BY DEF Send, ListPageTypeOK, Requests, Carried
<1>2. \A q \in requests : Carried(q)
  BY DEF Carried
<1>3. UNCHANGED <<page, mounted, serverVars, hookVars, filter, ownVars>>
  BY DEF Send
<1> HIDE DEF new
<1> QED
  BY <1>1, <1>2, <1>3 DEF FormMoves, ListPageTypeOK

LEMMA SubmitMoves ==
  ASSUME ListPageTypeOK, NEW row \in Entries, NEW op \in {"create", "edit", "delete"},
         Submit(op, row)
  PROVE  FormMoves
<1>1. form' \in FormType
  BY DEF Submit, ListPageTypeOK, FormType
<1> QED
  BY <1>1, SendMoves DEF Submit

\* The actions of the form and of the buttons.
FormActs ==
  \/ OpenForm \/ CancelForm
  \/ AddTokenForm \/ RegisterRepoForm \/ RegisterPrForm \/ ProjectForm
  \/ CredentialsPage \/ AdminProjectsPage \/ RepoDetailPage
  \/ \E q \in requests : ApiRefuses(q) \/ Fails(q)

LEMMA FormActsMove == ListPageTypeOK /\ FormActs => FormMoves
<1> SUFFICES ASSUME ListPageTypeOK, FormActs PROVE FormMoves
  OBVIOUS
<1>1. /\ form \in FormType /\ requests \subseteq Requests
      /\ data \subseteq Entries /\ New \subseteq Entries
      /\ Shown \subseteq Entries /\ filter \in Filters
  BY ListPageAssumption DEF ListPageTypeOK, FormType, New, Shown
<1>2. \A q \in requests : Carried(q)
  BY DEF Carried
<1>3. CASE OpenForm
  BY <1>1, <1>2, <1>3 DEF OpenForm, FormMoves, FormType
<1>4. CASE CancelForm
  <2>1. /\ form' = NoForm /\ requests' = Orphaned(requests)
        /\ UNCHANGED <<page, mounted, serverVars, hookVars, filter, ownVars>>
    BY <1>4 DEF CancelForm
  <2>2. requests' \subseteq Requests /\ \A q \in requests' : Carried(q)
    BY <1>1, <2>1, OrphanedTyped
  <2>3. form' \in FormType
    BY <2>1 DEF NoForm, FormType
  <2> QED
    BY <2>1, <2>2, <2>3 DEF FormMoves
<1>5. CASE AddTokenForm \/ RegisterRepoForm \/ RegisterPrForm \/ ProjectForm
  <2>1. PICK r \in Entries, op \in {"create", "edit"} : Submit(op, r)
    BY <1>1, <1>5 DEF AddTokenForm, RegisterRepoForm, RegisterPrForm, ProjectForm
  <2> QED
    BY <2>1, SubmitMoves
<1>6. CASE CredentialsPage \/ AdminProjectsPage \/ RepoDetailPage
  <2>1. PICK r \in Entries, op \in {"create", "delete"} : Send(op, r, FALSE) /\ UNCHANGED form
    BY <1>1, <1>6 DEF CredentialsPage, AdminProjectsPage, RepoDetailPage
  <2> QED
    BY <1>1, <2>1, SendMoves
<1>7. ASSUME NEW q \in requests, ApiRefuses(q)
      PROVE  FormMoves
  <2> DEFINE refused == [q EXCEPT !.at = "failed"]
  <2>1. requests' = (requests \ {q}) \union {refused}
        /\ UNCHANGED <<page, mounted, serverVars, hookVars, filter, form, ownVars>>
    BY <1>7 DEF ApiRefuses, Replace
  <2>2. /\ refused \in Requests /\ refused.at = "failed"
        /\ refused.op = q.op /\ refused.row = q.row /\ refused.gone = q.gone
    BY <1>1 DEF Requests
  <2> HIDE DEF refused
  <2>3. Carried(refused)
    BY <2>2 DEF Carried
  <2> QED
    BY <1>1, <1>2, <2>1, <2>2, <2>3 DEF FormMoves
<1>8. ASSUME NEW q \in requests, Fails(q)
      PROVE  FormMoves
  <2>1. q.form \in BOOLEAN
    BY <1>1 DEF Requests
  <2>2. form' \in FormType
    BY <1>1, <1>8, <2>1 DEF Fails, FormType
  <2> QED
    BY <1>1, <1>2, <1>8, <2>2 DEF Fails, FormMoves
<1> QED
  BY <1>3, <1>4, <1>5, <1>6, <1>7, <1>8 DEF FormActs

-----------------------------------------------------------------------------
(***************************************************************************)
(* At most one load is the newest, it is on its way until data is its      *)
(* answer, and a spinner waits for some load.                              *)
(***************************************************************************)
LoadsFollow ==
  /\ \A i, j \in DOMAIN loads : loads[i].newest /\ loads[j].newest => i = j
  /\ \A l \in DOMAIN loads : current => ~loads[l].newest
  /\ mounted /\ loading => loads # <<>>

(***************************************************************************)
(* A row that the page was told of has been in the database, and one that  *)
(* was told to be gone, or will be, has gone for good.                     *)
(***************************************************************************)
RowsOnce ==
  /\ made \subseteq used
  /\ unmade \subseteq used \ entries
  /\ \A q \in requests : /\ q.gone \subseteq used \ entries
                         /\ q.at = "ok" /\ q.op = "create" => q.row \in used

\* What a load knew has been done, or is all that has been done.
Past(known)       == known.made \subseteq made /\ known.unmade \subseteq unmade
Everything(known) == known.made = made /\ known.unmade = unmade

(***************************************************************************)
(* A load knows only what has been done, the newest all of it; an answer   *)
(* reflects what its load knew.                                            *)
(***************************************************************************)
Knows(load) ==
  /\ Past(Knew(load))
  /\ load.newest => Everything(Knew(load))
  /\ load.answered => Reflects(load.got, Knew(load))

LoadsKnow == \A l \in DOMAIN loads : Knows(loads[l])

\* So does what is shown, since it was the answer of a load.
ShownKnows ==
  /\ Past(seen)
  /\ current => Everything(seen)
  /\ mounted => Reflects(data, seen)

ListPageInv ==
  ListPageTypeOK /\ LoadsFollow /\ RowsOnce /\ LoadsKnow /\ ShownKnows

LEMMA ListPageStart == ListPageInit => ListPageInv
<1> SUFFICES ASSUME ListPageInit PROVE ListPageInv
  OBVIOUS
<1> DEFINE first == Asked(AllRows, {}, {})
<1>1. first \in Load /\ MaxLoads \in Nat \ {0} /\ AllRows \in Filters
  BY ListPageAssumption DEF Asked, Load
<1>2. first.made = {} /\ first.unmade = {} /\ ~first.answered
  BY DEF Asked
<1> HIDE DEF first
<1>3. /\ loads \in Seq(Load) /\ Len(loads) = 1 /\ DOMAIN loads = {1}
      /\ loads[1] = first /\ loads # <<>>
  BY <1>1 DEF ListPageInit, first
<1>4. ListPageTypeOK
  <2>1. loads \in Seq(Load) /\ Len(loads) \in 0..MaxLoads
    BY <1>1, <1>3
  <2>2. form \in [open : BOOLEAN, sending : BOOLEAN]
    BY DEF ListPageInit, NoForm
  <2>3. seen \in Known
    BY <1>1 DEF ListPageInit, Known
  <2> QED
    BY <1>1, <2>1, <2>2, <2>3 DEF ListPageInit, ListPageTypeOK
<1>5. LoadsFollow
  BY <1>3 DEF ListPageInit, LoadsFollow
<1>6. RowsOnce
  BY DEF ListPageInit, RowsOnce
<1>7. LoadsKnow
  BY <1>2, <1>3 DEF ListPageInit, LoadsKnow, Knows, Past, Everything, Knew
<1>8. ShownKnows
  BY DEF ListPageInit, ShownKnows, Past, Reflects
<1> QED
  BY <1>4, <1>5, <1>6, <1>7, <1>8 DEF ListPageInv

\* A step that leaves the loads, the rows and the history alone.
LEMMA FormMovesKeep == ListPageInv /\ FormMoves => ListPageInv'
<1> SUFFICES ASSUME ListPageInv, FormMoves PROVE ListPageInv'
  OBVIOUS
<1>1. UNCHANGED <<page, mounted, entries, used, data, loading, loads, current, seen, filter,
                  made, unmade>>
  BY DEF FormMoves, serverVars, hookVars, ownVars
<1>2. ListPageTypeOK'
  BY <1>1 DEF FormMoves, ListPageInv, ListPageTypeOK, FormType
<1>3. LoadsFollow' /\ LoadsKnow' /\ ShownKnows'
  BY <1>1 DEF ListPageInv, LoadsFollow, LoadsKnow, Knows, ShownKnows, Past, Everything, Reflects,
              Knew
<1>4. RowsOnce'
  BY <1>1 DEF ListPageInv, RowsOnce, FormMoves, Carried
<1> QED
  BY <1>2, <1>3, <1>4 DEF ListPageInv

LEMMA ApiListsKeeps ==
  ASSUME ListPageInv, NEW l \in DOMAIN loads, ApiLists(l)
  PROVE  ListPageInv'
<1>1. UNCHANGED <<page, mounted, entries, used, data, loading, current, seen, filter, form,
                  requests, made, unmade>>
  BY DEF ApiLists, serverVars, ownVars
<1>2. LoadsTyped /\ entries \subseteq Entries
  BY DEF ListPageInv, ListPageTypeOK, LoadsTyped
<1>3. /\ LoadsTyped' /\ DOMAIN loads' = DOMAIN loads
      /\ \A j \in DOMAIN loads : loads'[j].newest = loads[j].newest
      /\ \A j \in DOMAIN loads \ {l} : loads'[j] = loads[j]
      /\ Knew(loads'[l]) = Knew(loads[l])
      /\ loads'[l].got = entries \intersect Matching[loads[l].filter]
  BY <1>2, LoadAnswered
<1>4. loads' # <<>>
  BY <1>3
<1>5. ListPageTypeOK'
  BY <1>1, <1>3 DEF ListPageInv, ListPageTypeOK, LoadsTyped
<1>6. LoadsFollow'
  <2>1. \A i, j \in DOMAIN loads' : loads'[i].newest /\ loads'[j].newest => i = j
    BY <1>3 DEF ListPageInv, LoadsFollow
  <2>2. \A j \in DOMAIN loads' : current' => ~loads'[j].newest
    BY <1>1, <1>3 DEF ListPageInv, LoadsFollow
  <2> QED
    BY <1>4, <2>1, <2>2 DEF LoadsFollow
<1>7. RowsOnce' /\ ShownKnows'
  BY <1>1 DEF ListPageInv, RowsOnce, ShownKnows, Past, Everything, Reflects
<1>8. LoadsKnow'
  <2>1. Knows(loads[l])
    BY DEF ListPageInv, LoadsKnow
  <2>2. Reflects(loads'[l].got, Knew(loads'[l]))
    <3>1. unmade \intersect entries = {}
      BY DEF ListPageInv, RowsOnce
    <3>2. Knew(loads'[l]).unmade \subseteq unmade
      BY <1>3, <2>1 DEF Knows, Past
    <3>3. Knew(loads'[l]).filter = loads[l].filter
      BY <1>3 DEF Knew
    <3> QED
      BY <1>3, <3>1, <3>2, <3>3 DEF Reflects
  <2>3. Knows(loads'[l])
    BY <1>3, <2>1, <2>2 DEF Knows
  <2>4. \A j \in DOMAIN loads \ {l} : Knows(loads'[j])
    BY <1>3 DEF ListPageInv, LoadsKnow
  <2>5. \A load : Knows(load) => Knows(load)'
    BY <1>1 DEF Knows, Past, Everything, Reflects, Knew
  <2>6. \A j \in DOMAIN loads' : Knows(loads'[j])
    BY <1>3, <2>3, <2>4
  <2> QED
    BY <2>5, <2>6 DEF LoadsKnow
<1> QED
  BY <1>5, <1>6, <1>7, <1>8 DEF ListPageInv

LEMMA LoadEndsKeeps ==
  ASSUME ListPageInv, NEW l \in DOMAIN loads, LoadArrives(l) \/ LoadFails(l)
  PROVE  ListPageInv'
<1>1. UNCHANGED <<page, mounted, entries, used, filter, form, requests, made, unmade>>
      /\ loading' = FALSE
  BY DEF LoadArrives, LoadFails, serverVars, ownVars
<1>2. /\ LoadsTyped'
      /\ DOMAIN loads' = 1..(Len(loads) - 1) /\ DOMAIN loads = 1..Len(loads)
      /\ Len(loads) \in Nat
      /\ \A j \in DOMAIN loads' : loads'[j] = loads[IF j < l THEN j ELSE j + 1]
  <2>1. LoadsTyped
    BY DEF ListPageInv, ListPageTypeOK, LoadsTyped
  <2> QED
    BY <2>1, LoadOver DEF LoadArrives, LoadFails
<1>3. loads[l] \in Load /\ Knows(loads[l])
  BY <1>2, ElementOfSeq DEF ListPageInv, ListPageTypeOK, LoadsKnow
<1> DEFINE was(j) == IF j < l THEN j ELSE j + 1
<1>4. /\ \A j \in DOMAIN loads' : was(j) \in DOMAIN loads /\ was(j) # l
      /\ \A i, j \in DOMAIN loads' : was(i) = was(j) => i = j
  BY <1>2
<1>5. \A j \in DOMAIN loads' : loads'[j] = loads[was(j)]
  BY <1>2
<1> HIDE DEF was
<1>6. \/ data' = loads[l].got /\ current' = loads[l].newest /\ seen' = Knew(loads[l])
         /\ loads[l].answered
      \/ UNCHANGED <<data, current, seen>>
  BY DEF LoadArrives, LoadFails
<1>7. ListPageTypeOK'
  <2>1. Knew(loads[l]) \in Known
    BY <1>3 DEF Knew, Load, Known
  <2>2. data' \subseteq Entries /\ current' \in BOOLEAN /\ seen' \in Known
    BY <1>3, <1>6, <2>1 DEF ListPageInv, ListPageTypeOK, Load
  <2> QED
    BY <1>1, <1>2, <2>2 DEF ListPageInv, ListPageTypeOK, LoadsTyped
<1>8. LoadsFollow'
  <2>1. \A i, j \in DOMAIN loads' : loads'[i].newest /\ loads'[j].newest => i = j
    BY <1>4, <1>5 DEF ListPageInv, LoadsFollow
  <2>2. \A j \in DOMAIN loads' : current' => ~loads'[j].newest
    BY <1>4, <1>5, <1>6 DEF ListPageInv, LoadsFollow
  <2> QED
    BY <1>1, <2>1, <2>2 DEF LoadsFollow
<1>9. RowsOnce'
  BY <1>1 DEF ListPageInv, RowsOnce
<1>10. LoadsKnow'
  <2>1. \A j \in DOMAIN loads' : Knows(loads'[j])
    BY <1>4, <1>5 DEF ListPageInv, LoadsKnow
  <2>2. \A load : Knows(load) => Knows(load)'
    BY <1>1 DEF Knows, Past, Everything, Reflects, Knew
  <2> QED
    BY <2>1, <2>2 DEF LoadsKnow
<1>11. ShownKnows'
  <2>1. /\ Past(seen')
        /\ current' => Everything(seen')
        /\ mounted => Reflects(data', seen')
    BY <1>3, <1>6 DEF ListPageInv, ShownKnows, Knows
  <2>2. \A rows, known : /\ Past(known) => Past(known)'
                         /\ Everything(known) => Everything(known)'
                         /\ Reflects(rows, known) => Reflects(rows, known)'
    BY <1>1 DEF Past, Everything, Reflects
  <2> QED
    BY <1>1, <2>1, <2>2 DEF ShownKnows
<1> QED
  BY <1>7, <1>8, <1>9, <1>10, <1>11 DEF ListPageInv

(***************************************************************************)
(* A new load knows all that has been done; those before it, and what is   *)
(* shown, know what had been done.                                         *)
(***************************************************************************)
LEMMA LoadStartedKeeps ==
  ASSUME ListPageInv, NEW f \in Filters, StartLoad(f), UNCHANGED <<mounted, entries>>,
         made \subseteq made', unmade \subseteq unmade',
         made' \subseteq Entries, unmade' \subseteq Entries
  PROVE  /\ LoadsTyped' /\ LoadsFollow' /\ LoadsKnow' /\ ShownKnows'
         /\ UNCHANGED <<data, seen>> /\ {loading', current'} \subseteq BOOLEAN
<1> DEFINE asked == Asked(f, made', unmade')
<1>1. LoadsTyped /\ Len(loads) \in Nat
  BY LenProperties DEF ListPageInv, ListPageTypeOK, LoadsTyped
<1>2. /\ LoadsTyped' /\ Len(loads') = Len(loads) + 1
      /\ DOMAIN loads' = 1..(Len(loads) + 1) /\ DOMAIN loads = 1..Len(loads)
      /\ loads'[Len(loads')] = asked
      /\ \A l \in DOMAIN loads : /\ ~loads'[l].newest
                                 /\ Knew(loads'[l]) = Knew(loads[l])
                                 /\ loads'[l].answered = loads[l].answered
                                 /\ loads'[l].got = loads[l].got
      /\ loading' = TRUE /\ current' = FALSE /\ UNCHANGED <<data, seen>>
  BY <1>1, LoadStarted
<1>3. asked.made = made' /\ asked.unmade = unmade' /\ ~asked.answered
  BY DEF Asked
<1> HIDE DEF asked
<1>4. loads' # <<>>
  BY <1>1, <1>2
<1>5. LoadsFollow'
  <2>1. \A i \in DOMAIN loads' : loads'[i].newest => i = Len(loads')
    BY <1>1, <1>2
  <2> QED
    BY <1>2, <1>4, <2>1 DEF LoadsFollow
<1>6. \A rows, known : /\ Past(known) => Past(known)'
                       /\ Reflects(rows, known) => Reflects(rows, known)'
  BY DEF Past, Reflects
<1>7. LoadsKnow'
  <2>1. \A load : /\ Past(Knew(load))'
                  /\ load.newest => Everything(Knew(load))'
                  /\ load.answered => Reflects(load.got, Knew(load))'
                  => Knows(load)'
    BY DEF Knows
  <2>2. ASSUME NEW l \in DOMAIN loads
        PROVE  Knows(loads[l])'
    <3>1. Knows(loads[l])
      BY DEF ListPageInv, LoadsKnow
    <3>2. PICK load : load = loads'[l]
      OBVIOUS
    <3>3. /\ Past(Knew(load)) /\ ~load.newest
          /\ load.answered => Reflects(load.got, Knew(load))
      BY <1>2, <3>1, <3>2 DEF Knows
    <3>4. Knows(load)'
      BY <1>6, <2>1, <3>3
    <3> QED
      BY <3>2, <3>4
  <2>3. Knows(loads[Len(loads)])'
    <3>1. PICK load : load = loads'[Len(loads')]
      OBVIOUS
    <3>2. load.made = made' /\ load.unmade = unmade' /\ ~load.answered
      BY <1>2, <1>3, <3>1
    <3>3. Knows(load)'
      BY <2>1, <3>2 DEF Past, Everything, Knew
    <3> QED
      BY <3>1, <3>3
  <2>4. \A l \in DOMAIN loads' : l \in DOMAIN loads \/ l = Len(loads')
    BY <1>1, <1>2
  <2> QED
    BY <2>2, <2>3, <2>4 DEF LoadsKnow
<1>8. ShownKnows'
  BY <1>2, <1>6 DEF ListPageInv, ShownKnows
<1> QED
  BY <1>2, <1>5, <1>7, <1>8

LEMMA ContributePageKeeps == ListPageInv /\ ContributePage => ListPageInv'
<1> SUFFICES ASSUME ListPageInv, ContributePage PROVE ListPageInv'
  OBVIOUS
<1>1. PICK f \in Filters : filter' = f /\ StartLoad(f)
  BY DEF ContributePage
<1>2. UNCHANGED <<page, mounted, entries, used, form, requests, made, unmade>>
  BY DEF ContributePage, serverVars, ownVars
<1>3. /\ LoadsTyped' /\ LoadsFollow' /\ LoadsKnow' /\ ShownKnows'
      /\ UNCHANGED <<data, seen>> /\ {loading', current'} \subseteq BOOLEAN
  BY <1>1, <1>2, LoadStartedKeeps DEF ListPageInv, ListPageTypeOK
<1>4. ListPageTypeOK'
  BY <1>1, <1>2, <1>3 DEF ListPageInv, ListPageTypeOK, LoadsTyped
<1>5. RowsOnce'
  BY <1>2 DEF ListPageInv, RowsOnce
<1> QED
  BY <1>3, <1>4, <1>5 DEF ListPageInv

LEMMA SucceedsKeeps ==
  ASSUME ListPageInv, NEW q \in requests, Succeeds(q)
  PROVE  ListPageInv'
<1>1. /\ UNCHANGED <<page, mounted, entries, used, filter>>
      /\ made' = made \union (IF q.op = "create" THEN {q.row} ELSE {})
      /\ unmade' = unmade \union q.gone
      /\ q.at = "ok"
  BY DEF Succeeds, serverVars
<1>2. requests \subseteq Requests /\ q \in Requests /\ form \in FormType
  BY DEF ListPageInv, ListPageTypeOK, FormType
<1>3. q.filter \in Filters /\ q.row \in Entries /\ q.gone \subseteq Entries
  BY <1>2 DEF Requests
<1>4. /\ LoadsTyped' /\ LoadsFollow' /\ LoadsKnow' /\ ShownKnows'
      /\ UNCHANGED <<data, seen>> /\ {loading', current'} \subseteq BOOLEAN
  <2>1. /\ made \subseteq made' /\ unmade \subseteq unmade'
        /\ made' \subseteq Entries /\ unmade' \subseteq Entries
    BY <1>1, <1>3 DEF ListPageInv, ListPageTypeOK
  <2> QED
    BY <1>1, <1>3, <2>1, LoadStartedKeeps DEF Succeeds
<1>5. /\ requests' \subseteq Requests /\ form' \in FormType
      /\ \A r \in requests' : Carried(r)
  <2>1. CASE q.op = "delete"
    BY <1>2, <2>1 DEF Succeeds, Closes, Carried
  <2>2. CASE q.op # "delete"
    <3>1. requests' = Orphaned(requests \ {q}) /\ form' = NoForm
      BY <2>2 DEF Succeeds, Closes
    <3>2. NoForm \in FormType
      BY DEF NoForm, FormType
    <3> QED
      BY <1>2, <3>1, <3>2, OrphanedTyped
  <2> QED
    BY <2>1, <2>2
<1>6. ListPageTypeOK'
  BY <1>1, <1>3, <1>4, <1>5 DEF ListPageInv, ListPageTypeOK, LoadsTyped, FormType
<1>7. RowsOnce'
  <2>1. UNCHANGED <<used, entries>>
    BY <1>1
  <2>2. made' \subseteq used' /\ unmade' \subseteq used' \ entries'
    BY <1>1, <2>1 DEF ListPageInv, RowsOnce
  <2>3. ASSUME NEW r \in requests'
        PROVE  /\ r.gone \subseteq used' \ entries'
               /\ r.at = "ok" /\ r.op = "create" => r.row \in used'
    BY <1>5, <2>1 DEF ListPageInv, RowsOnce, Carried
  <2> QED
    BY <2>2, <2>3 DEF RowsOnce
<1> QED
  BY <1>4, <1>6, <1>7 DEF ListPageInv

\* What the page knows stays true while rows come that were never there, and others go.
LEMMA RowsChangeKeeps ==
  ASSUME ListPageInv, used \subseteq used', entries' \subseteq entries \union (used' \ used),
         UNCHANGED <<mounted, hookVars, filter, ownVars>>
  PROVE  LoadsFollow' /\ LoadsKnow' /\ ShownKnows'
<1>1. UNCHANGED <<mounted, data, loading, loads, current, seen, filter, made, unmade>>
  BY DEF hookVars, ownVars
<1>2. \A known : Past(known) => Past(known)'
  BY <1>1 DEF Past
<1>3. \A known : Everything(known) => Everything(known)'
  BY <1>1 DEF Everything
<1>4. \A rows, known : Past(known) /\ Reflects(rows, known) => Reflects(rows, known)'
  <2> SUFFICES ASSUME NEW rows, NEW known, Past(known), Reflects(rows, known)
               PROVE  Reflects(rows, known)'
    OBVIOUS
  <2>1. known.made \intersect entries' \subseteq entries
    BY DEF ListPageInv, RowsOnce, Past
  <2> QED
    BY <2>1 DEF Reflects
<1>5. LoadsKnow'
  <2>1. \A load : Knows(load) => Knows(load)'
    BY <1>2, <1>3, <1>4 DEF Knows, Knew
  <2> QED
    BY <1>1, <2>1 DEF ListPageInv, LoadsKnow
<1>6. ShownKnows'
  BY <1>1, <1>2, <1>3, <1>4 DEF ListPageInv, ShownKnows
<1> QED
  BY <1>1, <1>5, <1>6 DEF ListPageInv, LoadsFollow

LEMMA ApiChangesKeeps ==
  ASSUME ListPageInv, NEW q \in requests, ApiChanges(q)
  PROVE  ListPageInv'
<1> DEFINE gone == CASE q.op = "delete" -> {q.row}
                     [] q.op = "create" /\ page = "credentials" -> entries
                     [] OTHER -> {}
           new  == IF q.op = "create" THEN {q.row} ELSE {}
<1>1. /\ q.op = "create" => q.row \notin used
      /\ q.op # "create" => q.row \in entries
      /\ entries' = (entries \ gone) \union new /\ used' = used \union new
  BY DEF ApiChanges
<1>2. PICK at \in {"ok", "failed"} :
        requests' = (requests \ {q}) \union {[q EXCEPT !.at = at, !.gone = gone]}
  BY DEF ApiChanges, Replace
<1>3. UNCHANGED <<page, mounted, hookVars, filter, form, ownVars>>
  BY DEF ApiChanges
<1>4. /\ requests \subseteq Requests /\ q \in Requests /\ q.row \in Entries
      /\ entries \subseteq used /\ used \subseteq Entries
  BY DEF ListPageInv, ListPageTypeOK, Requests
<1>5. gone \subseteq entries /\ new \subseteq Entries /\ gone \intersect new = {} /\ new \intersect used = {}
  BY <1>1, <1>4
<1>6. q.op = "create" => q.row \in new
  OBVIOUS
<1> DEFINE done == [q EXCEPT !.at = at, !.gone = gone]
<1>7. done \in Requests /\ done.gone = gone /\ done.op = q.op /\ done.row = q.row
  BY <1>4, <1>5 DEF Requests
<1> HIDE DEF gone, new, done
<1>8. ListPageTypeOK'
  BY <1>1, <1>2, <1>3, <1>4, <1>5, <1>7
     DEF ListPageInv, ListPageTypeOK, hookVars, ownVars, done
<1>9. LoadsFollow' /\ LoadsKnow' /\ ShownKnows'
  BY <1>1, <1>3, <1>5, RowsChangeKeeps
<1>10. RowsOnce'
  <2>1. UNCHANGED <<made, unmade>>
    BY <1>3 DEF ownVars
  <2>2. made \subseteq used' /\ unmade \subseteq used' \ entries'
    BY <1>1, <1>5 DEF ListPageInv, RowsOnce
  <2>3. ASSUME NEW r \in requests'
        PROVE  r.gone \subseteq used' \ entries' /\ (r.at = "ok" /\ r.op = "create" => r.row \in used')
    <3>1. CASE r = done
      BY <1>1, <1>4, <1>5, <1>6, <1>7, <3>1
    <3>2. CASE r # done
      <4>1. r \in requests
        BY <1>2, <3>2 DEF done
      <4> QED
        BY <1>1, <1>5, <4>1 DEF ListPageInv, RowsOnce
    <3> QED
      BY <3>1, <3>2
  <2> QED
    BY <2>1, <2>2, <2>3 DEF RowsOnce
<1> QED
  BY <1>8, <1>9, <1>10 DEF ListPageInv

LEMMA ElsewhereKeeps == ListPageInv /\ Elsewhere => ListPageInv'
<1> SUFFICES ASSUME ListPageInv, Elsewhere PROVE ListPageInv'
  OBVIOUS
<1>1. UNCHANGED <<page, mounted, hookVars, filter, form, requests, ownVars>>
  BY DEF Elsewhere
<1>2. entries \subseteq used /\ used \subseteq Entries
  BY DEF ListPageInv, ListPageTypeOK
<1>3. /\ used \subseteq used' /\ used' \subseteq Entries /\ entries' \subseteq used'
      /\ entries' \subseteq entries \union (used' \ used)
  BY <1>2 DEF Elsewhere, New
<1>4. ListPageTypeOK'
  BY <1>1, <1>3 DEF ListPageInv, ListPageTypeOK, hookVars, ownVars
<1>5. LoadsFollow' /\ LoadsKnow' /\ ShownKnows'
  BY <1>1, <1>3, RowsChangeKeeps
<1>6. RowsOnce'
  BY <1>1, <1>2, <1>3 DEF ListPageInv, RowsOnce, ownVars
<1> QED
  BY <1>4, <1>5, <1>6 DEF ListPageInv

LEMMA LeaveKeeps == ListPageInv /\ Leave => ListPageInv'
<1> SUFFICES ASSUME ListPageInv, Leave PROVE ListPageInv'
  OBVIOUS
<1>1. /\ mounted' = FALSE /\ loads' = <<>> /\ requests' = {} /\ data' = {} /\ form' = NoForm
      /\ UNCHANGED <<page, entries, used, loading, current, seen, filter, made, unmade>>
  BY DEF Leave, serverVars, ownVars
<1>2. loads' \in Seq(Load) /\ Len(loads') = 0 /\ DOMAIN loads' = {} /\ 0 \in 0..MaxLoads
  BY <1>1, ListPageAssumption
<1>3. NoForm \in [open : BOOLEAN, sending : BOOLEAN]
  BY DEF NoForm
<1>4. ListPageTypeOK'
  BY <1>1, <1>2, <1>3 DEF ListPageInv, ListPageTypeOK
<1>5. LoadsFollow' /\ LoadsKnow' /\ ShownKnows' /\ RowsOnce'
  BY <1>1, <1>2 DEF ListPageInv, LoadsFollow, LoadsKnow, ShownKnows, Past, Everything, RowsOnce
<1> QED
  BY <1>4, <1>5 DEF ListPageInv

LEMMA ListPageKept == ListPageInv /\ [ListPageNext]_listPageVars => ListPageInv'
<1> SUFFICES ASSUME ListPageInv, [ListPageNext]_listPageVars PROVE ListPageInv'
  OBVIOUS
<1>1. CASE FormActs
  BY <1>1, FormActsMove, FormMovesKeep DEF ListPageInv
<1>2. CASE \E l \in DOMAIN loads : ApiLists(l) \/ LoadArrives(l) \/ LoadFails(l)
  BY <1>2, ApiListsKeeps, LoadEndsKeeps
<1>3. CASE \E q \in requests : ApiChanges(q) \/ Succeeds(q)
  BY <1>3, ApiChangesKeeps, SucceedsKeeps
<1>4. CASE Leave \/ \E q \in requests : Queued(q)
  BY <1>4, LeaveKeeps DEF Queued
<1>5. CASE ContributePage \/ Elsewhere
  BY <1>5, ContributePageKeeps, ElsewhereKeeps
<1>6. CASE UNCHANGED listPageVars
  BY <1>6 DEF listPageVars, ListPageInv, ListPageTypeOK, LoadsFollow, RowsOnce, LoadsKnow,
              Knows, Knew, ShownKnows, Past, Everything, Reflects
<1> QED
  BY <1>1, <1>2, <1>3, <1>4, <1>5, <1>6 DEF ListPageNext, FormActs

LEMMA ListPageAlways == ListPageSpec => []ListPageInv
BY ListPageStart, ListPageKept, PTL DEF ListPageSpec

(***************************************************************************)
(* Whatever loads overlap, overtake each other or fail: what a page shows  *)
(* reflects all that it had done when it asked for it, and at rest, if the *)
(* load asked for last answered last, all that it has done.                *)
(***************************************************************************)
THEOREM PageShowsOwnChanges == ListPageSpec => []OwnChangesShown
<1>1. ListPageInv => OwnChangesShown
  BY DEF ListPageInv, LoadsFollow, ShownKnows, Everything, OwnChangesShown, AtRest
<1> QED
  BY <1>1, ListPageAlways, PTL

-----------------------------------------------------------------------------
LEMMA PartsStart ==
  Init => /\ CredentialsInit /\ CatalogueInit /\ RunListInit
          /\ RunPageInit /\ ListPageInit /\ CrumbInit
BY DEF Init

LEMMA PartsMove ==
  [Next]_vars => /\ [CredentialsNext]_credentialVars /\ [CatalogueNext]_catalogueVars
                 /\ [RunListNext]_listVars /\ [RunPageNext]_runPageVars
                 /\ [ListPageNext]_listPageVars /\ [CrumbNext]_crumbVars
<1> SUFFICES ASSUME [Next]_vars
             PROVE  /\ [CredentialsNext]_credentialVars /\ [CatalogueNext]_catalogueVars
                    /\ [RunListNext]_listVars /\ [RunPageNext]_runPageVars
                    /\ [ListPageNext]_listPageVars /\ [CrumbNext]_crumbVars
  OBVIOUS
<1>1. CASE Next
  BY <1>1 DEF Next
<1>2. CASE UNCHANGED vars
  BY <1>2 DEF vars
<1> QED
  BY <1>1, <1>2

(***************************************************************************)
(* The parts put side by side, one of which moves, behave each as its own  *)
(* specification says: what is proved of a part is true of the whole.      *)
(***************************************************************************)
THEOREM PartsApart ==
  Spec => /\ CredentialsSpec /\ CatalogueSpec /\ RunListSpec
          /\ RunPageSpec /\ ListPageSpec /\ CrumbSpec
BY PartsStart, PartsMove, PTL
   DEF Spec, CredentialsSpec, CatalogueSpec, RunListSpec, RunPageSpec, ListPageSpec, CrumbSpec

(***************************************************************************)
(* The variables of all parts keep their types.                            *)
(***************************************************************************)
THEOREM PartsTyped == Spec => []TypeOK
<1>1. /\ CredentialsInv => CredentialsTypeOK
      /\ CatalogueInv => CatalogueTypeOK
      /\ WalkInv => RunListTypeOK
      /\ RunPageInv => RunPageTypeOK
      /\ ListPageInv => ListPageTypeOK
      /\ CrumbInv => CrumbTypeOK
  BY DEF CredentialsInv, CatalogueInv, WalkInv, RunPageInv, ListPageInv, CrumbInv
<1>2. CatalogueSpec => []CatalogueInv
  BY CatalogueStart, CatalogueKept, PTL DEF CatalogueSpec
<1>3. RunListSpec => []WalkInv
  BY WalkStart, WalkKept, PTL DEF RunListSpec
<1>4. RunPageSpec => []RunPageInv
  BY RunPageStart, RunPageKept, PTL DEF RunPageSpec
<1>5. CredentialsTypeOK /\ CatalogueTypeOK /\ RunListTypeOK
      /\ RunPageTypeOK /\ ListPageTypeOK /\ CrumbTypeOK => TypeOK
  BY DEF TypeOK
<1> QED
  BY <1>1, <1>2, <1>3, <1>4, <1>5, PartsApart, CredentialsAlways, ListPageAlways, CrumbAlways, PTL

(***************************************************************************)
(* The safety properties of all parts, of the specification that joins     *)
(* them.                                                                   *)
(***************************************************************************)
THEOREM PartsHold ==
  Spec => /\ []SupersededGone /\ []NeverLeftWithout /\ []NoDanglingRow /\ []WalkComplete
          /\ []SettledPageIsCurrent /\ []OwnChangesShown
          /\ []TakenOnce /\ []RetryIsFresh
BY PartsApart, Replacing, OneLeft, References, WalkGivesAll, PageSettles,
   PageShowsOwnChanges, CrumbRetries, FreshRetries, PTL
=============================================================================
