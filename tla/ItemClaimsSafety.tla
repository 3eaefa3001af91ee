-------------------------- MODULE ItemClaimsSafety --------------------------
(* What the claims guarantee, for any items, brands and bounds: whose     *)
(* results reach a row, and how many tasks a worker runs.                  *)
EXTENDS ItemClaimsProofs

(* Giving up a claim, moving a row or ending a task keeps the row's output. *)
LEMMA OutKept ==
  ASSUME NEW r \in Row
  PROVE  /\ \A status : Unclaimed(r, status).out = r.out
         /\ \A stage, status : Moved(r, stage, status).out = r.out
         /\ \A stage, status : Restarted(Moved(r, stage, status)).out = r.out
         /\ \A status : Restarted(Unclaimed(r, status)).out = r.out
         /\ \A t : Released(t, r).out = r.out
         /\ \A t, status : Ended(t, r, status).out = r.out
BY DEF Unclaimed, Moved, Restarted, Released, Ended, Row

LEMMA FieldsKeepOut ==
  ASSUME NEW r \in Row, NEW data \in Data
  PROVE  /\ [r EXCEPT !.data = data] \in Row /\ [r EXCEPT !.data = data].out = r.out
         /\ [r EXCEPT !.retries = @ + 1] \in Row /\ [r EXCEPT !.retries = @ + 1].out = r.out
         /\ [r EXCEPT !.out = <<>>] \in Row /\ [r EXCEPT !.out = <<>>].out = <<>>
BY EmptyType DEF Row

(* The poll and the worker's starts and stops leave every output alone. *)
LEMMA WorkerKeepsOut ==
  ASSUME TypeOK, NEW i \in Items,
         \/ \E w \in Workers : PollStarts(w) \/ SweepEnds(w) \/ ClaimsStage(w)
         \/ \E w \in Workers, j \in Items : AutoAdvances(w, j)
         \/ StopWorker \/ Crash \/ StartWorker \/ Tick \/ UNCHANGED vars
  PROVE  item'[i].out = item[i].out
<1>1. item \in [Items -> Row]
  BY DEF TypeOK
<1>2. ASSUME NEW w \in Workers, ClaimsStage(w)
      PROVE  item'[i].out = item[i].out
  <2>1. AfterClaim(w, i) \in Row
    BY AfterClaimType DEF SoundRow
  <2>2. AfterClaim(w, i).out = item[i].out
    BY <1>1 DEF AfterClaim, Row
  <2>3. item'[i] = AfterClaim(w, i) \/ item'[i] = Unclaimed(AfterClaim(w, i), "pending")
    BY <1>2 DEF ClaimsStage
  <2> QED
    BY <2>1, <2>2, <2>3, OutKept
<1>3. ASSUME NEW w \in Workers, NEW j \in Items, AutoAdvances(w, j)
      PROVE  item'[i].out = item[i].out
  BY <1>1, <1>3, OutKept DEF AutoAdvances
<1>4. ASSUME StartWorker
      PROVE  item'[i].out = item[i].out
  BY <1>1, <1>4, OutKept DEF StartWorker
<1> QED
  BY <1>2, <1>3, <1>4 DEF PollStarts, SweepEnds, StopWorker, Crash, Tick, vars

(* A request keeps an output or, before the review, clears it. *)
LEMMA RequestKeepsOut ==
  ASSUME TypeOK, NEW i \in Items, Requests
  PROVE  \/ item'[i].out = item[i].out
         \/ item'[i].out = <<>> /\ item[i].stage # "review_listings"
<1>1. item \in [Items -> Row]
  BY DEF TypeOK
<1>2. ASSUME NEW j \in Items, ResetForRetry(j)
      PROVE  \/ item'[i].out = item[i].out
             \/ item'[i].out = <<>> /\ item[i].stage # "review_listings"
  <2> DEFINE r == [item[j] EXCEPT !.out = IF item[j].stage = "review_listings" THEN @ ELSE <<>>]
  <2>1. r \in Row /\ r.out = (IF item[j].stage = "review_listings" THEN item[j].out ELSE <<>>)
    BY <1>1, EmptyType DEF Row
  <2>2. item' = [item EXCEPT ![j] = Restarted(Unclaimed(r, "pending"))]
    BY <1>2 DEF ResetForRetry, Changes
  <2> HIDE DEF r
  <2>3. Restarted(Unclaimed(r, "pending")).out = r.out
    BY <2>1, OutKept
  <2> QED
    BY <1>1, <2>1, <2>2, <2>3
<1>3. ASSUME NEW j \in Items, SendBack(j)
      PROVE  \/ item'[i].out = item[i].out
             \/ item'[i].out = <<>> /\ item[i].stage # "review_listings"
  <2> DEFINE r == [item[j] EXCEPT !.out = <<>>]
  <2>0. r \in Row /\ r.out = <<>>
    BY <1>1, FieldsKeepOut, EmptyType
  <2> HIDE DEF r
  <2>1. Restarted(Moved(r, "collect_details", "completed")).out = <<>>
    BY <2>0, OutKept
  <2>2. Restarted(Moved(item[j], "prepare_listing", "completed")).out = item[j].out
    BY <1>1, OutKept
  <2> QED
    BY <1>1, <1>3, <2>1, <2>2 DEF SendBack, Changes, r
<1>4. ASSUME NEW j \in Items, NEW b \in Brands, AssignBrand(j, b)
      PROVE  item'[i].out = item[i].out
  BY <1>1, <1>4 DEF AssignBrand, Changes, Row
<1>6. ASSUME NEW j \in Items, Skip(j) \/ ReleaseDomain(j)
      PROVE  item'[i].out = item[i].out
  BY <1>1, <1>6, OutKept DEF Skip, ReleaseDomain, Changes
<1>7. ASSUME NEW j \in Items, NEW stage \in Stages, ResetToStage(j, stage)
      PROVE  item'[i].out = item[i].out
  BY <1>1, <1>7, OutKept DEF ResetToStage, Changes
<1>5. ASSUME NEW all \in BOOLEAN, StartBatch(all)
      PROVE  item'[i].out = item[i].out
  BY <1>1, <1>5 DEF StartBatch, Row
<1> QED
  BY <1>2, <1>3, <1>4, <1>5, <1>6, <1>7 DEF Requests, PauseOrResume

(* A commit of the task that holds the item's claim and whole lease. *)
CommitsCurrent(t, i) ==
  /\ t.item = i /\ LeaseIsCurrent(t, item[i]) /\ item[i].stage = "prepare_listing"
  /\ item'[i].out = <<InputRevision(item[i])>>

LEMMA TaskKeepsOut ==
  ASSUME TypeOK, NEW i \in Items, NEW t \in tasks,
         \/ CurationCommits(t) \/ CurationReleases(t) \/ CurationFails(t)
         \/ StaticRefuses(t) \/ \E admitted \in BOOLEAN : StaticExtracts(t, admitted)
         \/ ProfileExtracts(t) \/ ProfileThrows(t)
         \/ \E status \in {"needs_input", "failed"} : ProfileRefuses(t, status)
         \/ TaskReturns(t)
  PROVE  item'[i].out = item[i].out \/ CommitsCurrent(t, i)
<1>1. item \in [Items -> Row] /\ t \in Task /\ t.item \in Items
  BY DEF TypeOK, Task
<1>2. <<t.rev.brand>> \in Data /\ <<t.rev>> \in Outputs
  BY TaskRow, DataType
<1>3. ASSUME CurationCommits(t)
      PROVE  item'[i].out = item[i].out \/ CommitsCurrent(t, i)
  <2> DEFINE r == [item[t.item] EXCEPT !.out = <<t.rev>>]
  <2>1. r \in Row /\ r.out = <<t.rev>>
    BY <1>1, <1>2 DEF Row
  <2>2. LeaseIsCurrent(t, item[t.item]) /\ t.stage = "prepare_listing"
    BY <1>3 DEF CurationCommits, Held, Curating
  <2>3. item' = [item EXCEPT ![t.item] = Ended(t, r, "completed")]
    BY <1>3 DEF CurationCommits, Writes
  <2> HIDE DEF r
  <2>4. Ended(t, r, "completed").out = <<t.rev>>
    BY <2>1, OutKept
  <2>5. CASE i = t.item
    BY <1>1, <2>2, <2>3, <2>4, <2>5 DEF CommitsCurrent, LeaseIsCurrent, OwnsClaim
  <2>6. CASE i # t.item
    BY <1>1, <2>3, <2>6
  <2> QED
    BY <2>5, <2>6
<1>4. ASSUME CurationReleases(t) \/ CurationFails(t) \/ StaticRefuses(t)
      PROVE  item'[i].out = item[i].out
  BY <1>1, <1>4, OutKept DEF CurationReleases, CurationFails, StaticRefuses, Writes
<1>5. ASSUME NEW admitted \in BOOLEAN, StaticExtracts(t, admitted)
      PROVE  item'[i].out = item[i].out
  <2> DEFINE r == [item[t.item] EXCEPT !.data = <<t.rev.brand>>]
  <2>1. r \in Row /\ r.out = item[t.item].out
    BY <1>1, <1>2, FieldsKeepOut
  <2>2. item' = [item EXCEPT ![t.item] =
                   IF ~admitted THEN Ended(t, r, "needs_input")
                   ELSE IF LeaseIsCurrent(t, r) THEN Ended(t, r, "completed") ELSE Released(t, r)]
    BY <1>5 DEF StaticExtracts, Writes
  <2> HIDE DEF r
  <2> QED
    BY <1>1, <2>1, <2>2, OutKept
<1>6. ASSUME ProfileExtracts(t)
      PROVE  item'[i].out = item[i].out
  <2> DEFINE r == [item[t.item] EXCEPT !.data = <<t.rev.brand>>]
  <2>1. r \in Row /\ r.out = item[t.item].out
    BY <1>1, <1>2, FieldsKeepOut
  <2>2. item' = [item EXCEPT ![t.item] = Unclaimed(r, "completed")]
    BY <1>6 DEF ProfileExtracts, Writes
  <2> HIDE DEF r
  <2> QED
    BY <1>1, <2>1, <2>2, OutKept
<1>7. ASSUME ProfileThrows(t)
      PROVE  item'[i].out = item[i].out
  <2> DEFINE r == [item[t.item] EXCEPT !.retries = @ + 1]
  <2>1. r \in Row /\ r.out = item[t.item].out
    BY <1>1, EmptyType, FieldsKeepOut
  <2>2. item' = [item EXCEPT ![t.item] = Unclaimed(r, IF r.retries < 2 THEN "pending" ELSE "failed")]
    BY <1>7 DEF ProfileThrows, Writes
  <2> HIDE DEF r
  <2> QED
    BY <1>1, <2>1, <2>2, OutKept
<1>8. ASSUME NEW status \in {"needs_input", "failed"}, ProfileRefuses(t, status)
      PROVE  item'[i].out = item[i].out
  BY <1>1, <1>8, OutKept DEF ProfileRefuses, Writes
<1> QED
  BY <1>3, <1>4, <1>5, <1>6, <1>7, <1>8 DEF TaskReturns

(* Every step: an output stays, is cleared before the review, or is replaced *)
(* by a commit under the current lease.                                      *)
LEMMA OutputStep ==
  ASSUME TypeOK, [Next]_vars, NEW i \in Items
  PROVE  \/ item'[i].out = item[i].out
         \/ item'[i].out = <<>> /\ item[i].stage # "review_listings"
         \/ \E t \in tasks : CommitsCurrent(t, i)
<1>1. CASE TaskSteps
  BY <1>1, TaskKeepsOut DEF TaskSteps
<1>2. CASE Requests
  BY <1>2, RequestKeepsOut
<1> QED
  BY <1>1, <1>2, WorkerKeepsOut DEF Next

(* A curation reaches its row only through the task that holds the claim,  *)
(* computed from the inputs the row has then, in a running batch.          *)
THEOREM CommittedCurationIsCurrent == Spec => CurationIsCurrent
<1> DEFINE Current == \A i \in Items : item'[i].out \notin {item[i].out, <<>>} =>
              /\ item'[i].out = <<InputRevision(item[i])>> /\ batch = "running"
              /\ \E t \in tasks : t.item = i /\ t.worker = item[i].by /\ t.at = item[i].at
<1>1. TypeOK /\ [Next]_vars => [Current]_vars
  BY OutputStep DEF CommitsCurrent, LeaseIsCurrent, OwnsClaim
<1> QED
  BY <1>1, ClaimsTypeCorrect, PTL DEF Spec, CurationIsCurrent

(* Whatever still runs, the output of an item in review does not change. *)
THEOREM OutputUnderReviewStays == Spec => ReviewedOutputStays
<1> DEFINE Stays == \A i \in Items : item[i].stage = "review_listings" => item'[i].out = item[i].out
<1>1. TypeOK /\ [Next]_vars => [Stays]_vars
  BY OutputStep DEF CommitsCurrent
<1> QED
  BY <1>1, ClaimsTypeCorrect, PTL DEF Spec, ReviewedOutputStays

-----------------------------------------------------------------------------
(* The bound of a claim's LIMIT, and with it of a worker's tasks. *)

(* A finite, non-empty set of numbers has a greatest element: the one below *)
(* the fewest others.                                                       *)
LEMMA Greatest ==
  ASSUME NEW S \in SUBSET Nat, IsFiniteSet(S), S # {}
  PROVE  \E m \in S : \A k \in S : k <= m
<1> DEFINE Above(i) == {j \in S : j > i}
           T == {Above(i) : i \in S}
<1>1. IsWellFoundedOn(StrictSubsetOrdering(S), FiniteSubsetsOf(S))
  BY FS_StrictSubsetOrderingWellFounded
<1>2. T \subseteq FiniteSubsetsOf(S) /\ T # {}
  <2>1. FiniteSubsetsOf(S) = SUBSET S
    BY FS_FiniteSubsetsOfFinite
  <2>2. T \subseteq SUBSET S
    OBVIOUS
  <2>3. T # {}
    <3>1. PICK i \in S : TRUE
      OBVIOUS
    <3>2. Above(i) \in T
      OBVIOUS
    <3> QED
      BY <3>2
  <2> QED
    BY <2>1, <2>2, <2>3
<1>3. PICK X \in T : \A Y \in T : <<Y, X>> \notin StrictSubsetOrdering(S)
  BY <1>1, <1>2, WFMin
<1>4. PICK m \in S : X = Above(m)
  BY <1>3
<1>5. ASSUME NEW k \in S, ~(k <= m)
      PROVE  FALSE
  <2>1. k \in Nat /\ m \in Nat /\ k > m
    BY <1>5
  <2>2. ASSUME NEW j \in Above(k)
        PROVE  j \in Above(m)
    <3>1. j \in S /\ j \in Nat /\ j > k
      OBVIOUS
    <3> QED
      BY <2>1, <3>1
  <2>3. k \in Above(m) /\ k \notin Above(k)
    BY <2>1
  <2>4. <<Above(k), Above(m)>> \in StrictSubsetOrdering(S)
    BY <2>2, <2>3 DEF StrictSubsetOrdering
  <2> QED
    BY <1>3, <1>4, <2>4
<1> QED
  BY <1>5

LEMMA FirstBound ==
  ASSUME NEW S \in SUBSET Items, NEW n \in Nat
  PROVE  IsFiniteSet(First(n, S)) /\ Cardinality(First(n, S)) <= n
<1>1. S \in SUBSET Nat /\ IsFiniteSet(S)
  BY ClaimConstants, FS_Subset
<1>2. First(n, S) \in SUBSET Nat /\ IsFiniteSet(First(n, S))
  BY <1>1, FS_Subset DEF First
<1>3. CASE First(n, S) = {}
  BY <1>2, <1>3, FS_EmptySet
<1>4. CASE First(n, S) # {}
  <2>1. PICK m \in First(n, S) : \A k \in First(n, S) : k <= m
    BY <1>2, <1>4, Greatest
  <2> DEFINE B == {j \in S : j < m}
  <2>2. IsFiniteSet(B) /\ Cardinality(B) < n /\ Cardinality(B) \in Nat
    BY <1>1, FS_Subset, FS_CardinalityType DEF First
  <2>3. ASSUME NEW k \in First(n, S)
        PROVE  k \in B \union {m}
    <3>1. k \in S /\ k \in Nat /\ m \in Nat /\ k <= m
      BY <1>1, <1>2, <2>1 DEF First
    <3> QED
      BY <3>1
  <2>4. m \notin B
    BY <1>1, <1>2
  <2>5. IsFiniteSet(B \union {m}) /\ Cardinality(B \union {m}) = Cardinality(B) + 1
    BY <2>2, <2>4, FS_AddElement
  <2>6. Cardinality(First(n, S)) <= Cardinality(B) + 1
    BY <2>3, <2>5, FS_Subset
  <2>7. Cardinality(First(n, S)) \in Nat
    BY <1>2, FS_CardinalityType
  <2> QED
    BY <1>2, <2>2, <2>6, <2>7
<1> QED
  BY <1>3, <1>4

-----------------------------------------------------------------------------
(* The inductive invariant: OneTaskPerItem, and that the tasks are finite   *)
(* in number, without which their count says nothing.                      *)
TasksInv ==
  /\ OneTaskPerItem
  /\ \A w \in Workers : IsFiniteSet(Running(w))

LEMMA TasksInit == Init => TasksInv
<1> SUFFICES ASSUME Init, NEW w \in Workers
             PROVE  /\ IsFiniteSet(Running(w)) /\ Cardinality(Running(w)) <= MaxConcurrency
                    /\ \A t, u \in Running(w) : t.item = u.item => t = u
  BY DEF TasksInv, OneTaskPerItem
<1>1. Running(w) = {}
  BY DEF Init, Running
<1> QED
  BY <1>1, FS_EmptySet, Bounds

(* Tasks that end break nothing. *)
LEMMA TasksEnd ==
  ASSUME TasksInv, tasks' \subseteq tasks
  PROVE  TasksInv'
<1> SUFFICES ASSUME NEW w \in Workers
             PROVE  /\ IsFiniteSet(Running(w)') /\ Cardinality(Running(w)') <= MaxConcurrency
                    /\ \A t, u \in Running(w)' : t.item = u.item => t = u
  BY DEF TasksInv, OneTaskPerItem
<1>1. Running(w)' \in SUBSET Running(w)
  BY DEF Running
<1>2. /\ IsFiniteSet(Running(w)) /\ Cardinality(Running(w)) <= MaxConcurrency
      /\ \A t, u \in Running(w) : t.item = u.item => t = u
  BY DEF TasksInv, OneTaskPerItem
<1>3. IsFiniteSet(Running(w)') /\ Cardinality(Running(w)') <= Cardinality(Running(w))
  BY <1>1, <1>2, FS_Subset
<1>4. Cardinality(Running(w)') \in Nat /\ Cardinality(Running(w)) \in Nat
  BY <1>2, <1>3, FS_CardinalityType
<1>5. Cardinality(Running(w)') <= MaxConcurrency
  BY <1>2, <1>3, <1>4, Bounds
<1> QED
  BY <1>1, <1>2, <1>3, <1>5

(* A task that goes on to its cleanup keeps its item and its worker. *)
LEMMA TaskGoesOn ==
  ASSUME TypeOK, TasksInv, NEW t \in tasks,
         tasks' = (tasks \ {t}) \union {[t EXCEPT !.done = TRUE]}
  PROVE  TasksInv'
<1> DEFINE v == [t EXCEPT !.done = TRUE]
<1>1. v.item = t.item /\ v.worker = t.worker /\ t \in Task
  BY DEF TypeOK, Task
<1> HIDE DEF v
<1>2. tasks' = (tasks \ {t}) \union {v}
  BY DEF v
<1> SUFFICES ASSUME NEW w \in Workers
             PROVE  /\ IsFiniteSet(Running(w)') /\ Cardinality(Running(w)') <= MaxConcurrency
                    /\ \A x, y \in Running(w)' : x.item = y.item => x = y
  BY DEF TasksInv, OneTaskPerItem
<1>3. /\ IsFiniteSet(Running(w)) /\ Cardinality(Running(w)) <= MaxConcurrency
      /\ \A x, y \in Running(w) : x.item = y.item => x = y
      /\ Cardinality(Running(w)) \in Nat
  BY FS_CardinalityType DEF TasksInv, OneTaskPerItem
<1>4. CASE t.worker = w
  <2>1. Running(w)' = (Running(w) \ {t}) \union {v} /\ t \in Running(w)
    BY <1>1, <1>2, <1>4 DEF Running
  <2>2. IsFiniteSet(Running(w) \ {t}) /\ Cardinality(Running(w) \ {t}) = Cardinality(Running(w)) - 1
    BY <1>3, <2>1, FS_RemoveElement
  <2>3. /\ IsFiniteSet(Running(w)')
        /\ Cardinality(Running(w)') \in {Cardinality(Running(w)) - 1, Cardinality(Running(w))}
    <3> DEFINE R == Running(w) \ {t}
    <3>1. IsFiniteSet(R)
      BY <2>2
    <3>2. /\ IsFiniteSet(R \union {v})
          /\ Cardinality(R \union {v}) = IF v \in R THEN Cardinality(R) ELSE Cardinality(R) + 1
      BY <3>1, FS_AddElement
    <3> QED
      BY <1>3, <2>1, <2>2, <3>2
  <2>4. Cardinality(Running(w)') <= MaxConcurrency
    BY <1>3, <2>3, Bounds
  <2> QED
    BY <1>1, <1>3, <2>1, <2>3, <2>4
<1>5. CASE t.worker # w
  <2>1. Running(w)' = Running(w)
    BY <1>1, <1>2, <1>5 DEF Running
  <2> QED
    BY <1>3, <2>1
<1> QED
  BY <1>4, <1>5

(* A poll starts at most as many tasks as are free, none of an item in work. *)
LEMMA TasksStart ==
  ASSUME TypeOK, TasksInv, NEW w \in Workers, ClaimsStage(w)
  PROVE  TasksInv'
<1> DEFINE starts == {i \in Dispatched(w) : AfterClaim(w, i).stage = poll[w]}
           news == IF w = live THEN {NewTask(w, i) : i \in starts} ELSE {}
<1>1. tasks' = tasks \union news
  BY DEF ClaimsStage
<1>2. \A x \in Workers : IsFiniteSet(Running(x)) /\ Cardinality(Running(x)) \in Nat
  BY FS_CardinalityType DEF TasksInv
<1>3. Free(w) \in Nat /\ Cardinality(Running(w)) + Free(w) <= MaxConcurrency
  BY <1>2, Bounds DEF Free, TasksInv, OneTaskPerItem
<1>4. IsFiniteSet(ReadBack(w)) /\ Cardinality(ReadBack(w)) <= Free(w)
  <2> DEFINE S == {i \in Items : AfterClaim(w, i).by = w /\ AfterClaim(w, i).at = clock}
  <2>1. IsFiniteSet(First(Free(w), S)) /\ Cardinality(First(Free(w), S)) <= Free(w)
    BY <1>3, FirstBound
  <2>2. ReadBack(w) = {} \/ ReadBack(w) = First(Free(w), S)
    BY DEF ReadBack
  <2> HIDE DEF S
  <2> QED
    BY <1>3, <2>1, <2>2, FS_EmptySet
<1>5. starts \in SUBSET ReadBack(w)
  BY DEF Dispatched
<1>6. IsFiniteSet(starts) /\ Cardinality(starts) <= Free(w) /\ Cardinality(starts) \in Nat
  <2>1. IsFiniteSet(starts) /\ Cardinality(starts) <= Cardinality(ReadBack(w))
    BY <1>4, <1>5, FS_Subset
  <2>2. Cardinality(starts) \in Nat /\ Cardinality(ReadBack(w)) \in Nat
    BY <1>4, <2>1, FS_CardinalityType
  <2> QED
    BY <1>3, <1>4, <2>1, <2>2
<1>7. IsFiniteSet(news) /\ Cardinality(news) <= Free(w) /\ Cardinality(news) \in Nat
  <2> DEFINE image == {NewTask(w, i) : i \in starts}
             f == [i \in starts |-> NewTask(w, i)]
  <2>1. f \in Surjection(starts, image)
    BY DEF Surjection
  <2>2. IsFiniteSet(image) /\ Cardinality(image) <= Cardinality(starts)
    BY <1>6, <2>1, FS_Surjection
  <2>3. news = image \/ news = {}
    OBVIOUS
  <2> HIDE DEF news, image, starts
  <2>4. Cardinality(image) \in Nat
    BY <2>2, FS_CardinalityType
  <2> QED
    BY <1>3, <1>6, <2>2, <2>3, <2>4, FS_EmptySet
<1>8. ASSUME NEW t \in news
      PROVE  /\ t.worker = w /\ ~InFlight(w, t.item)
             /\ \A u \in news : t.item = u.item => t = u
  <2>1. PICK i \in starts : t = NewTask(w, i) /\ w = live
    BY <1>8
  <2>2. t.item = i /\ t.worker = w /\ ~InFlight(w, i)
    BY <2>1 DEF NewTask, Dispatched
  <2>3. ASSUME NEW u \in news, t.item = u.item
        PROVE  t = u
    <3>1. PICK j \in starts : u = NewTask(w, j)
      BY <2>1
    <3>2. u.item = j
      BY <3>1 DEF NewTask
    <3> QED
      BY <2>1, <2>2, <2>3, <3>1, <3>2
  <2> QED
    BY <2>2, <2>3
<1> HIDE DEF news, starts
<1> SUFFICES ASSUME NEW x \in Workers
             PROVE  /\ IsFiniteSet(Running(x)') /\ Cardinality(Running(x)') <= MaxConcurrency
                    /\ \A t, u \in Running(x)' : t.item = u.item => t = u
  BY DEF TasksInv, OneTaskPerItem
<1>9. CASE x = w
  <2>1. Running(x)' = Running(x) \union news
    BY <1>1, <1>8, <1>9 DEF Running
  <2>2. /\ IsFiniteSet(Running(x) \union news)
        /\ Cardinality(Running(x) \union news)
             = Cardinality(Running(x)) + Cardinality(news) - Cardinality(Running(x) \cap news)
    BY <1>2, <1>7, FS_Union
  <2>3. Cardinality(Running(x) \cap news) \in Nat /\ Cardinality(Running(x) \union news) \in Nat
    BY <1>2, <2>2, FS_Intersection, FS_CardinalityType
  <2>4. Cardinality(Running(x) \union news) <= MaxConcurrency
    BY <1>2, <1>3, <1>7, <1>9, <2>2, <2>3, Bounds
  <2>5. \A t, u \in Running(x) \union news : t.item = u.item => t = u
    BY <1>8, <1>9 DEF InFlight, TasksInv, OneTaskPerItem
  <2> QED
    BY <2>1, <2>2, <2>4, <2>5
<1>10. CASE x # w
  <2>1. Running(x)' = Running(x)
    BY <1>1, <1>8, <1>10 DEF Running
  <2> QED
    BY <2>1 DEF TasksInv, OneTaskPerItem
<1> QED
  BY <1>9, <1>10

LEMMA TasksNext == TypeOK /\ TasksInv /\ [Next]_vars => TasksInv'
<1> SUFFICES ASSUME TypeOK, TasksInv, [Next]_vars
             PROVE  TasksInv'
  OBVIOUS
<1>1. CASE TaskSteps
  <2>1. PICK t \in tasks :
          \/ Returns(t)
          \/ tasks' = (tasks \ {t}) \union {[t EXCEPT !.done = TRUE]}
    BY <1>1 DEF TaskSteps, CurationCommits, CurationReleases, CurationFails, StaticRefuses,
         StaticExtracts, ProfileExtracts, ProfileThrows, ProfileRefuses, TaskReturns
  <2>2. CASE Returns(t)
    BY <2>2, TasksEnd DEF Returns
  <2> QED
    BY <2>1, <2>2, TaskGoesOn
<1>2. CASE Requests
  <2>1. tasks' = tasks
    BY <1>2 DEF Requests, AssignBrand, ResetForRetry, Skip, SendBack, ReleaseDomain, ResetToStage,
         StartBatch, PauseOrResume, Changes, Request
  <2> QED
    BY <2>1, TasksEnd
<1>3. CASE \E w \in Workers : ClaimsStage(w)
  BY <1>3, TasksStart
<1>4. CASE \/ \E w \in Workers : PollStarts(w) \/ SweepEnds(w)
           \/ \E w \in Workers, i \in Items : AutoAdvances(w, i)
           \/ StopWorker \/ Crash \/ StartWorker \/ Tick \/ UNCHANGED vars
  <2>1. tasks' \subseteq tasks
    BY <1>4 DEF PollStarts, SweepEnds, AutoAdvances, StopWorker, Crash, StartWorker, Tick, vars
  <2> QED
    BY <2>1, TasksEnd
<1> QED
  BY <1>1, <1>2, <1>3, <1>4 DEF Next

(* No worker ever works on one item twice at a time, nor on more items than *)
(* its limit.                                                               *)
THEOREM WorkersKeepToOneTask == Spec => []OneTaskPerItem
<1>1. Spec => []TasksInv
  BY ClaimsTypeCorrect, TasksInit, TasksNext, PTL DEF Spec
<1>2. TasksInv => OneTaskPerItem
  BY DEF TasksInv
<1> QED
  BY <1>1, <1>2, PTL

-----------------------------------------------------------------------------
(* The worker implements CuratedListings: what a step does to each row. *)

InReview(r) == r.stage = "review_listings"

RowClaims(r, q) ==
  /\ r.by = 0 /\ batch = "running" /\ ~r.held /\ ~InReview(r)
  /\ InputRevision(q) = InputRevision(r) /\ q.out = r.out /\ ~InReview(q)

RowLists(r, q) ==
  /\ r.by = live /\ live # 0 /\ batch = "running" /\ ~InReview(r)
  /\ q.out = <<InputRevision(r)>> /\ q.by = 0
  /\ InputRevision(q) = InputRevision(r) /\ ~InReview(q)

RowSubmits(r, q) ==
  /\ r.by = 0 /\ r.out # <<>>
  /\ InReview(q) /\ q.by = 0 /\ InputRevision(q) = InputRevision(r) /\ q.out = r.out

RowWorks(r, q) ==
  /\ q.brand = r.brand /\ q.held = r.held /\ q.out = r.out /\ InReview(q) = InReview(r)
  /\ q.by \in {0, r.by}

RowHandles(r, q) ==
  /\ q.data = r.data /\ q.by \in {0, r.by}
  /\ q.out = r.out \/ (q.out = <<>> /\ ~InReview(r))

RowMoves(r, q) == RowClaims(r, q) \/ RowLists(r, q) \/ RowSubmits(r, q) \/ RowWorks(r, q)

LEMMA RowAlone ==
  ASSUME NEW r \in Row
  PROVE  RowWorks(r, r) /\ RowHandles(r, r)
BY DEF RowWorks, RowHandles

LEMMA ClaimFields ==
  ASSUME NEW r \in Row, NEW status
  PROVE  LET q == Unclaimed(r, status)
         IN q.by = 0 /\ q.stage = r.stage /\ q.brand = r.brand /\ q.held = r.held
            /\ q.data = r.data /\ q.out = r.out
BY DEF Unclaimed, Row

LEMMA MoveFields ==
  ASSUME NEW r \in Row, NEW stage, NEW status
  PROVE  LET q == Moved(r, stage, status)
         IN q.by = 0 /\ q.stage = stage /\ q.brand = r.brand /\ q.held = r.held
            /\ q.data = r.data /\ q.out = r.out
BY DEF Moved, Unclaimed, Row

(* The retry counter is no part of what a listing is prepared from. *)
LEMMA RestartFields ==
  ASSUME NEW r \in Row, NEW status, NEW stage
  PROVE  /\ LET q == Restarted(Unclaimed(r, status))
            IN q.by = 0 /\ q.stage = r.stage /\ q.brand = r.brand /\ q.held = r.held
               /\ q.data = r.data /\ q.out = r.out
         /\ LET q == Restarted(Moved(r, stage, status))
            IN q.by = 0 /\ q.stage = stage /\ q.brand = r.brand /\ q.held = r.held
               /\ q.data = r.data /\ q.out = r.out
BY DEF Restarted, Moved, Unclaimed, Row

LEMMA EndFields ==
  ASSUME NEW r \in Row, NEW t, NEW status
  PROVE  /\ \A q \in {Released(t, r), Ended(t, r, status)} :
              q.by \in {0, r.by} /\ q.stage = r.stage /\ q.brand = r.brand /\ q.held = r.held
              /\ q.data = r.data /\ q.out = r.out
         /\ LeaseIsCurrent(t, r) => Ended(t, r, status).by = 0
BY ClaimFields DEF Released, Ended

-----------------------------------------------------------------------------
(* The poll. *)

LEMMA AdvanceMoves ==
  ASSUME TypeOK, NEW w \in Workers, NEW j \in Items, AutoAdvances(w, j), NEW i \in Items
  PROVE  RowMoves(item[i], item'[i])
<1>1. item \in [Items -> Row] /\ item[i] \in Row /\ item[j] \in Row
  BY DEF TypeOK
<1> DEFINE stage == IF item[j].stage = "collect_details" THEN "prepare_listing" ELSE "review_listings"
<1>2. item' = [item EXCEPT ![j] = Restarted(Moved(item[j], stage, "pending"))]
  BY DEF AutoAdvances
<1>3. item[j].by = 0
  BY DEF AutoAdvances, Advanceable, TypeOK
<1> DEFINE q == Restarted(Moved(item[j], stage, "pending"))
<1>4. /\ q.by = 0 /\ q.stage = stage /\ q.brand = item[j].brand /\ q.held = item[j].held
      /\ q.data = item[j].data /\ q.out = item[j].out
  BY <1>1, RestartFields
<1>5. item'[j] = q /\ (i # j => item'[i] = item[i])
  BY <1>1, <1>2
<1> HIDE DEF q
<1>6. CASE item[j].stage = "collect_details"
  <2>1. RowWorks(item[j], q)
    BY <1>3, <1>4, <1>6 DEF RowWorks, InReview
  <2> QED
    BY <1>1, <1>5, <2>1, RowAlone DEF RowMoves
<1>7. CASE item[j].stage = "prepare_listing"
  <2>1. item[j].out # <<>>
    BY <1>7 DEF AutoAdvances, Advanceable
  <2>2. RowSubmits(item[j], q)
    BY <1>3, <1>4, <1>7, <2>1 DEF RowSubmits, InReview, InputRevision
  <2> QED
    BY <1>1, <1>5, <2>2, RowAlone DEF RowMoves
<1> QED
  BY <1>6, <1>7 DEF AutoAdvances, Advanceable

LEMMA ClaimMoves ==
  ASSUME TypeOK, NEW w \in Workers, ClaimsStage(w), NEW i \in Items
  PROVE  RowMoves(item[i], item'[i])
<1> DEFINE r == item[i]  c == AfterClaim(w, i)
<1>1. r \in Row /\ c \in Row
  BY AfterClaimType DEF TypeOK, SoundRow
<1>2. item'[i] = c \/ item'[i] = Unclaimed(c, "pending")
  BY DEF ClaimsStage
<1>3. /\ c.stage = r.stage /\ c.brand = r.brand /\ c.held = r.held
      /\ c.data = r.data /\ c.out = r.out
  BY <1>1 DEF AfterClaim, Row
<1>4. CASE i \in ClaimedNow(w)
  <2>1. Claimable(r, poll[w]) /\ poll[w] \in AutoStages
    BY <1>4 DEF ClaimedNow, First, ClaimsStage
  <2>2. r.by = 0
    BY <2>1 DEF Claimable, TypeOK
  <2>3. RowClaims(r, c)
    BY <1>3, <2>1, <2>2 DEF RowClaims, Claimable, InReview, InputRevision, AutoStages
  <2>4. RowWorks(r, Unclaimed(c, "pending"))
    BY <1>1, <1>3, ClaimFields DEF RowWorks, InReview
  <2> QED
    BY <1>2, <2>3, <2>4 DEF RowMoves
<1>5. CASE i \notin ClaimedNow(w)
  <2>1. c = r
    BY <1>5 DEF AfterClaim
  <2>2. RowWorks(r, Unclaimed(r, "pending"))
    BY <1>1, ClaimFields DEF RowWorks, InReview
  <2> QED
    BY <1>1, <1>2, <2>1, <2>2, RowAlone DEF RowMoves
<1> QED
  BY <1>4, <1>5

-----------------------------------------------------------------------------
(* The tasks. *)

LEMMA CurationMoves ==
  ASSUME TypeOK, NEW t \in tasks, NEW i \in Items,
         CurationCommits(t) \/ CurationReleases(t) \/ CurationFails(t) \/ StaticRefuses(t)
  PROVE  RowMoves(item[i], item'[i])
<1>1. item \in [Items -> Row] /\ t.item \in Items /\ item[i] \in Row /\ item[t.item] \in Row
  BY DEF TypeOK, Task
<1>2. CASE CurationCommits(t)
  <2> DEFINE r == item[t.item]
             c == [item[t.item] EXCEPT !.out = <<t.rev>>]
             q == Ended(t, c, "completed")
  <2>1. c \in Row /\ c.out = <<t.rev>> /\ InputRevision(c) = InputRevision(r)
        /\ c.by = r.by /\ c.stage = r.stage /\ LeaseIsCurrent(t, c) = LeaseIsCurrent(t, r)
    BY <1>1, TaskRow, DataType DEF Row, InputRevision, LeaseIsCurrent, OwnsClaim
  <2>2. item'[t.item] = q /\ \A k \in Items \ {t.item} : item'[k] = item[k]
    BY <1>1, <1>2 DEF CurationCommits, Writes
  <2>3. t.worker = live /\ LeaseIsCurrent(t, r) /\ t.stage = "prepare_listing"
    BY <1>2 DEF CurationCommits, Held, Curating
  <2>4. r.by = live /\ live # 0 /\ r.stage = "prepare_listing" /\ batch = "running"
        /\ t.rev = InputRevision(r)
    BY <1>1, <2>3 DEF LeaseIsCurrent, OwnsClaim, TypeOK
  <2> HIDE DEF c
  <2>5. q.by = 0 /\ q.stage = c.stage /\ q.out = c.out /\ InputRevision(q) = InputRevision(c)
    <3>1. q = Unclaimed(c, "completed")
      BY <2>1, <2>3 DEF Ended
    <3> QED
      BY <2>1, <3>1, ClaimFields DEF InputRevision
  <2> HIDE DEF q
  <2>6. RowLists(r, q)
    BY <2>1, <2>4, <2>5 DEF RowLists, InReview
  <2> QED
    BY <1>1, <2>2, <2>6, RowAlone DEF RowMoves
<1>3. CASE CurationReleases(t) \/ CurationFails(t) \/ StaticRefuses(t)
  <2>1. \/ item' = [item EXCEPT ![t.item] = Released(t, item[t.item])]
        \/ item' = [item EXCEPT ![t.item] = Ended(t, item[t.item], "failed")]
        \/ item' = [item EXCEPT ![t.item] = Ended(t, item[t.item], "needs_input")]
    BY <1>3 DEF CurationReleases, CurationFails, StaticRefuses, Writes
  <2>2. \A status : \A q \in {Released(t, item[t.item]), Ended(t, item[t.item], status)} :
          RowWorks(item[t.item], q)
    BY <1>1, EndFields DEF RowWorks, InReview
  <2> QED
    BY <1>1, <2>1, <2>2, RowAlone DEF RowMoves
<1> QED
  BY <1>2, <1>3

(* New data leaves the rest of the row alone. *)
LEMMA DataFields ==
  ASSUME NEW r \in Row, NEW data \in Data
  PROVE  LET q == [r EXCEPT !.data = data]
         IN q \in Row /\ q.by = r.by /\ q.stage = r.stage /\ q.brand = r.brand
            /\ q.held = r.held /\ q.out = r.out
BY DEF Row

LEMMA ExtractionMoves ==
  ASSUME TypeOK, NEW t \in tasks, NEW i \in Items,
         \/ \E admitted \in BOOLEAN : StaticExtracts(t, admitted)
         \/ ProfileExtracts(t) \/ ProfileThrows(t)
         \/ \E status \in {"needs_input", "failed"} : ProfileRefuses(t, status)
  PROVE  RowMoves(item[i], item'[i])
<1>1. item \in [Items -> Row] /\ t.item \in Items /\ item[i] \in Row /\ item[t.item] \in Row
  BY DEF TypeOK, Task
<1> DEFINE r == item[t.item]
           d == [item[t.item] EXCEPT !.data = <<t.rev.brand>>]
           n == [item[t.item] EXCEPT !.retries = @ + 1]
<1>2. d \in Row /\ d.by = r.by /\ d.stage = r.stage /\ d.brand = r.brand /\ d.held = r.held /\ d.out = r.out
  BY <1>1, TaskRow, DataType, DataFields
<1>3. n \in Row /\ n.by = r.by /\ n.stage = r.stage /\ n.brand = r.brand /\ n.held = r.held /\ n.out = r.out
  BY <1>1 DEF Row
<1>4. \E status : \/ item' = [item EXCEPT ![t.item] = Ended(t, d, status)]
                  \/ item' = [item EXCEPT ![t.item] = Released(t, d)]
                  \/ item' = [item EXCEPT ![t.item] = Unclaimed(d, status)]
                  \/ item' = [item EXCEPT ![t.item] = Unclaimed(n, status)]
                  \/ item' = [item EXCEPT ![t.item] = Unclaimed(r, status)]
  <2>1. CASE \E admitted \in BOOLEAN : StaticExtracts(t, admitted)
    BY <2>1, Zenon DEF StaticExtracts, Writes
  <2>2. CASE ProfileExtracts(t)
    BY <2>2 DEF ProfileExtracts, Writes
  <2>3. CASE ProfileThrows(t)
    BY <2>3 DEF ProfileThrows, Writes
  <2>4. CASE \E status \in {"needs_input", "failed"} : ProfileRefuses(t, status)
    BY <2>4 DEF ProfileRefuses, Writes
  <2> QED
    BY <2>1, <2>2, <2>3, <2>4
<1> HIDE DEF d, n
<1>5. \A status : \A q \in {Ended(t, d, status), Released(t, d), Unclaimed(d, status),
                            Unclaimed(n, status), Unclaimed(r, status)} : RowWorks(r, q)
  BY <1>1, <1>2, <1>3, EndFields, ClaimFields DEF RowWorks, InReview
<1>6. RowWorks(r, item'[t.item]) /\ (i # t.item => item'[i] = item[i])
  BY <1>1, <1>4, <1>5
<1> QED
  BY <1>1, <1>6, RowAlone DEF RowMoves

-----------------------------------------------------------------------------
(* The operator, and the workers that come and go. *)

LEMMA RequestHandles ==
  ASSUME TypeOK, Requests, NEW i \in Items
  PROVE  RowHandles(item[i], item'[i]) /\ edits' = edits + 1 /\ live' = live
<1>1. item \in [Items -> Row] /\ item[i] \in Row
  BY DEF TypeOK
<1>2. edits' = edits + 1 /\ live' = live
  BY DEF Requests, AssignBrand, ResetForRetry, Skip, SendBack, ReleaseDomain, ResetToStage,
         StartBatch, PauseOrResume, Changes, Request
<1>3. ASSUME NEW j \in Items, ResetForRetry(j) \/ SendBack(j)
      PROVE  RowHandles(item[i], item'[i])
  <2> DEFINE c == [item[j] EXCEPT !.out = IF item[j].stage = "review_listings" THEN @ ELSE <<>>]
             e == [item[j] EXCEPT !.out = <<>>]
  <2>1. /\ c \in Row /\ c.data = item[j].data /\ c.out = (IF InReview(item[j]) THEN item[j].out ELSE <<>>)
        /\ e \in Row /\ e.data = item[j].data /\ e.out = <<>> /\ item[j] \in Row
    BY <1>1, EmptyType DEF Row, InReview
  <2>2. \/ item' = [item EXCEPT ![j] = Restarted(Unclaimed(c, "pending"))]
        \/ ~InReview(item[j]) /\ item' = [item EXCEPT ![j] = Restarted(Moved(e, "collect_details", "completed"))]
        \/ item' = [item EXCEPT ![j] = Restarted(Moved(item[j], "prepare_listing", "completed"))]
    BY <1>3 DEF ResetForRetry, SendBack, Changes, InReview
  <2> HIDE DEF c, e
  <2>3. /\ RowHandles(item[j], Restarted(Unclaimed(c, "pending")))
        /\ ~InReview(item[j]) => RowHandles(item[j], Restarted(Moved(e, "collect_details", "completed")))
        /\ RowHandles(item[j], Restarted(Moved(item[j], "prepare_listing", "completed")))
    BY <2>1, RestartFields DEF RowHandles
  <2> QED
    BY <1>1, <2>2, <2>3, RowAlone
<1>4. ASSUME NEW j \in Items, \/ Skip(j) \/ ReleaseDomain(j)
                              \/ \E stage \in Stages : ResetToStage(j, stage)
      PROVE  RowHandles(item[i], item'[i])
  <2>1. \/ item' = [item EXCEPT ![j] = Unclaimed(item[j], "skipped")]
        \/ item' = [item EXCEPT ![j] = Restarted(Unclaimed(item[j], "pending"))]
        \/ \E stage \in Stages : item' = [item EXCEPT ![j] = Moved(item[j], stage, "completed")]
    BY <1>4 DEF Skip, ReleaseDomain, ResetToStage, Changes
  <2>2. /\ RowHandles(item[j], Unclaimed(item[j], "skipped"))
        /\ RowHandles(item[j], Restarted(Unclaimed(item[j], "pending")))
        /\ \A stage : RowHandles(item[j], Moved(item[j], stage, "completed"))
    BY <1>1, ClaimFields, RestartFields, MoveFields DEF RowHandles
  <2> QED
    BY <1>1, <2>1, <2>2, RowAlone
<1>5. ASSUME NEW j \in Items, NEW b \in Brands, AssignBrand(j, b)
      PROVE  RowHandles(item[i], item'[i])
  BY <1>1, <1>5 DEF AssignBrand, Changes, RowHandles, Row
<1>6. ASSUME NEW all \in BOOLEAN, StartBatch(all)
      PROVE  RowHandles(item[i], item'[i])
  BY <1>1, <1>6 DEF StartBatch, RowHandles, Row
<1> QED
  BY <1>1, <1>2, <1>3, <1>4, <1>5, <1>6, RowAlone DEF Requests, PauseOrResume

LEMMA WorkersFree ==
  ASSUME TypeOK, StopWorker \/ Crash \/ StartWorker, NEW i \in Items
  PROVE  /\ item'[i].by \in {0, item[i].by} /\ item'[i].out = item[i].out
         /\ item'[i].stage = item[i].stage /\ InputRevision(item'[i]) = InputRevision(item[i])
<1>1. item[i] \in Row
  BY DEF TypeOK
<1>2. item'[i] = item[i] \/ item'[i] = Unclaimed(item[i], "pending")
  BY DEF StopWorker, Crash, StartWorker
<1> QED
  BY <1>1, <1>2, ClaimFields DEF InputRevision

-----------------------------------------------------------------------------
(* The steps in the terms of CuratedListings. *)

LEMMA ListingsTyped ==
  ASSUME TypeOK
  PROVE  Listings!Types
<1>1. ASSUME NEW i \in Items
      PROVE  /\ InputRevision(item[i]) \in Revisions /\ item[i].by \in Workers \union {0}
             /\ item[i].out \in {<<>>} \union {<<from>> : from \in Revisions}
  BY RevisionType, Bounds DEF TypeOK, Row, Outputs, Workers
<1> QED
  BY <1>1 DEF Listings!Types

LEMMA RowsToListings ==
  ASSUME NEW i \in Items
  PROVE  /\ RowMoves(item[i], item'[i]) =>
              Listings!Claims(i) \/ Listings!Lists(i) \/ Listings!Submits(i) \/ Listings!Works(i)
         /\ RowHandles(item[i], item'[i]) => Listings!Handles(i)
BY DEF RowMoves, RowClaims, RowLists, RowSubmits, RowWorks, RowHandles, InReview, InputRevision,
       Listings!Claims, Listings!Lists, Listings!Submits, Listings!Works, Listings!Handles,
       Listings!Same, Listings!GivenSame

LEMMA RowsStay ==
  ASSUME UNCHANGED <<item, batch, live, edits>>
  PROVE  UNCHANGED Listings!vars
BY DEF Listings!vars, InputRevision

LEMMA NextKeepsListings ==
  ASSUME TypeOK, TypeOK', [Next]_vars
  PROVE  [Listings!Next]_Listings!vars
<1>1. Listings!Types'
  <2>1. ASSUME NEW i \in Items
        PROVE  /\ InputRevision(item'[i]) \in Revisions /\ item'[i].by \in Workers \union {0}
               /\ item'[i].out \in {<<>>} \union {<<from>> : from \in Revisions}
    BY RevisionType, Bounds DEF TypeOK, Row, Outputs, Workers
  <2> QED
    BY <2>1 DEF Listings!Types, InputRevision
<1>2. ASSUME UNCHANGED <<batch, live, edits>>, \A i \in Items : RowMoves(item[i], item'[i])
      PROVE  Listings!Next
  BY <1>1, <1>2, RowsToListings DEF Listings!Next, Listings!WorkerMoves
<1>3. CASE \E w \in Workers, j \in Items : AutoAdvances(w, j)
  BY <1>2, <1>3, AdvanceMoves DEF AutoAdvances
<1>4. CASE \E w \in Workers : ClaimsStage(w)
  BY <1>2, <1>4, ClaimMoves DEF ClaimsStage
<1>5. ASSUME NEW t \in tasks,
             \/ CurationCommits(t) \/ CurationReleases(t) \/ CurationFails(t) \/ StaticRefuses(t)
             \/ \E admitted \in BOOLEAN : StaticExtracts(t, admitted)
             \/ ProfileExtracts(t) \/ ProfileThrows(t)
             \/ \E status \in {"needs_input", "failed"} : ProfileRefuses(t, status)
      PROVE  Listings!Next
  <2>1. UNCHANGED <<batch, live, edits>>
    BY <1>5 DEF CurationCommits, CurationReleases, CurationFails, StaticRefuses, StaticExtracts,
                ProfileExtracts, ProfileThrows, ProfileRefuses, TaskStep
  <2> QED
    BY <1>2, <1>5, <2>1, CurationMoves, ExtractionMoves
<1>6. CASE Requests
  <2>1. /\ \A i \in Items : Listings!Handles(i)
        /\ Items # {} => edits' = edits + 1 /\ live' = live
    BY <1>6, RequestHandles, RowsToListings
  <2>2. edits' = edits + 1 /\ live' = live
    BY <1>6 DEF Requests, AssignBrand, ResetForRetry, Skip, SendBack, ReleaseDomain, ResetToStage,
                StartBatch, PauseOrResume, Changes, Request
  <2> QED
    BY <1>1, <2>1, <2>2 DEF Listings!Next, Listings!OperatorMoves
<1>7. CASE StopWorker \/ Crash \/ StartWorker
  <2>1. UNCHANGED <<batch, edits>> /\ live' \in Workers \union {0}
    BY <1>7, Bounds DEF StopWorker, Crash, StartWorker, TypeOK, Workers
  <2>2. CASE live' # live
    BY <1>1, <1>7, <2>1, <2>2, WorkersFree DEF Listings!Next, Listings!Changeover
  <2>3. CASE live' = live
    <3>1. item' = item
      BY <1>7, <2>3 DEF StopWorker, Crash, StartWorker, TypeOK, Workers
    <3> QED
      BY <2>1, <2>3, <3>1, RowsStay
  <2> QED
    BY <2>2, <2>3
<1>8. CASE \/ \E w \in Workers : PollStarts(w) \/ SweepEnds(w)
           \/ \E t \in tasks : TaskReturns(t)
           \/ Tick \/ UNCHANGED vars
  BY <1>8, RowsStay DEF PollStarts, SweepEnds, TaskReturns, Tick, vars
<1> QED
  BY <1>3, <1>4, <1>5, <1>6, <1>7, <1>8 DEF Next, TaskSteps

(* The onboarding worker keeps the promise of CuratedListings: whatever is edited,    *)
(* reset, paused, stopped or crashed while its tasks await, each step of it is a step  *)
(* of the promise or leaves the listings and their claims alone.                       *)
THEOREM WorkerKeepsListings == Spec => KeepsListings
<1>1. Init => Listings!Init
  <2> SUFFICES ASSUME Init PROVE Listings!Init
    OBVIOUS
  <2>1. Listings!Types
    BY InitType, ListingsTyped
  <2>2. live \in Workers /\ edits = 0
    BY Bounds DEF Init, Workers
  <2>3. \A i \in Items : item[i].by = 0 /\ item[i].out = <<>> /\ item[i].stage # "review_listings"
    BY DEF Init
  <2> QED
    BY <2>1, <2>2, <2>3 DEF Listings!Init
<1>2. TypeOK /\ TypeOK' /\ [Next]_vars => [Listings!Next]_Listings!vars
  BY NextKeepsListings
<1> QED
  BY <1>1, <1>2, ClaimsTypeCorrect, PTL DEF Spec, KeepsListings, Listings!Spec
=============================================================================
