-------------------------- MODULE ItemClaimsProofs --------------------------
(* Proofs about ItemClaims, for any items, brands and bounds. *)
EXTENDS ItemClaims, FiniteSetTheorems, WellFoundedInduction, TLAPS

(* A row whose claim and status agree. *)
SoundRow == {r \in Row : r.status = "in_progress" <=> r.by # 0}

LEMMA Bounds ==
  /\ MaxConcurrency \in Nat \ {0} /\ StaleAfter \in Nat \ {0} /\ MaxWorkers \in Nat \ {0}
  /\ MaxClock \in Nat /\ MaxEdits \in Nat
BY ClaimConstants

LEMMA UnclaimedType ==
  ASSUME NEW r \in Row, NEW status \in Statuses \ {"in_progress"}
  PROVE  Unclaimed(r, status) \in SoundRow
<1>1. 0 \in 0..MaxWorkers /\ 0 \in 0..MaxClock
  BY Bounds
<1>2. Unclaimed(r, status) \in Row
  BY <1>1 DEF Unclaimed, Row
<1> QED
  BY <1>2 DEF Unclaimed, SoundRow, Row

LEMMA MovedType ==
  ASSUME NEW r \in Row, NEW stage \in Stages, NEW status \in Statuses \ {"in_progress"}
  PROVE  Moved(r, stage, status) \in SoundRow
<1>1. [r EXCEPT !.stage = stage] \in Row
  BY DEF Row
<1> QED
  BY <1>1, UnclaimedType DEF Moved

LEMMA RestartedType ==
  ASSUME NEW r \in SoundRow
  PROVE  Restarted(r) \in SoundRow
BY DEF Restarted, SoundRow, Row

LEMMA RevisionType ==
  ASSUME NEW r \in Row
  PROVE  InputRevision(r) \in Revisions
BY DEF InputRevision, Revisions, Row

LEMMA EmptyType == <<>> \in Data /\ <<>> \in Outputs
BY DEF Data, Outputs

LEMMA DataType ==
  ASSUME NEW rev \in Revisions
  PROVE  <<rev.brand>> \in Data /\ <<rev>> \in Outputs
BY DEF Data, Outputs, Revisions

LEMMA EndedType ==
  ASSUME NEW t, NEW r \in SoundRow, NEW status \in Statuses \ {"in_progress"}
  PROVE  Ended(t, r, status) \in SoundRow /\ Released(t, r) \in SoundRow
BY UnclaimedType DEF Ended, Released, SoundRow, Statuses

(* TypeOK with the rows in one set. *)
LEMMA RowsSound ==
  ASSUME TypeOK
  PROVE  item \in [Items -> SoundRow]
BY DEF TypeOK, SoundRow

LEMMA SoundRows ==
  ASSUME TypeOK, item' \in [Items -> SoundRow], tasks' \subseteq Task,
         UNCHANGED <<batch, poll, live, last, clock, edits>>
  PROVE  TypeOK'
BY DEF TypeOK, SoundRow

LEMMA InitType == Init => TypeOK
<1> SUFFICES ASSUME Init PROVE TypeOK
  OBVIOUS
<1>1. ASSUME NEW i \in Items
      PROVE  item[i] \in Row /\ (item[i].status = "in_progress" <=> item[i].by # 0)
  BY <1>1, EmptyType, ClaimConstants DEF Init, Row, Hints, Stages, AutoStages, Statuses
<1>2. item \in [Items -> Row]
  BY <1>1 DEF Init
<1> QED
  BY <1>1, <1>2, ClaimConstants DEF Init, TypeOK, Workers, AutoStages

-----------------------------------------------------------------------------
(* The steps of a poll. *)
LEMMA SweepType ==
  ASSUME TypeOK, NEW w \in Workers
  PROVE  /\ PollStarts(w) => TypeOK'
         /\ SweepEnds(w) => TypeOK'
         /\ \A i \in Items : AutoAdvances(w, i) => TypeOK'
<1>1. PollStarts(w) => TypeOK'
  BY DEF TypeOK, PollStarts
<1>2. SweepEnds(w) => TypeOK'
  BY DEF TypeOK, SweepEnds, AutoStages
<1>3. ASSUME NEW i \in Items, AutoAdvances(w, i)
      PROVE  TypeOK'
  <2> DEFINE stage == IF item[i].stage = "collect_details" THEN "prepare_listing" ELSE "review_listings"
             row == Restarted(Moved(item[i], stage, "pending"))
  <2>1. item[i] \in Row /\ stage \in Stages /\ "pending" \in Statuses \ {"in_progress"}
    BY DEF TypeOK, Stages, AutoStages, Statuses
  <2>2. row \in SoundRow
    BY <2>1, MovedType, RestartedType
  <2>3. item' = [item EXCEPT ![i] = row]
    BY <1>3 DEF AutoAdvances
  <2> HIDE DEF row
  <2>4. item' \in [Items -> SoundRow]
    BY <2>2, <2>3, RowsSound
  <2> QED
    BY <1>3, <2>4, SoundRows DEF AutoAdvances, TypeOK
<1> QED
  BY <1>1, <1>2, <1>3

LEMMA AfterClaimType ==
  ASSUME TypeOK, NEW w \in Workers, NEW i \in Items
  PROVE  AfterClaim(w, i) \in SoundRow
<1>1. item[i] \in SoundRow
  BY RowsSound
<1>2. w \in 0..MaxWorkers /\ w # 0 /\ clock \in 0..MaxClock
  BY Bounds DEF Workers, TypeOK
<1>3. [item[i] EXCEPT !.status = "in_progress", !.by = w, !.at = clock] \in SoundRow
  BY <1>1, <1>2 DEF SoundRow, Row, Statuses
<1> QED
  BY <1>1, <1>3 DEF AfterClaim

LEMMA ClaimsStageType ==
  ASSUME TypeOK, NEW w \in Workers, ClaimsStage(w)
  PROVE  TypeOK'
<1>1. ASSUME NEW i \in Items
      PROVE  Unclaimed(AfterClaim(w, i), "pending") \in SoundRow /\ AfterClaim(w, i) \in SoundRow
  BY AfterClaimType, UnclaimedType DEF SoundRow, Statuses
<1>2. ASSUME NEW i \in Items
      PROVE  item'[i] \in SoundRow
  BY <1>1, <1>2 DEF ClaimsStage
<1>3. item' \in [Items -> SoundRow]
  BY <1>2 DEF ClaimsStage
<1>4. ASSUME NEW i \in Items
      PROVE  NewTask(w, i) \in Task
  <2>1. InputRevision(AfterClaim(w, i)) \in Revisions
    BY AfterClaimType, RevisionType DEF SoundRow
  <2> QED
    BY <2>1 DEF NewTask, Task, TypeOK, ClaimsStage
<1>5. tasks' \subseteq Task
  BY <1>4 DEF ClaimsStage, TypeOK, Dispatched, ReadBack, First
<1>6. poll' \in [Workers -> AutoStages \union {"idle", "sweep"}]
  BY DEF ClaimsStage, TypeOK, AutoStages
<1> QED
  BY <1>3, <1>5, <1>6 DEF ClaimsStage, TypeOK, SoundRow

-----------------------------------------------------------------------------
(* The steps of a task. *)

(* A step that gives the item of t a sound row and ends or keeps its tasks. *)
LEMMA TaskWrites ==
  ASSUME TypeOK, NEW t \in tasks, NEW r \in SoundRow, Writes(t, r), TaskStep(t),
         tasks' \subseteq tasks \union {[t EXCEPT !.done = TRUE]}
  PROVE  TypeOK'
<1>1. t \in Task /\ t.item \in Items /\ [t EXCEPT !.done = TRUE] \in Task
  BY DEF TypeOK, Task
<1>2. item' \in [Items -> SoundRow]
  BY <1>1, RowsSound DEF Writes
<1>3. tasks' \subseteq Task
  BY <1>1 DEF TypeOK
<1> QED
  BY <1>2, <1>3, SoundRows DEF TaskStep

LEMMA TaskRow ==
  ASSUME TypeOK, NEW t \in tasks
  PROVE  /\ t \in Task /\ t.rev \in Revisions
         /\ item[t.item] \in SoundRow
         /\ \A data \in Data : [item[t.item] EXCEPT !.data = data] \in SoundRow
         /\ \A out \in Outputs : [item[t.item] EXCEPT !.out = out] \in SoundRow
<1>1. t \in Task /\ t.item \in Items /\ t.rev \in Revisions
  BY DEF TypeOK, Task
<1>2. item[t.item] \in SoundRow
  BY <1>1, RowsSound
<1> QED
  BY <1>1, <1>2 DEF SoundRow, Row

LEMMA StatusesType ==
  {"pending", "completed", "failed", "needs_input", "skipped"} \subseteq Statuses \ {"in_progress"}
BY DEF Statuses

LEMMA CurationType ==
  ASSUME TypeOK, NEW t \in tasks
  PROVE  /\ CurationCommits(t) => TypeOK'
         /\ CurationReleases(t) => TypeOK'
         /\ CurationFails(t) => TypeOK'
<1>1. Ended(t, [item[t.item] EXCEPT !.out = <<t.rev>>], "completed") \in SoundRow
  BY TaskRow, DataType, EndedType, StatusesType
<1>2. Released(t, item[t.item]) \in SoundRow /\ Ended(t, item[t.item], "failed") \in SoundRow
  BY TaskRow, EndedType, StatusesType
<1> QED
  BY <1>1, <1>2, TaskWrites DEF CurationCommits, CurationReleases, CurationFails, Returns

LEMMA StaticType ==
  ASSUME TypeOK, NEW t \in tasks
  PROVE  /\ StaticRefuses(t) => TypeOK'
         /\ \A admitted \in BOOLEAN : StaticExtracts(t, admitted) => TypeOK'
<1>1. StaticRefuses(t) => TypeOK'
  BY TaskRow, EndedType, StatusesType, TaskWrites DEF StaticRefuses, Returns
<1>2. ASSUME NEW admitted \in BOOLEAN, StaticExtracts(t, admitted)
      PROVE  TypeOK'
  <2> DEFINE r == [item[t.item] EXCEPT !.data = <<t.rev.brand>>]
             row == IF ~admitted THEN Ended(t, r, "needs_input")
                    ELSE IF LeaseIsCurrent(t, r) THEN Ended(t, r, "completed") ELSE Released(t, r)
  <2>1. r \in SoundRow
    BY TaskRow, DataType
  <2>2. Writes(t, row) /\ TaskStep(t) /\ Returns(t)
    BY <1>2 DEF StaticExtracts
  <2> HIDE DEF r
  <2>3. row \in SoundRow
    BY <2>1, EndedType, StatusesType
  <2> HIDE DEF row
  <2> QED
    BY <2>2, <2>3, TaskWrites DEF Returns
<1> QED
  BY <1>1, <1>2

LEMMA ProfileType ==
  ASSUME TypeOK, NEW t \in tasks
  PROVE  /\ ProfileExtracts(t) => TypeOK'
         /\ ProfileThrows(t) => TypeOK'
         /\ \A status \in {"needs_input", "failed"} : ProfileRefuses(t, status) => TypeOK'
         /\ TaskReturns(t) => TypeOK'
<1>1. Unclaimed([item[t.item] EXCEPT !.data = <<t.rev.brand>>], "completed") \in SoundRow
  BY TaskRow, DataType, UnclaimedType, StatusesType DEF SoundRow
<1>2. ProfileExtracts(t) => TypeOK'
  BY <1>1, TaskWrites DEF ProfileExtracts
<1>3. ASSUME ProfileThrows(t)
      PROVE  TypeOK'
  <2> DEFINE r == [item[t.item] EXCEPT !.retries = @ + 1]
             row == Unclaimed(r, IF r.retries < 2 THEN "pending" ELSE "failed")
  <2>1. r \in Row
    BY TaskRow DEF SoundRow, Row
  <2>2. Writes(t, row) /\ TaskStep(t) /\ Returns(t)
    BY <1>3 DEF ProfileThrows
  <2> HIDE DEF r
  <2>3. row \in SoundRow
    BY <2>1, UnclaimedType, StatusesType
  <2> HIDE DEF row
  <2> QED
    BY <2>2, <2>3, TaskWrites DEF Returns
<1>4. ASSUME NEW status \in {"needs_input", "failed"}, ProfileRefuses(t, status)
      PROVE  TypeOK'
  <2>1. Unclaimed(item[t.item], status) \in SoundRow
    BY TaskRow, UnclaimedType, StatusesType DEF SoundRow
  <2> QED
    BY <1>4, <2>1, TaskWrites DEF ProfileRefuses, Returns
<1>5. TaskReturns(t) => TypeOK'
  BY DEF TaskReturns, TypeOK, Returns
<1> QED
  BY <1>2, <1>3, <1>4, <1>5

LEMMA TaskStepsType ==
  ASSUME TypeOK, TaskSteps
  PROVE  TypeOK'
BY CurationType, StaticType, ProfileType DEF TaskSteps

-----------------------------------------------------------------------------
(* The operator's requests, and workers that come and go. *)
LEMMA ChangesType ==
  ASSUME TypeOK, NEW i \in Items, NEW r \in SoundRow, Changes(i, r)
  PROVE  TypeOK'
<1>1. item' \in [Items -> SoundRow]
  BY RowsSound DEF Changes
<1>2. edits' \in 0..MaxEdits
  BY Bounds DEF Changes, Request, TypeOK
<1> QED
  BY <1>1, <1>2 DEF Changes, Request, TypeOK, SoundRow

LEMMA RequestsType ==
  ASSUME TypeOK, Requests
  PROVE  TypeOK'
<1>1. ASSUME NEW i \in Items
      PROVE  item[i] \in SoundRow /\ item[i] \in Row
  BY RowsSound DEF SoundRow
<1>2. ASSUME NEW i \in Items, NEW b \in Brands, AssignBrand(i, b)
      PROVE  TypeOK'
  <2>1. [item[i] EXCEPT !.brand = b, !.held = FALSE] \in SoundRow
    BY <1>1 DEF SoundRow, Row, Hints
  <2> QED
    BY <1>2, <2>1, ChangesType DEF AssignBrand
<1>3. ASSUME NEW i \in Items, ResetForRetry(i)
      PROVE  TypeOK'
  <2> DEFINE r == [item[i] EXCEPT !.out = IF item[i].stage = "review_listings" THEN @ ELSE <<>>]
  <2>1. r \in Row
    BY <1>1, EmptyType DEF Row
  <2>2. Changes(i, Restarted(Unclaimed(r, "pending")))
    BY <1>3 DEF ResetForRetry
  <2> HIDE DEF r
  <2> QED
    BY <2>1, <2>2, UnclaimedType, RestartedType, StatusesType, ChangesType
<1>4. ASSUME NEW i \in Items, Skip(i)
      PROVE  TypeOK'
  BY <1>1, <1>4, UnclaimedType, StatusesType, ChangesType DEF Skip
<1>5. ASSUME NEW i \in Items, NEW stage \in Stages, ResetToStage(i, stage)
      PROVE  TypeOK'
  BY <1>1, <1>5, MovedType, StatusesType, ChangesType DEF ResetToStage
<1>6. ASSUME NEW i \in Items, SendBack(i)
      PROVE  TypeOK'
  <2>1. {"collect_details", "prepare_listing"} \subseteq Stages
    BY DEF Stages, AutoStages
  <2>2. [item[i] EXCEPT !.out = <<>>] \in Row
    BY <1>1, EmptyType DEF Row
  <2>3. /\ Restarted(Moved([item[i] EXCEPT !.out = <<>>], "collect_details", "completed")) \in SoundRow
        /\ Restarted(Moved(item[i], "prepare_listing", "completed")) \in SoundRow
    BY <1>1, <2>1, <2>2, MovedType, RestartedType, StatusesType
  <2> QED
    BY <1>6, <2>3, ChangesType DEF SendBack
<1>7. ASSUME NEW i \in Items, ReleaseDomain(i)
      PROVE  TypeOK'
  BY <1>1, <1>7, UnclaimedType, RestartedType, StatusesType, ChangesType DEF ReleaseDomain
<1>8. ASSUME NEW all \in BOOLEAN, StartBatch(all)
      PROVE  TypeOK'
  <2>1. ASSUME NEW i \in Items
        PROVE  [item[i] EXCEPT !.held = ~all /\ item[i].brand = None] \in SoundRow
    BY <1>1 DEF SoundRow, Row
  <2>2. item' \in [Items -> SoundRow]
    BY <1>8, <2>1 DEF StartBatch
  <2>3. edits' \in 0..MaxEdits
    BY <1>8, Bounds DEF StartBatch, Request, TypeOK
  <2> QED
    BY <1>8, <2>2, <2>3 DEF StartBatch, Request, TypeOK, SoundRow
<1>9. ASSUME NEW state \in {"paused", "running"}, PauseOrResume(state)
      PROVE  TypeOK'
  <2>1. edits' \in 0..MaxEdits
    BY <1>9, Bounds DEF PauseOrResume, Request, TypeOK
  <2> QED
    BY <1>9, <2>1 DEF PauseOrResume, Request, TypeOK
<1> QED
  BY <1>2, <1>3, <1>4, <1>5, <1>6, <1>7, <1>8, <1>9 DEF Requests

LEMMA WorkersType ==
  ASSUME TypeOK
  PROVE  /\ StopWorker => TypeOK'
         /\ Crash => TypeOK'
         /\ StartWorker => TypeOK'
         /\ Tick => TypeOK'
<1>1. StopWorker => TypeOK'
  BY Bounds DEF StopWorker, TypeOK
<1>2. Crash => TypeOK'
  BY Bounds DEF Crash, TypeOK
<1>3. ASSUME StartWorker
      PROVE  TypeOK'
  <2>1. ASSUME NEW i \in Items
        PROVE  item'[i] \in SoundRow
    BY <1>3, RowsSound, UnclaimedType, StatusesType DEF StartWorker, SoundRow
  <2>2. item' \in [Items -> SoundRow]
    BY <1>3, <2>1 DEF StartWorker
  <2>3. live' \in 0..MaxWorkers /\ last' \in Workers
    BY <1>3, Bounds DEF StartWorker, TypeOK, Workers
  <2> QED
    BY <1>3, <2>2, <2>3 DEF StartWorker, TypeOK, SoundRow
<1>4. Tick => TypeOK'
  BY Bounds DEF Tick, TypeOK
<1> QED
  BY <1>1, <1>2, <1>3, <1>4

LEMMA NextType == TypeOK /\ [Next]_vars => TypeOK'
<1> SUFFICES ASSUME TypeOK, [Next]_vars PROVE TypeOK'
  OBVIOUS
<1>1. CASE UNCHANGED vars
  BY <1>1 DEF vars, TypeOK
<1> QED
  BY <1>1, SweepType, ClaimsStageType, TaskStepsType, RequestsType, WorkersType DEF Next

(* In every reachable state the rows, tasks and counters have their types, *)
(* and a row carries a worker exactly while it is in progress.             *)
THEOREM ClaimsTypeCorrect == Spec => []TypeOK
BY InitType, NextType, PTL DEF Spec
-----------------------------------------------------------------------------
=============================================================================
