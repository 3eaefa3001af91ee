----------------------------- MODULE ItemClaims -----------------------------
(***************************************************************************)
(* The onboarding worker (src/onboarding/job-queue.ts) and the rows it     *)
(* claims (src/db/repositories/onboarding-item-repo.ts).  A poll sweeps    *)
(* finished items on to their next stage, then claims pending ones, and    *)
(* starts a task for each; the tasks await pages and models while the      *)
(* operator edits, resets, skips and pauses the same rows.  The lease of a *)
(* task is the worker, the time of the claim and the revision of the       *)
(* item's inputs: curation and the static extraction end through it, the   *)
(* extraction with a domain profile does not look at it.                   *)
(*                                                                         *)
(* The stages from collect_details to review_listings are modelled.  What  *)
(* runs between two awaits is one step; the loop over the stages of a poll *)
(* has no await, so while a worker is in it only the clock and a crash can *)
(* come between (Busy).                                                    *)
(***************************************************************************)
EXTENDS Naturals, FiniteSets

CONSTANTS
  Items,          \* the items of one batch, by row number
  StaticItems,    \* those whose domain has no extractor profile
  Brands, None,   \* None: the register names no brand
  FirstBrand,     \* the brand hint each item is imported with
  MaxConcurrency, \* tasks of one worker (its extraction limit is the same)
  StaleAfter,     \* the age of a claim that a starting worker takes back
  MaxClock, MaxWorkers, MaxEdits

ASSUME ClaimConstants ==
  /\ Items \subseteq Nat /\ IsFiniteSet(Items) /\ StaticItems \subseteq Items
  /\ None \notin Brands /\ FirstBrand \in [Items -> Brands \union {None}]
  /\ {MaxConcurrency, StaleAfter, MaxWorkers} \subseteq Nat \ {0}
  /\ {MaxClock, MaxEdits} \subseteq Nat

VARIABLES
  item,    \* onboarding_items
  batch,   \* onboarding_batches.execution_state
  tasks,   \* the promises of OnboardingWorker.running, of every worker
  poll,    \* where the poll of each worker is
  live,    \* the worker that start() made and stop() has not stopped, or 0
  last,    \* the last worker made
  clock, edits

vars == <<item, batch, tasks, poll, live, last, clock, edits>>

-----------------------------------------------------------------------------
Workers == 1..MaxWorkers
AutoStages == {"prepare_listing", "collect_details"}
Stages == AutoStages \union {"review_listings"}
Statuses == {"pending", "in_progress", "completed", "failed", "needs_input", "skipped"}

Hints == Brands \union {None}
(* Extracted data tells which brand hint it was extracted with; <<>> is NULL. *)
Data == {<<>>} \union {<<b>> : b \in Hints}
Revisions == [brand : Hints, held : BOOLEAN, data : Data]
Outputs == {<<>>} \union {<<rev>> : rev \in Revisions}

Row == [stage : Stages, status : Statuses, by : 0..MaxWorkers, at : 0..MaxClock,
        brand : Hints, held : BOOLEAN, data : Data, out : Outputs, retries : Nat]
Task == [item : Items, stage : AutoStages, worker : Workers, at : 0..MaxClock,
         rev : Revisions, done : BOOLEAN]

(* itemExecutionInputRevision: the columns a run depends on. *)
InputRevision(r) == [brand |-> r.brand, held |-> r.held, data |-> r.data]

(* Fault for TypeOK: the time of the claim is cleared and the worker is not. *)
UnclaimedButOwned(r, status) == [r EXCEPT !.status = status, !.at = 0]

Unclaimed(r, status) == [r EXCEPT !.status = status, !.by = 0, !.at = 0]
Moved(r, stage, status) == Unclaimed([r EXCEPT !.stage = stage], status)
Restarted(r) == [r EXCEPT !.retries = 0]

(* The first n of S by row number (ORDER BY row_number LIMIT n). *)
First(n, S) == {i \in S : Cardinality({j \in S : j < i}) < n}

Running(w) == {t \in tasks : t.worker = w}
Busy == \E w \in Workers : poll[w] \in AutoStages

Init ==
  /\ item = [i \in Items |->
       [stage |-> "collect_details", status |-> "pending", by |-> 0, at |-> 0,
        brand |-> FirstBrand[i], held |-> FALSE, data |-> <<>>, out |-> <<>>, retries |-> 0]]
  /\ batch = "running"
  /\ tasks = {} /\ poll = [w \in Workers |-> "idle"]
  /\ live = 1 /\ last = 1 /\ clock = 0 /\ edits = 0

-----------------------------------------------------------------------------
(* The worker's polls. *)

PollStarts(w) ==
  /\ ~Busy /\ live = w /\ poll[w] = "idle"
  /\ poll' = [poll EXCEPT ![w] = "sweep"]
  /\ UNCHANGED <<item, batch, tasks, live, last, clock, edits>>

Advanceable(r) ==
  /\ r.status = "completed"
  /\ \/ r.stage = "collect_details" /\ r.data # <<>>
     \/ r.stage = "prepare_listing" /\ r.out # <<>>

(* One item of a sweep leg; a leg's page is listed before its first await, *)
(* so an item that completes later may wait for the next poll.             *)
AutoAdvances(w, i) ==
  /\ ~Busy /\ poll[w] = "sweep" /\ Advanceable(item[i])
  /\ item' = [item EXCEPT ![i] = Restarted(Moved(@,
       IF @.stage = "collect_details" THEN "prepare_listing" ELSE "review_listings", "pending"))]
  /\ UNCHANGED <<batch, tasks, poll, live, last, clock, edits>>

SweepEnds(w) ==
  /\ ~Busy /\ poll[w] = "sweep"
  /\ poll' = [poll EXCEPT ![w] = "prepare_listing"]
  /\ UNCHANGED <<item, batch, tasks, live, last, clock, edits>>

(* Fault for KeepsListings: a claim takes rows in progress, too.            *)
ClaimableAgain(r, stage) ==
  batch = "running" /\ r.stage = stage /\ r.status \in {"pending", "in_progress"} /\ ~r.held

Claimable(r, stage) ==
  batch = "running" /\ r.stage = stage /\ r.status = "pending" /\ ~r.held

Free(w) == IF Cardinality(Running(w)) < MaxConcurrency
           THEN MaxConcurrency - Cardinality(Running(w)) ELSE 0

(* The UPDATE of claimItemsForProcessing, then its SELECT: by worker and   *)
(* time, of any stage.                                                     *)
ClaimedNow(w) == First(Free(w), {i \in Items : Claimable(item[i], poll[w])})
AfterClaim(w, i) ==
  IF i \in ClaimedNow(w)
  THEN [item[i] EXCEPT !.status = "in_progress", !.by = w, !.at = clock]
  ELSE item[i]
ReadBack(w) ==
  IF ClaimedNow(w) = {} THEN {}
  ELSE First(Free(w), {i \in Items : AfterClaim(w, i).by = w /\ AfterClaim(w, i).at = clock})

(* Fault for OneTaskPerItem: the running tasks are kept by item and stage. *)
InFlightInStage(w, i) == \E t \in Running(w) : t.item = i /\ t.stage = poll[w]

InFlight(w, i) == \E t \in Running(w) : t.item = i
Dispatched(w) == {i \in ReadBack(w) : ~InFlight(w, i)}

NewTask(w, i) ==
  [item |-> i, stage |-> poll[w], worker |-> w, at |-> clock,
   rev |-> InputRevision(AfterClaim(w, i)), done |-> FALSE]

(* One stage of the loop.  A row whose previous task still runs is given   *)
(* back; a stopped worker's poll claims all the same, and its tasks end at *)
(* their first check: curation releases the row, extraction leaves it.     *)
ClaimsStage(w) ==
  /\ poll[w] \in AutoStages
  /\ LET starts == {i \in Dispatched(w) : AfterClaim(w, i).stage = poll[w]}
         givenBack == (ReadBack(w) \ Dispatched(w))
                        \union (IF w # live /\ poll[w] = "prepare_listing" THEN starts ELSE {})
     IN /\ item' = [i \in Items |-> IF i \in givenBack THEN Unclaimed(AfterClaim(w, i), "pending")
                                    ELSE AfterClaim(w, i)]
        /\ tasks' = tasks \union (IF w = live THEN {NewTask(w, i) : i \in starts} ELSE {})
  /\ poll' = [poll EXCEPT ![w] =
       IF poll[w] = "prepare_listing" /\ Free(w) > 0 THEN "collect_details" ELSE "idle"]
  /\ UNCHANGED <<batch, live, last, clock, edits>>

-----------------------------------------------------------------------------
(* The tasks, each step from one await to the next. *)

OwnsClaim(t, r) ==
  r.status = "in_progress" /\ r.by = t.worker /\ r.at = t.at /\ r.stage = t.stage
(* Faults for CurationIsCurrent (the revision is not compared) and for      *)
(* ReviewedOutputStays (the claim is not).                                 *)
LeaseWithoutRevision(t, r) == OwnsClaim(t, r) /\ batch = "running"
LeaseWithoutClaim(t, r) == InputRevision(r) = t.rev /\ batch = "running"

LeaseIsCurrent(t, r) ==
  OwnsClaim(t, r) /\ InputRevision(r) = t.rev /\ batch = "running"
Held(t) == t.worker = live /\ LeaseIsCurrent(t, item[t.item])

Returns(t) == tasks' = tasks \ {t}
Writes(t, r) == item' = [item EXCEPT ![t.item] = r]
TaskStep(t) == ~Busy /\ ~t.done /\ UNCHANGED <<batch, poll, live, last, clock, edits>>

(* updateClaimedCurationItem and updateClaimedExtractionItem: a release    *)
(* asks for the claim only, the other ends for the whole lease.            *)
Released(t, r) == IF OwnsClaim(t, r) THEN Unclaimed(r, "pending") ELSE r
Ended(t, r, status) == IF LeaseIsCurrent(t, r) THEN Unclaimed(r, status) ELSE r

Curating(t) == t.stage = "prepare_listing"
Static(t) == t.stage = "collect_details" /\ t.item \in StaticItems
Profiled(t) == t.stage = "collect_details" /\ t.item \notin StaticItems

CurationCommits(t) ==
  /\ TaskStep(t) /\ Curating(t) /\ Held(t)
  /\ Writes(t, Ended(t, [item[t.item] EXCEPT !.out = <<t.rev>>], "completed"))
  /\ Returns(t)

(* The lease is lost, or the accepted evidence has changed. *)
CurationReleases(t) ==
  /\ TaskStep(t) /\ Curating(t)
  /\ Writes(t, Released(t, item[t.item]))
  /\ Returns(t)

(* The pipeline throws, or the evidence is in conflict. *)
CurationFails(t) ==
  /\ TaskStep(t) /\ Curating(t)
  /\ Writes(t, Ended(t, item[t.item], "failed"))
  /\ Returns(t)

(* needsInput of processConfirmedPageStaticExtraction, also for a lost lease. *)
StaticRefuses(t) ==
  /\ TaskStep(t) /\ Static(t)
  /\ Writes(t, Ended(t, item[t.item], "needs_input"))
  /\ Returns(t)

(* The extracted data is written first, then admitted as evidence, and the *)
(* item is completed if the lease, whose revision the data is part of,     *)
(* still stands.                                                           *)
StaticExtracts(t, admitted) ==
  /\ TaskStep(t) /\ Static(t) /\ Held(t)
  /\ LET r == [item[t.item] EXCEPT !.data = <<t.rev.brand>>]
     IN Writes(t, IF ~admitted THEN Ended(t, r, "needs_input")
                  ELSE IF LeaseIsCurrent(t, r) THEN Ended(t, r, "completed") ELSE Released(t, r))
  /\ Returns(t)

(* The row is completed before the candidate cohorts are refreshed, which awaits. *)
ProfileExtracts(t) ==
  /\ TaskStep(t) /\ Profiled(t)
  /\ Writes(t, Unclaimed([item[t.item] EXCEPT !.data = <<t.rev.brand>>], "completed"))
  /\ tasks' = (tasks \ {t}) \union {[t EXCEPT !.done = TRUE]}

(* Validation, a lost authority or a variant gate refuse the page. *)
ProfileRefuses(t, status) ==
  /\ TaskStep(t) /\ Profiled(t)
  /\ Writes(t, Unclaimed(item[t.item], status))
  /\ Returns(t)

ProfileThrows(t) ==
  /\ TaskStep(t) /\ Profiled(t)
  /\ LET r == [item[t.item] EXCEPT !.retries = @ + 1]
     IN Writes(t, Unclaimed(r, IF r.retries < 2 THEN "pending" ELSE "failed"))
  /\ Returns(t)

TaskReturns(t) ==
  /\ ~Busy /\ t.done /\ Returns(t)
  /\ UNCHANGED <<item, batch, poll, live, last, clock, edits>>

TaskSteps == \E t \in tasks :
  \/ CurationCommits(t) \/ CurationReleases(t) \/ CurationFails(t)
  \/ StaticRefuses(t) \/ \E admitted \in BOOLEAN : StaticExtracts(t, admitted)
  \/ ProfileExtracts(t) \/ ProfileThrows(t)
  \/ \E status \in {"needs_input", "failed"} : ProfileRefuses(t, status)
  \/ TaskReturns(t)

-----------------------------------------------------------------------------
(* The operator's requests: none asks whether a task is working on the item. *)

Request ==
  /\ ~Busy /\ edits < MaxEdits /\ edits' = edits + 1
  /\ UNCHANGED <<tasks, poll, live, last, clock>>
Changes(i, r) == Request /\ item' = [item EXCEPT ![i] = r] /\ UNCHANGED batch

AssignBrand(i, b) == Changes(i, [item[i] EXCEPT !.brand = b, !.held = FALSE])

StartBatch(all) ==
  /\ Request /\ batch' = "running"
  /\ item' = [i \in Items |-> [item[i] EXCEPT !.held = ~all /\ item[i].brand = None]]

PauseOrResume(state) == Request /\ batch' = state /\ UNCHANGED item

ResetForRetry(i) ==
  Changes(i, Restarted(Unclaimed(
    [item[i] EXCEPT !.out = IF item[i].stage = "review_listings" THEN @ ELSE <<>>], "pending")))

Skip(i) == Changes(i, Unclaimed(item[i], "skipped"))

ResetToStage(i, stage) == Changes(i, Moved(item[i], stage, "completed"))

SendBack(i) ==
  \/ /\ item[i].stage = "prepare_listing"
     /\ Changes(i, Restarted(Moved([item[i] EXCEPT !.out = <<>>], "collect_details", "completed")))
  \/ /\ item[i].stage = "review_listings"
     /\ Changes(i, Restarted(Moved(item[i], "prepare_listing", "completed")))

(* releaseDomainExtractionItems, for a domain with a healthy profile. *)
ReleaseDomain(i) ==
  /\ i \notin StaticItems /\ item[i].stage = "collect_details"
  /\ item[i].status \in {"failed", "needs_input"} /\ item[i].retries < 2
  /\ Changes(i, Restarted(Unclaimed(item[i], "pending")))

Requests ==
  \/ \E i \in Items :
       \/ \E b \in Brands : AssignBrand(i, b)
       \/ ResetForRetry(i) \/ Skip(i) \/ SendBack(i) \/ ReleaseDomain(i)
       \/ \E stage \in Stages : ResetToStage(i, stage)
  \/ \E all \in BOOLEAN : StartBatch(all)
  \/ \E state \in {"paused", "running"} : PauseOrResume(state)

-----------------------------------------------------------------------------
(* Workers come and go: another workspace is opened, or the process ends. *)

StopWorker ==
  /\ ~Busy /\ live # 0 /\ live' = 0
  /\ UNCHANGED <<item, batch, tasks, poll, last, clock, edits>>

Crash ==
  /\ last < MaxWorkers
  /\ live' = 0 /\ tasks' = {} /\ poll' = [w \in Workers |-> "idle"]
  /\ UNCHANGED <<item, batch, last, clock, edits>>

Stale(r) == r.status = "in_progress" /\ r.at + StaleAfter < clock

StartWorker ==
  /\ ~Busy /\ live = 0 /\ last < MaxWorkers
  /\ live' = last + 1 /\ last' = last + 1
  /\ item' = [i \in Items |-> IF Stale(item[i]) THEN Unclaimed(item[i], "pending") ELSE item[i]]
  /\ UNCHANGED <<batch, tasks, poll, clock, edits>>

Tick ==
  /\ clock < MaxClock /\ clock' = clock + 1
  /\ UNCHANGED <<item, batch, tasks, poll, live, last, edits>>

Next ==
  \/ \E w \in Workers : PollStarts(w) \/ SweepEnds(w) \/ ClaimsStage(w)
  \/ \E w \in Workers, i \in Items : AutoAdvances(w, i)
  \/ TaskSteps \/ Requests
  \/ StopWorker \/ Crash \/ StartWorker \/ Tick

Spec == Init /\ [][Next]_vars

-----------------------------------------------------------------------------
(* Every row, task and counter has its type, and a row is claimed exactly  *)
(* while it is in progress (the claim and its status are written together).*)
TypeOK ==
  /\ item \in [Items -> Row] /\ batch \in {"running", "paused"}
  /\ tasks \subseteq Task
  /\ poll \in [Workers -> AutoStages \union {"idle", "sweep"}]
  /\ live \in 0..MaxWorkers /\ last \in Workers
  /\ clock \in 0..MaxClock /\ edits \in 0..MaxEdits
  /\ \A i \in Items : item[i].status = "in_progress" <=> item[i].by # 0

(* A worker never works on one item twice at a time, nor on more items     *)
(* than its limit, whatever is reset, sent back or given back while the    *)
(* first task awaits (the running map of poll()).                          *)
OneTaskPerItem ==
  \A w \in Workers :
    /\ Cardinality(Running(w)) <= MaxConcurrency
    /\ \A t, u \in Running(w) : t.item = u.item => t = u

(* A curation is committed only by the task that holds the item's claim,   *)
(* and only if it was computed from the inputs the item has at the commit: *)
(* an edit, a pause, a reset or another worker in between discards it.     *)
CurationIsCurrent ==
  [][\A i \in Items : item'[i].out \notin {item[i].out, <<>>} =>
       /\ item'[i].out = <<InputRevision(item[i])>> /\ batch = "running"
       /\ \E t \in tasks : t.item = i /\ t.worker = item[i].by /\ t.at = item[i].at
    ]_vars

(* No task that is still running replaces the listing a reviewer looks at. *)
ReviewedOutputStays ==
  [][\A i \in Items : item[i].stage = "review_listings" => item'[i].out = item[i].out]_vars

(* The worker implements the listings it promises: one claim at a time, one *)
(* listing per claim and from current inputs, none lost, none changed under *)
(* review, and none brought there empty but by the operator.               *)
Listings == INSTANCE CuratedListings WITH
  Inputs <- Revisions,
  worker <- live, running <- batch = "running", requests <- edits,
  inputs <- [i \in Items |-> InputRevision(item[i])],
  claim <- [i \in Items |-> item[i].by],
  listing <- [i \in Items |-> item[i].out],
  review <- [i \in Items |-> item[i].stage = "review_listings"]
KeepsListings == Listings!Spec

(* What ADR 0042 asks of item work, leases and compare-and-set: a task     *)
(* changes an item's row only while it holds the item's claim.  The end of *)
(* an extraction with a profile does not ask.                              *)
TasksWriteUnderLease ==
  [][\A t \in tasks : t \notin tasks' /\ item'[t.item] # item[t.item] /\ UNCHANGED <<live, last>>
       => OwnsClaim(t, item[t.item])]_vars

(* What the claim loop says it avoids: an item in progress under the live  *)
(* worker that no task of it works on, which only a restart frees.         *)
NoneStranded ==
  \A i \in Items : item[i].by = live /\ live # 0 =>
    InFlight(live, i) \/ poll[live] \in AutoStages
=============================================================================
