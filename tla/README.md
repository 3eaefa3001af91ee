# Verification of Bay State CMS

Bay State CMS is a local content management system for a ShopSite store. Product
files in a Git repository are the approved catalogue; SQLite keeps everything that
is not approved yet and what is known of the remote store. This directory holds
TLA+ models of its core, the TLC configurations that check them and the TLAPS
proofs about them. Paths below are relative to the repository.

## The system

| Part | State it keeps | Operations | Hard behaviour | Correct when |
|---|---|---|---|---|
| Change sets and approval (`src/server/services/change-set-service.ts`) | `change_sets`, `change_set_items`, `change_set_linked_manifests`, worktree, Git index and log, `product_index`, `product_pages` | stage, edit, discard, approve, recover, export | five stores written one after the other without a common transaction; the process may end, or a step fail, between any two; retries and exports recover | a group is approved whole or not at all, at one commit, audited once; nothing unapproved is left behind; only what was reviewed is exported |
| Storefront family plans (`src/classification/storefront-family-plan-service.ts`) | `storefront_family_plans` | stage a plan as a change set, mark it applied | applied only with a complete receipt | a plan is applied exactly with its approved change set |
| Remote drift (`src/shopsite/drift*.ts`) | `remote_drift` | detect, accept remote, keep local, reconcile, reopen, settle | rows linked to change sets that approve, fail or disappear; accepts commit the whole Git index | a remote difference stays visible until somebody decided it |
| Sync and push (`src/server/routes/sync-routes.ts`, `src/shopsite/family-push-operation.ts`) | `sync_jobs` | push, publish, resume, reconcile | lost answers of ShopSite, resumed jobs, catalogue moving meanwhile | what ShopSite is said to hold is what the approved commit holds |
| Onboarding queue (`src/onboarding/job-queue.ts`, `onboarding-item-repo.ts`) | `onboarding_items`, the worker's running tasks | claim, process, commit, fail, release, requeue, auto-advance, pause, hold | asynchronous tasks and sweeps over claimed rows, restarts, concurrency limits, inputs that change under a running task | an item is worked on once at a time, its result matches its input, no item is stranded |
| Cohort curation runs | `classification_cohort_runs` | superseded at worker start only | no live caller starts one any more | - |
| Sourcing (`src/onboarding/sourcing`) | sourcing attempts | search, decide, reconcile | restarts between attempt and decision | one decision per item generation |
| Store manager (`src/store-manager`) | plans, playbook runs, triggers, schedules | propose, approve, execute, schedule | crashes between steps, approvals of changed plans, missed ticks | an approved step runs once |
| Budgets and limiters (`src/ai`, `src/onboarding/vlm-circuit-breaker.ts`) | reservations, breaker state, queues | reserve, dispatch, settle, probe | unknown outcomes, late answers, cancellation | spending never exceeds the authorisation; one probe at a time |
| Operation receipts (`onboarding-operation-receipt-repo.ts`) | `onboarding_operation_receipts` | begin, complete, replay | retried requests | one effect per key |
| Classification engine, extraction worker, crawler, AI providers, client, scripts | - | - | data, external I/O, presentation | not modelled |

How they interact: requests of the operator reach synchronous Hono handlers. The
approval, drift and discard handlers contain no `await`, so each runs to its end
before the server looks at the next request; what interrupts them is the end of the
process and the failure of a step. Family plans and drift reconciliation create
change sets; an approval settles the drift linked to its set and finalises its plan;
export and push load the approved commit and, on the way, recover interrupted
approvals. The onboarding worker is asynchronous and meets the rest through the
items it promotes to drafts.

Four cores are modelled so far: `LinkedApproval` (change sets, approval, drift,
export), `FamilyPush` (what follows an approval: push, resume, reconcile, against the
store), `ItemClaims` (the onboarding worker) and `PaidEffects` (the budget of paid
provider calls). `ItemClaims` shares no state with the first two: an item meets the
approval path only when it is promoted to a draft, which none contains yet.
`FamilyPush` has a catalogue of its own, in which an approval is one step;
`LinkedApproval` says what that step is made of. `PaidEffects` keeps a ledger of its own
and runs in processes of its own.

## Plan

1. `LinkedApproval`, `ReviewedCatalogue` - approval, with drift and export at the
   granularity approval needs. **Done**, with its proofs.
2. `ItemClaims`, `CuratedListings` - the onboarding worker: polls, claims, tasks,
   requests, restarts and stale claims, from collect_details to review_listings; and
   what it promises of the listings. **Done**, with its proofs. Later: the discovery and
   sourcing legs, promotion to drafts, a property over the claims of a stopped worker.
3. `PaidEffects`, `SpendingCap` - the paid-effect budget, from the calling process to
   the ledger, and the promise it keeps. **Done**, with its proofs.
4. `FamilyPush`, `SyncedFamilies` - push, resume and reconcile-push against a store
   whose answers may be lost; and what a mark "synced" promises. **Done**, with its proofs. Later: standalone pushes, backfill mode, a release
   gate between `LinkedApproval`'s steps and the push.
5. `DriftLifecycle` - hunks, acknowledgements and reconciles of several SKUs, bulk
   decisions; the content of the commits that accepting remote drift makes.
6. `CircuitBreaker`, `OperationReceipts` - small state machines, with full proofs where
   types allow.
7. `PlaybookRun` - approval and execution of store-manager plans.

Further runs planned for `LinkedApproval`: discards of interrupted approvals and the
product index with two sets.

## LinkedApproval

### State

`sets` is `change_sets` with the items' drafts and recorded bases; `manifest` is
`change_set_linked_manifests` (status, commit hash, writes, reads and the durable
snapshot); `commits` the Git log as trees with subjects, HEAD last; `worktree` and
`staged` the files and the Git index; `productIndex` hash and approved commit per SKU;
`joins` the page joins of `product_pages`; `drift` the outstanding drift row per SKU
(open, or linked to a change set); `plan`, `audits` and `exports` the family plan's
status, the approval audit entries and the commits packages were built from. `run` is
the handler in progress: which set, which request, which phase, what it has written.
A product's content, its draft and its comparison hash are one value, because approval
only ever asks whether two of them are equal. A commit subject is the pair of title and
number of products it is made from.

### Actions

The phases of `run` follow `approveChangeSet` from top to bottom. `ApproveDraft` and
`Recover` decide between completing a landed commit (`LandedCommit`), undoing
(`Undoable`, then `Undo`) and going through the gates (`Gate`); `SaveSnapshot`,
`WriteProduct`, `StageFiles` and `CommitGroup` are the mutation; `SetStatus`,
`RecordPointers`, `SettleDrifts`, `RecordAudit`, `MarkManifest`, `FinalizePlan` and
`Finish` are `completePostCommit` in its order; `LoadExport` is the loader with the
gates of the export route. Each step that can throw has a failing form, with what the
code's catch does (`WriteFails`, `CommitFails`, `SetStatusFails`, `CompletionFails`,
the failing alternatives of `SaveSnapshot`, `RecordPointers`, `FinalizePlan`).
`HashUnread` is the failure that does not throw: `getHeadHash` catches an error of git and
answers '' (src/git/git-client.ts:74-83), so the completion of a commit that was made goes
on as one of no commit (`run.commit` is 0). A set approved that way is refused by the next
approval (`RefuseApproved`) and may be bound by a later export (`Recover`). `Crash` ends the process between two steps, `CrashInWrite` and the short forms of `Undo` within
one: a product is written as page joins, file, index row, and an undo puts back files,
Git index, page joins and index rows in that order. `restoreProductPageJoins` is
modelled as what it does, nothing. Standalone sets share the actions; `Standalone` marks where
their code ignores failures and keeps no manifest.

`Stage`, `EditDraft`, `Discard`, `DetectDrift`, `ReconcileDrift`, `ReopenDrift`,
`AcceptRemote` and `KeepLocal` are the requests around approval, each one atomic: they
are synchronous too, and how a crash splits them is left to `DriftLifecycle`.
`AcceptRemote` commits the whole Git index, as the code does.

### Runs

| Run | Instance | Checks |
|---|---|---|
| `recovery` | one linked, planned set of two products, one of them new; two crashes, two failures | `TypeOK`; `GroupIsWhole`; `DirtIsUndoable`: outside a handler every file that differs from HEAD belongs to a pending snapshot; `LandedStays`: landed work is never rolled back; `PointersGoForward`; `EventuallySettled` |
| `two_sets` | a linked set that reads the product a standalone set changes; drift, an edit, discards, exports, a crash, a failure, commits whose hash Git does not report | `ExportIsReviewed`; `AuditedOnce`; `ApprovalNeverMoves`; `CommitsHoldDrafts`: an approval commits its own drafts, not what another interrupted approval left staged; `ImplementsReviewed`: approval implements `ReviewedCatalogue` |
| `landed` | two sets on the same two products, one crash | finds `LandedStays` violated |
| `same_title` | two sets of equal title and size, one crash | finds `GroupIsWhole` violated |
| `joins` | one set, one failing write | finds `JoinsAreRestored` violated |
| `lost_update` | a group and a standalone set on one product, one failure | finds `NoLostUpdate` violated |
| `drift_held` | a reconciling set, one crash, a discard | finds `DriftIsHeld` violated |

`MCLinkedApproval` names the values; all instances have the products p and q (q is
new to the catalogue in some), contents v0 (catalogue), v1, v2 (drafts; v2 is also
remote) and the sets A and B.

Bounds. `MaxCommits` bounds the log (new approvals and accepts start only below it; the
commit an approval makes may be the one above). `MaxCrashes`, `MaxFaults` and
`MaxEdits` bound interruptions and edits over a whole behaviour: two crashes and two
failures cover an interruption, an interrupted recovery and a failing retry of it,
and a third one meets the same durable rows. Two products tell a whole group from a
part and a new file from a changed one; two sets give every order of foreign commit and
recovery. `MCTwoSets` and the violation runs switch the deadlock check off because the
system may really stop there: every set approved or discarded and the commit bound
reached.

Fairness (`FairSpec`, `recovery` only). A handler that started runs on (weak fairness
of `Step`): it is straight-line synchronous code. The operator keeps approving a set
that is not settled and the server serves every request (strong fairness of
`ApproveDraft` and `Recover` for approvals): repeating the approval is the retry the
code's error messages ask for, and it must be strong because an export may be served
in between. Nothing is assumed about crashes and failures but that they end.

### What the violation runs show

- `landed`: recovery compares the announced subject with HEAD only. When another
  commit lands first, the operation's own commit is not seen and its files are put back.
- `same_title`: a subject is title and size; recovery does not compare content, so a
  foreign commit of the same subject is taken for the operation's. Drift reconciles
  produce equal titles.
- `joins`: the undo of page joins builds a transaction and does not run it.
- `lost_update`: the retry restores the older bytes before it checks for a stale base.
- `drift_held`: discarding an approved set whose drift was not settled leaves the drift
  linked to a set that no longer exists.

Each is a finding in `PROJECT.json` with the sentence of the code it contradicts.

One more defect has no run of its own. When `getHeadHash` answers '' after a commit was
made, the completion goes on with it: the set is approved at no commit, its pointers and
manifest name none, and success is reported (:420, :444; :642, :656 for a standalone set).
The next approval is refused (:228) and an export finds no complete commit (:1262-1272),
although the commit is HEAD. :218-220 says that an approved set whose commit exists
"finishes post-commit completion against that same commit instead of failing". With
`HeadMayFail = TRUE` in `MCRecovery.cfg`, TLC finds `GroupIsWhole` violated this way.

### Proofs

All theorems hold for any finite set of products, any change sets, contents, titles and
bounds. `LinkedApprovalProofs` proves `TypeCorrect`. `LinkedApprovalSafety` proves that
`IInv` is inductive and from it `ApprovedGroupIsWhole`, `ApprovalAuditedOnce`,
`ApprovalStays` and `ExportsAreReviewed`; `LinkedApprovalRefines` proves
`ApprovalImplementsReviewed`; `LinkedApprovalUndo` proves what an interrupted approval
leaves behind, `NothingUnapprovedIsLeft`, `LandedIsKept` and `PointersAreKept`, and what an
approval commits, `ApprovalsCommitDrafts`. The proofs share lemmas on what a handler's step
does to `run` (`GoToFields`, `AfterFields`, `GateFields`, `WriteMoves`, `RequestStarts`,
`CompletionMoves`), so that a proof about a step looks at the fields and not at records.

`GroupIsWhole` is not inductive: whether the commit a recovery picks holds the group
depends on what a crash left in the manifest many steps before. `IInv` adds

- `OneCommit`: every commit that the manifest, the approved row, the log since the
  snapshot (by title) or the handler that is completing names for a set is one and the
  same, and it holds all the manifest lists; a set approved at no commit names none;
- `ManifestInv`: a pending manifest names no commit, its snapshot is not newer than the
  log and announces the set's own title;
- `HandlerInv`: what each phase of the handler in progress may rely on: up to its
  commit the set is a draft, past its status step the set is approved;
- `WriteInv`: the products written so far have their drafts in the worktree, the rest is
  still to do, and the drafts are those of the manifest;
- `AuditInv`: one audit at most, and none yet of a set that is still to be audited for
  the first time.

It needs `DistinctTitles` (no two change sets share a title): without it `OneCommit`,
and `GroupIsWhole` itself, are false, which is what `same_title` shows. `ApprovedGroupIsWhole`
also assumes that Git reports the commits it makes (`HeadMayFail = FALSE`, through
`AllBound`): a set approved at no commit has no whole group, see above. `Safety`, `ApprovalAuditedOnce`,
`ApprovalStays`, `ExportsAreReviewed` and the refinement do not: a commit that Git did not
report is still the only one the log and the manifest give the set, so that a set approved
at none can only be bound to that one, and a set approved at a commit
(`ApprovalNeverMoves`) keeps it. For this the proof needs `Unbound`, that only approved
sets have a commit on their row. The theorem about
types needs no such assumption, and neither does `ApprovalsCommitDrafts`
(`CommitsHoldDrafts`, what git-client.ts:58-59 promises of `commitPaths`): `DraftsInv` says
that a handler works on the items of its set only and that each file it wrote still holds
the draft when it is committed, for linked and standalone sets, whatever else is dirty in
the worktree or the Git index. The commit of accepted drift has no handler and takes the
whole index; the theorem says nothing of it. The refinement maps each step, by a lemma per kind
(`Quiet`, `Committed`, `Drafted`, `Approved`, `BoundLater`, `Published`, `Discarded`), to a
step of `ReviewedCatalogue` or a stutter. That catalogue may approve a set at a commit it
does not know (0) and bind it later (`Bind`), once, to a commit that holds the group that
was approved; it publishes nothing before.

`ExportsAreReviewed` (`ExportIsReviewed`) needs `ExportInv` and `IInv`: packages exist of
sets that were approved only; an approved row keeps its commit and its reads until it is
discarded (`RowMoves`), and the log only grows (`LogGrows`, `TreeStays`).

The other three theorems of `LinkedApprovalUndo` hold under named conditions, and each is
false without them:

- `NothingUnapprovedIsLeft` (`DirtIsUndoable`: between handlers, every file or staged
  entry that differs from HEAD belongs to a pending snapshot that can put it back) needs
  `DistinctTitles` and `AllUndoable`. `RInv` says that a handler restores or rewrites a
  group only while that group can still be undone; `DirtInv` says during a handler, too,
  which group's snapshot covers a dirty file (`Covers`). `AllUndoable` has three parts:
  every set is linked (a standalone set keeps no snapshot), no draft is discarded (a
  discard deletes the snapshot and leaves the partial writes, change-set-service.ts:1402),
  and Git reports the commits it makes. Without a hash the completion goes on with no
  commit, and when its status update fails too, the catch finds no landed commit (:444)
  and puts the older files back under the one that landed (:494-498). The order of crashes, failures and retries, other sets' commits and
  drift are unrestricted.
- `LandedIsKept` (`LandedStays`) and `PointersAreKept` (`PointersGoForward`) need
  `NoOtherCommits`: one change set, no drift, and Git reports its
  commits. Recovery compares the
  announced subject with HEAD only, so the commit of another set, or of accepted drift,
  hides the one that landed: `landed` shows it with two sets, and a second set that writes a
  read dependency makes its pointer go back (hazards). `LandedInv` says that every commit
  since a snapshot has the subject that the snapshot announced; `PointerInv` bounds the
  pointers of the index, those of the snapshot and the commit a completion is about to
  record, by each other. Both theorems hold for a linked and a standalone set, for discards,
  edits, reads and any number of products, crashes and failures, and for drafts equal to
  the catalogue, whose approval makes no commit: the run `recovery` has none of these.

Only model-checked: `EventuallySettled`, which is liveness.

### Abstractions

Left out: drafts, manifests or snapshots that do not parse; a commit that the log names
but the repository lost (`commitExists`); other programs working on the repository;
`.gitignore` in the paths of a standalone commit; validation rules about product
content; the bulk discard, which repeats `Discard` in one transaction; the export of a
standalone set, which packages its drafts; best-effort steps of an undo failing one by one.
That `getHeadHash` answers '' is modelled where it follows a commit, not while the snapshot
is taken or a recovery looks at HEAD.

## ItemClaims

### State

`item` is `onboarding_items`: stage, status, the claim (`by`, `at`), the inputs the
code's revision hash is made of as far as the modelled operations change them (brand
hint, hold, extracted data), the curation output and the retry count. `batch` is the
execution state of the batch. `tasks` are the promises in the `running` map of every
worker object, also of a stopped one whose tasks still await; each holds the lease it
was given: worker, time of claim, revision of the inputs. `poll` says where a worker's
poll is, `live` which worker is not stopped. The revision is the record of the inputs
itself, as the hash is compared for equality only; extracted data and outputs carry the
brand and the revision they were computed from, which is what the properties ask of
them.

### Actions

What runs between two awaits of the single server process is one step. `PollStarts`,
`AutoAdvances`, `SweepEnds` and `ClaimsStage` are `poll()`: the sweep yields after each
item, so requests and tasks come between; the loop over the stages has no await, so only
the clock and a crash do (`Busy`). `ClaimsStage` is one pass of the loop: the UPDATE, the
SELECT that reads claims back by worker and time, the race check that gives a row back,
and the start of the tasks with their first check. `CurationCommits`, `CurationReleases`
and `CurationFails` are the ends of `processCuration`; `StaticRefuses` and
`StaticExtracts` those of `processConfirmedPageStaticExtraction`; `ProfileExtracts`,
`ProfileRefuses`, `ProfileThrows` and `TaskReturns` those of the extraction with a
profile, whose cleanup awaits once more after the row is written. `OwnsClaim`,
`LeaseIsCurrent`, `Released` and `Ended` are the guards of the two guarded updates.
`Requests` are the operator's routes, none of which looks at the claim or at running
tasks. `StopWorker`, `Crash` and `StartWorker` are `stop()`, the end of the process and
`start()` with its requeue of stale claims.

### Runs

| Run | Instance | Checks |
|---|---|---|
| `claims` | two items, one of a domain without profile; two successive workers, one request, three clock values | `TypeOK`; `OneTaskPerItem`; `CurationIsCurrent`: a curation reaches its row only through the holder of the claim, from the inputs of that moment, in a running batch; `ReviewedOutputStays`: no late task changes a listing under review; `KeepsListings`: the worker implements `CuratedListings` |
| `lost_lease` | one item with a profile, one worker, one request | finds `TasksWriteUnderLease` violated: the extraction ends over a row it does not hold |
| `stranded` | one item without a profile, no request and no crash | finds `NoneStranded` violated: the data is written before the claim ends and changes its revision, so the end is refused |

Bounds. `MaxWorkers` 2: the worker that stops or dies and its successor. `MaxClock` 2 with
`StaleAfter` 1 is the shortest clock on which a claim goes stale, and on which claims of
one poll fall on one or on two instants. `MaxEdits` 1: one request may come at any point of
any task; each property above is about one task and what one request does under it.
`MaxConcurrency` 2 lets both items be in work; the extraction limit is the same number, as
it is in the constructor's defaults (`job-queue.ts:334-335`), so its own checks never
bite. Two items are the fewest on which the read-back by time and the order of rows matter.
Deadlock is not checked: with the bounds used up the system stops. No fairness is assumed;
liveness is not stated yet, as `stranded` refutes the plain form.

### Proofs

For any items, brands, limits and bounds: `ItemClaimsProofs` proves `ClaimsTypeCorrect`;
`ItemClaimsSafety` proves `CommittedCurationIsCurrent` and `OutputUnderReviewStays` from
the lemma `OutputStep` (each step keeps an output, clears it before the review, or commits
under the current lease), and `WorkersKeepToOneTask` from the invariant `TasksInv`, which
adds that the tasks are finite in number, without which their count says nothing. Its heart
is `FirstBound`: the rows a LIMIT returns are at most as many as the limit. The assumption
is `ClaimConstants`: a finite set of row numbers, positive limits.

`WorkerKeepsListings` is the refinement of `CuratedListings`. A listing is an output, its
inputs those the revision hash is made of, the review the last stage modelled, and the
requests are counted by `edits`, so that what the worker does alone is kept apart from
what an operator asks for. As an action of the worker writes several rows (a pass of
`ClaimsStage`, the sweep), the abstract steps are stated item by item, and the proof maps
row by row: `RowClaims`, `RowLists`, `RowSubmits`, `RowWorks` and `RowHandles` say which
writes of a row are which abstract move, and there is one lemma per action above them. Two
things follow that no other property says: a claim never goes from one worker to another
without being given up, and only an item with a listing comes to the review.

### Abstractions

Left out: the sourcing and discovery legs of the poll and everything before
collect_details, so `SendBack` from collect_details, too; distributor records;
classification runs, preparation gaps and the notes the curation pipeline keeps on the
side; the evidence store, whose answers are choices of the model (`admitted`, and the
alternatives of `CurationReleases` and `CurationFails`); archived batches and duplicates;
drafts, the last stage. The sweep that releases blocked items of a domain is the same
operation as the request (`ReleaseDomain`) and is modelled there. Extracted data of equal
inputs is equal.

## PaidEffects

### State

`auth`, `state`, `cost` and `why` are the ledger: the state of the one authorization, and
of each key the state of its reservation row, its settled cost and its release reason.
`stopped` and `healthy` are the coordinator's two flags, in memory of the parent process.
`call` is what each call of `runPaidEffect` awaits in its child process, `wire` its
requests the parent has not read yet, `reply` the answer to the request it waits for,
`aborted` the calls whose signal fired. `ran` counts how often each key's provider call
was made; `faults` bounds the failures.

### Actions

`Reads` is `handleRequest`: the parent takes the oldest request of a child, and one action
per outcome says what reserve, mark, settle and release do to the ledger. The messages of
a child arrive in order; those of different children in any order. An answer whose
request was given up is dropped (`Answers`). `Steps` is `runPaidEffect` between its awaits,
its catch block included: a call that aborts before its mark was confirmed asks for a
release though the mark may still be on the wire (`ReleasesUnmarked`), and one that aborts
after it is neither made nor released (`StopsAfterMark`). `Closes`, `Bills`,
`BillsTooMuch` and `ParentFails` are the parent's own operations, `Restarts` a new
coordinator on the old ledger, `Dies` the end of a child or of its pipe.

### Runs

| Run | Instance | Checks |
|---|---|---|
| `budget` | four calls on three keys, two contracts; one abort, one failure | `TypeOK`; `CeilingHolds` and `PoolHolds`: reserved, dispatched and billed together stay within the approved ceiling and the pool; `SpentIsCounted`: a call that was made is on the books whatever its child did afterwards; `SpentOnce`: one attempt is made once however often its key is replayed; `ClosedOnlyShrinks`: an ended authorization takes no new liability; `KeepsTheCap`: the ledger implements `SpendingCap`; `CallsEnd` |

Bounds. Call 4 replays the key of call 1; keys 2 and 3 share the contract `credits`. Each
contract has a maximum charge and a pool of one, and the ceiling is one, so each limit is
hit by the second call. One call's descriptor may be bad, one call may be aborted, and one
failure (journal, child or parent) may come at any point. Deadlock is not checked: the
system stops when all calls have ended.

Fairness. The parent reads on while a child has a line for it, and some child goes on while
one can: the transport is an event handler, a provider call has a time limit, and the rest
is straight-line code. Nothing is assumed of the operator, of bills or of failures.

### Proofs

For any finite set of keys and any calls, contracts, charges, pools and ceiling
(`BudgetConstants`). `PaidEffectsProofs` proves all safety properties: type
correctness in two halves, the ledger's rows (`RowsOK`) and the processes
(`ProcessesOK`); the ceiling from `MoneyInv`, which adds that the liabilities are finite,
without which their number says nothing; the pools likewise from `UnitsInv`;
`ClosedOnlyShrinks` from `ClosedInv` (an ended authorization has no reserved row).
`SpentOnce` and `SpentIsCounted` are inductive only with `SpentInv`: a call whose mark was
confirmed and that is not made yet has a dispatched row, alone, that no call was made for.
`BudgetKeepsTheCap` says that each step sets aside, makes, bills, gives back or
stutters in `SpendingCap`. `CallsEnd` is only model-checked: it is liveness.

### Abstractions

Left out: the snapshot; errors of scope binding, idempotency conflicts and authorization
conflicts, which stop a call before its first reservation; calls outside a budget's scope,
which pass through; a provider call that itself throws a budget error, which is not
settled and stays dispatched like one whose settlement was lost. A coordinator's close also ends the children's channels: that is
`Dies`. Amounts are small numbers, and each call takes one unit of its pool.

## FamilyPush

### State

`status`, `cat`, `basis` and `drift` are the catalogue of linked change sets: what is
approved, who wrote each product, the catalogue at each approval's commit, the products
with unresolved drift. `syncStatus` and `pointer` are the two columns of `product_index`
that a push writes. `active` is the active Pages import. `kind`, `of`, `pages`, `planned`,
`refused` and `baseline` are the `sync_jobs` rows with their events; `pc` is what the
handler of each job awaits. `wire` is the job's upload on its way; `live` and `storePages`
are the store. Content is named by who wrote it and the version of the Pages its page
names are rewritten to; that is all the comparison hashes tell apart.

### Actions

A handler runs from one await to the next in one step; requests, other handlers and the
store come between. `StartPush` is a request with all gates; `Plans` downloads and
activates the Pages, records the plan and compares a resume with the earliest attempt;
`Counts` is the census before the upload; `Uploaded` and `Made` the answers of upload and
dbmake; `Verifies` the census after it; `Succeeds` the publish request and the marks, which
follow without an await. `StartReconcile` and `Checks` are reconcile-push. `GivesUp` is
every failure of an await. `Crash` ends the server, perhaps between two marks. The store
is external and modelled from what the client allows for: it holds an upload until dbmake
or imports it at once, imports all of it or a part, and goes on after the client's time
limit; its merchant edits products and renames Pages. `Approves`, `Stages`, `Discards`,
`DriftFound` and `DriftSettled` are the catalogue's requests at the granularity of
`LinkedApproval`'s abstract steps.

### Runs

| Run | Instance | Checks |
|---|---|---|
| `push` | two sets that share a product, one of which refers to a product of the other; a new product; two jobs at once | `TypeOK`; `SyncedIsApproved`: a product that says it is synced has the approved content in its pointer, unless a push of it was overtaken by an approval; `SyncedWasWhole`: what a pointer says of a set, the store has held whole, references included; `ResumeRepeats`: a resume goes on only with the payload of an attempt on record; `KeepsSynced`: push, resume and reconcile implement `SyncedFamilies`; `PushesEnd` |

Bounds. Set a writes k1 and k2, set b writes k2 and k3 and reads k1; k3 is new. Two jobs
give every pair of push, resume and reconcile on one set or on two, at once or in
sequence. Two versions of the Pages are enough for a payload to be of another import. One
event (a merchant's edit or rename, or drift found) and one crash may come at any point.
Two events make 3.5 million states and three jobs more than 4.4, without a new kind of step. Deadlock is
not checked: the system stops when the bounds are used up.

Fairness. Each job's handler goes on (`WF_vars(Handles(j))`): every request it awaits has a
time limit (120 s for a download, 180 s for the upload, 60 s for dbmake, 60 and 90 s
for publishing), and what follows an await is synchronous. The store promises nothing: it
need never answer.

### Proofs

For any products, sets and bounds (`PushConstants`). Typing is inductive with `Located`,
which says what a job has on record where it is (`Typed`). `PointersWereWhole` rests on
`Remembered`: what the store holds whole has been seen, and so has the payload of every job
that may mark. `SyncedProductsAreApproved` rests on `Current`: a running job that no
approval has overtaken sends what is approved. `ResumesRepeat` needs that a non-empty set of
jobs has an earliest one (`EarliestExists`, from the well-foundedness of < on the naturals).

`PushesKeepSynced` is the refinement of `SyncedFamilies`: what the store has held whole is
`seen`, an operation is under way from its gates to its outcome, and every answer of the
store, every wait and every outcome without marks stutters or lets the store hold more. It
uses the invariants above (a job that marks has a payload the store has held) and
`ApprovedInv` at the start of a job, where the gates must leave only approved content.
What it adds is the granularity: the products of a push are marked at once, and only the
end of the server may cut the marks short.

`PushesEnd` is only model-checked: it is liveness.

### What these properties leave open

An approval during a push is not seen by the push: the marks of the older content then
overwrite the newer `not_synced`. `SyncedIsApproved` names exactly these pushes
(`overtaken`) and excludes any other way to a wrong mark. A dbmake that comes late may
overwrite what the index has called synced since, and a crash between two marks leaves
part of a set synced: `SyncedWasWhole` says that the marks were true when they were made,
not that the store keeps the content.

### Abstractions

Left out: pushes of standalone sets, backfill mode, the image archive, checks of the
evidence, audit entries; what `generate.cgi` does to the storefront. A duplicate or blank
SKU in a census is a mismatch like any other. The census of a reconcile and its marks are
one step. Jobs are ordered as they start. The row of a reconcile is made at its start.
Hashes are data: that drift checking may compare other ones (hazards) is left to
`DriftFound`, which may come for any product at any time.

## Not modelled and why

- Drift beyond one row per SKU (hunks, acknowledgements, bulk decisions), the circuit
  breaker, operation receipts, store-manager plans: state machines that fit this approach
  and are next in the plan.
- The inference queue, the acquisition budget and the health monitor: limiters in memory
  without the shared ledger that makes `PaidEffects` hard; after the breaker.
- Discovery and sourcing of onboarding items and their promotion to drafts: wait for an
  extension of `ItemClaims`.
- Cohort curation runs: nothing in the server starts one any more.
- Classification engine: sequential computation whose results are data to the rest.
- Extraction worker, crawler, AI providers: external I/O. Client: presentation. Migrations,
  scripts and benchmarks: run offline.

Only model-checked, in all modules: the liveness properties `EventuallySettled`,
`CallsEnd` and `PushesEnd`. Liveness under fairness is beyond the prover. The properties
of the violation runs are false of the code and have no theorem.
