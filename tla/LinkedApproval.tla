--------------------------- MODULE LinkedApproval ---------------------------
(***************************************************************************)
(* Approval of change sets (src/server/services/change-set-service.ts):    *)
(* the drafts of a change set are written to the worktree, the product     *)
(* index and the page joins, committed to Git, and the approval is then    *)
(* recorded in SQLite.  A linked change set (its products refer to each    *)
(* other) approves as one group and keeps a manifest row from which an     *)
(* interrupted approval is undone or completed; a standalone one does not. *)
(*                                                                         *)
(* The server runs each handler to its end before it starts another, so a  *)
(* handler in progress is one record, run, and its steps interleave only   *)
(* with the end of the process (Crash).  A file's content, a draft and a   *)
(* comparison hash are one value: what the approval tells apart is whether *)
(* two of them are equal.                                                  *)
(***************************************************************************)
EXTENDS Naturals, Sequences, FiniteSets

CONSTANTS
  ChangeSets, Skus, Content, Titles,
  None,          \* no file, no row, no draft, no drift
  Open,          \* a drift no change set reconciles
  Catalogue,     \* product files of the baseline commit
  Remote,        \* what ShopSite holds for each SKU
  Drifting,      \* the SKUs a scan of ShopSite may find changed
  Group,         \* the SKUs each change set is staged with
  DraftContent,  \* the contents an operator may draft in each change set
  Reads,         \* the SKUs its drafts refer to without changing them
  Title,
  Linked,        \* change sets whose drafts refer to each other
  Planned,       \* change sets staged by a storefront family plan
  Discardable,   \* change sets the operator may discard
  HeadMayFail,   \* whether git may make a commit and then fail to report its hash
  MaxCommits, MaxCrashes, MaxFaults, MaxEdits

Files == Content \union {None}

ASSUME ConstantsAssumption ==
  /\ IsFiniteSet(Skus)
  /\ None \notin Content \union ChangeSets \union Titles /\ Open \notin ChangeSets \union {None}
  /\ Catalogue \in [Skus -> Files] /\ Remote \in [Skus -> Content]
  /\ Group \in [ChangeSets -> (SUBSET Skus) \ {{}}] /\ Reads \in [ChangeSets -> SUBSET Skus]
  /\ DraftContent \in [ChangeSets -> SUBSET Content]
  /\ Title \in [ChangeSets -> Titles]
  /\ Planned \subseteq Linked /\ Linked \subseteq ChangeSets
  /\ Discardable \subseteq ChangeSets /\ Drifting \subseteq Skus
  /\ HeadMayFail \in BOOLEAN
  /\ {MaxCommits, MaxCrashes, MaxFaults, MaxEdits} \subseteq Nat

VARIABLES
  sets,          \* change_sets and change_set_items
  manifest,      \* change_set_linked_manifests
  commits,       \* the Git log of the workspace, HEAD last
  worktree, staged,
  productIndex, joins,
  drift,         \* remote_drift: the change set reconciling it, Open or None
  plan, audits,
  exports,       \* the commits a package of the change set was built from
  reply,         \* what the last request on the change set was answered
  run,           \* the handler in progress
  crashes, faults, edits

catalogVars == <<worktree, staged, productIndex, joins>>
bounds == <<crashes, faults, edits>>
vars == <<sets, manifest, commits, catalogVars, drift, plan, audits, exports,
          reply, run, bounds>>

-----------------------------------------------------------------------------
HEAD == Len(commits)

(* GitClient.readFileAtCommit is null for a commit or file that does not resolve. *)
TreeAt(c) == IF c \in 1..HEAD THEN commits[c].tree ELSE [s \in Skus |-> None]
HeadTree == TreeAt(HEAD)

Items(cs) == {s \in Skus : sets[cs].draft[s] # None}
Owned(m) == {s \in Skus : m.writes[s] # None}
Subject(cs) == <<Title[cs], Cardinality(Items(cs))>>
(* Commits of no change set: the bootstrap and accepted drift. *)
OtherSubject == <<None, 0>>

NoRow == [hash |-> None, commit |-> 0]
NoFiles == [s \in Skus |-> None]
NoSnapshot == [files |-> NoFiles, staged |-> NoFiles, joins |-> NoFiles,
               index |-> [s \in Skus |-> NoRow], preHead |-> 0, subject |-> OtherSubject]
NoManifest == [status |-> "absent", commit |-> 0, writes |-> NoFiles,
               reads |-> NoFiles, snapshot |-> NoSnapshot]
NoSet == [status |-> "absent", approved |-> 0, draft |-> NoFiles,
          base |-> NoFiles, baseCommit |-> 0]
Idle == [set |-> None, op |-> "none", phase |-> "idle", todo |-> {}, done |-> {},
         commit |-> 0, action |-> "none", failed |-> FALSE]

Init ==
  /\ sets = [cs \in ChangeSets |-> NoSet]
  /\ manifest = [cs \in ChangeSets |-> NoManifest]
  /\ commits = <<[subject |-> OtherSubject, tree |-> Catalogue]>>
  /\ worktree = Catalogue /\ staged = Catalogue /\ joins = Catalogue
  /\ productIndex = [s \in Skus |-> IF Catalogue[s] = None THEN NoRow
                                    ELSE [hash |-> Catalogue[s], commit |-> 1]]
  /\ drift = [s \in Skus |-> None]
  /\ plan = [cs \in ChangeSets |-> "none"]
  /\ audits = [cs \in ChangeSets |-> 0]
  /\ exports = [cs \in ChangeSets |-> {}]
  /\ reply = [cs \in ChangeSets |-> "none"]
  /\ run = Idle
  /\ crashes = 0 /\ faults = 0 /\ edits = 0

-----------------------------------------------------------------------------
(* Requests that stage, edit and discard change sets, and drift. *)

(* Mutant: the base commit of the set is not recorded. *)
StagedWithoutBase(cs, v) ==
  [status |-> "draft", approved |-> 0,
   draft |-> [s \in Skus |-> IF s \in Group[cs] THEN v ELSE None],
   base |-> [s \in Skus |-> IF s \in Group[cs] THEN worktree[s] ELSE None],
   baseCommit |-> None]

(* A family plan records HEAD as the base commit, a product edit the commit of the bootstrap. *)
StagedSet(cs, v) ==
  [status |-> "draft", approved |-> 0,
   draft |-> [s \in Skus |-> IF s \in Group[cs] THEN v ELSE None],
   base |-> [s \in Skus |-> IF s \in Group[cs] THEN worktree[s] ELSE None],
   baseCommit |-> IF cs \in Planned THEN HEAD ELSE 1]

Stage(cs, v) ==
  /\ run = Idle /\ sets[cs].status = "absent"
  /\ sets' = [sets EXCEPT ![cs] = StagedSet(cs, v)]
  /\ plan' = [plan EXCEPT ![cs] = IF cs \in Planned THEN "accepted" ELSE "none"]
  /\ UNCHANGED <<manifest, commits, catalogVars, drift, audits, exports, reply, run, bounds>>

(* An edit lands in a draft change set whatever its approval has already done. *)
EditDraft(cs, s, v) ==
  /\ run = Idle /\ sets[cs].status = "draft" /\ edits < MaxEdits
  /\ sets' = [sets EXCEPT ![cs].draft[s] = v,
                          ![cs].base[s] = IF worktree[s] # None THEN worktree[s] ELSE @]
  /\ edits' = edits + 1
  /\ UNCHANGED <<manifest, commits, catalogVars, drift, plan, audits, exports,
                 reply, run, crashes, faults>>

(* Discarding deletes the rows and leaves the worktree as it is. *)
Discard(cs) ==
  /\ run = Idle /\ cs \in Discardable /\ sets[cs].status \in {"draft", "approved"}
  /\ sets' = [sets EXCEPT ![cs] = [NoSet EXCEPT !.status = "discarded"]]
  /\ manifest' = [manifest EXCEPT ![cs] = NoManifest]
  /\ drift' = IF sets[cs].status = "draft"
              THEN [s \in Skus |-> IF drift[s] = cs THEN Open ELSE drift[s]]
              ELSE drift
  /\ UNCHANGED <<commits, catalogVars, plan, audits, exports, reply, run, bounds>>

DetectDrift(s) ==
  /\ run = Idle /\ s \in Drifting /\ drift[s] = None /\ worktree[s] \notin {None, Remote[s]}
  /\ drift' = [drift EXCEPT ![s] = Open]
  /\ UNCHANGED <<sets, manifest, commits, catalogVars, plan, audits, exports, reply, run, bounds>>

(* The base is the local side frozen in the drift row, which may be older than the live file. *)
ReconcileDrift(cs, s, v, b) ==
  /\ run = Idle /\ sets[cs].status = "absent" /\ drift[s] = Open /\ Group[cs] = {s}
  /\ b \in {worktree[s], HeadTree[s], Catalogue[s]}
  /\ sets' = [sets EXCEPT ![cs] = [StagedSet(cs, v) EXCEPT !.base[s] = b, !.baseCommit = HEAD]]
  /\ drift' = [drift EXCEPT ![s] = cs]
  /\ UNCHANGED <<manifest, commits, catalogVars, plan, audits, exports, reply, run, bounds>>

(* The change set is kept, but no longer settles the drift. *)
ReopenDrift(s) ==
  /\ run = Idle /\ drift[s] \in ChangeSets
  /\ drift' = [drift EXCEPT ![s] = Open]
  /\ UNCHANGED <<sets, manifest, commits, catalogVars, plan, audits, exports, reply, run, bounds>>

(* Accepting the remote product commits the whole Git index.  With nothing staged
   to commit, git fails when some other file is dirty, after the files were written. *)
AcceptRemote(s) ==
  /\ run = Idle /\ drift[s] = Open /\ worktree[s] # None /\ HEAD < MaxCommits
  /\ worktree' = [worktree EXCEPT ![s] = Remote[s]]
  /\ staged' = [staged EXCEPT ![s] = Remote[s]]
  /\ LET commit == staged' # HeadTree
         refused == ~commit /\ worktree' # staged'
     IN /\ commits' = IF commit
                      THEN Append(commits, [subject |-> OtherSubject, tree |-> staged'])
                      ELSE commits
        /\ productIndex' = [productIndex EXCEPT ![s] =
             [hash |-> Remote[s], commit |-> IF commit THEN HEAD + 1 ELSE @.commit]]
        /\ drift' = IF refused THEN drift ELSE [drift EXCEPT ![s] = None]
  /\ UNCHANGED <<sets, manifest, joins, plan, audits, exports, reply, run, bounds>>

KeepLocal(s) ==
  /\ run = Idle /\ drift[s] = Open
  /\ drift' = [drift EXCEPT ![s] = None]
  /\ UNCHANGED <<sets, manifest, commits, catalogVars, plan, audits, exports, reply, run, bounds>>

-----------------------------------------------------------------------------
(* What the durable rows say of an interrupted approval. *)

(* Mutants: only the manifest tells that a commit landed; any newer HEAD is taken for it. *)
LandedInManifest(cs) == manifest[cs].commit
LandedWhateverSubject(cs) ==
  LET m == manifest[cs]
  IN IF m.commit # 0 THEN m.commit
     ELSE IF m.status = "pending" /\ HEAD # m.snapshot.preHead THEN HEAD ELSE 0

(* The commit the operation is taken to have landed as, 0 when there is none:
   the manifest's, or HEAD when HEAD moved and carries the subject the snapshot
   announced.  Neither the commit's content nor older commits are looked at. *)
LandedCommit(cs) ==
  LET m == manifest[cs]
  IN IF m.commit # 0 THEN m.commit
     ELSE IF /\ m.status = "pending"
             /\ HEAD # m.snapshot.preHead
             /\ commits[HEAD].subject = m.snapshot.subject
          THEN HEAD
          ELSE 0

(* The snapshot that undoes an operation that did not land. *)
Undoable(cs) == manifest[cs].status = "pending" /\ LandedCommit(cs) = 0

At(cs, phase) == run.set = cs /\ run.phase = phase
GoTo(phase) == run' = [run EXCEPT !.phase = phase]

Start(cs, op, phase) == run' = [Idle EXCEPT !.set = cs, !.op = op, !.phase = phase]
Complete(cs, op, c, action) ==
  run' = [Idle EXCEPT !.set = cs, !.op = op, !.phase = "status", !.commit = c, !.action = action]

Answer(cs, r) == run' = Idle /\ reply' = [reply EXCEPT ![cs] = r]

rowVars == <<sets, manifest, commits, catalogVars, drift, plan, audits, exports>>

-----------------------------------------------------------------------------
(* approveChangeSet, recoverLinkedApproval and loadApprovedLinkedExport up to
   the first write. *)

(* A draft: complete a landed commit, else undo what was left, else the gates. *)
ApproveDraft(cs) ==
  /\ run = Idle /\ sets[cs].status = "draft" /\ HEAD < MaxCommits
  /\ \/ cs \in Linked /\ LandedCommit(cs) # 0
        /\ Complete(cs, "approve", LandedCommit(cs), "recovered")
     \/ cs \in Linked /\ Undoable(cs) /\ Start(cs, "approve", "restoreThenGate")
     \/ cs \in Linked /\ LandedCommit(cs) = 0 /\ ~Undoable(cs) /\ Start(cs, "approve", "gates")
     \/ cs \notin Linked /\ Start(cs, "approve", "gates")
  /\ UNCHANGED <<rowVars, reply, bounds>>

(* An approved change set without a commit is not approved again. *)
RefuseApproved(cs) ==
  /\ run = Idle /\ sets[cs].status = "approved" /\ sets[cs].approved = 0
  /\ Answer(cs, "failed")
  /\ UNCHANGED <<rowVars, bounds>>

(* An approved change set, approved again or exported, and a draft exported. *)
Recover(cs, op) ==
  /\ run = Idle
  /\ \/ op = "approve" /\ sets[cs].status = "approved" /\ sets[cs].approved # 0
     \/ op = "export" /\ cs \in Linked /\ sets[cs].status \in {"draft", "approved"}
  /\ \/ /\ LandedCommit(cs) # 0
        /\ Complete(cs, op, LandedCommit(cs), "recovered") /\ UNCHANGED reply
     \/ /\ Undoable(cs)
        /\ Start(cs, op, "restore") /\ UNCHANGED reply
     \/ /\ manifest[cs].status # "pending" /\ manifest[cs].commit = 0
        /\ IF sets[cs].status = "approved" /\ sets[cs].approved # 0
           THEN Complete(cs, op, sets[cs].approved, "recovered") /\ UNCHANGED reply
           ELSE Answer(cs, "failed")
  /\ UNCHANGED <<rowVars, bounds>>

(* restoreOwnedWrites: the files, the Git index and the product index rows of the
   snapshot, in that order; k of the three are done when the process ends early.
   restoreProductPageJoins builds a transaction and never runs it, so the page
   joins stay as they are. *)
RestoreOwned(cs, k) ==
  LET m == manifest[cs]
      back(now, before) == [s \in Skus |-> IF s \in Owned(m) THEN before[s] ELSE now[s]]
  IN /\ worktree' = IF k >= 1 THEN back(worktree, m.snapshot.files) ELSE worktree
     /\ staged' = IF k >= 2 THEN back(staged, m.snapshot.staged) ELSE staged
     /\ productIndex' = IF k >= 3 THEN back(productIndex, m.snapshot.index) ELSE productIndex
     /\ UNCHANGED joins

Undo(cs, k) ==
  /\ \/ At(cs, "restore") \/ At(cs, "restoreThenGate")
  /\ RestoreOwned(cs, k)
  /\ \/ /\ k = 3 /\ run.phase = "restore" /\ Answer(cs, "failed")
        /\ UNCHANGED crashes
     \/ /\ k = 3 /\ run.phase = "restoreThenGate" /\ GoTo("gates")
        /\ UNCHANGED <<reply, crashes>>
     \/ /\ k < 3 /\ crashes < MaxCrashes
        /\ crashes' = crashes + 1 /\ run' = Idle /\ UNCHANGED reply
  /\ UNCHANGED <<sets, manifest, commits, drift, plan, audits, exports, faults, edits>>

-----------------------------------------------------------------------------
(* The gates and the durable snapshot. *)

ReadSkus(cs) == Reads[cs] \ Items(cs)

(* Pointers of unchanged members are set back to the base commit, however new they are. *)
RefreshedIndex(cs) ==
  LET at == TreeAt(sets[cs].baseCommit)
  IN [s \in Skus |-> IF cs \in Linked /\ s \in ReadSkus(cs) /\ at[s] # None
                     THEN [hash |-> at[s], commit |-> sets[cs].baseCommit]
                     ELSE productIndex[s]]

LinkedGatesPass(cs) ==
  /\ \A other \in ChangeSets \ {cs} :
       sets[other].status = "draft" => Items(other) \intersect (Items(cs) \union Reads[cs]) = {}
  /\ \A s \in Items(cs) : sets[cs].base[s] # None => worktree[s] = sets[cs].base[s]
  /\ \A s \in ReadSkus(cs) : TreeAt(sets[cs].baseCommit)[s] # None
  /\ \A s \in Items(cs) \union ReadSkus(cs) : drift[s] \in {None, cs}

GatesPass(cs) ==
  IF cs \in Linked THEN LinkedGatesPass(cs) ELSE \A s \in Items(cs) : drift[s] # Open

Gate(cs) ==
  /\ At(cs, "gates")
  /\ productIndex' = RefreshedIndex(cs)
  /\ IF GatesPass(cs)
     THEN /\ run' = [run EXCEPT !.phase = IF cs \in Linked THEN "snapshot" ELSE "write",
                                !.todo = Items(cs), !.action = "approved"]
          /\ UNCHANGED reply
     ELSE Answer(cs, "failed")
  /\ UNCHANGED <<sets, manifest, commits, worktree, staged, joins, drift, plan,
                 audits, exports, bounds>>

SnapshotOf(cs) ==
  LET own(f, none) == [s \in Skus |-> IF s \in Items(cs) THEN f[s] ELSE none]
  IN [files |-> own(worktree, None), staged |-> own(staged, None), joins |-> own(joins, None),
      index |-> own(productIndex, NoRow), preHead |-> HEAD, subject |-> Subject(cs)]

(* Mutant: the writes start without a durable snapshot. *)
WriteWithoutSnapshot(cs) ==
  /\ At(cs, "snapshot") /\ GoTo("write")
  /\ UNCHANGED <<sets, manifest, commits, catalogVars, drift, plan, audits, exports, reply, bounds>>

(* A pending save clears the commit hash of the row it replaces.  When the save
   fails the group is undone, and the row saved after that or not at all. *)
SaveSnapshot(cs) ==
  /\ At(cs, "snapshot")
  /\ \/ GoTo("write") /\ UNCHANGED faults
     \/ GoTo("restore") /\ faults < MaxFaults /\ faults' = faults + 1
  /\ \/ run'.phase = "restore" /\ UNCHANGED manifest
     \/ manifest' = [manifest EXCEPT ![cs] =
       [status |-> "pending", commit |-> 0, writes |-> sets[cs].draft,
        reads |-> [s \in Skus |-> IF s \in ReadSkus(cs) THEN TreeAt(sets[cs].baseCommit)[s] ELSE None],
        snapshot |-> SnapshotOf(cs)]]
  /\ UNCHANGED <<sets, commits, catalogVars, drift, plan, audits, exports, reply, crashes, edits>>

-----------------------------------------------------------------------------
(* The writes and the commit. *)

(* One product: its page joins, its file, its index row.  k of the three are done
   when a write fails or the process ends. *)
WriteParts(cs, s, k) ==
  LET d == sets[cs].draft[s]
  IN /\ joins' = IF k >= 1 THEN [joins EXCEPT ![s] = d] ELSE joins
     /\ worktree' = IF k >= 2 THEN [worktree EXCEPT ![s] = d] ELSE worktree
     /\ productIndex' = IF k >= 3 THEN [productIndex EXCEPT ![s].hash = d] ELSE productIndex
     /\ UNCHANGED staged

(* Mutant: the group is committed after its first product. *)
AfterFirstProduct(s, written) ==
  [run EXCEPT !.todo = @ \ {s}, !.done = @ \union written, !.phase = "stage"]

AfterProduct(s, written) ==
  LET todo == run.todo \ {s}
      done == run.done \union written
  IN [run EXCEPT !.todo = todo, !.done = done,
                 !.phase = IF todo = {} THEN "stage" ELSE "write"]

WriteProduct(cs, s) ==
  /\ At(cs, "write") /\ s \in run.todo
  /\ WriteParts(cs, s, 3)
  /\ run' = AfterProduct(s, {s})
  /\ UNCHANGED <<sets, manifest, commits, drift, plan, audits, exports, reply, bounds>>

(* A failed write undoes a linked group and skips the product of a standalone set. *)
WriteFails(cs, s, k) ==
  /\ At(cs, "write") /\ s \in run.todo /\ k < 3 /\ faults < MaxFaults
  /\ WriteParts(cs, s, k) /\ faults' = faults + 1
  /\ IF cs \in Linked
     THEN GoTo("restore") /\ UNCHANGED reply
     ELSE IF run.todo = {s} /\ run.done = {}
          THEN Answer(cs, "failed")
          ELSE run' = AfterProduct(s, {}) /\ UNCHANGED reply
  /\ UNCHANGED <<sets, manifest, commits, drift, plan, audits, exports, crashes, edits>>

CrashInWrite(cs, s, k) ==
  /\ At(cs, "write") /\ s \in run.todo /\ k \in 1..2 /\ crashes < MaxCrashes
  /\ WriteParts(cs, s, k) /\ crashes' = crashes + 1 /\ run' = Idle
  /\ UNCHANGED <<sets, manifest, commits, drift, plan, audits, exports, reply, faults, edits>>

StageFiles(cs) ==
  /\ At(cs, "stage")
  /\ staged' = [s \in Skus |-> IF s \in run.done THEN worktree[s] ELSE staged[s]]
  /\ GoTo("commit")
  /\ UNCHANGED <<sets, manifest, commits, worktree, productIndex, joins, drift, plan,
                 audits, exports, reply, bounds>>

(* Mutant: git commit without paths takes the whole Git index. *)
CommittedIndex(cs) ==
  IF staged = HeadTree THEN commits
  ELSE Append(commits, [subject |-> <<Title[cs], Cardinality(run.done)>>, tree |-> staged])

(* The commit takes the written paths only; with nothing to commit it is HEAD. *)
CommittedLog(cs) ==
  LET tree == [s \in Skus |-> IF s \in run.done THEN worktree[s] ELSE HeadTree[s]]
  IN IF tree = HeadTree THEN commits
     ELSE Append(commits, [subject |-> <<Title[cs], Cardinality(run.done)>>, tree |-> tree])

CommitGroup(cs) ==
  /\ At(cs, "commit")
  /\ commits' = CommittedLog(cs)
  /\ run' = [run EXCEPT !.phase = "status", !.commit = Len(commits')]
  /\ UNCHANGED <<sets, manifest, catalogVars, drift, plan, audits, exports, reply, bounds>>

(* getHeadHash answers '' when git fails: a commit that was made is then completed
   as no commit.  A linked group with nothing to commit asks first, and fails. *)
HashUnread(cs) ==
  /\ At(cs, "commit") /\ HeadMayFail
  /\ commits' = CommittedLog(cs) /\ (cs \in Linked => commits' # commits)
  /\ run' = [run EXCEPT !.phase = "status", !.commit = 0]
  /\ UNCHANGED <<sets, manifest, catalogVars, drift, plan, audits, exports, reply, bounds>>

(* git add or commit fails, or HEAD cannot be read before there is a commit. *)
CommitFails(cs) ==
  /\ run.phase \in {"stage", "commit"} /\ run.set = cs /\ faults < MaxFaults
  /\ faults' = faults + 1
  /\ IF cs \in Linked THEN GoTo("restore") /\ UNCHANGED reply ELSE Answer(cs, "failed")
  /\ UNCHANGED <<sets, manifest, commits, catalogVars, drift, plan, audits, exports, crashes, edits>>

-----------------------------------------------------------------------------
(* completePostCommit, and the end of approveStandaloneChangeSet, which ignores
   what fails after the commit and has no manifest or plan. *)

Standalone(cs) == cs \notin Linked /\ run.action = "approved"

(* No commit leaves the recorded one as it is. *)
SetStatus(cs) ==
  /\ At(cs, "status")
  /\ sets' = [sets EXCEPT ![cs].status = "approved",
                          ![cs].approved = IF run.commit # 0 THEN run.commit ELSE @]
  /\ GoTo("pointers")
  /\ UNCHANGED <<manifest, commits, catalogVars, drift, plan, audits, exports, reply, bounds>>

(* Throws out of the completion: the approval keeps the commit in the manifest, and
   without one puts the files back under the commit that landed. *)
SetStatusFails(cs) ==
  /\ At(cs, "status") /\ faults < MaxFaults /\ faults' = faults + 1
  /\ IF run.commit = 0 /\ cs \in Linked
     THEN GoTo("restore") /\ UNCHANGED <<manifest, reply>>
     ELSE /\ manifest' = IF run.action = "approved" /\ manifest[cs].status # "absent"
                         THEN [manifest EXCEPT ![cs].status = "committed", ![cs].commit = run.commit]
                         ELSE manifest
          /\ Answer(cs, "failed")
  /\ UNCHANGED <<sets, commits, catalogVars, drift, plan, audits, exports, crashes, edits>>

(* Every item's pointer is set, whether or not the commit holds its draft; a
   missing row is rebuilt from the commit.  The pointers of bad are not recorded. *)
RecordPointers(cs, bad) ==
  /\ At(cs, "pointers") /\ bad \subseteq (IF Standalone(cs) THEN run.done ELSE Items(cs))
  /\ bad # {} => faults < MaxFaults
  /\ faults' = IF bad = {} THEN faults ELSE faults + 1
  /\ LET recorded == (IF Standalone(cs) THEN run.done ELSE Items(cs)) \ bad
         at == TreeAt(run.commit)
         lost == {s \in recorded : productIndex[s].hash = None /\ at[s] = None}
         row(s) == IF productIndex[s].hash # None THEN productIndex[s].hash ELSE at[s]
     IN /\ productIndex' = [s \in Skus |-> IF s \in recorded \ lost
                                           THEN [hash |-> row(s), commit |-> run.commit]
                                           ELSE productIndex[s]]
        /\ run' = [run EXCEPT !.phase = "drifts", !.failed = ~Standalone(cs) /\ bad \union lost # {}]
  /\ UNCHANGED <<sets, manifest, commits, worktree, staged, joins, drift, plan,
                 audits, exports, reply, crashes, edits>>

(* Drift of the set resolves against the live file, or is open again. *)
SettleDrifts(cs) ==
  /\ At(cs, "drifts")
  /\ drift' = [s \in Skus |-> IF drift[s] # cs \/ worktree[s] = None THEN drift[s]
                              ELSE IF worktree[s] = Remote[s] THEN None ELSE Open]
  /\ GoTo("audit")
  /\ UNCHANGED <<sets, manifest, commits, catalogVars, plan, audits, exports, reply, bounds>>

(* Mutant: every completion records an audit. *)
AuditEveryTime(cs) ==
  /\ At(cs, "audit")
  /\ audits' = [audits EXCEPT ![cs] = @ + 1]
  /\ GoTo(IF Standalone(cs) THEN "finish" ELSE "mark")
  /\ UNCHANGED <<sets, manifest, commits, catalogVars, drift, plan, exports, reply, bounds>>

RecordAudit(cs) ==
  /\ At(cs, "audit")
  /\ audits' = IF Standalone(cs) \/ audits[cs] = 0 THEN [audits EXCEPT ![cs] = @ + 1] ELSE audits
  /\ GoTo(IF Standalone(cs) THEN "finish" ELSE "mark")
  /\ UNCHANGED <<sets, manifest, commits, catalogVars, drift, plan, exports, reply, bounds>>

MarkManifest(cs) ==
  /\ At(cs, "mark")
  /\ manifest' = IF manifest[cs].status = "absent" THEN manifest
                 ELSE [manifest EXCEPT ![cs].commit = run.commit, ![cs].status =
                         IF run.action = "approved" THEN "committed" ELSE "recovered"]
  /\ GoTo("plan")
  /\ UNCHANGED <<sets, commits, catalogVars, drift, plan, audits, exports, reply, bounds>>

(* Drift, audit and manifest each fail on their own; without the mark the plan is not reached. *)
CompletionFails(cs) ==
  /\ run.set = cs /\ run.phase \in {"drifts", "audit", "mark"} /\ faults < MaxFaults
  /\ faults' = faults + 1
  /\ IF Standalone(cs) /\ run.phase = "audit"
     THEN Answer(cs, "failed")
     ELSE /\ run' = [run EXCEPT !.failed = ~Standalone(cs),
                       !.phase = CASE run.phase = "drifts" -> "audit"
                                   [] run.phase = "audit" -> "mark"
                                   [] OTHER -> "finish"]
          /\ UNCHANGED reply
  /\ UNCHANGED <<rowVars, crashes, edits>>

PlanReceiptComplete(cs) ==
  /\ plan[cs] # "none" /\ run.commit # 0 /\ manifest[cs].status # "absent"
  /\ sets[cs].draft = manifest[cs].writes

(* A plan without a commit, or whose receipt does not match its drafts, throws; the throw is kept as a
   message that nothing reads once the manifest is marked. *)
FinalizePlan(cs) ==
  /\ At(cs, "plan")
  /\ \/ plan' = [plan EXCEPT ![cs] = IF PlanReceiptComplete(cs) THEN "applied" ELSE @]
        /\ UNCHANGED faults
     \/ faults < MaxFaults /\ faults' = faults + 1 /\ UNCHANGED plan
  /\ GoTo("finish")
  /\ UNCHANGED <<sets, manifest, commits, catalogVars, drift, audits, exports, reply, crashes, edits>>

(* An incomplete completion makes the manifest pending again, without its commit. *)
Finish(cs) ==
  /\ At(cs, "finish")
  /\ IF run.failed
     THEN /\ Answer(cs, "failed")
          /\ manifest' = IF manifest[cs].status \in {"committed", "recovered"}
                         THEN [manifest EXCEPT ![cs].status = "pending", ![cs].commit = 0]
                         ELSE manifest
     ELSE /\ IF run.op = "export" THEN GoTo("load") /\ UNCHANGED reply ELSE Answer(cs, "ok")
          /\ UNCHANGED manifest
  /\ UNCHANGED <<sets, commits, catalogVars, drift, plan, audits, exports, bounds>>

-----------------------------------------------------------------------------
(* Export: the loader's checks and those of the export route. *)

(* Mutant: the members a group reads are not compared with the approved commit. *)
ExportWithoutReads(cs) ==
  LET m == manifest[cs]
      tree == TreeAt(sets[cs].approved)
      members == Owned(m) \union {s \in Skus : m.reads[s] # None}
  IN /\ sets[cs].approved # 0 /\ m.status # "absent"
     /\ \A s \in members : drift[s] = None /\ tree[s] # None /\ worktree[s] = tree[s]
     /\ \A other \in ChangeSets \ {cs} :
          sets[other].status = "draft" => Items(other) \intersect members = {}

ExportReady(cs) ==
  LET m == manifest[cs]
      tree == TreeAt(sets[cs].approved)
      members == Owned(m) \union {s \in Skus : m.reads[s] # None}
  IN /\ sets[cs].approved # 0 /\ m.status # "absent"
     /\ \A s \in members : m.reads[s] # None => tree[s] = m.reads[s]
     /\ \A s \in members : drift[s] = None /\ tree[s] # None /\ worktree[s] = tree[s]
     /\ \A other \in ChangeSets \ {cs} :
          sets[other].status = "draft" => Items(other) \intersect members = {}

LoadExport(cs) ==
  /\ At(cs, "load")
  /\ IF ExportReady(cs)
     THEN /\ exports' = [exports EXCEPT ![cs] = @ \union {sets[cs].approved}]
          /\ Answer(cs, "ok")
     ELSE Answer(cs, "failed") /\ UNCHANGED exports
  /\ UNCHANGED <<sets, manifest, commits, catalogVars, drift, plan, audits, bounds>>

(* The process ends between two steps; what it wrote stays. *)
Crash ==
  /\ run # Idle /\ crashes < MaxCrashes
  /\ crashes' = crashes + 1 /\ run' = Idle
  /\ UNCHANGED <<rowVars, reply, faults, edits>>

-----------------------------------------------------------------------------
Step(cs) ==
  \/ \E k \in 0..3 : Undo(cs, k)
  \/ Gate(cs) \/ SaveSnapshot(cs)
  \/ \E s \in Skus : WriteProduct(cs, s) \/ \E k \in 0..2 : WriteFails(cs, s, k) \/ CrashInWrite(cs, s, k)
  \/ StageFiles(cs) \/ CommitGroup(cs) \/ HashUnread(cs) \/ CommitFails(cs)
  \/ SetStatus(cs) \/ SetStatusFails(cs) \/ \E bad \in SUBSET Skus : RecordPointers(cs, bad)
  \/ SettleDrifts(cs) \/ RecordAudit(cs) \/ MarkManifest(cs) \/ CompletionFails(cs)
  \/ FinalizePlan(cs) \/ Finish(cs) \/ LoadExport(cs)

Request(cs) ==
  \/ \E v \in DraftContent[cs] : Stage(cs, v)
  \/ \E s \in Skus, v \in DraftContent[cs] : EditDraft(cs, s, v)
  \/ Discard(cs)
  \/ \E s \in Skus, v \in DraftContent[cs], b \in Files : ReconcileDrift(cs, s, v, b)
  \/ ApproveDraft(cs) \/ RefuseApproved(cs) \/ Recover(cs, "approve") \/ Recover(cs, "export")

Next ==
  \/ \E cs \in ChangeSets : Request(cs) \/ Step(cs)
  \/ \E s \in Skus : DetectDrift(s) \/ AcceptRemote(s) \/ KeepLocal(s) \/ ReopenDrift(s)
  \/ Crash

Spec == Init /\ [][Next]_vars

(* The operator repeats the approval and the server serves every request in turn,
   whatever exports it serves in between; a handler that started runs on. *)
FairSpec ==
  /\ Spec
  /\ \A cs \in ChangeSets : SF_vars(ApproveDraft(cs)) /\ SF_vars(Recover(cs, "approve"))
                            /\ WF_vars(Step(cs))

-----------------------------------------------------------------------------
(* Properties. *)

Subjects == (Titles \union {None}) \X Nat
FileMap == [Skus -> Files]
Commit == [subject : Subjects, tree : FileMap]
Row == [hash : Files, commit : Nat]
Snapshot == [files : FileMap, staged : FileMap, joins : FileMap,
             index : [Skus -> Row], preHead : Nat, subject : Subjects]
ManifestRow == [status : {"absent", "pending", "committed", "recovered"}, commit : Nat,
                writes : FileMap, reads : FileMap, snapshot : Snapshot]
ChangeSetRow == [status : {"absent", "draft", "approved", "discarded"}, approved : Nat,
                 draft : FileMap, base : FileMap, baseCommit : Nat]
Phases == {"idle", "gates", "snapshot", "write", "stage", "commit", "restore", "restoreThenGate",
           "status", "pointers", "drifts", "audit", "mark", "plan", "finish", "load"}
Run == [set : ChangeSets \union {None}, op : {"none", "approve", "export"}, phase : Phases,
        todo : SUBSET Skus, done : SUBSET Skus, commit : Nat,
        action : {"none", "approved", "recovered"}, failed : BOOLEAN]

(* Every row, file, commit and handler state has its type. *)
TypeOK ==
  /\ sets \in [ChangeSets -> ChangeSetRow]
  /\ manifest \in [ChangeSets -> ManifestRow]
  /\ commits \in Seq(Commit) /\ Len(commits) >= 1
  /\ worktree \in FileMap /\ staged \in FileMap /\ joins \in FileMap
  /\ productIndex \in [Skus -> Row]
  /\ drift \in [Skus -> ChangeSets \union {None, Open}]
  /\ plan \in [ChangeSets -> {"none", "accepted", "applied"}]
  /\ audits \in [ChangeSets -> Nat]
  /\ exports \in [ChangeSets -> SUBSET Nat]
  /\ reply \in [ChangeSets -> {"none", "ok", "failed"}]
  /\ run \in Run
  /\ crashes \in Nat /\ faults \in Nat /\ edits \in Nat

(* The commit a linked change set is approved at holds every draft its manifest
   lists, with the content recorded before the first write: an interrupted and
   recovered approval never binds a commit that lacks part of the group. *)
GroupIsWhole ==
  \A cs \in Linked :
    sets[cs].status = "approved" =>
      \A s \in Owned(manifest[cs]) : TreeAt(sets[cs].approved)[s] = manifest[cs].writes[s]

(* What leaves for ShopSite is the commit the change set is approved at, and the
   members it reads are in it as they were when the group was checked. *)
ExportIsReviewed ==
  \A cs \in ChangeSets : \A c \in exports[cs] : sets[cs].status = "approved" =>
    /\ c = sets[cs].approved
    /\ \A s \in Skus : manifest[cs].reads[s] # None => TreeAt(c)[s] = manifest[cs].reads[s]

(* The approval implements the catalogue it promises: commits are only added, a
   set is approved once, the one commit it is bound to holds its group, and only
   that commit is published. *)
Reviewed == INSTANCE ReviewedCatalogue WITH
  log <- [c \in 1..HEAD |-> commits[c].tree],
  status <- [cs \in ChangeSets |-> sets[cs].status],
  bound <- [cs \in ChangeSets |-> IF sets[cs].status = "approved" THEN sets[cs].approved ELSE 0],
  group <- [cs \in ChangeSets |-> IF sets[cs].status = "approved" THEN manifest[cs].writes ELSE NoFiles],
  published <- exports
ImplementsReviewed == Reviewed!Spec

(* However often an approval is interrupted and retried, it is audited once. *)
AuditedOnce == \A cs \in ChangeSets : audits[cs] <= 1

(* Outside a handler, a file that differs from HEAD belongs to an operation whose
   pending snapshot can still undo it: nothing unapproved is left behind. *)
DirtIsUndoable ==
  run = Idle =>
    \A s \in Skus : worktree[s] # HeadTree[s] \/ staged[s] # HeadTree[s] =>
      \E cs \in Linked : Undoable(cs) /\ s \in Owned(manifest[cs])

(* Owned files are put back only while the operation has no commit of its own:
   work that landed is never rolled back. *)
LandedStays ==
  run.phase \in {"restore", "restoreThenGate"} /\ manifest[run.set].status = "pending" =>
    \A c \in 1..HEAD : c > manifest[run.set].snapshot.preHead =>
      commits[c].subject # manifest[run.set].snapshot.subject

(* A drift taken up by a change set is one its operator can still bring to an end:
   discarding the set opens the drift again, so a remote difference stays visible. *)
DriftIsHeld ==
  \A s \in Skus : drift[s] \in ChangeSets => sets[drift[s]].status \in {"draft", "approved"}

(* Once approved at a commit, a change set is never bound to another one. *)
ApprovalNeverMoves ==
  [][\A cs \in ChangeSets :
       sets[cs].status = "approved" /\ sets[cs].approved # 0 /\ sets'[cs].status = "approved" =>
         sets'[cs].approved = sets[cs].approved]_vars

(* The commit the product index names for a SKU never goes back to an older one. *)
PointersGoForward ==
  [][\A s \in Skus : productIndex'[s].commit >= productIndex[s].commit]_vars

(* What an approval commits is its reviewed drafts and nothing else: files that an
   interrupted approval of another change set wrote or staged stay out of it. *)
CommitsHoldDrafts ==
  [][\A cs \in ChangeSets, s \in Skus : run.set = cs /\ HeadTree'[s] # HeadTree[s] =>
       s \in Items(cs) /\ HeadTree'[s] = sets[cs].draft[s]]_vars

(* A group is committed only over the content its drafts were based on: an edit
   approved in between is never overwritten unseen. *)
NoLostUpdate ==
  [][\A cs \in Linked : At(cs, "commit") /\ run'.phase = "status" =>
       \A s \in run.done : sets[cs].base[s] # None => HeadTree[s] = sets[cs].base[s]]_vars

(* A failed approval whose files were put back has its page joins back too. *)
JoinsAreRestored ==
  run = Idle =>
    \A cs \in Linked :
      LET m == manifest[cs]
      IN reply[cs] = "failed" /\ sets[cs].status = "draft" /\ m.status = "pending"
         /\ (\A s \in Owned(m) : worktree[s] = m.snapshot.files[s] /\ staged[s] = m.snapshot.staged[s])
         => \A s \in Owned(m) : joins[s] = m.snapshot.joins[s]

(* As long as the operator retries, a staged change set ends approved with its
   completion recorded, whatever crashes and failures interrupted it. *)
Settled(cs) == sets[cs].status = "approved" /\ manifest[cs].status \in {"committed", "recovered"}
EventuallySettled ==
  \A cs \in Linked : (sets[cs].status = "draft") ~> (Settled(cs) \/ sets[cs].status = "discarded")

=============================================================================
