------------------------- MODULE LinkedApprovalUndo -------------------------
(***************************************************************************)
(* What an interrupted approval leaves behind, and what an approval        *)
(* commits. The snapshot of a group is put back only while the group can   *)
(* still be undone; every file that differs from HEAD is one that such a   *)
(* snapshot can put back; while no other commit comes between, what landed *)
(* stays and the pointers of the product index never name an older commit; *)
(* and a commit holds the drafts of its change set and nothing else.       *)
(***************************************************************************)
EXTENDS LinkedApprovalSafety

-----------------------------------------------------------------------------
(* The inductive invariants. *)

RowsInv(cs) ==
  /\ manifest[cs].status \in {"committed", "recovered"} => manifest[cs].commit # 0
  /\ sets[cs].status \in {"absent", "discarded"} => manifest[cs].status = "absent"
  /\ sets[cs].status = "draft" => Owned(manifest[cs]) \subseteq Items(cs)

(* The handler restores and rewrites a group only while it can be undone. *)
UndoneInv(cs) ==
  run.set = cs =>
    /\ run.phase \in {"gates", "snapshot", "restore", "restoreThenGate"} =>
         manifest[cs].status = "absent" \/ Undoable(cs)
    /\ run.phase \in {"snapshot", "write", "stage", "commit"} =>
         run.todo \union run.done \subseteq Items(cs)
    /\ run.phase = "commit" => \A s \in run.done : staged[s] = worktree[s]

RInv == \A cs \in ChangeSets : RowsInv(cs) /\ UndoneInv(cs)

Dirty(s) == worktree[s] # HeadTree[s] \/ staged[s] # HeadTree[s]

(* The snapshot of x can put s back; once the group in progress has its commit, not its own. *)
Covers(x, s) ==
  Undoable(x) /\ s \in Owned(manifest[x]) /\ (run.phase \in Completing => x # run.set)

DirtInv == \A s \in Skus : Dirty(s) => \E x \in ChangeSets : Covers(x, s)

-----------------------------------------------------------------------------
(* Lemmas on what can be undone. *)

(* A group stays undoable while the log grows by commits of others only. *)
LEMMA UndoableStays ==
  ASSUME TypeOK, TypeOK', NEW x \in ChangeSets, ManifestInv(x), LogKeeps(x),
         manifest'[x] = manifest[x], Undoable(x)
  PROVE  Undoable(x)'
<1>1. /\ manifest[x].status = "pending" /\ manifest[x].commit = 0
      /\ manifest[x].snapshot.subject[1] = Title[x] /\ manifest[x].snapshot.preHead <= HEAD
  BY DEF Undoable, ManifestInv
<1>2. Len(commits) \in Nat /\ Len(commits') \in Nat /\ Len(commits) >= 1 /\ Len(commits) <= Len(commits')
  BY DEF TypeOK, LogKeeps
<1>3. CASE Len(commits') = Len(commits)
  <2>1. commits'[Len(commits')] = commits[Len(commits)]
    BY <1>2, <1>3 DEF LogKeeps
  <2> QED
    BY <1>1, <1>3, <2>1 DEF Undoable, LandedCommit, HEAD
<1>4. CASE Len(commits') > Len(commits)
  <2>1. commits'[Len(commits')].subject[1] # Title[x]
    BY <1>2, <1>4 DEF LogKeeps
  <2> QED
    BY <1>1, <2>1 DEF Undoable, LandedCommit, HEAD
<1> QED
  BY <1>2, <1>3, <1>4

(* From the snapshot to the commit a group can be undone, and owns what it writes. *)
LEMMA WritingIsUndoable ==
  ASSUME TypeOK, IInv, NEW cs \in Linked, run.set = cs, run.phase \in {"write", "stage", "commit"}
  PROVE  Undoable(cs) /\ Owned(manifest[cs]) = Items(cs)
<1>1. Inv(cs) /\ cs \in ChangeSets
  BY ConstantsAssumption DEF IInv
<1>2. /\ manifest[cs].status = "pending" /\ manifest[cs].snapshot.preHead = HEAD
      /\ manifest[cs].writes = sets[cs].draft /\ manifest[cs].commit = 0
  BY <1>1 DEF Inv, WriteInv, ManifestInv
<1> QED
  BY <1>2 DEF Undoable, LandedCommit, Owned, Items

LEMMA AbsentOwnsNothing ==
  ASSUME NEW cs \in ChangeSets, ManifestInv(cs), manifest[cs].status = "absent"
  PROVE  Owned(manifest[cs]) = {}
BY DEF ManifestInv, Owned, NoManifest, NoFiles

(* A change set no handler works on. *)
LEMMA RestingKeeps ==
  ASSUME TypeOK, TypeOK', NEW x \in ChangeSets, RowsInv(x), ManifestInv(x), run'.set # x,
         manifest'[x] = manifest[x],
         \/ sets'[x] = sets[x]
         \/ sets'[x].status = "draft" /\ sets[x].status = "draft" /\ Items(x) \subseteq Items(x)'
         \/ sets'[x].status = "draft" /\ sets[x].status = "absent"
  PROVE  RowsInv(x)' /\ UndoneInv(x)'
<1>1. sets[x].status = "absent" => Owned(manifest[x]) = {}
  BY AbsentOwnsNothing DEF RowsInv
<1>2. Owned(manifest[x])' = Owned(manifest[x]) /\ (sets'[x] = sets[x] => Items(x)' = Items(x))
  BY DEF Owned, Items
<1>3. RowsInv(x)'
  BY <1>1, <1>2 DEF RowsInv
<1> QED
  BY <1>3 DEF UndoneInv

LEMMA StepKeepsResting ==
  ASSUME TypeOK, TypeOK', IInv, RInv, NEW cs \in ChangeSets, NEW x \in ChangeSets, x # cs,
         run'.set = cs \/ run' = Idle, manifest'[x] = manifest[x], sets'[x] = sets[x]
  PROVE  RowsInv(x)' /\ UndoneInv(x)'
BY IdleSet, RestingKeeps DEF IInv, Inv, RInv

LEMMA InitUndone == Init => RInv /\ DirtInv
<1> SUFFICES ASSUME Init PROVE RInv /\ DirtInv
  OBVIOUS
<1>1. run = Idle /\ \A x \in ChangeSets : manifest[x] = NoManifest /\ sets[x] = NoSet
  BY DEF Init
<1>2. RInv
  BY <1>1, IdleSet DEF RInv, RowsInv, UndoneInv, NoManifest, NoSet
<1>3. HeadTree = Catalogue
  BY DEF Init, HeadTree, TreeAt, HEAD
<1> QED
  BY <1>2, <1>3 DEF Init, DirtInv, Dirty

-----------------------------------------------------------------------------
(* The handler undoes only what can be undone. *)

LEMMA RequestUndone ==
  ASSUME TypeOK, TypeOK', IInv, RInv, NEW cs \in ChangeSets, Request(cs)
  PROVE  RInv'
<1> SUFFICES ASSUME NEW x \in ChangeSets PROVE RowsInv(x)' /\ UndoneInv(x)'
  BY DEF RInv
<1>0. RowsInv(x) /\ Inv(x) /\ commits' = commits /\ run = Idle
  BY DEF RInv, IInv, Request, Stage, EditDraft, Discard, ReconcileDrift, ApproveDraft, RefuseApproved, Recover, rowVars
<1>1. CASE \/ \E v \in DraftContent[cs] : Stage(cs, v)
           \/ \E s \in Skus, v \in DraftContent[cs], b \in Files : ReconcileDrift(cs, s, v, b)
  <2>1. /\ run' = Idle /\ manifest' = manifest /\ sets[cs].status = "absent"
        /\ \E row : row.status = "draft" /\ sets' = [sets EXCEPT ![cs] = row]
    BY <1>0, <1>1 DEF Stage, ReconcileDrift, StagedSet
  <2>2. x # cs => sets'[x] = sets[x]
    BY <2>1 DEF TypeOK
  <2>3. x = cs => sets'[x].status = "draft" /\ sets[x].status = "absent"
    BY <2>1 DEF TypeOK
  <2> QED
    BY <1>0, <2>1, <2>2, <2>3, IdleSet, RestingKeeps DEF Inv
<1>2. CASE \E s \in Skus, v \in DraftContent[cs] : EditDraft(cs, s, v)
  <2>1. PICK s \in Skus, v \in DraftContent[cs] : EditDraft(cs, s, v)
    BY <1>2
  <2>2. /\ run' = Idle /\ manifest' = manifest /\ sets[cs].status = "draft" /\ v # None
        /\ x # cs => sets'[x] = sets[x]
    <3>1. v # None
      BY ConstantsAssumption
    <3>2. run' = Idle /\ manifest' = manifest /\ sets[cs].status = "draft"
      BY <1>0, <2>1 DEF EditDraft
    <3> QED
      BY <1>0, <2>1, <3>1, <3>2, EditFields
  <2>3. sets'[cs].status = "draft" /\ sets'[cs].draft = [sets[cs].draft EXCEPT ![s] = v]
    BY <2>1, EditFields
  <2>4. Items(cs) \subseteq Items(cs)'
    BY <2>2, <2>3 DEF Items, TypeOK, ChangeSetRow, FileMap
  <2> QED
    BY <1>0, <2>2, <2>3, <2>4, IdleSet, RestingKeeps DEF Inv
<1>3. CASE Discard(cs)
  <2>1. /\ run' = Idle /\ sets' = [sets EXCEPT ![cs] = [NoSet EXCEPT !.status = "discarded"]]
        /\ manifest' = [manifest EXCEPT ![cs] = NoManifest]
    BY <1>0, <1>3 DEF Discard
  <2>2. CASE x # cs
    BY <1>0, <2>1, <2>2, IdleSet, RestingKeeps DEF Inv, TypeOK
  <2>3. CASE x = cs
    <3>1. sets'[x].status = "discarded" /\ manifest'[x].status = "absent"
      BY <2>1, <2>3 DEF TypeOK, NoSet, NoManifest
    <3> QED
      BY <2>1, <3>1, IdleSet DEF RowsInv, UndoneInv
  <2> QED
    BY <2>2, <2>3
<1>4. CASE ApproveDraft(cs) \/ RefuseApproved(cs) \/ Recover(cs, "approve") \/ Recover(cs, "export")
  <2>1. UNCHANGED <<manifest, sets, commits>>
    BY <1>4 DEF ApproveDraft, RefuseApproved, Recover, rowVars
  <2>2. RowsInv(x)'
    BY <1>0, <2>1 DEF RowsInv, Owned, Items
  <2>3. Undoable(x) => Undoable(x)'
    BY <1>0, <2>1 DEF Undoable, LandedCommit, HEAD
  <2>4. \/ run'.set # x
        \/ run'.phase \in {"restoreThenGate", "restore"} /\ Undoable(x)
        \/ run'.phase = "gates" /\ manifest[x].status = "absent"
        \/ run'.phase = "status"
    <3>1. CASE ApproveDraft(cs)
      <4>1. \/ run'.set = cs /\ run'.phase = "status"
            \/ run'.set = cs /\ run'.phase = "restoreThenGate" /\ Undoable(cs)
            \/ /\ run'.set = cs /\ run'.phase = "gates"
               /\ cs \in Linked => LandedCommit(cs) = 0 /\ ~Undoable(cs)
        <5>1. CASE Start(cs, "approve", "restoreThenGate") /\ Undoable(cs)
          BY <5>1 DEF Start, Idle
        <5>2. CASE Start(cs, "approve", "gates") /\ (cs \in Linked => LandedCommit(cs) = 0 /\ ~Undoable(cs))
          BY <5>2 DEF Start, Idle
        <5>3. CASE Complete(cs, "approve", LandedCommit(cs), "recovered")
          BY <5>3 DEF Complete, Idle
        <5> QED
          BY <3>1, <5>1, <5>2, <5>3 DEF ApproveDraft
      <4>2. LandedCommit(x) = 0 /\ ~Undoable(x) => manifest[x].status = "absent"
        BY <1>0 DEF RowsInv, Undoable, LandedCommit, TypeOK, ManifestRow
      <4>3. x \notin Linked => manifest[x].status = "absent"
        BY <1>0 DEF Inv, ManifestInv, NoManifest
      <4> QED
        BY <4>1, <4>2, <4>3
    <3>2. ASSUME NEW op \in {"approve", "export"}, Recover(cs, op)
          PROVE  \/ run'.set # x
                 \/ run'.phase = "restore" /\ Undoable(x)
                 \/ run'.phase = "status"
      <4>1. \/ run' = Idle \/ \E c : Complete(cs, op, c, "recovered")
            \/ Undoable(cs) /\ Start(cs, op, "restore")
        BY <3>2 DEF Recover, Answer
      <4>2. ASSUME NEW c, Complete(cs, op, c, "recovered") PROVE run'.phase = "status"
        BY <4>2 DEF Complete, Idle
      <4>3. CASE Undoable(cs) /\ Start(cs, op, "restore")
        BY <4>3 DEF Start, Idle
      <4> QED
        BY <1>0, <4>1, <4>2, <4>3, IdleSet
    <3>3. CASE RefuseApproved(cs)
      BY <3>3, IdleSet DEF RefuseApproved, Answer
    <3> QED
      BY <1>4, <3>1, <3>2, <3>3
  <2>5. UndoneInv(x)'
    BY <2>1, <2>3, <2>4 DEF UndoneInv
  <2> QED
    BY <2>2, <2>5
<1> QED
  BY <1>1, <1>2, <1>3, <1>4 DEF Request

LEMMA DriftUndone ==
  ASSUME TypeOK, TypeOK', IInv, RInv,
         \/ \E s \in Skus : DetectDrift(s) \/ AcceptRemote(s) \/ KeepLocal(s) \/ ReopenDrift(s)
         \/ Crash
  PROVE  RInv'
<1> SUFFICES ASSUME NEW x \in ChangeSets PROVE RowsInv(x)' /\ UndoneInv(x)'
  BY DEF RInv
<1>1. run' = Idle /\ UNCHANGED <<manifest, sets>>
  BY DEF DetectDrift, AcceptRemote, KeepLocal, ReopenDrift, bounds, Crash, rowVars
<1> QED
  BY <1>1, IdleSet, RestingKeeps DEF RInv, IInv, Inv

(* A step of the handler that leaves the rows alone. *)
LEMMA SameRows ==
  ASSUME TypeOK, TypeOK', IInv, RInv, NEW cs \in ChangeSets, run.set = cs,
         run'.set = cs \/ run' = Idle, UNCHANGED <<sets, manifest>>, run' # Idle => UndoneInv(cs)'
  PROVE  RInv'
<1>1. RowsInv(cs) /\ ManifestInv(cs)
  BY DEF RInv, IInv, Inv
<1>2. RowsInv(cs)'
  BY <1>1 DEF RowsInv, Owned, Items
<1>3. run' = Idle => UndoneInv(cs)'
  BY IdleSet DEF UndoneInv
<1>4. \A x \in ChangeSets : x # cs => RowsInv(x)' /\ UndoneInv(x)'
  BY StepKeepsResting
<1> QED
  BY <1>2, <1>3, <1>4 DEF RInv

LEMMA UndoableSame ==
  ASSUME NEW cs \in ChangeSets, UNCHANGED <<manifest, commits>>
  PROVE  Undoable(cs)' = Undoable(cs)
BY DEF Undoable, LandedCommit, HEAD

LEMMA UndoUndone ==
  ASSUME TypeOK, TypeOK', IInv, RInv, NEW cs \in ChangeSets, NEW k \in 0..3, Undo(cs, k)
  PROVE  RInv'
<1>1. run.set = cs /\ UNCHANGED <<sets, manifest, commits>> /\ UndoneInv(cs)
  BY DEF Undo, At, RInv
<1>2. run' = Idle \/ (run.phase = "restoreThenGate" /\ run'.phase = "gates" /\ run'.set = cs)
  BY <1>1 DEF Undo, Answer, GoTo, TypeOK, Run
<1>3. run' # Idle => UndoneInv(cs)'
  BY <1>1, <1>2, UndoableSame DEF UndoneInv
<1> QED
  BY <1>1, <1>2, <1>3, SameRows

LEMMA GateUndone ==
  ASSUME TypeOK, TypeOK', IInv, RInv, NEW cs \in ChangeSets, Gate(cs)
  PROVE  RInv'
<1>1. /\ run.set = cs /\ run.phase = "gates" /\ UNCHANGED <<sets, manifest, commits>>
      /\ UndoneInv(cs) /\ run.done = {}
  BY DEF Gate, At, RInv, IInv, Inv, HandlerInv
<1>2. \/ run' = Idle
      \/ /\ run'.phase \in {"snapshot", "write"} /\ run'.set = cs
         /\ run'.done = run.done /\ run'.todo = Items(cs)
  <2>1. CASE GatesPass(cs)
    <3> DEFINE phase == IF cs \in Linked THEN "snapshot" ELSE "write"
    <3>1. run' = [run EXCEPT !.phase = phase, !.todo = Items(cs), !.action = "approved"]
      BY <2>1 DEF Gate
    <3>2. phase \in {"snapshot", "write"}
      OBVIOUS
    <3> HIDE DEF phase
    <3> QED
      BY <1>1, <3>1, <3>2 DEF TypeOK, Run
  <2>2. CASE ~GatesPass(cs)
    BY <2>2 DEF Gate, Answer
  <2> QED
    BY <2>1, <2>2
<1>3. run' # Idle => UndoneInv(cs)'
  BY <1>1, <1>2, UndoableSame DEF UndoneInv, Items
<1> QED
  BY <1>1, <1>2, <1>3, SameRows

(* A saved snapshot starts at HEAD, so its group can be undone. *)
LEMMA SavedIsUndoable ==
  ASSUME TypeOK, NEW cs \in ChangeSets, SaveSnapshot(cs), manifest' # manifest
  PROVE  /\ Undoable(cs)' /\ manifest'[cs].writes = sets[cs].draft
         /\ manifest'[cs].snapshot = SnapshotOf(cs)
<1> DEFINE row == [status |-> "pending", commit |-> 0, writes |-> sets[cs].draft,
                   reads |-> [s \in Skus |-> IF s \in ReadSkus(cs)
                                             THEN TreeAt(sets[cs].baseCommit)[s] ELSE None],
                   snapshot |-> SnapshotOf(cs)]
<1>1. manifest' = [manifest EXCEPT ![cs] = row] /\ commits' = commits
  BY DEF SaveSnapshot
<1>2. /\ row.status = "pending" /\ row.commit = 0 /\ row.writes = sets[cs].draft
      /\ row.snapshot = SnapshotOf(cs) /\ row.snapshot.preHead = HEAD
  BY DEF SnapshotOf
<1> HIDE DEF row
<1>3. manifest'[cs] = row
  BY <1>1 DEF TypeOK
<1> QED
  BY <1>1, <1>2, <1>3 DEF Undoable, LandedCommit, HEAD

LEMMA SaveSnapshotUndone ==
  ASSUME TypeOK, TypeOK', IInv, RInv, NEW cs \in ChangeSets, SaveSnapshot(cs)
  PROVE  RInv'
<1>1. /\ run.set = cs /\ run.phase = "snapshot" /\ UNCHANGED <<sets, commits>>
      /\ UndoneInv(cs) /\ sets[cs].status = "draft"
  BY DEF SaveSnapshot, At, RInv, IInv, Inv, HandlerInv, Working
<1>2. /\ run'.phase \in {"write", "restore"} /\ run'.set = cs
      /\ run'.done = run.done /\ run'.todo = run.todo
  BY <1>1 DEF SaveSnapshot, GoTo, TypeOK, Run
<1>3. CASE manifest' = manifest
  <2>1. UndoneInv(cs)'
    BY <1>1, <1>2, <1>3, UndoableSame DEF UndoneInv, Items
  <2> QED
    BY <1>1, <1>2, <1>3, <2>1, SameRows
<1>4. CASE manifest' # manifest
  <2>1. Undoable(cs)' /\ manifest'[cs].writes = sets[cs].draft
    BY <1>4, SavedIsUndoable
  <2>2. Owned(manifest[cs])' = Items(cs)' /\ Items(cs)' = Items(cs) /\ manifest'[cs].status = "pending"
    BY <1>1, <2>1 DEF Owned, Items, Undoable
  <2>3. RowsInv(cs)' /\ UndoneInv(cs)'
    BY <1>1, <1>2, <2>1, <2>2 DEF RowsInv, UndoneInv
  <2>4. \A x \in ChangeSets : x # cs => manifest'[x] = manifest[x]
    BY DEF SaveSnapshot, TypeOK
  <2> QED
    BY <1>1, <1>2, <2>3, <2>4, StepKeepsResting DEF RInv
<1> QED
  BY <1>3, <1>4

LEMMA WriteUndone ==
  ASSUME TypeOK, TypeOK', IInv, RInv, NEW cs \in ChangeSets, NEW s \in Skus,
         \/ WriteProduct(cs, s)
         \/ \E k \in 0..2 : WriteFails(cs, s, k) \/ CrashInWrite(cs, s, k)
  PROVE  RInv'
<1>1. /\ run.set = cs /\ run.phase = "write" /\ UNCHANGED <<manifest, sets, commits>>
      /\ UndoneInv(cs)
  BY WriteMoves DEF At, RInv
<1>2. \/ run' = Idle
      \/ run'.set = cs /\ run'.phase = "restore" /\ cs \in Linked
      \/ /\ run'.set = cs /\ run'.phase \in {"write", "stage"}
         /\ run'.todo \union run'.done \subseteq run.todo \union run.done
  <2>1. CASE cs \in Linked /\ GoTo("restore")
    BY <1>1, <2>1, GoToFields
  <2>2. ASSUME NEW written \in SUBSET {s}, s \in run.todo, run' = AfterProduct(s, written)
        PROVE  /\ run'.set = cs /\ run'.phase \in {"write", "stage"}
               /\ run'.todo \union run'.done \subseteq run.todo \union run.done
    BY <1>1, <2>2, AfterFields
  <2>3. {s} \in SUBSET {s} /\ {} \in SUBSET {s}
    OBVIOUS
  <2>4. /\ s \in run.todo
        /\ \/ run' = Idle
           \/ cs \in Linked /\ GoTo("restore")
           \/ cs \notin Linked /\ run' = AfterProduct(s, {})
           \/ WriteProduct(cs, s) /\ run' = AfterProduct(s, {s})
    BY WriteMoves
  <2>5. CASE s \in run.todo /\ run' = AfterProduct(s, {s})
    BY <2>2, <2>3, <2>5
  <2>6. CASE s \in run.todo /\ run' = AfterProduct(s, {})
    BY <2>2, <2>3, <2>6
  <2>7. CASE cs \in Linked /\ GoTo("restore")
    BY <2>1, <2>7
  <2> QED
    BY <2>4, <2>5, <2>6, <2>7
<1>3. cs \in Linked => Undoable(cs)
  BY <1>1, WritingIsUndoable
<1>4. run' # Idle => UndoneInv(cs)'
  BY <1>1, <1>2, <1>3, UndoableSame DEF UndoneInv, Items
<1> QED
  BY <1>1, <1>2, <1>4, SameRows

LEMMA CommitUndone ==
  ASSUME TypeOK, TypeOK', IInv, RInv, HeadMayFail = FALSE, NEW cs \in ChangeSets,
         StageFiles(cs) \/ CommitGroup(cs) \/ CommitFails(cs)
  PROVE  RInv'
<1>1. /\ run.set = cs /\ run.phase \in {"stage", "commit"} /\ UNCHANGED <<manifest, sets>>
      /\ UndoneInv(cs)
  BY DEF StageFiles, CommitGroup, CommitFails, At, RInv
<1>2. CASE StageFiles(cs)
  <2>1. /\ run'.set = cs /\ run'.phase = "commit" /\ run'.done = run.done /\ run'.todo = run.todo
        /\ worktree' = worktree /\ run.done \subseteq Skus
    BY <1>1, <1>2 DEF StageFiles, GoTo, TypeOK, Run
  <2>2. \A s \in run.done : staged'[s] = worktree[s]
    BY <1>2, <2>1 DEF StageFiles
  <2>3. UndoneInv(cs)'
    BY <1>1, <2>1, <2>2 DEF UndoneInv, Items
  <2> QED
    BY <1>1, <2>1, <2>3, SameRows
<1>3. CASE CommitGroup(cs)
  <2>1. run'.set = cs /\ run'.phase = "status"
    BY <1>1, <1>3 DEF CommitGroup, TypeOK, Run
  <2>2. UndoneInv(cs)'
    BY <2>1 DEF UndoneInv
  <2> QED
    BY <1>1, <2>1, <2>2, SameRows
<1>4. CASE CommitFails(cs)
  <2>1. commits' = commits
    BY <1>4 DEF CommitFails
  <2>2. run' = Idle \/ (run'.set = cs /\ run'.phase = "restore" /\ cs \in Linked)
    BY <1>1, <1>4 DEF CommitFails, GoTo, Answer, TypeOK, Run
  <2>3. cs \in Linked => Undoable(cs)
    BY <1>1, WritingIsUndoable
  <2>4. run' # Idle => UndoneInv(cs)'
    BY <1>1, <2>1, <2>2, <2>3, UndoableSame DEF UndoneInv
  <2> QED
    BY <1>1, <2>2, <2>4, SameRows
<1> QED
  BY <1>2, <1>3, <1>4

(* The completion goes from step to step, ends, or goes on to load an export; one
   that has no commit may put the files back. *)
LEMMA CompletionMoves ==
  ASSUME TypeOK, NEW cs \in ChangeSets, run.set = cs,
         \/ SetStatus(cs) \/ SetStatusFails(cs) \/ SettleDrifts(cs) \/ RecordAudit(cs)
         \/ \E bad \in SUBSET Skus : RecordPointers(cs, bad)
         \/ MarkManifest(cs) \/ CompletionFails(cs) \/ FinalizePlan(cs) \/ Finish(cs) \/ LoadExport(cs)
  PROVE  /\ run'.set = cs \/ run' = Idle
         /\ \/ run'.phase \in Completing \union {"load", "idle"}
            \/ run.phase = "status" /\ run.commit = 0 /\ run'.phase = "restore"
<1>1. ASSUME NEW phase \in Completing \union {"load"}, NEW f,
             run' = [run EXCEPT !.phase = phase] \/ run' = [run EXCEPT !.phase = phase, !.failed = f]
                \/ run' = [run EXCEPT !.failed = f, !.phase = phase]
      PROVE  run'.set = cs /\ run'.phase \in Completing \union {"load", "idle"}
  BY <1>1 DEF TypeOK, Run
<1>2. run' = Idle => run'.phase \in Completing \union {"load", "idle"}
  BY IdleSet
<1>3. {"pointers", "drifts", "audit", "mark", "plan", "finish"} \subseteq Completing
  BY DEF Completing
<1>4. CASE CompletionFails(cs)
  <2> DEFINE phase == CASE run.phase = "drifts" -> "audit"
                        [] run.phase = "audit" -> "mark"
                        [] OTHER -> "finish"
  <2>1. phase \in Completing
    BY <1>3
  <2>2. run' = Idle \/ run' = [run EXCEPT !.failed = ~Standalone(cs), !.phase = phase]
    BY <1>4 DEF CompletionFails, Answer
  <2> HIDE DEF phase
  <2> QED
    BY <1>1, <1>2, <2>1, <2>2
<1>5. CASE \E bad \in SUBSET Skus : RecordPointers(cs, bad)
  <2>1. \E f : run' = [run EXCEPT !.phase = "drifts", !.failed = f]
    BY <1>5 DEF RecordPointers
  <2> QED
    BY <1>1, <1>3, <2>1
<1>6. CASE \/ SetStatus(cs) \/ SetStatusFails(cs) \/ SettleDrifts(cs) \/ RecordAudit(cs)
           \/ MarkManifest(cs) \/ FinalizePlan(cs) \/ Finish(cs) \/ LoadExport(cs)
  <2>1. \/ run' = Idle
        \/ run.phase = "status" /\ run.commit = 0 /\ GoTo("restore")
        \/ \E phase \in Completing \union {"load"} : run' = [run EXCEPT !.phase = phase]
    BY <1>3, <1>6, StatusFailsMoves DEF SetStatus, SettleDrifts, RecordAudit, MarkManifest,
       FinalizePlan, Finish, LoadExport, GoTo, Answer, At
  <2>2. GoTo("restore") => run'.set = cs /\ run'.phase = "restore"
    BY GoToFields
  <2> QED
    BY <1>1, <1>2, <2>1, <2>2
<1> QED
  BY <1>4, <1>5, <1>6

(* It changes the rows of its own change set only. *)
LEMMA CompletionRows ==
  ASSUME TypeOK, NEW cs \in ChangeSets,
         \/ SetStatus(cs) \/ SetStatusFails(cs) \/ SettleDrifts(cs) \/ RecordAudit(cs)
         \/ \E bad \in SUBSET Skus : RecordPointers(cs, bad)
         \/ MarkManifest(cs) \/ CompletionFails(cs) \/ FinalizePlan(cs) \/ Finish(cs) \/ LoadExport(cs)
  PROVE  /\ \A x \in ChangeSets : x # cs => manifest'[x] = manifest[x] /\ sets'[x] = sets[x]
         /\ \/ sets'[cs] = sets[cs]
            \/ run.phase = "status" /\ sets'[cs].status = "approved"
         /\ manifest'[cs].writes = manifest[cs].writes /\ manifest'[cs].snapshot = manifest[cs].snapshot
         /\ \/ manifest'[cs] = manifest[cs]
            \/ /\ manifest[cs].status # "absent" /\ run.phase \in Completing
               /\ \/ manifest'[cs].status = "pending"
                  \/ manifest'[cs].status \in {"committed", "recovered"} /\ manifest'[cs].commit = run.commit
         /\ UNCHANGED <<commits, worktree, staged>>
<1>1. CASE SetStatus(cs)
  BY <1>1, StatusFields DEF SetStatus, At, catalogVars
<1>2. ASSUME NEW status \in {"committed", "recovered"}, run.phase \in Completing,
             manifest[cs].status # "absent", UNCHANGED <<sets, commits, worktree, staged>>,
             \/ manifest' = [manifest EXCEPT ![cs].status = status, ![cs].commit = run.commit]
             \/ manifest' = [manifest EXCEPT ![cs].commit = run.commit, ![cs].status = status]
      PROVE  /\ \A x \in ChangeSets : x # cs => manifest'[x] = manifest[x] /\ sets'[x] = sets[x]
             /\ manifest'[cs].writes = manifest[cs].writes /\ sets'[cs] = sets[cs]
             /\ manifest'[cs].snapshot = manifest[cs].snapshot
             /\ manifest'[cs].status \in {"committed", "recovered"} /\ manifest'[cs].commit = run.commit
  BY <1>2 DEF TypeOK, ManifestRow
<1>3. CASE SetStatusFails(cs)
  <2>1. UNCHANGED <<sets, commits, worktree, staged>> /\ run.phase \in Completing
    BY <1>3, StatusFailsMoves DEF At, Completing
  <2> QED
    BY <1>3, <2>1, StatusFailsRow
<1>4. CASE MarkManifest(cs)
  <2>1. UNCHANGED <<sets, commits, worktree, staged>> /\ run.phase \in Completing
    BY <1>4 DEF MarkManifest, At, catalogVars, Completing
  <2>2. CASE manifest' = manifest
    BY <2>1, <2>2
  <2>3. CASE manifest[cs].status # "absent" /\ run.action = "approved"
    BY <1>2, <1>4, <2>1, <2>3 DEF MarkManifest
  <2>4. CASE manifest[cs].status # "absent" /\ run.action # "approved"
    BY <1>2, <1>4, <2>1, <2>4 DEF MarkManifest
  <2> QED
    BY <1>4, <2>2, <2>3, <2>4 DEF MarkManifest
<1>5. CASE Finish(cs)
  <2>1. UNCHANGED <<sets, commits, worktree, staged>> /\ run.phase \in Completing
    BY <1>5 DEF Finish, At, catalogVars, Completing
  <2>2. CASE manifest' = manifest
    BY <2>1, <2>2
  <2>3. CASE /\ manifest[cs].status \in {"committed", "recovered"}
             /\ manifest' = [manifest EXCEPT ![cs].status = "pending", ![cs].commit = 0]
    BY <2>1, <2>3 DEF TypeOK, ManifestRow
  <2> QED
    BY <1>5, <2>2, <2>3 DEF Finish
<1>6. CASE \/ SettleDrifts(cs) \/ RecordAudit(cs) \/ CompletionFails(cs) \/ FinalizePlan(cs) \/ LoadExport(cs)
           \/ \E bad \in SUBSET Skus : RecordPointers(cs, bad)
  <2>1. UNCHANGED <<sets, manifest, commits, worktree, staged>>
    BY <1>6 DEF SettleDrifts, RecordAudit, CompletionFails, FinalizePlan, LoadExport, RecordPointers,
       rowVars, catalogVars
  <2> QED
    BY <2>1
<1> QED
  BY <1>1, <1>3, <1>4, <1>5, <1>6

(* The completion, which gives the manifest the commit it names. *)
LEMMA CompletionUndone ==
  ASSUME TypeOK, TypeOK', IInv, RInv, AllBound, NEW cs \in ChangeSets,
         \/ SetStatus(cs) \/ SetStatusFails(cs) \/ SettleDrifts(cs) \/ RecordAudit(cs)
         \/ \E bad \in SUBSET Skus : RecordPointers(cs, bad)
         \/ MarkManifest(cs) \/ CompletionFails(cs) \/ FinalizePlan(cs) \/ Finish(cs) \/ LoadExport(cs)
  PROVE  RInv'
<1>1. /\ run.set = cs /\ run.phase \in Completing \union {"load"} /\ RowsInv(cs) /\ ManifestInv(cs)
      /\ run.phase = "status" => sets[cs].status \in {"draft", "approved"}
      /\ run.phase # "status" => sets[cs].status = "approved"
  <2>1. run.set = cs /\ run.phase \in Completing \union {"load"}
    BY DEF SetStatus, SetStatusFails, SettleDrifts, RecordAudit, RecordPointers, MarkManifest,
       CompletionFails, FinalizePlan, Finish, LoadExport, At, Completing
  <2> QED
    BY <2>1 DEF IInv, Inv, RInv, HandlerInv
<1>4. run.phase \in Completing => run.commit # 0
  BY <1>1 DEF AllBound
<1>2. /\ run'.set = cs \/ run' = Idle
      /\ run'.phase \in Completing \union {"load", "idle"}
  BY <1>1, <1>4, CompletionMoves DEF Completing
<1>3. /\ \A x \in ChangeSets : x # cs => manifest'[x] = manifest[x] /\ sets'[x] = sets[x]
      /\ \/ sets'[cs] = sets[cs]
         \/ run.phase = "status" /\ sets'[cs].status = "approved"
      /\ manifest'[cs].writes = manifest[cs].writes
      /\ \/ manifest'[cs] = manifest[cs]
         \/ /\ manifest[cs].status # "absent" /\ run.phase \in Completing
            /\ \/ manifest'[cs].status = "pending"
               \/ manifest'[cs].status \in {"committed", "recovered"} /\ manifest'[cs].commit = run.commit
  BY <1>1, CompletionRows
<1>5. RowsInv(cs)'
  BY <1>1, <1>3, <1>4 DEF RowsInv, Owned, Items
<1>6. UndoneInv(cs)'
  BY <1>2 DEF UndoneInv, Completing
<1>7. \A x \in ChangeSets : x # cs => RowsInv(x)' /\ UndoneInv(x)'
  BY <1>2, <1>3, StepKeepsResting
<1> QED
  BY <1>5, <1>6, <1>7 DEF RInv

LEMMA NextUndone ==
  ASSUME HeadMayFail = FALSE, TypeOK, TypeOK', IInv, RInv, AllBound, [Next]_vars
  PROVE  RInv'
<1>1. ASSUME NEW cs \in ChangeSets, Request(cs)
      PROVE  RInv'
  BY <1>1, RequestUndone
<1>2. ASSUME NEW cs \in ChangeSets, Step(cs)
      PROVE  RInv'
  BY <1>2, UndoUndone, GateUndone, SaveSnapshotUndone, WriteUndone, CommitUndone, CompletionUndone
     DEF Step, HashUnread
<1>3. CASE \/ \E s \in Skus : DetectDrift(s) \/ AcceptRemote(s) \/ KeepLocal(s) \/ ReopenDrift(s)
           \/ Crash
  BY <1>3, DriftUndone
<1>4. CASE UNCHANGED vars
  <2> SUFFICES ASSUME NEW x \in ChangeSets PROVE RowsInv(x)' /\ UndoneInv(x)'
    BY DEF RInv
  <2>1. RowsInv(x) /\ UndoneInv(x) /\ UNCHANGED <<manifest, sets, commits, run, staged, worktree>>
    BY <1>4 DEF vars, catalogVars, RInv
  <2> QED
    BY <2>1, UndoableSame DEF RowsInv, UndoneInv, Items, Owned
<1> QED
  BY <1>1, <1>2, <1>3, <1>4 DEF Next

(* A handler puts files back, and writes them again, only while it can be undone. *)
LEMMA Undoing == ASSUME DistinctTitles, HeadMayFail = FALSE PROVE Spec => []RInv
<1>1. Init => RInv
  BY InitUndone
<1>2. TypeOK /\ TypeOK' /\ IInv /\ RInv /\ AllBound /\ [Next]_vars => RInv'
  BY NextUndone
<1> QED
  BY <1>1, <1>2, Safety, CommitsAreRead, TypeCorrect, PTL DEF Spec

-----------------------------------------------------------------------------
(* What is left in the worktree and in the index. *)

(* A discarded group leaves its partial writes, a standalone one has no snapshot, and
   a commit whose hash cannot be read is put back when its completion fails. *)
AllUndoable == Linked = ChangeSets /\ Discardable = {} /\ HeadMayFail = FALSE

LEMMA CoverStays ==
  ASSUME NEW x \in ChangeSets, NEW s \in Skus, Covers(x, s), commits' = commits,
         manifest'[x] = manifest[x], run'.phase \in Completing => x # run'.set
  PROVE  Covers(x, s)'
BY DEF Covers, Undoable, LandedCommit, HEAD, Owned

(* Without a commit, dirt stays covered when only covered files are touched. *)
LEMMA DirtStays ==
  ASSUME DirtInv, commits' = commits,
         \A s \in Skus : worktree'[s] # worktree[s] \/ staged'[s] # staged[s] =>
           \E x \in ChangeSets : Covers(x, s),
         \A x \in ChangeSets, s \in Skus : Covers(x, s) => Covers(x, s)'
  PROVE  DirtInv'
<1>1. HeadTree' = HeadTree
  BY DEF HeadTree, TreeAt, HEAD
<1>2. ASSUME NEW s \in Skus, Dirty(s)' PROVE \E x \in ChangeSets : Covers(x, s)'
  <2>1. \E x \in ChangeSets : Covers(x, s)
    BY <1>1, <1>2 DEF Dirty, DirtInv
  <2> QED
    BY <2>1
<1> QED
  BY <1>2 DEF DirtInv

LEMMA RequestDirt ==
  ASSUME AllUndoable, TypeOK, IInv, DirtInv, NEW cs \in ChangeSets, Request(cs)
  PROVE  DirtInv'
<1>1. UNCHANGED <<manifest, commits, worktree, staged>> /\ run = Idle
  <2>1. ~Discard(cs)
    BY DEF Discard, AllUndoable
  <2> QED
    BY <2>1 DEF Request, Stage, EditDraft, ReconcileDrift, ApproveDraft, RefuseApproved, Recover, rowVars, catalogVars
<1>2. Undoable(cs) => ~(run'.set = cs /\ run'.phase \in Completing)
  <2>1. CASE run' = Idle
    BY <2>1, IdleSet
  <2>2. CASE ApproveDraft(cs) \/ RefuseApproved(cs) \/ Recover(cs, "approve") \/ Recover(cs, "export")
    BY <2>2, IdleSet DEF ApproveDraft, RefuseApproved, Recover, Undoable, Start, Complete, Answer, Idle, Completing
  <2> QED
    BY <1>1, <2>1, <2>2 DEF Request, Stage, EditDraft, Discard, ReconcileDrift, bounds
<1>3. run'.set = cs \/ run' = Idle
  BY RequestStarts
<1>4. \A x \in ChangeSets, s \in Skus : Covers(x, s) => Covers(x, s)'
  BY <1>1, <1>2, <1>3, IdleSet, CoverStays DEF Covers
<1> QED
  BY <1>1, <1>4, DirtStays

LEMMA AcceptDirt ==
  ASSUME TypeOK, TypeOK', IInv, DirtInv, NEW s \in Skus, AcceptRemote(s)
  PROVE  DirtInv'
<1> DEFINE c == [subject |-> OtherSubject, tree |-> staged']
<1>1. /\ run = Idle /\ run' = Idle /\ manifest' = manifest
      /\ worktree' = [worktree EXCEPT ![s] = Remote[s]]
      /\ staged' = [staged EXCEPT ![s] = Remote[s]]
      /\ commits' = IF staged' # HeadTree THEN Append(commits, c) ELSE commits
  BY DEF AcceptRemote, bounds
<1>2. /\ worktree'[s] = staged'[s]
      /\ \A r \in Skus : r # s => worktree'[r] = worktree[r] /\ staged'[r] = staged[r]
  BY <1>1 DEF TypeOK, FileMap
<1>3. c \in Commit /\ \A x \in ChangeSets : c.subject[1] # Title[x]
  BY ConstantsAssumption DEF OtherSubject, Commit, Subjects, TypeOK
<1>4. HeadTree' = staged'
  <2>1. CASE staged' = HeadTree
    BY <1>1, <2>1 DEF HeadTree, TreeAt, HEAD
  <2>2. CASE staged' # HeadTree
    <3>1. commits' = Append(commits, c) /\ commits \in Seq(Commit) /\ Len(commits) \in Nat
      BY <1>1, <2>2 DEF TypeOK
    <3> HIDE DEF c
    <3>2. Len(commits') = Len(commits) + 1 /\ commits'[Len(commits) + 1] = c
      BY <1>3, <3>1, AppendType
    <3>3. HeadTree' = c.tree
      BY <3>1, <3>2 DEF HeadTree, TreeAt, HEAD
    <3> QED
      BY <3>3 DEF c
  <2> QED
    BY <2>1, <2>2
<1>5. \A x \in ChangeSets : LogKeeps(x)
  <2>1. CASE commits' = commits
    BY <2>1, LogUnchanged
  <2>2. CASE commits' = Append(commits, c)
    <3> HIDE DEF c
    <3> QED
      BY <1>3, <2>2, AppendKeeps
  <2> QED
    BY <1>1, <2>1, <2>2
<1>6. \A x \in ChangeSets, r \in Skus : Covers(x, r) => Covers(x, r)'
  BY <1>1, <1>5, IdleSet, UndoableStays DEF Covers, Owned, Completing, IInv, Inv
<1>7. \A r \in Skus : Dirty(r)' => Dirty(r)
  BY <1>2, <1>4 DEF Dirty
<1> QED
  BY <1>6, <1>7 DEF DirtInv

(* The commit of a group: the written files as they are in the worktree, the others as they were. *)
LEMMA CommittedTree ==
  ASSUME TypeOK, NEW cs \in ChangeSets, commits' = CommittedLog(cs)
  PROVE  HeadTree' = [s \in Skus |-> IF s \in run.done THEN worktree[s] ELSE HeadTree[s]]
<1> DEFINE tree == [s \in Skus |-> IF s \in run.done THEN worktree[s] ELSE HeadTree[s]]
           c == [subject |-> <<Title[cs], Cardinality(run.done)>>, tree |-> tree]
<1>1. c \in Commit
  <2>1. tree \in FileMap
    BY TreeAtType DEF TypeOK, HeadTree, FileMap
  <2>2. Cardinality(run.done) \in Nat
    BY ConstantsAssumption, FS_Subset, FS_CardinalityType DEF TypeOK, Run
  <2> QED
    BY <2>1, <2>2, ConstantsAssumption DEF Commit, Subjects
<1>2. commits' = IF tree = HeadTree THEN commits ELSE Append(commits, c)
  BY DEF CommittedLog
<1>3. CASE tree = HeadTree
  BY <1>2, <1>3 DEF HeadTree, TreeAt, HEAD
<1>4. CASE tree # HeadTree
  <2>1. commits' = Append(commits, c) /\ commits \in Seq(Commit) /\ Len(commits) \in Nat
    BY <1>2, <1>4 DEF TypeOK
  <2>2. c.tree = tree
    OBVIOUS
  <2> HIDE DEF c
  <2>3. Len(commits') = Len(commits) + 1 /\ commits'[Len(commits) + 1] = c
    BY <1>1, <2>1, AppendType
  <2> QED
    BY <2>1, <2>2, <2>3 DEF HeadTree, TreeAt, HEAD
<1> QED
  BY <1>3, <1>4

(* The commit takes the whole group; what stays dirty others can put back. *)
LEMMA CommitDirt ==
  ASSUME DistinctTitles, AllUndoable, TypeOK, TypeOK', IInv, RInv, DirtInv,
         NEW cs \in ChangeSets, CommitGroup(cs)
  PROVE  DirtInv'
<1> DEFINE tree == [s \in Skus |-> IF s \in run.done THEN worktree[s] ELSE HeadTree[s]]
           c == [subject |-> <<Title[cs], Cardinality(run.done)>>, tree |-> tree]
<1>1. /\ run.set = cs /\ run.phase = "commit" /\ UNCHANGED <<manifest, worktree, staged>>
      /\ commits' = IF tree = HeadTree THEN commits ELSE Append(commits, c)
      /\ cs \in Linked
  BY DEF CommitGroup, CommittedLog, At, catalogVars, AllUndoable
<1>2. run'.set = cs
  BY <1>1 DEF CommitGroup, TypeOK, Run
<1>3. /\ Undoable(cs) /\ Owned(manifest[cs]) = Items(cs) /\ Items(cs) \subseteq run.done
      /\ \A s \in run.done : staged[s] = worktree[s]
  <2>1. Inv(cs) /\ UndoneInv(cs)
    BY DEF IInv, RInv
  <2> QED
    BY <1>1, <2>1, WritingIsUndoable DEF Inv, WriteInv, UndoneInv
<1>4. c \in Commit /\ c.subject[1] = Title[cs]
  <2>1. tree \in FileMap
    BY TreeAtType DEF TypeOK, HeadTree, FileMap
  <2>2. Cardinality(run.done) \in Nat
    BY ConstantsAssumption, FS_Subset, FS_CardinalityType DEF TypeOK, Run
  <2> QED
    BY <2>1, <2>2, ConstantsAssumption DEF Commit, Subjects
<1>5. HeadTree' = tree
  BY CommittedTree DEF CommitGroup
<1>6. \A x \in ChangeSets : x # cs => LogKeeps(x)
  <2>1. CASE commits' = commits
    BY <2>1, LogUnchanged
  <2>2. CASE commits' = Append(commits, c)
    <3> HIDE DEF c
    <3> QED
      BY <1>4, <2>2, AppendKeeps DEF DistinctTitles
  <2> QED
    BY <1>1, <2>1, <2>2
<1>7. \A s \in Skus : Dirty(s)' => Dirty(s) /\ s \notin Owned(manifest[cs])
  BY <1>1, <1>3, <1>5 DEF Dirty
<1>8. \A x \in ChangeSets, s \in Skus : x # cs /\ Covers(x, s) => Covers(x, s)'
  BY <1>1, <1>2, <1>6, UndoableStays DEF Covers, Owned, IInv, Inv
<1> QED
  BY <1>7, <1>8 DEF DirtInv, Covers

(* The other steps of a handler. *)
LEMMA StepDirt ==
  ASSUME DistinctTitles, AllUndoable, TypeOK, TypeOK', IInv, RInv, AllBound, DirtInv,
         NEW cs \in ChangeSets, Step(cs), ~CommitGroup(cs)
  PROVE  DirtInv'
<1>0. cs \in Linked /\ Inv(cs) /\ RowsInv(cs) /\ UndoneInv(cs) /\ HeadMayFail = FALSE
  BY DEF AllUndoable, IInv, RInv
<1>1. CASE \E k \in 0..3 : Undo(cs, k)
  <2>1. /\ run.set = cs /\ run.phase \in {"restore", "restoreThenGate"}
        /\ UNCHANGED <<manifest, commits>>
        /\ \A s \in Skus : s \notin Owned(manifest[cs]) => worktree'[s] = worktree[s] /\ staged'[s] = staged[s]
    BY <1>1 DEF Undo, At, RestoreOwned, TypeOK, FileMap
  <2>2. run' = Idle \/ run'.phase = "gates"
    <3>1. run' = Idle \/ GoTo("gates")
      BY <1>1 DEF Undo, Answer
    <3> QED
      BY <3>1, GoToFields
  <2>3. \A s \in Owned(manifest[cs]) : Covers(cs, s)
    BY <1>0, <2>1, AbsentOwnsNothing DEF UndoneInv, Covers, Inv, Completing
  <2>4. \A x \in ChangeSets, s \in Skus : Covers(x, s) => Covers(x, s)'
    BY <2>1, <2>2, CoverStays, IdleSet DEF Completing
  <2>5. \A s \in Skus : worktree'[s] # worktree[s] \/ staged'[s] # staged[s] =>
          \E x \in ChangeSets : Covers(x, s)
    BY <2>1, <2>3
  <2> QED
    BY <2>1, <2>4, <2>5, DirtStays
<1>2. CASE SaveSnapshot(cs)
  <2>1. /\ run.set = cs /\ run.phase = "snapshot" /\ UNCHANGED <<sets, commits, worktree, staged>>
        /\ sets[cs].status = "draft" /\ run'.phase \in {"write", "restore"}
    BY <1>0, <1>2 DEF SaveSnapshot, At, GoTo, catalogVars, Inv, HandlerInv, Working, TypeOK, Run
  <2>2. \A x \in ChangeSets : x # cs => manifest'[x] = manifest[x]
    BY <1>2 DEF SaveSnapshot, TypeOK
  <2>3. ASSUME NEW s \in Skus, Covers(cs, s), manifest' # manifest
        PROVE  Covers(cs, s)'
    <3>1. Undoable(cs)' /\ manifest'[cs].writes = sets[cs].draft
      BY <1>2, <2>3, SavedIsUndoable
    <3>2. s \in Items(cs)
      BY <1>0, <2>1, <2>3 DEF RowsInv, Covers
    <3> QED
      BY <2>1, <3>1, <3>2 DEF Covers, Owned, Items, Completing
  <2>4. \A x \in ChangeSets, s \in Skus : Covers(x, s) => Covers(x, s)'
    BY <2>1, <2>2, <2>3, CoverStays DEF Completing
  <2> QED
    BY <2>1, <2>4, DirtStays
<1>3. ASSUME NEW s \in Skus, NEW k \in 0..3, WriteParts(cs, s, k), run.set = cs, run.phase = "write",
             s \in run.todo, UNCHANGED <<manifest, commits>>, run'.phase \notin Completing
      PROVE  DirtInv'
  <2>1. Covers(cs, s)
    BY <1>0, <1>3, WritingIsUndoable DEF UndoneInv, Covers, Completing
  <2>2. \A r \in Skus : r # s => worktree'[r] = worktree[r] /\ staged'[r] = staged[r]
    BY <1>3 DEF WriteParts, TypeOK, FileMap
  <2>3. staged' = staged
    BY <1>3 DEF WriteParts
  <2>4. \A x \in ChangeSets, r \in Skus : Covers(x, r) => Covers(x, r)'
    BY <1>3, CoverStays
  <2>5. \A r \in Skus : worktree'[r] # worktree[r] \/ staged'[r] # staged[r] =>
          \E x \in ChangeSets : Covers(x, r)
    BY <2>1, <2>2, <2>3
  <2> QED
    BY <1>3, <2>4, <2>5, DirtStays
<1>4. CASE \E s \in Skus : WriteProduct(cs, s)
                           \/ \E k \in 0..2 : WriteFails(cs, s, k) \/ CrashInWrite(cs, s, k)
  <2>1. PICK s \in Skus, k \in 0..3 :
          /\ WriteParts(cs, s, k) /\ run.set = cs /\ run.phase = "write" /\ s \in run.todo
          /\ UNCHANGED <<manifest, commits>>
    BY <1>4 DEF WriteProduct, WriteFails, CrashInWrite, At
  <2>2. run'.phase \in {"write", "stage", "restore", "idle"}
    <3>1. run' = Idle \/ GoTo("restore") \/ \E r \in Skus : \E written : run' = AfterProduct(r, written)
      BY <1>4, WriteMoves
    <3> QED
      BY <1>0, <3>1, IdleSet, GoToFields, AfterFields
  <2> QED
    BY <1>3, <2>1, <2>2 DEF Completing
<1>5. CASE StageFiles(cs)
  <2>1. /\ run.set = cs /\ run.phase = "stage" /\ run'.phase = "commit"
        /\ UNCHANGED <<manifest, commits, worktree>>
        /\ staged' = [s \in Skus |-> IF s \in run.done THEN worktree[s] ELSE staged[s]]
    BY <1>0, <1>5, GoToFields DEF StageFiles, At
  <2>2. \A s \in run.done : Covers(cs, s)
    BY <1>0, <2>1, WritingIsUndoable DEF UndoneInv, Covers, Completing
  <2>3. \A x \in ChangeSets, s \in Skus : Covers(x, s) => Covers(x, s)'
    BY <2>1, CoverStays DEF Completing
  <2>4. \A s \in Skus : worktree'[s] # worktree[s] \/ staged'[s] # staged[s] =>
          \E x \in ChangeSets : Covers(x, s)
    BY <2>1, <2>2
  <2> QED
    BY <2>1, <2>3, <2>4, DirtStays
<1>6. CASE Gate(cs) \/ CommitFails(cs)
  <2>1. UNCHANGED <<manifest, commits, worktree, staged>>
    BY <1>0, <1>6 DEF Gate, CommitFails, catalogVars
  <2>2. run'.phase \in {"snapshot", "write", "restore", "idle"}
    <3>1. CASE Gate(cs)
      BY <1>0, <3>1, IdleSet, GateFields
    <3>2. CASE CommitFails(cs)
      <4>1. run' = Idle \/ GoTo("restore")
        BY <3>2 DEF CommitFails, Answer
      <4> QED
        BY <4>1, IdleSet, GoToFields
    <3> QED
      BY <1>6, <3>1, <3>2
  <2>3. \A x \in ChangeSets, s \in Skus : Covers(x, s) => Covers(x, s)'
    BY <2>1, <2>2, CoverStays DEF Completing
  <2> QED
    BY <2>1, <2>3, DirtStays
<1>7. CASE \/ SetStatus(cs) \/ SetStatusFails(cs) \/ SettleDrifts(cs) \/ RecordAudit(cs)
           \/ \E bad \in SUBSET Skus : RecordPointers(cs, bad)
           \/ MarkManifest(cs) \/ CompletionFails(cs) \/ FinalizePlan(cs) \/ Finish(cs) \/ LoadExport(cs)
  <2>1. run.set = cs /\ run.phase \in Completing \union {"load"}
    BY <1>7 DEF SetStatus, SetStatusFails, SettleDrifts, RecordAudit, RecordPointers, MarkManifest,
       CompletionFails, FinalizePlan, Finish, LoadExport, At, Completing
  <2>2. /\ UNCHANGED <<commits, worktree, staged>>
        /\ \A x \in ChangeSets : x # cs => manifest'[x] = manifest[x]
        /\ run.phase = "load" => manifest'[cs] = manifest[cs]
    BY <1>7, CompletionRows DEF Completing
  <2>3. run'.set = cs \/ run' = Idle
    BY <1>7, <2>1, CompletionMoves
  <2>4. run.phase = "load" => run' = Idle
    BY <1>7, StatusFailsMoves DEF SetStatus, SetStatusFails, SettleDrifts, RecordAudit, RecordPointers, MarkManifest,
       CompletionFails, FinalizePlan, Finish, LoadExport, At, Answer
  <2>5. \A x \in ChangeSets, s \in Skus : Covers(x, s) => Covers(x, s)'
    <3> SUFFICES ASSUME NEW x \in ChangeSets, NEW s \in Skus, Covers(x, s) PROVE Covers(x, s)'
      OBVIOUS
    <3>1. CASE x = cs
      <4>1. run' = Idle /\ manifest'[x] = manifest[x]
        BY <2>1, <2>2, <2>4, <3>1 DEF Covers
      <4> QED
        BY <2>2, <4>1, CoverStays, IdleSet DEF Completing
    <3>2. CASE x # cs
      BY <2>2, <2>3, <3>2, CoverStays, IdleSet
    <3> QED
      BY <3>1, <3>2
  <2> QED
    BY <2>2, <2>5, DirtStays
<1>8. ~HashUnread(cs)
  BY <1>0 DEF HashUnread
<1> QED
  BY <1>1, <1>2, <1>4, <1>5, <1>6, <1>7, <1>8 DEF Step

LEMMA NextDirt ==
  ASSUME DistinctTitles, AllUndoable, TypeOK, TypeOK', IInv, RInv, AllBound, DirtInv, [Next]_vars
  PROVE  DirtInv'
<1>1. ASSUME NEW cs \in ChangeSets, Request(cs) \/ Step(cs)
      PROVE  DirtInv'
  BY <1>1, RequestDirt, StepDirt, CommitDirt
<1>2. CASE \E s \in Skus : AcceptRemote(s)
  BY <1>2, AcceptDirt
<1>3. CASE Crash \/ UNCHANGED vars \/ \E s \in Skus : DetectDrift(s) \/ KeepLocal(s) \/ ReopenDrift(s)
  <2>1. UNCHANGED <<manifest, commits, worktree, staged>> /\ (run' = Idle \/ run' = run)
    BY <1>3 DEF Crash, rowVars, vars, catalogVars, DetectDrift, KeepLocal, ReopenDrift
  <2>2. \A x \in ChangeSets, s \in Skus : Covers(x, s) => Covers(x, s)'
    BY <2>1, CoverStays, IdleSet DEF Completing, Covers
  <2> QED
    BY <2>1, <2>2, DirtStays
<1> QED
  BY <1>1, <1>2, <1>3 DEF Next

(* Whatever crashed, failed or was retried, and however many groups and drifts were in
   progress, a file that differs from HEAD is one a pending snapshot can put back. *)
THEOREM NothingUnapprovedIsLeft ==
  ASSUME DistinctTitles, AllUndoable PROVE Spec => []DirtIsUndoable
<1>1. Init => DirtInv
  BY InitUndone
<1>2. TypeOK /\ TypeOK' /\ IInv /\ RInv /\ AllBound /\ DirtInv /\ [Next]_vars => DirtInv'
  BY NextDirt
<1>3. DirtInv => DirtIsUndoable
  BY DEF DirtInv, Dirty, Covers, DirtIsUndoable, AllUndoable
<1>4. Spec => []RInv /\ []AllBound
  BY Undoing, CommitsAreRead DEF AllUndoable
<1> QED
  BY <1>1, <1>2, <1>3, <1>4, Safety, TypeCorrect, PTL DEF Spec

-----------------------------------------------------------------------------
(* What landed is never put back. *)

(* Only HEAD is looked at for the commit of an interrupted group, so a later commit of
   another change set or of accepted drift hides it. *)
NoOtherCommits == (\A a, b \in ChangeSets : a = b) /\ Drifting = {} /\ HeadMayFail = FALSE

(* The commits since the snapshot carry the subject it announced. *)
SubjectInv(cs) ==
  /\ manifest[cs].status # "absent" =>
       \A c \in 1..HEAD : c > manifest[cs].snapshot.preHead =>
         commits[c].subject = manifest[cs].snapshot.subject
  /\ run.set = cs /\ cs \in Linked /\ run.phase \in {"write", "stage", "commit"} =>
       manifest[cs].snapshot.subject = Subject(cs)

NoDrift == \A s \in Skus : drift[s] = None
Handled == run = Idle \/ run.set \in ChangeSets
LandedInv == Handled /\ NoDrift /\ \A cs \in ChangeSets : SubjectInv(cs)

LEMMA NextNoDrift ==
  ASSUME NoOtherCommits, TypeOK, NoDrift, [Next]_vars
  PROVE  NoDrift' /\ \A s \in Skus : ~AcceptRemote(s)
<1>1. \A s \in Skus : drift[s] # Open /\ drift[s] \notin ChangeSets /\ s \notin Drifting
  BY ConstantsAssumption DEF NoDrift, NoOtherCommits
<1>2. \A s \in Skus : ~(DetectDrift(s) \/ AcceptRemote(s) \/ KeepLocal(s) \/ ReopenDrift(s))
  BY <1>1 DEF DetectDrift, AcceptRemote, KeepLocal, ReopenDrift
<1>3. ASSUME NEW cs \in ChangeSets, Discard(cs) \/ SettleDrifts(cs)
      PROVE  NoDrift'
  BY <1>1, <1>3 DEF Discard, SettleDrifts, NoDrift
<1>4. ASSUME NEW cs \in ChangeSets, Request(cs), ~Discard(cs)
      PROVE  drift' = drift
  BY <1>1, <1>4 DEF Request, Stage, EditDraft, ReconcileDrift, ApproveDraft, RefuseApproved, Recover, rowVars
<1>5. ASSUME NEW cs \in ChangeSets, Step(cs), ~SettleDrifts(cs)
      PROVE  drift' = drift
  BY <1>5 DEF Step, Undo, Gate, SaveSnapshot, WriteProduct, WriteFails, CrashInWrite, StageFiles,
     CommitGroup, HashUnread, CommitFails, SetStatus, SetStatusFails, RecordPointers, RecordAudit,
     MarkManifest, CompletionFails, rowVars, FinalizePlan, Finish, LoadExport
<1>6. Crash \/ UNCHANGED vars => drift' = drift
  BY DEF Crash, rowVars, vars
<1>7. NoDrift' \/ drift' = drift
  BY <1>2, <1>3, <1>4, <1>5, <1>6 DEF Next
<1> QED
  BY <1>2, <1>7 DEF NoDrift

LEMMA NextHandled ==
  ASSUME TypeOK, Handled, [Next]_vars
  PROVE  Handled'
<1>1. ASSUME NEW cs \in ChangeSets, Request(cs)
      PROVE  run' = Idle \/ run'.set = cs
  BY <1>1, RequestStarts
<1>2. ASSUME NEW cs \in ChangeSets, Step(cs), ~LoadExport(cs)
      PROVE  run' = Idle \/ run'.set = cs
  <2>1. run.set = cs
    BY <1>2 DEF Step, Undo, Gate, SaveSnapshot, WriteProduct, WriteFails, CrashInWrite, StageFiles,
       CommitGroup, HashUnread, CommitFails, SetStatus, SetStatusFails, RecordPointers, SettleDrifts,
       RecordAudit, MarkManifest, CompletionFails, FinalizePlan, Finish, At
  <2>2. CASE \/ SetStatus(cs) \/ SetStatusFails(cs) \/ SettleDrifts(cs) \/ RecordAudit(cs)
             \/ \E bad \in SUBSET Skus : RecordPointers(cs, bad)
             \/ MarkManifest(cs) \/ CompletionFails(cs) \/ FinalizePlan(cs) \/ Finish(cs)
    BY <2>1, <2>2, CompletionMoves
  <2>3. CASE \/ Gate(cs) \/ SaveSnapshot(cs) \/ StageFiles(cs)
             \/ CommitGroup(cs) \/ HashUnread(cs) \/ CommitFails(cs)
             \/ \E k \in 0..3 : Undo(cs, k)
             \/ \E s \in Skus : WriteProduct(cs, s)
                                \/ \E k \in 0..2 : WriteFails(cs, s, k) \/ CrashInWrite(cs, s, k)
    <3>1. CASE Gate(cs)
      BY <3>1, GateFields
    <3>2. CASE \E s \in Skus : WriteProduct(cs, s)
                               \/ \E k \in 0..2 : WriteFails(cs, s, k) \/ CrashInWrite(cs, s, k)
      <4>1. run' = Idle \/ GoTo("restore") \/ \E s \in Skus : \E written : run' = AfterProduct(s, written)
        BY <3>2, WriteMoves
      <4> QED
        BY <2>1, <4>1, GoToFields, AfterFields
    <3>3. CASE \/ SaveSnapshot(cs) \/ StageFiles(cs)
               \/ CommitGroup(cs) \/ HashUnread(cs) \/ CommitFails(cs)
               \/ \E k \in 0..3 : Undo(cs, k)
      <4>1. run' = Idle \/ \E phase, c : GoTo(phase) \/ run' = [run EXCEPT !.phase = phase, !.commit = c]
        BY <3>3 DEF Undo, SaveSnapshot, StageFiles, CommitGroup, HashUnread, CommitFails, Answer
      <4> QED
        BY <2>1, <4>1, GoToFields DEF TypeOK, Run
    <3> QED
      BY <2>3, <3>1, <3>2, <3>3
  <2> QED
    BY <1>2, <2>2, <2>3 DEF Step
<1>3. ASSUME NEW cs \in ChangeSets, LoadExport(cs)
      PROVE  run' = Idle
  BY <1>3 DEF LoadExport, Answer
<1>4. Crash \/ (\E s \in Skus : DetectDrift(s) \/ AcceptRemote(s) \/ KeepLocal(s) \/ ReopenDrift(s))
      => run' = Idle
  BY DEF bounds, Crash, DetectDrift, AcceptRemote, KeepLocal, ReopenDrift
<1>5. UNCHANGED vars => run' = run
  BY DEF vars
<1>6. run' = Idle \/ run'.set \in ChangeSets \/ run' = run
  BY <1>1, <1>2, <1>3, <1>4, <1>5 DEF Next
<1> QED
  BY <1>6 DEF Handled

LEMMA SubjectStays ==
  ASSUME NEW x \in ChangeSets, SubjectInv(x), commits' = commits,
         manifest'[x].snapshot = manifest[x].snapshot,
         manifest'[x].status # "absent" => manifest[x].status # "absent",
         run'.set = x /\ x \in Linked /\ run'.phase \in {"write", "stage", "commit"} =>
           run.set = x /\ run.phase \in {"write", "stage", "commit"} /\ sets' = sets
  PROVE  SubjectInv(x)'
<1>1. HEAD' = HEAD /\ (sets' = sets => Subject(x)' = Subject(x))
  BY DEF HEAD, Subject, Items
<1> QED
  BY <1>1 DEF SubjectInv

(* The group that is committed is the one whose subject the snapshot announced. *)
LEMMA CommitSubject ==
  ASSUME TypeOK, IInv, RInv, NEW cs \in ChangeSets, SubjectInv(cs), CommitGroup(cs)
  PROVE  SubjectInv(cs)'
<1> DEFINE tree == [s \in Skus |-> IF s \in run.done THEN worktree[s] ELSE HeadTree[s]]
           c == [subject |-> <<Title[cs], Cardinality(run.done)>>, tree |-> tree]
<1>1. /\ run.set = cs /\ run.phase = "commit" /\ UNCHANGED <<manifest, sets>>
      /\ commits' = commits \/ commits' = Append(commits, c)
  BY DEF CommitGroup, CommittedLog, At
<1>2. run'.phase = "status"
  BY DEF CommitGroup, TypeOK, Run
<1>3. CASE commits' = commits
  BY <1>1, <1>2, <1>3, SubjectStays
<1>4. CASE commits' = Append(commits, c) /\ cs \in Linked
  <2>1. run.done = Items(cs)
    BY <1>1, <1>4 DEF IInv, Inv, WriteInv, RInv, UndoneInv
  <2>2. c.subject = manifest[cs].snapshot.subject
    BY <1>1, <1>4, <2>1 DEF SubjectInv, Subject
  <2> HIDE DEF c
  <2>3. /\ commits \in Seq(Commit) /\ Len(commits) \in Nat
        /\ \A i \in 1..Len(commits') : (commits'[i] = commits[i] /\ i \in 1..Len(commits)) \/ commits'[i] = c
    BY <1>4 DEF TypeOK
  <2>4. \A i \in 1..HEAD' : i > manifest[cs].snapshot.preHead =>
          commits'[i].subject = manifest[cs].snapshot.subject
    <3>1. manifest[cs].status = "pending"
      BY <1>1, <1>4 DEF IInv, Inv, WriteInv
    <3> QED
      BY <2>2, <2>3, <3>1 DEF SubjectInv, HEAD
  <2> QED
    BY <1>1, <1>2, <2>4 DEF SubjectInv
<1>5. CASE cs \notin Linked
  BY <1>1, <1>5 DEF IInv, Inv, ManifestInv, NoManifest, SubjectInv
<1> QED
  BY <1>1, <1>3, <1>4, <1>5

LEMMA SnapshotSubject ==
  ASSUME TypeOK, NEW cs \in ChangeSets, SubjectInv(cs), SaveSnapshot(cs)
  PROVE  SubjectInv(cs)'
<1> DEFINE row == [status |-> "pending", commit |-> 0, writes |-> sets[cs].draft,
                   reads |-> [s \in Skus |-> IF s \in ReadSkus(cs)
                                             THEN TreeAt(sets[cs].baseCommit)[s] ELSE None],
                   snapshot |-> SnapshotOf(cs)]
<1>1. /\ UNCHANGED <<sets, commits>> /\ run'.phase \in {"write", "restore"}
      /\ \/ run'.phase = "restore" /\ manifest' = manifest
         \/ manifest' = [manifest EXCEPT ![cs] = row]
  BY DEF SaveSnapshot, GoTo, TypeOK, Run
<1>2. row.snapshot.preHead = HEAD /\ row.snapshot.subject = Subject(cs)
  BY DEF SnapshotOf
<1> HIDE DEF row
<1>3. CASE run'.phase = "restore" /\ manifest' = manifest
  BY <1>1, <1>3, SubjectStays
<1>4. CASE manifest' = [manifest EXCEPT ![cs] = row]
  <2>1. manifest'[cs] = row
    BY <1>4 DEF TypeOK
  <2>2. HEAD' = HEAD /\ Subject(cs)' = Subject(cs) /\ HEAD \in Nat
    BY <1>1, HeadType DEF HEAD, Subject, Items
  <2> QED
    BY <1>2, <2>1, <2>2 DEF SubjectInv
<1> QED
  BY <1>1, <1>3, <1>4

LEMMA StepSubject ==
  ASSUME HeadMayFail = FALSE, TypeOK, IInv, RInv, AllBound, NEW cs \in ChangeSets, SubjectInv(cs), Step(cs)
  PROVE  SubjectInv(cs)'
<1>1. CASE \/ SetStatus(cs) \/ SetStatusFails(cs) \/ SettleDrifts(cs) \/ RecordAudit(cs)
           \/ \E bad \in SUBSET Skus : RecordPointers(cs, bad)
           \/ MarkManifest(cs) \/ CompletionFails(cs) \/ FinalizePlan(cs) \/ Finish(cs) \/ LoadExport(cs)
  <2>1. run.set = cs
    BY <1>1 DEF SetStatus, SetStatusFails, SettleDrifts, RecordAudit, RecordPointers, MarkManifest,
       CompletionFails, FinalizePlan, Finish, LoadExport, At
  <2>2. run'.phase \in Completing \union {"load", "idle"}
    BY <1>1, <2>1, CompletionMoves DEF AllBound, Completing
  <2>3. /\ commits' = commits /\ manifest'[cs].snapshot = manifest[cs].snapshot
        /\ manifest'[cs].status # "absent" => manifest[cs].status # "absent"
    BY <1>1, CompletionRows
  <2> QED
    BY <2>2, <2>3, SubjectStays DEF Completing
<1>2. CASE Gate(cs) \/ \E k \in 0..3 : Undo(cs, k)
  <2>1. UNCHANGED <<manifest, commits>>
    BY <1>2 DEF Gate, Undo
  <2>2. cs \in Linked => run'.phase \in {"snapshot", "gates", "idle"}
    BY <1>2, IdleSet DEF Gate, Undo, Answer, GoTo, TypeOK, Run
  <2> QED
    BY <2>1, <2>2, SubjectStays
<1>3. CASE \/ StageFiles(cs) \/ CommitFails(cs)
           \/ \E s \in Skus : WriteProduct(cs, s)
                              \/ \E k \in 0..2 : WriteFails(cs, s, k) \/ CrashInWrite(cs, s, k)
  <2>1. UNCHANGED <<manifest, commits, sets>>
    BY <1>3 DEF StageFiles, CommitFails, WriteProduct, WriteFails, CrashInWrite
  <2>2. run.set = cs /\ run.phase \in {"write", "stage", "commit"}
    BY <1>3 DEF StageFiles, CommitFails, WriteProduct, WriteFails, CrashInWrite, At
  <2> QED
    BY <2>1, <2>2, SubjectStays
<1> QED
  BY <1>1, <1>2, <1>3, CommitSubject, SnapshotSubject DEF Step, HashUnread

LEMMA NextLanded ==
  ASSUME NoOtherCommits, TypeOK, IInv, RInv, AllBound, LandedInv, [Next]_vars
  PROVE  LandedInv'
<1>1. NoDrift' /\ \A s \in Skus : ~AcceptRemote(s)
  BY NextNoDrift DEF LandedInv
<1>2. Handled'
  BY NextHandled DEF LandedInv
<1> SUFFICES ASSUME NEW x \in ChangeSets PROVE SubjectInv(x)'
  BY <1>1, <1>2 DEF LandedInv
<1>3. SubjectInv(x) /\ \A cs \in ChangeSets : cs = x
  BY DEF LandedInv, NoOtherCommits
<1>4. CASE Step(x)
  BY <1>3, <1>4, StepSubject DEF NoOtherCommits
<1>5. CASE Request(x)
  <2>1. commits' = commits /\ run = Idle
    BY <1>5 DEF Request, Stage, EditDraft, Discard, ReconcileDrift, ApproveDraft, RefuseApproved, Recover, rowVars
  <2>2. manifest'[x] = manifest[x] \/ manifest'[x] = NoManifest
    BY <1>5 DEF Request, Stage, EditDraft, Discard, ReconcileDrift, ApproveDraft, RefuseApproved, Recover, rowVars, TypeOK
  <2>3. run'.phase \notin {"write", "stage", "commit"}
    BY <1>5, IdleSet, RequestStarts
  <2>4. CASE manifest'[x] = manifest[x]
    BY <1>3, <2>1, <2>3, <2>4, SubjectStays
  <2>5. CASE manifest'[x] = NoManifest
    BY <2>3, <2>5 DEF SubjectInv, NoManifest
  <2> QED
    BY <2>2, <2>4, <2>5
<1>6. CASE Crash \/ UNCHANGED vars \/ \E s \in Skus : DetectDrift(s) \/ KeepLocal(s) \/ ReopenDrift(s)
  <2>1. UNCHANGED <<manifest, commits, sets>> /\ (run' = Idle \/ run' = run)
    BY <1>6 DEF Crash, rowVars, vars, DetectDrift, KeepLocal, ReopenDrift
  <2> QED
    BY <1>3, <2>1, IdleSet, SubjectStays
<1> QED
  BY <1>1, <1>3, <1>4, <1>5, <1>6 DEF Next

LEMMA InitLanded == Init => LandedInv
BY DEF Init, LandedInv, Handled, NoDrift, SubjectInv, NoManifest, Idle

(* While one change set is the only source of commits, its approval may be interrupted,
   edited, discarded and retried in any order: what landed is never put back. *)
THEOREM LandedIsKept == ASSUME NoOtherCommits PROVE Spec => []LandedStays
<1>1. DistinctTitles /\ HeadMayFail = FALSE
  BY DEF NoOtherCommits, DistinctTitles
<1>2. Init => LandedInv
  BY InitLanded
<1>3. TypeOK /\ IInv /\ RInv /\ AllBound /\ LandedInv /\ [Next]_vars => LandedInv'
  BY NextLanded
<1>4. TypeOK /\ IInv /\ RInv /\ LandedInv => LandedStays
  <2> SUFFICES ASSUME TypeOK, IInv, RInv, LandedInv, run.phase \in {"restore", "restoreThenGate"},
                      manifest[run.set].status = "pending",
                      NEW c \in 1..HEAD, c > manifest[run.set].snapshot.preHead
               PROVE  commits[c].subject # manifest[run.set].snapshot.subject
    BY DEF LandedStays
  <2>1. CASE run.set \in ChangeSets
    <3> DEFINE m == manifest[run.set]
    <3>1. Undoable(run.set) /\ SubjectInv(run.set) /\ ManifestInv(run.set)
      BY <2>1 DEF RInv, UndoneInv, LandedInv, IInv, Inv
    <3>2. m.commit = 0 /\ m.snapshot.preHead \in Nat /\ HEAD \in Nat /\ HEAD >= c
      BY <2>1, <3>1, HeadType DEF ManifestInv, TypeOK, ManifestRow, Snapshot
    <3>3. HEAD = m.snapshot.preHead \/ commits[HEAD].subject # m.snapshot.subject
      BY <3>1, <3>2, HeadType DEF Undoable, LandedCommit
    <3>4. HEAD > m.snapshot.preHead
      BY <3>2
    <3> QED
      BY <3>1, <3>2, <3>3, <3>4, HeadType DEF SubjectInv
  <2>2. run.set \in ChangeSets
    BY IdleSet DEF LandedInv, Handled
  <2> QED
    BY <2>1, <2>2
<1>5. Spec => []RInv /\ []AllBound
  BY <1>1, Undoing, CommitsAreRead
<1> QED
  BY <1>1, <1>2, <1>3, <1>4, <1>5, Safety, TypeCorrect, PTL DEF Spec

-----------------------------------------------------------------------------
(* The pointers of the product index never go back. *)

(* The row of every product of the first commit names a commit, and no row a later one than HEAD. *)
IndexInv ==
  \A s \in Skus :
    /\ productIndex[s].commit <= HEAD
    /\ TreeAt(1)[s] # None => productIndex[s].commit >= 1

(* A group starts from the first commit, and while it has no commit of its own the rows
   its snapshot would bring back name commits as new as those of the index. *)
SnapshotInv(cs) ==
  LET m == manifest[cs]
  IN /\ m.status # "absent" =>
          /\ m.snapshot.preHead = 1
          /\ \A s \in Owned(m) :
               /\ m.snapshot.index[s].commit <= HEAD
               /\ TreeAt(1)[s] # None => m.snapshot.index[s].commit >= 1
               /\ HEAD = 1 => productIndex[s].commit <= m.snapshot.index[s].commit
     /\ cs \in Linked /\ m.status = "absent" /\ sets[cs].status # "discarded" => HEAD = 1

(* The approval of a standalone set names a commit as new as any pointer. *)
StandaloneInv(cs) ==
  cs \notin Linked =>
    /\ sets[cs].status = "approved" => \A s \in Skus : productIndex[s].commit <= sets[cs].approved
    /\ run.set = cs /\ run.phase \in Completing => \A s \in Skus : productIndex[s].commit <= run.commit

PointerInv == IndexInv /\ \A cs \in ChangeSets : SnapshotInv(cs) /\ StandaloneInv(cs)

(* As long as a group has no commit of its own, HEAD is still the first one. *)
LEMMA HeadIsFirst ==
  ASSUME TypeOK, NEW cs \in ChangeSets, cs \in Linked, SubjectInv(cs), SnapshotInv(cs), ManifestInv(cs),
         manifest[cs].status = "absent" \/ Undoable(cs), sets[cs].status # "discarded"
  PROVE  HEAD = 1
<1>1. HEAD \in Nat /\ HEAD >= 1
  BY HeadType
<1>2. CASE Undoable(cs)
  BY <1>1, <1>2 DEF SubjectInv, SnapshotInv, Undoable, LandedCommit, ManifestInv
<1> QED
  BY <1>2 DEF SnapshotInv

(* The commit a group is approved at is HEAD. *)
LEMMA NamedIsHead ==
  ASSUME TypeOK, NEW cs \in ChangeSets, cs \in Linked, SubjectInv(cs), SnapshotInv(cs), Inv(cs),
         sets[cs].status # "discarded", NEW c \in Named(cs)
  PROVE  c = HEAD
<1>1. HEAD \in Nat /\ HEAD >= 1 /\ c \in 1..HEAD
  BY HeadType DEF Inv, OneCommit, Whole
<1>2. CASE HEAD > 1
  <2>1. manifest[cs].status # "absent" /\ HEAD > manifest[cs].snapshot.preHead
    BY <1>2 DEF SnapshotInv
  <2>2. HEAD \in Own(cs)
    BY <1>1, <2>1 DEF Own, SubjectInv, ManifestInv, Inv
  <2>3. HEAD \in Named(cs)
    BY <1>1, <2>1, <2>2 DEF Named
  <2> QED
    BY <2>3 DEF Inv, OneCommit
<1> QED
  BY <1>1, <1>2

LEMMA SnapshotStays ==
  ASSUME TypeOK, NEW x \in ChangeSets, SnapshotInv(x), commits' = commits,
         \A s \in Skus : productIndex'[s].commit = productIndex[s].commit,
         \/ /\ manifest'[x].snapshot = manifest[x].snapshot /\ manifest'[x].writes = manifest[x].writes
            /\ manifest'[x].status = "absent" <=> manifest[x].status = "absent"
            /\ sets'[x].status # "discarded" => sets[x].status # "discarded"
         \/ manifest'[x].status = "absent" /\ sets'[x].status = "discarded"
  PROVE  SnapshotInv(x)'
<1>1. HEAD' = HEAD /\ TreeAt(1)' = TreeAt(1)
  BY DEF HEAD, TreeAt
<1> QED
  BY <1>1 DEF SnapshotInv, Owned

LEMMA IndexStays ==
  ASSUME IndexInv, commits' = commits, \A s \in Skus : productIndex'[s].commit = productIndex[s].commit
  PROVE  IndexInv'
<1>1. HEAD' = HEAD /\ TreeAt(1)' = TreeAt(1)
  BY DEF HEAD, TreeAt
<1> QED
  BY <1>1 DEF IndexInv

(* A request leaves the index alone and completes a standalone set at its own commit. *)
LEMMA RequestPointers ==
  ASSUME TypeOK, TypeOK', IInv, PointerInv, NEW x \in ChangeSets, Request(x),
         \A cs \in ChangeSets : cs = x
  PROVE  PointerInv' /\ productIndex' = productIndex
<1>1. /\ commits' = commits /\ run = Idle /\ productIndex' = productIndex
      /\ SnapshotInv(x) /\ StandaloneInv(x) /\ ManifestInv(x)
  BY DEF Request, Stage, EditDraft, Discard, ReconcileDrift, ApproveDraft, RefuseApproved, Recover, rowVars, catalogVars,
     PointerInv, IInv, Inv
<1>2. IndexInv'
  BY <1>1, IndexStays DEF PointerInv
<1>3. CASE Discard(x)
  <2>1. manifest'[x].status = "absent" /\ sets'[x].status = "discarded" /\ run' = Idle
    BY <1>1, <1>3 DEF Discard, TypeOK, NoManifest, NoSet
  <2>2. SnapshotInv(x)' /\ StandaloneInv(x)'
    BY <1>1, <2>1, SnapshotStays, IdleSet DEF StandaloneInv
  <2> QED
    BY <1>1, <1>2, <2>2 DEF PointerInv
<1>4. CASE ~Discard(x)
  <2>1. manifest' = manifest /\ RowMoves(x) /\ (sets'[x].status # "discarded" => sets[x].status # "discarded")
    <3>1. manifest' = manifest
      BY <1>4 DEF Request, Stage, EditDraft, ReconcileDrift, ApproveDraft, RefuseApproved, Recover, rowVars
    <3>2. sets' = sets \/ sets[x].status \in {"absent", "draft"}
      BY <1>4 DEF Request, Stage, EditDraft, ReconcileDrift, ApproveDraft, RefuseApproved, Recover, rowVars
    <3> QED
      BY <3>1, <3>2, RequestMoves
  <2>2. SnapshotInv(x)'
    BY <1>1, <2>1, SnapshotStays
  <2>3. StandaloneInv(x)'
    <3> SUFFICES ASSUME x \notin Linked PROVE StandaloneInv(x)'
      BY DEF StandaloneInv
    <3>1. LandedCommit(x) = 0 /\ ~Undoable(x)
      BY <1>1 DEF ManifestInv, NoManifest, LandedCommit, Undoable
    <3>2. CASE ApproveDraft(x) \/ RefuseApproved(x) \/ Recover(x, "approve") \/ Recover(x, "export")
      <4>1. /\ sets' = sets
            /\ \/ run'.phase \notin Completing
               \/ run'.commit = sets[x].approved /\ sets[x].status = "approved"
        BY <3>1, <3>2, IdleSet DEF ApproveDraft, RefuseApproved, Recover, Start, Complete, Answer, Idle, Completing, rowVars
      <4> QED
        BY <1>1, <4>1 DEF StandaloneInv
    <3>3. CASE ~(ApproveDraft(x) \/ RefuseApproved(x) \/ Recover(x, "approve") \/ Recover(x, "export"))
      <4>1. run' = Idle
        BY <1>1, <1>4, <3>3 DEF Request, Stage, EditDraft, ReconcileDrift, bounds
      <4>2. sets'[x].status # "approved"
        <5>1. CASE \E s \in Skus, v \in DraftContent[x] : EditDraft(x, s, v)
          BY <5>1 DEF EditDraft, TypeOK, ChangeSetRow
        <5>2. CASE \/ \E v \in DraftContent[x] : Stage(x, v)
                   \/ \E s \in Skus, v \in DraftContent[x], b \in Files : ReconcileDrift(x, s, v, b)
          <6>1. \E row : row.status = "draft" /\ sets' = [sets EXCEPT ![x] = row]
            BY <5>2 DEF Stage, ReconcileDrift, StagedSet
          <6> QED
            BY <6>1 DEF TypeOK
        <5> QED
          BY <1>4, <3>3, <5>1, <5>2 DEF Request
      <4> QED
        BY <4>1, <4>2, IdleSet DEF StandaloneInv
    <3> QED
      BY <3>2, <3>3
  <2> QED
    BY <1>1, <1>2, <2>2, <2>3 DEF PointerInv
<1> QED
  BY <1>1, <1>3, <1>4

(* A step that leaves the pointers and the log as they are. *)
LEMMA QuietPointers ==
  ASSUME TypeOK, TypeOK', IInv, PointerInv, NEW x \in ChangeSets, \A cs \in ChangeSets : cs = x,
         commits' = commits, \A s \in Skus : productIndex'[s].commit = productIndex[s].commit,
         manifest'[x].snapshot = manifest[x].snapshot, manifest'[x].writes = manifest[x].writes,
         manifest'[x].status = "absent" <=> manifest[x].status = "absent",
         sets'[x].status # "discarded" => sets[x].status # "discarded",
         \/ sets'[x] = sets[x]
         \/ run.set = x /\ run.phase \in Completing /\ sets'[x].approved = run.commit,
         \/ run'.set # x \/ run'.phase \notin Completing
         \/ run.set = x /\ run.phase \in Completing /\ run'.commit = run.commit
  PROVE  PointerInv'
<1>1. IndexInv' /\ SnapshotInv(x)'
  BY IndexStays, SnapshotStays DEF PointerInv
<1>2. StandaloneInv(x)'
  BY DEF StandaloneInv, PointerInv
<1> QED
  BY <1>1, <1>2 DEF PointerInv

(* The undo brings back rows no older than those of the index. *)
LEMMA UndoPointers ==
  ASSUME TypeOK, TypeOK', IInv, RInv, LandedInv, PointerInv, NEW x \in ChangeSets,
         \A cs \in ChangeSets : cs = x, NEW k \in 0..3, Undo(x, k)
  PROVE  PointerInv' /\ \A s \in Skus : productIndex'[s].commit >= productIndex[s].commit
<1> DEFINE m == manifest[x]
<1>1. /\ run.set = x /\ run.phase \in {"restore", "restoreThenGate"}
      /\ UNCHANGED <<sets, manifest, commits>> /\ Inv(x) /\ SnapshotInv(x) /\ IndexInv
      /\ x \in Linked /\ (m.status = "absent" \/ Undoable(x)) /\ SubjectInv(x)
  BY DEF Undo, At, IInv, RInv, Inv, UndoneInv, HandlerInv, PointerInv, LandedInv
<1>2. run' = Idle \/ run'.phase = "gates"
  BY DEF Undo, Answer, GoTo, TypeOK, Run
<1>3. \A s \in Skus : productIndex'[s] = productIndex[s]
                      \/ (s \in Owned(m) /\ productIndex'[s] = m.snapshot.index[s])
  <2>1. \/ productIndex' = productIndex
        \/ productIndex' = [s \in Skus |-> IF s \in Owned(m) THEN m.snapshot.index[s] ELSE productIndex[s]]
    BY DEF Undo, RestoreOwned
  <2> SUFFICES ASSUME NEW r \in Skus
               PROVE  productIndex'[r] = productIndex[r]
                      \/ (r \in Owned(m) /\ productIndex'[r] = m.snapshot.index[r])
    OBVIOUS
  <2> HIDE DEF m
  <2>2. CASE productIndex' = productIndex
    BY <2>2, Zenon
  <2>3. CASE productIndex' = [s \in Skus |-> IF s \in Owned(m) THEN m.snapshot.index[s] ELSE productIndex[s]]
    <3>1. productIndex'[r] = IF r \in Owned(m) THEN m.snapshot.index[r] ELSE productIndex[r]
      BY <2>3
    <3> QED
      BY <3>1
  <2> QED
    BY <2>1, <2>2, <2>3
<1>4. HEAD' = HEAD /\ TreeAt(1)' = TreeAt(1) /\ Owned(m)' = Owned(m)
  BY <1>1 DEF HEAD, TreeAt, Owned
<1>5. CASE m.status = "absent"
  <2>1. Owned(m) = {}
    BY <1>1, <1>5, AbsentOwnsNothing DEF Inv
  <2>2. \A s \in Skus : productIndex'[s] = productIndex[s] /\ productIndex[s].commit \in Nat
    BY <1>3, <2>1 DEF TypeOK, Row
  <2>3. PointerInv'
    BY <1>1, <1>2, <2>2, IdleSet, QuietPointers DEF Completing
  <2> QED
    BY <2>2, <2>3
<1>6. CASE m.status # "absent"
  <2>1. Undoable(x) /\ m.snapshot.preHead = 1
    BY <1>1, <1>6 DEF SnapshotInv
  <2>2. \A s \in Owned(m) : /\ m.snapshot.index[s].commit <= HEAD
                            /\ TreeAt(1)[s] # None => m.snapshot.index[s].commit >= 1
    BY <1>1, <1>6 DEF SnapshotInv
  <2>3. CASE sets[x].status # "discarded"
    <3>1. HEAD = 1
      BY <1>1, <2>1, <2>3, HeadIsFirst DEF Inv
    <3>2. \A s \in Owned(m) : productIndex[s].commit <= m.snapshot.index[s].commit
      BY <1>1, <1>6, <3>1 DEF SnapshotInv
    <3>3. /\ \A s \in Skus : productIndex[s].commit \in Nat
          /\ \A s \in Owned(m) : m.snapshot.index[s].commit \in Nat
      BY DEF TypeOK, Row, ManifestRow, Snapshot, Owned
    <3>4. \A s \in Skus : productIndex'[s].commit >= productIndex[s].commit
      BY <1>3, <3>2, <3>3
    <3>5. IndexInv'
      BY <1>1, <1>3, <1>4, <2>2 DEF IndexInv
    <3>6. SnapshotInv(x)'
      <4>1. \A s \in Owned(m) : productIndex'[s].commit <= m.snapshot.index[s].commit
        BY <1>3, <3>2, <3>3 DEF Owned
      <4> QED
        BY <1>1, <1>4, <1>6, <2>1, <2>2, <4>1 DEF SnapshotInv
    <3>7. StandaloneInv(x)'
      BY <1>1 DEF StandaloneInv
    <3> QED
      BY <3>4, <3>5, <3>6, <3>7 DEF PointerInv
  <2>4. CASE sets[x].status = "discarded"
    BY <1>6, <2>4 DEF RInv, RowsInv
  <2> QED
    BY <2>3, <2>4
<1> QED
  BY <1>5, <1>6

(* The gates set the pointers of unchanged members to the first commit, where they are. *)
LEMMA GatePointers ==
  ASSUME TypeOK, TypeOK', IInv, RInv, LandedInv, PointerInv, NEW x \in ChangeSets,
         \A cs \in ChangeSets : cs = x, Gate(x)
  PROVE  PointerInv' /\ \A s \in Skus : productIndex'[s].commit >= productIndex[s].commit
<1> DEFINE at == TreeAt(sets[x].baseCommit)
<1>1. /\ run.set = x /\ run.phase = "gates" /\ UNCHANGED <<sets, manifest, commits>>
      /\ Inv(x) /\ SnapshotInv(x) /\ IndexInv /\ SubjectInv(x) /\ sets[x].status = "draft"
      /\ manifest[x].status = "absent" \/ Undoable(x)
      /\ Owned(manifest[x]) \subseteq Items(x) /\ productIndex' = RefreshedIndex(x)
  BY DEF Gate, At, IInv, RInv, Inv, RowsInv, UndoneInv, HandlerInv, Working, PointerInv, LandedInv
<1>2. run'.phase \in {"snapshot", "write", "idle"}
  BY IdleSet, GateFields
<1>3. \A s \in Skus : productIndex[s].commit \in Nat
  BY DEF TypeOK, Row
<1>4. CASE x \notin Linked
  <2>1. \A s \in Skus : productIndex'[s] = productIndex[s]
    BY <1>1, <1>4 DEF RefreshedIndex
  <2>2. PointerInv'
    BY <1>1, <1>2, <2>1, QuietPointers DEF Completing
  <2> QED
    BY <1>3, <2>1, <2>2
<1>5. CASE x \in Linked
  <2>1. HEAD = 1
    BY <1>1, <1>5, HeadIsFirst DEF Inv
  <2>2. \A s \in Skus : at[s] # None => sets[x].baseCommit = 1 /\ TreeAt(1)[s] # None
    BY <2>1 DEF TreeAt
  <2>3. \A s \in Skus : \/ productIndex'[s].commit = productIndex[s].commit
                        \/ /\ s \in ReadSkus(x) /\ at[s] # None
                           /\ productIndex'[s].commit = sets[x].baseCommit
    BY <1>1 DEF RefreshedIndex
  <2>4. \A s \in Skus : productIndex'[s].commit = productIndex[s].commit
    <3> SUFFICES ASSUME NEW s \in Skus, at[s] # None, productIndex'[s].commit = sets[x].baseCommit
                 PROVE  productIndex'[s].commit = productIndex[s].commit
      BY <2>3
    <3>1. productIndex[s].commit <= 1 /\ productIndex[s].commit >= 1 /\ sets[x].baseCommit = 1
      BY <1>1, <2>1, <2>2 DEF IndexInv
    <3> QED
      BY <1>3, <3>1
  <2>5. PointerInv'
    BY <1>1, <1>2, <2>4, QuietPointers DEF Completing
  <2> QED
    BY <1>3, <2>4, <2>5
<1> QED
  BY <1>4, <1>5

LEMMA SavePointers ==
  ASSUME TypeOK, TypeOK', IInv, RInv, LandedInv, PointerInv, NEW x \in ChangeSets,
         \A cs \in ChangeSets : cs = x, SaveSnapshot(x)
  PROVE  PointerInv' /\ productIndex' = productIndex
<1> DEFINE row == [status |-> "pending", commit |-> 0, writes |-> sets[x].draft,
                   reads |-> [s \in Skus |-> IF s \in ReadSkus(x)
                                             THEN TreeAt(sets[x].baseCommit)[s] ELSE None],
                   snapshot |-> SnapshotOf(x)]
<1>1. /\ run.set = x /\ run.phase = "snapshot" /\ UNCHANGED <<sets, commits, productIndex>>
      /\ Inv(x) /\ SnapshotInv(x) /\ IndexInv /\ SubjectInv(x) /\ sets[x].status = "draft"
      /\ x \in Linked /\ (manifest[x].status = "absent" \/ Undoable(x))
  BY DEF SaveSnapshot, At, catalogVars, IInv, RInv, Inv, UndoneInv, HandlerInv, Working, PointerInv, LandedInv
<1>2. run'.phase \in {"write", "restore"}
  BY DEF SaveSnapshot, GoTo, TypeOK, Run
<1>3. manifest' = manifest \/ manifest' = [manifest EXCEPT ![x] = row]
  BY DEF SaveSnapshot
<1>4. CASE manifest' = manifest
  BY <1>1, <1>2, <1>4, QuietPointers DEF Completing
<1>5. CASE manifest' = [manifest EXCEPT ![x] = row]
  <2>1. /\ row.status = "pending" /\ row.writes = sets[x].draft /\ row.snapshot.preHead = HEAD
        /\ \A s \in Items(x) : row.snapshot.index[s] = productIndex[s]
    BY DEF SnapshotOf, Items
  <2> HIDE DEF row
  <2>2. manifest'[x] = row
    BY <1>5 DEF TypeOK
  <2>3. Owned(row) = Items(x) /\ Items(x) \subseteq Skus
    BY <2>1 DEF Owned, Items
  <2>4. HEAD' = HEAD /\ TreeAt(1)' = TreeAt(1) /\ HEAD = 1
    BY <1>1, HeadIsFirst DEF HEAD, TreeAt, Inv
  <2>5. \A s \in Skus : productIndex[s].commit \in Nat
    BY DEF TypeOK, Row
  <2>6. SnapshotInv(x)'
    <3>1. Owned(manifest[x])' = Items(x)
      BY <2>2, <2>3 DEF Owned
    <3> QED
      BY <1>1, <2>1, <2>2, <2>3, <2>4, <2>5, <3>1 DEF SnapshotInv, IndexInv
  <2>7. IndexInv' /\ StandaloneInv(x)'
    BY <1>1, IndexStays DEF StandaloneInv
  <2> QED
    BY <1>1, <2>6, <2>7 DEF PointerInv
<1> QED
  BY <1>3, <1>4, <1>5

(* Writes change hashes only, and the other steps before the commit no row. *)
LEMMA WritePointers ==
  ASSUME TypeOK, TypeOK', IInv, RInv, PointerInv, HeadMayFail = FALSE, NEW x \in ChangeSets,
         \A cs \in ChangeSets : cs = x,
         \/ StageFiles(x) \/ CommitFails(x)
         \/ \E s \in Skus : WriteProduct(x, s) \/ \E k \in 0..2 : WriteFails(x, s, k) \/ CrashInWrite(x, s, k)
  PROVE  PointerInv' /\ \A s \in Skus : productIndex'[s].commit >= productIndex[s].commit
<1>1. UNCHANGED <<sets, manifest, commits>>
  BY DEF StageFiles, CommitFails, WriteProduct, WriteFails, CrashInWrite
<1>2. run'.phase \in {"write", "stage", "commit", "restore", "idle"}
  <2>1. CASE StageFiles(x) \/ CommitFails(x)
    BY <2>1, IdleSet DEF StageFiles, CommitFails, GoTo, Answer, TypeOK, Run
  <2>2. CASE \E s \in Skus : WriteProduct(x, s)
                             \/ \E k \in 0..2 : WriteFails(x, s, k) \/ CrashInWrite(x, s, k)
    <3>1. run' = Idle \/ GoTo("restore") \/ \E r \in Skus : \E written : run' = AfterProduct(r, written)
      BY <2>2, WriteMoves
    <3> QED
      BY <3>1, IdleSet, GoToFields, AfterFields
  <2> QED
    BY <2>1, <2>2
<1>3. \A s \in Skus : productIndex'[s].commit = productIndex[s].commit /\ productIndex[s].commit \in Nat
  <2>1. ASSUME NEW s \in Skus, NEW k \in 0..3, WriteParts(x, s, k)
        PROVE  \A r \in Skus : productIndex'[r].commit = productIndex[r].commit
    BY <2>1 DEF WriteParts, TypeOK, Row
  <2>2. \/ productIndex' = productIndex
        \/ \E s \in Skus, k \in 0..3 : WriteParts(x, s, k)
    <3>1. CASE StageFiles(x) \/ CommitFails(x)
      BY <3>1 DEF StageFiles, CommitFails, catalogVars
    <3>2. CASE \E s \in Skus : WriteProduct(x, s)
      <4>1. 3 \in 0..3
        OBVIOUS
      <4> QED
        BY <3>2, <4>1 DEF WriteProduct
    <3>3. CASE \E s \in Skus : \E k \in 0..2 : WriteFails(x, s, k) \/ CrashInWrite(x, s, k)
      <4>1. 0..2 \subseteq 0..3
        OBVIOUS
      <4> QED
        BY <3>3, <4>1 DEF WriteFails, CrashInWrite
    <3> QED
      BY <3>1, <3>2, <3>3
  <2>3. \A s \in Skus : productIndex[s].commit \in Nat
    BY DEF TypeOK, Row
  <2> QED
    BY <2>1, <2>2, <2>3
<1>4. PointerInv'
  BY <1>1, <1>2, <1>3, QuietPointers DEF Completing
<1> QED
  BY <1>3, <1>4

LEMMA CommitPointers ==
  ASSUME TypeOK, TypeOK', IInv, PointerInv, [Next]_vars, NEW x \in ChangeSets,
         \A cs \in ChangeSets : cs = x, CommitGroup(x)
  PROVE  PointerInv' /\ productIndex' = productIndex
<1>1. /\ run.set = x /\ run.phase = "commit" /\ UNCHANGED <<sets, manifest, productIndex>>
      /\ Inv(x) /\ SnapshotInv(x) /\ IndexInv /\ sets[x].status = "draft"
  BY DEF CommitGroup, At, catalogVars, IInv, Inv, HandlerInv, Working, PointerInv
<1>2. run'.commit = HEAD' /\ HEAD' \in Nat
  BY <1>1, HeadType DEF CommitGroup, TypeOK, Run, HEAD
<1>3. HEAD \in Nat /\ HEAD >= 1 /\ HEAD <= HEAD' /\ TreeAt(1)' = TreeAt(1)
  <2>1. HEAD \in Nat /\ HEAD >= 1
    BY HeadType
  <2>2. 1 \in 1..HEAD /\ HEAD \in 1..HEAD
    BY <2>1
  <2> QED
    BY <2>1, <2>2, TreeStays, <1>2
<1>4. \A s \in Skus : productIndex[s].commit \in Nat
  BY DEF TypeOK, Row
<1>5. IndexInv'
  BY <1>1, <1>2, <1>3, <1>4 DEF IndexInv
<1>6. x \in Linked => manifest[x].status # "absent"
  BY <1>1 DEF Inv, WriteInv
<1>7. SnapshotInv(x)'
  <2>1. \A s \in Owned(manifest[x]) : manifest[x].snapshot.index[s].commit \in Nat
    BY DEF TypeOK, ManifestRow, Snapshot, Row, Owned
  <2>2. Owned(manifest[x])' = Owned(manifest[x])
    BY <1>1 DEF Owned
  <2> QED
    BY <1>1, <1>2, <1>3, <1>6, <2>1, <2>2 DEF SnapshotInv
<1>8. StandaloneInv(x)'
  BY <1>1, <1>2, <1>5 DEF StandaloneInv, IndexInv
<1> QED
  BY <1>1, <1>5, <1>7, <1>8 DEF PointerInv

(* The completion moves every pointer it records to the newest commit. *)
LEMMA RecordedPointers ==
  ASSUME TypeOK, TypeOK', IInv, AllBound, LandedInv, PointerInv, NEW x \in ChangeSets,
         \A cs \in ChangeSets : cs = x, NEW bad \in SUBSET Skus, RecordPointers(x, bad)
  PROVE  PointerInv' /\ \A s \in Skus : productIndex'[s].commit >= productIndex[s].commit
<1> DEFINE m == manifest[x]
<1>1. /\ run.set = x /\ run.phase = "pointers" /\ UNCHANGED <<sets, manifest, commits>>
      /\ Inv(x) /\ SnapshotInv(x) /\ StandaloneInv(x) /\ IndexInv /\ SubjectInv(x)
      /\ sets[x].status = "approved" /\ run.phase \in Completing
  BY DEF RecordPointers, At, IInv, Inv, HandlerInv, Completing, PointerInv, LandedInv
<1>2. run.commit \in Named(x) /\ sets[x].approved \in Named(x) /\ OneCommit(x)
  BY <1>1, RunCommitNamed, RowsNamed DEF Inv, AllBound
<1>3. run.commit \in Nat /\ run.commit >= 1 /\ run.commit <= HEAD /\ HEAD \in Nat
      /\ sets[x].approved = run.commit
  BY <1>2, HeadType DEF OneCommit, Whole
<1>4. \A s \in Skus : productIndex[s].commit \in Nat /\ productIndex[s].commit <= run.commit
  <2>1. CASE x \in Linked
    <3>1. run.commit = HEAD
      BY <1>1, <1>2, <2>1, NamedIsHead
    <3> QED
      BY <1>1, <3>1 DEF IndexInv, TypeOK, Row
  <2>2. CASE x \notin Linked
    BY <1>1, <2>2 DEF StandaloneInv, TypeOK, Row
  <2> QED
    BY <2>1, <2>2
<1>5. \A s \in Skus : productIndex'[s].commit = productIndex[s].commit
                      \/ productIndex'[s].commit = run.commit
  BY DEF RecordPointers
<1>6. \A s \in Skus : productIndex'[s].commit >= productIndex[s].commit /\ productIndex'[s].commit <= run.commit
  BY <1>3, <1>4, <1>5
<1>7. HEAD' = HEAD /\ TreeAt(1)' = TreeAt(1) /\ Owned(m)' = Owned(m)
  BY <1>1 DEF HEAD, TreeAt, Owned
<1>8. IndexInv'
  BY <1>1, <1>3, <1>5, <1>7 DEF IndexInv
<1>9. SnapshotInv(x)'
  <2>1. ASSUME HEAD = 1, NEW s \in Owned(m), m.status # "absent"
        PROVE  productIndex'[s].commit <= m.snapshot.index[s].commit
    <3>1. run.commit = 1 /\ s \in Skus /\ m.writes[s] # None
      BY <1>3, <2>1 DEF Owned
    <3>2. TreeAt(1)[s] # None
      BY <1>2, <3>1 DEF OneCommit, Whole
    <3>3. m.snapshot.index[s].commit \in Nat
      BY <3>1 DEF TypeOK, ManifestRow, Snapshot, Row
    <3>4. m.snapshot.index[s].commit >= 1
      BY <1>1, <2>1, <3>1, <3>2 DEF SnapshotInv
    <3> QED
      BY <1>3, <1>4, <1>5, <3>1, <3>3, <3>4
  <2> QED
    BY <1>1, <1>7, <2>1 DEF SnapshotInv
<1>10. run'.commit = run.commit
  <2>1. PICK f : run' = [run EXCEPT !.phase = "drifts", !.failed = f]
    BY DEF RecordPointers
  <2> QED
    BY <2>1 DEF TypeOK, Run
<1>11. StandaloneInv(x)'
  BY <1>1, <1>3, <1>6, <1>10 DEF StandaloneInv
<1> QED
  BY <1>6, <1>8, <1>9, <1>11 DEF PointerInv

(* The other steps of the completion. *)
LEMMA CompletionPointers ==
  ASSUME TypeOK, TypeOK', IInv, AllBound, PointerInv, NEW x \in ChangeSets,
         \A cs \in ChangeSets : cs = x,
         \/ SetStatus(x) \/ SetStatusFails(x) \/ SettleDrifts(x) \/ RecordAudit(x)
         \/ MarkManifest(x) \/ CompletionFails(x) \/ FinalizePlan(x) \/ Finish(x) \/ LoadExport(x)
  PROVE  PointerInv' /\ productIndex' = productIndex
<1>1. run.set = x /\ productIndex' = productIndex /\ run.phase \in Completing \union {"load"}
  BY StatusFailsMoves DEF SetStatus, SettleDrifts, RecordAudit, MarkManifest, CompletionFails,
     FinalizePlan, Finish, LoadExport, At, rowVars, catalogVars, Completing
<1>2. /\ commits' = commits
      /\ manifest'[x].snapshot = manifest[x].snapshot /\ manifest'[x].writes = manifest[x].writes
      /\ manifest'[x].status = "absent" <=> manifest[x].status = "absent"
  BY CompletionRows
<1>3. /\ sets'[x].status # "discarded" => sets[x].status # "discarded"
      /\ \/ sets'[x] = sets[x]
         \/ run.phase \in Completing /\ sets'[x].approved = run.commit
  <2>1. CASE SetStatus(x)
    <3>1. sets[x].status \in {"draft", "approved"}
      BY <2>1 DEF SetStatus, At, IInv, Inv, HandlerInv
    <3>2. run.phase \in Completing /\ run.commit # 0
      BY <1>1, <2>1 DEF SetStatus, At, Completing, AllBound
    <3> QED
      BY <2>1, <3>1, <3>2, StatusFields
  <2>2. CASE ~SetStatus(x)
    BY <2>2, StatusFailsMoves DEF SettleDrifts, RecordAudit, MarkManifest, CompletionFails,
       FinalizePlan, Finish, LoadExport, rowVars
  <2> QED
    BY <2>1, <2>2
<1>4. run'.phase \in Completing => run'.commit = run.commit /\ run.phase \in Completing
  <2>1. \/ run' = Idle
        \/ \E f : \E phase \in {"load"} \union Completing : run.phase \in Completing /\
             (\/ run' = [run EXCEPT !.phase = phase]
              \/ run' = [run EXCEPT !.failed = f, !.phase = phase])
    <3>1. CASE LoadExport(x)
      BY <3>1 DEF LoadExport, Answer
    <3>2. CASE CompletionFails(x)
      <4> DEFINE phase == CASE run.phase = "drifts" -> "audit"
                            [] run.phase = "audit" -> "mark"
                            [] OTHER -> "finish"
      <4>1. phase \in Completing /\ run.phase \in Completing
        BY <3>2 DEF Completing, CompletionFails
      <4>2. run' = Idle \/ run' = [run EXCEPT !.failed = ~Standalone(x), !.phase = phase]
        BY <3>2 DEF CompletionFails, Answer
      <4> HIDE DEF phase
      <4> QED
        BY <4>1, <4>2
    <3>3. CASE ~LoadExport(x) /\ ~CompletionFails(x)
      <4>1. {"pointers", "drifts", "audit", "mark", "plan", "finish", "status"} = Completing
        BY DEF Completing
      <4>2. run.phase \in Completing
        BY <3>3, <4>1 DEF SetStatus, SetStatusFails, SettleDrifts, RecordAudit, MarkManifest,
           FinalizePlan, Finish, At
      <4>3. run' = Idle \/ \E phase \in {"load"} \union Completing : run' = [run EXCEPT !.phase = phase]
        BY <1>1, <3>3, <4>1, <4>2, StatusFailsMoves DEF AllBound, SetStatus, SettleDrifts, RecordAudit, MarkManifest,
           FinalizePlan, Finish, GoTo, Answer
      <4> QED
        BY <4>2, <4>3
    <3> QED
      BY <3>1, <3>2, <3>3
  <2>2. ASSUME NEW f, NEW phase,
               \/ run' = [run EXCEPT !.phase = phase]
               \/ run' = [run EXCEPT !.failed = f, !.phase = phase]
        PROVE  run'.commit = run.commit
    BY <2>2 DEF TypeOK, Run
  <2>3. run' = Idle => run'.phase \notin Completing
    BY IdleSet DEF Completing
  <2> QED
    BY <2>1, <2>2, <2>3
<1>5. PointerInv'
  BY <1>1, <1>2, <1>3, <1>4, QuietPointers
<1> QED
  BY <1>1, <1>5

LEMMA NextPointers ==
  ASSUME NoOtherCommits, TypeOK, TypeOK', IInv, RInv, AllBound, LandedInv, PointerInv, [Next]_vars
  PROVE  PointerInv' /\ \A s \in Skus : productIndex'[s].commit >= productIndex[s].commit
<1>1. \A s \in Skus : productIndex[s].commit \in Nat /\ ~AcceptRemote(s)
  BY NextNoDrift DEF TypeOK, Row, LandedInv
<1>2. ASSUME NEW x \in ChangeSets, Request(x) \/ Step(x)
      PROVE  PointerInv' /\ \A s \in Skus : productIndex'[s].commit >= productIndex[s].commit
  <2>1. \A cs \in ChangeSets : cs = x
    BY DEF NoOtherCommits
  <2>2. CASE \/ Request(x) \/ SaveSnapshot(x) \/ CommitGroup(x)
             \/ SetStatus(x) \/ SetStatusFails(x) \/ SettleDrifts(x) \/ RecordAudit(x)
             \/ MarkManifest(x) \/ CompletionFails(x) \/ FinalizePlan(x) \/ Finish(x) \/ LoadExport(x)
    <3>1. PointerInv' /\ productIndex' = productIndex
      BY <2>1, <2>2, RequestPointers, SavePointers, CommitPointers, CompletionPointers
    <3> QED
      BY <1>1, <3>1
  <2>3. CASE \/ Gate(x) \/ StageFiles(x) \/ CommitFails(x)
             \/ \E k \in 0..3 : Undo(x, k)
             \/ \E bad \in SUBSET Skus : RecordPointers(x, bad)
             \/ \E s \in Skus : WriteProduct(x, s)
                                \/ \E k \in 0..2 : WriteFails(x, s, k) \/ CrashInWrite(x, s, k)
    BY <2>1, <2>3, GatePointers, UndoPointers, WritePointers, RecordedPointers DEF NoOtherCommits
  <2>4. ~HashUnread(x)
    BY DEF HashUnread, NoOtherCommits
  <2> QED
    BY <1>2, <2>2, <2>3, <2>4 DEF Step
<1>3. CASE Crash \/ UNCHANGED vars \/ \E s \in Skus : DetectDrift(s) \/ KeepLocal(s) \/ ReopenDrift(s)
  <2>1. UNCHANGED <<sets, manifest, commits, productIndex>> /\ (run' = Idle \/ run' = run)
    BY <1>3 DEF Crash, rowVars, vars, catalogVars, DetectDrift, KeepLocal, ReopenDrift
  <2>2. IndexInv'
    BY <2>1, IndexStays DEF PointerInv
  <2>3. \A x \in ChangeSets : SnapshotInv(x)' /\ StandaloneInv(x)'
    BY <2>1, SnapshotStays, IdleSet DEF PointerInv, StandaloneInv
  <2> QED
    BY <1>1, <2>1, <2>2, <2>3 DEF PointerInv
<1> QED
  BY <1>1, <1>2, <1>3 DEF Next

LEMMA InitPointers == Init => PointerInv
<1> SUFFICES ASSUME Init PROVE PointerInv
  OBVIOUS
<1>1. HEAD = 1 /\ TreeAt(1) = Catalogue
  BY DEF Init, HEAD, TreeAt
<1>2. IndexInv
  BY <1>1 DEF Init, IndexInv, NoRow
<1>3. \A x \in ChangeSets : SnapshotInv(x) /\ StandaloneInv(x)
  BY <1>1, IdleSet DEF Init, SnapshotInv, StandaloneInv, NoManifest, NoSet
<1> QED
  BY <1>2, <1>3 DEF PointerInv

(* With one change set as the only source of commits no step of an approval, its undo or
   its completion moves a pointer of the product index back, approvals with nothing to
   commit included. *)
THEOREM PointersAreKept == ASSUME NoOtherCommits PROVE Spec => PointersGoForward
<1>1. DistinctTitles /\ HeadMayFail = FALSE
  BY DEF NoOtherCommits, DistinctTitles
<1>2. Init => PointerInv
  BY InitPointers
<1>3. TypeOK /\ TypeOK' /\ IInv /\ RInv /\ AllBound /\ LandedInv /\ PointerInv /\ [Next]_vars => PointerInv'
  BY NextPointers
<1>4. TypeOK /\ TypeOK' /\ IInv /\ RInv /\ AllBound /\ LandedInv /\ PointerInv /\ [Next]_vars
      => [\A s \in Skus : productIndex'[s].commit >= productIndex[s].commit]_vars
  BY NextPointers
<1>5. Init => LandedInv
  BY InitLanded
<1>6. TypeOK /\ IInv /\ RInv /\ AllBound /\ LandedInv /\ [Next]_vars => LandedInv'
  BY NextLanded
<1>7. Spec => []RInv /\ []AllBound
  BY <1>1, Undoing, CommitsAreRead
<1> QED
  BY <1>1, <1>2, <1>3, <1>4, <1>5, <1>6, <1>7, Safety, TypeCorrect, PTL DEF Spec, PointersGoForward
-----------------------------------------------------------------------------
(* What an approval commits. *)

(* The handler works on the items of its change set, and what it wrote is what was
   drafted: nobody edits a draft or a file while it is between two of its steps. *)
DraftedInv(cs) ==
  run.set = cs =>
    /\ run.phase \in {"gates", "snapshot", "restoreThenGate"} => run.done = {}
    /\ run.phase \in {"snapshot", "write", "stage", "commit"} =>
         /\ run.todo \union run.done \subseteq Items(cs)
         /\ \A s \in run.done : worktree[s] = sets[cs].draft[s]

DraftsInv == \A cs \in ChangeSets : DraftedInv(cs)

LEMMA InitDrafted == Init => DraftsInv
BY IdleSet DEF Init, DraftsInv, DraftedInv

(* Past its commit, and while it undoes, a handler is not held to the drafts. *)
LEMMA PastDrafts ==
  ASSUME run'.phase \notin {"gates", "snapshot", "restoreThenGate", "write", "stage", "commit"}
  PROVE  DraftsInv'
BY DEF DraftsInv, DraftedInv

(* A step of the one handler at work need only be looked at for its own set. *)
LEMMA OwnDrafts ==
  ASSUME NEW cs \in ChangeSets, run'.set = cs, DraftedInv(cs)'
  PROVE  DraftsInv'
BY DEF DraftsInv, DraftedInv

LEMMA RequestDrafted ==
  ASSUME NEW cs \in ChangeSets, Request(cs)
  PROVE  DraftsInv'
<1>1. CASE run' = Idle
  BY <1>1, IdleSet, PastDrafts
<1>2. CASE /\ run'.set = cs /\ run'.done = {}
           /\ run'.phase \in {"status", "restoreThenGate", "gates", "restore"}
  BY <1>2, OwnDrafts DEF DraftedInv
<1> QED
  BY <1>1, <1>2, RequestStarts

LEMMA GateDrafted ==
  ASSUME TypeOK, DraftsInv, NEW cs \in ChangeSets,
         Gate(cs) \/ SaveSnapshot(cs) \/ \E k \in 0..3 : Undo(cs, k)
  PROVE  DraftsInv' /\ commits' = commits
<1>1. commits' = commits /\ run.set = cs /\ DraftedInv(cs) /\ UNCHANGED sets
  BY DEF Gate, SaveSnapshot, Undo, At, DraftsInv
<1>2. CASE run' = Idle
  BY <1>1, <1>2, IdleSet, PastDrafts
<1>3. CASE Gate(cs) /\ run' # Idle
  <2>1. run'.set = cs /\ run'.todo = Items(cs) /\ run'.done = {}
        /\ run'.phase \in {"snapshot", "write"}
    <3>1. run'.done = run.done
      <4>1. \E phase : run' = [run EXCEPT !.phase = phase, !.todo = Items(cs), !.action = "approved"]
        BY <1>3 DEF Gate, Answer
      <4> QED
        BY <4>1 DEF TypeOK, Run
    <3>2. run.done = {}
      BY <1>1, <1>3 DEF Gate, At, DraftedInv
    <3> QED
      BY <1>3, <3>1, <3>2, GateFields
  <2>2. Items(cs)' = Items(cs)
    BY <1>1 DEF Items
  <2> QED
    BY <1>1, <2>1, <2>2, OwnDrafts DEF DraftedInv
<1>4. CASE SaveSnapshot(cs)
  <2>1. run.phase = "snapshot" /\ UNCHANGED worktree
    BY <1>4 DEF SaveSnapshot, At, catalogVars
  <2>2. /\ run'.phase \in {"write", "restore"} /\ run'.set = cs
        /\ run'.todo = run.todo /\ run'.done = run.done
    BY <1>1, <1>4, GoToFields DEF SaveSnapshot
  <2> QED
    BY <1>1, <2>1, <2>2, OwnDrafts DEF DraftedInv, Items
<1>5. CASE \E k \in 0..3 : Undo(cs, k) /\ run' # Idle
  <2>1. GoTo("gates") /\ run.phase = "restoreThenGate"
    BY <1>5 DEF Undo, Answer
  <2>2. run'.set = cs /\ run'.phase = "gates" /\ run'.done = {}
    BY <1>1, <2>1, GoToFields DEF DraftedInv
  <2> QED
    BY <1>1, <2>2, OwnDrafts DEF DraftedInv
<1> QED
  BY <1>1, <1>2, <1>3, <1>4, <1>5

LEMMA WriteDrafted ==
  ASSUME TypeOK, DraftsInv, NEW cs \in ChangeSets, NEW s \in Skus,
         \/ WriteProduct(cs, s)
         \/ \E k \in 0..2 : WriteFails(cs, s, k) \/ CrashInWrite(cs, s, k)
  PROVE  DraftsInv' /\ commits' = commits
<1>1. /\ commits' = commits /\ run.set = cs /\ run.phase = "write" /\ s \in run.todo
      /\ sets' = sets /\ DraftedInv(cs)
  BY WriteMoves DEF At, DraftsInv
<1>2. CASE run' = Idle \/ GoTo("restore")
  BY <1>1, <1>2, IdleSet, GoToFields, PastDrafts
<1>3. CASE \/ run' = AfterProduct(s, {})
           \/ WriteProduct(cs, s) /\ run' = AfterProduct(s, {s})
  <2>1. PICK written \in SUBSET {s} :
          run' = AfterProduct(s, written) /\ (written # {} => WriteProduct(cs, s))
    BY <1>3
  <2>2. /\ run'.todo = run.todo \ {s} /\ run'.done = run.done \union written
        /\ run'.phase \in {"write", "stage"} /\ run'.set = cs
    BY <1>1, <2>1, AfterFields
  <2>3. worktree \in [Skus -> Files]
    BY DEF TypeOK, FileMap
  <2>4. /\ \A r \in Skus : r # s => worktree'[r] = worktree[r]
        /\ worktree'[s] \in {worktree[s], sets[cs].draft[s]}
    <3>1. worktree' = worktree \/ worktree' = [worktree EXCEPT ![s] = sets[cs].draft[s]]
      BY DEF WriteProduct, WriteFails, CrashInWrite, WriteParts
    <3> QED
      BY <2>3, <3>1
  <2>5. WriteProduct(cs, s) => worktree'[s] = sets[cs].draft[s]
    BY <2>3 DEF WriteProduct, WriteParts
  <2>6. \A r \in run'.done : worktree'[r] = sets[cs].draft[r]
    BY <1>1, <2>1, <2>2, <2>4, <2>5 DEF DraftedInv, TypeOK, Run
  <2>7. run'.todo \union run'.done \subseteq Items(cs)
    BY <1>1, <2>1, <2>2 DEF DraftedInv
  <2> QED
    BY <1>1, <2>2, <2>6, <2>7, OwnDrafts DEF DraftedInv, Items
<1> QED
  BY <1>1, <1>2, <1>3, WriteMoves

LEMMA CommitDrafted ==
  ASSUME TypeOK, DraftsInv, NEW cs \in ChangeSets,
         CommitGroup(cs) \/ HashUnread(cs) \/ CommitFails(cs)
  PROVE  /\ DraftsInv' /\ run.set = cs
         /\ \A s \in Skus : HeadTree'[s] # HeadTree[s] =>
              s \in Items(cs) /\ HeadTree'[s] = sets[cs].draft[s]
<1>1. run.set = cs /\ (commits' = commits \/ (run.phase = "commit" /\ commits' = CommittedLog(cs)))
  BY DEF CommitGroup, HashUnread, CommitFails, At
<1>2. DraftsInv'
  <2>1. CASE CommitGroup(cs) \/ HashUnread(cs)
    <3>1. \E c : run' = [run EXCEPT !.phase = "status", !.commit = c]
      BY <2>1 DEF CommitGroup, HashUnread
    <3>2. run'.phase = "status"
      BY <3>1 DEF TypeOK, Run
    <3> QED
      BY <3>2, PastDrafts
  <2>2. CASE CommitFails(cs)
    <3>1. run' = Idle \/ GoTo("restore")
      BY <2>2 DEF CommitFails, Answer
    <3> QED
      BY <3>1, IdleSet, GoToFields, PastDrafts
  <2> QED
    BY <2>1, <2>2
<1>3. CASE commits' = commits
  BY <1>1, <1>2, <1>3 DEF HeadTree, TreeAt, HEAD
<1>4. CASE run.phase = "commit" /\ commits' = CommittedLog(cs)
  <2>1. \A s \in run.done : s \in Items(cs) /\ worktree[s] = sets[cs].draft[s]
    BY <1>1, <1>4 DEF DraftsInv, DraftedInv
  <2>2. HeadTree' = [s \in Skus |-> IF s \in run.done THEN worktree[s] ELSE HeadTree[s]]
    BY <1>4, CommittedTree
  <2> QED
    BY <1>1, <1>2, <2>1, <2>2
<1> QED
  BY <1>1, <1>3, <1>4

(* Any other step leaves the log alone, but for a commit no handler makes. *)
LEMMA NextDrafted ==
  ASSUME TypeOK, DraftsInv, [Next]_vars
  PROVE  /\ DraftsInv'
         /\ \A cs \in ChangeSets, s \in Skus : run.set = cs /\ HeadTree'[s] # HeadTree[s] =>
              s \in Items(cs) /\ HeadTree'[s] = sets[cs].draft[s]
<1>1. commits' = commits => HeadTree' = HeadTree
  BY DEF HeadTree, TreeAt, HEAD
<1>2. ASSUME NEW cs \in ChangeSets, Request(cs)
      PROVE  DraftsInv' /\ commits' = commits
  BY <1>2, RequestDrafted, RequestMoves
<1>3. CASE \E cs \in ChangeSets : CommitGroup(cs) \/ HashUnread(cs) \/ CommitFails(cs)
  BY <1>3, CommitDrafted
<1>4. ASSUME NEW cs \in ChangeSets, Step(cs), ~CommitGroup(cs), ~HashUnread(cs), ~CommitFails(cs)
      PROVE  DraftsInv' /\ commits' = commits
  <2>1. CASE Gate(cs) \/ SaveSnapshot(cs) \/ \E k \in 0..3 : Undo(cs, k)
    BY <2>1, GateDrafted
  <2>2. CASE \E s \in Skus : \/ WriteProduct(cs, s)
                             \/ \E k \in 0..2 : WriteFails(cs, s, k) \/ CrashInWrite(cs, s, k)
    BY <2>2, WriteDrafted
  <2>3. CASE StageFiles(cs)
    <3>1. /\ run.set = cs /\ run.phase = "stage" /\ GoTo("commit")
          /\ UNCHANGED <<sets, commits, worktree>>
      BY <2>3 DEF StageFiles, At
    <3>2. /\ run'.phase = "commit" /\ run'.set = cs
          /\ run'.todo = run.todo /\ run'.done = run.done
      BY <3>1, GoToFields
    <3> QED
      BY <3>1, <3>2, OwnDrafts DEF DraftsInv, DraftedInv, Items
  <2>4. CASE \/ SetStatus(cs) \/ SetStatusFails(cs) \/ SettleDrifts(cs) \/ RecordAudit(cs)
             \/ \E bad \in SUBSET Skus : RecordPointers(cs, bad)
             \/ MarkManifest(cs) \/ CompletionFails(cs) \/ FinalizePlan(cs) \/ Finish(cs) \/ LoadExport(cs)
    <3>1. run.set = cs /\ commits' = commits
      BY <2>4, StatusFailsMoves DEF SetStatus, SetStatusFails, SettleDrifts, RecordAudit, RecordPointers, MarkManifest,
         CompletionFails, FinalizePlan, Finish, LoadExport, At, rowVars
    <3>2. run'.phase \in Completing \union {"load", "idle", "restore"}
      BY <2>4, <3>1, CompletionMoves
    <3> QED
      BY <3>1, <3>2, PastDrafts DEF Completing
  <2> QED
    BY <1>4, <2>1, <2>2, <2>3, <2>4 DEF Step
<1>5. CASE \/ Crash
           \/ \E s \in Skus : DetectDrift(s) \/ AcceptRemote(s) \/ KeepLocal(s) \/ ReopenDrift(s)
  <2>1. run' = Idle /\ (run = Idle \/ commits' = commits)
    BY <1>5 DEF Crash, DetectDrift, AcceptRemote, KeepLocal, ReopenDrift, rowVars
  <2>2. DraftsInv'
    BY <2>1, IdleSet, PastDrafts
  <2> QED
    BY <1>1, <2>1, <2>2, IdleSet
<1>6. CASE UNCHANGED vars
  BY <1>1, <1>6 DEF vars, catalogVars, DraftsInv, DraftedInv, Items
<1>7. CASE \E cs \in ChangeSets :
             Step(cs) /\ ~CommitGroup(cs) /\ ~HashUnread(cs) /\ ~CommitFails(cs)
  BY <1>1, <1>4, <1>7
<1>8. CASE \E cs \in ChangeSets : Request(cs)
  BY <1>1, <1>2, <1>8
<1> QED
  BY <1>3, <1>5, <1>6, <1>7, <1>8 DEF Next

(* Linked or standalone, with drifts, edits, crashes, failed writes and leftovers of other
   approvals in the worktree and the Git index: what an approval commits is its reviewed
   drafts and nothing else. Neither titles nor readable HEADs are assumed. *)
THEOREM ApprovalsCommitDrafts == Spec => CommitsHoldDrafts
<1>1. TypeOK /\ DraftsInv /\ [Next]_vars => DraftsInv'
  BY NextDrafted
<1>2. TypeOK /\ DraftsInv /\ [Next]_vars
      => [\A cs \in ChangeSets, s \in Skus : run.set = cs /\ HeadTree'[s] # HeadTree[s] =>
            s \in Items(cs) /\ HeadTree'[s] = sets[cs].draft[s]]_vars
  BY NextDrafted
<1> QED
  BY <1>1, <1>2, InitDrafted, TypeCorrect, PTL DEF Spec, CommitsHoldDrafts
=============================================================================
