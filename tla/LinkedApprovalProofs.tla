------------------------ MODULE LinkedApprovalProofs ------------------------
(* Proofs about LinkedApproval, for any change sets, products and bounds. *)
EXTENDS LinkedApproval, FiniteSetTheorems, TLAPS

(* The helpers that read the rows return values of their types. *)
LEMMA TreeAtType ==
  ASSUME TypeOK, NEW c
  PROVE  TreeAt(c) \in FileMap
<1>1. CASE c \in 1..HEAD
  <2>1. commits \in Seq(Commit) /\ c \in 1..Len(commits)
    BY <1>1 DEF TypeOK, HEAD
  <2>2. commits[c] \in Commit
    BY <2>1
  <2> QED
    BY <1>1, <2>2 DEF TreeAt, Commit
<1>2. CASE c \notin 1..HEAD
  BY <1>2 DEF TreeAt, FileMap, Files
<1> QED
  BY <1>1, <1>2

LEMMA AppendType ==
  ASSUME NEW log \in Seq(Commit), NEW c \in Commit
  PROVE  Append(log, c) \in Seq(Commit) /\ Len(Append(log, c)) = Len(log) + 1
OBVIOUS

LEMMA SubjectType ==
  ASSUME TypeOK, NEW cs \in ChangeSets
  PROVE  Subject(cs) \in Subjects
<1>1. IsFiniteSet(Items(cs))
  BY ConstantsAssumption, FS_Subset DEF Items
<1> QED
  BY <1>1, ConstantsAssumption, FS_CardinalityType DEF Subject, Subjects

LEMMA LandedCommitType ==
  ASSUME TypeOK, NEW cs \in ChangeSets
  PROVE  LandedCommit(cs) \in Nat
BY DEF TypeOK, LandedCommit, HEAD, ManifestRow

LEMMA NoRowsType ==
  /\ NoSet \in ChangeSetRow /\ NoManifest \in ManifestRow /\ NoSnapshot \in Snapshot
  /\ Idle \in Run /\ NoFiles \in FileMap /\ NoRow \in Row
BY ConstantsAssumption
   DEF NoSet, NoManifest, NoSnapshot, Idle, NoFiles, NoRow, OtherSubject, ChangeSetRow,
       ManifestRow, Snapshot, Run, FileMap, Files, Row, Subjects, Phases

LEMMA InitType == Init => TypeOK
BY NoRowsType, ConstantsAssumption DEF Init, TypeOK, FileMap, Files, Subjects, Row, OtherSubject, Commit

LEMMA RunStartType ==
  ASSUME NEW cs \in ChangeSets, NEW op \in {"approve", "export"}
  PROVE  /\ \A phase \in Phases : Start(cs, op, phase) => run' \in Run
         /\ \A c \in Nat : Complete(cs, op, c, "recovered") => run' \in Run
         /\ \A r : Answer(cs, r) => run' \in Run
<1>1. ASSUME NEW phase \in Phases, Start(cs, op, phase)
      PROVE  run' \in Run
  BY <1>1 DEF Start, Idle, Run
<1>2. ASSUME NEW c \in Nat, Complete(cs, op, c, "recovered")
      PROVE  run' \in Run
  BY <1>2 DEF Complete, Idle, Run, Phases
<1>3. ASSUME NEW r, Answer(cs, r)
      PROVE  run' \in Run
  BY <1>3, NoRowsType DEF Answer
<1> QED
  BY <1>1, <1>2, <1>3

LEMMA StagedSetType ==
  ASSUME TypeOK, NEW cs \in ChangeSets, NEW v \in DraftContent[cs]
  PROVE  StagedSet(cs, v) \in ChangeSetRow
BY ConstantsAssumption DEF TypeOK, StagedSet, ChangeSetRow, FileMap, Files, HEAD

(* Rows with two fields changed. *)
LEMMA EditedRow ==
  ASSUME NEW row \in ChangeSetRow, NEW draft \in FileMap, NEW base \in FileMap
  PROVE  [row EXCEPT !.draft = draft, !.base = base] \in ChangeSetRow
BY DEF ChangeSetRow

LEMMA MarkedRow ==
  ASSUME NEW row \in ManifestRow, NEW c \in Nat,
         NEW status \in {"absent", "pending", "committed", "recovered"}
  PROVE  [row EXCEPT !.commit = c, !.status = status] \in ManifestRow
BY DEF ManifestRow

LEMMA ApprovedRow ==
  ASSUME NEW rows \in [ChangeSets -> ChangeSetRow], NEW cs \in ChangeSets, NEW c \in Nat
  PROVE  [rows EXCEPT ![cs].status = "approved", ![cs].approved = c] \in [ChangeSets -> ChangeSetRow]
<1> DEFINE named == [rows EXCEPT ![cs].status = "approved"]
<1>1. named \in [ChangeSets -> ChangeSetRow]
  <2>1. [rows[cs] EXCEPT !.status = "approved"] \in ChangeSetRow
    BY DEF ChangeSetRow
  <2> QED
    BY <2>1
<1> HIDE DEF named
<1>2. [named EXCEPT ![cs].approved = c] \in [ChangeSets -> ChangeSetRow]
  <2>1. [named[cs] EXCEPT !.approved = c] \in ChangeSetRow
    BY <1>1 DEF ChangeSetRow
  <2> QED
    BY <1>1, <2>1
<1>3. [rows EXCEPT ![cs].status = "approved", ![cs].approved = c] = [named EXCEPT ![cs].approved = c]
  BY DEF named
<1> QED
  BY <1>2, <1>3

LEMMA RequestType ==
  ASSUME TypeOK, NEW cs \in ChangeSets, Request(cs)
  PROVE  TypeOK'
<1>1. CASE \E v \in DraftContent[cs] : Stage(cs, v)
  <2>1. PICK v \in DraftContent[cs] : Stage(cs, v)
    BY <1>1
  <2>2. /\ sets' = [sets EXCEPT ![cs] = StagedSet(cs, v)]
        /\ plan' = [plan EXCEPT ![cs] = IF cs \in Planned THEN "accepted" ELSE "none"]
        /\ UNCHANGED <<manifest, commits, drift, audits, exports, reply, run>>
        /\ UNCHANGED <<worktree, staged, joins, productIndex, crashes, faults, edits>>
    BY <2>1 DEF Stage, catalogVars, bounds
  <2>3. sets' \in [ChangeSets -> ChangeSetRow]
    BY <2>2, StagedSetType DEF TypeOK
  <2>4. plan' \in [ChangeSets -> {"none", "accepted", "applied"}]
    BY <2>2 DEF TypeOK
  <2> QED
    BY <2>2, <2>3, <2>4 DEF TypeOK
<1>2. CASE \E s \in Skus, v \in DraftContent[cs] : EditDraft(cs, s, v)
  <2>1. PICK s \in Skus, v \in DraftContent[cs] : EditDraft(cs, s, v)
    BY <1>2
  <2>2. v \in Files
    BY ConstantsAssumption DEF Files
  <2> DEFINE draft == [sets[cs].draft EXCEPT ![s] = v]
             base == [sets[cs].base EXCEPT ![s] = IF worktree[s] # None THEN worktree[s] ELSE @]
             row == [sets[cs] EXCEPT !.draft = draft, !.base = base]
  <2>3. draft \in FileMap /\ base \in FileMap
    BY <2>2 DEF TypeOK, ChangeSetRow, FileMap
  <2>4. row \in ChangeSetRow
    BY <2>3, EditedRow DEF TypeOK
  <2>5. sets' = [sets EXCEPT ![cs] = row]
    BY <2>1 DEF EditDraft, TypeOK, ChangeSetRow
  <2> QED
    BY <2>1, <2>4, <2>5 DEF EditDraft, TypeOK, catalogVars, bounds
<1>3. CASE Discard(cs)
  <2>1. [NoSet EXCEPT !.status = "discarded"] \in ChangeSetRow
    BY NoRowsType DEF ChangeSetRow
  <2> QED
    BY <1>3, <2>1, NoRowsType DEF Discard, TypeOK, catalogVars, bounds
<1>4. CASE \E s \in Skus, v \in DraftContent[cs], b \in Files : ReconcileDrift(cs, s, v, b)
  <2>1. PICK s \in Skus, v \in DraftContent[cs], b \in Files : ReconcileDrift(cs, s, v, b)
    BY <1>4
  <2> DEFINE staging == StagedSet(cs, v)
             base == [staging.base EXCEPT ![s] = b]
  <2>2. staging \in ChangeSetRow /\ HEAD \in Nat
    BY StagedSetType DEF TypeOK, HEAD
  <2>3. base \in FileMap
    BY <2>2 DEF ChangeSetRow, FileMap
  <2> HIDE DEF staging
  <2>4. [staging EXCEPT !.base[s] = b, !.baseCommit = HEAD] \in ChangeSetRow
    BY <2>2, <2>3 DEF ChangeSetRow
  <2> QED
    BY <2>1, <2>4 DEF ReconcileDrift, staging, TypeOK, catalogVars, bounds
<1>5. CASE ApproveDraft(cs)
  <2>1. LandedCommit(cs) \in Nat
    BY LandedCommitType
  <2>2. run' \in Run
    BY <1>5, <2>1, RunStartType DEF ApproveDraft, Phases
  <2> QED
    BY <1>5, <2>2 DEF ApproveDraft, TypeOK, rowVars, catalogVars, bounds
<1>6. ASSUME NEW op \in {"approve", "export"}, Recover(cs, op)
      PROVE  TypeOK'
  <2>1. LandedCommit(cs) \in Nat /\ sets[cs].approved \in Nat
    BY LandedCommitType DEF TypeOK, ChangeSetRow
  <2>2. run' \in Run
    BY <1>6, <2>1, RunStartType DEF Recover, Phases
  <2>3. reply' \in [ChangeSets -> {"none", "ok", "failed"}]
    BY <1>6 DEF Recover, Answer, TypeOK
  <2> QED
    BY <1>6, <2>2, <2>3 DEF Recover, TypeOK, rowVars, catalogVars, bounds
<1>7. CASE RefuseApproved(cs)
  <2>1. run' \in Run /\ reply' \in [ChangeSets -> {"none", "ok", "failed"}]
    BY <1>7, NoRowsType DEF RefuseApproved, Answer, TypeOK
  <2> QED
    BY <1>7, <2>1 DEF RefuseApproved, TypeOK, rowVars, catalogVars, bounds
<1> QED
  BY <1>1, <1>2, <1>3, <1>4, <1>5, <1>6, <1>7 DEF Request

LEMMA DriftType ==
  ASSUME TypeOK, NEW s \in Skus, DetectDrift(s) \/ AcceptRemote(s) \/ KeepLocal(s) \/ ReopenDrift(s)
  PROVE  TypeOK'
<1>1. CASE DetectDrift(s)
  BY <1>1 DEF DetectDrift, TypeOK, catalogVars, bounds
<1>2. CASE KeepLocal(s) \/ ReopenDrift(s)
  BY <1>2 DEF KeepLocal, ReopenDrift, TypeOK, catalogVars, bounds
<1>3. CASE AcceptRemote(s)
  <2>1. worktree' \in FileMap /\ staged' \in FileMap
    BY <1>3, ConstantsAssumption DEF AcceptRemote, TypeOK, FileMap, Files
  <2>2. [subject |-> OtherSubject, tree |-> staged'] \in Commit
    BY <2>1 DEF OtherSubject, Subjects, Commit
  <2>3. commits' \in Seq(Commit) /\ Len(commits') >= 1
    <3> DEFINE c == [subject |-> OtherSubject, tree |-> staged']
    <3>1. commits' = commits \/ commits' = Append(commits, c)
      BY <1>3 DEF AcceptRemote
    <3>2. commits \in Seq(Commit) /\ Len(commits) >= 1
      BY DEF TypeOK
    <3>3. Append(commits, c) \in Seq(Commit) /\ Len(Append(commits, c)) = Len(commits) + 1
      BY <3>2, <2>2, AppendType
    <3> HIDE DEF c
    <3> QED
      BY <3>1, <3>2, <3>3
  <2>4. productIndex' \in [Skus -> Row]
    <3> DEFINE row(commit) == [hash |-> Remote[s], commit |-> IF commit THEN HEAD + 1 ELSE productIndex[s].commit]
    <3>1. \A commit \in BOOLEAN : row(commit) \in Row
      BY ConstantsAssumption DEF TypeOK, Row, Files, HEAD
    <3>2. \E commit \in BOOLEAN : productIndex' = [productIndex EXCEPT ![s] = row(commit)]
      BY <1>3 DEF AcceptRemote
    <3> QED
      BY <3>1, <3>2 DEF TypeOK
  <2>5. drift' \in [Skus -> ChangeSets \union {None, Open}]
    BY <1>3 DEF AcceptRemote, TypeOK
  <2> QED
    BY <1>3, <2>1, <2>3, <2>4, <2>5 DEF AcceptRemote, TypeOK, bounds
<1> QED
  BY <1>1, <1>2, <1>3

(* A handler that moves on to its next phase or answers keeps the type of run and reply. *)
LEMMA MoveType ==
  ASSUME TypeOK, NEW cs \in ChangeSets
  PROVE  /\ \A phase \in Phases : GoTo(phase) => run' \in Run
         /\ \A r \in {"ok", "failed"} :
              Answer(cs, r) => run' \in Run /\ reply' \in [ChangeSets -> {"none", "ok", "failed"}]
<1>1. ASSUME NEW phase \in Phases, GoTo(phase)
      PROVE  run' \in Run
  BY <1>1 DEF GoTo, TypeOK, Run
<1>2. ASSUME NEW r \in {"ok", "failed"}, Answer(cs, r)
      PROVE  run' \in Run /\ reply' \in [ChangeSets -> {"none", "ok", "failed"}]
  BY <1>2, NoRowsType DEF Answer, TypeOK
<1> QED
  BY <1>1, <1>2

(* Where a handler goes: the fields of run after each way to set it. *)
LEMMA RunFields ==
  ASSUME TypeOK, NEW phase \in Phases, NEW failed \in BOOLEAN,
         run' = [run EXCEPT !.failed = failed, !.phase = phase]
  PROVE  /\ run' \in Run /\ run'.phase = phase /\ run'.failed = failed
         /\ run'.set = run.set /\ run'.op = run.op /\ run'.commit = run.commit
         /\ run'.todo = run.todo /\ run'.done = run.done /\ run'.action = run.action
BY DEF TypeOK, Run

LEMMA GoToFields ==
  ASSUME TypeOK, NEW phase, GoTo(phase)
  PROVE  /\ run'.phase = phase /\ run'.failed = run.failed
         /\ run'.set = run.set /\ run'.op = run.op /\ run'.commit = run.commit
         /\ run'.todo = run.todo /\ run'.done = run.done /\ run'.action = run.action
BY DEF TypeOK, Run, GoTo

LEMMA AfterFields ==
  ASSUME TypeOK, NEW s, NEW written, run' = AfterProduct(s, written)
  PROVE  /\ run'.todo = run.todo \ {s} /\ run'.done = run.done \union written
         /\ run'.phase = (IF run'.todo = {} THEN "stage" ELSE "write")
         /\ run'.set = run.set /\ run'.op = run.op /\ run'.commit = run.commit
         /\ run'.action = run.action /\ run'.failed = run.failed
<1> DEFINE todo == run.todo \ {s}
           done == run.done \union written
           phase == IF todo = {} THEN "stage" ELSE "write"
<1>1. run' = [run EXCEPT !.todo = todo, !.done = done, !.phase = phase]
  BY DEF AfterProduct
<1>2. run \in Run
  BY DEF TypeOK
<1> HIDE DEF todo, done, phase
<1>3. /\ run'.todo = todo /\ run'.done = done /\ run'.phase = phase
      /\ run'.set = run.set /\ run'.op = run.op /\ run'.commit = run.commit
      /\ run'.action = run.action /\ run'.failed = run.failed
  BY <1>1, <1>2 DEF Run
<1> QED
  BY <1>3 DEF todo, done, phase

LEMMA EditFields ==
  ASSUME TypeOK, NEW cs \in ChangeSets, NEW s \in Skus, NEW v, EditDraft(cs, s, v)
  PROVE  /\ \A x \in ChangeSets : x # cs => sets'[x] = sets[x]
         /\ sets'[cs].status = "draft" /\ sets'[cs].approved = sets[cs].approved
         /\ sets'[cs].draft = [sets[cs].draft EXCEPT ![s] = v]
<1> DEFINE draft == [sets[cs].draft EXCEPT ![s] = v]
           base == [sets[cs].base EXCEPT ![s] = IF worktree[s] # None THEN worktree[s] ELSE @]
           row == [sets[cs] EXCEPT !.draft = draft, !.base = base]
<1>1. sets \in [ChangeSets -> ChangeSetRow]
  BY DEF TypeOK
<1>2. sets' = [sets EXCEPT ![cs] = row] /\ sets[cs].status = "draft"
  BY <1>1 DEF EditDraft, ChangeSetRow
<1> HIDE DEF draft, base
<1>3. row.status = sets[cs].status /\ row.approved = sets[cs].approved /\ row.draft = draft
  BY <1>1 DEF ChangeSetRow
<1> HIDE DEF row
<1>4. sets'[cs] = row /\ \A x \in ChangeSets : x # cs => sets'[x] = sets[x]
  BY <1>1, <1>2
<1> QED
  BY <1>2, <1>3, <1>4 DEF draft

(* What recording the status leaves in the rows of the change set. *)
LEMMA StatusFields ==
  ASSUME TypeOK, NEW cs \in ChangeSets, SetStatus(cs)
  PROVE  /\ \A x \in ChangeSets : x # cs => sets'[x] = sets[x]
         /\ sets'[cs].status = "approved" /\ sets'[cs].draft = sets[cs].draft
         /\ sets'[cs].approved = (IF run.commit # 0 THEN run.commit ELSE sets[cs].approved)
<1> DEFINE c == IF run.commit # 0 THEN run.commit ELSE sets[cs].approved
           row == [sets[cs] EXCEPT !.status = "approved", !.approved = c]
<1>1. sets \in [ChangeSets -> ChangeSetRow]
  BY DEF TypeOK
<1>2. sets' = [sets EXCEPT ![cs] = row]
  BY <1>1 DEF SetStatus, ChangeSetRow
<1> HIDE DEF c
<1>3. row.status = "approved" /\ row.draft = sets[cs].draft /\ row.approved = c
  BY <1>1 DEF ChangeSetRow
<1> HIDE DEF row
<1>4. sets'[cs] = row /\ \A x \in ChangeSets : x # cs => sets'[x] = sets[x]
  BY <1>1, <1>2
<1> QED
  BY <1>3, <1>4 DEF c

(* A status that cannot be recorded ends the handler, or undoes a group without a commit. *)
LEMMA StatusFailsMoves ==
  ASSUME NEW cs \in ChangeSets, SetStatusFails(cs)
  PROVE  /\ At(cs, "status") /\ faults' = faults + 1
         /\ UNCHANGED <<sets, commits, drift, plan, audits, exports, crashes, edits>>
         /\ UNCHANGED <<worktree, staged, productIndex, joins>>
         /\ \/ run.commit = 0 /\ cs \in Linked /\ GoTo("restore") /\ UNCHANGED <<manifest, reply>>
            \/ Answer(cs, "failed") /\ UNCHANGED manifest
            \/ /\ Answer(cs, "failed") /\ manifest[cs].status # "absent" /\ run.action = "approved"
               /\ manifest' = [manifest EXCEPT ![cs].status = "committed", ![cs].commit = run.commit]
<1>1. CASE run.commit = 0 /\ cs \in Linked
  BY <1>1 DEF SetStatusFails, catalogVars
<1>2. CASE ~(run.commit = 0 /\ cs \in Linked)
  BY <1>2 DEF SetStatusFails, catalogVars
<1> QED
  BY <1>1, <1>2

LEMMA GateFields ==
  ASSUME TypeOK, NEW cs \in ChangeSets, Gate(cs), run' # Idle
  PROVE  /\ run'.phase = (IF cs \in Linked THEN "snapshot" ELSE "write")
         /\ run'.set = cs /\ run'.todo = Items(cs)
<1> DEFINE phase == IF cs \in Linked THEN "snapshot" ELSE "write"
           items == Items(cs)
<1>1. run' = [run EXCEPT !.phase = phase, !.todo = items, !.action = "approved"]
  BY DEF Gate, Answer
<1>2. run \in Run /\ run.set = cs
  BY DEF TypeOK, Gate, At
<1> HIDE DEF phase, items
<1>3. run'.phase = phase /\ run'.set = cs /\ run'.todo = items
  BY <1>1, <1>2 DEF Run
<1> QED
  BY <1>3 DEF phase, items

(* What a write may do to the handler, whether or not it completes. *)
LEMMA WriteMoves ==
  ASSUME NEW cs \in ChangeSets, NEW s \in Skus,
         \/ WriteProduct(cs, s)
         \/ \E k \in 0..2 : WriteFails(cs, s, k) \/ CrashInWrite(cs, s, k)
  PROVE  /\ At(cs, "write") /\ s \in run.todo
         /\ UNCHANGED <<sets, manifest, commits, drift, plan, audits, exports>>
         /\ \/ run' = Idle
            \/ cs \in Linked /\ GoTo("restore")
            \/ cs \notin Linked /\ run' = AfterProduct(s, {})
            \/ WriteProduct(cs, s) /\ run' = AfterProduct(s, {s})
<1>1. CASE WriteProduct(cs, s)
  BY <1>1 DEF WriteProduct
<1>2. ASSUME NEW k \in 0..2, WriteFails(cs, s, k)
      PROVE  /\ At(cs, "write") /\ s \in run.todo
             /\ UNCHANGED <<sets, manifest, commits, drift, plan, audits, exports>>
             /\ \/ run' = Idle
                \/ cs \in Linked /\ GoTo("restore")
                \/ cs \notin Linked /\ run' = AfterProduct(s, {})
  BY <1>2 DEF WriteFails, Answer
<1>3. ASSUME NEW k \in 0..2, CrashInWrite(cs, s, k)
      PROVE  /\ At(cs, "write") /\ s \in run.todo /\ run' = Idle
             /\ UNCHANGED <<sets, manifest, commits, drift, plan, audits, exports>>
  BY <1>3 DEF CrashInWrite
<1> QED
  BY <1>1, <1>2, <1>3

LEMMA UndoType ==
  ASSUME TypeOK, NEW cs \in ChangeSets, NEW k \in 0..3, Undo(cs, k)
  PROVE  TypeOK'
<1>1. /\ manifest[cs].snapshot.files \in FileMap /\ manifest[cs].snapshot.staged \in FileMap
      /\ manifest[cs].snapshot.index \in [Skus -> Row]
  BY DEF TypeOK, ManifestRow, Snapshot
<1>2. worktree' \in FileMap /\ staged' \in FileMap /\ productIndex' \in [Skus -> Row]
  BY <1>1 DEF Undo, RestoreOwned, TypeOK, FileMap
<1>3. run' \in Run
  BY NoRowsType, MoveType DEF Undo, Phases
<1>4. reply' \in [ChangeSets -> {"none", "ok", "failed"}] /\ crashes' \in Nat
  BY MoveType DEF Undo, TypeOK
<1>5. joins' = joins
  BY DEF Undo, RestoreOwned
<1> QED
  BY <1>2, <1>3, <1>4, <1>5 DEF Undo, TypeOK

LEMMA GateType ==
  ASSUME TypeOK, NEW cs \in ChangeSets, Gate(cs)
  PROVE  TypeOK'
<1>1. TreeAt(sets[cs].baseCommit) \in FileMap /\ sets[cs].baseCommit \in Nat
  BY TreeAtType DEF TypeOK, ChangeSetRow
<1>2. RefreshedIndex(cs) \in [Skus -> Row]
  BY <1>1 DEF RefreshedIndex, TypeOK, Row, FileMap
<1>3. run' \in Run /\ reply' \in [ChangeSets -> {"none", "ok", "failed"}]
  <2>1. CASE GatesPass(cs)
    <3> DEFINE passed == [run EXCEPT !.phase = IF cs \in Linked THEN "snapshot" ELSE "write",
                                     !.todo = Items(cs), !.action = "approved"]
    <3>1. passed \in Run
      BY DEF TypeOK, Run, Phases, Items
    <3> QED
      BY <2>1, <3>1 DEF Gate, TypeOK
  <2>2. CASE ~GatesPass(cs)
    BY <2>2, MoveType DEF Gate
  <2> QED
    BY <2>1, <2>2
<1> QED
  BY <1>2, <1>3 DEF Gate, TypeOK, bounds

LEMMA SnapshotType ==
  ASSUME TypeOK, NEW cs \in ChangeSets
  PROVE  SnapshotOf(cs) \in Snapshot
<1>1. HEAD \in Nat /\ Subject(cs) \in Subjects /\ NoRow \in Row /\ None \in Files
  BY SubjectType, NoRowsType DEF TypeOK, HEAD, Files
<1> DEFINE own(f, none) == [s \in Skus |-> IF s \in Items(cs) THEN f[s] ELSE none]
<1>2. \A f \in FileMap : own(f, None) \in FileMap
  BY <1>1 DEF FileMap
<1>3. own(productIndex, NoRow) \in [Skus -> Row]
  BY <1>1 DEF TypeOK
<1>4. SnapshotOf(cs) = [files |-> own(worktree, None), staged |-> own(staged, None),
                        joins |-> own(joins, None), index |-> own(productIndex, NoRow),
                        preHead |-> HEAD, subject |-> Subject(cs)]
  BY DEF SnapshotOf
<1> HIDE DEF own
<1> QED
  BY <1>1, <1>2, <1>3, <1>4 DEF Snapshot, TypeOK

LEMMA SaveSnapshotType ==
  ASSUME TypeOK, NEW cs \in ChangeSets, SaveSnapshot(cs)
  PROVE  TypeOK'
<1> DEFINE reads == [s \in Skus |-> IF s \in ReadSkus(cs) THEN TreeAt(sets[cs].baseCommit)[s] ELSE None]
           row == [status |-> "pending", commit |-> 0, writes |-> sets[cs].draft,
                   reads |-> reads, snapshot |-> SnapshotOf(cs)]
<1>1. reads \in FileMap
  BY TreeAtType DEF FileMap, Files
<1>2. row \in ManifestRow
  BY <1>1, SnapshotType DEF ManifestRow, TypeOK, ChangeSetRow
<1>3. manifest' = manifest \/ manifest' = [manifest EXCEPT ![cs] = row]
  BY DEF SaveSnapshot
<1>4. manifest' \in [ChangeSets -> ManifestRow]
  BY <1>2, <1>3 DEF TypeOK
<1>5. run' \in Run
  BY MoveType DEF SaveSnapshot, Phases
<1>6. faults' \in Nat
  BY DEF SaveSnapshot, TypeOK
<1> QED
  BY <1>4, <1>5, <1>6 DEF SaveSnapshot, TypeOK, catalogVars

LEMMA WriteType ==
  ASSUME TypeOK, NEW cs \in ChangeSets, NEW s \in Skus,
         \/ WriteProduct(cs, s)
         \/ \E k \in 0..2 : WriteFails(cs, s, k) \/ CrashInWrite(cs, s, k)
  PROVE  TypeOK'
<1>1. sets[cs].draft \in FileMap
  BY DEF TypeOK, ChangeSetRow
<1>2. ASSUME NEW k \in 0..3, WriteParts(cs, s, k)
      PROVE  /\ joins' \in FileMap /\ worktree' \in FileMap /\ staged' \in FileMap
             /\ productIndex' \in [Skus -> Row]
  <2>1. [joins EXCEPT ![s] = sets[cs].draft[s]] \in FileMap
    BY <1>1 DEF TypeOK, FileMap
  <2>2. [worktree EXCEPT ![s] = sets[cs].draft[s]] \in FileMap
    BY <1>1 DEF TypeOK, FileMap
  <2>3. [productIndex EXCEPT ![s].hash = sets[cs].draft[s]] \in [Skus -> Row]
    BY <1>1 DEF TypeOK, FileMap, Row
  <2> QED
    BY <1>2, <2>1, <2>2, <2>3 DEF WriteParts, TypeOK
<1>3. ASSUME NEW written \in SUBSET Skus, run' = AfterProduct(s, written)
      PROVE  run' \in Run
  BY <1>3 DEF AfterProduct, TypeOK, Run, Phases
<1>4. CASE WriteProduct(cs, s)
  <2>1. run' \in Run
    BY <1>3, <1>4 DEF WriteProduct
  <2> QED
    BY <1>2, <1>4, <2>1 DEF WriteProduct, TypeOK, bounds
<1>5. ASSUME NEW k \in 0..2, WriteFails(cs, s, k)
      PROVE  TypeOK'
  <2>1. run' \in Run /\ reply' \in [ChangeSets -> {"none", "ok", "failed"}]
    BY <1>3, <1>5, MoveType DEF WriteFails, Phases, TypeOK
  <2> QED
    BY <1>2, <1>5, <2>1 DEF WriteFails, TypeOK
<1>6. ASSUME NEW k \in 0..2, CrashInWrite(cs, s, k)
      PROVE  TypeOK'
  BY <1>2, <1>6, NoRowsType DEF CrashInWrite, TypeOK
<1> QED
  BY <1>4, <1>5, <1>6

LEMMA CommittedLogType ==
  ASSUME TypeOK, NEW cs \in ChangeSets
  PROVE  CommittedLog(cs) \in Seq(Commit) /\ Len(CommittedLog(cs)) >= 1
<1> DEFINE tree == [s \in Skus |-> IF s \in run.done THEN worktree[s] ELSE HeadTree[s]]
           commit == [subject |-> <<Title[cs], Cardinality(run.done)>>, tree |-> tree]
<1>1. tree \in FileMap
  BY TreeAtType DEF TypeOK, HeadTree, FileMap
<1>2. Cardinality(run.done) \in Nat
  BY ConstantsAssumption, FS_Subset, FS_CardinalityType DEF TypeOK, Run
<1>3. commit \in Commit
  BY <1>1, <1>2, ConstantsAssumption DEF Commit, Subjects
<1>4. commits \in Seq(Commit) /\ Len(commits) >= 1
  BY DEF TypeOK
<1>5. Append(commits, commit) \in Seq(Commit) /\ Len(Append(commits, commit)) = Len(commits) + 1
  BY <1>3, <1>4, AppendType
<1>6. CommittedLog(cs) = IF tree = HeadTree THEN commits ELSE Append(commits, commit)
  BY DEF CommittedLog
<1> HIDE DEF tree, commit
<1> QED
  BY <1>4, <1>5, <1>6

LEMMA CommitType ==
  ASSUME TypeOK, NEW cs \in ChangeSets,
         StageFiles(cs) \/ CommitGroup(cs) \/ HashUnread(cs) \/ CommitFails(cs)
  PROVE  TypeOK'
<1>1. CASE StageFiles(cs)
  <2>1. staged' \in FileMap
    BY <1>1 DEF StageFiles, TypeOK, FileMap
  <2>2. run' \in Run
    BY <1>1, MoveType DEF StageFiles, Phases
  <2> QED
    BY <1>1, <2>1, <2>2 DEF StageFiles, TypeOK, bounds
<1>2. CASE CommitGroup(cs)
  <2>1. commits' \in Seq(Commit) /\ Len(commits') >= 1 /\ Len(commits') \in Nat
    BY <1>2, CommittedLogType DEF CommitGroup
  <2>2. run' \in Run
    BY <1>2, <2>1 DEF CommitGroup, TypeOK, Run, Phases
  <2> QED
    BY <1>2, <2>1, <2>2 DEF CommitGroup, TypeOK, catalogVars, bounds
<1>3. CASE HashUnread(cs)
  <2>1. commits' \in Seq(Commit) /\ Len(commits') >= 1
    BY <1>3, CommittedLogType DEF HashUnread
  <2>2. run' \in Run
    BY <1>3 DEF HashUnread, TypeOK, Run, Phases
  <2> QED
    BY <1>3, <2>1, <2>2 DEF HashUnread, TypeOK, catalogVars, bounds
<1>4. CASE CommitFails(cs)
  <2>1. run' \in Run /\ reply' \in [ChangeSets -> {"none", "ok", "failed"}]
    BY <1>4, MoveType DEF CommitFails, Phases, TypeOK
  <2>2. faults' \in Nat
    BY <1>4 DEF CommitFails, TypeOK
  <2> QED
    BY <1>4, <2>1, <2>2 DEF CommitFails, TypeOK, catalogVars
<1> QED
  BY <1>1, <1>2, <1>3, <1>4

LEMMA StatusType ==
  ASSUME TypeOK, NEW cs \in ChangeSets, SetStatus(cs) \/ SetStatusFails(cs)
  PROVE  TypeOK'
<1>1. run.commit \in Nat
  BY DEF TypeOK, Run
<1>2. CASE SetStatus(cs)
  <2>1. run' \in Run
    BY <1>2, MoveType DEF SetStatus, Phases
  <2>2. /\ UNCHANGED <<manifest, commits, drift, plan, audits, exports, reply>>
        /\ UNCHANGED <<worktree, staged, joins, productIndex, crashes, faults, edits>>
    BY <1>2 DEF SetStatus, catalogVars, bounds
  <2>3. sets' \in [ChangeSets -> ChangeSetRow]
    <3>1. sets[cs].approved \in Nat
      BY DEF TypeOK, ChangeSetRow
    <3>2. \E c \in Nat : sets' = [sets EXCEPT ![cs].status = "approved", ![cs].approved = c]
      <4>1. CASE run.commit # 0
        BY <1>1, <1>2, <4>1 DEF SetStatus
      <4>2. CASE run.commit = 0
        <5>1. sets' = [sets EXCEPT ![cs].status = "approved", ![cs].approved = sets[cs].approved]
          BY <1>2, <4>2 DEF SetStatus, TypeOK, ChangeSetRow
        <5> QED
          BY <3>1, <5>1
      <4> QED
        BY <4>1, <4>2
    <3>3. PICK c \in Nat : sets' = [sets EXCEPT ![cs].status = "approved", ![cs].approved = c]
      BY <3>2
    <3>4. sets \in [ChangeSets -> ChangeSetRow]
      BY DEF TypeOK
    <3> QED
      BY <3>3, <3>4, ApprovedRow
  <2> QED
    BY <2>1, <2>2, <2>3 DEF TypeOK
<1>3. CASE SetStatusFails(cs)
  <2> DEFINE row == [manifest[cs] EXCEPT !.status = "committed", !.commit = run.commit]
  <2>1. row \in ManifestRow
    BY <1>1 DEF TypeOK, ManifestRow
  <2>2. manifest' = manifest \/ manifest' = [manifest EXCEPT ![cs] = row]
    BY <1>3, StatusFailsMoves DEF TypeOK, ManifestRow
  <2>3. (GoTo("restore") /\ reply' = reply) \/ Answer(cs, "failed")
    BY <1>3, StatusFailsMoves
  <2>4. run' \in Run /\ reply' \in [ChangeSets -> {"none", "ok", "failed"}]
    BY <2>3, MoveType DEF Phases, TypeOK
  <2>5. manifest' \in [ChangeSets -> ManifestRow]
    BY <2>1, <2>2 DEF TypeOK
  <2>6. /\ UNCHANGED <<sets, commits, drift, plan, audits, exports, crashes, edits>>
        /\ UNCHANGED <<worktree, staged, productIndex, joins>> /\ faults' = faults + 1
    BY <1>3, StatusFailsMoves
  <2>7. faults' \in Nat
    BY <2>6 DEF TypeOK
  <2> HIDE DEF row
  <2> QED
    BY <2>4, <2>5, <2>6, <2>7 DEF TypeOK
<1> QED
  BY <1>2, <1>3

LEMMA PointersType ==
  ASSUME TypeOK, NEW cs \in ChangeSets, NEW bad \in SUBSET Skus, RecordPointers(cs, bad)
  PROVE  TypeOK'
<1>1. run.commit \in Nat /\ TreeAt(run.commit) \in FileMap
  BY TreeAtType DEF TypeOK, Run
<1>2. productIndex' \in [Skus -> Row]
  BY <1>1 DEF RecordPointers, TypeOK, Row, FileMap
<1>3. run' \in Run
  BY DEF RecordPointers, TypeOK, Run, Phases
<1>4. faults' \in Nat
  BY DEF RecordPointers, TypeOK
<1> QED
  BY <1>2, <1>3, <1>4 DEF RecordPointers, TypeOK

LEMMA CompletionType ==
  ASSUME TypeOK, NEW cs \in ChangeSets,
         \/ SettleDrifts(cs) \/ RecordAudit(cs) \/ MarkManifest(cs) \/ CompletionFails(cs)
         \/ FinalizePlan(cs) \/ Finish(cs) \/ LoadExport(cs)
  PROVE  TypeOK'
<1>1. CASE SettleDrifts(cs)
  <2>1. run' \in Run
    BY <1>1, MoveType DEF SettleDrifts, Phases
  <2> QED
    BY <1>1, <2>1 DEF SettleDrifts, TypeOK, catalogVars, bounds
<1>2. CASE RecordAudit(cs)
  <2>1. run' \in Run
    BY <1>2, MoveType DEF RecordAudit, Phases
  <2>2. /\ UNCHANGED <<sets, manifest, commits, drift, plan, exports, reply>>
        /\ UNCHANGED <<worktree, staged, joins, productIndex, crashes, faults, edits>>
    BY <1>2 DEF RecordAudit, catalogVars, bounds
  <2>3. audits' \in [ChangeSets -> Nat]
    BY <1>2 DEF RecordAudit, TypeOK
  <2> QED
    BY <2>1, <2>2, <2>3 DEF TypeOK
<1>3. CASE MarkManifest(cs)
  <2> DEFINE row(status) == [manifest[cs] EXCEPT !.commit = run.commit, !.status = status]
  <2>1. \A status \in {"committed", "recovered"} : row(status) \in ManifestRow
    BY MarkedRow DEF TypeOK, Run
  <2>2. manifest' = manifest \/ \E status \in {"committed", "recovered"} :
                                 manifest' = [manifest EXCEPT ![cs] = row(status)]
    BY <1>3 DEF MarkManifest, TypeOK, ManifestRow
  <2>3. run' \in Run
    BY <1>3, MoveType DEF MarkManifest, Phases
  <2> HIDE DEF row
  <2>4. manifest' \in [ChangeSets -> ManifestRow]
    BY <2>1, <2>2 DEF TypeOK
  <2> QED
    BY <1>3, <2>3, <2>4 DEF MarkManifest, TypeOK, catalogVars, bounds
<1>4. CASE CompletionFails(cs)
  <2>1. run' \in Run /\ reply' \in [ChangeSets -> {"none", "ok", "failed"}]
    <3>1. CASE Standalone(cs) /\ run.phase = "audit"
      BY <1>4, <3>1, MoveType DEF CompletionFails
    <3>2. CASE ~(Standalone(cs) /\ run.phase = "audit")
      <4>1. reply' = reply
        BY <1>4, <3>2 DEF CompletionFails
      <4>2. \E phase \in Phases, failed \in BOOLEAN :
              run' = [run EXCEPT !.failed = failed, !.phase = phase]
        BY <1>4, <3>2 DEF CompletionFails, Standalone, Phases
      <4> QED
        BY <4>1, <4>2 DEF TypeOK, Run
    <3> QED
      BY <3>1, <3>2
  <2> QED
    BY <1>4, <2>1 DEF CompletionFails, TypeOK, rowVars, catalogVars
<1>5. CASE FinalizePlan(cs)
  <2>1. run' \in Run
    BY <1>5, MoveType DEF FinalizePlan, Phases
  <2>2. plan' \in [ChangeSets -> {"none", "accepted", "applied"}] /\ faults' \in Nat
    BY <1>5 DEF FinalizePlan, TypeOK
  <2> QED
    BY <1>5, <2>1, <2>2 DEF FinalizePlan, TypeOK, catalogVars
<1>6. CASE Finish(cs)
  <2> DEFINE row == [manifest[cs] EXCEPT !.status = "pending", !.commit = 0]
  <2>1. row \in ManifestRow
    BY DEF TypeOK, ManifestRow
  <2>2. manifest' = manifest \/ manifest' = [manifest EXCEPT ![cs] = row]
    BY <1>6 DEF Finish, TypeOK, ManifestRow
  <2>3. run' \in Run /\ reply' \in [ChangeSets -> {"none", "ok", "failed"}]
    BY <1>6, MoveType DEF Finish, Phases, TypeOK
  <2>4. /\ UNCHANGED <<sets, commits, drift, plan, audits, exports>>
        /\ UNCHANGED <<worktree, staged, joins, productIndex, crashes, faults, edits>>
    BY <1>6 DEF Finish, catalogVars, bounds
  <2> HIDE DEF row
  <2>5. manifest' \in [ChangeSets -> ManifestRow]
    BY <2>1, <2>2 DEF TypeOK
  <2> QED
    BY <2>3, <2>4, <2>5 DEF TypeOK
<1>7. CASE LoadExport(cs)
  <2>1. run' \in Run /\ reply' \in [ChangeSets -> {"none", "ok", "failed"}]
    BY <1>7, MoveType DEF LoadExport
  <2> DEFINE built == exports[cs] \union {sets[cs].approved}
  <2>2. built \in SUBSET Nat
    BY DEF TypeOK, ChangeSetRow
  <2>3. exports' = exports \/ exports' = [exports EXCEPT ![cs] = built]
    BY <1>7 DEF LoadExport, TypeOK
  <2>4. /\ UNCHANGED <<sets, manifest, commits, drift, plan, audits>>
        /\ UNCHANGED <<worktree, staged, joins, productIndex, crashes, faults, edits>>
    BY <1>7 DEF LoadExport, catalogVars, bounds
  <2>5. exports' \in [ChangeSets -> SUBSET Nat]
    BY <2>2, <2>3 DEF TypeOK
  <2> QED
    BY <2>1, <2>4, <2>5 DEF TypeOK
<1> QED
  BY <1>1, <1>2, <1>3, <1>4, <1>5, <1>6, <1>7

LEMMA StepType ==
  ASSUME TypeOK, NEW cs \in ChangeSets, Step(cs)
  PROVE  TypeOK'
BY UndoType, GateType, SaveSnapshotType, WriteType, CommitType, StatusType, PointersType,
   CompletionType DEF Step

(* Every row, file, commit and handler state keeps its type. *)
THEOREM TypeCorrect == Spec => []TypeOK
<1>1. Init => TypeOK
  BY InitType
<1>2. TypeOK /\ [Next]_vars => TypeOK'
  <2> SUFFICES ASSUME TypeOK, [Next]_vars PROVE TypeOK'
    OBVIOUS
  <2>1. CASE \E cs \in ChangeSets : Request(cs) \/ Step(cs)
    BY <2>1, RequestType, StepType
  <2>2. CASE \E s \in Skus : DetectDrift(s) \/ AcceptRemote(s) \/ KeepLocal(s) \/ ReopenDrift(s)
    BY <2>2, DriftType
  <2>3. CASE Crash
    BY <2>3, NoRowsType DEF Crash, TypeOK, rowVars, catalogVars
  <2>4. CASE UNCHANGED vars
    BY <2>4 DEF vars, TypeOK, catalogVars, bounds
  <2> QED
    BY <2>1, <2>2, <2>3, <2>4 DEF Next
<1> QED
  BY <1>1, <1>2, PTL DEF Spec
=============================================================================
