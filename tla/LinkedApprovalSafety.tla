------------------------ MODULE LinkedApprovalSafety ------------------------
(***************************************************************************)
(* The safety of LinkedApproval: for any number of change sets, products,  *)
(* crashes and failures an approval names one commit that holds its whole  *)
(* group, as long as no two change sets have the same title.               *)
(***************************************************************************)
EXTENDS LinkedApprovalProofs

(* The subject of a commit names its change set only when the titles differ. *)
DistinctTitles == \A a, b \in ChangeSets : Title[a] = Title[b] => a = b

Working == {"gates", "snapshot", "write", "stage", "commit", "restoreThenGate"}
Completing == {"status", "pointers", "drifts", "audit", "mark", "plan", "finish"}

Whole(cs, c) ==
  c \in 1..HEAD /\ \A s \in Owned(manifest[cs]) : TreeAt(c)[s] = manifest[cs].writes[s]

(* The commits since the snapshot that carry the title of the change set. *)
Own(cs) == {c \in 1..HEAD : c > manifest[cs].snapshot.preHead /\ commits[c].subject[1] = Title[cs]}

(* Every commit that a row, the log or the handler in progress gives the change set;
   a hash that was not read gives it none. *)
Named(cs) ==
  {c \in Nat \ {0} :
     \/ c = manifest[cs].commit
     \/ sets[cs].status = "approved" /\ c = sets[cs].approved
     \/ manifest[cs].status # "absent" /\ c \in Own(cs)
     \/ run.set = cs /\ run.phase \in Completing /\ c = run.commit}

OneCommit(cs) == \A c \in Named(cs) : Whole(cs, c) /\ \A d \in Named(cs) : d = c

ManifestInv(cs) ==
  LET m == manifest[cs]
  IN /\ (cs \notin Linked \/ m.status = "absent") => m = NoManifest
     /\ m.status = "pending" => m.commit = 0
     /\ m.snapshot.preHead <= HEAD
     /\ m.status # "absent" => m.snapshot.subject[1] = Title[cs]

(* Before its commit the handler works on a draft, and what it wrote is in the worktree. *)
HandlerInv(cs) ==
  run.set = cs =>
    /\ run.phase \in Working => sets[cs].status = "draft"
    /\ run.phase \in {"gates", "snapshot", "restoreThenGate"} => run.done = {}
    /\ run.phase \in {"snapshot", "restore", "restoreThenGate"} => cs \in Linked
    /\ run.phase = "status" => sets[cs].status \in {"draft", "approved"}
    /\ run.phase = "status" /\ run.action = "approved" => sets[cs].status = "draft"
    /\ run.phase \in (Completing \ {"status"}) \union {"load"} => sets[cs].status = "approved"

WriteInv(cs) ==
  run.set = cs /\ cs \in Linked =>
    /\ run.phase \in {"snapshot", "write"} => Items(cs) \subseteq run.todo \union run.done
    /\ run.phase \in {"stage", "commit"} => Items(cs) \subseteq run.done
    /\ run.phase \in {"write", "stage", "commit"} =>
         /\ manifest[cs].status = "pending" /\ manifest[cs].snapshot.preHead = HEAD
         /\ manifest[cs].writes = sets[cs].draft
         /\ \A s \in run.done : worktree[s] = sets[cs].draft[s]

(* An audit is recorded once the set is approved, and only by the first completion. *)
AuditInv(cs) ==
  /\ audits[cs] <= 1
  /\ sets[cs].status \in {"absent", "draft"} => audits[cs] = 0
  /\ run.set = cs /\ Standalone(cs) /\ run.phase \in {"pointers", "drifts", "audit"} => audits[cs] = 0

Inv(cs) == OneCommit(cs) /\ ManifestInv(cs) /\ HandlerInv(cs) /\ WriteInv(cs) /\ AuditInv(cs)
IInv == \A cs \in ChangeSets : Inv(cs)

-----------------------------------------------------------------------------
(* What a step leaves alone. *)

(* The log only grows, by commits that do not carry the title of x. *)
LogKeeps(x) ==
  /\ Len(commits) <= Len(commits')
  /\ \A c \in 1..Len(commits) : commits'[c] = commits[c]
  /\ \A c \in 1..Len(commits') : c > Len(commits) => commits'[c].subject[1] # Title[x]

LEMMA HeadType ==
  ASSUME TypeOK
  PROVE  HEAD \in Nat /\ HEAD >= 1 /\ HEAD = Len(commits)
BY DEF TypeOK, HEAD

LEMMA WholeStays ==
  ASSUME TypeOK, TypeOK', NEW x \in ChangeSets, NEW c \in Nat, Whole(x, c),
         Len(commits) <= Len(commits'), \A d \in 1..Len(commits) : commits'[d] = commits[d],
         manifest'[x].writes = manifest[x].writes
  PROVE  Whole(x, c)'
<1>1. c \in 1..Len(commits) /\ c \in 1..Len(commits')
  BY HeadType DEF Whole, TypeOK
<1>2. TreeAt(c)' = TreeAt(c)
  BY <1>1 DEF TreeAt, HEAD
<1> QED
  BY <1>1, <1>2 DEF Whole, Owned, HEAD

LEMMA OwnStays ==
  ASSUME TypeOK, TypeOK', NEW x \in ChangeSets, LogKeeps(x), ManifestInv(x),
         manifest'[x].snapshot = manifest[x].snapshot
  PROVE  Own(x)' = Own(x)
<1>1. Len(commits) \in Nat /\ Len(commits') \in Nat
  BY DEF TypeOK
<1> QED
  BY <1>1 DEF Own, LogKeeps, HEAD

LEMMA OneCommitStays ==
  ASSUME NEW x \in ChangeSets, OneCommit(x), Named(x)' \subseteq Named(x),
         \A c \in Nat : Whole(x, c) => Whole(x, c)'
  PROVE  OneCommit(x)'
<1>1. Named(x) \subseteq Nat
  BY DEF Named
<1> QED
  BY <1>1 DEF OneCommit

LEMMA AtMostOneStays ==
  ASSUME NEW x \in ChangeSets, NEW c, Named(x)' \subseteq {c}, Whole(x, c)'
  PROVE  OneCommit(x)'
BY DEF OneCommit

LEMMA ManifestInvStays ==
  ASSUME TypeOK, TypeOK', NEW x \in ChangeSets, ManifestInv(x), Len(commits) <= Len(commits'),
         manifest'[x] = manifest[x]
  PROVE  ManifestInv(x)'
BY DEF ManifestInv, TypeOK, HEAD, ManifestRow, Snapshot

(* A change set no handler works on keeps the invariant while it is not approved,
   unapproved or given another commit. *)
LEMMA OthersKeep ==
  ASSUME TypeOK, TypeOK', NEW x \in ChangeSets, Inv(x), LogKeeps(x),
         run.set # x, run'.set # x,
         manifest'[x] = manifest[x], audits'[x] = audits[x],
         sets'[x].status = "approved" => sets[x].status = "approved" /\ sets'[x].approved = sets[x].approved,
         sets'[x].status \in {"absent", "draft"} => sets[x].status \in {"absent", "draft"}
  PROVE  Inv(x)'
<1>1. Own(x)' = Own(x)
  BY OwnStays DEF Inv
<1>2. Named(x)' \subseteq Named(x)
  BY <1>1 DEF Named
<1>3. \A c \in Nat : Whole(x, c) => Whole(x, c)'
  BY WholeStays DEF LogKeeps
<1>4. OneCommit(x)'
  BY <1>2, <1>3, OneCommitStays DEF Inv
<1>5. ManifestInv(x)'
  BY ManifestInvStays DEF Inv, LogKeeps
<1>6. HandlerInv(x)' /\ WriteInv(x)'
  BY DEF HandlerInv, WriteInv
<1>7. AuditInv(x)'
  BY DEF AuditInv, Inv
<1> QED
  BY <1>4, <1>5, <1>6, <1>7 DEF Inv

(* A handler that touches neither the rows nor the log names no new commit. *)
LEMMA QuietKeeps ==
  ASSUME TypeOK, TypeOK', NEW x \in ChangeSets, Inv(x),
         UNCHANGED <<manifest, sets, commits, audits>>,
         run'.set = x /\ run'.phase \in Completing =>
           run.set = x /\ run.phase \in Completing /\ run'.commit = run.commit,
         HandlerInv(x)', WriteInv(x)',
         (run.set = x /\ Standalone(x) /\ run.phase \in {"pointers", "drifts", "audit"})'
           => audits[x] = 0
  PROVE  Inv(x)'
<1>1. LogKeeps(x)
  BY DEF LogKeeps, TypeOK
<1>2. Own(x)' = Own(x)
  BY <1>1, OwnStays DEF Inv
<1>3. Named(x)' \subseteq Named(x)
  BY <1>2 DEF Named
<1>4. \A c \in Nat : Whole(x, c) => Whole(x, c)'
  BY <1>1, WholeStays DEF LogKeeps
<1>5. OneCommit(x)'
  BY <1>3, <1>4, OneCommitStays DEF Inv
<1>6. ManifestInv(x)'
  BY <1>1, ManifestInvStays DEF Inv, LogKeeps
<1>7. AuditInv(x)'
  BY DEF AuditInv, Inv
<1> QED
  BY <1>5, <1>6, <1>7 DEF Inv

LEMMA InitInv == Init => IInv
<1> SUFFICES ASSUME Init, NEW x \in ChangeSets PROVE Inv(x)
  BY DEF IInv
<1>1. /\ manifest[x] = NoManifest /\ sets[x] = NoSet /\ run = Idle /\ audits[x] = 0 /\ HEAD = 1
  BY DEF Init, HEAD
<1>2. Named(x) = {}
  BY <1>1, ConstantsAssumption DEF Named, NoManifest, NoSet, Idle, Completing
<1>3. ManifestInv(x)
  BY <1>1 DEF ManifestInv, NoManifest, NoSnapshot
<1>4. HandlerInv(x) /\ WriteInv(x) /\ AuditInv(x)
  BY <1>1, ConstantsAssumption DEF HandlerInv, WriteInv, AuditInv, Idle
<1> QED
  BY <1>2, <1>3, <1>4 DEF Inv, OneCommit

-----------------------------------------------------------------------------
(* The commit a change set is approved at is recorded with its status. *)

Unbound == \A cs \in ChangeSets : sets[cs].status # "approved" => sets[cs].approved = 0

LEMMA NextUnbound ==
  ASSUME TypeOK, Unbound, [Next]_vars
  PROVE  Unbound'
<1> SUFFICES ASSUME NEW x \in ChangeSets, sets'[x].status # "approved"
             PROVE  sets'[x].approved = 0
  BY DEF Unbound
<1>1. sets[x].status # "approved" => sets[x].approved = 0
  BY DEF Unbound
<1>2. CASE sets' = sets
  BY <1>1, <1>2
<1>3. ASSUME NEW cs \in ChangeSets, NEW row, row.approved = 0, sets' = [sets EXCEPT ![cs] = row]
      PROVE  sets'[x].approved = 0
  BY <1>1, <1>3 DEF TypeOK
<1>4. ASSUME NEW cs \in ChangeSets, Request(cs), sets' # sets
      PROVE  sets'[x].approved = 0
  <2>1. CASE \/ \E v \in DraftContent[cs] : Stage(cs, v)
             \/ \E s \in Skus, v \in DraftContent[cs], b \in Files : ReconcileDrift(cs, s, v, b)
    <3>1. \E row : row.approved = 0 /\ sets' = [sets EXCEPT ![cs] = row]
      BY <2>1 DEF Stage, ReconcileDrift, StagedSet
    <3> QED
      BY <1>3, <3>1
  <2>2. CASE \E s \in Skus, v \in DraftContent[cs] : EditDraft(cs, s, v)
    <3>1. PICK s \in Skus, v \in DraftContent[cs] : EditDraft(cs, s, v)
      BY <2>2
    <3>2. sets[cs].status = "draft"
      BY <3>1 DEF EditDraft
    <3> QED
      BY <1>1, <3>1, <3>2, EditFields
  <2>3. CASE Discard(cs)
    <3> DEFINE row == [NoSet EXCEPT !.status = "discarded"]
    <3>1. row.approved = 0 /\ sets' = [sets EXCEPT ![cs] = row]
      BY <2>3 DEF Discard, NoSet
    <3> HIDE DEF row
    <3> QED
      BY <1>3, <3>1
  <2> QED
    BY <1>4, <2>1, <2>2, <2>3 DEF Request, ApproveDraft, RefuseApproved, Recover, rowVars
<1>5. ASSUME NEW cs \in ChangeSets, Step(cs), sets' # sets
      PROVE  sets'[x].approved = 0
  <2>1. SetStatus(cs)
    BY <1>5, StatusFailsMoves DEF Step, Undo, Gate, SaveSnapshot, WriteProduct, WriteFails,
       CrashInWrite, StageFiles, CommitGroup, HashUnread, CommitFails, RecordPointers,
       SettleDrifts, RecordAudit, MarkManifest, CompletionFails, rowVars, FinalizePlan, Finish,
       LoadExport
  <2> QED
    BY <1>1, <2>1, StatusFields
<1> QED
  BY <1>2, <1>4, <1>5 DEF Next, vars, DetectDrift, AcceptRemote, KeepLocal, ReopenDrift, Crash, rowVars

LEMMA OnlyApprovedIsBound == Spec => []Unbound
<1>1. Init => Unbound
  BY DEF Init, Unbound, NoSet
<1> QED
  BY <1>1, NextUnbound, TypeCorrect, PTL DEF Spec

-----------------------------------------------------------------------------
(* Requests. *)

LEMMA LogUnchanged ==
  ASSUME TypeOK, NEW x \in ChangeSets, commits' = commits
  PROVE  LogKeeps(x)
BY DEF LogKeeps, TypeOK

LEMMA IdleSet == ~(Idle.set \in ChangeSets) /\ Idle.done = {} /\ Idle.phase = "idle"
BY ConstantsAssumption DEF Idle

(* A request finds the worker idle, and leaves it idle or at the first step of its operation. *)
LEMMA RequestStarts ==
  ASSUME NEW cs \in ChangeSets, Request(cs)
  PROVE  /\ run = Idle
         /\ \/ run' = Idle
            \/ /\ run'.set = cs /\ run'.done = {}
               /\ run'.phase \in {"status", "restoreThenGate", "gates", "restore"}
<1>1. ASSUME NEW op \in {"approve", "export"}, NEW phase, Start(cs, op, phase)
      PROVE  run'.set = cs /\ run'.done = {} /\ run'.phase = phase
  BY <1>1 DEF Start, Idle
<1>2. ASSUME NEW op \in {"approve", "export"}, NEW c, Complete(cs, op, c, "recovered")
      PROVE  run'.set = cs /\ run'.done = {} /\ run'.phase = "status"
  BY <1>2 DEF Complete, Idle
<1>3. ASSUME ApproveDraft(cs)
      PROVE  /\ run = Idle /\ run'.set = cs /\ run'.done = {}
             /\ run'.phase \in {"status", "restoreThenGate", "gates"}
  BY <1>1, <1>2, <1>3 DEF ApproveDraft
<1>4. ASSUME NEW op \in {"approve", "export"}, Recover(cs, op)
      PROVE  /\ run = Idle
             /\ run' = Idle \/ (run'.set = cs /\ run'.done = {} /\ run'.phase \in {"status", "restore"})
  <2>1. /\ run = Idle
        /\ run' = Idle \/ Start(cs, op, "restore") \/ \E c : Complete(cs, op, c, "recovered")
    BY <1>4 DEF Recover, Answer
  <2> QED
    BY <1>1, <1>2, <2>1
<1>6. CASE RefuseApproved(cs)
  BY <1>6 DEF RefuseApproved, Answer
<1>5. CASE ~ApproveDraft(cs) /\ ~RefuseApproved(cs) /\ ~Recover(cs, "approve") /\ ~Recover(cs, "export")
  <2>1. run = Idle /\ run' = run
    BY <1>5 DEF Request, Stage, EditDraft, Discard, ReconcileDrift, bounds
  <2> QED
    BY <2>1
<1> QED
  BY <1>3, <1>4, <1>5, <1>6

(* The commit an interrupted operation is taken to have landed as is one it names. *)
LEMMA LandedIsNamed ==
  ASSUME TypeOK, NEW cs \in ChangeSets, ManifestInv(cs), LandedCommit(cs) # 0
  PROVE  LandedCommit(cs) \in Named(cs)
<1>1. LandedCommit(cs) \in Nat
  BY LandedCommitType
<1>2. CASE manifest[cs].commit # 0
  BY <1>1, <1>2 DEF LandedCommit, Named
<1>3. CASE manifest[cs].commit = 0
  <2>1. /\ manifest[cs].status = "pending" /\ HEAD # manifest[cs].snapshot.preHead
        /\ commits[HEAD].subject = manifest[cs].snapshot.subject /\ LandedCommit(cs) = HEAD
    BY <1>3 DEF LandedCommit
  <2>2. HEAD \in Own(cs)
    BY <2>1, HeadType DEF Own, ManifestInv, TypeOK, ManifestRow, Snapshot
  <2> QED
    BY <1>1, <2>1, <2>2, HeadType DEF Named
<1> QED
  BY <1>2, <1>3

(* A request that starts a handler names no commit the rows do not name already. *)
LEMMA StartKeeps ==
  ASSUME TypeOK, TypeOK', NEW cs \in ChangeSets, Inv(cs), run = Idle,
         UNCHANGED <<manifest, sets, commits, audits>>,
         run'.set = cs, run'.done = {}, run'.action # "approved",
         \/ run'.phase \in {"gates", "restoreThenGate"} /\ sets[cs].status = "draft"
         \/ run'.phase = "restore"
         \/ run'.phase = "status" /\ run'.commit \in Named(cs) /\ sets[cs].status \in {"draft", "approved"},
         run'.phase \in {"restore", "restoreThenGate"} => cs \in Linked
  PROVE  Inv(cs)'
<1>1. LogKeeps(cs)
  BY LogUnchanged
<1>2. Own(cs)' = Own(cs)
  BY <1>1, OwnStays DEF Inv
<1>3. Named(cs)' \subseteq Named(cs)
  BY <1>2, IdleSet DEF Named, Completing
<1>4. \A c \in Nat : Whole(cs, c) => Whole(cs, c)'
  BY <1>1, WholeStays DEF LogKeeps
<1>5. OneCommit(cs)'
  BY <1>3, <1>4, OneCommitStays DEF Inv
<1>6. ManifestInv(cs)'
  BY <1>1, ManifestInvStays DEF Inv, LogKeeps
<1>7. HandlerInv(cs)' /\ WriteInv(cs)'
  BY DEF HandlerInv, WriteInv, Working, Completing
<1>8. AuditInv(cs)'
  BY DEF AuditInv, Inv, Standalone
<1> QED
  BY <1>5, <1>6, <1>7, <1>8 DEF Inv

LEMMA RequestInv ==
  ASSUME TypeOK, TypeOK', IInv, NEW cs \in ChangeSets, Request(cs)
  PROVE  IInv'
<1> SUFFICES ASSUME NEW x \in ChangeSets PROVE Inv(x)'
  BY DEF IInv
<1>0. Inv(x) /\ Inv(cs)
  BY DEF IInv
<1>1. CASE \/ \E v \in DraftContent[cs] : Stage(cs, v)
           \/ \E s \in Skus, v \in DraftContent[cs], b \in Files : ReconcileDrift(cs, s, v, b)
  <2>1. /\ run = Idle /\ run' = run /\ UNCHANGED <<manifest, commits, audits>>
        /\ sets[cs].status = "absent"
        /\ \E row : row.status = "draft" /\ sets' = [sets EXCEPT ![cs] = row]
    BY <1>1 DEF Stage, ReconcileDrift, StagedSet, bounds
  <2>2. x # cs => sets'[x] = sets[x]
    BY <2>1 DEF TypeOK
  <2>3. x = cs => sets'[x].status = "draft" /\ sets[x].status = "absent"
    BY <2>1 DEF TypeOK
  <2> QED
    BY <1>0, <2>1, <2>2, <2>3, LogUnchanged, IdleSet, OthersKeep
<1>2. CASE \E s \in Skus, v \in DraftContent[cs] : EditDraft(cs, s, v)
  <2>1. /\ run = Idle /\ run' = run /\ UNCHANGED <<manifest, commits, audits>>
        /\ sets'[x].status = sets[x].status /\ sets'[x].approved = sets[x].approved
    <3>1. PICK s \in Skus, v \in DraftContent[cs] : EditDraft(cs, s, v)
      BY <1>2
    <3>2. sets'[x].status = sets[x].status /\ sets'[x].approved = sets[x].approved
      BY <3>1, EditFields DEF EditDraft
    <3> QED
      BY <3>1, <3>2 DEF EditDraft
  <2> QED
    BY <1>0, <2>1, LogUnchanged, IdleSet, OthersKeep
<1>3. CASE Discard(cs)
  <2>1. /\ run = Idle /\ run' = run /\ UNCHANGED <<commits, audits>>
        /\ sets' = [sets EXCEPT ![cs] = [NoSet EXCEPT !.status = "discarded"]]
        /\ manifest' = [manifest EXCEPT ![cs] = NoManifest]
    BY <1>3 DEF Discard, bounds
  <2>2. CASE x # cs
    BY <1>0, <2>1, <2>2, LogUnchanged, IdleSet, OthersKeep DEF TypeOK
  <2>3. CASE x = cs
    <3>1. manifest'[x] = NoManifest /\ sets'[x].status = "discarded" /\ run'.set # x
      BY <2>1, <2>3, IdleSet DEF TypeOK, NoSet
    <3>2. Named(x)' = {}
      BY <3>1 DEF Named, NoManifest
    <3>3. ManifestInv(x)'
      BY <3>1, HeadType, <2>1 DEF ManifestInv, NoManifest, NoSnapshot, HEAD
    <3>4. HandlerInv(x)' /\ WriteInv(x)' /\ AuditInv(x)'
      BY <1>0, <2>1, <3>1 DEF HandlerInv, WriteInv, AuditInv, Inv
    <3> QED
      BY <3>2, <3>3, <3>4 DEF Inv, OneCommit
  <2> QED
    BY <2>2, <2>3
<1>4. CASE ApproveDraft(cs)
  <2>1. run = Idle /\ UNCHANGED <<manifest, sets, commits, audits>> /\ sets[cs].status = "draft"
    BY <1>4 DEF ApproveDraft, rowVars
  <2>2. /\ run'.set = cs /\ run'.done = {} /\ run'.action # "approved"
        /\ \/ run'.phase = "gates"
           \/ run'.phase = "restoreThenGate" /\ cs \in Linked
           \/ run'.phase = "status" /\ LandedCommit(cs) # 0 /\ run'.commit = LandedCommit(cs)
    BY <1>4 DEF ApproveDraft, Start, Complete, Idle
  <2>3. x = cs => Inv(x)'
    BY <1>0, <2>1, <2>2, LandedIsNamed, StartKeeps DEF Inv
  <2>4. x # cs => Inv(x)'
    BY <1>0, <2>1, <2>2, LogUnchanged, IdleSet, OthersKeep
  <2> QED
    BY <2>3, <2>4
<1>5. ASSUME NEW op \in {"approve", "export"}, Recover(cs, op)
      PROVE  Inv(x)'
  <2>1. /\ run = Idle /\ UNCHANGED <<manifest, sets, commits, audits>>
        /\ sets[cs].status \in {"draft", "approved"}
    BY <1>5 DEF Recover, rowVars
  <2>2. CASE run' = Idle
    BY <1>0, <2>1, <2>2, LogUnchanged, IdleSet, OthersKeep
  <2>3. CASE run' # Idle
    <3>1. /\ run'.set = cs /\ run'.done = {} /\ run'.action # "approved"
          /\ \/ run'.phase = "restore" /\ Undoable(cs)
             \/ run'.phase = "status" /\ LandedCommit(cs) # 0 /\ run'.commit = LandedCommit(cs)
             \/ /\ run'.phase = "status" /\ sets[cs].status = "approved"
                /\ sets[cs].approved # 0 /\ run'.commit = sets[cs].approved
      BY <1>5, <2>3 DEF Recover, Start, Complete, Answer, Idle
    <3>2. Undoable(cs) => cs \in Linked
      BY <1>0 DEF Undoable, Inv, ManifestInv, NoManifest
    <3>3. sets[cs].status = "approved" /\ sets[cs].approved # 0 => sets[cs].approved \in Named(cs)
      BY DEF Named, TypeOK, ChangeSetRow
    <3>4. x = cs => Inv(x)'
      BY <1>0, <2>1, <3>1, <3>2, <3>3, LandedIsNamed, StartKeeps DEF Inv
    <3>5. x # cs => Inv(x)'
      BY <1>0, <2>1, <3>1, LogUnchanged, IdleSet, OthersKeep
    <3> QED
      BY <3>4, <3>5
  <2> QED
    BY <2>2, <2>3
<1>6. CASE RefuseApproved(cs)
  <2>1. run = Idle /\ run' = Idle /\ UNCHANGED <<manifest, sets, commits, audits>>
    BY <1>6 DEF RefuseApproved, rowVars, Answer
  <2> QED
    BY <1>0, <2>1, LogUnchanged, IdleSet, OthersKeep
<1> QED
  BY <1>1, <1>2, <1>3, <1>4, <1>5, <1>6 DEF Request

LEMMA AppendKeeps ==
  ASSUME TypeOK, NEW x \in ChangeSets, NEW c \in Commit, c.subject[1] # Title[x],
         commits' = Append(commits, c)
  PROVE  LogKeeps(x) /\ Len(commits') = Len(commits) + 1 /\ commits'[Len(commits) + 1] = c
<1>1. commits \in Seq(Commit)
  BY DEF TypeOK
<1> HIDE DEF Commit
<1>2. Len(commits') = Len(commits) + 1 /\ Len(commits) \in Nat
  BY <1>1
<1>3. \A i \in 1..Len(commits) : commits'[i] = commits[i]
  BY <1>1
<1>4. commits'[Len(commits) + 1] = c
  BY <1>1
<1> QED
  BY <1>2, <1>3, <1>4 DEF LogKeeps

LEMMA DriftInv ==
  ASSUME TypeOK, TypeOK', IInv, NEW s \in Skus,
         DetectDrift(s) \/ AcceptRemote(s) \/ KeepLocal(s) \/ ReopenDrift(s)
  PROVE  IInv'
<1> SUFFICES ASSUME NEW x \in ChangeSets PROVE Inv(x)'
  BY DEF IInv
<1>1. /\ Inv(x) /\ run = Idle /\ run' = run /\ UNCHANGED <<manifest, sets, audits>>
  BY DEF IInv, DetectDrift, AcceptRemote, KeepLocal, ReopenDrift, bounds
<1>2. LogKeeps(x)
  <2>1. CASE commits' = commits
    BY <2>1, LogUnchanged
  <2>2. CASE AcceptRemote(s) /\ commits' # commits
    <3> DEFINE c == [subject |-> OtherSubject, tree |-> staged']
    <3>1. commits' = Append(commits, c)
      BY <2>2 DEF AcceptRemote
    <3>2. c \in Commit /\ c.subject[1] # Title[x]
      <4>1. OtherSubject \in Subjects /\ OtherSubject[1] # Title[x]
        BY ConstantsAssumption DEF OtherSubject, Subjects
      <4>2. staged' \in FileMap
        BY DEF TypeOK
      <4> QED
        BY <4>1, <4>2 DEF Commit
    <3> QED
      BY <3>1, <3>2, AppendKeeps
  <2> QED
    BY <2>1, <2>2 DEF DetectDrift, KeepLocal, ReopenDrift
<1> QED
  BY <1>1, <1>2, IdleSet, OthersKeep

-----------------------------------------------------------------------------
(* Steps of a handler. *)

(* A step of one change set's handler leaves the others' invariant alone. *)
LEMMA StepKeepsOthers ==
  ASSUME TypeOK, TypeOK', IInv, NEW cs \in ChangeSets, NEW x \in ChangeSets, x # cs,
         run.set = cs, run'.set = cs \/ run' = Idle, LogKeeps(x),
         manifest'[x] = manifest[x], audits'[x] = audits[x], sets'[x] = sets[x]
  PROVE  Inv(x)'
BY IdleSet, OthersKeep DEF IInv

LEMMA UndoInv ==
  ASSUME TypeOK, TypeOK', IInv, NEW cs \in ChangeSets, NEW k \in 0..3, Undo(cs, k)
  PROVE  IInv'
<1>1. /\ run.set = cs /\ run.phase \in {"restore", "restoreThenGate"}
      /\ UNCHANGED <<manifest, sets, commits, audits>>
  BY DEF Undo, At
<1>2. \/ run' = Idle
      \/ /\ run.phase = "restoreThenGate" /\ run'.phase = "gates" /\ run'.set = cs
         /\ run'.done = run.done
  BY <1>1 DEF Undo, Answer, GoTo, TypeOK, Run
<1>3. Inv(cs)
  BY DEF IInv
<1>4. HandlerInv(cs)'
  BY <1>1, <1>2, <1>3, IdleSet DEF HandlerInv, Inv, Working, Completing
<1>5. WriteInv(cs)'
  BY <1>2, IdleSet DEF WriteInv
<1>6. Inv(cs)'
  BY <1>1, <1>2, <1>3, <1>4, <1>5, IdleSet, QuietKeeps DEF Completing
<1>7. \A x \in ChangeSets : x # cs => Inv(x)'
  BY <1>1, <1>2, LogUnchanged, StepKeepsOthers
<1> QED
  BY <1>6, <1>7 DEF IInv

LEMMA GateInv ==
  ASSUME TypeOK, TypeOK', IInv, NEW cs \in ChangeSets, Gate(cs)
  PROVE  IInv'
<1>1. /\ run.set = cs /\ run.phase = "gates" /\ UNCHANGED <<manifest, sets, commits, audits>>
  BY DEF Gate, At
<1>2. \/ run' = Idle
      \/ /\ run'.phase = (IF cs \in Linked THEN "snapshot" ELSE "write") /\ run'.set = cs
         /\ run'.done = run.done /\ run'.todo = Items(cs)
  <2>1. CASE GatesPass(cs)
    <3> DEFINE phase == IF cs \in Linked THEN "snapshot" ELSE "write"
    <3>1. run' = [run EXCEPT !.phase = phase, !.todo = Items(cs), !.action = "approved"]
      BY <2>1 DEF Gate
    <3> HIDE DEF phase
    <3>2. run'.phase = phase /\ run'.set = cs /\ run'.done = run.done /\ run'.todo = Items(cs)
      BY <1>1, <3>1 DEF TypeOK, Run
    <3> QED
      BY <3>2 DEF phase
  <2>2. CASE ~GatesPass(cs)
    BY <2>2 DEF Gate, Answer
  <2> QED
    BY <2>1, <2>2
<1>3. Inv(cs)
  BY DEF IInv
<1>4. HandlerInv(cs)'
  BY <1>1, <1>2, <1>3, IdleSet DEF HandlerInv, Inv, Working, Completing
<1>5. WriteInv(cs)'
  BY <1>1, <1>2, IdleSet DEF WriteInv, Items
<1>6. Inv(cs)'
  BY <1>1, <1>2, <1>3, <1>4, <1>5, IdleSet, QuietKeeps DEF Completing
<1>7. \A x \in ChangeSets : x # cs => Inv(x)'
  BY <1>1, <1>2, LogUnchanged, StepKeepsOthers
<1> QED
  BY <1>6, <1>7 DEF IInv

LEMMA SaveSnapshotInv ==
  ASSUME TypeOK, TypeOK', IInv, NEW cs \in ChangeSets, SaveSnapshot(cs)
  PROVE  IInv'
<1>1. /\ run.set = cs /\ run.phase = "snapshot" /\ UNCHANGED <<sets, commits, audits, worktree>>
  BY DEF SaveSnapshot, At, catalogVars
<1>2. /\ run'.phase \in {"write", "restore"} /\ run'.set = cs
      /\ run'.done = run.done /\ run'.todo = run.todo
  BY <1>1 DEF SaveSnapshot, GoTo, TypeOK, Run
<1>3. Inv(cs) /\ cs \in Linked /\ run.done = {} /\ sets[cs].status = "draft"
  BY <1>1 DEF IInv, Inv, HandlerInv, Working
<1>4. HandlerInv(cs)'
  BY <1>1, <1>2, <1>3 DEF HandlerInv, Working, Completing
<1>5. CASE manifest' = manifest /\ run'.phase = "restore"
  <2>1. WriteInv(cs)'
    BY <1>5 DEF WriteInv
  <2> QED
    <3>1. Inv(cs)'
      BY <1>1, <1>2, <1>3, <1>4, <1>5, <2>1, QuietKeeps DEF Completing
    <3>2. \A x \in ChangeSets : x # cs => Inv(x)'
      BY <1>1, <1>2, <1>5, LogUnchanged, StepKeepsOthers
    <3> QED
      BY <3>1, <3>2 DEF IInv
<1>6. ASSUME NEW row, manifest' = [manifest EXCEPT ![cs] = row],
             row.status = "pending", row.commit = 0, row.writes = sets[cs].draft,
             row.snapshot = SnapshotOf(cs)
      PROVE  IInv'
  <2>1. manifest'[cs] = row /\ \A x \in ChangeSets : x # cs => manifest'[x] = manifest[x]
    BY <1>6 DEF TypeOK
  <2>2. row.snapshot.preHead = HEAD /\ row.snapshot.subject = <<Title[cs], Cardinality(Items(cs))>>
    BY <1>6 DEF SnapshotOf, Subject
  <2>3. Own(cs)' = {} /\ HEAD' = HEAD
    BY <1>1, <2>1, <2>2, HeadType DEF Own, HEAD
  <2>4. Named(cs)' = {}
    BY <1>1, <1>2, <1>3, <1>6, <2>1, <2>3 DEF Named, Completing
  <2>5. ManifestInv(cs)'
    BY <1>3, <1>6, <2>1, <2>2, <2>3, HeadType DEF ManifestInv
  <2>6. WriteInv(cs)'
    BY <1>1, <1>2, <1>3, <1>6, <2>1, <2>2, <2>3 DEF WriteInv, Items, Inv
  <2>7. AuditInv(cs)'
    BY <1>1, <1>2, <1>3 DEF AuditInv, Inv
  <2>8. Inv(cs)'
    BY <1>4, <2>4, <2>5, <2>6, <2>7 DEF Inv, OneCommit
  <2>9. \A x \in ChangeSets : x # cs => Inv(x)'
    BY <1>1, <1>2, <2>1, LogUnchanged, StepKeepsOthers
  <2> QED
    BY <2>8, <2>9 DEF IInv
<1> DEFINE saved == [status |-> "pending", commit |-> 0, writes |-> sets[cs].draft,
                     reads |-> [s \in Skus |-> IF s \in ReadSkus(cs)
                                               THEN TreeAt(sets[cs].baseCommit)[s] ELSE None],
                     snapshot |-> SnapshotOf(cs)]
<1>7. \/ manifest' = manifest /\ run'.phase = "restore"
      \/ manifest' = [manifest EXCEPT ![cs] = saved]
  BY DEF SaveSnapshot
<1>8. /\ saved.status = "pending" /\ saved.commit = 0 /\ saved.writes = sets[cs].draft
      /\ saved.snapshot = SnapshotOf(cs)
  OBVIOUS
<1> HIDE DEF saved
<1> QED
  BY <1>5, <1>6, <1>7, <1>8

LEMMA WriteStepInv ==
  ASSUME TypeOK, TypeOK', IInv, NEW cs \in ChangeSets, NEW s \in Skus,
         \/ WriteProduct(cs, s)
         \/ \E k \in 0..2 : WriteFails(cs, s, k) \/ CrashInWrite(cs, s, k)
  PROVE  IInv'
<1>1. /\ run.set = cs /\ run.phase = "write" /\ UNCHANGED <<manifest, sets, commits, audits>>
  BY WriteMoves DEF At
<1>2. Inv(cs)
  BY DEF IInv
<1>3. \/ run' = Idle
      \/ run'.set = cs /\ run'.phase = "restore" /\ cs \in Linked
      \/ run'.set = cs /\ run'.phase \in {"write", "stage"} /\ cs \notin Linked
      \/ /\ WriteProduct(cs, s) /\ run'.set = cs /\ run'.phase = (IF run'.todo = {} THEN "stage" ELSE "write")
         /\ run'.todo = run.todo \ {s} /\ run'.done = run.done \union {s}
  <2>1. CASE cs \in Linked /\ GoTo("restore")
    BY <1>1, <2>1, GoToFields
  <2>2. ASSUME NEW written, run' = AfterProduct(s, written)
        PROVE  /\ run'.set = cs /\ run'.phase = (IF run'.todo = {} THEN "stage" ELSE "write")
               /\ run'.todo = run.todo \ {s} /\ run'.done = run.done \union written
    BY <1>1, <2>2, AfterFields
  <2>3. CASE cs \notin Linked /\ run' = AfterProduct(s, {})
    BY <2>2, <2>3
  <2>4. CASE WriteProduct(cs, s) /\ run' = AfterProduct(s, {s})
    BY <2>2, <2>4
  <2> QED
    BY <2>1, <2>3, <2>4, WriteMoves
<1>4. HandlerInv(cs)'
  BY <1>1, <1>2, <1>3, IdleSet DEF HandlerInv, Inv, Working, Completing
<1>5. WriteInv(cs)'
  <2>1. CASE WriteProduct(cs, s) /\ cs \in Linked
    <3>1. worktree' = [worktree EXCEPT ![s] = sets[cs].draft[s]]
      BY <2>1 DEF WriteProduct, WriteParts
    <3>2. worktree'[s] = sets[cs].draft[s] /\ \A r \in Skus : r # s => worktree'[r] = worktree[r]
      BY <3>1 DEF TypeOK, FileMap
    <3>3. /\ run'.phase = (IF run'.todo = {} THEN "stage" ELSE "write")
          /\ run'.todo = run.todo \ {s} /\ run'.done = run.done \union {s}
      BY <2>1 DEF WriteProduct, AfterProduct, TypeOK, Run
    <3>4. run.done \subseteq Skus /\ HEAD' = HEAD
      BY <1>1 DEF TypeOK, Run, HEAD
    <3> QED
      BY <1>1, <1>2, <2>1, <3>2, <3>3, <3>4 DEF WriteInv, Inv, Items
  <2>2. CASE ~(WriteProduct(cs, s) /\ cs \in Linked)
    BY <1>3, <2>2, IdleSet DEF WriteInv
  <2> QED
    BY <2>1, <2>2
<1>6. Inv(cs)'
  BY <1>1, <1>2, <1>3, <1>4, <1>5, IdleSet, QuietKeeps DEF Completing
<1>7. \A x \in ChangeSets : x # cs => Inv(x)'
  BY <1>1, <1>3, LogUnchanged, StepKeepsOthers
<1> QED
  BY <1>6, <1>7 DEF IInv

(* What is committed holds everything the manifest of the change set lists. *)
LEMMA CommittedIsWhole ==
  ASSUME TypeOK, TypeOK', NEW cs \in ChangeSets, Inv(cs), run.set = cs, run.phase = "commit",
         commits' = CommittedLog(cs), manifest' = manifest, NEW k \in Nat, k = Len(commits')
  PROVE  Whole(cs, k)'
<1>0. k \in 1..HEAD'
  BY DEF TypeOK, HEAD
<1> SUFFICES ASSUME NEW s \in Owned(manifest[cs])
             PROVE  TreeAt(k)'[s] = manifest[cs].writes[s]
  BY <1>0 DEF Whole, Owned
<1>1. s \in Skus /\ manifest[cs].writes[s] # None
  BY DEF Owned
<1>2. cs \in Linked
  BY <1>1 DEF Inv, ManifestInv, NoManifest, NoFiles
<1>3. manifest[cs].writes = sets[cs].draft /\ Items(cs) \subseteq run.done
      /\ \A r \in run.done : worktree[r] = sets[cs].draft[r]
  BY <1>2 DEF Inv, WriteInv
<1>4. s \in run.done /\ worktree[s] = manifest[cs].writes[s]
  BY <1>1, <1>3 DEF Items
<1> DEFINE tree == [r \in Skus |-> IF r \in run.done THEN worktree[r] ELSE HeadTree[r]]
           c == [subject |-> <<Title[cs], Cardinality(run.done)>>, tree |-> tree]
<1>5. tree[s] = manifest[cs].writes[s]
  BY <1>1, <1>4
<1>6. CASE tree = HeadTree
  <2>1. commits' = commits
    BY <1>6 DEF CommittedLog
  <2>2. TreeAt(k)' = HeadTree
    BY <2>1 DEF TreeAt, HeadTree, HEAD
  <2> QED
    BY <1>5, <1>6, <2>2
<1>7. CASE tree # HeadTree
  <2>1. commits' = Append(commits, c) /\ commits \in Seq(Commit)
    BY <1>7 DEF CommittedLog, TypeOK
  <2> HIDE DEF c
  <2>2. k \in 1..Len(commits') /\ commits'[k] = c
    BY <2>1
  <2>3. TreeAt(k)' = c.tree
    BY <2>2 DEF TreeAt, HEAD
  <2> QED
    BY <1>5, <2>3 DEF c
<1> QED
  BY <1>6, <1>7

LEMMA CommitKeeps ==
  ASSUME DistinctTitles, TypeOK, TypeOK', IInv, NEW cs \in ChangeSets,
         run.set = cs, run.phase = "commit", commits' = CommittedLog(cs),
         UNCHANGED <<manifest, sets, audits>>, run'.set = cs \/ run' = Idle,
         run'.set = cs /\ run'.phase \in Completing => run'.commit \in {0, Len(commits')},
         HandlerInv(cs)', WriteInv(cs)', AuditInv(cs)'
  PROVE  IInv'
<1>1. Inv(cs) /\ sets[cs].status = "draft" /\ manifest[cs].commit = 0
  <2>1. Inv(cs) /\ sets[cs].status = "draft"
    BY DEF IInv, Inv, HandlerInv, Working
  <2>2. manifest[cs].commit = 0
    BY <2>1 DEF Inv, ManifestInv, WriteInv, NoManifest
  <2> QED
    BY <2>1, <2>2
<1>2. PICK k \in Nat : k = Len(commits')
  BY DEF TypeOK
<1> DEFINE tree == [r \in Skus |-> IF r \in run.done THEN worktree[r] ELSE HeadTree[r]]
           c == [subject |-> <<Title[cs], Cardinality(run.done)>>, tree |-> tree]
<1>3. commits' = commits \/ commits' = Append(commits, c)
  BY DEF CommittedLog
<1>4. c \in Commit /\ c.subject[1] = Title[cs]
  <2>1. tree \in FileMap
    BY TreeAtType DEF TypeOK, HeadTree, FileMap
  <2>2. Cardinality(run.done) \in Nat
    BY ConstantsAssumption, FS_Subset, FS_CardinalityType DEF TypeOK, Run
  <2> QED
    BY <2>1, <2>2, ConstantsAssumption DEF Commit, Subjects
<1> HIDE DEF c
<1>5. \A x \in ChangeSets : x # cs => LogKeeps(x)
  BY <1>3, <1>4, LogUnchanged, AppendKeeps DEF DistinctTitles
<1>6. Len(commits) <= Len(commits') /\ Len(commits') <= Len(commits) + 1
  BY <1>3, <1>4, AppendType DEF TypeOK
<1>7. Named(cs)' \subseteq {k}
  <2>1. manifest[cs].status # "absent" => manifest[cs].snapshot.preHead = Len(commits)
    BY <1>1 DEF Inv, WriteInv, ManifestInv, NoManifest, HEAD
  <2>2. manifest[cs].status # "absent" => Own(cs)' \subseteq {k}
    <3> SUFFICES ASSUME manifest[cs].status # "absent", NEW d, d \in Own(cs)' PROVE d = k
      OBVIOUS
    <3>1. d \in 1..k /\ d > Len(commits)
      BY <1>2, <2>1 DEF Own, HEAD
    <3>2. Len(commits) \in Nat /\ k <= Len(commits) + 1
      BY <1>2, <1>6, HeadType DEF HEAD
    <3> QED
      BY <3>1, <3>2
  <2> QED
    BY <1>1, <1>2, <2>2 DEF Named
<1>8. OneCommit(cs)'
  BY <1>1, <1>2, <1>7, CommittedIsWhole, AtMostOneStays
<1>9. ManifestInv(cs)'
  BY <1>1, <1>6, ManifestInvStays DEF Inv
<1>10. Inv(cs)'
  BY <1>8, <1>9 DEF Inv
<1>11. \A x \in ChangeSets : x # cs => Inv(x)'
  BY <1>5, StepKeepsOthers
<1> QED
  BY <1>10, <1>11 DEF IInv

LEMMA CommitInv ==
  ASSUME DistinctTitles, TypeOK, TypeOK', IInv, NEW cs \in ChangeSets,
         StageFiles(cs) \/ CommitGroup(cs) \/ HashUnread(cs) \/ CommitFails(cs)
  PROVE  IInv'
<1>1. /\ Inv(cs) /\ run.set = cs /\ run.phase \in {"stage", "commit"}
      /\ sets[cs].status = "draft" /\ UNCHANGED <<manifest, sets, audits>>
  BY DEF StageFiles, CommitGroup, HashUnread, CommitFails, At, IInv, Inv, HandlerInv, Working
<1>2. CASE StageFiles(cs)
  <2>1. /\ run.phase = "stage" /\ run'.set = cs /\ run'.phase = "commit" /\ run'.done = run.done
        /\ commits' = commits /\ worktree' = worktree
    BY <1>1, <1>2 DEF StageFiles, At, GoTo, TypeOK, Run
  <2>2. HandlerInv(cs)'
    BY <1>1, <2>1 DEF HandlerInv, Working, Completing
  <2>3. WriteInv(cs)'
    <3> SUFFICES ASSUME cs \in Linked PROVE WriteInv(cs)'
      BY DEF WriteInv
    <3>1. HEAD' = HEAD /\ Items(cs)' = Items(cs) /\ manifest' = manifest /\ sets' = sets
      BY <1>1, <2>1 DEF HEAD, Items
    <3>2. /\ Items(cs) \subseteq run.done
          /\ manifest[cs].status = "pending" /\ manifest[cs].snapshot.preHead = HEAD
          /\ manifest[cs].writes = sets[cs].draft
          /\ \A s \in run.done : worktree[s] = sets[cs].draft[s]
      BY <1>1, <2>1 DEF WriteInv, Inv
    <3> QED
      BY <2>1, <3>1, <3>2 DEF WriteInv
  <2>4. Inv(cs)'
    BY <1>1, <2>1, <2>2, <2>3, QuietKeeps DEF Completing
  <2>5. \A x \in ChangeSets : x # cs => Inv(x)'
    BY <1>1, <2>1, LogUnchanged, StepKeepsOthers
  <2> QED
    BY <2>4, <2>5 DEF IInv
<1>3. CASE CommitGroup(cs) \/ HashUnread(cs)
  <2>1. /\ run.phase = "commit" /\ commits' = CommittedLog(cs)
        /\ \E c \in {0, Len(commits')} : run' = [run EXCEPT !.phase = "status", !.commit = c]
    BY <1>3 DEF CommitGroup, HashUnread, At
  <2>2. run'.set = cs /\ run'.phase = "status" /\ run'.commit \in {0, Len(commits')}
    BY <1>1, <2>1 DEF TypeOK, Run
  <2>3. HandlerInv(cs)' /\ WriteInv(cs)'
    BY <1>1, <2>2 DEF HandlerInv, WriteInv, Working, Completing
  <2>4. AuditInv(cs)'
    BY <1>1, <2>2 DEF AuditInv, Inv
  <2> QED
    BY <1>1, <2>1, <2>2, <2>3, <2>4, CommitKeeps
<1>4. CASE CommitFails(cs)
  <2>1. /\ commits' = commits
        /\ run' = Idle \/ (run'.set = cs /\ run'.phase = "restore" /\ cs \in Linked)
    BY <1>1, <1>4 DEF CommitFails, GoTo, Answer, TypeOK, Run
  <2>2. HandlerInv(cs)' /\ WriteInv(cs)'
    BY <1>1, <2>1, IdleSet DEF HandlerInv, WriteInv, Working, Completing
  <2>3. Inv(cs)'
    BY <1>1, <2>1, <2>2, IdleSet, QuietKeeps DEF Completing
  <2>4. \A x \in ChangeSets : x # cs => Inv(x)'
    BY <1>1, <2>1, LogUnchanged, StepKeepsOthers
  <2> QED
    BY <2>3, <2>4 DEF IInv
<1> QED
  BY <1>2, <1>3, <1>4

(* The completion gives its commit to the rows one after the other. *)
LEMMA CompletionNames ==
  ASSUME TypeOK, TypeOK', NEW cs \in ChangeSets, Inv(cs), commits' = commits,
         manifest'[cs].writes = manifest[cs].writes,
         manifest'[cs].snapshot = manifest[cs].snapshot,
         manifest'[cs].status # "absent" => manifest[cs].status # "absent",
         manifest'[cs].commit # 0 => manifest'[cs].commit \in Named(cs),
         sets'[cs].status = "approved" /\ sets'[cs].approved # 0 => sets'[cs].approved \in Named(cs),
         run'.set = cs /\ run'.phase \in Completing /\ run'.commit # 0 => run'.commit \in Named(cs)
  PROVE  OneCommit(cs)'
<1>1. LogKeeps(cs)
  BY LogUnchanged
<1>2. Own(cs)' = Own(cs)
  BY <1>1, OwnStays DEF Inv
<1>3. Named(cs)' \subseteq Named(cs)
  BY <1>2 DEF Named
<1>4. \A c \in Nat : Whole(cs, c) => Whole(cs, c)'
  BY <1>1, WholeStays DEF LogKeeps
<1> QED
  BY <1>3, <1>4, OneCommitStays DEF Inv

LEMMA RunCommitNamed ==
  ASSUME TypeOK, NEW cs \in ChangeSets, run.set = cs, run.phase \in Completing, run.commit # 0
  PROVE  run.commit \in Named(cs)
BY DEF Named, TypeOK, Run

LEMMA RowsNamed ==
  ASSUME TypeOK, NEW cs \in ChangeSets
  PROVE  /\ manifest[cs].commit # 0 => manifest[cs].commit \in Named(cs)
         /\ sets[cs].status = "approved" /\ sets[cs].approved # 0 => sets[cs].approved \in Named(cs)
BY DEF Named, TypeOK, ManifestRow, ChangeSetRow

(* A completion whose status update failed leaves the manifest as it is, or marks
   it committed; what it lists stays. *)
LEMMA StatusFailsRow ==
  ASSUME TypeOK, NEW cs \in ChangeSets, SetStatusFails(cs), NEW x \in ChangeSets
  PROVE  /\ sets' = sets
         /\ x # cs => manifest'[x] = manifest[x]
         /\ UNCHANGED <<manifest[x].writes, manifest[x].reads, manifest[x].snapshot>>
         /\ \/ manifest'[x] = manifest[x]
            \/ /\ manifest[x].status # "absent" /\ manifest'[x].status = "committed"
               /\ manifest'[x].commit = run.commit
<1>1. CASE UNCHANGED manifest
  BY <1>1, StatusFailsMoves
<1>2. CASE /\ manifest[cs].status # "absent"
           /\ manifest' = [manifest EXCEPT ![cs].status = "committed", ![cs].commit = run.commit]
  <2>1. manifest \in [ChangeSets -> ManifestRow] /\ sets' = sets
    BY StatusFailsMoves DEF TypeOK
  <2>2. CASE x = cs
    BY <1>2, <2>1, <2>2 DEF ManifestRow
  <2>3. CASE x # cs
    BY <1>2, <2>1, <2>3
  <2> QED
    BY <2>2, <2>3
<1> QED
  BY <1>1, <1>2, StatusFailsMoves

LEMMA StatusInv ==
  ASSUME TypeOK, TypeOK', IInv, Unbound, NEW cs \in ChangeSets, SetStatus(cs) \/ SetStatusFails(cs)
  PROVE  IInv'
<1>0. sets[cs].status # "approved" => sets[cs].approved = 0
  BY DEF Unbound
<1>1. /\ Inv(cs) /\ run.set = cs /\ run.phase = "status" /\ UNCHANGED <<commits, audits>>
      /\ run.commit # 0 => run.commit \in Named(cs)
      /\ sets[cs].status \in {"draft", "approved"}
  BY RunCommitNamed DEF SetStatus, SetStatusFails, At, IInv, Inv, HandlerInv, Completing
<1>2. CASE SetStatus(cs)
  <2>1. /\ run'.set = cs /\ run'.phase = "pointers" /\ run'.commit = run.commit
        /\ run'.action = run.action /\ manifest' = manifest
    BY <1>1, <1>2, GoToFields DEF SetStatus
  <2>2. /\ sets'[cs].status = "approved"
        /\ sets'[cs].approved = (IF run.commit # 0 THEN run.commit ELSE sets[cs].approved)
        /\ \A x \in ChangeSets : x # cs => sets'[x] = sets[x]
    BY <1>2, StatusFields
  <2>3. OneCommit(cs)'
    BY <1>0, <1>1, <2>1, <2>2, RowsNamed, CompletionNames
  <2>4. ManifestInv(cs)'
    BY <1>1, <2>1, ManifestInvStays DEF Inv, TypeOK
  <2>5. HandlerInv(cs)' /\ WriteInv(cs)'
    BY <2>1, <2>2 DEF HandlerInv, WriteInv, Working, Completing
  <2>6. AuditInv(cs)'
    BY <1>1, <2>1, <2>2 DEF AuditInv, Inv, HandlerInv, Standalone
  <2>7. \A x \in ChangeSets : x # cs => Inv(x)'
    BY <1>1, <2>1, <2>2, LogUnchanged, StepKeepsOthers
  <2> QED
    BY <2>3, <2>4, <2>5, <2>6, <2>7 DEF IInv, Inv
<1>3. CASE SetStatusFails(cs)
  <2>1. /\ sets' = sets
        /\ run' = Idle \/ (run'.set = cs /\ run'.phase = "restore" /\ cs \in Linked)
    BY <1>1, <1>3, StatusFailsMoves, GoToFields DEF Answer
  <2>2. /\ \A x \in ChangeSets : x # cs => manifest'[x] = manifest[x]
        /\ manifest'[cs].writes = manifest[cs].writes /\ manifest'[cs].snapshot = manifest[cs].snapshot
        /\ \/ manifest'[cs] = manifest[cs]
           \/ /\ manifest[cs].status # "absent"
              /\ manifest'[cs].status = "committed" /\ manifest'[cs].commit = run.commit
    BY <1>3, StatusFailsRow
  <2>3. OneCommit(cs)'
    BY <1>1, <2>1, <2>2, IdleSet, RowsNamed, CompletionNames DEF Completing
  <2>4. ManifestInv(cs)'
    BY <1>1, <2>2, HeadType DEF ManifestInv, Inv, NoManifest, HEAD
  <2>5. HandlerInv(cs)' /\ WriteInv(cs)' /\ AuditInv(cs)'
    BY <1>1, <2>1, IdleSet DEF HandlerInv, WriteInv, AuditInv, Inv, Working, Completing
  <2>6. \A x \in ChangeSets : x # cs => Inv(x)'
    BY <1>1, <2>1, <2>2, LogUnchanged, StepKeepsOthers
  <2> QED
    BY <2>3, <2>4, <2>5, <2>6 DEF IInv, Inv
<1> QED
  BY <1>2, <1>3

(* The completion's steps that leave manifest, status, log and audit as they are. *)
LEMMA QuietStepInv ==
  ASSUME TypeOK, TypeOK', IInv, NEW cs \in ChangeSets,
         \/ \E bad \in SUBSET Skus : RecordPointers(cs, bad)
         \/ SettleDrifts(cs) \/ CompletionFails(cs) \/ FinalizePlan(cs) \/ LoadExport(cs)
  PROVE  IInv'
<1>1. /\ Inv(cs) /\ run.set = cs /\ run.phase \in {"pointers", "drifts", "audit", "mark", "plan", "load"}
      /\ UNCHANGED <<manifest, sets, commits, audits>>
  BY DEF RecordPointers, SettleDrifts, CompletionFails, FinalizePlan, LoadExport, At, IInv, rowVars
<1>2. \/ run' = Idle
      \/ /\ run'.set = cs /\ run'.commit = run.commit /\ run'.action = run.action
         /\ run.phase # "load"
         /\ run'.phase \in {"drifts", "audit", "mark", "plan", "finish"}
         /\ run'.phase \in {"drifts", "audit"} => run.phase \in {"pointers", "drifts"}
  <2>1. CASE \E bad \in SUBSET Skus : RecordPointers(cs, bad)
    <3>1. PICK f : run' = [run EXCEPT !.phase = "drifts", !.failed = f]
      BY <2>1 DEF RecordPointers
    <3>2. run.phase = "pointers"
      BY <2>1 DEF RecordPointers, At
    <3> QED
      BY <1>1, <3>1, <3>2 DEF TypeOK, Run
  <2>2. CASE SettleDrifts(cs) \/ FinalizePlan(cs)
    <3>1. \/ run.phase = "drifts" /\ GoTo("audit")
          \/ run.phase = "plan" /\ GoTo("finish")
      BY <2>2 DEF SettleDrifts, FinalizePlan, At
    <3> QED
      BY <1>1, <3>1, GoToFields
  <2>3. CASE CompletionFails(cs)
    <3>1. CASE run' = Idle
      BY <3>1
    <3>2. CASE run' # Idle
      <4> DEFINE phase == CASE run.phase = "drifts" -> "audit"
                            [] run.phase = "audit" -> "mark"
                            [] OTHER -> "finish"
                 failed == ~Standalone(cs)
      <4>1. /\ run.phase \in {"drifts", "audit", "mark"}
            /\ run' = [run EXCEPT !.failed = failed, !.phase = phase]
        BY <2>3, <3>2 DEF CompletionFails, Answer
      <4>2. /\ phase \in Phases /\ failed \in BOOLEAN /\ phase \in {"audit", "mark", "finish"}
            /\ phase = "audit" => run.phase = "drifts"
        BY <4>1 DEF Phases, Standalone
      <4> HIDE DEF phase, failed
      <4>3. run'.phase = phase /\ run'.set = run.set /\ run'.commit = run.commit /\ run'.action = run.action
        BY <4>1, <4>2, RunFields
      <4> QED
        BY <1>1, <4>1, <4>2, <4>3
    <3> QED
      BY <3>1, <3>2
  <2>4. CASE LoadExport(cs)
    BY <2>4 DEF LoadExport, Answer
  <2> QED
    BY <2>1, <2>2, <2>3, <2>4
<1>3. HandlerInv(cs)' /\ WriteInv(cs)'
  BY <1>1, <1>2, IdleSet DEF HandlerInv, WriteInv, Inv, Working, Completing
<1>4. Inv(cs)'
  BY <1>1, <1>2, <1>3, IdleSet, QuietKeeps DEF Completing, Inv, AuditInv, Standalone
<1>5. \A x \in ChangeSets : x # cs => Inv(x)'
  BY <1>1, <1>2, LogUnchanged, StepKeepsOthers
<1> QED
  BY <1>4, <1>5 DEF IInv

LEMMA AuditStepInv ==
  ASSUME TypeOK, TypeOK', IInv, NEW cs \in ChangeSets, RecordAudit(cs)
  PROVE  IInv'
<1>1. /\ Inv(cs) /\ run.set = cs /\ run.phase = "audit" /\ UNCHANGED <<manifest, sets, commits>>
      /\ sets[cs].status = "approved"
  BY DEF RecordAudit, At, IInv, Inv, HandlerInv, Completing
<1>2. run'.set = cs /\ run'.phase \in {"finish", "mark"} /\ run'.commit = run.commit
  <2>1. \/ run' = [run EXCEPT !.phase = "finish"]
        \/ run' = [run EXCEPT !.phase = "mark"]
    BY DEF RecordAudit, GoTo
  <2> QED
    BY <1>1, <2>1 DEF TypeOK, Run
<1>3. OneCommit(cs)'
  BY <1>1, <1>2, RowsNamed, RunCommitNamed, CompletionNames DEF Completing
<1>4. ManifestInv(cs)'
  BY <1>1, HeadType, ManifestInvStays DEF Inv
<1>5. HandlerInv(cs)' /\ WriteInv(cs)'
  BY <1>1, <1>2 DEF HandlerInv, WriteInv, Working, Completing
<1>6. audits'[cs] <= 1 /\ \A x \in ChangeSets : x # cs => audits'[x] = audits[x]
  <2>1. audits[cs] \in Nat /\ audits[cs] <= 1 /\ (Standalone(cs) => audits[cs] = 0)
    BY <1>1 DEF Inv, AuditInv, TypeOK
  <2>2. CASE audits' = audits
    BY <2>1, <2>2
  <2>3. CASE audits' = [audits EXCEPT ![cs] = @ + 1] /\ audits[cs] = 0
    BY <2>3 DEF TypeOK
  <2> QED
    BY <2>1, <2>2, <2>3 DEF RecordAudit
<1>7. AuditInv(cs)'
  BY <1>1, <1>2, <1>6 DEF AuditInv
<1>8. \A x \in ChangeSets : x # cs => Inv(x)'
  BY <1>1, <1>2, <1>6, LogUnchanged, StepKeepsOthers
<1> QED
  BY <1>3, <1>4, <1>5, <1>7, <1>8 DEF IInv, Inv

LEMMA MarkInv ==
  ASSUME TypeOK, TypeOK', IInv, NEW cs \in ChangeSets, MarkManifest(cs)
  PROVE  IInv'
<1>1. /\ Inv(cs) /\ run.set = cs /\ run.phase = "mark" /\ UNCHANGED <<sets, commits, audits>>
      /\ sets[cs].status = "approved" /\ (run.commit # 0 => run.commit \in Named(cs))
  BY RunCommitNamed DEF MarkManifest, At, IInv, Inv, HandlerInv, Completing
<1>2. run'.set = cs /\ run'.phase = "plan" /\ run'.commit = run.commit
  BY <1>1 DEF MarkManifest, GoTo, TypeOK, Run
<1>3. /\ \A x \in ChangeSets : x # cs => manifest'[x] = manifest[x]
      /\ manifest'[cs].writes = manifest[cs].writes /\ manifest'[cs].snapshot = manifest[cs].snapshot
      /\ \/ manifest'[cs] = manifest[cs]
         \/ /\ manifest[cs].status # "absent" /\ manifest'[cs].status \in {"committed", "recovered"}
            /\ manifest'[cs].commit = run.commit
  <2>1. CASE manifest' = manifest
    BY <2>1
  <2>2. ASSUME NEW status \in {"committed", "recovered"}, manifest[cs].status # "absent",
               manifest' = [manifest EXCEPT ![cs].commit = run.commit, ![cs].status = status]
        PROVE  <1>3!1 /\ <1>3!2 /\ <1>3!3
    BY <2>2 DEF TypeOK, ManifestRow
  <2> QED
    BY <2>1, <2>2 DEF MarkManifest
<1>4. OneCommit(cs)'
  BY <1>1, <1>2, <1>3, RowsNamed, CompletionNames
<1>5. ManifestInv(cs)'
  BY <1>1, <1>3, HeadType DEF ManifestInv, Inv, NoManifest, HEAD
<1>6. HandlerInv(cs)' /\ WriteInv(cs)' /\ AuditInv(cs)'
  BY <1>1, <1>2 DEF HandlerInv, WriteInv, AuditInv, Inv, Working, Completing
<1>7. \A x \in ChangeSets : x # cs => Inv(x)'
  BY <1>1, <1>2, <1>3, LogUnchanged, StepKeepsOthers
<1> QED
  BY <1>4, <1>5, <1>6, <1>7 DEF IInv, Inv

LEMMA FinishInv ==
  ASSUME TypeOK, TypeOK', IInv, NEW cs \in ChangeSets, Finish(cs)
  PROVE  IInv'
<1>1. /\ Inv(cs) /\ run.set = cs /\ run.phase = "finish" /\ UNCHANGED <<sets, commits, audits>>
      /\ sets[cs].status = "approved"
  BY DEF Finish, At, IInv, Inv, HandlerInv, Completing
<1>2. run' = Idle \/ (run'.set = cs /\ run'.phase = "load")
  BY <1>1 DEF Finish, GoTo, Answer, TypeOK, Run
<1>3. /\ \A x \in ChangeSets : x # cs => manifest'[x] = manifest[x]
      /\ manifest'[cs].writes = manifest[cs].writes /\ manifest'[cs].snapshot = manifest[cs].snapshot
      /\ \/ manifest'[cs] = manifest[cs]
         \/ /\ manifest[cs].status # "absent" /\ manifest'[cs].status = "pending"
            /\ manifest'[cs].commit = 0
  BY DEF Finish, TypeOK, ManifestRow
<1>4. OneCommit(cs)'
  BY <1>1, <1>2, <1>3, IdleSet, RowsNamed, CompletionNames DEF Completing
<1>5. ManifestInv(cs)'
  BY <1>1, <1>3, HeadType DEF ManifestInv, Inv, NoManifest, HEAD
<1>6. HandlerInv(cs)' /\ WriteInv(cs)' /\ AuditInv(cs)'
  BY <1>1, <1>2, IdleSet DEF HandlerInv, WriteInv, AuditInv, Inv, Working, Completing
<1>7. \A x \in ChangeSets : x # cs => Inv(x)'
  BY <1>1, <1>2, <1>3, LogUnchanged, StepKeepsOthers
<1> QED
  BY <1>4, <1>5, <1>6, <1>7 DEF IInv, Inv

LEMMA CrashInv ==
  ASSUME TypeOK, TypeOK', IInv, Crash
  PROVE  IInv'
<1> SUFFICES ASSUME NEW x \in ChangeSets PROVE Inv(x)'
  BY DEF IInv
<1>1. run' = Idle /\ Inv(x) /\ UNCHANGED <<manifest, sets, commits, audits>>
  BY DEF Crash, rowVars, IInv
<1>2. HandlerInv(x)' /\ WriteInv(x)'
  BY <1>1, IdleSet DEF HandlerInv, WriteInv
<1> QED
  BY <1>1, <1>2, IdleSet, QuietKeeps

LEMMA NextInv ==
  ASSUME DistinctTitles, TypeOK, TypeOK', IInv, Unbound, [Next]_vars
  PROVE  IInv'
<1>1. CASE UNCHANGED vars
  <2> SUFFICES ASSUME NEW x \in ChangeSets PROVE Inv(x)'
    BY DEF IInv
  <2>1. Inv(x) /\ UNCHANGED <<manifest, sets, commits, audits, run, worktree>>
    BY <1>1 DEF vars, catalogVars, IInv
  <2>2. HandlerInv(x)'
    BY <2>1 DEF HandlerInv, Inv
  <2>3. WriteInv(x)'
    <3>1. Items(x)' = Items(x) /\ HEAD' = HEAD
      BY <2>1 DEF Items, HEAD
    <3> QED
      BY <2>1, <3>1 DEF WriteInv, Inv
  <2>4. (run.set = x /\ Standalone(x) /\ run.phase \in {"pointers", "drifts", "audit"})'
           => audits[x] = 0
    BY <2>1 DEF AuditInv, Inv, Standalone
  <2> QED
    BY <2>1, <2>2, <2>3, <2>4, QuietKeeps
<1>2. ASSUME NEW cs \in ChangeSets, Request(cs)
      PROVE  IInv'
  BY <1>2, RequestInv
<1>3. ASSUME NEW cs \in ChangeSets, Step(cs)
      PROVE  IInv'
  BY <1>3, UndoInv, GateInv, SaveSnapshotInv, WriteStepInv, CommitInv, StatusInv, QuietStepInv,
     AuditStepInv, MarkInv, FinishInv DEF Step
<1>4. CASE \E s \in Skus : DetectDrift(s) \/ AcceptRemote(s) \/ KeepLocal(s) \/ ReopenDrift(s)
  BY <1>4, DriftInv
<1>5. CASE Crash
  BY <1>5, CrashInv
<1> QED
  BY <1>1, <1>2, <1>3, <1>4, <1>5 DEF Next

-----------------------------------------------------------------------------
(* The theorems. *)

(* Of the commits that a row, the log and the handler in progress give a change
   set there is never more than one, and it holds the whole group. *)
THEOREM Safety == ASSUME DistinctTitles PROVE Spec => []IInv
<1>1. Init => IInv
  BY InitInv
<1>2. TypeOK /\ TypeOK' /\ IInv /\ Unbound /\ [Next]_vars => IInv'
  BY NextInv
<1> QED
  BY <1>1, <1>2, TypeCorrect, OnlyApprovedIsBound, PTL DEF Spec

(* Unless Git fails to report a commit, an approved change set and a completion name theirs. *)
AllBound ==
  \A cs \in ChangeSets :
    /\ sets[cs].status = "approved" => sets[cs].approved # 0
    /\ run.set = cs /\ run.phase \in Completing => run.commit # 0

LEMMA NextBound ==
  ASSUME HeadMayFail = FALSE, TypeOK, TypeOK', AllBound, [Next]_vars
  PROVE  AllBound'
<1> SUFFICES ASSUME NEW x \in ChangeSets
             PROVE  /\ sets'[x].status = "approved" => sets'[x].approved # 0
                    /\ run'.set = x /\ run'.phase \in Completing => run'.commit # 0
  BY DEF AllBound
<1>0. /\ sets[x].status = "approved" => sets[x].approved # 0
      /\ run.set = x /\ run.phase \in Completing => run.commit # 0
  BY DEF AllBound
<1>1. sets'[x].status = "approved" => sets'[x].approved # 0
  <2>1. ASSUME NEW cs \in ChangeSets, SetStatus(cs)
        PROVE  sets'[x].status = "approved" => sets'[x].approved # 0
    <3>1. run.set = cs /\ run.commit # 0
      BY <2>1 DEF SetStatus, At, AllBound, Completing
    <3> QED
      BY <1>0, <2>1, <3>1, StatusFields
  <2>2. ASSUME NEW cs \in ChangeSets, Step(cs), ~SetStatus(cs)
        PROVE  sets' = sets
    BY <2>2, StatusFailsMoves DEF Step, Undo, Gate, SaveSnapshot, WriteProduct, WriteFails,
       CrashInWrite, StageFiles, CommitGroup, HashUnread, CommitFails, RecordPointers,
       SettleDrifts, RecordAudit, MarkManifest, CompletionFails, rowVars, FinalizePlan, Finish,
       LoadExport
  <2>3. ASSUME NEW cs \in ChangeSets, Request(cs), sets'[x].status = "approved"
        PROVE  sets[x].status = "approved" /\ sets'[x].approved = sets[x].approved
    <3>1. CASE \/ \E v \in DraftContent[cs] : Stage(cs, v)
               \/ \E s \in Skus, v \in DraftContent[cs], b \in Files : ReconcileDrift(cs, s, v, b)
      <4>1. \E row : row.status = "draft" /\ sets' = [sets EXCEPT ![cs] = row]
        BY <3>1 DEF Stage, ReconcileDrift, StagedSet
      <4> QED
        BY <2>3, <4>1 DEF TypeOK
    <3>2. CASE \E s \in Skus, v \in DraftContent[cs] : EditDraft(cs, s, v)
      BY <2>3, <3>2, EditFields
    <3>3. CASE Discard(cs)
      <4> DEFINE row == [NoSet EXCEPT !.status = "discarded"]
      <4>1. row.status = "discarded" /\ sets' = [sets EXCEPT ![cs] = row]
        BY <3>3 DEF Discard, NoSet
      <4> HIDE DEF row
      <4> QED
        BY <2>3, <4>1 DEF TypeOK
    <3> QED
      BY <2>3, <3>1, <3>2, <3>3 DEF Request, ApproveDraft, RefuseApproved, Recover, rowVars
  <2> QED
    BY <1>0, <2>1, <2>2, <2>3
       DEF Next, vars, DetectDrift, AcceptRemote, KeepLocal, ReopenDrift, Crash, rowVars
<1>2. run'.set = x /\ run'.phase \in Completing => run'.commit # 0
  <2> SUFFICES ASSUME run'.set = x, run'.phase \in Completing, run' # run PROVE run'.commit # 0
    BY <1>0
  <2>1. ASSUME NEW cs \in ChangeSets, Request(cs)
        PROVE  run'.commit # 0
    <3>1. \E op, c : c # 0 /\ Complete(cs, op, c, "recovered")
      <4>1. ASSUME NEW op \in {"approve", "export"}, Recover(cs, op)
            PROVE  \E c : c # 0 /\ Complete(cs, op, c, "recovered")
        <5>1. run' # Idle /\ ~Start(cs, op, "restore")
          <6>1. Start(cs, op, "restore") => run'.phase = "restore"
            BY DEF Start, Idle
          <6> QED
            BY <6>1, IdleSet DEF Completing
        <5>2. CASE LandedCommit(cs) # 0 /\ Complete(cs, op, LandedCommit(cs), "recovered")
          BY <5>2
        <5>3. CASE /\ sets[cs].status = "approved" /\ sets[cs].approved # 0
                   /\ Complete(cs, op, sets[cs].approved, "recovered")
          BY <5>3
        <5> QED
          BY <4>1, <5>1, <5>2, <5>3 DEF Recover, Answer
      <4>2. CASE ApproveDraft(cs)
        <5>1. ~Start(cs, "approve", "restoreThenGate") /\ ~Start(cs, "approve", "gates")
          <6>1. \A phase : Start(cs, "approve", phase) => run'.phase = phase
            BY DEF Start, Idle
          <6> QED
            BY <6>1 DEF Completing
        <5>2. LandedCommit(cs) # 0 /\ Complete(cs, "approve", LandedCommit(cs), "recovered")
          BY <4>2, <5>1 DEF ApproveDraft
        <5> QED
          BY <5>2
      <4>3. run' # Idle
        BY IdleSet
      <4>4. CASE ApproveDraft(cs) \/ Recover(cs, "approve") \/ Recover(cs, "export")
        BY <4>1, <4>2, <4>4
      <4>5. CASE RefuseApproved(cs)
        BY <4>3, <4>5 DEF RefuseApproved, Answer
      <4> QED
        BY <2>1, <4>4, <4>5 DEF Request, Stage, EditDraft, Discard, ReconcileDrift, bounds
    <3> QED
      BY <3>1 DEF Complete, Idle
  <2>2. ASSUME NEW cs \in ChangeSets, CommitGroup(cs)
        PROVE  run'.commit # 0
    <3>1. run'.commit = Len(commits')
      BY <2>2 DEF CommitGroup, TypeOK, Run
    <3> QED
      BY <3>1 DEF TypeOK
  <2>3. ASSUME NEW cs \in ChangeSets, Step(cs), ~CommitGroup(cs)
        PROVE  run'.commit # 0
    <3>1. run.set = cs
      BY <2>3, WriteMoves, StatusFailsMoves DEF Step, At, Undo, Gate, SaveSnapshot, StageFiles,
         HashUnread, CommitFails, SetStatus, RecordPointers, SettleDrifts, RecordAudit,
         MarkManifest, CompletionFails, FinalizePlan, Finish, LoadExport
    <3>2. run'.phase \notin {"gates", "snapshot", "write", "stage", "commit", "restore", "idle"}
      BY DEF Completing
    <3>3. run.phase \in Completing /\ run'.commit = run.commit /\ run'.set = run.set
      <4>1. CASE \/ SetStatus(cs) \/ SetStatusFails(cs) \/ SettleDrifts(cs) \/ RecordAudit(cs)
                 \/ MarkManifest(cs) \/ FinalizePlan(cs) \/ Finish(cs)
        <5>1. run.phase \in Completing
          BY <4>1 DEF SetStatus, SetStatusFails, SettleDrifts, RecordAudit, MarkManifest,
             FinalizePlan, Finish, At, Completing
        <5>2. run' = Idle \/ \E phase : GoTo(phase)
          BY <4>1, StatusFailsMoves DEF SetStatus, SettleDrifts, RecordAudit, MarkManifest,
             FinalizePlan, Finish, Answer
        <5> QED
          BY <3>2, <5>1, <5>2, IdleSet, GoToFields
      <4>2. CASE CompletionFails(cs) \/ \E bad \in SUBSET Skus : RecordPointers(cs, bad)
        <5>1. run.phase \in Completing
          BY <4>2 DEF CompletionFails, RecordPointers, At, Completing
        <5>2. CASE CompletionFails(cs)
          <6>1. run' = Idle \/ \E phase, f : run' = [run EXCEPT !.failed = f, !.phase = phase]
            BY <5>2 DEF CompletionFails, Answer
          <6>2. run' # Idle
            BY <3>2, IdleSet
          <6> QED
            BY <5>1, <6>1, <6>2 DEF TypeOK, Run
        <5>3. CASE \E bad \in SUBSET Skus : RecordPointers(cs, bad)
          <6>1. \E f : run' = [run EXCEPT !.phase = "drifts", !.failed = f]
            BY <5>3 DEF RecordPointers
          <6> QED
            BY <5>1, <6>1 DEF TypeOK, Run
        <5> QED
          BY <4>2, <5>2, <5>3
      <4>3. CASE LoadExport(cs)
        BY <3>2, <4>3, IdleSet DEF LoadExport, Answer
      <4>4. CASE \/ \E k \in 0..3 : Undo(cs, k)
                 \/ SaveSnapshot(cs) \/ StageFiles(cs) \/ CommitFails(cs)
        <5>1. run' = Idle \/ GoTo("gates") \/ GoTo("write") \/ GoTo("restore") \/ GoTo("commit")
          BY <4>4 DEF Undo, SaveSnapshot, StageFiles, CommitFails, Answer
        <5> QED
          BY <3>2, <5>1, IdleSet, GoToFields
      <4>5. CASE Gate(cs)
        BY <3>2, <4>5, IdleSet, GateFields
      <4>6. CASE \E s \in Skus : WriteProduct(cs, s) \/ \E k \in 0..2 : WriteFails(cs, s, k) \/ CrashInWrite(cs, s, k)
        <5>1. run' = Idle \/ GoTo("restore") \/ \E s, w : run' = AfterProduct(s, w)
          BY <4>6, WriteMoves
        <5> QED
          BY <3>2, <5>1, IdleSet, GoToFields, AfterFields
      <4>7. ~HashUnread(cs)
        BY DEF HashUnread
      <4> QED
        BY <2>3, <4>1, <4>2, <4>3, <4>4, <4>5, <4>6, <4>7 DEF Step
    <3> QED
      BY <1>0, <3>3
  <2>4. CASE Crash
    BY <2>4, IdleSet DEF Crash, Completing
  <2> QED
    BY <2>1, <2>2, <2>3, <2>4 DEF Next, vars, DetectDrift, AcceptRemote, KeepLocal, ReopenDrift, bounds
<1> QED
  BY <1>1, <1>2

LEMMA CommitsAreRead == ASSUME HeadMayFail = FALSE PROVE Spec => []AllBound
<1>1. Init => AllBound
  BY IdleSet DEF Init, AllBound, NoSet
<1>2. TypeOK /\ TypeOK' /\ AllBound /\ [Next]_vars => AllBound'
  BY NextBound
<1> QED
  BY <1>1, <1>2, TypeCorrect, PTL DEF Spec

(* The commit that a change set is approved at is in the log and holds its whole
   group, also when Git first failed to report it. *)
LEMMA BoundGroupIsWhole ==
  ASSUME TypeOK, IInv, NEW cs \in ChangeSets, sets[cs].status = "approved", sets[cs].approved # 0
  PROVE  Whole(cs, sets[cs].approved)
<1>1. sets[cs].approved \in Named(cs) /\ OneCommit(cs)
  BY RowsNamed DEF IInv, Inv
<1> QED
  BY <1>1 DEF OneCommit

(* A linked change set is approved at a commit that holds every draft its manifest
   recorded before the first write, whatever interrupted the approval: as long as
   Git reports the commits it makes. *)
THEOREM ApprovedGroupIsWhole ==
  ASSUME DistinctTitles, HeadMayFail = FALSE PROVE Spec => []GroupIsWhole
<1>1. TypeOK /\ IInv /\ AllBound => GroupIsWhole
  <2> SUFFICES ASSUME TypeOK, IInv, AllBound, NEW cs \in Linked, sets[cs].status = "approved"
               PROVE  Whole(cs, sets[cs].approved)
    BY DEF GroupIsWhole, Whole
  <2>1. cs \in ChangeSets
    BY ConstantsAssumption
  <2> QED
    BY <2>1, BoundGroupIsWhole DEF AllBound
<1> QED
  BY <1>1, Safety, CommitsAreRead, TypeCorrect, PTL

(* An approval is audited once, however often it is interrupted and completed. *)
THEOREM ApprovalAuditedOnce == ASSUME DistinctTitles PROVE Spec => []AuditedOnce
<1>1. IInv => AuditedOnce
  BY DEF IInv, Inv, AuditInv, AuditedOnce
<1> QED
  BY <1>1, Safety, PTL

(* Once approved at a commit, a change set stays bound to it: completing again
   sets the status to a commit that was already its own. *)
THEOREM ApprovalStays == ASSUME DistinctTitles PROVE Spec => ApprovalNeverMoves
<1>1. /\ TypeOK /\ TypeOK' /\ IInv /\ [Next]_vars
      => [\A cs \in ChangeSets :
            sets[cs].status = "approved" /\ sets[cs].approved # 0 /\ sets'[cs].status = "approved" =>
              sets'[cs].approved = sets[cs].approved]_vars
  <2> SUFFICES ASSUME TypeOK, TypeOK', IInv, Next, NEW x \in ChangeSets,
                      sets[x].status = "approved", sets[x].approved # 0, sets'[x].status = "approved"
               PROVE  sets'[x].approved = sets[x].approved
    OBVIOUS
  <2>1. CASE sets' = sets
    BY <2>1
  <2>2. CASE sets' # sets
    <3>1. PICK cs \in ChangeSets : Request(cs) \/ Step(cs)
      BY <2>2 DEF Next, DetectDrift, AcceptRemote, KeepLocal, ReopenDrift, Crash, rowVars
    <3>2. CASE SetStatus(cs)
      <4>1. run.set = cs /\ run.phase = "status"
        BY <3>2 DEF SetStatus, At
      <4>2. CASE x = cs /\ run.commit # 0
        <5>1. run.commit \in Named(x) /\ sets[x].approved \in Named(x) /\ OneCommit(x)
          BY <4>1, <4>2, RunCommitNamed, RowsNamed DEF Completing, IInv, Inv
        <5> QED
          BY <3>2, <4>2, <5>1, StatusFields DEF OneCommit
      <4>3. CASE x # cs \/ run.commit = 0
        BY <3>2, <4>3, StatusFields
      <4> QED
        BY <4>2, <4>3
    <3>3. CASE Request(cs)
      <4>1. CASE \/ \E v \in DraftContent[cs] : Stage(cs, v)
                 \/ \E s \in Skus, v \in DraftContent[cs], b \in Files : ReconcileDrift(cs, s, v, b)
                 \/ Discard(cs)
        <5>1. \E row : sets' = [sets EXCEPT ![cs] = row] /\ (cs = x => row.status # "approved")
          <6>1. CASE Discard(cs)
            <7> DEFINE row == [NoSet EXCEPT !.status = "discarded"]
            <7>1. row.status = "discarded"
              BY DEF NoSet
            <7> QED
              BY <6>1, <7>1 DEF Discard
          <6>2. CASE ~Discard(cs)
            <7>1. sets[cs].status = "absent"
              BY <4>1, <6>2 DEF Stage, ReconcileDrift
            <7>2. cs # x
              BY <7>1
            <7>3. \E row : sets' = [sets EXCEPT ![cs] = row]
              BY <4>1, <6>2 DEF Stage, ReconcileDrift
            <7> QED
              BY <7>2, <7>3
          <6> QED
            BY <6>1, <6>2
        <5> QED
          BY <5>1 DEF TypeOK
      <4>2. CASE \E s \in Skus, v \in DraftContent[cs] : EditDraft(cs, s, v)
        BY <4>2 DEF EditDraft, TypeOK, ChangeSetRow
      <4>3. CASE ApproveDraft(cs) \/ RefuseApproved(cs) \/ Recover(cs, "approve") \/ Recover(cs, "export")
        BY <4>3 DEF ApproveDraft, RefuseApproved, Recover, rowVars
      <4> QED
        BY <3>3, <4>1, <4>2, <4>3 DEF Request
    <3>4. CASE Step(cs) /\ ~SetStatus(cs)
      BY <2>2, <3>4, StatusFailsMoves DEF Step, Undo, Gate, SaveSnapshot, WriteProduct, WriteFails,
         CrashInWrite, StageFiles, CommitGroup, HashUnread, CommitFails, RecordPointers, SettleDrifts,
         RecordAudit, MarkManifest, CompletionFails, rowVars, FinalizePlan, Finish, LoadExport
    <3> QED
      BY <3>1, <3>2, <3>3, <3>4
  <2> QED
    BY <2>1, <2>2
<1> QED
  BY <1>1, Safety, TypeCorrect, PTL DEF Spec, ApprovalNeverMoves
-----------------------------------------------------------------------------
(* Exports. *)

(* What is exported belongs to a set that was approved, at its commit, with its reads. *)
ExportInv(cs) ==
  /\ exports[cs] # {} => sets[cs].status \in {"approved", "discarded"}
  /\ 0 \notin exports[cs]
  /\ \A c \in exports[cs] : sets[cs].status = "approved" =>
       /\ c = sets[cs].approved
       /\ \A s \in Skus : manifest[cs].reads[s] # None => TreeAt(c)[s] = manifest[cs].reads[s]

(* A row leaves "absent" and "draft" only forward, and an approved one keeps its commit,
   once it has one, and what it reads until it is discarded. *)
RowMoves(x) ==
  \/ /\ sets'[x].status = sets[x].status
     /\ sets[x].status = "approved" =>
          /\ sets'[x].approved = sets[x].approved \/ sets[x].approved = 0
          /\ manifest'[x].reads = manifest[x].reads
  \/ sets[x].status \in {"absent", "draft"} /\ sets'[x].status \in {"draft", "approved"}
  \/ sets'[x].status = "discarded"

LEMMA RequestMoves ==
  ASSUME TypeOK, NEW cs \in ChangeSets, Request(cs), NEW x \in ChangeSets
  PROVE  RowMoves(x) /\ commits' = commits /\ exports' = exports
<1>1. commits' = commits /\ exports' = exports
  BY DEF Request, Stage, EditDraft, Discard, ReconcileDrift, ApproveDraft, RefuseApproved, Recover,
     rowVars
<1>2. RowMoves(x)
  <2>1. CASE \/ \E v \in DraftContent[cs] : Stage(cs, v)
             \/ \E s \in Skus, v \in DraftContent[cs], b \in Files : ReconcileDrift(cs, s, v, b)
    <3>1. /\ sets[cs].status = "absent" /\ manifest' = manifest
          /\ \E row : row.status = "draft" /\ sets' = [sets EXCEPT ![cs] = row]
      BY <2>1 DEF Stage, ReconcileDrift, StagedSet
    <3> QED
      BY <3>1 DEF TypeOK, RowMoves
  <2>2. CASE \E s \in Skus, v \in DraftContent[cs] : EditDraft(cs, s, v)
    BY <2>2 DEF EditDraft, TypeOK, ChangeSetRow, RowMoves
  <2>3. CASE Discard(cs)
    <3>1. /\ sets' = [sets EXCEPT ![cs] = [NoSet EXCEPT !.status = "discarded"]]
          /\ manifest' = [manifest EXCEPT ![cs] = NoManifest]
      BY <2>3 DEF Discard
    <3>2. [NoSet EXCEPT !.status = "discarded"].status = "discarded"
      BY DEF NoSet
    <3> QED
      BY <3>1, <3>2 DEF TypeOK, RowMoves
  <2>4. CASE ApproveDraft(cs) \/ RefuseApproved(cs) \/ Recover(cs, "approve") \/ Recover(cs, "export")
    BY <2>4 DEF ApproveDraft, RefuseApproved, Recover, rowVars, RowMoves
  <2> QED
    BY <2>1, <2>2, <2>3, <2>4 DEF Request
<1> QED
  BY <1>1, <1>2

LEMMA StepMoves ==
  ASSUME TypeOK, IInv, NEW cs \in ChangeSets, Step(cs), NEW x \in ChangeSets
  PROVE  RowMoves(x)
<1>1. CASE SetStatus(cs)
  <2>1. run.set = cs /\ run.phase = "status" /\ manifest' = manifest
    BY <1>1 DEF SetStatus, At
  <2>2. /\ sets'[cs].status = "approved"
        /\ sets'[cs].approved = (IF run.commit # 0 THEN run.commit ELSE sets[cs].approved)
        /\ x # cs => sets'[x] = sets[x]
    BY <1>1, StatusFields
  <2>3. /\ sets[cs].status \in {"draft", "approved"} /\ OneCommit(cs)
        /\ run.commit # 0 => run.commit \in Named(cs)
        /\ sets[cs].status = "approved" /\ sets[cs].approved # 0 => sets[cs].approved \in Named(cs)
    BY <2>1, RunCommitNamed, RowsNamed DEF IInv, Inv, HandlerInv, Completing
  <2> QED
    BY <2>1, <2>2, <2>3 DEF RowMoves, OneCommit
<1>2. CASE SaveSnapshot(cs)
  <2>1. sets' = sets /\ sets[cs].status = "draft"
    BY <1>2 DEF SaveSnapshot, At, IInv, Inv, HandlerInv, Working
  <2>2. manifest' = manifest \/ \E row : manifest' = [manifest EXCEPT ![cs] = row]
    BY <1>2 DEF SaveSnapshot
  <2> QED
    BY <2>1, <2>2 DEF TypeOK, RowMoves
<1>3. CASE SetStatusFails(cs)
  <2>1. sets' = sets /\ manifest'[x].reads = manifest[x].reads
    BY <1>3, StatusFailsRow
  <2> QED
    BY <2>1 DEF RowMoves
<1>4. CASE MarkManifest(cs)
  <2>1. sets' = sets
    BY <1>4 DEF MarkManifest
  <2>2. ASSUME NEW mark \in {"committed", "recovered"},
               manifest' = [manifest EXCEPT ![cs].commit = run.commit, ![cs].status = mark]
        PROVE  manifest'[x].reads = manifest[x].reads
    BY <2>2 DEF TypeOK, ManifestRow
  <2>3. CASE manifest' = manifest
    BY <2>1, <2>3 DEF RowMoves
  <2>4. CASE manifest' # manifest /\ run.action = "approved"
    BY <1>4, <2>1, <2>2, <2>4 DEF MarkManifest, RowMoves
  <2>5. CASE manifest' # manifest /\ run.action # "approved"
    BY <1>4, <2>1, <2>2, <2>5 DEF MarkManifest, RowMoves
  <2> QED
    BY <2>3, <2>4, <2>5
<1>5. CASE Finish(cs)
  <2>1. sets' = sets
    BY <1>5 DEF Finish
  <2>2. CASE manifest' = manifest
    BY <2>1, <2>2 DEF RowMoves
  <2>3. CASE manifest' = [manifest EXCEPT ![cs].status = "pending", ![cs].commit = 0]
    BY <2>1, <2>3 DEF TypeOK, ManifestRow, RowMoves
  <2> QED
    BY <1>5, <2>2, <2>3 DEF Finish
<1>6. CASE ~(SetStatus(cs) \/ SaveSnapshot(cs) \/ SetStatusFails(cs) \/ MarkManifest(cs) \/ Finish(cs))
  <2>1. UNCHANGED <<sets, manifest>>
    BY <1>6 DEF Step, Undo, Gate, WriteProduct, WriteFails, CrashInWrite, StageFiles, CommitGroup,
       HashUnread, CommitFails, RecordPointers, SettleDrifts, RecordAudit, CompletionFails, rowVars,
       FinalizePlan, LoadExport
  <2> QED
    BY <2>1 DEF RowMoves
<1> QED
  BY <1>1, <1>2, <1>3, <1>4, <1>5, <1>6

LEMMA NextMoves ==
  ASSUME TypeOK, IInv, [Next]_vars, NEW x \in ChangeSets
  PROVE  RowMoves(x)
<1>1. CASE \E cs \in ChangeSets : Request(cs) \/ Step(cs)
  BY <1>1, RequestMoves, StepMoves
<1>2. CASE Crash \/ UNCHANGED vars
          \/ \E s \in Skus : DetectDrift(s) \/ AcceptRemote(s) \/ KeepLocal(s) \/ ReopenDrift(s)
  <2>1. UNCHANGED <<sets, manifest>>
    BY <1>2 DEF Crash, rowVars, vars, DetectDrift, AcceptRemote, KeepLocal, ReopenDrift
  <2> QED
    BY <2>1 DEF RowMoves
<1> QED
  BY <1>1, <1>2 DEF Next

(* Commits are only added, one at a time. *)
LEMMA LogGrows ==
  ASSUME TypeOK, [Next]_vars
  PROVE  commits' = commits \/ \E c \in Commit : commits' = Append(commits, c)
<1>1. ASSUME NEW cs \in ChangeSets, CommitGroup(cs) \/ HashUnread(cs)
      PROVE  commits' = commits \/ \E c \in Commit : commits' = Append(commits, c)
  <2> DEFINE tree == [r \in Skus |-> IF r \in run.done THEN worktree[r] ELSE HeadTree[r]]
             c == [subject |-> <<Title[cs], Cardinality(run.done)>>, tree |-> tree]
  <2>1. commits' = commits \/ commits' = Append(commits, c)
    BY <1>1 DEF CommitGroup, HashUnread, CommittedLog
  <2>2. tree \in FileMap
    BY TreeAtType DEF TypeOK, HeadTree, FileMap
  <2>3. Cardinality(run.done) \in Nat
    BY ConstantsAssumption, FS_Subset, FS_CardinalityType DEF TypeOK, Run
  <2>4. c \in Commit
    BY <2>2, <2>3, ConstantsAssumption DEF Commit, Subjects
  <2> HIDE DEF c
  <2> QED
    BY <2>1, <2>4
<1>2. ASSUME NEW s \in Skus, AcceptRemote(s)
      PROVE  commits' = commits \/ \E c \in Commit : commits' = Append(commits, c)
  <2> DEFINE c == [subject |-> OtherSubject, tree |-> staged']
  <2>1. commits' = commits \/ commits' = Append(commits, c)
    BY <1>2 DEF AcceptRemote
  <2>2. staged' \in FileMap
    BY <1>2, ConstantsAssumption DEF AcceptRemote, TypeOK, FileMap, Files
  <2>3. c \in Commit
    BY <2>2 DEF OtherSubject, Commit, Subjects
  <2> HIDE DEF c
  <2> QED
    BY <2>1, <2>3
<1>3. ASSUME NEW cs \in ChangeSets, Request(cs) \/ Step(cs), ~(CommitGroup(cs) \/ HashUnread(cs))
      PROVE  commits' = commits
  <2>1. CASE Request(cs)
    BY <2>1 DEF Request, Stage, EditDraft, Discard, ReconcileDrift, ApproveDraft, RefuseApproved,
       Recover, rowVars
  <2>2. CASE Step(cs)
    BY <1>3, <2>2, StatusFailsMoves DEF Step, Undo, Gate, SaveSnapshot, WriteProduct, WriteFails,
       CrashInWrite, StageFiles, CommitFails, SetStatus, RecordPointers, SettleDrifts, RecordAudit,
       MarkManifest, CompletionFails, rowVars, FinalizePlan, Finish, LoadExport
  <2> QED
    BY <1>3, <2>1, <2>2
<1>4. CASE Crash \/ UNCHANGED vars \/ \E s \in Skus : DetectDrift(s) \/ KeepLocal(s) \/ ReopenDrift(s)
  BY <1>4 DEF Crash, rowVars, vars, DetectDrift, KeepLocal, ReopenDrift
<1> QED
  BY <1>1, <1>2, <1>3, <1>4 DEF Next

LEMMA TreeStays ==
  ASSUME TypeOK, [Next]_vars, NEW c \in 1..HEAD
  PROVE  c \in 1..HEAD' /\ TreeAt(c)' = TreeAt(c) /\ commits'[c] = commits[c]
<1>1. /\ c \in 1..Len(commits) /\ commits \in Seq(Commit) /\ Len(commits) \in Nat
  BY DEF HEAD, TypeOK
<1>2. c \in 1..Len(commits') /\ commits'[c] = commits[c]
  <2> HIDE DEF Commit
  <2>1. CASE commits' = commits
    BY <1>1, <2>1
  <2>2. ASSUME NEW d \in Commit, commits' = Append(commits, d)
        PROVE  c \in 1..Len(commits') /\ commits'[c] = commits[c]
    BY <1>1, <2>2
  <2> QED
    BY <2>1, <2>2, LogGrows
<1> QED
  BY <1>1, <1>2 DEF TreeAt, HEAD

(* What leaves for ShopSite is the approved commit, with the members the group reads as
   they were checked: for any sets, drift, edits, crashes and retries. *)
THEOREM ExportsAreReviewed == ASSUME DistinctTitles PROVE Spec => []ExportIsReviewed
<1> DEFINE EInv == \A x \in ChangeSets : ExportInv(x)
<1>1. Init => EInv
  BY DEF Init, ExportInv
<1>2. TypeOK /\ IInv /\ EInv /\ [Next]_vars => EInv'
  <2> SUFFICES ASSUME TypeOK, IInv, [Next]_vars, NEW x \in ChangeSets, ExportInv(x)
               PROVE  ExportInv(x)'
    OBVIOUS
  <2>1. RowMoves(x)
    BY NextMoves
  <2>2. sets[x].status = "approved" /\ sets[x].approved # 0 => sets[x].approved \in 1..HEAD
    BY BoundGroupIsWhole DEF Whole
  <2>3. CASE exports'[x] = exports[x]
    BY <2>1, <2>2, <2>3, TreeStays DEF ExportInv, RowMoves
  <2>4. ASSUME NEW cs \in ChangeSets, LoadExport(cs), exports'[x] # exports[x]
        PROVE  ExportInv(x)'
    <3>1. /\ UNCHANGED <<sets, manifest, commits>> /\ run.set = cs /\ run.phase = "load"
          /\ ExportReady(cs) /\ exports' = [exports EXCEPT ![cs] = @ \union {sets[cs].approved}]
      BY <2>4 DEF LoadExport, At
    <3>2. x = cs /\ exports'[x] = exports[x] \union {sets[x].approved} /\ sets[x].status = "approved"
      BY <2>4, <3>1 DEF TypeOK, IInv, Inv, HandlerInv
    <3>3. /\ sets[x].approved # 0
          /\ \A s \in Skus : manifest[x].reads[s] # None =>
               TreeAt(sets[x].approved)[s] = manifest[x].reads[s]
      BY <3>1, <3>2 DEF ExportReady
    <3>4. \A c \in exports'[x] : c = sets[x].approved
      BY <3>2 DEF ExportInv
    <3>5. TreeAt(sets[x].approved)' = TreeAt(sets[x].approved) 
      BY <2>2, <3>1, <3>2, <3>3, TreeStays
    <3> QED
      BY <3>1, <3>2, <3>3, <3>4, <3>5 DEF ExportInv
  <2>5. exports'[x] = exports[x] \/ \E cs \in ChangeSets : LoadExport(cs)
    <3>1. CASE Crash \/ UNCHANGED vars
               \/ \E s \in Skus : DetectDrift(s) \/ AcceptRemote(s) \/ KeepLocal(s) \/ ReopenDrift(s)
      BY <3>1 DEF Crash, rowVars, vars, DetectDrift, AcceptRemote, KeepLocal, ReopenDrift
    <3>2. ASSUME NEW cs \in ChangeSets, Request(cs)
          PROVE  exports'[x] = exports[x]
      BY <3>2, RequestMoves
    <3>3. ASSUME NEW cs \in ChangeSets, Step(cs), ~LoadExport(cs)
          PROVE  exports'[x] = exports[x]
      BY <3>3, StatusFailsMoves DEF Step, Undo, Gate, SaveSnapshot, WriteProduct, WriteFails,
         CrashInWrite, StageFiles, CommitGroup, HashUnread, CommitFails, SetStatus, RecordPointers,
         SettleDrifts, RecordAudit, MarkManifest, CompletionFails, rowVars, FinalizePlan, Finish
    <3> QED
      BY <3>1, <3>2, <3>3 DEF Next
  <2> QED
    BY <2>3, <2>4, <2>5
<1>3. EInv => ExportIsReviewed
  BY DEF ExportInv, ExportIsReviewed
<1> QED
  BY <1>1, <1>2, <1>3, Safety, TypeCorrect, PTL DEF Spec
=============================================================================
