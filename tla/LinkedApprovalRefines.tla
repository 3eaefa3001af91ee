------------------------- MODULE LinkedApprovalRefines -------------------------
(***************************************************************************)
(* LinkedApproval implements ReviewedCatalogue: every step of a handler, a *)
(* request or a crash is one step of the abstract catalogue, or none.      *)
(***************************************************************************)
EXTENDS LinkedApprovalSafety, SequenceTheorems

LogMap == [c \in 1..HEAD |-> commits[c].tree]
StatusMap == [cs \in ChangeSets |-> sets[cs].status]
BoundMap == [cs \in ChangeSets |-> IF sets[cs].status = "approved" THEN sets[cs].approved ELSE 0]
GroupMap == [cs \in ChangeSets |->
               IF sets[cs].status = "approved" THEN manifest[cs].writes ELSE NoFiles]

(* What the abstract catalogue sees of one change set. *)
SeenSame(cs) ==
  /\ sets'[cs].status = sets[cs].status
  /\ sets[cs].status = "approved" =>
       sets'[cs].approved = sets[cs].approved /\ manifest'[cs].writes = manifest[cs].writes

LEMMA SameView ==
  ASSUME NEW x, \A cs \in ChangeSets : cs # x => SeenSame(cs)
  PROVE  \A cs \in ChangeSets : cs # x =>
           StatusMap'[cs] = StatusMap[cs] /\ BoundMap'[cs] = BoundMap[cs] /\ GroupMap'[cs] = GroupMap[cs]
BY DEF SeenSame, StatusMap, BoundMap, GroupMap

(* A map that changes at one change set only. *)
LEMMA ButOne ==
  ASSUME NEW f, NEW g, NEW cs \in ChangeSets,
         f = [x \in ChangeSets |-> f[x]], g = [x \in ChangeSets |-> g[x]],
         \A x \in ChangeSets : x # cs => g[x] = f[x]
  PROVE  g = [f EXCEPT ![cs] = g[cs]]
OBVIOUS

LEMMA ButOneSet ==
  ASSUME NEW cs \in ChangeSets, \A x \in ChangeSets : x # cs => SeenSame(x)
  PROVE  /\ StatusMap' = [StatusMap EXCEPT ![cs] = StatusMap'[cs]]
         /\ BoundMap' = [BoundMap EXCEPT ![cs] = BoundMap'[cs]]
         /\ GroupMap' = [GroupMap EXCEPT ![cs] = GroupMap'[cs]]
<1>1. \A x \in ChangeSets : x # cs =>
        StatusMap'[x] = StatusMap[x] /\ BoundMap'[x] = BoundMap[x] /\ GroupMap'[x] = GroupMap[x]
  BY SameView
<1>2. /\ StatusMap = [x \in ChangeSets |-> StatusMap[x]] /\ StatusMap' = [x \in ChangeSets |-> StatusMap'[x]]
      /\ BoundMap = [x \in ChangeSets |-> BoundMap[x]] /\ BoundMap' = [x \in ChangeSets |-> BoundMap'[x]]
      /\ GroupMap = [x \in ChangeSets |-> GroupMap[x]] /\ GroupMap' = [x \in ChangeSets |-> GroupMap'[x]]
  BY DEF StatusMap, BoundMap, GroupMap
<1> HIDE DEF StatusMap, BoundMap, GroupMap
<1>3. StatusMap' = [StatusMap EXCEPT ![cs] = StatusMap'[cs]]
  BY <1>1, <1>2, ButOne
<1>4. BoundMap' = [BoundMap EXCEPT ![cs] = BoundMap'[cs]]
  BY <1>1, <1>2, ButOne
<1>5. GroupMap' = [GroupMap EXCEPT ![cs] = GroupMap'[cs]]
  BY <1>1, <1>2, ButOne
<1> QED
  BY <1>3, <1>4, <1>5

LEMMA SameMaps ==
  ASSUME \A cs \in ChangeSets : SeenSame(cs)
  PROVE  StatusMap' = StatusMap /\ BoundMap' = BoundMap /\ GroupMap' = GroupMap
BY DEF SeenSame, StatusMap, BoundMap, GroupMap

LEMMA LogSame ==
  ASSUME commits' = commits
  PROVE  LogMap' = LogMap
BY DEF LogMap, HEAD

(* The catalogue after each commit of a log. *)
Trees(l) == [c \in 1..Len(l) |-> l[c].tree]

LEMMA LogIsTrees == LogMap = Trees(commits) /\ LogMap' = Trees(commits')
BY DEF LogMap, Trees, HEAD

LEMMA TreesType ==
  ASSUME NEW l \in Seq(Commit)
  PROVE  /\ Trees(l) \in Seq(FileMap) /\ Len(Trees(l)) = Len(l)
         /\ \A c \in 1..Len(l) : Trees(l)[c] = l[c].tree
<1>1. \A c \in 1..Len(l) : l[c] \in Commit
  OBVIOUS
<1>2. Trees(l) \in [1..Len(l) -> FileMap]
  BY <1>1 DEF Trees, Commit
<1>3. Len(l) \in Nat
  OBVIOUS
<1>4. Trees(l) \in Seq(FileMap)
  BY <1>2, <1>3
<1>5. Len(Trees(l)) = Len(l)
  BY <1>2, <1>3, <1>4, LenProperties
<1> QED
  BY <1>4, <1>5 DEF Trees

LEMMA TreesAppend ==
  ASSUME NEW l \in Seq(Commit), NEW c \in Commit
  PROVE  Trees(Append(l, c)) = Append(Trees(l), c.tree) /\ c.tree \in FileMap
<1> DEFINE longer == Append(l, c)
           appended == Append(Trees(l), c.tree)
<1>1. c.tree \in FileMap
  BY DEF Commit
<1>2. /\ longer \in Seq(Commit) /\ Len(longer) = Len(l) + 1 /\ longer[Len(l) + 1] = c
      /\ \A i \in 1..Len(l) : longer[i] = l[i]
  BY AppendProperties
<1>3. /\ Trees(l) \in Seq(FileMap) /\ Len(Trees(l)) = Len(l)
      /\ \A i \in 1..Len(l) : Trees(l)[i] = l[i].tree
  BY TreesType
<1>4. /\ appended \in Seq(FileMap) /\ Len(appended) = Len(Trees(l)) + 1
      /\ appended[Len(Trees(l)) + 1] = c.tree
      /\ \A i \in 1..Len(Trees(l)) : appended[i] = Trees(l)[i]
  BY <1>1, <1>3, AppendProperties
<1> HIDE DEF longer, appended
<1>5. /\ Trees(longer) \in Seq(FileMap) /\ Len(Trees(longer)) = Len(longer)
      /\ \A i \in 1..Len(longer) : Trees(longer)[i] = longer[i].tree
  BY <1>2, TreesType
<1>6. ASSUME NEW i \in 1..Len(longer) PROVE Trees(longer)[i] = appended[i]
  <2>1. Len(l) \in Nat /\ Trees(longer)[i] = longer[i].tree
    BY <1>5, LenProperties
  <2>2. CASE i = Len(l) + 1
    BY <1>2, <1>3, <1>4, <2>1, <2>2
  <2>3. CASE i \in 1..Len(l)
    BY <1>2, <1>3, <1>4, <2>1, <2>3
  <2> QED
    BY <1>2, <2>1, <2>2, <2>3
<1>7. Trees(longer) = appended
  BY <1>2, <1>3, <1>4, <1>5, <1>6, SeqEqual
<1> QED
  BY <1>1, <1>7 DEF longer, appended

LEMMA LogAppends ==
  ASSUME TypeOK, NEW c \in Commit, commits' = Append(commits, c)
  PROVE  LogMap' = Append(LogMap, c.tree) /\ c.tree \in FileMap
<1>1. commits \in Seq(Commit)
  BY DEF TypeOK
<1> QED
  BY <1>1, LogIsTrees, TreesAppend
-----------------------------------------------------------------------------
(* One abstract step, or none, for what a step changes. *)

LEMMA Quiet ==
  ASSUME commits' = commits, exports' = exports, \A cs \in ChangeSets : SeenSame(cs)
  PROVE  UNCHANGED Reviewed!vars
BY SameMaps, LogSame DEF Reviewed!vars, LogMap, StatusMap, BoundMap, GroupMap

LEMMA Committed ==
  ASSUME TypeOK, NEW c \in Commit, commits' = Append(commits, c),
         exports' = exports, \A cs \in ChangeSets : SeenSame(cs)
  PROVE  Reviewed!Commit
<1>1. LogMap' = Append(LogMap, c.tree) /\ c.tree \in Reviewed!FileMap
  BY LogAppends DEF FileMap, Reviewed!FileMap
<1> HIDE DEF Commit
<1> QED
  BY <1>1, SameMaps DEF Reviewed!Commit, LogMap, StatusMap, BoundMap, GroupMap

LEMMA Drafted ==
  ASSUME NEW cs \in ChangeSets, commits' = commits, exports' = exports,
         sets[cs].status = "absent", sets'[cs].status = "draft",
         \A x \in ChangeSets : x # cs => SeenSame(x)
  PROVE  Reviewed!Draft(cs)
<1>1. StatusMap[cs] = "absent" /\ StatusMap'[cs] = "draft"
  BY DEF StatusMap
<1>2. StatusMap' = [StatusMap EXCEPT ![cs] = "draft"]
  BY <1>1, ButOneSet
<1>3. BoundMap'[cs] = BoundMap[cs] /\ GroupMap'[cs] = GroupMap[cs]
  BY DEF BoundMap, GroupMap
<1>4. BoundMap' = BoundMap /\ GroupMap' = GroupMap
  BY <1>3, SameView DEF BoundMap, GroupMap
<1> QED
  BY <1>1, <1>2, <1>4, LogSame DEF Reviewed!Draft, LogMap, StatusMap, BoundMap, GroupMap

LEMMA Discarded ==
  ASSUME NEW cs \in ChangeSets, commits' = commits, exports' = exports,
         sets[cs].status \in {"draft", "approved"}, sets'[cs].status = "discarded",
         \A x \in ChangeSets : x # cs => SeenSame(x)
  PROVE  Reviewed!Discard(cs)
<1>1. StatusMap[cs] \in {"draft", "approved"} /\ StatusMap'[cs] = "discarded"
  BY DEF StatusMap
<1>2. BoundMap'[cs] = 0 /\ GroupMap'[cs] = NoFiles
  BY DEF BoundMap, GroupMap
<1>3. /\ StatusMap' = [StatusMap EXCEPT ![cs] = "discarded"]
      /\ BoundMap' = [BoundMap EXCEPT ![cs] = 0]
      /\ GroupMap' = [GroupMap EXCEPT ![cs] = NoFiles]
  BY <1>1, <1>2, ButOneSet
<1>4. NoFiles = Reviewed!NoFiles
  BY DEF NoFiles, Reviewed!NoFiles
<1> QED
  BY <1>1, <1>2, <1>3, <1>4, LogSame DEF Reviewed!Discard, LogMap, StatusMap, BoundMap, GroupMap

LEMMA HoldsWhole ==
  ASSUME TypeOK, NEW cs \in ChangeSets, NEW c, Whole(cs, c)
  PROVE  c \in 1..Len(LogMap) /\ Reviewed!Holds(c, manifest[cs].writes)
<1> DEFINE files == manifest[cs].writes
<1>1. Len(LogMap) = HEAD /\ \A i \in 1..HEAD : LogMap[i] = commits[i].tree
  BY LogIsTrees, TreesType DEF TypeOK, HEAD
<1>2. c \in 1..Len(LogMap) /\ \A s \in Skus : files[s] # None => LogMap[c][s] = files[s]
  BY <1>1 DEF Whole, Owned, TreeAt
<1> HIDE DEF files
<1>3. Reviewed!Holds(c, files)
  BY <1>2 DEF Reviewed!Holds, LogMap
<1> QED
  BY <1>2, <1>3 DEF files

LEMMA Approved ==
  ASSUME TypeOK, NEW cs \in ChangeSets, commits' = commits, exports' = exports, manifest' = manifest,
         sets[cs].status = "draft", sets'[cs].status = "approved",
         sets'[cs].approved # 0 => Whole(cs, sets'[cs].approved),
         \A x \in ChangeSets : x # cs => SeenSame(x)
  PROVE  Reviewed!Approve(cs)
<1> DEFINE c == sets'[cs].approved
           files == manifest[cs].writes
<1>1. StatusMap[cs] = "draft" /\ StatusMap'[cs] = "approved"
  BY DEF StatusMap
<1>2. BoundMap'[cs] = c /\ GroupMap'[cs] = files
  BY DEF BoundMap, GroupMap
<1>3. /\ StatusMap' = [StatusMap EXCEPT ![cs] = "approved"]
      /\ BoundMap' = [BoundMap EXCEPT ![cs] = c]
      /\ GroupMap' = [GroupMap EXCEPT ![cs] = files]
  BY <1>1, <1>2, ButOneSet
<1>4. c \in 0..Len(LogMap) /\ (c # 0 => Reviewed!Holds(c, files))
  <2>1. CASE c # 0
    BY <2>1, HoldsWhole
  <2>2. CASE c = 0
    <3>1. Len(LogMap) \in Nat
      BY LogIsTrees, TreesType DEF TypeOK
    <3> QED
      BY <2>2, <3>1
  <2> QED
    BY <2>1, <2>2
<1>5. files \in Reviewed!FileMap
  BY DEF TypeOK, ManifestRow, FileMap, Reviewed!FileMap
<1> HIDE DEF c, files
<1>6. StatusMap[cs] = "draft" /\ exports' = exports /\ LogMap' = LogMap
  BY <1>1, LogSame
<1>7. \E at \in 0..Len(LogMap), held \in Reviewed!FileMap :
        /\ at # 0 => Reviewed!Holds(at, held)
        /\ BoundMap' = [BoundMap EXCEPT ![cs] = at]
        /\ GroupMap' = [GroupMap EXCEPT ![cs] = held]
  BY <1>3, <1>4, <1>5
<1> QED
  BY <1>3, <1>6, <1>7 DEF Reviewed!Approve, LogMap, StatusMap, BoundMap, GroupMap

LEMMA BoundLater ==
  ASSUME TypeOK, NEW cs \in ChangeSets, UNCHANGED <<commits, exports, manifest>>,
         sets[cs].status = "approved", sets[cs].approved = 0,
         sets'[cs].status = "approved", Whole(cs, sets'[cs].approved),
         \A x \in ChangeSets : x # cs => SeenSame(x)
  PROVE  Reviewed!Bind(cs)
<1> DEFINE c == sets'[cs].approved
<1>1. StatusMap[cs] = "approved" /\ BoundMap[cs] = 0 /\ GroupMap[cs] = manifest[cs].writes
  BY DEF StatusMap, BoundMap, GroupMap
<1>2. /\ StatusMap'[cs] = StatusMap[cs] /\ BoundMap'[cs] = c /\ GroupMap'[cs] = GroupMap[cs]
  BY DEF StatusMap, BoundMap, GroupMap
<1>3. StatusMap' = StatusMap /\ GroupMap' = GroupMap
  BY <1>2, SameView DEF StatusMap, GroupMap
<1>4. BoundMap' = [BoundMap EXCEPT ![cs] = c]
  BY <1>2, ButOneSet
<1>5. c \in 1..Len(LogMap) /\ Reviewed!Holds(c, GroupMap[cs])
  BY <1>1, HoldsWhole
<1> HIDE DEF c
<1>6. \E at \in 1..Len(LogMap) :
        Reviewed!Holds(at, GroupMap[cs]) /\ BoundMap' = [BoundMap EXCEPT ![cs] = at]
  BY <1>4, <1>5
<1>7. LogMap' = LogMap
  BY LogSame
<1> QED
  BY <1>1, <1>3, <1>6, <1>7 DEF Reviewed!Bind, LogMap, StatusMap, BoundMap, GroupMap

LEMMA Published ==
  ASSUME NEW cs \in ChangeSets, UNCHANGED <<commits, sets, manifest>>,
         sets[cs].status = "approved", sets[cs].approved # 0,
         exports' = [exports EXCEPT ![cs] = @ \union {sets[cs].approved}]
  PROVE  Reviewed!Publish(cs)
<1>1. StatusMap[cs] = "approved" /\ BoundMap[cs] = sets[cs].approved /\ BoundMap[cs] # 0
  BY DEF StatusMap, BoundMap
<1>2. UNCHANGED <<LogMap, StatusMap, BoundMap, GroupMap>>
  BY LogSame, SameMaps DEF SeenSame
<1> QED
  BY <1>1, <1>2 DEF Reviewed!Publish, LogMap, StatusMap, BoundMap, GroupMap
-----------------------------------------------------------------------------
(* Every step of the approval is one of these. *)

LEMMA InitRefines == Init => Reviewed!Init
<1> SUFFICES ASSUME Init PROVE Reviewed!Init
  OBVIOUS
<1>1. Catalogue \in Reviewed!FileMap
  BY ConstantsAssumption DEF Reviewed!FileMap
<1>2. HEAD = 1 /\ commits[1].tree = Catalogue
  BY DEF Init, HEAD
<1>3. LogMap = <<Catalogue>>
  BY <1>2 DEF LogMap
<1>4. /\ StatusMap = [cs \in ChangeSets |-> "absent"]
      /\ BoundMap = [cs \in ChangeSets |-> 0]
      /\ GroupMap = [cs \in ChangeSets |-> NoFiles]
      /\ exports = [cs \in ChangeSets |-> {}]
  BY DEF Init, NoSet, StatusMap, BoundMap, GroupMap
<1> QED
  BY <1>1, <1>3, <1>4
  DEF Reviewed!Init, Reviewed!NoFiles, NoFiles, LogMap, StatusMap, BoundMap, GroupMap

LEMMA RequestRefines ==
  ASSUME TypeOK, NEW cs \in ChangeSets, Request(cs)
  PROVE  Reviewed!Next \/ UNCHANGED Reviewed!vars
<1>1. commits' = commits /\ exports' = exports
  BY DEF Request, Stage, EditDraft, Discard, ReconcileDrift, ApproveDraft, RefuseApproved, Recover,
     rowVars
<1>2. CASE \/ \E v \in DraftContent[cs] : Stage(cs, v)
           \/ \E s \in Skus, v \in DraftContent[cs], b \in Files : ReconcileDrift(cs, s, v, b)
  <2>1. /\ sets[cs].status = "absent" /\ manifest' = manifest
        /\ \E row : row.status = "draft" /\ sets' = [sets EXCEPT ![cs] = row]
    BY <1>2 DEF Stage, ReconcileDrift, StagedSet
  <2>2. sets'[cs].status = "draft" /\ \A x \in ChangeSets : x # cs => SeenSame(x)
    BY <2>1 DEF TypeOK, SeenSame
  <2> QED
    BY <1>1, <2>1, <2>2, Drafted DEF Reviewed!Next
<1>3. CASE \E s \in Skus, v \in DraftContent[cs] : EditDraft(cs, s, v)
  <2>1. \A x \in ChangeSets : SeenSame(x)
    BY <1>3 DEF EditDraft, TypeOK, ChangeSetRow, SeenSame
  <2> QED
    BY <1>1, <2>1, Quiet
<1>4. CASE Discard(cs)
  <2>1. /\ sets[cs].status \in {"draft", "approved"} /\ sets'[cs].status = "discarded"
        /\ \A x \in ChangeSets : x # cs => SeenSame(x)
    <3>1. /\ sets' = [sets EXCEPT ![cs] = [NoSet EXCEPT !.status = "discarded"]]
          /\ manifest' = [manifest EXCEPT ![cs] = NoManifest]
          /\ sets[cs].status \in {"draft", "approved"}
      BY <1>4 DEF Discard
    <3>2. [NoSet EXCEPT !.status = "discarded"].status = "discarded"
      BY DEF NoSet
    <3> QED
      BY <3>1, <3>2 DEF TypeOK, SeenSame
  <2> QED
    BY <1>1, <2>1, Discarded DEF Reviewed!Next
<1>5. CASE ApproveDraft(cs) \/ RefuseApproved(cs) \/ Recover(cs, "approve") \/ Recover(cs, "export")
  <2>1. \A x \in ChangeSets : SeenSame(x)
    BY <1>5 DEF ApproveDraft, RefuseApproved, Recover, rowVars, SeenSame
  <2> QED
    BY <1>1, <2>1, Quiet
<1> QED
  BY <1>2, <1>3, <1>4, <1>5 DEF Request

LEMMA CommitRefines ==
  ASSUME TypeOK, NEW cs \in ChangeSets, CommitGroup(cs) \/ HashUnread(cs) \/ CommitFails(cs)
  PROVE  Reviewed!Next \/ UNCHANGED Reviewed!vars
<1>1. /\ run.set = cs /\ UNCHANGED <<sets, manifest, exports>>
      /\ commits' = commits \/ commits' = CommittedLog(cs)
  BY DEF CommitGroup, HashUnread, CommitFails, At
<1>2. \A x \in ChangeSets : SeenSame(x)
  BY <1>1 DEF SeenSame
<1> DEFINE tree == [r \in Skus |-> IF r \in run.done THEN worktree[r] ELSE HeadTree[r]]
           c == [subject |-> <<Title[cs], Cardinality(run.done)>>, tree |-> tree]
<1>3. CASE commits' = commits
  BY <1>1, <1>2, <1>3, Quiet
<1>4. CASE commits' = Append(commits, c)
  <2>1. tree \in FileMap
    BY TreeAtType DEF TypeOK, HeadTree, FileMap
  <2>2. Cardinality(run.done) \in Nat
    BY ConstantsAssumption, FS_Subset, FS_CardinalityType DEF TypeOK, Run
  <2>3. c \in Commit
    BY <2>1, <2>2, ConstantsAssumption DEF Commit, Subjects
  <2> HIDE DEF c
  <2> QED
    BY <1>1, <1>2, <1>4, <2>3, Committed DEF Reviewed!Next
<1> QED
  BY <1>1, <1>3, <1>4 DEF CommittedLog

(* The first completion approves the set, at no commit when Git did not report it;
   a later one binds it, or sets what is already set. *)
LEMMA StatusRefines ==
  ASSUME TypeOK, TypeOK', IInv, Unbound, NEW cs \in ChangeSets, SetStatus(cs)
  PROVE  Reviewed!Next \/ UNCHANGED Reviewed!vars
<1>1. run.set = cs /\ run.phase = "status" /\ UNCHANGED <<manifest, commits, exports>>
  BY DEF SetStatus, At
<1>2. /\ \A x \in ChangeSets : x # cs => SeenSame(x)
      /\ sets'[cs].status = "approved"
      /\ sets'[cs].approved = (IF run.commit # 0 THEN run.commit ELSE sets[cs].approved)
  BY <1>1, StatusFields DEF SeenSame
<1>3. /\ sets[cs].status \in {"draft", "approved"} /\ OneCommit(cs)
      /\ run.commit # 0 => run.commit \in Named(cs) /\ Whole(cs, run.commit)
  BY <1>1, RunCommitNamed DEF IInv, Inv, HandlerInv, Completing, OneCommit
<1>4. CASE sets[cs].status = "draft"
  <2>1. sets[cs].approved = 0
    BY <1>4 DEF Unbound
  <2> QED
    BY <1>1, <1>2, <1>3, <1>4, <2>1, Approved DEF Reviewed!Next
<1>5. CASE sets[cs].status = "approved" /\ (run.commit = 0 \/ sets[cs].approved # 0)
  <2>1. sets'[cs].approved = sets[cs].approved
    BY <1>2, <1>3, <1>5, RowsNamed DEF OneCommit
  <2>2. \A x \in ChangeSets : SeenSame(x)
    BY <1>1, <1>2, <1>5, <2>1 DEF SeenSame
  <2> QED
    BY <1>1, <2>2, Quiet
<1>6. CASE sets[cs].status = "approved" /\ run.commit # 0 /\ sets[cs].approved = 0
  BY <1>1, <1>2, <1>3, <1>6, BoundLater DEF Reviewed!Next
<1> QED
  BY <1>3, <1>4, <1>5, <1>6

(* A manifest is replaced while its set is a draft; after that only its mark changes. *)
LEMMA RowsRefine ==
  ASSUME TypeOK, IInv, NEW cs \in ChangeSets,
         SaveSnapshot(cs) \/ SetStatusFails(cs) \/ MarkManifest(cs) \/ Finish(cs)
  PROVE  UNCHANGED Reviewed!vars
<1>1. UNCHANGED <<sets, commits, exports>>
  BY StatusFailsMoves DEF SaveSnapshot, MarkManifest, Finish
<1>2. ASSUME NEW x \in ChangeSets, sets[x].status = "approved"
      PROVE  manifest'[x].writes = manifest[x].writes
  <2>1. CASE SaveSnapshot(cs)
    <3>1. sets[cs].status = "draft"
      BY <2>1 DEF SaveSnapshot, At, IInv, Inv, HandlerInv, Working
    <3>2. manifest' = manifest \/ \E row : manifest' = [manifest EXCEPT ![cs] = row]
      BY <2>1 DEF SaveSnapshot
    <3> QED
      BY <1>2, <3>1, <3>2 DEF TypeOK
  <2>2. CASE SetStatusFails(cs)
    BY <2>2, StatusFailsRow
  <2>3. CASE MarkManifest(cs)
    <3>1. ASSUME NEW mark \in {"committed", "recovered"},
                 manifest' = [manifest EXCEPT ![cs].commit = run.commit, ![cs].status = mark]
          PROVE  manifest'[x].writes = manifest[x].writes
      BY <3>1 DEF TypeOK, ManifestRow
    <3>2. CASE manifest' = manifest
      BY <3>2
    <3>3. CASE manifest' # manifest /\ run.action = "approved"
      BY <2>3, <3>1, <3>3 DEF MarkManifest
    <3>4. CASE manifest' # manifest /\ run.action # "approved"
      BY <2>3, <3>1, <3>4 DEF MarkManifest
    <3> QED
      BY <3>2, <3>3, <3>4
  <2>4. CASE Finish(cs)
    <3>1. CASE manifest' = manifest
      BY <3>1
    <3>2. CASE manifest' = [manifest EXCEPT ![cs].status = "pending", ![cs].commit = 0]
      BY <3>2 DEF TypeOK, ManifestRow
    <3> QED
      BY <2>4, <3>1, <3>2 DEF Finish
  <2> QED
    BY <2>1, <2>2, <2>3, <2>4
<1>3. \A x \in ChangeSets : SeenSame(x)
  BY <1>1, <1>2 DEF SeenSame
<1> QED
  BY <1>1, <1>3, Quiet

LEMMA StepRefines ==
  ASSUME TypeOK, TypeOK', IInv, Unbound, NEW cs \in ChangeSets, Step(cs)
  PROVE  Reviewed!Next \/ UNCHANGED Reviewed!vars
<1>1. CASE LoadExport(cs)
  <2>1. UNCHANGED <<commits, sets, manifest>> /\ sets[cs].status = "approved"
    BY <1>1 DEF LoadExport, At, IInv, Inv, HandlerInv
  <2>2. CASE ExportReady(cs)
    BY <1>1, <2>1, <2>2, Published DEF LoadExport, ExportReady, Reviewed!Next
  <2>3. CASE ~ExportReady(cs)
    BY <1>1, <2>1, <2>3, Quiet DEF LoadExport, SeenSame
  <2> QED
    BY <2>2, <2>3
<1>2. CASE CommitGroup(cs) \/ HashUnread(cs) \/ CommitFails(cs)
  BY <1>2, CommitRefines
<1>3. CASE SetStatus(cs)
  BY <1>3, StatusRefines
<1>4. CASE SaveSnapshot(cs) \/ SetStatusFails(cs) \/ MarkManifest(cs) \/ Finish(cs)
  BY <1>4, RowsRefine
<1>5. CASE \/ \E k \in 0..3 : Undo(cs, k)
           \/ Gate(cs) \/ StageFiles(cs)
           \/ \E s \in Skus : WriteProduct(cs, s) \/ \E k \in 0..2 : WriteFails(cs, s, k) \/ CrashInWrite(cs, s, k)
           \/ \E bad \in SUBSET Skus : RecordPointers(cs, bad)
           \/ SettleDrifts(cs) \/ RecordAudit(cs) \/ CompletionFails(cs) \/ FinalizePlan(cs)
  <2>1. UNCHANGED <<commits, sets, manifest, exports>>
    BY <1>5 DEF Undo, Gate, StageFiles, WriteProduct, WriteFails, CrashInWrite, RecordPointers,
       SettleDrifts, RecordAudit, CompletionFails, rowVars, FinalizePlan
  <2> QED
    BY <2>1, Quiet DEF SeenSame
<1> QED
  BY <1>1, <1>2, <1>3, <1>4, <1>5 DEF Step

LEMMA NextRefines ==
  ASSUME TypeOK, TypeOK', IInv, Unbound, [Next]_vars
  PROVE  [Reviewed!Next]_(Reviewed!vars)
<1>1. CASE UNCHANGED vars
  BY <1>1, Quiet DEF vars, SeenSame
<1>2. CASE \E cs \in ChangeSets : Request(cs) \/ Step(cs)
  BY <1>2, RequestRefines, StepRefines
<1>3. ASSUME NEW s \in Skus, DetectDrift(s) \/ AcceptRemote(s) \/ KeepLocal(s) \/ ReopenDrift(s)
      PROVE  Reviewed!Next \/ UNCHANGED Reviewed!vars
  <2>1. UNCHANGED <<sets, manifest, exports>> /\ \A x \in ChangeSets : SeenSame(x)
    BY <1>3 DEF DetectDrift, AcceptRemote, KeepLocal, ReopenDrift, SeenSame
  <2>2. CASE commits' = commits
    BY <2>1, <2>2, Quiet
  <2>3. CASE AcceptRemote(s) /\ commits' # commits
    <3> DEFINE c == [subject |-> OtherSubject, tree |-> staged']
    <3>1. commits' = Append(commits, c)
      BY <2>3 DEF AcceptRemote
    <3>2. c \in Commit
      BY DEF OtherSubject, Commit, Subjects, TypeOK
    <3> HIDE DEF c
    <3> QED
      BY <2>1, <3>1, <3>2, Committed DEF Reviewed!Next
  <2> QED
    BY <1>3, <2>2, <2>3 DEF DetectDrift, KeepLocal, ReopenDrift
<1>4. CASE Crash
  BY <1>4, Quiet DEF Crash, rowVars, SeenSame
<1> QED
  BY <1>1, <1>2, <1>3, <1>4 DEF Next

(* Every behaviour of the approval is, seen through the log, the status, the bound
   commit, the group and the exports, a behaviour of the reviewed catalogue. *)
THEOREM ApprovalImplementsReviewed == ASSUME DistinctTitles PROVE Spec => ImplementsReviewed
<1>1. Init => Reviewed!Init
  BY InitRefines
<1>2. TypeOK /\ TypeOK' /\ IInv /\ Unbound /\ [Next]_vars => [Reviewed!Next]_(Reviewed!vars)
  BY NextRefines
<1> QED
  BY <1>1, <1>2, Safety, OnlyApprovedIsBound, TypeCorrect, PTL DEF Spec, ImplementsReviewed, Reviewed!Spec
=============================================================================
