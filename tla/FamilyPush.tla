------------------------------ MODULE FamilyPush ------------------------------
(***************************************************************************)
(* Pushing an approved family to ShopSite (src/server/routes/              *)
(* sync-routes.ts, src/shopsite/family-push-operation.ts): push, resume    *)
(* and reconcile.  Each is a handler that awaits the store between its     *)
(* steps; several run at once, none holds a lock, the store answers late,  *)
(* imports in part, imports what the client has given up, and is edited by *)
(* its merchant.  A product's content is named by who wrote it; what a     *)
(* push sends of a set depends besides on the version of the Pages.        *)
(***************************************************************************)
EXTENDS Naturals, FiniteSets

CONSTANTS
  Skus, Sets,
  Existing,       \* the products of the first import
  Writes, Reads,  \* of each linked set: what it changes, what it refers to
  MaxJobs,        \* bound on the operations
  MaxRunning,     \* bound on those that run at once
  MaxPages,       \* bound on the versions of the Pages
  MaxEvents,      \* bound on edits, renames and drift found
  MaxCrashes      \* bound on the ends of the server

ASSUME PushConstants ==
  /\ Writes \in [Sets -> SUBSET Skus] /\ Reads \in [Sets -> SUBSET Skus]
  /\ Existing \subseteq Skus
  /\ {"base", "merchant", "none"} \intersect Sets = {}
  /\ MaxJobs \in Nat /\ MaxRunning \in Nat /\ MaxPages \in Nat \ {0} /\ MaxEvents \in Nat
  /\ MaxCrashes \in Nat

VARIABLES
  status,     \* change_sets.status
  cat,        \* the approved catalogue: who wrote each product
  basis,      \* the catalogue at the commit of each approved set
  drift,      \* the products with unresolved drift
  syncStatus, pointer,  \* product_index: sync_status, last_synced_remote_hash
  active,     \* the active Pages import
  kind, of,   \* sync_jobs: the operation and its change set
  pc,         \* what the handler awaits, or how it ended
  pages,      \* the version of the Pages it downloaded, its payload's from its plan on
  planned,    \* the jobs with a plan event (the payload's identity)
  refused,    \* the jobs with a "Resume refused" event
  baseline,   \* the census a job recorded before its upload, if any: a set of one
  wire,       \* its upload on the way to the store
  live, storePages,     \* the store: products and Pages
  events, crashes,
  seen,       \* history: the payloads the store has held whole
  overtaken   \* history: the jobs with a product approved again while they ran

catalogue == <<status, cat, basis, drift>>
index == <<syncStatus, pointer>>
records == <<kind, of, pages, planned, refused, baseline>>
store == <<live, storePages>>
counts == <<events, crashes>>
history == <<seen, overtaken>>
vars == <<catalogue, index, active, records, pc, wire, store, events, crashes, seen, overtaken>>

-----------------------------------------------------------------------------
Jobs == 1..MaxJobs
Scope(s) == Writes[s] \union Reads[s]
Awaiting == {"preflight", "census", "upload", "make", "verify", "check"}
Running == {j \in Jobs : pc[j] \in Awaiting \union {"publish"}}

LiveSkus == {k \in Skus : live[k].by # "none"}

(* The files of the catalogue hold the page names of version 1; those of a *)
(* payload are rewritten to its import.                                    *)
Record(writer, version) == [by |-> writer, pages |-> version]

Records == [by : Sets \union {"base", "merchant", "none"}, pages : 0..MaxPages]

(* checkRequiredRemoteMembers, reconcileFamilyPushImport: one census.      *)
ReadsHold(s) == \A k \in Reads[s] \ Writes[s] : live[k] = Record(basis[s][k], 1)

Holds(s, version) ==
  /\ \A k \in Writes[s] : live[k] = Record(s, version)
  /\ ReadsHold(s)

(* Fault for SyncedWasWhole: what the store skipped is not missed. *)
ReconciledIfAny(s, version, before) ==
  /\ ReadsHold(s)
  /\ \E k \in Writes[s] : live[k] = Record(s, version)
  /\ \A B \in before : LiveSkus \subseteq Writes[s] \union B

Reconciled(s, version, before) ==
  /\ Holds(s, version)
  /\ \A B \in before : LiveSkus \subseteq Writes[s] \union B

(* Fault for ResumeRepeats: the scan does not leave its own job out. *)
AttemptsAndOwn(s, j, recorded) ==
  {i \in recorded \ refused : of[i] = s /\ kind[i] \in {"push", "resume"}}

(* findOriginPushPayload: of the jobs with a plan event, those that bind job j *)
Attempts(s, j, recorded) ==
  {i \in recorded \ refused : i # j /\ of[i] = s /\ kind[i] \in {"push", "resume"}}

Earliest(S) == {i \in S : \A l \in S : i <= l}

(* findFamilyPushBaseline *)
Counted(s) == {i \in Jobs : of[i] = s /\ kind[i] \in {"push", "resume"} /\ baseline[i] # {}}

Init ==
  /\ status = [s \in Sets |-> "absent"]
  /\ cat = [k \in Skus |-> IF k \in Existing THEN "base" ELSE "none"]
  /\ basis = [s \in Sets |-> cat]
  /\ drift = {}
  /\ syncStatus = [k \in Skus |-> IF k \in Existing THEN "synced" ELSE "not_synced"]
  /\ pointer = [k \in Skus |-> IF k \in Existing THEN Record("base", 1) ELSE Record("none", 0)]
  /\ active = 1
  /\ kind = [j \in Jobs |-> "none"] /\ of = [j \in Jobs |-> "none"]
  /\ pc = [j \in Jobs |-> "idle"] /\ pages = [j \in Jobs |-> 0]
  /\ planned = {} /\ refused = {} /\ baseline = [j \in Jobs |-> {}]
  /\ wire = [j \in Jobs |-> "none"]
  /\ live = pointer /\ storePages = 1
  /\ events = 0 /\ crashes = 0 /\ overtaken = {}
  /\ seen = {q \in Sets \X (1..MaxPages) : Holds(q[1], q[2])}

(* What the store holds whole is remembered. *)
Remembers == seen' = seen \union {q \in Sets \X (1..MaxPages) : Holds(q[1], q[2])'}

-----------------------------------------------------------------------------
(* The catalogue: change sets and drift, as LinkedApproval has them.       *)

OtherDraft(s) ==
  \E t \in Sets \ {s} : status[t] = "draft" /\ Writes[t] \intersect Scope(s) # {}

Stages(s) ==
  /\ status[s] = "absent"
  /\ status' = [status EXCEPT ![s] = "draft"]
  /\ UNCHANGED <<cat, basis, drift, index, active, records, pc, wire, store, counts, history>>

Discards(s) ==
  /\ status[s] = "draft"
  /\ status' = [status EXCEPT ![s] = "absent"]
  /\ UNCHANGED <<cat, basis, drift, index, active, records, pc, wire, store, counts, history>>

(* No approval looks at the pushes that run. *)
Approves(s) ==
  /\ status[s] = "draft" /\ ~OtherDraft(s) /\ Scope(s) \intersect drift = {}
  /\ status' = [status EXCEPT ![s] = "approved"]
  /\ cat' = [k \in Skus |-> IF k \in Writes[s] THEN s ELSE cat[k]]
  /\ basis' = [basis EXCEPT ![s] = cat']
  /\ syncStatus' = [k \in Skus |-> IF k \in Writes[s] THEN "not_synced" ELSE syncStatus[k]]
  /\ overtaken' = overtaken \union
       {j \in Running : Writes[of[j]] \intersect Writes[s] # {}}
  /\ UNCHANGED <<drift, pointer, active, records, pc, wire, store, counts>>
  /\ Remembers

Happens == events < MaxEvents /\ events' = events + 1 /\ UNCHANGED crashes

(* A drift check finds a product changed; its findings may be of an older pull. *)
DriftFound(k) ==
  /\ Happens /\ cat[k] # "none"
  /\ drift' = drift \union {k}
  /\ syncStatus' = [syncStatus EXCEPT ![k] = "drifted"]
  /\ UNCHANGED <<status, cat, basis, pointer, active, records, pc, wire, store, history>>

DriftSettled(k) ==
  /\ k \in drift
  /\ drift' = drift \ {k}
  /\ UNCHANGED <<status, cat, basis, index, active, records, pc, wire, store, counts, history>>

-----------------------------------------------------------------------------
(* The store.                                                              *)

MerchantEdits(k) ==
  /\ Happens /\ k \in LiveSkus
  /\ live' = [live EXCEPT ![k] = Record("merchant", storePages)]
  /\ UNCHANGED <<catalogue, index, active, records, pc, wire, storePages, overtaken>>
  /\ Remembers

(* The products' page names follow. *)
MerchantRenames ==
  /\ Happens /\ storePages < MaxPages
  /\ storePages' = storePages + 1
  /\ live' = [k \in Skus |-> IF k \in LiveSkus THEN Record(live[k].by, storePages') ELSE live[k]]
  /\ UNCHANGED <<catalogue, index, active, records, pc, wire, overtaken>>
  /\ Remembers

StoreHolds(j) ==
  /\ wire[j] = "sent"
  /\ wire' = [wire EXCEPT ![j] = "held"]
  /\ UNCHANGED <<catalogue, index, active, records, pc, store, counts, history>>

(* dbmake, or an upload that needs none, imports all or part of the document, *)
(* whether or not the client still waits.                                  *)
StoreImports(j) ==
  /\ wire[j] \in {"sent", "asked"}
  /\ wire' = [wire EXCEPT ![j] = "done"]
  /\ \E part \in SUBSET Writes[of[j]] :
       live' = [k \in Skus |-> IF k \in part THEN Record(of[j], pages[j]) ELSE live[k]]
  /\ UNCHANGED <<catalogue, index, active, records, pc, storePages, counts, overtaken>>
  /\ Remembers

(* The answer to the download of the Pages. *)
StoreAnswersPages(j) ==
  /\ pc[j] = "preflight" /\ pages[j] = 0
  /\ pages' = [pages EXCEPT ![j] = storePages]
  /\ UNCHANGED <<catalogue, index, active, kind, of, planned, refused, baseline, pc, wire, store,
                 counts, history>>

-----------------------------------------------------------------------------
(* The handlers: runDirectSync and reconcile-push.                         *)

(* Fault for SyncedIsApproved: the files are not compared with the commit. *)
GatesWithoutStaleness(s) ==
  /\ status[s] = "approved"
  /\ Scope(s) \intersect drift = {} /\ ~OtherDraft(s)

Gates(s) ==
  /\ status[s] = "approved"
  /\ Scope(s) \intersect drift = {} /\ ~OtherDraft(s)
  /\ \A k \in Scope(s) : cat[k] = basis[s][k]

(* Fault for TypeOK: the operation's row names no kind. *)
RunsUntyped(j, s, how, next) ==
  /\ pc[j] = "idle" /\ \A i \in 1..(j - 1) : pc[i] # "idle"
  /\ Cardinality(Running) < MaxRunning
  /\ Gates(s)
  /\ of' = [of EXCEPT ![j] = s]
  /\ pc' = [pc EXCEPT ![j] = next]
  /\ UNCHANGED kind

Runs(j, s, how, next) ==
  /\ pc[j] = "idle" /\ \A i \in 1..(j - 1) : pc[i] # "idle"
  /\ Cardinality(Running) < MaxRunning
  /\ Gates(s)
  /\ kind' = [kind EXCEPT ![j] = how] /\ of' = [of EXCEPT ![j] = s]
  /\ pc' = [pc EXCEPT ![j] = next]

(* push-publish, upload-only, resume-push *)
StartPush(j, s, how) ==
  /\ Runs(j, s, how, "preflight")
  /\ UNCHANGED <<catalogue, index, active, pages, planned, refused, baseline, wire, store,
                 counts, history>>

Goes(j, next) == pc' = [pc EXCEPT ![j] = next]

(* The downloaded Pages are activated, unless their export is degraded. *)
Preflighted(j) == {pages[j], active}

(* The plan is on record before a resume compares it with the earliest attempt's. *)
Plans(j) ==
  /\ pc[j] = "preflight" /\ pages[j] # 0
  /\ \E version \in Preflighted(j) :
       /\ active' = version /\ pages' = [pages EXCEPT ![j] = version]
       /\ planned' = planned \union {j}
       /\ LET moved == /\ kind[j] = "resume"
                       /\ \E i \in Earliest(Attempts(of[j], j, planned')) : pages'[i] # version
          IN /\ refused' = IF moved THEN refused \union {j} ELSE refused
             /\ Goes(j, IF moved THEN "failed" ELSE "census")
  /\ UNCHANGED <<catalogue, index, kind, of, baseline, wire, store, counts, history>>

Counts(j) ==
  /\ pc[j] = "census"
  /\ baseline' = [baseline EXCEPT ![j] = {LiveSkus}]
  /\ IF ReadsHold(of[j])
     THEN Goes(j, "upload") /\ wire' = [wire EXCEPT ![j] = "sent"]
     ELSE Goes(j, "failed") /\ UNCHANGED wire
  /\ UNCHANGED <<catalogue, index, active, kind, of, pages, planned, refused, store, counts,
                 history>>

Uploaded(j) ==
  /\ pc[j] = "upload" /\ wire[j] = "held"
  /\ Goes(j, "make") /\ wire' = [wire EXCEPT ![j] = "asked"]
  /\ UNCHANGED <<catalogue, index, active, records, store, counts, history>>

Made(j) ==
  /\ pc[j] \in {"upload", "make"} /\ wire[j] = "done"
  /\ Goes(j, "verify")
  /\ UNCHANGED <<catalogue, index, active, records, wire, store, counts, history>>

Verifies(j) ==
  /\ pc[j] = "verify"
  /\ Goes(j, IF Reconciled(of[j], pages[j], baseline[j]) THEN "publish" ELSE "failed")
  /\ UNCHANGED <<catalogue, index, active, records, wire, store, counts, history>>

MarksAs(j, marked) ==
  /\ syncStatus' = [k \in Skus |-> IF k \in marked THEN "synced" ELSE syncStatus[k]]
  /\ pointer' = [k \in Skus |-> IF k \in marked THEN Record(of[j], pages[j]) ELSE pointer[k]]

(* After generate.cgi, whatever its outcome, or without it. *)
Succeeds(j) ==
  /\ pc[j] = "publish"
  /\ MarksAs(j, Writes[of[j]]) /\ Goes(j, "succeeded")
  /\ UNCHANGED <<catalogue, active, records, wire, store, counts, history>>

(* With the job the operator names, or the earliest of the set that has the record. *)
StartReconcile(j, s) ==
  /\ Runs(j, s, "reconcile", "check")
  /\ \E counted, origin \in Jobs :
       /\ \/ counted \in Earliest(Counted(s)) /\ origin \in Earliest(Attempts(s, 0, planned))
          \/ /\ counted = origin /\ counted \in Counted(s) /\ origin \in planned
       /\ pages[origin] = active
       /\ pages' = [pages EXCEPT ![j] = active]
       /\ baseline' = [baseline EXCEPT ![j] = baseline[counted]]
  /\ UNCHANGED <<catalogue, index, active, planned, refused, wire, store, counts, history>>

Checks(j) ==
  /\ pc[j] = "check"
  /\ IF Reconciled(of[j], pages[j], baseline[j])
     THEN MarksAs(j, Writes[of[j]]) /\ Goes(j, "succeeded")
     ELSE UNCHANGED index /\ Goes(j, "failed")
  /\ UNCHANGED <<catalogue, active, records, wire, store, counts, history>>

(* Fault for PushesEnd: an upload that fails is neither thrown nor completed. *)
FailsExceptUpload(j) ==
  /\ pc[j] \in Awaiting \ {"upload"}
  /\ Goes(j, "failed")

(* A time limit, an HTTP error, an error page or an unreadable census. *)
Fails(j) ==
  /\ pc[j] \in Awaiting
  /\ Goes(j, "failed")

GivesUp(j) ==
  /\ Fails(j)
  /\ UNCHANGED <<catalogue, index, active, records, wire, store, counts, history>>

(* The server ends, perhaps between two marks: its jobs stay running for ever. *)
Crash ==
  /\ crashes < MaxCrashes /\ crashes' = crashes + 1
  /\ Running # {}
  /\ pc' = [j \in Jobs |-> IF j \in Running THEN "lost" ELSE pc[j]]
  /\ \/ UNCHANGED index
     \/ \E j \in Running :
          /\ \/ pc[j] = "publish"
             \/ pc[j] = "check" /\ Reconciled(of[j], pages[j], baseline[j])
          /\ \E marked \in SUBSET Writes[of[j]] : MarksAs(j, marked)
  /\ UNCHANGED <<catalogue, active, records, wire, store, events, history>>

-----------------------------------------------------------------------------
Handles(j) ==
  \/ Plans(j) \/ Counts(j) \/ Uploaded(j) \/ Made(j) \/ Verifies(j) \/ Succeeds(j)
  \/ Checks(j) \/ GivesUp(j)

Next ==
  \/ \E s \in Sets : Stages(s) \/ Discards(s) \/ Approves(s)
  \/ \E k \in Skus : DriftFound(k) \/ DriftSettled(k) \/ MerchantEdits(k)
  \/ MerchantRenames \/ Crash
  \/ \E j \in Jobs :
       \/ StoreHolds(j) \/ StoreImports(j) \/ StoreAnswersPages(j) \/ Handles(j)
       \/ \E s \in Sets : \/ \E how \in {"push", "resume"} : StartPush(j, s, how)
                          \/ StartReconcile(j, s)

(* Every request of a handler has a time limit. *)
Fairness == \A j \in Jobs : WF_vars(Handles(j))

Spec == Init /\ [][Next]_vars /\ Fairness

-----------------------------------------------------------------------------
(* Types; a job has a kind and a set from its start, and a payload from its plan. *)
TypeOK ==
  /\ status \in [Sets -> {"absent", "draft", "approved"}]
  /\ cat \in [Skus -> Sets \union {"base", "none"}]
  /\ basis \in [Sets -> [Skus -> Sets \union {"base", "none"}]]
  /\ drift \subseteq Skus
  /\ syncStatus \in [Skus -> {"synced", "not_synced", "drifted"}]
  /\ pointer \in [Skus -> Records] /\ live \in [Skus -> Records]
  /\ active \in 1..MaxPages /\ storePages \in 1..MaxPages
  /\ kind \in [Jobs -> {"none", "push", "resume", "reconcile"}]
  /\ of \in [Jobs -> Sets \union {"none"}]
  /\ pc \in [Jobs -> Awaiting \union {"idle", "publish", "succeeded", "failed", "lost"}]
  /\ pages \in [Jobs -> 0..MaxPages]
  /\ planned \subseteq Jobs /\ refused \subseteq planned /\ overtaken \subseteq Jobs
  /\ baseline \in [Jobs -> SUBSET SUBSET Skus]
  /\ wire \in [Jobs -> {"none", "sent", "held", "asked", "done"}]
  /\ events \in 0..MaxEvents /\ crashes \in 0..MaxCrashes
  /\ seen \subseteq Sets \X (1..MaxPages)
  /\ \A j \in Jobs : /\ pc[j] # "idle" <=> of[j] # "none"
                     /\ pc[j] # "idle" <=> kind[j] # "none"
                     /\ j \in planned => pages[j] # 0
                     /\ wire[j] # "none" => j \in planned \ refused

(* A product that says it is synced has the approved content in its pointer, *)
(* unless its set was approved again while a push of it ran: no retry, no   *)
(* resume and no reconcile brings an older set's content back.             *)
SyncedIsApproved ==
  \A k \in Skus :
    syncStatus[k] = "synced" /\ pointer[k].by # cat[k] =>
      \E j \in overtaken : k \in Writes[of[j]]

(* What a pointer says of a set, the store has held: all products of the set *)
(* at once as they were sent, with the members they refer to as approved,  *)
(* however late, partial or repeated the imports were.                     *)
SyncedWasWhole ==
  \A k \in Skus : pointer[k].by \in Sets => <<pointer[k].by, pointer[k].pages>> \in seen

Payloads(s, j) == {pages[i] : i \in {i \in Jobs \ {j} : of[i] = s /\ i \in planned \ refused
                                                        /\ kind[i] # "reconcile"}}

(* A resume goes on only with bytes another attempt of its set has on record, *)
(* if there is one: a refused resume, its own plan or a moved import never  *)
(* becomes the identity it is held to.                                     *)
ResumeRepeats ==
  [][\A j \in Jobs :
       /\ kind[j] = "resume" /\ pc[j] = "preflight" /\ pc'[j] = "census"
       /\ Payloads(of[j], j) # {}
       => pages'[j] \in Payloads(of[j], j)]_vars

(* The pushes implement what they promise: an operation begins with approved *)
(* content and marks it, all of its set at once, once the store held it.   *)
Synced == INSTANCE SyncedFamilies WITH
  Versions <- 1..MaxPages, None <- "none",
  approved <- cat,
  synced <- [k \in Skus |-> syncStatus[k] = "synced"],
  marked <- [k \in Skus |-> <<pointer[k].by, pointer[k].pages>>],
  held <- seen,
  pushing <- [j \in Jobs |-> IF j \in Running THEN of[j] ELSE "none"]
KeepsSynced == Synced!Spec

(* Every operation ends, also when the store never answers it. *)
PushesEnd == <>[](Running = {})
=============================================================================
