--------------------------- MODULE FamilyPushProofs ---------------------------
(* What holds of FamilyPush for any sets, products and number of operations. *)
EXTENDS FamilyPush, WellFoundedInduction, TLAPS

USE DEF Jobs

(* The two halves of the types: what the handlers do not own, and the jobs. *)
WorldOK ==
  /\ status \in [Sets -> {"absent", "draft", "approved"}]
  /\ cat \in [Skus -> Sets \union {"base", "none"}]
  /\ basis \in [Sets -> [Skus -> Sets \union {"base", "none"}]]
  /\ drift \subseteq Skus
  /\ syncStatus \in [Skus -> {"synced", "not_synced", "drifted"}]
  /\ pointer \in [Skus -> Records] /\ live \in [Skus -> Records]
  /\ active \in 1..MaxPages /\ storePages \in 1..MaxPages
  /\ events \in 0..MaxEvents /\ crashes \in 0..MaxCrashes
  /\ seen \subseteq Sets \X (1..MaxPages)

JobsOK ==
  /\ kind \in [Jobs -> {"none", "push", "resume", "reconcile"}]
  /\ of \in [Jobs -> Sets \union {"none"}]
  /\ pc \in [Jobs -> Awaiting \union {"idle", "publish", "succeeded", "failed", "lost"}]
  /\ pages \in [Jobs -> 0..MaxPages]
  /\ planned \subseteq Jobs /\ refused \subseteq planned /\ overtaken \subseteq Jobs
  /\ baseline \in [Jobs -> SUBSET SUBSET Skus]
  /\ wire \in [Jobs -> {"none", "sent", "held", "asked", "done"}]
  /\ \A j \in Jobs : /\ pc[j] # "idle" <=> of[j] # "none"
                     /\ pc[j] # "idle" <=> kind[j] # "none"
                     /\ j \in planned => pages[j] # 0
                     /\ wire[j] # "none" => j \in planned \ refused

(* Where a job is, and what it has by then. *)
Located ==
  \A j \in Jobs :
    /\ pc[j] \in {"idle", "preflight"} => j \notin planned
    /\ pc[j] = "census" => j \in planned \ refused
    /\ pc[j] \in {"census", "upload", "make", "verify", "publish", "check"} => pages[j] # 0
    /\ pc[j] = "idle" => j \notin overtaken

Typed == WorldOK /\ JobsOK /\ Located

LEMMA Halves == TypeOK <=> WorldOK /\ JobsOK
  BY DEF TypeOK, WorldOK, JobsOK

LEMMA RecordsTyped ==
  ASSUME NEW w \in Sets \union {"base", "merchant", "none"}, NEW v \in 0..MaxPages
  PROVE  Record(w, v) \in Records
  BY DEF Record, Records

LEMMA InitTyped == Init => Typed
<1> SUFFICES ASSUME Init PROVE Typed
  OBVIOUS
<1> USE PushConstants
<1>1. Record("base", 1) \in Records /\ Record("none", 0) \in Records
  <2>1. 0 \in 0..MaxPages /\ 1 \in 0..MaxPages
    OBVIOUS
  <2> QED
    BY <2>1, RecordsTyped
<1>2. pointer \in [Skus -> Records]
  BY <1>1 DEF Init
<1>3. WorldOK
  BY <1>2 DEF Init, WorldOK
<1>4. JobsOK
  BY DEF Init, JobsOK, Awaiting
<1>5. Located
  BY DEF Init, Located
<1> QED
  BY <1>3, <1>4, <1>5 DEF Typed

(* A job that marks products has a set and a payload. *)
LEMMA MarksTyped ==
  ASSUME Typed, NEW j \in Jobs, pc[j] # "idle", NEW marked, MarksAs(j, marked)
  PROVE  /\ syncStatus' \in [Skus -> {"synced", "not_synced", "drifted"}]
         /\ pointer' \in [Skus -> Records]
<1>1. of[j] \in Sets /\ pages[j] \in 0..MaxPages
  BY DEF Typed, JobsOK
<1>2. Record(of[j], pages[j]) \in Records
  BY <1>1, RecordsTyped
<1> QED
  BY <1>2 DEF Typed, WorldOK, MarksAs

LEMMA RunsTyped ==
  ASSUME Typed, NEW j \in Jobs, NEW s \in Sets, NEW how \in {"push", "resume", "reconcile"},
         NEW next \in {"preflight", "check"}, Runs(j, s, how, next)
  PROVE  /\ kind' \in [Jobs -> {"none", "push", "resume", "reconcile"}]
         /\ of' \in [Jobs -> Sets \union {"none"}]
         /\ pc' \in [Jobs -> Awaiting \union {"idle", "publish", "succeeded", "failed", "lost"}]
         /\ pc[j] = "idle" /\ pc'[j] = next /\ of'[j] = s /\ kind'[j] = how
         /\ s # "none" /\ j \notin planned /\ wire[j] = "none"
         /\ \A i \in Jobs \ {j} : pc'[i] = pc[i] /\ of'[i] = of[i] /\ kind'[i] = kind[i]
  BY PushConstants DEF Typed, JobsOK, Located, Runs, Awaiting

-----------------------------------------------------------------------------
(* Types: the world. *)

LEMMA WorldKept == ASSUME Typed, [Next]_vars PROVE WorldOK'
<1> USE PushConstants
<1> USE DEF catalogue, index, records, store, counts, history
<1>0. WorldOK /\ JobsOK /\ Located
  BY DEF Typed
<1>r. ASSUME Remembers PROVE seen' \subseteq Sets \X (1..MaxPages)
  BY <1>0, <1>r DEF Remembers, WorldOK
<1>1. ASSUME NEW s \in Sets, Stages(s) PROVE WorldOK'
  BY <1>0, <1>1 DEF Stages, WorldOK
<1>2. ASSUME NEW s \in Sets, Discards(s) PROVE WorldOK'
  BY <1>0, <1>2 DEF Discards, WorldOK
<1>3. ASSUME NEW s \in Sets, Approves(s) PROVE WorldOK'
  <2>1. seen' \subseteq Sets \X (1..MaxPages)
    BY <1>3, <1>r DEF Approves
  <2>2. cat' \in [Skus -> Sets \union {"base", "none"}]
    BY <1>0, <1>3 DEF Approves, WorldOK
  <2>3. basis' \in [Sets -> [Skus -> Sets \union {"base", "none"}]]
    BY <1>0, <1>3, <2>2 DEF Approves, WorldOK
  <2> QED
    BY <1>0, <1>3, <2>1, <2>2, <2>3 DEF Approves, WorldOK
<1>4. ASSUME NEW k \in Skus, DriftFound(k) PROVE WorldOK'
  BY <1>0, <1>4 DEF DriftFound, Happens, WorldOK
<1>5. ASSUME NEW k \in Skus, DriftSettled(k) PROVE WorldOK'
  BY <1>0, <1>5 DEF DriftSettled, WorldOK
<1>6. ASSUME NEW k \in Skus, MerchantEdits(k) PROVE WorldOK'
  <2>1. seen' \subseteq Sets \X (1..MaxPages)
    BY <1>6, <1>r DEF MerchantEdits
  <2>2. Record("merchant", storePages) \in Records
    <3>1. storePages \in 0..MaxPages
      BY <1>0 DEF WorldOK
    <3> QED
      BY <3>1, RecordsTyped
  <2>3. live' \in [Skus -> Records]
    BY <1>0, <1>6, <2>2 DEF MerchantEdits, WorldOK
  <2> QED
    BY <1>0, <1>6, <2>1, <2>3 DEF MerchantEdits, Happens, WorldOK
<1>7. CASE MerchantRenames
  <2>1. seen' \subseteq Sets \X (1..MaxPages)
    BY <1>7, <1>r DEF MerchantRenames
  <2>2. storePages' \in 1..MaxPages
    BY <1>0, <1>7 DEF MerchantRenames, WorldOK
  <2>3. \A k \in Skus : Record(live[k].by, storePages') \in Records
    <3>1. \A r \in Records : r.by \in Sets \union {"base", "merchant", "none"}
      BY DEF Records
    <3>2. storePages' \in 0..MaxPages
      BY <2>2
    <3> QED
      BY <1>0, <3>1, <3>2, RecordsTyped DEF WorldOK
  <2>4. live' \in [Skus -> Records]
    BY <1>0, <1>7, <2>3 DEF MerchantRenames, WorldOK
  <2> QED
    BY <1>0, <1>7, <2>1, <2>2, <2>4 DEF MerchantRenames, Happens, WorldOK
<1>8. CASE Crash
  <2>1. /\ syncStatus' \in [Skus -> {"synced", "not_synced", "drifted"}]
        /\ pointer' \in [Skus -> Records]
    <3>1. CASE UNCHANGED index
      BY <1>0, <3>1 DEF WorldOK
    <3>2. CASE ~UNCHANGED index
      <4>1. PICK j \in Jobs : /\ pc[j] # "idle"
                              /\ \E marked \in SUBSET Writes[of[j]] : MarksAs(j, marked)
        BY <1>8, <3>2 DEF Crash, Running
      <4> QED
        BY <4>1, MarksTyped
    <3> QED
      BY <3>1, <3>2
  <2>2. crashes' \in 0..MaxCrashes
    BY <1>0, <1>8 DEF Crash, WorldOK
  <2> QED
    BY <1>0, <1>8, <2>1, <2>2 DEF Crash, WorldOK
<1>9. ASSUME NEW j \in Jobs, StoreHolds(j) PROVE WorldOK'
  BY <1>0, <1>9 DEF StoreHolds, WorldOK
<1>10. ASSUME NEW j \in Jobs, StoreImports(j) PROVE WorldOK'
  <2>1. seen' \subseteq Sets \X (1..MaxPages)
    BY <1>10, <1>r DEF StoreImports
  <2>2. of[j] \in Sets /\ pages[j] \in 0..MaxPages
    BY <1>0, <1>10 DEF StoreImports, JobsOK, Located
  <2>3. Record(of[j], pages[j]) \in Records
    BY <2>2, RecordsTyped
  <2>4. live' \in [Skus -> Records]
    BY <1>0, <1>10, <2>3 DEF StoreImports, WorldOK
  <2> QED
    BY <1>0, <1>10, <2>1, <2>4 DEF StoreImports, WorldOK
<1>11. ASSUME NEW j \in Jobs, StoreAnswersPages(j) PROVE WorldOK'
  BY <1>0, <1>11 DEF StoreAnswersPages, WorldOK
<1>12. ASSUME NEW j \in Jobs, Plans(j) PROVE WorldOK'
  <2>1. active' \in 1..MaxPages
    BY <1>0, <1>12 DEF Plans, Preflighted, WorldOK, JobsOK
  <2> QED
    BY <1>0, <1>12, <2>1 DEF Plans, WorldOK
<1>13. ASSUME NEW j \in Jobs, Counts(j) PROVE WorldOK'
  BY <1>0, <1>13 DEF Counts, WorldOK
<1>14. ASSUME NEW j \in Jobs, Uploaded(j) \/ Made(j) \/ Verifies(j) \/ GivesUp(j) PROVE WorldOK'
  BY <1>0, <1>14 DEF Uploaded, Made, Verifies, GivesUp, WorldOK
<1>15. ASSUME NEW j \in Jobs, Succeeds(j) PROVE WorldOK'
  <2>1. /\ syncStatus' \in [Skus -> {"synced", "not_synced", "drifted"}]
        /\ pointer' \in [Skus -> Records]
    BY <1>15, MarksTyped DEF Succeeds
  <2> QED
    BY <1>0, <1>15, <2>1 DEF Succeeds, WorldOK
<1>16. ASSUME NEW j \in Jobs, Checks(j) PROVE WorldOK'
  <2>1. /\ syncStatus' \in [Skus -> {"synced", "not_synced", "drifted"}]
        /\ pointer' \in [Skus -> Records]
    BY <1>0, <1>16, MarksTyped DEF Checks, WorldOK
  <2> QED
    BY <1>0, <1>16, <2>1 DEF Checks, WorldOK
<1>17. ASSUME NEW j \in Jobs, NEW s \in Sets, NEW how, StartPush(j, s, how) PROVE WorldOK'
  BY <1>0, <1>17 DEF StartPush, WorldOK
<1>18. ASSUME NEW j \in Jobs, NEW s \in Sets, StartReconcile(j, s) PROVE WorldOK'
  BY <1>0, <1>18 DEF StartReconcile, WorldOK
<1>19. CASE UNCHANGED vars
  BY <1>0, <1>19 DEF vars, WorldOK
<1> QED
  BY <1>1, <1>2, <1>3, <1>4, <1>5, <1>6, <1>7, <1>8, <1>9, <1>10, <1>11, <1>12, <1>13, <1>14,
     <1>15, <1>16, <1>17, <1>18, <1>19 DEF Next, Handles


-----------------------------------------------------------------------------
(* Types: the jobs. *)

(* A step that leaves a job alone, or moves it on. *)
LEMMA JobsKept == ASSUME Typed, [Next]_vars PROVE JobsOK' /\ Located'
<1> USE PushConstants
<1> USE DEF catalogue, index, records, store, counts, history, Awaiting
<1>0. WorldOK /\ JobsOK /\ Located
  BY DEF Typed
<1>1. ASSUME UNCHANGED <<kind, of, pages, planned, refused, baseline, pc, wire, overtaken>>
      PROVE  JobsOK' /\ Located'
  BY <1>0, <1>1 DEF JobsOK, Located
<1>2. ASSUME NEW s \in Sets, Stages(s) \/ Discards(s) PROVE JobsOK' /\ Located'
  BY <1>1, <1>2 DEF Stages, Discards
<1>3. ASSUME NEW s \in Sets, Approves(s) PROVE JobsOK' /\ Located'
  <2>1. UNCHANGED <<kind, of, pages, planned, refused, baseline, pc, wire>>
    BY <1>3 DEF Approves
  <2>2. overtaken' \subseteq Jobs /\ \A j \in overtaken' : j \in overtaken \/ pc[j] # "idle"
    BY <1>0, <1>3 DEF Approves, Running, JobsOK
  <2>3. JobsOK'
    BY <1>0, <2>1, <2>2 DEF JobsOK
  <2>4. Located'
    BY <1>0, <2>1, <2>2 DEF Located
  <2> QED
    BY <2>3, <2>4
<1>4. ASSUME NEW k \in Skus, DriftFound(k) \/ DriftSettled(k) \/ MerchantEdits(k)
      PROVE  JobsOK' /\ Located'
  BY <1>1, <1>4 DEF DriftFound, DriftSettled, MerchantEdits
<1>5. CASE MerchantRenames
  BY <1>1, <1>5 DEF MerchantRenames
<1>6. CASE Crash
  <2>1. UNCHANGED <<kind, of, pages, planned, refused, baseline, wire, overtaken>>
    BY <1>6 DEF Crash
  <2>2. /\ pc' \in [Jobs -> Awaiting \union {"idle", "publish", "succeeded", "failed", "lost"}]
        /\ \A j \in Jobs : \/ pc'[j] = pc[j]
                           \/ pc[j] # "idle" /\ pc'[j] = "lost"
    BY <1>0, <1>6 DEF Crash, Running, JobsOK
  <2>3. JobsOK'
    BY <1>0, <2>1, <2>2 DEF JobsOK
  <2>4. Located'
    BY <1>0, <2>1, <2>2 DEF JobsOK, Located
  <2> QED
    BY <2>3, <2>4
<1>7. ASSUME NEW j \in Jobs, StoreHolds(j) \/ StoreImports(j) PROVE JobsOK' /\ Located'
  <2>1. UNCHANGED <<kind, of, pages, planned, refused, baseline, pc, overtaken>>
    BY <1>7 DEF StoreHolds, StoreImports
  <2>2. wire[j] # "none" /\ wire' \in [Jobs -> {"none", "sent", "held", "asked", "done"}]
        /\ \A i \in Jobs : i # j => wire'[i] = wire[i]
    <3>1. CASE StoreHolds(j)
      BY <1>0, <3>1 DEF StoreHolds, JobsOK
    <3>2. CASE StoreImports(j)
      BY <1>0, <3>2 DEF StoreImports, JobsOK
    <3> QED
      BY <1>7, <3>1, <3>2
  <2>3. JobsOK'
    BY <1>0, <2>1, <2>2 DEF JobsOK
  <2> QED
    BY <1>0, <2>1, <2>3 DEF Located
<1>8. ASSUME NEW j \in Jobs, StoreAnswersPages(j) PROVE JobsOK' /\ Located'
  <2>1. UNCHANGED <<kind, of, planned, refused, baseline, pc, wire, overtaken>>
    BY <1>8 DEF StoreAnswersPages
  <2>2. pages' \in [Jobs -> 0..MaxPages] /\ pages'[j] # 0
        /\ \A i \in Jobs : i # j => pages'[i] = pages[i]
    BY <1>0, <1>8 DEF StoreAnswersPages, JobsOK, WorldOK
  <2>3. JobsOK'
    BY <1>0, <2>1, <2>2 DEF JobsOK
  <2> QED
    BY <1>0, <2>1, <2>2, <2>3 DEF Located
<1>9. ASSUME NEW j \in Jobs, Plans(j) PROVE JobsOK' /\ Located'
  <2>1. UNCHANGED <<kind, of, baseline, wire, overtaken>>
    BY <1>9 DEF Plans
  <2>2. pages' \in [Jobs -> 0..MaxPages] /\ pages'[j] # 0
        /\ \A i \in Jobs : i # j => pages'[i] = pages[i]
    BY <1>0, <1>9 DEF Plans, Preflighted, JobsOK, WorldOK
  <2>3. planned' = planned \union {j} /\ pc[j] = "preflight" /\ j \notin planned
    BY <1>0, <1>9 DEF Plans, Located
  <2>4. \/ refused' = refused \union {j} /\ pc' = [pc EXCEPT ![j] = "failed"]
        \/ refused' = refused /\ pc' = [pc EXCEPT ![j] = "census"]
    BY <1>9 DEF Plans, Goes
  <2>5. /\ pc' \in [Jobs -> Awaiting \union {"idle", "publish", "succeeded", "failed", "lost"}]
        /\ \A i \in Jobs : i # j => pc'[i] = pc[i]
        /\ refused' \subseteq planned'
        /\ \/ refused' = refused \union {j} /\ pc'[j] = "failed"
           \/ refused' = refused /\ pc'[j] = "census"
    BY <1>0, <2>3, <2>4 DEF JobsOK
  <2>6. JobsOK'
    BY <1>0, <2>1, <2>2, <2>3, <2>5 DEF JobsOK
  <2>7. Located'
    BY <1>0, <2>1, <2>2, <2>3, <2>5 DEF JobsOK, Located
  <2> QED
    BY <2>6, <2>7
<1>10. ASSUME NEW j \in Jobs, Counts(j) PROVE JobsOK' /\ Located'
  <2>1. UNCHANGED <<kind, of, pages, planned, refused, overtaken>> /\ pc[j] = "census"
    BY <1>10 DEF Counts
  <2>2. baseline' \in [Jobs -> SUBSET SUBSET Skus]
    BY <1>0, <1>10 DEF Counts, JobsOK, LiveSkus
  <2>3. /\ pc' \in [Jobs -> Awaiting \union {"idle", "publish", "succeeded", "failed", "lost"}]
        /\ wire' \in [Jobs -> {"none", "sent", "held", "asked", "done"}]
        /\ pc'[j] \in {"upload", "failed"}
        /\ \A i \in Jobs : i # j => pc'[i] = pc[i] /\ wire'[i] = wire[i]
    <3>1. \/ pc' = [pc EXCEPT ![j] = "upload"] /\ wire' = [wire EXCEPT ![j] = "sent"]
          \/ pc' = [pc EXCEPT ![j] = "failed"] /\ wire' = wire
      BY <1>10, Zenon DEF Counts, Goes
    <3>2. CASE pc' = [pc EXCEPT ![j] = "upload"] /\ wire' = [wire EXCEPT ![j] = "sent"]
      BY <1>0, <3>2 DEF JobsOK
    <3>3. CASE pc' = [pc EXCEPT ![j] = "failed"] /\ wire' = wire
      BY <1>0, <3>3 DEF JobsOK
    <3> QED
      BY <3>1, <3>2, <3>3
  <2>4. JobsOK'
    BY <1>0, <2>1, <2>2, <2>3 DEF JobsOK, Located
  <2>5. Located'
    BY <1>0, <2>1, <2>3 DEF JobsOK, Located
  <2> QED
    BY <2>4, <2>5
<1>11. ASSUME NEW j \in Jobs, Uploaded(j) PROVE JobsOK' /\ Located'
  <2>1. UNCHANGED <<kind, of, pages, planned, refused, baseline, overtaken>>
        /\ pc[j] = "upload" /\ wire[j] = "held"
    BY <1>11 DEF Uploaded
  <2>2. /\ pc' \in [Jobs -> Awaiting \union {"idle", "publish", "succeeded", "failed", "lost"}]
        /\ wire' \in [Jobs -> {"none", "sent", "held", "asked", "done"}]
        /\ pc'[j] = "make"
        /\ \A i \in Jobs : i # j => pc'[i] = pc[i] /\ wire'[i] = wire[i]
    BY <1>0, <1>11 DEF Uploaded, Goes, JobsOK
  <2>3. JobsOK'
    BY <1>0, <2>1, <2>2 DEF JobsOK
  <2>4. Located'
    BY <1>0, <2>1, <2>2 DEF JobsOK, Located
  <2> QED
    BY <2>3, <2>4
<1>12. ASSUME NEW j \in Jobs,
              Made(j) \/ Verifies(j) \/ Succeeds(j) \/ Checks(j) \/ GivesUp(j)
       PROVE  JobsOK' /\ Located'
  <2>1. UNCHANGED <<kind, of, pages, planned, refused, baseline, wire, overtaken>>
    BY <1>12 DEF Made, Verifies, Succeeds, Checks, GivesUp
  <2>2. PICK next \in {"verify", "publish", "succeeded", "failed"} :
          /\ pc' = [pc EXCEPT ![j] = next]
          /\ pc[j] \in {"preflight", "census", "upload", "make", "verify", "publish", "check"}
          /\ next \in {"verify", "publish"} => pc[j] \in {"upload", "make", "verify"}
    BY <1>12 DEF Made, Verifies, Succeeds, Checks, GivesUp, Fails, Goes
  <2>3. /\ pc' \in [Jobs -> Awaiting \union {"idle", "publish", "succeeded", "failed", "lost"}]
        /\ pc'[j] = next
        /\ \A i \in Jobs : i # j => pc'[i] = pc[i]
    BY <1>0, <2>2 DEF JobsOK
  <2>4. JobsOK'
    BY <1>0, <2>1, <2>2, <2>3 DEF JobsOK
  <2>5. Located'
    BY <1>0, <2>1, <2>2, <2>3 DEF JobsOK, Located
  <2> QED
    BY <2>4, <2>5
<1>13. ASSUME NEW j \in Jobs, NEW s \in Sets, NEW how \in {"push", "resume"},
              StartPush(j, s, how)
       PROVE  JobsOK' /\ Located'
  <2>1. UNCHANGED <<pages, planned, refused, baseline, wire, overtaken>>
        /\ Runs(j, s, how, "preflight")
    BY <1>13 DEF StartPush
  <2>2. /\ kind' \in [Jobs -> {"none", "push", "resume", "reconcile"}]
        /\ of' \in [Jobs -> Sets \union {"none"}]
        /\ pc' \in [Jobs -> Awaiting \union {"idle", "publish", "succeeded", "failed", "lost"}]
        /\ pc[j] = "idle" /\ pc'[j] = "preflight" /\ of'[j] = s /\ kind'[j] = how
        /\ s # "none" /\ j \notin planned /\ wire[j] = "none"
        /\ \A i \in Jobs \ {j} : pc'[i] = pc[i] /\ of'[i] = of[i] /\ kind'[i] = kind[i]
    BY <2>1, RunsTyped
  <2>3. JobsOK'
    BY <1>0, <2>1, <2>2 DEF JobsOK
  <2>4. Located'
    BY <1>0, <2>1, <2>2 DEF JobsOK, Located
  <2> QED
    BY <2>3, <2>4
<1>14. ASSUME NEW j \in Jobs, NEW s \in Sets, StartReconcile(j, s) PROVE JobsOK' /\ Located'
  <2>1. UNCHANGED <<planned, refused, wire, overtaken>> /\ Runs(j, s, "reconcile", "check")
    BY <1>14 DEF StartReconcile
  <2>2. /\ kind' \in [Jobs -> {"none", "push", "resume", "reconcile"}]
        /\ of' \in [Jobs -> Sets \union {"none"}]
        /\ pc' \in [Jobs -> Awaiting \union {"idle", "publish", "succeeded", "failed", "lost"}]
        /\ pc[j] = "idle" /\ pc'[j] = "check" /\ of'[j] = s /\ kind'[j] = "reconcile"
        /\ s # "none" /\ j \notin planned /\ wire[j] = "none"
        /\ \A i \in Jobs \ {j} : pc'[i] = pc[i] /\ of'[i] = of[i] /\ kind'[i] = kind[i]
    BY <2>1, RunsTyped
  <2>3. /\ pages' \in [Jobs -> 0..MaxPages] /\ pages'[j] # 0
        /\ \A i \in Jobs : i # j => pages'[i] = pages[i]
    BY <1>0, <1>14 DEF StartReconcile, JobsOK, WorldOK
  <2>4. baseline' \in [Jobs -> SUBSET SUBSET Skus]
    <3>1. PICK counted \in Jobs : baseline' = [baseline EXCEPT ![j] = baseline[counted]]
      BY <1>14 DEF StartReconcile
    <3> QED
      BY <1>0, <3>1 DEF JobsOK
  <2>5. JobsOK'
    <3>1. /\ planned' = planned /\ refused' = refused
          /\ overtaken' = overtaken /\ wire' = wire
      BY <2>1
    <3>2. \A i \in Jobs : /\ pc'[i] # "idle" <=> of'[i] # "none"
                          /\ pc'[i] # "idle" <=> kind'[i] # "none"
                          /\ i \in planned' => pages'[i] # 0
                          /\ wire'[i] # "none" => i \in planned' \ refused'
      BY <1>0, <2>2, <2>3, <3>1 DEF JobsOK
    <3>3. /\ planned' \subseteq Jobs /\ refused' \subseteq planned' /\ overtaken' \subseteq Jobs
          /\ wire' \in [Jobs -> {"none", "sent", "held", "asked", "done"}]
      BY <1>0, <3>1 DEF JobsOK
    <3>4. /\ kind' \in [Jobs -> {"none", "push", "resume", "reconcile"}]
          /\ of' \in [Jobs -> Sets \union {"none"}]
          /\ pc' \in [Jobs -> Awaiting \union {"idle", "publish", "succeeded", "failed", "lost"}]
          /\ pages' \in [Jobs -> 0..MaxPages]
      BY <2>2, <2>3
    <3> QED
      BY <2>4, <3>2, <3>3, <3>4 DEF JobsOK
  <2>6. Located'
    BY <1>0, <2>1, <2>2, <2>3 DEF JobsOK, Located
  <2> QED
    BY <2>5, <2>6
<1>15. CASE UNCHANGED vars
  BY <1>1, <1>15 DEF vars
<1> QED
  BY <1>2, <1>3, <1>4, <1>5, <1>6, <1>7, <1>8, <1>9, <1>10, <1>11, <1>12, <1>13, <1>14, <1>15
  DEF Next, Handles

LEMMA TypedKept == Typed /\ [Next]_vars => Typed'
  BY WorldKept, JobsKept DEF Typed

LEMMA AlwaysTyped == Spec => []Typed
  BY InitTyped, TypedKept, PTL DEF Spec

(* A job has a kind and a set from its start on and a payload from its plan *)
(* on, and only a planned, unrefused push is ever on its way to the store.  *)
THEOREM TypeCorrect == Spec => []TypeOK
<1>1. Typed => TypeOK
  BY Halves DEF Typed
<1> QED
  BY <1>1, AlwaysTyped, PTL

-----------------------------------------------------------------------------
(* What a pointer says of a set, the store has held. *)

Remembered ==
  /\ \A s \in Sets, v \in 1..MaxPages : Holds(s, v) => <<s, v>> \in seen
  /\ \A j \in Jobs : pc[j] = "publish" => <<of[j], pages[j]>> \in seen

WholeInv == Typed /\ Remembered /\ SyncedWasWhole

LEMMA RemembersHeld ==
  ASSUME Remembers
  PROVE  /\ \A s \in Sets, v \in 1..MaxPages : Holds(s, v)' => <<s, v>> \in seen'
         /\ \A q : q \in seen => q \in seen'
<1>1. \A q : q \in seen => q \in seen'
  BY DEF Remembers
<1>2. ASSUME NEW s \in Sets, NEW v \in 1..MaxPages, Holds(s, v)' PROVE <<s, v>> \in seen'
  <2>1. <<s, v>> \in {q \in Sets \X (1..MaxPages) : Holds(q[1], q[2])'}
    <3>1. <<s, v>>[1] = s /\ <<s, v>>[2] = v
      OBVIOUS
    <3> QED
      BY <1>2, <3>1 DEF Holds, ReadsHold
  <2> QED
    BY <2>1 DEF Remembers
<1> QED
  BY <1>1, <1>2

LEMMA HoldsKept ==
  ASSUME UNCHANGED <<live, basis>>, NEW s, NEW v
  PROVE  Holds(s, v)' <=> Holds(s, v)
  BY DEF Holds, ReadsHold

(* A census that finds the payload whole finds it in the store at that instant. *)
LEMMA ReconciledIsSeen ==
  ASSUME Typed, Remembered, NEW j \in Jobs, pc[j] \in {"verify", "check"},
         Reconciled(of[j], pages[j], baseline[j])
  PROVE  <<of[j], pages[j]>> \in seen
<1>1. of[j] \in Sets /\ pages[j] \in 1..MaxPages
  BY DEF Typed, JobsOK, Located
<1> QED
  BY <1>1 DEF Reconciled, Remembered

LEMMA MarksWhole ==
  ASSUME SyncedWasWhole, NEW j \in Jobs, <<of[j], pages[j]>> \in seen,
         NEW marked, MarksAs(j, marked), \A q : q \in seen => q \in seen'
  PROVE  SyncedWasWhole'
  BY DEF SyncedWasWhole, MarksAs, Record

LEMMA WholeKept == WholeInv /\ [Next]_vars => WholeInv'
<1> SUFFICES ASSUME WholeInv, [Next]_vars PROVE Remembered' /\ SyncedWasWhole'
  BY TypedKept DEF WholeInv
<1> USE DEF catalogue, index, records, store, counts, history
<1>0. WorldOK /\ JobsOK /\ Located /\ Typed /\ Remembered /\ SyncedWasWhole
  BY DEF WholeInv, Typed
<1>u. ASSUME UNCHANGED index, \A q : q \in seen => q \in seen' PROVE SyncedWasWhole'
  BY <1>0, <1>u DEF SyncedWasWhole
<1>s. ASSUME UNCHANGED <<live, basis, seen>>,
             \A j \in Jobs : pc'[j] = "publish" => <<of'[j], pages'[j]>> \in seen
      PROVE  Remembered'
  <2>1. ASSUME NEW s \in Sets, NEW v \in 1..MaxPages, Holds(s, v)' PROVE <<s, v>> \in seen'
    BY <1>0, <1>s, <2>1, HoldsKept DEF Remembered
  <2> QED
    BY <1>s, <2>1 DEF Remembered
<1>v. ASSUME Remembers, UNCHANGED <<pc, of, pages>> PROVE Remembered'
  BY <1>0, <1>v, RemembersHeld DEF Remembered
<1>1. ASSUME NEW s \in Sets, Stages(s) \/ Discards(s) PROVE Remembered' /\ SyncedWasWhole'
  BY <1>0, <1>1, <1>u, <1>s DEF Stages, Discards, Remembered
<1>2. ASSUME NEW s \in Sets, Approves(s) PROVE Remembered' /\ SyncedWasWhole'
  <2>1. Remembers /\ UNCHANGED <<pc, of, pages, pointer>>
    BY <1>2 DEF Approves
  <2>2. SyncedWasWhole'
    BY <1>0, <2>1, RemembersHeld DEF SyncedWasWhole
  <2> QED
    BY <1>v, <2>1, <2>2
<1>3. ASSUME NEW k \in Skus, DriftFound(k) \/ DriftSettled(k)
      PROVE  Remembered' /\ SyncedWasWhole'
  <2>1. UNCHANGED <<live, basis, seen, pc, of, pages, pointer>>
    BY <1>3 DEF DriftFound, DriftSettled
  <2>2. SyncedWasWhole'
    BY <1>0, <2>1 DEF SyncedWasWhole
  <2> QED
    BY <1>0, <1>s, <2>1, <2>2 DEF Remembered
<1>4. ASSUME Remembers, UNCHANGED <<pc, of, pages, index>> PROVE Remembered' /\ SyncedWasWhole'
  BY <1>4, <1>u, <1>v, RemembersHeld
<1>5. ASSUME NEW k \in Skus, MerchantEdits(k) PROVE Remembered' /\ SyncedWasWhole'
  BY <1>4, <1>5 DEF MerchantEdits
<1>6. CASE MerchantRenames
  BY <1>4, <1>6 DEF MerchantRenames
<1>7. ASSUME NEW j \in Jobs, StoreImports(j) PROVE Remembered' /\ SyncedWasWhole'
  BY <1>4, <1>7 DEF StoreImports
<1>8. CASE Crash
  <2>1. UNCHANGED <<live, basis, seen, of, pages>>
    BY <1>8 DEF Crash
  <2>2. \A j \in Jobs : pc'[j] # "publish"
    BY <1>0, <1>8 DEF Crash, Running, JobsOK
  <2>3. Remembered'
    BY <1>s, <2>1, <2>2
  <2>4. CASE UNCHANGED index
    BY <1>u, <2>1, <2>3, <2>4
  <2>5. CASE ~UNCHANGED index
    <3>1. PICK j \in Jobs :
            /\ \/ pc[j] = "publish"
               \/ pc[j] = "check" /\ Reconciled(of[j], pages[j], baseline[j])
            /\ \E marked \in SUBSET Writes[of[j]] : MarksAs(j, marked)
      BY <1>8, <2>5 DEF Crash, Running
    <3>2. <<of[j], pages[j]>> \in seen
      BY <1>0, <3>1, ReconciledIsSeen DEF Remembered
    <3> QED
      BY <1>0, <2>1, <2>3, <3>1, <3>2, MarksWhole
  <2> QED
    BY <2>4, <2>5
<1>9. ASSUME NEW j \in Jobs, StoreHolds(j) PROVE Remembered' /\ SyncedWasWhole'
  BY <1>0, <1>9, <1>u, <1>s DEF StoreHolds, Remembered
<1>10. ASSUME NEW j \in Jobs, StoreAnswersPages(j) PROVE Remembered' /\ SyncedWasWhole'
  <2>1. UNCHANGED <<live, basis, seen, pc, of, pointer, syncStatus>> /\ pc[j] = "preflight"
        /\ pages' = [pages EXCEPT ![j] = storePages]
    BY <1>10 DEF StoreAnswersPages
  <2>2. \A i \in Jobs : pc'[i] = "publish" => <<of'[i], pages'[i]>> \in seen
    BY <1>0, <2>1 DEF Remembered, JobsOK
  <2> QED
    BY <1>u, <1>s, <2>1, <2>2
(* The steps that move a job, but to where it marks. *)
<1>p. ASSUME NEW j \in Jobs, UNCHANGED <<live, basis, seen>>, pc[j] # "publish",
             \A i \in Jobs \ {j} : UNCHANGED <<pc[i], of[i], pages[i]>>,
             pc'[j] # "publish"
      PROVE  Remembered'
  <2>1. \A i \in Jobs : pc'[i] = "publish" => <<of'[i], pages'[i]>> \in seen
    BY <1>0, <1>p DEF Remembered
  <2> QED
    BY <1>s, <1>p, <2>1
<1>11. ASSUME NEW j \in Jobs, Plans(j) PROVE Remembered' /\ SyncedWasWhole'
  <2>1. UNCHANGED <<live, basis, seen, of, pointer, syncStatus>> /\ pc[j] = "preflight"
        /\ \E next \in {"failed", "census"} : pc' = [pc EXCEPT ![j] = next]
        /\ \E v : pages' = [pages EXCEPT ![j] = v]
    BY <1>11 DEF Plans, Goes
  <2>2. /\ pc'[j] # "publish"
        /\ \A i \in Jobs \ {j} : UNCHANGED <<pc[i], of[i], pages[i]>>
    BY <1>0, <2>1 DEF JobsOK
  <2> QED
    BY <1>u, <1>p, <2>1, <2>2
<1>12. ASSUME NEW j \in Jobs, Counts(j) \/ Uploaded(j) \/ Made(j) \/ GivesUp(j)
       PROVE  Remembered' /\ SyncedWasWhole'
  <2>1. UNCHANGED <<live, basis, seen, of, pages, pointer, syncStatus>>
    BY <1>12 DEF Counts, Uploaded, Made, GivesUp
  <2>2. PICK next \in {"upload", "make", "verify", "failed"} : pc' = [pc EXCEPT ![j] = next]
    <3>1. CASE Counts(j)
      BY <3>1, Zenon DEF Counts, Goes
    <3>2. CASE Uploaded(j)
      BY <3>2 DEF Uploaded, Goes
    <3>3. CASE Made(j)
      BY <3>3 DEF Made, Goes
    <3>4. CASE GivesUp(j)
      BY <3>4 DEF GivesUp, Fails, Goes
    <3> QED
      BY <1>12, <3>1, <3>2, <3>3, <3>4
  <2>3. \A i \in Jobs : pc'[i] = "publish" => <<of'[i], pages'[i]>> \in seen
    BY <1>0, <2>1, <2>2 DEF Remembered, JobsOK
  <2> QED
    BY <1>u, <1>s, <2>1, <2>3
<1>13. ASSUME NEW j \in Jobs, Verifies(j) PROVE Remembered' /\ SyncedWasWhole'
  <2>1. UNCHANGED <<live, basis, seen, of, pages, pointer, syncStatus>>
    BY <1>13 DEF Verifies
  <2>2. \/ Reconciled(of[j], pages[j], baseline[j])
        \/ pc' = [pc EXCEPT ![j] = "failed"]
    BY <1>13, Zenon DEF Verifies, Goes
  <2>3. \A i \in Jobs : i # j => pc'[i] = pc[i]
    BY <1>0, <1>13 DEF Verifies, Goes, JobsOK
  <2>4. pc'[j] = "publish" => <<of[j], pages[j]>> \in seen
    BY <1>0, <1>13, <2>2, ReconciledIsSeen DEF Verifies, JobsOK
  <2>5. \A i \in Jobs : pc'[i] = "publish" => <<of'[i], pages'[i]>> \in seen
    BY <1>0, <2>1, <2>3, <2>4 DEF Remembered
  <2> QED
    BY <1>u, <1>s, <2>1, <2>5
<1>14. ASSUME NEW j \in Jobs, Succeeds(j) PROVE Remembered' /\ SyncedWasWhole'
  <2>1. UNCHANGED <<live, basis, seen, of, pages>> /\ pc[j] = "publish"
        /\ pc' = [pc EXCEPT ![j] = "succeeded"] /\ MarksAs(j, Writes[of[j]])
    BY <1>14 DEF Succeeds, Goes
  <2>2. SyncedWasWhole'
    BY <1>0, <2>1, MarksWhole DEF Remembered
  <2>3. \A i \in Jobs : pc'[i] = "publish" => <<of'[i], pages'[i]>> \in seen
    BY <1>0, <2>1 DEF Remembered, JobsOK
  <2> QED
    BY <1>s, <2>1, <2>2, <2>3
<1>15. ASSUME NEW j \in Jobs, Checks(j) PROVE Remembered' /\ SyncedWasWhole'
  <2>1. UNCHANGED <<live, basis, seen, of, pages>> /\ pc[j] = "check"
    BY <1>15 DEF Checks
  <2>2. \/ /\ Reconciled(of[j], pages[j], baseline[j]) /\ MarksAs(j, Writes[of[j]])
           /\ pc' = [pc EXCEPT ![j] = "succeeded"]
        \/ UNCHANGED index /\ pc' = [pc EXCEPT ![j] = "failed"]
    BY <1>15, Zenon DEF Checks, Goes
  <2>3. SyncedWasWhole'
    BY <1>0, <1>u, <2>1, <2>2, MarksWhole, ReconciledIsSeen
  <2>4. \A i \in Jobs : pc'[i] = "publish" => <<of'[i], pages'[i]>> \in seen
    BY <1>0, <2>1, <2>2 DEF Remembered, JobsOK
  <2> QED
    BY <1>s, <2>1, <2>3, <2>4
<1>16. ASSUME NEW j \in Jobs, NEW s \in Sets, NEW how \in {"push", "resume"},
              StartPush(j, s, how)
       PROVE  Remembered' /\ SyncedWasWhole'
  <2>1. Runs(j, s, how, "preflight") /\ UNCHANGED <<live, basis, seen, pages, pointer, syncStatus>>
    BY <1>16 DEF StartPush
  <2>2. pc[j] = "idle" /\ pc'[j] = "preflight"
        /\ \A i \in Jobs \ {j} : pc'[i] = pc[i] /\ of'[i] = of[i]
    BY <1>0, <2>1, RunsTyped
  <2> QED
    BY <1>u, <1>p, <2>1, <2>2
<1>17. ASSUME NEW j \in Jobs, NEW s \in Sets, StartReconcile(j, s)
       PROVE  Remembered' /\ SyncedWasWhole'
  <2>1. Runs(j, s, "reconcile", "check") /\ UNCHANGED <<live, basis, seen, pointer, syncStatus>>
        /\ pages' = [pages EXCEPT ![j] = active]
    BY <1>17 DEF StartReconcile
  <2>2. pc[j] = "idle" /\ pc'[j] = "check"
        /\ \A i \in Jobs \ {j} : pc'[i] = pc[i] /\ of'[i] = of[i] /\ pages'[i] = pages[i]
    BY <1>0, <2>1, RunsTyped DEF JobsOK
  <2> QED
    BY <1>u, <1>p, <2>1, <2>2
<1>18. CASE UNCHANGED vars
  BY <1>0, <1>18, <1>u, <1>s DEF vars, Remembered
<1> QED
  BY <1>1, <1>2, <1>3, <1>5, <1>6, <1>7, <1>8, <1>9, <1>10, <1>11, <1>12, <1>13, <1>14, <1>15,
     <1>16, <1>17, <1>18 DEF Next, Handles

LEMMA InitWhole == Init => WholeInv
<1> SUFFICES ASSUME Init PROVE Remembered /\ SyncedWasWhole
  BY InitTyped DEF WholeInv
<1>1. ASSUME NEW s \in Sets, NEW v \in 1..MaxPages, Holds(s, v) PROVE <<s, v>> \in seen
  <2>1. <<s, v>>[1] = s /\ <<s, v>>[2] = v
    OBVIOUS
  <2> QED
    BY <1>1, <2>1 DEF Init
<1>2. Remembered
  BY <1>1 DEF Init, Remembered
<1>3. SyncedWasWhole
  BY PushConstants DEF Init, SyncedWasWhole, Record
<1> QED
  BY <1>2, <1>3

(* Whatever the store does with the uploads, a product's pointer names a     *)
(* payload that all products of its set had at once in the store.          *)
THEOREM PointersWereWhole == Spec => []SyncedWasWhole
<1>1. Init => WholeInv
  BY InitWhole
<1>2. WholeInv => SyncedWasWhole
  BY DEF WholeInv
<1> QED
  BY <1>1, <1>2, WholeKept, PTL DEF Spec

-----------------------------------------------------------------------------
(* A product that says it is synced has its approved content. *)

(* A job that no approval has overtaken sends what is approved. *)
Current ==
  /\ \A j \in Running \ overtaken : \A k \in Writes[of[j]] : cat[k] = of[j]
  /\ \A s \in Sets : status[s] = "approved" => \A k \in Writes[s] : basis[s][k] = s

ApprovedInv == Typed /\ Current /\ SyncedIsApproved

LEMMA MarksApproved ==
  ASSUME Typed, Current, SyncedIsApproved, NEW j \in Running,
         NEW marked \in SUBSET Writes[of[j]], MarksAs(j, marked),
         UNCHANGED <<cat, of, overtaken>>
  PROVE  SyncedIsApproved'
<1> SUFFICES ASSUME NEW k \in Skus, syncStatus'[k] = "synced", pointer'[k].by # cat[k]
             PROVE  \E i \in overtaken : k \in Writes[of[i]]
  BY DEF SyncedIsApproved
<1>1. CASE k \in marked
  <2>1. pointer'[k].by = of[j]
    BY <1>1 DEF MarksAs, Record
  <2>2. j \in overtaken
    BY <1>1, <2>1 DEF Current
  <2> QED
    BY <1>1, <2>2
<1>2. CASE k \notin marked
  <2>1. syncStatus'[k] = syncStatus[k] /\ pointer'[k] = pointer[k]
    BY <1>2 DEF MarksAs
  <2> QED
    BY <2>1 DEF SyncedIsApproved
<1> QED
  BY <1>1, <1>2

LEMMA RunsCurrent ==
  ASSUME Typed, Current, SyncedIsApproved, NEW j \in Jobs, NEW s \in Sets,
         NEW how \in {"push", "resume", "reconcile"}, NEW next \in {"preflight", "check"},
         Runs(j, s, how, next), UNCHANGED <<status, cat, basis, index, overtaken>>
  PROVE  Current' /\ SyncedIsApproved'
<1>1. pc[j] = "idle" /\ of'[j] = s /\ j \notin overtaken
      /\ \A i \in Jobs \ {j} : pc'[i] = pc[i] /\ of'[i] = of[i]
  BY RunsTyped DEF Typed, Located
<1>2. \A k \in Writes[s] : cat[k] = s
  BY DEF Runs, Gates, Scope, Current
<1>3. ASSUME NEW i \in Running' \ overtaken' PROVE \A k \in Writes[of'[i]] : cat'[k] = of'[i]
  <2>1. CASE i = j
    BY <1>1, <1>2, <2>1
  <2>2. CASE i # j
    BY <1>1, <1>3, <2>2 DEF Current, Running
  <2> QED
    BY <2>1, <2>2
<1>4. Current'
  BY <1>3 DEF Current
<1>5. SyncedIsApproved'
  BY <1>1 DEF SyncedIsApproved, index, Typed, JobsOK
<1> QED
  BY <1>4, <1>5

LEMMA ApprovedKept == ApprovedInv /\ [Next]_vars => ApprovedInv'
<1> SUFFICES ASSUME ApprovedInv, [Next]_vars PROVE Current' /\ SyncedIsApproved'
  BY TypedKept DEF ApprovedInv
<1> USE DEF catalogue, index, records, store, counts, history
<1>0. WorldOK /\ JobsOK /\ Located /\ Typed /\ Current /\ SyncedIsApproved
  BY DEF ApprovedInv, Typed
(* The steps that leave the catalogue and the jobs' sets alone. *)
<1>c. ASSUME UNCHANGED <<status, cat, basis, of, overtaken>>,
             \A j \in Jobs : j \in Running' => j \in Running
      PROVE  Current'
  BY <1>0, <1>c DEF Current, Running
<1>u. ASSUME UNCHANGED <<cat, of, overtaken, index>> PROVE SyncedIsApproved'
  BY <1>0, <1>u DEF SyncedIsApproved
<1>1. ASSUME NEW s \in Sets, Stages(s) \/ Discards(s) PROVE Current' /\ SyncedIsApproved'
  <2>1. UNCHANGED <<cat, basis, of, overtaken, index, pc>>
    BY <1>1 DEF Stages, Discards
  <2>2. \A t \in Sets : status'[t] = "approved" => status[t] = "approved"
    BY <1>0, <1>1 DEF Stages, Discards, WorldOK
  <2>3. Current'
    BY <1>0, <2>1, <2>2 DEF Current, Running
  <2> QED
    BY <1>u, <2>1, <2>3
<1>2. ASSUME NEW s \in Sets, Approves(s) PROVE Current' /\ SyncedIsApproved'
  <2>1. /\ status' = [status EXCEPT ![s] = "approved"]
        /\ cat' = [k \in Skus |-> IF k \in Writes[s] THEN s ELSE cat[k]]
        /\ basis' = [basis EXCEPT ![s] = cat']
        /\ syncStatus' = [k \in Skus |-> IF k \in Writes[s] THEN "not_synced" ELSE syncStatus[k]]
        /\ overtaken' = overtaken \union {j \in Running : Writes[of[j]] \intersect Writes[s] # {}}
        /\ UNCHANGED <<pointer, kind, of, pages, pc>>
    BY <1>2 DEF Approves
  <2>2. \A t \in Sets : Writes[t] \subseteq Skus
    BY PushConstants
  <2>3. ASSUME NEW j \in Running', j \notin overtaken', NEW k \in Writes[of'[j]]
        PROVE  cat'[k] = of'[j]
    <3>1. j \in Running /\ j \notin overtaken /\ of[j] \in Sets /\ of'[j] = of[j]
      BY <1>0, <2>1, <2>3 DEF Running, JobsOK, Awaiting
    <3>2. k \notin Writes[s] /\ k \in Skus
      BY <2>1, <2>2, <2>3, <3>1
    <3> QED
      BY <1>0, <2>1, <2>3, <3>1, <3>2 DEF Current
  <2>4. ASSUME NEW t \in Sets, status'[t] = "approved", NEW k \in Writes[t]
        PROVE  basis'[t][k] = t
    <3>1. CASE t = s
      BY <1>0, <2>1, <2>2, <2>4, <3>1 DEF WorldOK
    <3>2. CASE t # s
      BY <1>0, <2>1, <2>4, <3>2 DEF WorldOK, Current
    <3> QED
      BY <3>1, <3>2
  <2>5. Current'
    BY <2>3, <2>4 DEF Current
  <2>6. SyncedIsApproved'
    <3> SUFFICES ASSUME NEW k \in Skus, syncStatus'[k] = "synced", pointer'[k].by # cat'[k]
                 PROVE  \E j \in overtaken' : k \in Writes[of'[j]]
      BY DEF SyncedIsApproved
    <3>1. k \notin Writes[s]
      BY <2>1
    <3>2. \E j \in overtaken : k \in Writes[of[j]]
      BY <1>0, <2>1, <3>1 DEF SyncedIsApproved
    <3> QED
      BY <2>1, <3>2
  <2> QED
    BY <2>5, <2>6
<1>3. ASSUME NEW k \in Skus, DriftFound(k) PROVE Current' /\ SyncedIsApproved'
  <2>1. UNCHANGED <<status, cat, basis, of, overtaken, pointer, pc>>
        /\ syncStatus' = [syncStatus EXCEPT ![k] = "drifted"]
    BY <1>3 DEF DriftFound
  <2>2. \A l \in Skus : syncStatus'[l] = "synced" => syncStatus[l] = "synced"
    BY <1>0, <2>1 DEF WorldOK
  <2>3. SyncedIsApproved'
    BY <1>0, <2>1, <2>2 DEF SyncedIsApproved
  <2> QED
    BY <1>c, <2>1, <2>3 DEF Running
<1>4. ASSUME UNCHANGED <<status, cat, basis, of, overtaken, index, pc>>
      PROVE  Current' /\ SyncedIsApproved'
  BY <1>4, <1>c, <1>u DEF Running
<1>5. ASSUME NEW k \in Skus, DriftSettled(k) \/ MerchantEdits(k)
      PROVE  Current' /\ SyncedIsApproved'
  BY <1>4, <1>5 DEF DriftSettled, MerchantEdits
<1>6. CASE MerchantRenames
  BY <1>4, <1>6 DEF MerchantRenames
<1>7. ASSUME NEW j \in Jobs, StoreHolds(j) \/ StoreImports(j) \/ StoreAnswersPages(j)
      PROVE  Current' /\ SyncedIsApproved'
  BY <1>4, <1>7 DEF StoreHolds, StoreImports, StoreAnswersPages
<1>8. CASE Crash
  <2>1. UNCHANGED <<status, cat, basis, of, overtaken>>
    BY <1>8 DEF Crash
  <2>2. \A j \in Jobs : j \in Running' => j \in Running
    BY <1>0, <1>8 DEF Crash, Running, JobsOK
  <2>3. CASE UNCHANGED index
    BY <1>c, <1>u, <2>1, <2>2, <2>3
  <2>4. CASE ~UNCHANGED index
    <3>1. PICK j \in Running : \E marked \in SUBSET Writes[of[j]] : MarksAs(j, marked)
      BY <1>8, <2>4 DEF Crash
    <3> QED
      BY <1>0, <1>c, <2>1, <2>2, <3>1, MarksApproved
  <2> QED
    BY <2>3, <2>4
(* The steps that move a job that runs. *)
<1>r. ASSUME NEW j \in Running, \A i \in Jobs \ {j} : pc'[i] = pc[i],
             UNCHANGED <<status, cat, basis, of, overtaken>>
      PROVE  Current'
  BY <1>c, <1>r DEF Running
<1>9. ASSUME NEW j \in Jobs,
             Plans(j) \/ Counts(j) \/ Uploaded(j) \/ Made(j) \/ Verifies(j) \/ GivesUp(j)
      PROVE  Current' /\ SyncedIsApproved'
  <2>1. UNCHANGED <<status, cat, basis, of, overtaken, index>> /\ j \in Running
    BY <1>9 DEF Plans, Counts, Uploaded, Made, Verifies, GivesUp, Fails, Running, Awaiting
  <2>2. PICK next : pc' = [pc EXCEPT ![j] = next]
    <3>1. ASSUME Counts(j) PROVE \E next : pc' = [pc EXCEPT ![j] = next]
      BY <3>1, Zenon DEF Counts, Goes
    <3>2. ASSUME Plans(j) PROVE \E next : pc' = [pc EXCEPT ![j] = next]
      BY <3>2 DEF Plans, Goes
    <3>3. ASSUME Verifies(j) PROVE \E next : pc' = [pc EXCEPT ![j] = next]
      BY <3>3 DEF Verifies, Goes
    <3>4. ASSUME Uploaded(j) \/ Made(j) \/ GivesUp(j)
          PROVE  \E next : pc' = [pc EXCEPT ![j] = next]
      BY <3>4 DEF Uploaded, Made, GivesUp, Fails, Goes
    <3> QED
      BY <1>9, <3>1, <3>2, <3>3, <3>4
  <2>3. \A i \in Jobs \ {j} : pc'[i] = pc[i]
    BY <1>0, <2>2 DEF JobsOK
  <2> QED
    BY <1>r, <1>u, <2>1, <2>3
<1>10. ASSUME NEW j \in Jobs, Succeeds(j) \/ Checks(j) PROVE Current' /\ SyncedIsApproved'
  <2>1. UNCHANGED <<status, cat, basis, of, overtaken>> /\ j \in Running
        /\ \E next : pc' = [pc EXCEPT ![j] = next]
    BY <1>10 DEF Succeeds, Checks, Goes, Running, Awaiting
  <2>2. UNCHANGED index \/ MarksAs(j, Writes[of[j]])
    BY <1>10, Zenon DEF Succeeds, Checks
  <2>3. \A i \in Jobs \ {j} : pc'[i] = pc[i]
    BY <1>0, <2>1 DEF JobsOK
  <2>4. SyncedIsApproved'
    BY <1>0, <1>u, <2>1, <2>2, MarksApproved
  <2> QED
    BY <1>r, <2>1, <2>3, <2>4
<1>11. ASSUME NEW j \in Jobs, NEW s \in Sets, NEW how \in {"push", "resume"},
              StartPush(j, s, how)
       PROVE  Current' /\ SyncedIsApproved'
  <2>1. Runs(j, s, how, "preflight") /\ UNCHANGED <<status, cat, basis, index, overtaken>>
    BY <1>11 DEF StartPush
  <2> QED
    BY <1>0, <2>1, RunsCurrent
<1>12. ASSUME NEW j \in Jobs, NEW s \in Sets, StartReconcile(j, s)
       PROVE  Current' /\ SyncedIsApproved'
  <2>1. Runs(j, s, "reconcile", "check") /\ UNCHANGED <<status, cat, basis, index, overtaken>>
    BY <1>12 DEF StartReconcile
  <2> QED
    BY <1>0, <2>1, RunsCurrent
<1>13. CASE UNCHANGED vars
  BY <1>4, <1>13 DEF vars
<1> QED
  BY <1>1, <1>2, <1>3, <1>5, <1>6, <1>7, <1>8, <1>9, <1>10, <1>11, <1>12, <1>13 DEF Next, Handles

LEMMA InitApproved == Init => ApprovedInv
<1> SUFFICES ASSUME Init PROVE Current /\ SyncedIsApproved
  BY InitTyped DEF ApprovedInv
<1>1. Current
  BY DEF Init, Current, Running, Awaiting
<1>2. SyncedIsApproved
  BY DEF Init, SyncedIsApproved, Record
<1> QED
  BY <1>1, <1>2

(* Unless an approval overtakes a push of it, a product that says it is     *)
(* synced has the approved content in its pointer: no number of pushes,    *)
(* resumes and reconciles, however late they end, brings another one back. *)
THEOREM SyncedProductsAreApproved == Spec => []SyncedIsApproved
<1>1. Init => ApprovedInv
  BY InitApproved
<1>2. ApprovedInv => SyncedIsApproved
  BY DEF ApprovedInv
<1> QED
  BY <1>1, <1>2, ApprovedKept, PTL DEF Spec

-----------------------------------------------------------------------------
(* A resume sends the bytes of an earlier attempt. *)

LEMMA EarliestExists == ASSUME NEW S \in SUBSET Jobs, S # {} PROVE Earliest(S) # {}
<1> DEFINE Below == OpToRel(<, Nat)
<1>1. IsWellFoundedOn(Below, Nat)
  BY NatLessThanWellFounded, Zenon
<1>2. \A l, i \in Nat : l < i => <<l, i>> \in Below
  BY DEF OpToRel
<1> HIDE DEF Below
<1>3. S \subseteq Nat
  BY PushConstants
<1>4. PICK i \in S : \A l \in S : ~(<<l, i>> \in Below)
  BY <1>1, <1>3, WFMin
<1>5. \A l \in S : ~(l < i)
  BY <1>2, <1>3, <1>4, Zenon
<1>6. \A l \in S : i <= l
  BY <1>3, <1>5
<1> QED
  BY <1>6 DEF Earliest

(* A resume goes on only with the bytes of an attempt on record, if there is one. *)
THEOREM ResumesRepeat == Spec => ResumeRepeats
<1> DEFINE Repeats ==
      \A j \in Jobs :
        /\ kind[j] = "resume" /\ pc[j] = "preflight" /\ pc'[j] = "census"
        /\ Payloads(of[j], j) # {}
        => pages'[j] \in Payloads(of[j], j)
<1>1. Typed /\ [Next]_vars => [Repeats]_vars
  <2> SUFFICES ASSUME Typed, [Next]_vars, NEW j \in Jobs, kind[j] = "resume",
                      pc[j] = "preflight", pc'[j] = "census", Payloads(of[j], j) # {}
               PROVE  pages'[j] \in Payloads(of[j], j)
    OBVIOUS
  <2>0. JobsOK /\ Located
    BY DEF Typed
  <2>1. Plans(j)
    <3> USE DEF catalogue, index, records, store, counts, history
    <3>1. pc' # pc
      BY SMT
    <3>2. ~\E s \in Sets : Stages(s) \/ Discards(s) \/ Approves(s)
      BY <3>1 DEF Stages, Discards, Approves
    <3>3. ~\E k \in Skus : DriftFound(k) \/ DriftSettled(k) \/ MerchantEdits(k)
      BY <3>1 DEF DriftFound, DriftSettled, MerchantEdits
    <3>4. ~MerchantRenames
      BY <3>1 DEF MerchantRenames
    <3>5. ~Crash
      BY <2>0 DEF Crash, JobsOK, Running, Awaiting
    <3>6. ~UNCHANGED vars
      BY <3>1 DEF vars
    <3>7. ASSUME NEW i \in Jobs,
                 StoreHolds(i) \/ StoreImports(i) \/ StoreAnswersPages(i)
          PROVE  FALSE
      BY <3>1, <3>7 DEF StoreHolds, StoreImports, StoreAnswersPages
    <3>8. ASSUME NEW i \in Jobs,
                 \/ Counts(i) \/ Uploaded(i) \/ Made(i) \/ Verifies(i) \/ Succeeds(i)
                 \/ Checks(i) \/ GivesUp(i)
          PROVE  FALSE
      <4>1. PICK next \in {"upload", "make", "verify", "publish", "succeeded", "failed"} :
              pc' = [pc EXCEPT ![i] = next]
        <5>1. ASSUME Counts(i)
              PROVE  pc' = [pc EXCEPT ![i] = "upload"] \/ pc' = [pc EXCEPT ![i] = "failed"]
          BY <5>1, Zenon DEF Counts, Goes
        <5>2. ASSUME Verifies(i)
              PROVE  pc' = [pc EXCEPT ![i] = "publish"] \/ pc' = [pc EXCEPT ![i] = "failed"]
          BY <5>2, Zenon DEF Verifies, Goes
        <5>3. ASSUME Checks(i)
              PROVE  pc' = [pc EXCEPT ![i] = "succeeded"] \/ pc' = [pc EXCEPT ![i] = "failed"]
          BY <5>3, Zenon DEF Checks, Goes
        <5>4. ASSUME Uploaded(i) \/ Made(i) \/ Succeeds(i) \/ GivesUp(i)
              PROVE  \E next \in {"make", "verify", "succeeded", "failed"} :
                       pc' = [pc EXCEPT ![i] = next]
          BY <5>4 DEF Uploaded, Made, Succeeds, GivesUp, Fails, Goes
        <5> QED
          BY <3>8, <5>1, <5>2, <5>3, <5>4
      <4> QED
        BY <2>0, <4>1 DEF JobsOK
    <3>9. ASSUME NEW i \in Jobs, NEW s \in Sets,
                 \/ \E how \in {"push", "resume"} : StartPush(i, s, how)
                 \/ StartReconcile(i, s)
          PROVE  FALSE
      BY <2>0, <3>9 DEF StartPush, StartReconcile, Runs, JobsOK
    <3>10. PICK i \in Jobs : Plans(i)
      BY <3>1, <3>2, <3>3, <3>4, <3>5, <3>6, <3>7, <3>8, <3>9 DEF Next, Handles
    <3>11. \E next \in {"failed", "census"} : pc' = [pc EXCEPT ![i] = next]
      BY <3>10 DEF Plans, Goes
    <3> QED
      BY <2>0, <3>10, <3>11 DEF JobsOK
  <2> DEFINE Bound == Attempts(of[j], j, planned')
  <2>2. PICK version :
          /\ pages' = [pages EXCEPT ![j] = version] /\ planned' = planned \union {j}
          /\ ~\E i \in Earliest(Bound) : pages'[i] # version
    BY <2>0, <2>1 DEF Plans, Goes, JobsOK
  <2>3. PICK i \in Jobs \ {j} : of[i] = of[j] /\ i \in planned \ refused /\ kind[i] # "reconcile"
    BY DEF Payloads
  <2>4. i \in Bound
    <3>1. kind[i] \in {"push", "resume"}
      BY <2>0, <2>3 DEF JobsOK, Located
    <3> QED
      BY <2>2, <2>3, <3>1 DEF Attempts
  <2>5. Bound \subseteq Jobs \ {j}
    BY <2>0, <2>2 DEF Attempts, JobsOK
  <2>6. PICK first \in Earliest(Bound) : TRUE
    BY <2>4, <2>5, EarliestExists
  <2>7. first \in Jobs \ {j} /\ first \in planned \ refused /\ of[first] = of[j]
        /\ kind[first] # "reconcile"
    BY <2>2, <2>5, <2>6 DEF Earliest, Attempts
  <2>8. pages'[j] = pages[first]
    BY <2>0, <2>2, <2>6, <2>7 DEF JobsOK
  <2> QED
    BY <2>7, <2>8 DEF Payloads
<1> QED
  BY <1>1, AlwaysTyped, PTL DEF Spec, ResumeRepeats

-----------------------------------------------------------------------------
(* The pushes implement SyncedFamilies: what a step does to its variables. *)

Active == Awaiting \union {"publish"}
Pushing == [j \in Jobs |-> IF j \in Running THEN of[j] ELSE "none"]
IsSynced == [k \in Skus |-> syncStatus[k] = "synced"]
Marked == [k \in Skus |-> <<pointer[k].by, pointer[k].pages>>]

LEMMA SameIndex ==
  ASSUME UNCHANGED <<syncStatus, pointer>>
  PROVE  IsSynced' = IsSynced /\ Marked' = Marked
BY DEF IsSynced, Marked

LEMMA SamePushing ==
  ASSUME UNCHANGED of, \A j \in Jobs : pc'[j] \in Active <=> pc[j] \in Active
  PROVE  Pushing' = Pushing
BY DEF Pushing, Running, Active

LEMMA PushingSet ==
  ASSUME Typed, NEW j \in Jobs, pc[j] \in Active
  PROVE  j \in Running /\ of[j] \in Sets /\ of[j] # "none" /\ Pushing[j] = of[j]
BY PushConstants DEF Typed, JobsOK, Active, Awaiting, Running, Pushing

(* A handler that goes on, or ends without a mark. *)
LEMMA GoesOn ==
  ASSUME Typed, NEW j \in Jobs, pc[j] \in Active, NEW next \in Active \union {"failed"},
         Goes(j, next), UNCHANGED <<cat, syncStatus, pointer, seen, of>>
  PROVE  [Synced!Next]_(Synced!vars)
<1>1. pc' = [pc EXCEPT ![j] = next] /\ pc \in [Jobs -> Active \union {"idle", "succeeded", "failed", "lost"}]
  BY DEF Goes, Typed, JobsOK, Active
<1>2. IsSynced' = IsSynced /\ Marked' = Marked
  BY SameIndex
<1>3. CASE next \in Active
  <2>1. Pushing' = Pushing
    BY <1>1, <1>3, SamePushing
  <2> QED
    BY <1>2, <2>1 DEF Synced!vars, IsSynced, Marked, Pushing
<1>4. CASE next = "failed"
  <2>1. \A i \in Jobs : i \in Running' <=> i \in Running /\ i # j
    BY <1>1, <1>4 DEF Running, Active, Awaiting
  <2>2. Pushing' = [Pushing EXCEPT ![j] = "none"]
    BY <2>1 DEF Pushing
  <2>3. j \in Synced!UnderWay
    BY PushingSet DEF Synced!UnderWay, Pushing
  <2>4. Synced!Fails(j)
    BY <1>2, <2>2 DEF Synced!Fails, IsSynced, Marked, Pushing
  <2> QED
    BY <2>3, <2>4 DEF Synced!Next
<1> QED
  BY <1>3, <1>4

(* The marks of a job whose payload the store has held. *)
LEMMA MarksWritten ==
  ASSUME Typed, NEW j \in Jobs, pc[j] \in Active, pages[j] # 0,
         NEW products \in SUBSET Skus, MarksAs(j, products)
  PROVE  /\ pages[j] \in 1..MaxPages
         /\ Marked' = [k \in Skus |-> IF k \in products THEN <<of[j], pages[j]>> ELSE Marked[k]]
         /\ IsSynced' = [k \in Skus |-> k \in products \/ IsSynced[k]]
<1>1. pages[j] \in 1..MaxPages
  BY DEF Typed, JobsOK
<1>2. ASSUME NEW k \in Skus
      PROVE  /\ k \in products => pointer'[k].by = of[j] /\ pointer'[k].pages = pages[j]
                                 /\ syncStatus'[k] = "synced"
             /\ k \notin products => pointer'[k] = pointer[k] /\ syncStatus'[k] = syncStatus[k]
  BY DEF MarksAs, Record
<1>3. Marked' = [k \in Skus |-> IF k \in products THEN <<of[j], pages[j]>> ELSE Marked[k]]
  BY <1>2 DEF Marked
<1>4. IsSynced' = [k \in Skus |-> k \in products \/ IsSynced[k]]
  BY <1>2 DEF IsSynced
<1> QED
  BY <1>1, <1>3, <1>4

LEMMA Completing ==
  ASSUME Typed, NEW j \in Jobs, pc[j] \in Active, pages[j] # 0, <<of[j], pages[j]>> \in seen,
         MarksAs(j, Writes[of[j]]), Goes(j, "succeeded"), UNCHANGED <<cat, seen, of>>
  PROVE  Synced!Next
<1> DEFINE W == Writes[of[j]]
<1>1. Pushing[j] = of[j] /\ of[j] # "none" /\ W \in SUBSET Skus
  BY PushingSet, PushConstants
<1>2. /\ pages[j] \in 1..MaxPages
      /\ Marked' = [k \in Skus |-> IF k \in W THEN <<of[j], pages[j]>> ELSE Marked[k]]
      /\ IsSynced' = [k \in Skus |-> k \in W \/ IsSynced[k]]
  <2>1. ASSUME NEW P \in SUBSET Skus, P = W
        PROVE  MarksAs(j, P)
    BY <2>1 DEF MarksAs
  <2> QED
    BY <1>1, <2>1, MarksWritten
<1>3. \A i \in Jobs : i \in Running' <=> i \in Running /\ i # j
  BY DEF Goes, Running, Active, Awaiting, Typed, JobsOK
<1>4. Pushing' = [Pushing EXCEPT ![j] = "none"]
  BY <1>3 DEF Pushing
<1>5. j \in Synced!UnderWay
  BY <1>1 DEF Synced!UnderWay, Pushing
<1>6. Synced!Completes(j)
  BY <1>1, <1>2, <1>4 DEF Synced!Completes, Synced!Marks, Pushing, Marked, IsSynced
<1> QED
  BY <1>5, <1>6 DEF Synced!Next

(* A start: the gates compare the products of the set with the approved commit. *)
LEMMA Beginning ==
  ASSUME Typed, Current, NEW j \in Jobs, NEW s \in Sets,
         NEW how \in {"push", "resume", "reconcile"}, NEW next \in {"preflight", "check"},
         Runs(j, s, how, next), UNCHANGED <<cat, syncStatus, pointer, seen>>
  PROVE  Synced!Next
<1>1. /\ pc[j] = "idle" /\ pc'[j] = next /\ of'[j] = s
      /\ \A i \in Jobs \ {j} : pc'[i] = pc[i] /\ of'[i] = of[i]
  BY RunsTyped
<1>2. \A k \in Writes[s] : cat[k] = s
  BY DEF Runs, Gates, Scope, Current
<1>3. Pushing' = [Pushing EXCEPT ![j] = s] /\ Pushing[j] = "none"
  BY <1>1 DEF Pushing, Running, Awaiting
<1>4. IsSynced' = IsSynced /\ Marked' = Marked
  BY SameIndex
<1>5. Synced!Begins(j, s)
  BY <1>2, <1>3, <1>4 DEF Synced!Begins, Pushing, IsSynced, Marked
<1> QED
  BY <1>5 DEF Synced!Next

LEMMA CrashEnds ==
  ASSUME WholeInv, Crash
  PROVE  Synced!Next
<1>0. Typed /\ Remembered
  BY DEF WholeInv
<1>1. UNCHANGED <<cat, of, seen>>
  BY DEF Crash, catalogue, records, history
<1>2. \A j \in Jobs : j \notin Running'
  BY <1>0 DEF Crash, Running, Awaiting, Typed, JobsOK
<1>3. Pushing' = [j \in Jobs |-> "none"]
  BY <1>2 DEF Pushing
<1>4. CASE UNCHANGED index
  <2>1. IsSynced' = IsSynced /\ Marked' = Marked
    BY <1>4, SameIndex DEF index
  <2>2. Synced!ServerEnds
    BY <1>1, <1>3, <2>1 DEF Synced!ServerEnds, Pushing, IsSynced, Marked
  <2> QED
    BY <2>2 DEF Synced!Next
<1>5. ASSUME NEW j \in Running,
             \/ pc[j] = "publish"
             \/ pc[j] = "check" /\ Reconciled(of[j], pages[j], baseline[j]),
             NEW products \in SUBSET Writes[of[j]], MarksAs(j, products)
      PROVE  Synced!Next
  <2>1. j \in Jobs /\ pc[j] \in Active /\ pages[j] # 0 /\ <<of[j], pages[j]>> \in seen
    BY <1>0, <1>5, ReconciledIsSeen DEF Running, Active, Awaiting, Remembered, Typed, Located
  <2>2. Pushing[j] = of[j] /\ of[j] # "none" /\ products \in SUBSET Skus
    BY <1>0, <1>5, <2>1, PushingSet, PushConstants
  <2>3. Synced!Marks(j, products)
    BY <1>0, <1>1, <1>5, <2>1, <2>2, MarksWritten DEF Synced!Marks, Pushing, Marked, IsSynced
  <2>4. j \in Synced!UnderWay /\ products \in SUBSET Writes[Pushing[j]]
    BY <1>5, <2>1, <2>2 DEF Synced!UnderWay, Pushing
  <2>5. Synced!ServerEnds
    BY <1>3, <2>3, <2>4 DEF Synced!ServerEnds, Pushing
  <2> QED
    BY <2>5 DEF Synced!Next
<1> QED
  BY <1>4, <1>5 DEF Crash

LEMMA NextKeepsSynced ==
  ASSUME WholeInv, ApprovedInv, WorldOK', [Next]_vars
  PROVE  [Synced!Next]_(Synced!vars)
<1> USE DEF catalogue, index, records, store, counts, history
<1>0. Typed /\ WorldOK /\ JobsOK /\ Located /\ Remembered /\ Current
  BY DEF WholeInv, ApprovedInv, Typed
<1>q. ASSUME UNCHANGED <<cat, syncStatus, pointer, of, pc>>, seen' = seen
      PROVE  UNCHANGED Synced!vars
  BY <1>q, SameIndex, SamePushing DEF Synced!vars, IsSynced, Marked, Pushing
<1>h. ASSUME UNCHANGED <<cat, syncStatus, pointer, of, pc>>, Remembers
      PROVE  Synced!Next
  <2>1. IsSynced' = IsSynced /\ Marked' = Marked /\ Pushing' = Pushing
    BY <1>h, SameIndex, SamePushing
  <2>2. seen \subseteq seen' /\ seen' \subseteq Sets \X (1..MaxPages)
    BY <1>h, RemembersHeld DEF WorldOK
  <2>3. Synced!Holds
    BY <1>h, <2>1, <2>2 DEF Synced!Holds, Synced!Payloads, IsSynced, Marked, Pushing
  <2> QED
    BY <2>3 DEF Synced!Next
<1>1. CASE \/ \E s \in Sets : Stages(s) \/ Discards(s)
           \/ \E k \in Skus : DriftSettled(k)
           \/ \E j \in Jobs : StoreHolds(j) \/ StoreAnswersPages(j)
           \/ UNCHANGED vars
  BY <1>1, <1>q DEF Stages, Discards, DriftSettled, StoreHolds, StoreAnswersPages, vars
<1>2. ASSUME NEW s \in Sets, Approves(s) PROVE Synced!Next
  <2>1. IsSynced' = [k \in Skus |-> IsSynced[k] /\ k \notin Writes[s]]
    BY <1>2 DEF Approves, IsSynced
  <2>2. Marked' = Marked /\ Pushing' = Pushing
    BY <1>2, SamePushing DEF Approves, Marked
  <2>3. seen \subseteq seen' /\ seen' \subseteq Sets \X (1..MaxPages)
    BY <1>2, RemembersHeld DEF WorldOK, Approves
  <2>4. Synced!Approves(s)
    BY <1>2, <2>1, <2>2, <2>3 DEF Approves, Synced!Approves, Synced!Payloads, IsSynced, Marked, Pushing
  <2> QED
    BY <2>4 DEF Synced!Next
<1>3. ASSUME NEW k \in Skus, DriftFound(k) PROVE Synced!Next
  <2>1. IsSynced' = [IsSynced EXCEPT ![k] = FALSE]
    BY <1>0, <1>3 DEF DriftFound, IsSynced, WorldOK
  <2>2. Marked' = Marked /\ Pushing' = Pushing
    BY <1>3, SamePushing DEF DriftFound, Marked
  <2>3. Synced!Drifts(k)
    BY <1>3, <2>1, <2>2 DEF DriftFound, Synced!Drifts, IsSynced, Marked, Pushing
  <2> QED
    BY <2>3 DEF Synced!Next
<1>4. CASE \/ \E k \in Skus : MerchantEdits(k)
           \/ MerchantRenames \/ \E j \in Jobs : StoreImports(j)
  BY <1>4, <1>h DEF MerchantEdits, MerchantRenames, StoreImports, Happens
<1>5. ASSUME NEW j \in Jobs,
             Plans(j) \/ Counts(j) \/ Uploaded(j) \/ Made(j) \/ Verifies(j) \/ GivesUp(j)
      PROVE  [Synced!Next]_(Synced!vars)
  <2>1. UNCHANGED <<cat, syncStatus, pointer, seen, of>>
    BY <1>5 DEF Plans, Counts, Uploaded, Made, Verifies, GivesUp
  <2>2. pc[j] \in Active /\ \E next \in Active \union {"failed"} : Goes(j, next)
    BY <1>5 DEF Plans, Counts, Uploaded, Made, Verifies, GivesUp, Fails, Active, Awaiting
  <2> QED
    BY <1>0, <2>1, <2>2, GoesOn
<1>6. ASSUME NEW j \in Jobs, Succeeds(j) PROVE Synced!Next
  <2>1. pc[j] \in Active /\ pages[j] # 0 /\ <<of[j], pages[j]>> \in seen
    BY <1>0, <1>6 DEF Succeeds, Active, Remembered, Located
  <2> QED
    BY <1>0, <1>6, <2>1, Completing DEF Succeeds
<1>7. ASSUME NEW j \in Jobs, Checks(j) PROVE [Synced!Next]_(Synced!vars)
  <2>1. pc[j] = "check" /\ pc[j] \in Active /\ pages[j] # 0
    BY <1>0, <1>7 DEF Checks, Active, Awaiting, Located
  <2>2. CASE Reconciled(of[j], pages[j], baseline[j])
    <3>1. <<of[j], pages[j]>> \in seen
      BY <1>0, <2>1, <2>2, ReconciledIsSeen
    <3> QED
      BY <1>0, <1>7, <2>1, <2>2, <3>1, Completing DEF Checks
  <2>3. CASE ~Reconciled(of[j], pages[j], baseline[j])
    <3>1. "failed" \in Active \union {"failed"}
      OBVIOUS
    <3> QED
      BY <1>0, <1>7, <2>1, <2>3, <3>1, GoesOn DEF Checks
  <2> QED
    BY <2>2, <2>3
<1>8. ASSUME NEW j \in Jobs, NEW s \in Sets,
             StartReconcile(j, s) \/ \E how \in {"push", "resume"} : StartPush(j, s, how)
      PROVE  Synced!Next
  <2>1. UNCHANGED <<cat, syncStatus, pointer, seen>>
    BY <1>8 DEF StartReconcile, StartPush
  <2>2. \E how \in {"push", "resume", "reconcile"}, next \in {"preflight", "check"} : Runs(j, s, how, next)
    BY <1>8 DEF StartReconcile, StartPush
  <2> QED
    BY <1>0, <2>1, <2>2, Beginning
<1>9. CASE Crash
  BY <1>9, CrashEnds
<1> QED
  BY <1>1, <1>2, <1>3, <1>4, <1>5, <1>6, <1>7, <1>8, <1>9 DEF Next, Handles

(* Push, resume and reconcile keep the promise of SyncedFamilies: every mark is of an     *)
(* operation that began with approved content and of a payload the store had held whole   *)
(* before, whatever was approved, edited, lost or imported late in between.               *)
THEOREM PushesKeepSynced == Spec => KeepsSynced
<1>1. Init => Synced!Init
  <2> SUFFICES ASSUME Init PROVE Synced!Init
    OBVIOUS
  <2>1. IsSynced \in [Skus -> BOOLEAN]
    BY DEF IsSynced
  <2>2. seen \subseteq Sets \X (1..MaxPages)
    BY DEF Init
  <2>3. Pushing = [j \in Jobs |-> "none"]
    BY DEF Init, Pushing, Running, Awaiting
  <2>4. \A k \in Skus : cat[k] \notin Sets /\ Marked[k] \notin Sets \X (1..MaxPages)
    BY PushConstants DEF Init, Marked, Record
  <2> QED
    BY <2>1, <2>2, <2>3, <2>4 DEF Synced!Init, Synced!Payloads, IsSynced, Pushing, Marked
<1>2. WholeInv /\ ApprovedInv /\ [Next]_vars => [Synced!Next]_(Synced!vars)
  <2>1. WholeInv /\ [Next]_vars => WorldOK'
    BY TypedKept DEF WholeInv, Typed
  <2> QED
    BY <2>1, NextKeepsSynced
<1>3. Init => WholeInv /\ ApprovedInv
  BY InitWhole, InitApproved
<1> QED
  BY <1>1, <1>2, <1>3, WholeKept, ApprovedKept, PTL DEF Spec, KeepsSynced, Synced!Spec
=============================================================================
