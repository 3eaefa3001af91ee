----------------------------- MODULE PaidEffects -----------------------------
(***************************************************************************)
(* The budget of paid provider calls in a qualification run                *)
(* (src/ai/paid-effect-budget.ts) and its ledger                           *)
(* (src/db/repositories/qualification-run-budget-repo.ts).  Child          *)
(* processes make the calls; before each one they reserve its maximum      *)
(* charge and mark it dispatched, by messages to the one parent that       *)
(* writes the ledger.  A child may give up waiting for an answer while its *)
(* request is still in the pipe, may die, and may replay an attempt; the   *)
(* parent may close the run, lose its journal, or restart on the ledger.   *)
(***************************************************************************)
EXTENDS Naturals, FiniteSets, Sequences

CONSTANTS
  Calls,         \* the calls of runPaidEffect
  Keys, KeyOf,   \* the idempotency key of each call; a replay shares its key
  Doubtful,      \* the calls whose descriptor may not match the contract
  Cancellable,   \* the calls whose caller may abort them
  Contracts, ContractOf,
  MaxCharge,     \* maxChargeMicros of each contract
  Pool,          \* cumulativeMaxUnits of each contract; a call takes one unit
  Ceiling,       \* approvedCeilingMicros
  MaxFaults      \* how often a process or the journal may fail

ASSUME BudgetConstants ==
  /\ IsFiniteSet(Keys)
  /\ KeyOf \in [Calls -> Keys] /\ Doubtful \subseteq Calls /\ Cancellable \subseteq Calls
  /\ ContractOf \in [Keys -> Contracts]
  /\ MaxCharge \in [Contracts -> Nat] /\ Pool \in [Contracts -> Nat]
  /\ Ceiling \in Nat /\ MaxFaults \in Nat

VARIABLES
  auth,      \* paid_effect_authorizations.state
  state,     \* paid_effect_reservations.state of each key; "none" is no row
  cost,      \* actual_cost_micros (0 while NULL)
  why,       \* release_reason
  stopped,   \* the parent's PaidEffectBudgetCoordinator.stopped
  healthy,   \* and its healthy
  call,      \* what each call awaits
  aborted,   \* the calls whose signal has aborted
  wire,      \* the requests of each call that the parent has not read
  reply,     \* the answer to the request the call awaits
  ran,       \* how often each key's execute was called
  faults     \* the failures so far

ledger == <<auth, state, cost, why>>
parent == <<stopped, healthy, faults>>
child == <<call, aborted, ran>>
vars == <<ledger, parent, child, wire, reply>>

-----------------------------------------------------------------------------
Operations == {"reserve", "mark", "settle", "release"}
(* "again" is the release of the catch block. *)
Awaited(c) == IF call[c] = "again" THEN "release" ELSE call[c]

Max(k) == MaxCharge[ContractOf[k]]

(* checkedSum: what the row of a key holds of the ceiling, then the sum.   *)
Owed(k) == CASE state[k] \in {"reserved", "dispatched"} -> Max(k)
             [] state[k] = "settled" -> cost[k]
             [] OTHER -> 0
Liabilities == UNION {{k} \X (1..Owed(k)) : k \in Keys}
Total == Cardinality(Liabilities)

(* Units are not given back by a bill. *)
Drawn(contract) ==
  {k \in Keys : ContractOf[k] = contract /\ state[k] \notin {"none", "released"}}

(* Fault for CeilingHolds: calls on their way are not counted. *)
RoomForUndispatched(k) ==
  /\ Cardinality(Drawn(ContractOf[k])) < Pool[ContractOf[k]]
  /\ Cardinality({l \in Liabilities : state[l[1]] # "dispatched"}) + Max(k) <= Ceiling

(* Fault for PoolHolds: the call that takes the last unit is let through. *)
RoomForOneMore(k) ==
  /\ Cardinality(Drawn(ContractOf[k])) <= Pool[ContractOf[k]]
  /\ Total + Max(k) <= Ceiling

Room(k) ==
  /\ Cardinality(Drawn(ContractOf[k])) < Pool[ContractOf[k]]
  /\ Total + Max(k) <= Ceiling

Init ==
  /\ auth = "active" /\ state = [k \in Keys |-> "none"]
  /\ cost = [k \in Keys |-> 0] /\ why = [k \in Keys |-> "none"]
  /\ stopped = FALSE /\ healthy = TRUE /\ faults = 0
  /\ call = [c \in Calls |-> "idle"] /\ aborted = {}
  /\ wire = [c \in Calls |-> <<>>] /\ reply = [c \in Calls |-> "none"]
  /\ ran = [k \in Keys |-> 0]

-----------------------------------------------------------------------------
(* The parent reads the oldest request of a child: handleRequest.          *)

(* Fault for CallsEnd: a refusal is not sent back. *)
AnswersOnlyGrants(c, op, answer) ==
  /\ wire' = [wire EXCEPT ![c] = Tail(@)]
  /\ reply' = [reply EXCEPT ![c] = IF Awaited(c) = op /\ answer = "ok" THEN answer ELSE @]

(* An answer nobody waits for is dropped. *)
Answers(c, op, answer) ==
  /\ wire' = [wire EXCEPT ![c] = Tail(@)]
  /\ reply' = [reply EXCEPT ![c] = IF Awaited(c) = op THEN answer ELSE @]

Asked(c, op) == wire[c] # <<>> /\ Head(wire[c]) = op
Open == healthy /\ ~stopped /\ auth = "active"
Fails == faults < MaxFaults /\ faults' = faults + 1

Reserves(c) ==
  LET k == KeyOf[c] IN
  /\ Asked(c, "reserve") /\ Open
  /\ state[k] = "none" /\ Room(k)
  /\ state' = [state EXCEPT ![k] = "reserved"]
  /\ Answers(c, "reserve", "ok")
  /\ UNCHANGED <<auth, cost, why, parent, child>>

(* A row that is there is returned, whatever its state. *)
FindsReservation(c) ==
  /\ Asked(c, "reserve") /\ Open
  /\ state[KeyOf[c]] # "none"
  /\ Answers(c, "reserve", "ok")
  /\ UNCHANGED <<ledger, parent, child>>

RefusesReserve(c) ==
  /\ Asked(c, "reserve")
  /\ ~Open \/ (state[KeyOf[c]] = "none" /\ ~Room(KeyOf[c]))
  /\ Answers(c, "reserve", "refused")
  /\ UNCHANGED <<ledger, parent, child>>

(* The coordinator stops; the ledger does not hear of it. *)
FindsBadDescriptor(c) ==
  /\ Asked(c, "reserve") /\ Open /\ c \in Doubtful
  /\ stopped' = TRUE
  /\ Answers(c, "reserve", "refused")
  /\ UNCHANGED <<ledger, healthy, faults, child>>

(* Fault for SpentOnce: a row that is dispatched already may be marked. *)
MarkedIn(k) == state[k] \in {"reserved", "dispatched"}

Markable(k) == state[k] = "reserved"

Marks(c) ==
  LET k == KeyOf[c] IN
  /\ Asked(c, "mark") /\ Open /\ Markable(k)
  /\ state' = [state EXCEPT ![k] = "dispatched"]
  /\ Answers(c, "mark", "ok")
  /\ UNCHANGED <<auth, cost, why, parent, child>>

RefusesMark(c) ==
  /\ Asked(c, "mark") /\ ~(Open /\ Markable(KeyOf[c]))
  /\ Answers(c, "mark", "refused")
  /\ UNCHANGED <<ledger, parent, child>>

(* The child's own evidence is an observation: the row stays dispatched. *)
Observes(c) ==
  /\ Asked(c, "settle")
  /\ Answers(c, "settle", IF healthy /\ state[KeyOf[c]] = "dispatched" THEN "ok" ELSE "refused")
  /\ UNCHANGED <<ledger, parent, child>>

(* Fault for SpentIsCounted: what was dispatched is released as well. *)
ReleasableUnsettled(k) == state[k] \in {"reserved", "dispatched"}

Releasable(k) == state[k] = "reserved"

Releases(c) ==
  LET k == KeyOf[c] IN
  /\ Asked(c, "release") /\ healthy /\ Releasable(k)
  /\ state' = [state EXCEPT ![k] = "released"]
  /\ why' = [why EXCEPT ![k] = "cancelled"]
  /\ Answers(c, "release", "ok")
  /\ UNCHANGED <<auth, cost, parent, child>>

AnswersRelease(c) ==
  LET k == KeyOf[c] IN
  /\ Asked(c, "release") /\ ~(healthy /\ Releasable(k))
  /\ Answers(c, "release",
       IF healthy /\ state[k] = "released" /\ why[k] = "cancelled" THEN "ok" ELSE "refused")
  /\ UNCHANGED <<ledger, parent, child>>

(* The transaction rolls back and the coordinator refuses from then on. *)
JournalFails(c) ==
  /\ wire[c] # <<>> /\ healthy /\ Fails
  /\ ~(stopped /\ Head(wire[c]) \in {"reserve", "mark"})   \* no query is made
  /\ healthy' = FALSE
  /\ Answers(c, Head(wire[c]), "refused")
  /\ UNCHANGED <<ledger, stopped, child>>

Reads(c) ==
  \/ Reserves(c) \/ FindsReservation(c) \/ RefusesReserve(c) \/ FindsBadDescriptor(c)
  \/ Marks(c) \/ RefusesMark(c) \/ Observes(c) \/ Releases(c) \/ AnswersRelease(c)
  \/ JournalFails(c)

-----------------------------------------------------------------------------
(* The parent's own operations. *)

(* Fault for ClosedOnlyShrinks: reservations outlive the authorization. *)
EndsKeepingReservations(how) ==
  /\ auth' = IF auth = "active" THEN how ELSE auth
  /\ UNCHANGED <<state, why>>

(* Fault for TypeOK: a row is released without a reason. *)
EndsUnexplained(how) ==
  /\ auth' = IF auth = "active" THEN how ELSE auth
  /\ state' = [k \in Keys |-> IF state[k] = "reserved" THEN "released" ELSE state[k]]
  /\ UNCHANGED why

(* close and closeForDrift; in a ledger that is not active nothing is reserved. *)
Ends(how) ==
  /\ auth' = IF auth = "active" THEN how ELSE auth
  /\ state' = [k \in Keys |-> IF state[k] = "reserved" THEN "released" ELSE state[k]]
  /\ why' = [k \in Keys |-> IF state[k] = "reserved" THEN how ELSE why[k]]

Closes ==
  /\ ~stopped
  /\ stopped' = TRUE /\ Ends("closed")
  /\ UNCHANGED <<cost, healthy, faults, child, wire, reply>>

(* Evidence of what a call cost; more than its contract allows is drift. *)
Bills(k) ==
  /\ healthy /\ state[k] = "dispatched" /\ ran[k] > 0
  /\ \E n \in 0..Max(k) :
       /\ state' = [state EXCEPT ![k] = "settled"]
       /\ cost' = [cost EXCEPT ![k] = n]
  /\ UNCHANGED <<auth, why, parent, child, wire, reply>>

BillsTooMuch(k) ==
  /\ healthy /\ state[k] = "dispatched" /\ ran[k] > 0
  /\ stopped' = TRUE /\ Ends("drifted")
  /\ UNCHANGED <<cost, healthy, faults, child, wire, reply>>

(* The journal fails in close, which has stopped already, or in settle or snapshot. *)
ParentFails ==
  /\ Fails
  /\ \/ ~stopped /\ stopped' = TRUE /\ UNCHANGED healthy
     \/ healthy /\ healthy' = FALSE /\ UNCHANGED stopped
  /\ UNCHANGED <<ledger, child, wire, reply>>

(* A new coordinator on the same ledger; the children of the old are gone. *)
Restarts ==
  /\ Fails
  /\ stopped' = (auth # "active") /\ healthy' = TRUE
  /\ call' = [c \in Calls |-> IF call[c] = "idle" THEN "idle" ELSE "ended"]
  /\ wire' = [c \in Calls |-> <<>>] /\ reply' = [c \in Calls |-> "none"]
  /\ UNCHANGED <<ledger, aborted, ran>>

-----------------------------------------------------------------------------
(* The child: runPaidEffect. *)

Asks(c, op) ==
  /\ wire' = [wire EXCEPT ![c] = Append(@, op)]
  /\ reply' = [reply EXCEPT ![c] = "none"]

Awaits(c, next) == call' = [call EXCEPT ![c] = next]

Stops(c) == Awaits(c, "ended") /\ reply' = [reply EXCEPT ![c] = "none"]

Starts(c) ==
  /\ call[c] = "idle"
  /\ Awaits(c, "reserve") /\ Asks(c, "reserve")
  /\ UNCHANGED <<ledger, parent, aborted, ran>>

(* The first request is not sent when the reservation is refused. *)
GetsReservation(c) ==
  /\ call[c] = "reserve" /\ reply[c] # "none"
  /\ LET next == IF c \in aborted THEN "release" ELSE "mark" IN
     IF reply[c] = "refused" THEN Stops(c) /\ UNCHANGED wire
     ELSE Awaits(c, next) /\ Asks(c, next)
  /\ UNCHANGED <<ledger, parent, aborted, ran>>

Executes(c) ==
  /\ call[c] = "mark" /\ reply[c] = "ok" /\ c \notin aborted
  /\ Awaits(c, "execute")
  /\ ran' = [ran EXCEPT ![KeyOf[c]] = @ + 1]
  /\ UNCHANGED <<ledger, parent, aborted, wire, reply>>

(* Cancelled after the mark: neither executed nor settled nor released. *)
StopsAfterMark(c) ==
  /\ call[c] = "mark" /\ reply[c] # "none"
  /\ \/ reply[c] = "ok" /\ c \in aborted
     \/ reply[c] = "refused" /\ c \notin aborted
  /\ Stops(c)
  /\ UNCHANGED <<ledger, parent, aborted, ran, wire>>

(* The catch block: no dispatch was confirmed, so the row is released.     *)
ReleasesUnmarked(c) ==
  /\ c \in aborted
  /\ \/ call[c] = "mark" /\ reply[c] # "ok"    \* refused, or not waited for
     \/ call[c] = "release" /\ reply[c] # "none"
  /\ Awaits(c, "again") /\ Asks(c, "release")
  /\ UNCHANGED <<ledger, parent, aborted, ran>>

(* The provider answered or failed. *)
Finishes(c) ==
  /\ call[c] = "execute"
  /\ Awaits(c, "settle") /\ Asks(c, "settle")
  /\ UNCHANGED <<ledger, parent, aborted, ran>>

Returns(c) ==
  /\ call[c] \in {"settle", "again"} /\ reply[c] # "none"
  /\ Stops(c)
  /\ UNCHANGED <<ledger, parent, aborted, ran, wire>>

(* The transport rejects what an aborted call still waits for. *)
GivesUpReserving(c) ==
  /\ c \in aborted /\ call[c] = "reserve" /\ reply[c] = "none"
  /\ Stops(c)
  /\ UNCHANGED <<ledger, parent, aborted, ran, wire>>

Aborts(c) ==
  /\ call[c] \notin {"idle", "ended"} /\ c \in Cancellable \ aborted
  /\ aborted' = aborted \union {c}
  /\ UNCHANGED <<ledger, parent, call, ran, wire, reply>>

(* The child dies or loses its pipe; what it wrote may still be read. *)
Dies(c) ==
  /\ call[c] \notin {"idle", "ended"} /\ Fails
  /\ Stops(c)
  /\ UNCHANGED <<ledger, stopped, healthy, aborted, ran, wire>>

Steps(c) ==
  \/ GetsReservation(c) \/ Executes(c) \/ StopsAfterMark(c) \/ ReleasesUnmarked(c)
  \/ Finishes(c) \/ Returns(c) \/ GivesUpReserving(c)

-----------------------------------------------------------------------------
Next ==
  \/ Closes \/ ParentFails \/ Restarts
  \/ \E k \in Keys : Bills(k) \/ BillsTooMuch(k)
  \/ \E c \in Calls : Reads(c) \/ Starts(c) \/ Steps(c) \/ Aborts(c) \/ Dies(c)

(* The parent reads on while there are lines, and some child goes on while  *)
(* one can: a provider call has a time limit, and the rest is their code.  *)
Fairness ==
  /\ WF_vars(\E c \in Calls : Reads(c))
  /\ WF_vars(\E c \in Calls : Steps(c))

Spec == Init /\ [][Next]_vars /\ Fairness

-----------------------------------------------------------------------------
(* Types; a row has a reason when it is released and a cost when it is settled. *)
TypeOK ==
  /\ auth \in {"active", "closed", "drifted"}
  /\ state \in [Keys -> {"none", "reserved", "dispatched", "settled", "released"}]
  /\ cost \in [Keys -> Nat]
  /\ why \in [Keys -> {"none", "cancelled", "closed", "drifted"}]
  /\ \A k \in Keys : /\ why[k] # "none" <=> state[k] = "released"
                     /\ cost[k] # 0 => state[k] = "settled" /\ cost[k] <= Max(k)
  /\ stopped \in BOOLEAN /\ healthy \in BOOLEAN /\ faults \in 0..MaxFaults
  /\ call \in [Calls -> {"idle", "reserve", "release", "mark", "again", "execute",
                         "settle", "ended"}]
  /\ aborted \subseteq Calls
  /\ wire \in [Calls -> Seq(Operations)]
  /\ reply \in [Calls -> {"none", "ok", "refused"}]
  /\ ran \in [Keys -> Nat]

(* Whatever is lost, replayed, cancelled or restarted, what is reserved,   *)
(* what is dispatched at an unknown cost and what is billed never exceed   *)
(* the approved ceiling together: the snapshot's own assertion             *)
(* (paid_effect_journal_ceiling_invariant_broken) never fails.             *)
CeilingHolds == Total <= Ceiling

(* And never more units than the contract's pool has. *)
PoolHolds == \A p \in Contracts : Cardinality(Drawn(p)) <= Pool[p]

(* Money that was spent is on the books: a call that was made has a row    *)
(* that is dispatched or settled, though its child may have given up, died *)
(* or asked for a release of it.                                           *)
SpentIsCounted == \A k \in Keys : ran[k] > 0 => state[k] \in {"dispatched", "settled"}

(* One attempt is made once, however often its key is replayed. *)
SpentOnce == \A k \in Keys : ran[k] <= 1

(* Once the authorization has ended it stays ended, nothing is reserved,   *)
(* and no row ever holds more of the ceiling than it did.                  *)
ClosedOnlyShrinks ==
  [][auth # "active" =>
       /\ auth' = auth
       /\ \A k \in Keys : state'[k] # "reserved" /\ Owed(k)' <= Owed(k)]_vars

(* Every call ends: the parent answers what it reads, refusals included.   *)
CallsEnd == <>[](\A c \in Calls : call[c] \in {"idle", "ended"})

Cap == INSTANCE SpendingCap WITH
  MaxCharge <- [k \in Keys |-> Max(k)],
  aside <- [k \in Keys |-> Owed(k)], ran <- ran

(* The ledger and its clients keep the promise of SpendingCap. *)
KeepsTheCap == Cap!Spec
=============================================================================
