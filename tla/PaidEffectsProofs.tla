-------------------------- MODULE PaidEffectsProofs --------------------------
(***************************************************************************)
(* Proofs about PaidEffects, for any calls, keys, contracts and ceiling:   *)
(* the ledger's rows, the money they hold, the calls that were made, and   *)
(* the abstract spending cap they implement.                               *)
(***************************************************************************)
EXTENDS PaidEffects, FiniteSetTheorems, SequenceTheorems, TLAPS

LEMMA MaxType == \A k \in Keys : Max(k) \in Nat
BY BudgetConstants DEF Max

(* What a step does to the ledger. *)
LedgerStep ==
  \/ UNCHANGED ledger
  \/ \E c \in Calls : Reserves(c) \/ Marks(c) \/ Releases(c)
  \/ \E k \in Keys : Bills(k)
  \/ \E how \in {"closed", "drifted"} : Ends(how) /\ UNCHANGED cost

LEMMA LedgerSteps ==
  ASSUME [Next]_vars
  PROVE  LedgerStep
<1>1. CASE UNCHANGED vars
  BY <1>1 DEF vars, LedgerStep
<1>2. CASE Closes \/ ParentFails \/ Restarts
  BY <1>2 DEF Closes, ParentFails, Restarts, LedgerStep
<1>3. ASSUME NEW k \in Keys, Bills(k) \/ BillsTooMuch(k)
      PROVE  LedgerStep
  BY <1>3 DEF BillsTooMuch, LedgerStep
<1>4. ASSUME NEW c \in Calls, Reads(c)
      PROVE  LedgerStep
  BY <1>4 DEF Reads, FindsReservation, RefusesReserve, FindsBadDescriptor, RefusesMark,
     Observes, AnswersRelease, JournalFails, LedgerStep
<1>5. ASSUME NEW c \in Calls, Starts(c) \/ Steps(c) \/ Aborts(c) \/ Dies(c)
      PROVE  LedgerStep
  BY <1>5 DEF Starts, Steps, GetsReservation, Executes, StopsAfterMark, ReleasesUnmarked,
     Finishes, Returns, GivesUpReserving, Aborts, Dies, LedgerStep
<1> QED
  BY <1>1, <1>2, <1>3, <1>4, <1>5 DEF Next

-----------------------------------------------------------------------------
(* The rows. *)
RowStates == {"none", "reserved", "dispatched", "settled", "released"}
Reasons == {"none", "cancelled", "closed", "drifted"}

(* The part of TypeOK about the ledger. *)
RowsOK ==
  /\ auth \in {"active", "closed", "drifted"}
  /\ state \in [Keys -> RowStates] /\ cost \in [Keys -> Nat] /\ why \in [Keys -> Reasons]
  /\ \A k \in Keys : /\ why[k] # "none" <=> state[k] = "released"
                     /\ cost[k] # 0 => state[k] = "settled" /\ cost[k] <= Max(k)

LEMMA RowsType ==
  ASSUME RowsOK, LedgerStep
  PROVE  RowsOK'
<1> USE BudgetConstants DEF RowStates, Reasons
<1>1. CASE UNCHANGED ledger
  BY <1>1 DEF ledger, RowsOK, Max
<1>2. ASSUME NEW c \in Calls, Reserves(c)
      PROVE  RowsOK'
  BY <1>2 DEF Reserves, RowsOK, Max
<1>3. ASSUME NEW c \in Calls, Marks(c)
      PROVE  RowsOK'
  BY <1>3 DEF Marks, Markable, RowsOK, Max
<1>4. ASSUME NEW c \in Calls, Releases(c)
      PROVE  RowsOK'
  BY <1>4 DEF Releases, Releasable, RowsOK, Max
<1>5. ASSUME NEW k \in Keys, Bills(k)
      PROVE  RowsOK'
  BY <1>5, MaxType DEF Bills, RowsOK, Max
<1>6. ASSUME NEW how \in {"closed", "drifted"}, Ends(how), UNCHANGED cost
      PROVE  RowsOK'
  BY <1>6 DEF Ends, RowsOK, Max
<1> QED
  BY <1>1, <1>2, <1>3, <1>4, <1>5, <1>6 DEF LedgerStep

-----------------------------------------------------------------------------
(* The processes. *)
CallStates == {"idle", "reserve", "release", "mark", "again", "execute", "settle", "ended"}

(* The part of TypeOK about them. *)
ProcessesOK ==
  /\ stopped \in BOOLEAN /\ healthy \in BOOLEAN /\ faults \in 0..MaxFaults
  /\ call \in [Calls -> CallStates] /\ aborted \subseteq Calls
  /\ wire \in [Calls -> Seq(Operations)]
  /\ reply \in [Calls -> {"none", "ok", "refused"}]
  /\ ran \in [Keys -> Nat]

LEMMA Halves == TypeOK <=> RowsOK /\ ProcessesOK
BY DEF TypeOK, RowsOK, ProcessesOK, RowStates, Reasons, CallStates

LEMMA FailsType ==
  ASSUME ProcessesOK, Fails
  PROVE  faults' \in 0..MaxFaults
BY BudgetConstants DEF Fails, ProcessesOK

LEMMA AnswersType ==
  ASSUME ProcessesOK, NEW c \in Calls, wire[c] # <<>>, NEW op, NEW answer \in {"ok", "refused"},
         Answers(c, op, answer)
  PROVE  wire' \in [Calls -> Seq(Operations)] /\ reply' \in [Calls -> {"none", "ok", "refused"}]
<1>1. wire[c] \in Seq(Operations)
  BY DEF ProcessesOK
<1>2. Tail(wire[c]) \in Seq(Operations)
  BY <1>1, HeadTailProperties
<1> QED
  BY <1>2 DEF Answers, ProcessesOK

LEMMA AsksType ==
  ASSUME ProcessesOK, NEW c \in Calls, NEW op \in Operations, Asks(c, op)
  PROVE  wire' \in [Calls -> Seq(Operations)] /\ reply' \in [Calls -> {"none", "ok", "refused"}]
<1>1. wire[c] \in Seq(Operations)
  BY DEF ProcessesOK
<1>2. Append(wire[c], op) \in Seq(Operations)
  BY <1>1, AppendProperties
<1> QED
  BY <1>2 DEF Asks, ProcessesOK

LEMMA AwaitsType ==
  ASSUME ProcessesOK, NEW c \in Calls, NEW next \in CallStates, Awaits(c, next)
  PROVE  call' \in [Calls -> CallStates]
BY DEF Awaits, ProcessesOK

LEMMA StopsType ==
  ASSUME ProcessesOK, NEW c \in Calls, Stops(c)
  PROVE  call' \in [Calls -> CallStates] /\ reply' \in [Calls -> {"none", "ok", "refused"}]
<1>1. call' \in [Calls -> CallStates]
  BY AwaitsType DEF Stops, CallStates
<1> QED
  BY <1>1 DEF Stops, ProcessesOK

LEMMA ReadsType ==
  ASSUME ProcessesOK, NEW c \in Calls, Reads(c)
  PROVE  ProcessesOK'
<1>1. wire[c] # <<>>
  BY DEF Reads, Reserves, FindsReservation, RefusesReserve, FindsBadDescriptor, Marks,
     RefusesMark, Observes, Releases, AnswersRelease, JournalFails, Asked
<1>2. wire' \in [Calls -> Seq(Operations)] /\ reply' \in [Calls -> {"none", "ok", "refused"}]
  BY <1>1, AnswersType DEF Reads, Reserves, FindsReservation, RefusesReserve,
     FindsBadDescriptor, Marks, RefusesMark, Observes, Releases, AnswersRelease, JournalFails
<1>3. UNCHANGED <<call, aborted, ran>>
  BY DEF Reads, Reserves, FindsReservation, RefusesReserve, FindsBadDescriptor, Marks,
     RefusesMark, Observes, Releases, AnswersRelease, JournalFails, child
<1>4. stopped' \in BOOLEAN /\ healthy' \in BOOLEAN /\ faults' \in 0..MaxFaults
  BY FailsType DEF Reads, Reserves, FindsReservation, RefusesReserve, FindsBadDescriptor, Marks,
     RefusesMark, Observes, Releases, AnswersRelease, JournalFails, parent, ProcessesOK
<1> QED
  BY <1>2, <1>3, <1>4 DEF ProcessesOK

LEMMA ParentType ==
  ASSUME ProcessesOK
  PROVE  /\ Closes => ProcessesOK'
         /\ ParentFails => ProcessesOK'
         /\ Restarts => ProcessesOK'
         /\ \A k \in Keys : Bills(k) \/ BillsTooMuch(k) => ProcessesOK'
<1>1. Closes => ProcessesOK'
  BY DEF Closes, ProcessesOK, child
<1>2. ParentFails => ProcessesOK'
  BY FailsType DEF ParentFails, ProcessesOK, child
<1>3. Restarts => ProcessesOK'
  <2> SUFFICES ASSUME Restarts PROVE ProcessesOK'
    OBVIOUS
  <2>1. <<>> \in Seq(Operations)
    OBVIOUS
  <2>2. wire' \in [Calls -> Seq(Operations)]
    BY <2>1 DEF Restarts
  <2>3. call' \in [Calls -> CallStates] /\ reply' \in [Calls -> {"none", "ok", "refused"}]
    BY DEF Restarts, CallStates
  <2> QED
    BY <2>2, <2>3, FailsType DEF Restarts, ProcessesOK
<1>4. ASSUME NEW k \in Keys
      PROVE  Bills(k) \/ BillsTooMuch(k) => ProcessesOK'
  BY DEF Bills, BillsTooMuch, ProcessesOK, child, parent
<1> QED
  BY <1>1, <1>2, <1>3, <1>4

LEMMA ChildType ==
  ASSUME ProcessesOK, NEW c \in Calls, Starts(c) \/ Steps(c) \/ Aborts(c) \/ Dies(c)
  PROVE  ProcessesOK'
<1> USE DEF CallStates, Operations
<1>1. CASE Starts(c)
  BY <1>1, AwaitsType, AsksType DEF Starts, ProcessesOK, parent
<1>2. CASE GetsReservation(c)
  <2> DEFINE next == IF c \in aborted THEN "release" ELSE "mark"
  <2>1. next \in Operations /\ next \in CallStates
    OBVIOUS
  <2>2. \/ Stops(c) /\ UNCHANGED wire
        \/ Awaits(c, next) /\ Asks(c, next)
    BY <1>2 DEF GetsReservation
  <2> HIDE DEF next
  <2>3. /\ call' \in [Calls -> CallStates] /\ wire' \in [Calls -> Seq(Operations)]
        /\ reply' \in [Calls -> {"none", "ok", "refused"}]
    BY <2>1, <2>2, AwaitsType, AsksType, StopsType DEF ProcessesOK
  <2> QED
    BY <1>2, <2>3 DEF GetsReservation, ProcessesOK, parent
<1>3. CASE Executes(c)
  BY <1>3, AwaitsType, BudgetConstants DEF Executes, ProcessesOK, parent
<1>4. CASE ReleasesUnmarked(c) \/ Finishes(c)
  BY <1>4, AwaitsType, AsksType DEF ReleasesUnmarked, Finishes, ProcessesOK, parent
<1>5. CASE StopsAfterMark(c) \/ Returns(c) \/ GivesUpReserving(c)
  BY <1>5, StopsType DEF StopsAfterMark, Returns, GivesUpReserving, ProcessesOK, parent
<1>6. CASE Aborts(c)
  BY <1>6 DEF Aborts, ProcessesOK, parent
<1>7. CASE Dies(c)
  BY <1>7, StopsType, FailsType DEF Dies, ProcessesOK
<1> QED
  BY <1>1, <1>2, <1>3, <1>4, <1>5, <1>6, <1>7 DEF Steps

(* The rows and the processes keep their types; a row has a reason exactly when it is
   released, and a cost, within its maximum, only when it is settled. *)
THEOREM TypeCorrect == Spec => []TypeOK
<1>1. Init => TypeOK
  <2> SUFFICES ASSUME Init PROVE RowsOK /\ ProcessesOK
    BY Halves
  <2>1. <<>> \in Seq(Operations)
    OBVIOUS
  <2>2. wire \in [Calls -> Seq(Operations)]
    BY <2>1 DEF Init
  <2>3. 0 \in 0..MaxFaults
    BY BudgetConstants
  <2>4. ProcessesOK
    BY <2>2, <2>3 DEF Init, ProcessesOK, CallStates
  <2> QED
    BY <2>4 DEF Init, RowsOK, RowStates, Reasons
<1>2. TypeOK /\ [Next]_vars => TypeOK'
  <2> SUFFICES ASSUME TypeOK, [Next]_vars PROVE RowsOK' /\ ProcessesOK'
    BY Halves DEF TypeOK, RowsOK, ProcessesOK, RowStates, Reasons, CallStates
  <2>1. RowsOK'
    BY Halves, LedgerSteps, RowsType
  <2>2. CASE UNCHANGED vars
    BY <2>1, <2>2, Halves DEF vars, parent, child, ProcessesOK
  <2>3. CASE Next
    BY <2>1, <2>3, Halves, ReadsType, ParentType, ChildType DEF Next
  <2> QED
    BY <2>1, <2>2, <2>3
<1> QED
  BY <1>1, <1>2, PTL DEF Spec

-----------------------------------------------------------------------------
(* The money and the units. *)
LEMMA OwedType ==
  ASSUME RowsOK, NEW k \in Keys
  PROVE  Owed(k) \in Nat /\ (RowsOK' => Owed(k)' \in Nat)
BY MaxType DEF RowsOK, Owed, RowStates, Max

Taken(k) == state[k] \notin {"none", "released"}

(* Only a reservation takes money or units. *)
LEMMA OnlyReservesTakes ==
  ASSUME RowsOK, LedgerStep, ~\E c \in Calls : Reserves(c)
  PROVE  \A k \in Keys : Owed(k)' <= Owed(k) /\ (Taken(k)' => Taken(k))
<1> USE MaxType DEF Owed, Taken, Max, RowsOK, RowStates
<1>1. CASE UNCHANGED ledger
  BY <1>1 DEF ledger
<1>2. ASSUME NEW c \in Calls, Marks(c) \/ Releases(c)
      PROVE  \A k \in Keys : Owed(k)' <= Owed(k) /\ (Taken(k)' => Taken(k))
  BY <1>2, BudgetConstants DEF Marks, Releases, Markable, Releasable
<1>3. ASSUME NEW j \in Keys, Bills(j)
      PROVE  \A k \in Keys : Owed(k)' <= Owed(k) /\ (Taken(k)' => Taken(k))
  BY <1>3 DEF Bills
<1>4. ASSUME NEW how, Ends(how), UNCHANGED cost
      PROVE  \A k \in Keys : Owed(k)' <= Owed(k) /\ (Taken(k)' => Taken(k))
  BY <1>4 DEF Ends
<1> QED
  BY <1>1, <1>2, <1>3, <1>4 DEF LedgerStep

LEMMA ReservesTakes ==
  ASSUME RowsOK, NEW c \in Calls, Reserves(c)
  PROVE  /\ KeyOf[c] \in Keys
         /\ \A k \in Keys : /\ Owed(k)' = IF k = KeyOf[c] THEN Max(k) ELSE Owed(k)
                            /\ Taken(k)' <=> Taken(k) \/ k = KeyOf[c]
BY BudgetConstants DEF Reserves, Owed, Taken, RowsOK, RowStates, Max

LEMMA Unit ==
  ASSUME NEW x
  PROVE  x \in Liabilities <=> \E k \in Keys : x \in {k} \X (1..Owed(k))
BY DEF Liabilities

LEMMA ChargeSize ==
  ASSUME NEW k, NEW m \in Nat
  PROVE  IsFiniteSet({k} \X (1..m)) /\ Cardinality({k} \X (1..m)) = m
<1>1. IsFiniteSet({k}) /\ Cardinality({k}) = 1
  BY FS_Singleton
<1>2. IsFiniteSet(1..m) /\ Cardinality(1..m) = m
  BY FS_Interval
<1>3. IsFiniteSet({k} \X (1..m)) /\ Cardinality({k} \X (1..m)) = Cardinality({k}) * Cardinality(1..m)
  BY <1>1, <1>2, FS_Product
<1> QED
  BY <1>1, <1>2, <1>3

MoneyInv == IsFiniteSet(Liabilities) /\ Total <= Ceiling
UnitsInv ==
  \A p \in Contracts : IsFiniteSet(Drawn(p)) /\ Cardinality(Drawn(p)) <= Pool[p]

LEMMA MoneyStep ==
  ASSUME TypeOK, MoneyInv, [Next]_vars
  PROVE  MoneyInv'
<1>1. RowsOK /\ LedgerStep /\ RowsOK'
  BY Halves, LedgerSteps, RowsType
<1>2. CASE \E c \in Calls : Reserves(c)
  <2>1. PICK c \in Calls : Reserves(c)
    BY <1>2
  <2> DEFINE k == KeyOf[c]
             charge == {k} \X (1..Max(k))
  <2>2. k \in Keys /\ \A j \in Keys : Owed(j)' = IF j = k THEN Max(j) ELSE Owed(j)
    BY <1>1, <2>1, ReservesTakes
  <2>3. Liabilities' \subseteq Liabilities \union charge
    <3> SUFFICES ASSUME NEW x \in Liabilities' PROVE x \in Liabilities \union charge
      OBVIOUS
    <3>1. PICK j \in Keys : x \in {j} \X (1..Owed(j)')
      BY DEF Liabilities
    <3>2. CASE j = k
      BY <2>2, <3>1, <3>2
    <3>3. CASE j # k
      BY <2>2, <3>1, <3>3, Unit
    <3> QED
      BY <3>2, <3>3
  <2>4. IsFiniteSet(charge) /\ Cardinality(charge) = Max(k) /\ Max(k) \in Nat
    BY <2>2, MaxType, ChargeSize
  <2>5. Total + Max(k) <= Ceiling
    BY <2>1 DEF Reserves, Room
  <2> HIDE DEF charge, k
  <2>6. /\ IsFiniteSet(Liabilities \union charge)
        /\ Cardinality(Liabilities \union charge)
             = Total + Max(k) - Cardinality(Liabilities \cap charge)
    BY <2>4, FS_Union DEF MoneyInv, Total
  <2>7. /\ IsFiniteSet(Liabilities \cap charge) /\ Cardinality(Liabilities \cap charge) \in Nat
        /\ Total \in Nat /\ Ceiling \in Nat
    <3>1. Liabilities \cap charge \in SUBSET charge
      OBVIOUS
    <3>2. IsFiniteSet(Liabilities \cap charge)
      BY <2>4, <3>1, FS_Subset
    <3> QED
      BY <3>2, FS_CardinalityType, BudgetConstants DEF MoneyInv, Total
  <2>8. IsFiniteSet(Liabilities') /\ Cardinality(Liabilities') <= Cardinality(Liabilities \union charge)
    BY <2>3, <2>6, FS_Subset
  <2>9. Cardinality(Liabilities') \in Nat /\ Cardinality(Liabilities \union charge) \in Nat
    BY <2>6, <2>8, FS_CardinalityType
  <2>10. Cardinality(Liabilities') <= Ceiling
    BY <2>4, <2>5, <2>6, <2>7, <2>8, <2>9
  <2> QED
    BY <2>8, <2>10 DEF MoneyInv, Total
<1>3. CASE ~\E c \in Calls : Reserves(c)
  <2>1. Liabilities' \subseteq Liabilities
    <3> SUFFICES ASSUME NEW x \in Liabilities' PROVE x \in Liabilities
      OBVIOUS
    <3>1. PICK j \in Keys : x \in {j} \X (1..Owed(j)')
      BY DEF Liabilities
    <3>2. Owed(j)' <= Owed(j) /\ Owed(j) \in Nat /\ Owed(j)' \in Nat
      BY <1>1, <1>3, OnlyReservesTakes, OwedType
    <3>3. x \in {j} \X (1..Owed(j))
      BY <3>1, <3>2
    <3> QED
      BY <3>3, Unit
  <2>2. IsFiniteSet(Liabilities') /\ Cardinality(Liabilities') <= Cardinality(Liabilities)
    BY <2>1, FS_Subset DEF MoneyInv
  <2>3. Cardinality(Liabilities') \in Nat /\ Cardinality(Liabilities) \in Nat /\ Ceiling \in Nat
    BY <2>2, FS_CardinalityType, BudgetConstants DEF MoneyInv
  <2> QED
    BY <2>2, <2>3 DEF MoneyInv, Total
<1> QED
  BY <1>2, <1>3

LEMMA UnitsStep ==
  ASSUME TypeOK, UnitsInv, [Next]_vars
  PROVE  UnitsInv'
<1>1. RowsOK /\ LedgerStep
  BY Halves, LedgerSteps
<1>2. \A p \in Contracts : Drawn(p) = {k \in Keys : ContractOf[k] = p /\ Taken(k)}
  BY DEF Drawn, Taken
<1>3. \A p \in Contracts : Drawn(p)' = {k \in Keys : ContractOf[k] = p /\ Taken(k)'}
  BY DEF Drawn, Taken
<1> SUFFICES ASSUME NEW p \in Contracts
             PROVE  IsFiniteSet(Drawn(p)') /\ Cardinality(Drawn(p)') <= Pool[p]
  BY DEF UnitsInv
<1>4. IsFiniteSet(Drawn(p)) /\ Cardinality(Drawn(p)) <= Pool[p] /\ Cardinality(Drawn(p)) \in Nat
      /\ Pool[p] \in Nat
  BY FS_CardinalityType, BudgetConstants DEF UnitsInv
<1>5. CASE \E c \in Calls : Reserves(c) /\ ContractOf[KeyOf[c]] = p
  <2>1. PICK c \in Calls : Reserves(c) /\ ContractOf[KeyOf[c]] = p
    BY <1>5
  <2>2. Drawn(p)' = Drawn(p) \union {KeyOf[c]}
    BY <1>1, <1>2, <1>3, <2>1, ReservesTakes
  <2>3. Cardinality(Drawn(p)) < Pool[p]
    BY <2>1 DEF Reserves, Room
  <2>4. /\ IsFiniteSet(Drawn(p) \union {KeyOf[c]})
        /\ Cardinality(Drawn(p) \union {KeyOf[c]})
             = IF KeyOf[c] \in Drawn(p) THEN Cardinality(Drawn(p)) ELSE Cardinality(Drawn(p)) + 1
    BY <1>4, FS_AddElement
  <2> QED
    BY <1>4, <2>2, <2>3, <2>4
<1>6. CASE ~\E c \in Calls : Reserves(c) /\ ContractOf[KeyOf[c]] = p
  <2>1. Drawn(p)' \subseteq Drawn(p)
    <3>1. CASE \E c \in Calls : Reserves(c)
      BY <1>1, <1>2, <1>3, <1>6, <3>1, ReservesTakes
    <3>2. CASE ~\E c \in Calls : Reserves(c)
      BY <1>1, <1>2, <1>3, <3>2, OnlyReservesTakes
    <3> QED
      BY <3>1, <3>2
  <2>2. IsFiniteSet(Drawn(p)') /\ Cardinality(Drawn(p)') <= Cardinality(Drawn(p))
    BY <1>4, <2>1, FS_Subset
  <2>3. Cardinality(Drawn(p)') \in Nat
    BY <2>2, FS_CardinalityType
  <2> QED
    BY <1>4, <2>2, <2>3
<1> QED
  BY <1>5, <1>6

LEMMA MoneyInvariant == Spec => []MoneyInv
<1>1. Init => MoneyInv
  <2> SUFFICES ASSUME Init PROVE MoneyInv
    OBVIOUS
  <2>1. \A k \in Keys : Owed(k) = 0
    BY DEF Init, Owed
  <2>2. Liabilities = {}
    BY <2>1 DEF Liabilities
  <2> QED
    BY <2>2, FS_EmptySet, BudgetConstants DEF MoneyInv, Total
<1>2. TypeOK /\ MoneyInv /\ [Next]_vars => MoneyInv'
  BY MoneyStep
<1> QED
  BY <1>1, <1>2, TypeCorrect, PTL DEF Spec

(* What is reserved, dispatched or billed never exceeds the approved ceiling. *)
THEOREM CeilingIsKept == Spec => []CeilingHolds
<1>1. MoneyInv => CeilingHolds
  BY DEF MoneyInv, CeilingHolds
<1> QED
  BY <1>1, MoneyInvariant, PTL

(* No contract's pool is overdrawn. *)
THEOREM PoolIsKept == Spec => []PoolHolds
<1>1. Init => UnitsInv
  <2> SUFFICES ASSUME Init, NEW p \in Contracts
               PROVE  IsFiniteSet(Drawn(p)) /\ Cardinality(Drawn(p)) <= Pool[p]
    BY DEF UnitsInv
  <2>1. Drawn(p) = {}
    BY DEF Init, Drawn
  <2>2. Pool[p] \in Nat
    BY BudgetConstants
  <2> QED
    BY <2>1, <2>2, FS_EmptySet
<1>2. TypeOK /\ UnitsInv /\ [Next]_vars => UnitsInv'
  BY UnitsStep
<1>3. UnitsInv => PoolHolds
  BY DEF UnitsInv, PoolHolds
<1> QED
  BY <1>1, <1>2, <1>3, TypeCorrect, PTL DEF Spec

-----------------------------------------------------------------------------
(* The end of the authorization. *)
ClosedInv == auth # "active" => \A k \in Keys : state[k] # "reserved"

LEMMA ClosedStep ==
  ASSUME RowsOK, ClosedInv, LedgerStep
  PROVE  ClosedInv' /\ (auth # "active" => auth' = auth)
<1>1. CASE UNCHANGED ledger
  BY <1>1 DEF ledger, ClosedInv
<1>2. ASSUME NEW c \in Calls, Reserves(c) \/ Marks(c) \/ Releases(c)
      PROVE  ClosedInv' /\ (auth # "active" => auth' = auth)
  BY <1>2, BudgetConstants DEF Reserves, Marks, Releases, Open, ClosedInv, RowsOK
<1>3. ASSUME NEW k \in Keys, Bills(k)
      PROVE  ClosedInv' /\ (auth # "active" => auth' = auth)
  BY <1>3 DEF Bills, ClosedInv, RowsOK
<1>4. ASSUME NEW how, Ends(how)
      PROVE  ClosedInv' /\ (auth # "active" => auth' = auth)
  BY <1>4 DEF Ends, ClosedInv
<1> QED
  BY <1>1, <1>2, <1>3, <1>4 DEF LedgerStep

LEMMA ClosedShrinks ==
  ASSUME TypeOK, ClosedInv, [Next]_vars, auth # "active"
  PROVE  /\ auth' = auth
         /\ \A k \in Keys : state'[k] # "reserved" /\ Owed(k)' <= Owed(k)
<1>1. RowsOK /\ LedgerStep
  BY Halves, LedgerSteps
<1>2. ClosedInv' /\ auth' = auth
  BY <1>1, ClosedStep
<1>3. ~\E c \in Calls : Reserves(c)
  BY DEF Reserves, Open
<1> QED
  BY <1>1, <1>2, <1>3, OnlyReservesTakes DEF ClosedInv

(* An authorization that has ended stays ended and only ever holds less money. *)
THEOREM ClosedLedgerShrinks == Spec => ClosedOnlyShrinks
<1>1. Init => ClosedInv
  BY DEF Init, ClosedInv
<1>2. TypeOK /\ ClosedInv /\ [Next]_vars => ClosedInv'
  BY Halves, LedgerSteps, ClosedStep
<1>3. TypeOK /\ ClosedInv /\ [Next]_vars =>
        [auth # "active" =>
           /\ auth' = auth
           /\ \A k \in Keys : state'[k] # "reserved" /\ Owed(k)' <= Owed(k)]_vars
  BY ClosedShrinks
<1> QED
  BY <1>1, <1>2, <1>3, TypeCorrect, PTL DEF Spec, ClosedOnlyShrinks

-----------------------------------------------------------------------------
(* The calls that may be made: the child has its mark. *)
Marked(c) == call[c] = "mark" /\ reply[c] = "ok"

LEMMA ReadsMarks ==
  ASSUME ProcessesOK, NEW c \in Calls, Reads(c)
  PROVE  /\ UNCHANGED ran
         /\ \A d \in Calls : Marked(d)' => Marked(d) \/ (d = c /\ Marks(c))
<1>1. UNCHANGED <<call, ran>>
  BY DEF Reads, Reserves, FindsReservation, RefusesReserve, FindsBadDescriptor, Marks,
     RefusesMark, Observes, Releases, AnswersRelease, JournalFails, child
<1>2. \A d \in Calls : d # c => reply'[d] = reply[d]
  BY DEF Reads, Reserves, FindsReservation, RefusesReserve, FindsBadDescriptor, Marks,
     RefusesMark, Observes, Releases, AnswersRelease, JournalFails, Answers, ProcessesOK
<1>3. CASE Marks(c) \/ RefusesMark(c) \/ RefusesReserve(c) \/ FindsBadDescriptor(c) \/ JournalFails(c)
  <2>1. Marks(c) \/ reply'[c] = "refused" \/ reply'[c] = reply[c]
    BY <1>3 DEF RefusesMark, RefusesReserve, FindsBadDescriptor, JournalFails, Answers, ProcessesOK
  <2> QED
    BY <1>1, <1>2, <2>1 DEF Marked
<1>4. CASE Reserves(c) \/ FindsReservation(c) \/ Observes(c) \/ Releases(c) \/ AnswersRelease(c)
  <2>1. call[c] = "mark" => reply'[c] = reply[c]
    BY <1>4 DEF Reserves, FindsReservation, Observes, Releases, AnswersRelease, Answers,
       Awaited, ProcessesOK
  <2> QED
    BY <1>1, <1>2, <2>1 DEF Marked
<1> QED
  BY <1>3, <1>4 DEF Reads

LEMMA ChildMarks ==
  ASSUME ProcessesOK, NEW c \in Calls, Starts(c) \/ Steps(c) \/ Aborts(c) \/ Dies(c)
  PROVE  /\ \A d \in Calls : Marked(d)' => Marked(d) /\ (d = c => ~Executes(c))
         /\ UNCHANGED ran \/ Executes(c)
<1> USE DEF Marked, ProcessesOK, Awaits, Asks, Stops
<1>1. CASE Starts(c)
  BY <1>1 DEF Starts, Executes
<1>2. CASE GetsReservation(c)
  BY <1>2 DEF GetsReservation, Executes
<1>3. CASE Executes(c)
  BY <1>3 DEF Executes
<1>4. CASE StopsAfterMark(c) \/ Returns(c) \/ GivesUpReserving(c)
  BY <1>4 DEF StopsAfterMark, Returns, GivesUpReserving, Executes
<1>5. CASE ReleasesUnmarked(c) \/ Finishes(c)
  BY <1>5 DEF ReleasesUnmarked, Finishes, Executes
<1>6. CASE Aborts(c)
  BY <1>6 DEF Aborts, Executes
<1>7. CASE Dies(c)
  BY <1>7 DEF Dies, Executes
<1> QED
  BY <1>1, <1>2, <1>3, <1>4, <1>5, <1>6, <1>7 DEF Steps

(* The strengthening: a marked call has a dispatched row of its own that no call was
   made for yet. *)
SpentInv ==
  /\ \A k \in Keys : ran[k] <= 1 /\ (ran[k] > 0 => state[k] \in {"dispatched", "settled"})
  /\ \A c \in Calls : Marked(c) => state[KeyOf[c]] = "dispatched" /\ ran[KeyOf[c]] = 0
  /\ \A c, d \in Calls : Marked(c) /\ Marked(d) /\ KeyOf[c] = KeyOf[d] => c = d

LEMMA ParentMarks ==
  ASSUME ProcessesOK
  PROVE  /\ Closes \/ ParentFails \/ Restarts => UNCHANGED ran /\ \A d \in Calls : Marked(d)' => Marked(d)
         /\ \A k \in Keys : Bills(k) \/ BillsTooMuch(k) =>
              UNCHANGED ran /\ \A d \in Calls : Marked(d)' => Marked(d)
BY DEF Closes, ParentFails, Restarts, Bills, BillsTooMuch, Marked, child, ProcessesOK

(* A dispatched row stays until it is billed, which only a call that was made is. *)
LEMMA DispatchedStays ==
  ASSUME RowsOK, LedgerStep, NEW k \in Keys, state[k] \in {"dispatched", "settled"}
  PROVE  \/ state'[k] = state[k]
         \/ state'[k] = "settled" /\ ran[k] > 0
<1>1. CASE UNCHANGED ledger
  BY <1>1 DEF ledger
<1>2. ASSUME NEW c \in Calls, Reserves(c) \/ Marks(c) \/ Releases(c)
      PROVE  state'[k] = state[k]
  BY <1>2, BudgetConstants DEF Reserves, Marks, Releases, Markable, Releasable, RowsOK
<1>3. ASSUME NEW j \in Keys, Bills(j)
      PROVE  state'[k] = state[k] \/ (state'[k] = "settled" /\ ran[k] > 0)
  BY <1>3 DEF Bills, RowsOK
<1>4. ASSUME NEW how, Ends(how)
      PROVE  state'[k] = state[k]
  BY <1>4 DEF Ends
<1> QED
  BY <1>1, <1>2, <1>3, <1>4 DEF LedgerStep

LEMMA SpentStep ==
  ASSUME TypeOK, SpentInv, [Next]_vars
  PROVE  SpentInv'
<1>1. RowsOK /\ ProcessesOK /\ LedgerStep
  BY Halves, LedgerSteps
<1>2. ASSUME NEW c \in Calls, Marks(c)
      PROVE  SpentInv'
  <2> DEFINE k == KeyOf[c]
  <2>1. /\ UNCHANGED ran /\ k \in Keys
        /\ state[k] = "reserved" /\ state' = [state EXCEPT ![k] = "dispatched"]
    BY <1>2, BudgetConstants DEF Marks, Markable, child
  <2>2. ran[k] = 0
    <3>1. ran[k] \in Nat
      BY <1>1, <2>1 DEF ProcessesOK
    <3>2. ~(ran[k] > 0)
      BY <2>1 DEF SpentInv
    <3> QED
      BY <3>1, <3>2
  <2>3. \A d \in Calls : Marked(d)' => Marked(d) \/ d = c
    BY <1>1, <1>2, ReadsMarks DEF Reads
  <2>4. \A d \in Calls : Marked(d) => KeyOf[d] # k /\ KeyOf[d] \in Keys
    BY <2>1, BudgetConstants DEF SpentInv
  <2>5. \A j \in Keys : state'[j] = IF j = k THEN "dispatched" ELSE state[j]
    BY <1>1, <2>1 DEF RowsOK
  <2> HIDE DEF k
  <2>6. \A d \in Calls : Marked(d)' => state'[KeyOf[d]] = "dispatched" /\ ran'[KeyOf[d]] = 0
    BY <2>1, <2>2, <2>3, <2>4, <2>5 DEF SpentInv, k
  <2>7. \A d, e \in Calls : Marked(d)' /\ Marked(e)' /\ KeyOf[d] = KeyOf[e] => d = e
    BY <2>3, <2>4 DEF SpentInv, k
  <2> QED
    BY <2>1, <2>2, <2>5, <2>6, <2>7 DEF SpentInv
<1>3. ASSUME NEW c \in Calls, Executes(c)
      PROVE  SpentInv'
  <2> DEFINE k == KeyOf[c]
  <2>1. Marked(c) /\ k \in Keys /\ ran' = [ran EXCEPT ![k] = @ + 1] /\ state' = state
    BY <1>3, BudgetConstants DEF Executes, Marked, ledger
  <2>2. ran[k] = 0 /\ state[k] = "dispatched"
    BY <2>1 DEF SpentInv
  <2>3. \A d \in Calls : Marked(d)' => Marked(d) /\ d # c
    BY <1>1, <1>3, ChildMarks DEF Steps
  <2>4. \A j \in Keys : ran'[j] = IF j = k THEN 1 ELSE ran[j]
    BY <1>1, <2>1, <2>2 DEF ProcessesOK
  <2>5. \A d \in Calls : Marked(d)' => KeyOf[d] # k /\ KeyOf[d] \in Keys
    BY <2>1, <2>3, BudgetConstants DEF SpentInv
  <2> HIDE DEF k
  <2> QED
    BY <2>1, <2>2, <2>3, <2>4, <2>5 DEF SpentInv
<1>4. CASE ~\E c \in Calls : Marks(c) \/ Executes(c)
  <2>1. UNCHANGED ran /\ \A d \in Calls : Marked(d)' => Marked(d)
    <3>1. CASE UNCHANGED vars
      BY <3>1 DEF vars, child, Marked
    <3>2. CASE Next
      BY <1>1, <1>4, <3>2, ReadsMarks, ChildMarks, ParentMarks DEF Next
    <3> QED
      BY <3>1, <3>2
  <2>2. \A k \in Keys : state[k] \in {"dispatched", "settled"} =>
          state'[k] = state[k] \/ (state'[k] = "settled" /\ ran[k] > 0)
    BY <1>1, DispatchedStays
  <2>3. \A d \in Calls : KeyOf[d] \in Keys
    BY BudgetConstants
  <2>4. \A k \in Keys : ran'[k] <= 1 /\ (ran'[k] > 0 => state'[k] \in {"dispatched", "settled"})
    BY <2>1, <2>2 DEF SpentInv
  <2>5. \A d \in Calls : Marked(d)' => state'[KeyOf[d]] = "dispatched" /\ ran'[KeyOf[d]] = 0
    BY <2>1, <2>2, <2>3 DEF SpentInv
  <2> QED
    BY <2>1, <2>4, <2>5 DEF SpentInv
<1> QED
  BY <1>2, <1>3, <1>4

LEMMA SpentInvariant == Spec => []SpentInv
<1>1. Init => SpentInv
  BY BudgetConstants DEF Init, SpentInv, Marked
<1>2. TypeOK /\ SpentInv /\ [Next]_vars => SpentInv'
  BY SpentStep
<1> QED
  BY <1>1, <1>2, TypeCorrect, PTL DEF Spec

(* No attempt is made twice, whatever is replayed, lost or restarted. *)
THEOREM AttemptsAreMadeOnce == Spec => []SpentOnce
<1>1. SpentInv => SpentOnce
  BY DEF SpentInv, SpentOnce
<1> QED
  BY <1>1, SpentInvariant, PTL

(* What was spent stays on the books. *)
THEOREM SpendingIsCounted == Spec => []SpentIsCounted
<1>1. SpentInv => SpentIsCounted
  BY DEF SpentInv, SpentIsCounted
<1> QED
  BY <1>1, SpentInvariant, PTL

-----------------------------------------------------------------------------
(* PaidEffects keeps the promise of SpendingCap: each step of the parent, of a child or
   of a failure is one step of the abstract cap, or none. *)

AsideMap == [k \in Keys |-> Owed(k)]

LEMMA SameMoney ==
  ASSUME \A k \in Keys : Owed(k)' = Owed(k)
  PROVE  AsideMap' = AsideMap
BY DEF AsideMap

LEMMA LedgerSame ==
  ASSUME UNCHANGED ledger
  PROVE  AsideMap' = AsideMap
BY DEF ledger, AsideMap, Owed, Max

LEMMA SameSize ==
  ASSUME NEW S
  PROVE  Cap!Cardinality(S) = Cardinality(S)
BY DEF Cap!Cardinality, Cardinality

LEMMA ReservesRefines ==
  ASSUME TypeOK, SpentInv, MoneyInv', NEW c \in Calls, Reserves(c)
  PROVE  Cap!Next
<1> DEFINE k == KeyOf[c]
<1>1. RowsOK /\ ProcessesOK
  BY Halves
<1>2. k \in Keys /\ \A j \in Keys : Owed(j)' = IF j = k THEN Max(j) ELSE Owed(j)
  BY <1>1, ReservesTakes
<1>3. ran[k] = 0
  <2>1. ran[k] \in Nat
    BY <1>1, <1>2 DEF ProcessesOK
  <2>2. ~(ran[k] > 0)
    BY <1>2 DEF Reserves, SpentInv
  <2> QED
    BY <2>1, <2>2
<1>4. UNCHANGED ran
  BY DEF Reserves, child
<1> HIDE DEF k
<1>5. AsideMap' = [AsideMap EXCEPT ![k] = [j \in Keys |-> Max(j)][k]]
  BY <1>2 DEF AsideMap
<1>6. Cap!Money(AsideMap') = Liabilities'
  <2>1. \A j \in Keys : {j} \X (1..AsideMap'[j]) = {j} \X (1..Owed(j)')
    BY DEF AsideMap
  <2>2. Cap!Money(AsideMap') = UNION {{j} \X (1..AsideMap'[j]) : j \in Keys}
    BY DEF Cap!Money
  <2>3. Liabilities' = UNION {{j} \X (1..Owed(j)') : j \in Keys}
    BY DEF Liabilities
  <2>4. {{j} \X (1..AsideMap'[j]) : j \in Keys} = {{j} \X (1..Owed(j)') : j \in Keys}
    BY <2>1
  <2> QED
    BY <2>2, <2>3, <2>4
<1>7. Cardinality(Cap!Money(AsideMap')) <= Ceiling
  BY <1>6 DEF MoneyInv, Total
<1>8. Cap!SetsAside(k)
  BY <1>3, <1>4, <1>5, <1>7, SameSize DEF Cap!SetsAside, AsideMap
<1> QED
  BY <1>2, <1>8 DEF Cap!Next

LEMMA ExecutesRefines ==
  ASSUME TypeOK, SpentInv, NEW c \in Calls, Executes(c)
  PROVE  Cap!Next
<1> DEFINE k == KeyOf[c]
<1>1. k \in Keys /\ Marked(c) /\ ran' = [ran EXCEPT ![k] = @ + 1] /\ UNCHANGED ledger
  BY BudgetConstants DEF Executes, Marked
<1>2. ran[k] = 0 /\ state[k] = "dispatched"
  BY <1>1 DEF SpentInv
<1>3. ran' = [ran EXCEPT ![k] = 1]
  BY <1>1, <1>2
<1>4. Owed(k) = Max(k)
  BY <1>2 DEF Owed
<1>5. AsideMap' = AsideMap
  BY <1>1, LedgerSame
<1> HIDE DEF k
<1>6. Cap!Makes(k)
  BY <1>1, <1>2, <1>3, <1>4, <1>5 DEF Cap!Makes, AsideMap
<1> QED
  BY <1>1, <1>6 DEF Cap!Next

LEMMA BillsRefines ==
  ASSUME TypeOK, NEW k \in Keys, Bills(k)
  PROVE  Cap!Next
<1>1. RowsOK
  BY Halves
<1>2. PICK n \in 0..Max(k) : state' = [state EXCEPT ![k] = "settled"] /\ cost' = [cost EXCEPT ![k] = n]
  BY DEF Bills
<1>3. ran[k] # 0 /\ Owed(k) = Max(k) /\ UNCHANGED ran
  BY DEF Bills, Owed, child
<1>4. \A j \in Keys : Owed(j)' = IF j = k THEN n ELSE Owed(j)
  BY <1>1, <1>2 DEF Owed, RowsOK, RowStates, Max
<1>5. AsideMap' = [AsideMap EXCEPT ![k] = n] /\ n \in 0..AsideMap[k]
  BY <1>2, <1>3, <1>4 DEF AsideMap
<1>6. Cap!Bills(k)
  BY <1>3, <1>5 DEF Cap!Bills, AsideMap
<1> QED
  BY <1>6 DEF Cap!Next

(* Money comes back only for calls that were not made. *)
LEMMA GivingBackRefines ==
  ASSUME TypeOK, SpentInv, NEW back \in SUBSET Keys, UNCHANGED ran,
         \A k \in Keys : Owed(k)' = IF k \in back THEN 0 ELSE Owed(k),
         \A k \in back : state[k] = "reserved"
  PROVE  Cap!Next
<1> DEFINE kept == Keys \ back
<1>1. \A k \in back : ran[k] = 0
  <2> SUFFICES ASSUME NEW k \in back PROVE ran[k] = 0
    OBVIOUS
  <2>1. ran[k] \in Nat
    BY DEF TypeOK
  <2>2. ~(ran[k] > 0)
    BY DEF SpentInv
  <2> QED
    BY <2>1, <2>2
<1>2. {k \in Keys : ran[k] # 0} \subseteq kept
  BY <1>1
<1>3. AsideMap' = [k \in Keys |-> IF k \in kept THEN AsideMap[k] ELSE 0]
  BY DEF AsideMap
<1>4. kept \in SUBSET Keys
  OBVIOUS
<1> HIDE DEF kept
<1>5. Cap!GivesBack
  BY <1>2, <1>3, <1>4 DEF Cap!GivesBack, AsideMap
<1> QED
  BY <1>5 DEF Cap!Next

LEMMA ReleasesRefines ==
  ASSUME TypeOK, SpentInv, NEW c \in Calls, Releases(c)
  PROVE  Cap!Next
<1> DEFINE back == {KeyOf[c]}
<1>1. back \in SUBSET Keys /\ \A k \in back : state[k] = "reserved"
  BY BudgetConstants DEF Releases, Releasable
<1>2. RowsOK
  BY Halves
<1>3. \A k \in Keys : Owed(k)' = IF k \in back THEN 0 ELSE Owed(k)
  BY <1>2, BudgetConstants DEF Releases, Owed, RowsOK, RowStates, Max
<1>4. UNCHANGED ran
  BY DEF Releases, child
<1> QED
  BY <1>1, <1>3, <1>4, GivingBackRefines

LEMMA EndsRefines ==
  ASSUME TypeOK, SpentInv, NEW how \in {"closed", "drifted"}, Ends(how), UNCHANGED <<cost, ran>>
  PROVE  Cap!Next
<1> DEFINE back == {k \in Keys : state[k] = "reserved"}
<1>1. \A k \in Keys : Owed(k)' = IF k \in back THEN 0 ELSE Owed(k)
  BY DEF Ends, Owed, Max
<1> QED
  BY <1>1, GivingBackRefines

LEMMA QuietRefines ==
  ASSUME UNCHANGED <<ledger, ran>>
  PROVE  UNCHANGED <<AsideMap, ran>>
BY LedgerSame

LEMMA MarksRefines ==
  ASSUME TypeOK, NEW c \in Calls, Marks(c)
  PROVE  UNCHANGED <<AsideMap, ran>>
<1>1. \A k \in Keys : Owed(k)' = Owed(k)
  BY BudgetConstants DEF Marks, Markable, Owed, TypeOK, Max
<1> QED
  BY <1>1, SameMoney DEF Marks, child

LEMMA NextRefines ==
  ASSUME TypeOK, SpentInv, MoneyInv', [Next]_vars
  PROVE  [Cap!Next]_<<AsideMap, ran>>
<1>1. CASE UNCHANGED vars
  BY <1>1, QuietRefines DEF vars, child
<1>2. CASE Closes \/ \E k \in Keys : BillsTooMuch(k)
  BY <1>2, EndsRefines DEF Closes, BillsTooMuch, child
<1>3. CASE ParentFails \/ Restarts
  BY <1>3, QuietRefines DEF ParentFails, Restarts, child
<1>4. CASE \E k \in Keys : Bills(k)
  BY <1>4, BillsRefines
<1>5. ASSUME NEW c \in Calls, Reads(c)
      PROVE  [Cap!Next]_<<AsideMap, ran>>
  <2>1. CASE Reserves(c)
    BY <2>1, ReservesRefines
  <2>2. CASE Marks(c)
    BY <2>2, MarksRefines
  <2>3. CASE Releases(c)
    BY <2>3, ReleasesRefines
  <2>4. CASE \/ FindsReservation(c) \/ RefusesReserve(c) \/ FindsBadDescriptor(c) \/ RefusesMark(c)
             \/ Observes(c) \/ AnswersRelease(c) \/ JournalFails(c)
    BY <2>4, QuietRefines DEF FindsReservation, RefusesReserve, FindsBadDescriptor, RefusesMark,
       Observes, AnswersRelease, JournalFails, child
  <2> QED
    BY <1>5, <2>1, <2>2, <2>3, <2>4 DEF Reads
<1>6. ASSUME NEW c \in Calls, Executes(c)
      PROVE  [Cap!Next]_<<AsideMap, ran>>
  BY <1>6, ExecutesRefines
<1>7. ASSUME NEW c \in Calls, (Starts(c) \/ Steps(c) \/ Aborts(c) \/ Dies(c)) /\ ~Executes(c)
      PROVE  [Cap!Next]_<<AsideMap, ran>>
  BY <1>7, QuietRefines DEF Starts, Steps, GetsReservation, StopsAfterMark, ReleasesUnmarked,
     Finishes, Returns, GivesUpReserving, Aborts, Dies
<1> QED
  BY <1>1, <1>2, <1>3, <1>4, <1>5, <1>6, <1>7 DEF Next

(* Every behaviour of the ledger and its clients, seen through the money it holds and
   the calls that were made, is a behaviour of the spending cap. *)
THEOREM BudgetKeepsTheCap == Spec => KeepsTheCap
<1>1. Init => Cap!Init
  BY DEF Init, Owed, Cap!Init
<1>2. TypeOK /\ SpentInv /\ MoneyInv' /\ [Next]_vars => [Cap!Next]_<<AsideMap, ran>>
  BY NextRefines
<1>3. [Cap!Next]_<<AsideMap, ran>> => [Cap!Next]_<<[k \in Keys |-> Owed(k)], ran>>
  BY DEF AsideMap
<1>4. Spec => []MoneyInv
  BY MoneyInvariant
<1> QED
  BY <1>1, <1>2, <1>3, <1>4, SpentInvariant, TypeCorrect, PTL DEF Spec, KeepsTheCap, Cap!Spec
=============================================================================
