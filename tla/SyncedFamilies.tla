--------------------------- MODULE SyncedFamilies ---------------------------
(***************************************************************************)
(* What a push to ShopSite promises its operator.  It begins with content  *)
(* that is approved; a product is marked synced only by a push that is     *)
(* under way, with a payload the store has held whole by then, and all     *)
(* products of the push at once, unless the server ends between its marks. *)
(* Whatever is approved since takes the mark away when it is approved.     *)
(***************************************************************************)
EXTENDS Naturals

CONSTANTS
  Skus, Sets, Writes,
  Jobs, Versions, None

VARIABLES
  approved,  \* who wrote the approved content of each product
  synced,    \* whether the index calls the product synced
  marked,    \* the payload each product was marked with last
  held,      \* the payloads the store has held whole so far
  pushing    \* the set each operation is at work on, or None

vars == <<approved, synced, marked, held, pushing>>

Payloads == Sets \X Versions
UnderWay == {j \in Jobs : pushing[j] # None}

Init ==
  /\ synced \in [Skus -> BOOLEAN] /\ held \subseteq Payloads
  /\ pushing = [j \in Jobs |-> None]
  /\ \A k \in Skus : approved[k] \notin Sets /\ marked[k] \notin Payloads

(* The store may come to hold more at any time.                            *)
Holds ==
  /\ held \subseteq held' /\ held' \subseteq Payloads
  /\ UNCHANGED <<approved, synced, marked, pushing>>

Approves(s) ==
  /\ approved' = [k \in Skus |-> IF k \in Writes[s] THEN s ELSE approved[k]]
  /\ synced' = [k \in Skus |-> synced[k] /\ k \notin Writes[s]]
  /\ held \subseteq held' /\ held' \subseteq Payloads
  /\ UNCHANGED <<marked, pushing>>

Drifts(k) ==
  /\ synced' = [synced EXCEPT ![k] = FALSE]
  /\ UNCHANGED <<approved, marked, held, pushing>>

Begins(j, s) ==
  /\ pushing[j] = None /\ \A k \in Writes[s] : approved[k] = s
  /\ pushing' = [pushing EXCEPT ![j] = s]
  /\ UNCHANGED <<approved, synced, marked, held>>

(* With the payload of an operation under way, which the store has held.   *)
Marks(j, products) ==
  /\ \E v \in Versions :
       /\ <<pushing[j], v>> \in held
       /\ marked' = [k \in Skus |-> IF k \in products THEN <<pushing[j], v>> ELSE marked[k]]
  /\ synced' = [k \in Skus |-> k \in products \/ synced[k]]
  /\ UNCHANGED <<approved, held>>

Completes(j) ==
  /\ Marks(j, Writes[pushing[j]])
  /\ pushing' = [pushing EXCEPT ![j] = None]

Fails(j) ==
  /\ pushing' = [pushing EXCEPT ![j] = None]
  /\ UNCHANGED <<approved, synced, marked, held>>

ServerEnds ==
  /\ pushing' = [j \in Jobs |-> None]
  /\ \/ UNCHANGED <<approved, synced, marked, held>>
     \/ \E j \in UnderWay : \E products \in SUBSET Writes[pushing[j]] : Marks(j, products)

Next ==
  \/ Holds \/ ServerEnds
  \/ \E s \in Sets : Approves(s)
  \/ \E k \in Skus : Drifts(k)
  \/ \E j \in UnderWay : Completes(j) \/ Fails(j)
  \/ \E j \in Jobs, s \in Sets : Begins(j, s)

Spec == Init /\ [][Next]_vars
=============================================================================
