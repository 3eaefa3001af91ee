----------------------------- MODULE SpendingCap -----------------------------
(***************************************************************************)
(* What a run of paid calls promises its operator.  The most a call can    *)
(* cost is set aside before it is made, what is set aside never exceeds    *)
(* the approved ceiling, a call is made at most once, and only a bill      *)
(* lowers what is set aside for a call that was made.  PaidEffects         *)
(* implements it.                                                          *)
(***************************************************************************)
EXTENDS Naturals, FiniteSets

CONSTANTS
  Keys,       \* the attempts
  MaxCharge,  \* the most each of them can cost
  Ceiling

VARIABLES
  aside,  \* the money set aside for each attempt
  ran     \* how often each attempt was made

(* One element for each unit of money set aside. *)
Money(owed) == UNION {{k} \X (1..owed[k]) : k \in Keys}

Init == aside = [k \in Keys |-> 0] /\ ran = [k \in Keys |-> 0]

SetsAside(k) ==
  /\ ran[k] = 0
  /\ aside' = [aside EXCEPT ![k] = MaxCharge[k]]
  /\ Cardinality(Money(aside')) <= Ceiling
  /\ UNCHANGED ran

Makes(k) ==
  /\ ran[k] = 0 /\ aside[k] = MaxCharge[k]
  /\ ran' = [ran EXCEPT ![k] = 1]
  /\ UNCHANGED aside

(* The money of calls that were not made; those that were keep theirs. *)
GivesBack ==
  /\ \E kept \in SUBSET Keys :
       /\ {k \in Keys : ran[k] # 0} \subseteq kept
       /\ aside' = [k \in Keys |-> IF k \in kept THEN aside[k] ELSE 0]
  /\ UNCHANGED ran

Bills(k) ==
  /\ ran[k] # 0
  /\ \E cost \in 0..aside[k] : aside' = [aside EXCEPT ![k] = cost]
  /\ UNCHANGED ran

Next == GivesBack \/ \E k \in Keys : SetsAside(k) \/ Makes(k) \/ Bills(k)

Spec == Init /\ [][Next]_<<aside, ran>>
==============================================================================
