--------------------------- MODULE CuratedListings ---------------------------
(***************************************************************************)
(* What the onboarding worker promises of the listings it prepares.  An    *)
(* item is claimed by one worker at a time, and a claim never changes      *)
(* hands.  A listing is written by the holder of the claim, once, from the *)
(* inputs the item has at that moment.  The worker alone takes no listing  *)
(* back, brings no item without one to the review, and changes nothing     *)
(* that is under review but the data extracted for it.                     *)
(***************************************************************************)
EXTENDS Naturals

CONSTANTS
  Items, Workers,
  Inputs  \* what a listing is prepared from: the operator's part, and data

VARIABLES
  worker,    \* the worker that is at work, or 0
  running,   \* whether the operator lets the batch run
  requests,  \* the operator's requests so far
  inputs, claim, listing, review

vars == <<worker, running, requests, inputs, claim, listing, review>>

Types ==
  /\ inputs \in [Items -> Inputs]
  /\ claim \in [Items -> Workers \union {0}]
  /\ listing \in [Items -> {<<>>} \union {<<from>> : from \in Inputs}]
  /\ review \in [Items -> BOOLEAN]

Init ==
  /\ Types
  /\ worker \in Workers /\ running \in BOOLEAN /\ requests = 0
  /\ \A i \in Items : claim[i] = 0 /\ listing[i] = <<>> /\ ~review[i]

Same(f, i) == f'[i] = f[i]
GivenSame(i) == inputs'[i].brand = inputs[i].brand /\ inputs'[i].held = inputs[i].held

(* What one item goes through while others go through something else.      *)
Claims(i) ==
  /\ claim[i] = 0 /\ running /\ ~inputs[i].held /\ ~review[i]
  /\ Same(inputs, i) /\ Same(listing, i) /\ Same(review, i)

Lists(i) ==
  /\ claim[i] = worker /\ worker # 0 /\ running /\ ~review[i]
  /\ listing'[i] = <<inputs[i]>> /\ claim'[i] = 0
  /\ Same(inputs, i) /\ Same(review, i)

Submits(i) ==
  /\ claim[i] = 0 /\ listing[i] # <<>>
  /\ review'[i] /\ claim'[i] = 0 /\ Same(inputs, i) /\ Same(listing, i)

(* The claim is given up, with or without new data, or kept.               *)
Works(i) ==
  /\ GivenSame(i) /\ Same(listing, i) /\ Same(review, i)
  /\ claim'[i] \in {0, claim[i]}

Handles(i) ==
  /\ inputs'[i].data = inputs[i].data
  /\ claim'[i] \in {0, claim[i]}
  /\ Same(listing, i) \/ (listing'[i] = <<>> /\ ~review[i])

-----------------------------------------------------------------------------
WorkerMoves ==
  /\ UNCHANGED <<worker, running, requests>>
  /\ \A i \in Items : Claims(i) \/ Lists(i) \/ Submits(i) \/ Works(i)

OperatorMoves ==
  /\ requests' = requests + 1 /\ UNCHANGED worker /\ running' \in BOOLEAN
  /\ \A i \in Items : Handles(i)

(* Workers come and go; only the claims that were left behind are freed.   *)
Changeover ==
  /\ UNCHANGED <<running, requests, inputs, listing, review>>
  /\ worker' \in Workers \union {0} /\ worker' # worker
  /\ \A i \in Items : claim'[i] \in {0, claim[i]}

Next == Types' /\ (WorkerMoves \/ OperatorMoves \/ Changeover)

Spec == Init /\ [][Next]_vars
=============================================================================
