---------------------------- MODULE MCFamilyPush ----------------------------
(* Instances of FamilyPush: two sets that share a product. *)
EXTENDS FamilyPush

CONSTANTS a, b, k1, k2, k3

MCWrites == [s \in Sets |-> IF s = a THEN {k1, k2} ELSE {k2, k3}]
MCReads == [s \in Sets |-> IF s = a THEN {} ELSE {k1}]
=============================================================================
