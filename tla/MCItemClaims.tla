---------------------------- MODULE MCItemClaims ----------------------------
(* Instances of ItemClaims: the register names a brand for the odd rows. *)
EXTENDS ItemClaims

CONSTANTS b1, b2

MCFirstBrand == [i \in Items |-> IF i % 2 = 1 THEN b1 ELSE None]
=============================================================================
