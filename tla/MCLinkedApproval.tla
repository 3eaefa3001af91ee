-------------------------- MODULE MCLinkedApproval --------------------------
(* Instances of LinkedApproval: the product q is not in the catalogue yet. *)
EXTENDS LinkedApproval

CONSTANTS A, B, p, q, v0, v1, v2, t1, t2

MCCatalogue == [s \in Skus |-> IF s = q THEN None ELSE v0]
FullCatalogue == [s \in Skus |-> v0]
MCRemote == [s \in Skus |-> v2]
BothSkus == [cs \in ChangeSets |-> Skus]
ReaderAndEditor == [cs \in ChangeSets |-> IF cs = A THEN {q} ELSE {p}]
AReadsP == [cs \in ChangeSets |-> IF cs = A THEN {p} ELSE {}]
OnlyP == [cs \in ChangeSets |-> IF cs = A THEN Skus ELSE {p}]
NoReads == [cs \in ChangeSets |-> {}]
OneDraft == [cs \in ChangeSets |-> IF cs = A THEN {v1} ELSE {v2}]
MCTitle == [cs \in ChangeSets |-> IF cs = A THEN t1 ELSE t2]
SameTitle == [cs \in ChangeSets |-> t1]
=============================================================================
