---------------------------- MODULE MCPaidEffects ----------------------------
(* Instances of PaidEffects: the calls and their keys are numbers. *)
EXTENDS PaidEffects

CONSTANTS priced, credits

MCKeyOf == [c \in Calls |-> IF c = 4 THEN 1 ELSE c]      \* call 4 replays key 1
MCContractOf == [k \in Keys |-> IF k = 1 THEN priced ELSE credits]
MCMaxCharge == [p \in Contracts |-> 1]
MCPool == [p \in Contracts |-> 1]
==============================================================================
