SPECIFICATION Spec
CONSTANTS
  priced = priced  credits = credits
  Calls = {1, 2, 3, 4}  Keys = {1, 2, 3}  Doubtful = {3}
  KeyOf <- MCKeyOf
  Contracts = {priced, credits}
  ContractOf <- MCContractOf
  MaxCharge <- MCMaxCharge  Pool <- MCPool
  Ceiling = 1  MaxFaults = 1  Cancellable = {1}
CHECK_DEADLOCK FALSE
INVARIANTS TypeOK CeilingHolds PoolHolds SpentIsCounted SpentOnce
PROPERTIES ClosedOnlyShrinks KeepsTheCap CallsEnd
