\* two objects of a contract, two listeners of one, one reconnection
CONSTANTS
  token = token
  tokenAgain = tokenAgain
  A = A
  B = B
  Contracts <- MCContracts
  AddressOf <- MCAddressOf
  Addresses = {A, B}
  MaxListeners <- MCMaxListeners
  MaxSockets = 2
  MaxCalls = 2
  MaxEvents = 2
SPECIFICATION FairSpec
INVARIANTS TypeOK StagesAgree HeardOnce
PROPERTIES NoneMissed IdleUnsubscribes
CHECK_DEADLOCK FALSE
