\* two calls of two attempts, a read node up to one tx behind
CONSTANTS
  Calls = {c1, c2}
  Retries = 1
  ReadLag = 1
  MaxNonce = 3
SPECIFICATION FairSpec
INVARIANTS TypeOK OneLiveAttempt AtMostOnce NonceInv NonceErrorNeedsContention
PROPERTIES ImplementsPromise CallsSettle
CHECK_DEADLOCK FALSE
