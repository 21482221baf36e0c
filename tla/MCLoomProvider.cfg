\* two calls, one retry of a receipt, two accounts, two functions for 'data'
CONSTANTS
  r1 = r1
  r2 = r2
  Requests <- MCRequests
  Uses <- MCUses
  Retries = 1
  Callbacks = {c1, c2}
  Accounts = {a1, a2}
SPECIFICATION FairSpec
INVARIANTS TypeOK EventHeard RegisteredHear ReceiptPatient ToldOnce
PROPERTIES SendSettles
CHECK_DEADLOCK FALSE
