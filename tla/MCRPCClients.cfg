\* any failure: two listeners, three connections, one request, any configuration
CONSTANTS
  Requests = {r1}
  MaxListeners = 2
  MaxSockets = 3
  MaxCalls = 3
  CallsMayFail = TRUE
  Configs <- MCConfigs
SPECIFICATION RPCSpec
INVARIANTS TypeOK OneHandler ServerFollowsListeners
PROPERTIES SubscriptionSettles SendsSettle
CHECK_DEADLOCK FALSE
