\* what the doc of RPCClientEvent.Subscribed says
CONSTANTS
  Requests = {r1}
  MaxListeners = 1
  MaxSockets = 2
  MaxCalls = 2
  CallsMayFail = FALSE
SPECIFICATION Spec
INVARIANT SubscribedIsActive
CHECK_DEADLOCK FALSE
