\* Broker and Registry: 2 calls, 3 callbacks, on_timeout: approve (the value
\* closest to the forbidden one).
CONSTANTS
  a1 = a1
  a2 = a2
  c1 = c1
  c2 = c2
  c3 = c3
  Asks <- MCAsks
  Callbacks <- MCCallbacks
  OnTimeout = "approve"
SPECIFICATION Spec
INVARIANTS
  GrantedOnlyByApproval
  NonceSingleUse
  NothingJams
  NeverWaitsInVain
PROPERTIES
  EveryoneReturns
  GateImplemented
\* Every ask returned and every callback used up: the system is at rest.
CHECK_DEADLOCK FALSE
