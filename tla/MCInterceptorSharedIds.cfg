\* Ids that more than one sender uses: two agent sessions behind one HTTP proxy,
\* and a server that numbers its own requests from 1 as well.
CONSTANTS
  r1 = r1
  r2 = r2
  Requests <- MCRequests
  Clients <- MCRequests
  ClientOf <- EachItsOwn
  Ids = {"1"}
  ServerIds = {"1"}
  Targets <- MCTargets
  Decision <- MCDecision
  Hidden <- MCHidden
  Configs <- DefaultConfig
SPECIFICATION Spec
INVARIANTS
  HiddenNeverShown
CHECK_DEADLOCK FALSE
