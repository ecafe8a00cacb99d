\* Two agents, each with a message in flight and numbering as it likes, a server
\* that uses one of their ids and one of its own, every configuration.
CONSTANTS
  r1 = r1
  r2 = r2
  Requests <- MCRequests
  Clients <- MCRequests
  ClientOf <- EachItsOwn
  Ids = {"1", "2"}
  ServerIds = {"1"}
  Targets <- MCTargets
  Decision <- MCDecision
  Hidden <- MCHidden
  Configs <- AllConfigs
SPECIFICATION Spec
INVARIANTS
  NothingUnrecorded
  OnlyPermittedReachServer
  LogMatchesOutcome
  ListsFiltered
  AnswersCorrelated
PROPERTIES
  EveryRequestJudged
\* The agent falls silent once its messages are used up.
CHECK_DEADLOCK FALSE
