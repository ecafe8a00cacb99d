\* Two messages, pipes of one frame, both kinds of AgentIn, an agent that may stop
\* reading, every end of the child with and without an heir.
CONSTANTS
  N = 2
  PipeCapacity = 1
  AgentIns = {"wakes", "blocks"}
  Stalls = TRUE
  Heirs = TRUE
SPECIFICATION Spec
INVARIANTS
  ForwardedInOrder
  AnsweredOnce
  NothingLostAtExit
  ExitReportedFaithfully
PROPERTIES
  StopsEndRun
  AgentCloseEndsRun
\* A session ends.
CHECK_DEADLOCK FALSE
