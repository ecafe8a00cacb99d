\* An AgentIn whose Close does not wake a Read.
CONSTANTS
  N = 1
  PipeCapacity = 1
  AgentIns = {"blocks"}
  Stalls = FALSE
  Heirs = FALSE
SPECIFICATION Spec
PROPERTIES
  ChildDeathEndsRun
\* A session ends.
CHECK_DEADLOCK FALSE
