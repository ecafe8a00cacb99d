\* Policies of at most two rules over three arguments.
CONSTANTS
  Servers = {"s1", "s2"}
  Tools = {"t", "u"}
  ArgNames <- MCArgNames
  Rank <- MCRank
  Values = {"srv", "etc", "list"}
  Missing = "missing"
  Matchers = {"inSrv"}
  Outcome <- MCOutcome
  Policies <- MCPolicies
  Calls <- MCCalls
SPECIFICATION Spec
INVARIANTS
  PermitJustified
  PermittedIsListed
  UnnamedNeverWidens
\* Both loops end.
CHECK_DEADLOCK FALSE
