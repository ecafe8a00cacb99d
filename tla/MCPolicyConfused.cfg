\* Policies of one rule over a default that allows.
CONSTANTS
  Servers = {"s1", "s2"}
  Tools = {"t", "u"}
  ArgNames <- MCArgNames
  Rank <- MCRank
  Values = {"srv", "etc", "list"}
  Missing = "missing"
  Matchers = {"inSrv"}
  Outcome <- MCOutcome
  Policies <- OneRulePolicies
  Calls <- MCCalls
SPECIFICATION Spec
INVARIANTS
  TypeConfusionDenied
\* Both loops end.
CHECK_DEADLOCK FALSE
