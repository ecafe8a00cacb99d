\* Texts of up to three characters; about a thousand matchers.
CONSTANTS
  MaxText = 3
  Values <- MCValues
  Missing = Missing
  TypeOf <- MCTypeOf
  Chars <- MCChars
  Texts <- MCTexts
  Text <- MCText
  Tests <- MCTests
  Passes <- MCPasses
  Canonical <- MCCanonical
  Invalid = Invalid
  Patterns <- MCPatterns
  Comparisons <- MCComparisons
  Compares <- MCCompares
  Matchers <- MCMatchers
SPECIFICATION Spec
INVARIANTS
  MatchIsConjunction
  AbsentMatchesPresenceOnly
  GlobsAgree
\* Evaluation ends.
CHECK_DEADLOCK FALSE
