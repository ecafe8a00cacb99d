\* A list request whose answer does not parse.
CONSTANTS
  Posts = {"call", "list"}
  Streams = {"events"}
  Lists = {"list"}
SPECIFICATION Spec
INVARIANTS
  UnparsedNeverShown
\* The process exits.
CHECK_DEADLOCK FALSE
