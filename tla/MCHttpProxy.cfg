\* A call and a list request of one session, and one event stream.
CONSTANTS
  Posts = {"call", "list"}
  Streams = {"events"}
  Lists = {"list"}
SPECIFICATION Spec
INVARIANTS
  RefusalsFinal
  HttpListsFiltered
  CleanExitLosesNothing
  EntriesReclaimed
PROPERTIES
  CancelStopsRun
  LeavingFreesHandler
\* The process exits.
CHECK_DEADLOCK FALSE
