SPECIFICATION Spec
CONSTANTS
  Calls = {c1, c2, c3}
  Commands <- MCCommands
  Arguments <- MCArguments
  MaxStarts = 2
INVARIANTS
  ForwardedIsRecorded
  DamageIsLocal
  OmissionNeverWidens
  
  LoadedIsUsable
PROPERTIES
  RecorderImplemented
  HaltEndsSession
CHECK_DEADLOCK FALSE
