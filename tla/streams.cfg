SPECIFICATION Spec
CONSTANTS
  Requests = {plain, slower}
  Adjusted = {slower}
  MaxChunks = 3
  PipeChunks = 1
  Free = Free
INVARIANTS StreamTypeOK NoFalseSuccess CleanEndIsWhole
PROPERTIES LockComesBack OverFreesLock
\* Both requests are served in the end, and then nothing is left to do.
CHECK_DEADLOCK FALSE
