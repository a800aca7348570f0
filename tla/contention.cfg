SPECIFICATION Spec
CONSTANTS
  Sessions = {s1, s2}
  Sentences = {hello}
  Bytes <- MCBytes
  MaxSessions = 2
  MaxQueueSentences = 1
  MaxTextBytes = 1
  IdleTimeout = 1
  TotalTimeout = 1
  Requests = {}
  Free = Free
  LeadingSilence = TRUE
INVARIANTS LockDiscipline OneChunkLate
PROPERTIES StreamsEnd SessionsLeave
\* Both ids are used up in the end, and then nothing is left to do.
CHECK_DEADLOCK FALSE
