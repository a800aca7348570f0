SPECIFICATION Spec
CONSTANTS
  Sessions = {s1}
  Sentences = {hello}
  Bytes <- MCBytes
  MaxSessions = 1
  MaxQueueSentences = 1
  MaxTextBytes = 2
  IdleTimeout = 1
  TotalTimeout = 2
  Requests = {r1}
  Free = Free
  LeadingSilence = TRUE
PROPERTIES DeadlinesFreeLock
CHECK_DEADLOCK FALSE
