SPECIFICATION Spec
CONSTANTS
  Sessions = {s1, s2}
  Sentences = {hello}
  Bytes <- MCBytes
  MaxSessions = 1
  MaxQueueSentences = 1
  MaxTextBytes = 2
  IdleTimeout = 1
  TotalTimeout = 1
  Requests = {r1}
  Free = Free
  LeadingSilence = FALSE
SYMMETRY Symmetry
INVARIANTS AudioTypeOK Capacity StatsBalance CompletionIsHonest
PROPERTIES FeedSpec
\* Both ids are used up in the end, and then nothing is left to do.
CHECK_DEADLOCK FALSE
