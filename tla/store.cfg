SPECIFICATION StoreSpec
CONSTANTS
  short = short
  long = long
  Sessions = {s1}
  Sentences = {short, long}
  Bytes <- MCBytes
  MaxSessions = 1
  MaxQueueSentences = 2
  MaxTextBytes = 5
  IdleTimeout = 2
  TotalTimeout = 4
INVARIANTS TypeOK InOrder ByteAccounts
\* The one id is used up in the end, and then nothing is left to do.
CHECK_DEADLOCK FALSE
