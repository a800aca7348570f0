SPECIFICATION Spec
CONSTANTS
  MaxSentences = 3
  MaxQueueSentences = 1
  ProxySlots = 1
  ControlSlots = 1
INVARIANTS Backpressure
\* There is one reply, and after it nothing is left to do.
CHECK_DEADLOCK FALSE
