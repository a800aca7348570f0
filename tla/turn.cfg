SPECIFICATION Spec
CONSTANTS
  Turns = {t1}
  Others = {o1}
  MaxDeltas = 1
  StallAck = TRUE
  jarvis = jarvis
  samuel = samuel
  Personas = {jarvis, samuel}
  u1 = u1
  u2 = u2
  Urls = {u1, u2}
  Wishes <- MCWishes
  Calls <- MCCalls
  Sources = 2
  MaxIntents = 2
  None = None
INVARIANTS TurnTypeOK SpokenOnce OnePreparation RetryReuses MadeAsAsked
PROPERTIES TurnEnds
\* The turn and the requests are handled once, and then nothing is left to do.
CHECK_DEADLOCK FALSE
