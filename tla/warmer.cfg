SPECIFICATION Spec
CONSTANTS
  Keys = {jarvis, samuel, zara}
  Signatures = {jarvis, samuel}
  None = None
  Callers = {warmer, request}
  Warmer = warmer
  Sizes = {2, 3, 5}
  MaxEntries = 2
  MaxBytes = 4
INVARIANTS CacheTypeOK BytesExact LeastRecentlyUsed WarmerTypeOK
PROPERTIES ChangesGetWarm ComesToRest
