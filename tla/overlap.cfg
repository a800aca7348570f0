SPECIFICATION Spec
CONSTANTS
  Ids = {i1}
  Callers = {c1, c2}
  Plays = {p1}
  None = None
INVARIANTS SavedVoices
