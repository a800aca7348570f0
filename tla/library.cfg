SPECIFICATION SpecWithRestarts
CONSTANTS
  Ids = {i1, i2}
  Callers = {c1}
  Plays = {p1, p2}
  None = None
SYMMETRY Symmetry
INVARIANTS LibraryTypeOK SavedVoices NoShadow HomeHearsSaved
PROPERTIES SelectionKept
