SPECIFICATION Spec
CONSTANTS
  Ids = {i1, i2}
  Callers = {c1}
  Plays = {p1}
  None = None
SYMMETRY Symmetry
PROPERTIES AcceptedStays
