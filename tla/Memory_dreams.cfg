SPECIFICATION Spec
CONSTANTS
  MaxId = 3
  a = a
  b = b
  d1 = d1
  d2 = d2
  Texts = {a, b}
  Ruled = {b}
  Blank = Blank
  OldFacts <- MCOldFacts
  Dreamers = {d1, d2}
  OldDreams = {o}
  TopFacts = 1
  MaxCalls = 1
  MaxCrashes = 1
  None = None
INVARIANTS TypeOK NoStaleWrite  ImportComplete
 
SYMMETRY MCSymmetry
CHECK_DEADLOCK FALSE
