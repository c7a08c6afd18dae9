SPECIFICATION Spec
CONSTANTS
  a1 = a1  a2 = a2  b1 = b1  c1 = c1
  A = A  B = B  C = C
  here = here  there = there
  NoOne = NoOne
  Writers = {a1, b1, c1}
  Procs = {A, B, C}
  Home <- HomeOf
  Host <- OneHost
  MaxRelease = 2
  Survivors = 2
INVARIANTS
  HolderKeepsLock
CHECK_DEADLOCK FALSE
