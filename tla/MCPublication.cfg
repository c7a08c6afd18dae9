SPECIFICATION PublicationSpec
CONSTANTS
  a1 = a1  a2 = a2  b1 = b1  c1 = c1
  A = A  B = B  C = C
  here = here  there = there
  NoOne = NoOne
  Writers = {a1, a2, b1, c1}
  Procs = {A, B, C}
  Home <- HomeOf
  Host <- HostsOf
  MaxRelease = 2
  Survivors = 1
  x = x  y = y  f = f  g = g
  Leases = {x, y}
  Files = {f, g}
  FolderOf <- OwnFolder
  Head = Head  NoFile = NoFile  Absent = Absent  Outdated = Outdated  Free = Free
  MaxActs = 2
  MaxMishaps = 2
  SyncMayFail = FALSE
INVARIANTS
  TypeOK
  HolderKeepsLock
  OneDecision
  FreeLockCanBeTaken
  LeaseTypeOK
  WorkKept
PROPERTIES
  EditsRespected
CHECK_DEADLOCK FALSE
