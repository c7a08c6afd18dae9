SPECIFICATION Spec
CONSTANTS
  MaxTasks = 3
  Chats = {u1, d1}
  DaemonChats = {d1}
  NoChat = NoChat
  Limit = 1
  MaxQueue = 1
  MaxSettle = 1
  Workspaces = {"task", "own"}
  MaxStops = 1
  LateReap = FALSE
INVARIANTS
  RunsMatchRows
  NoLostTask
  CompletedWorkLanded
  NoOrphanPauseLock
  ParkedHasNoContinuation
PROPERTIES
  ImplementsService
CHECK_DEADLOCK FALSE
