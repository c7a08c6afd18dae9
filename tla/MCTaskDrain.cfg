SPECIFICATION Spec
CONSTANTS
  MaxTasks = 2
  Chats = {u1, u2}
  DaemonChats = {}
  NoChat = NoChat
  Limit = 1
  MaxQueue = 1
  MaxSettle = 0
  Workspaces = {"task"}
  MaxStops = 1
  LateReap = FALSE
INVARIANTS
  DrainingRunsAreStopped
CHECK_DEADLOCK FALSE
