SPECIFICATION Spec
CONSTANTS
  MaxTasks = 2
  Chats = {u1}
  DaemonChats = {}
  NoChat = NoChat
  Limit = 1
  MaxQueue = 1
  MaxSettle = 0
  Workspaces = {"task"}
  MaxStops = 0
  LateReap = TRUE
PROPERTIES
  StopIsFinal
CHECK_DEADLOCK FALSE
