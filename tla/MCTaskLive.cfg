SPECIFICATION FairSpec
CONSTANTS
  MaxTasks = 3
  Chats = {u1}
  DaemonChats = {}
  NoChat = NoChat
  Limit = 1
  MaxQueue = 2
  MaxSettle = 1
  Workspaces = {"none"}
  MaxStops = 0
  LateReap = FALSE
PROPERTIES
  ForegroundServed
  ExecutingEnds
CHECK_DEADLOCK FALSE
