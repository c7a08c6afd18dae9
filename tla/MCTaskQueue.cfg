SPECIFICATION Spec
CONSTANTS
  MaxTasks = 3
  Chats = {u1, d1}
  DaemonChats = {d1}
  NoChat = NoChat
  Limit = 2
  MaxQueue = 2
  MaxSettle = 0
  Workspaces = {"task"}
  MaxStops = 0
  LateReap = FALSE
INVARIANTS
  TypeOK
  ConversationExclusive
  StartsMatchLoop
PROPERTIES
  DaemonYields
  ConversationFIFO
CHECK_DEADLOCK FALSE
