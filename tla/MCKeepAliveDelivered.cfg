SPECIFICATION KeepAliveSpec
CONSTANTS
  MaxRows = 4
  MaxRetries = 1
  MaxHands = 0
  MaxStops = 2
PROPERTIES
  DeliveredStaysDone
CHECK_DEADLOCK FALSE
