SPECIFICATION KeepAliveSpec
CONSTANTS
  MaxRows = 3
  MaxRetries = 1
  MaxHands = 1
  MaxStops = 1
PROPERTIES
  StopRespected
CHECK_DEADLOCK FALSE
