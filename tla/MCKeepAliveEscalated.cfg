SPECIFICATION KeepAliveSpec
CONSTANTS
  MaxRows = 4
  MaxRetries = 1
  MaxHands = 0
  MaxStops = 1
PROPERTIES
  EscalationStands
CHECK_DEADLOCK FALSE
