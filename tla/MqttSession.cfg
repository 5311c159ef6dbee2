SPECIFICATION FairSpec
CONSTANTS
  MaxConns = 2
  MaxAsks = 2
  MaxMsgs = 2
  MaxOther = 1
INVARIANTS MqttInv
PROPERTIES CallsReturn LostIsNoticed
CHECK_DEADLOCK FALSE
