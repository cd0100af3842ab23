SPECIFICATION Spec
CONSTANTS
  a1 = a1
  a2 = a2
  Alarms <- MCAlarms
  Reply = Reply
  Torn = Torn
  MaxMessages = 5
  MaxFaults = 2
INVARIANTS OneAlarmPerReply ReplyClearsNewest
PROPERTIES FallsSilent
CHECK_DEADLOCK FALSE
