CONSTANTS
  Size = 2
  Alarms = {1, 2}
  Timeout = 2
  Chars = {0, 1}
  DriverAlarm = 2
  MaxTraffic = 3
SPECIFICATION MCSpec
INVARIANTS NothingStuck Consistent
PROPERTIES ImplementsSerialLine
