CONSTANTS
  NumCores = 2
  NumIcr = 1
  Causes = {1}
  CountMod = 4
  NumPerf = 2
  SlowGlobal = {"UART", "COHO"}
  SlowLocal = {"L2"}
  Uart = "UART"
  Mask = {2, 5, 6}
  Workers = {1}
SPECIFICATION MCSpec
INVARIANTS NoStrayInterrupt OnlySlowIsLate
PROPERTIES RequestsServed SleepersWake
