CONSTANTS
  THRESHOLD = 3
  Grace = 6
  Trial = 5
  NotifyMax = 2
  MaxManual = 1
  MaxReboots = 1
SPECIFICATION FailoverFairSpec
INVARIANTS ModeIsTrue
PROPERTIES  DegradesToCpu RestoresGpu
