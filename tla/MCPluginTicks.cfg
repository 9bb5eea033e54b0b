SPECIFICATION TicksSpec
CONSTANTS
  TicksPerMs = 1
  MaxLag = 1
  MaxClock = 6
  Plugin = {"p", "q"}
  Intervals <- MCIntervals
  MaxDispatches = 6
INVARIANTS EveryPluginTicked
CHECK_DEADLOCK FALSE
