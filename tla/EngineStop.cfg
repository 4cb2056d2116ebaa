\* A Stop between the recovery timer and the launch it asks for.
CONSTANTS
  Procs = {p1, p2}
  NoProc = NoProc
  Delays = 2
  MaxCalls = 3
  MaxExits = 2
SPECIFICATION EngineSpec
PROPERTY NoAutomaticStart
CHECK_DEADLOCK FALSE
