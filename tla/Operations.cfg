\* Device control, desktop engine, Bundle, landing manager, Provisioning.
CONSTANTS
  Devices = {d1}
  NoDevice = none
  MaxCommands = 3
  MaxSecrets = 2
  MaxDeviceFaults = 2
  Procs = {p1, p2}
  NoProc = none
  RecoveryDelays = 2
  MaxCalls = 3
  MaxExits = 2
  BundleProfiles = {f1, f2}
  ChannelSize = 1
  RetryDelays = 1
  MaxGeneration = 2
  Versions = {v1, v2}
  Foreign = foreign
  Configs = {c1, c2}
  Nil = none
  MaxOps = 3
  MaxFaults = 2
  Profiles = {pA, pB}
  Bundles = {bA}
  Ports = {1, 2}
  Aliases = {none, name}
  NoAlias = none
  Modes = {"parallel", " parallel"}
  Aliased = {pA, pB}
  MaxChanges = 2
  MaxStoreFaults = 1
  MaxClient = 2
  EarlierVersion = v1
  EarlierConfig = c1
  FirstProfile = pA
  FirstPort = 1
SPECIFICATION Spec
INVARIANTS DevicesAgree EngineObeys ReportsTheLatest InstallsWhole StoreAgrees ClientAgrees
PROPERTIES ForeignUntouched WantedHappens
CHECK_DEADLOCK FALSE
