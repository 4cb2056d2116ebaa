\* Two addresses, two connections; the last generation is reached.
CONSTANTS
  k1 = k1
  k2 = k2
  Conns = {k1, k2}
  NoConn = NoConn
  NumCarriers = 2
  LastGeneration = 3
  MayBeFull = TRUE
  MaxFailures = 2
  MaxEarly = 2
SPECIFICATION FairSpec
INVARIANTS IInv CandidateAboveServer AcceptedByServer
PROPERTIES HistoriesKept Reconnects EndTogether
CHECK_DEADLOCK FALSE
