\* Two Streams share the Session window, one of them may be reset; two writers wait for room.
CONSTANTS
  s1 = s1
  s2 = s2
  w1 = w1
  w2 = w2
  Streams = {s1, s2}
  SessionCredit = 2
  Targets = {0, 2}
  StreamCredit = 1
  Bootstrap = 1
  MaxPayload = 1
  MaxBytes = 2
  Endings <- OneReset
  Waiters = {w1, w2}
  WaitCredit = 3
  Bulk = {w1}
  QueueLimit = 2
  QueueReserve = 1
  PendingLimit = 2
  PerPermit = 2
  WakeBatch = 1
  DispatchBatch = 2
  Quantum = 1
  Lengths = {2}
  MaxWrites = 2
  MaxLosses = 1
SPECIFICATION BothSpec
INVARIANTS LimitsRespected AccountsAgree
PROPERTIES SessionWindows CreditSuffices WritersFed
CHECK_DEADLOCK FALSE
