\* One Stream that may end in every way.
CONSTANTS
  s1 = s1
  s2 = s2
  Streams = {s1}
  SessionCredit = 2
  Targets = {0, 2}
  StreamCredit = 2
  Bootstrap = 1
  MaxPayload = 2
  MaxBytes = 2
  Endings <- AllEndAnyWay
SPECIFICATION FairSpec
INVARIANTS NeverRefused
PROPERTIES StreamWindows CreditReturns
CHECK_DEADLOCK FALSE
