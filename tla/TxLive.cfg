\* Every Transmission settles although Carriers fail, and the watermark is learnt again.
CONSTANTS
  c1 = c1
  c2 = c2
  Carriers = {c1, c2}
  NoCarrier = NoCarrier
  NoTx = NoTx
  MaxTx = 2
  KindOf <- DataControl
  Expirable <- NoIds
  MaxDataPending = 2
  MaxCtlPending = 2
  CarrierQueue = 1
  ControlQueue = 2
  MaxFailures = 2
  MaxAttempts = 1
SPECIFICATION FairSpec
PROPERTIES EverySettles RetireRelearned
CHECK_DEADLOCK FALSE
