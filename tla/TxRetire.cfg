\* The only RETIRE after a recovery is lost with its Carrier.
CONSTANTS
  c1 = c1
  c2 = c2
  Carriers = {c1, c2}
  NoCarrier = NoCarrier
  NoTx = NoTx
  MaxTx = 1
  KindOf <- OneData
  Expirable <- NoIds
  MaxDataPending = 2
  MaxCtlPending = 2
  CarrierQueue = 1
  ControlQueue = 2
  MaxFailures = 2
  MaxAttempts = 1
SPECIFICATION FairSpec
PROPERTY RetireRefreshed
CHECK_DEADLOCK FALSE
