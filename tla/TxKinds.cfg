\* One Transmission of each kind, one connection failure.
CONSTANTS
  c1 = c1
  c2 = c2
  Carriers = {c1, c2}
  NoCarrier = NoCarrier
  NoTx = NoTx
  MaxTx = 3
  KindOf <- OpenDataControl
  Expirable <- NoIds
  MaxDataPending = 2
  MaxCtlPending = 2
  CarrierQueue = 1
  ControlQueue = 2
  MaxFailures = 1
  MaxAttempts = 1
SYMMETRY Symmetry
SPECIFICATION Spec
INVARIANTS NoSessionFailure NeverStranded
PROPERTIES SettledNeverHandledAgain KeepsContract
CHECK_DEADLOCK FALSE
