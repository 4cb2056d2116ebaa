\* Retransmissions that race their answers, and a Transmission the sweep may drop.
CONSTANTS
  c1 = c1
  c2 = c2
  Carriers = {c1, c2}
  NoCarrier = NoCarrier
  NoTx = NoTx
  MaxTx = 2
  KindOf <- OpenData
  Expirable <- FirstId
  MaxDataPending = 2
  MaxCtlPending = 2
  CarrierQueue = 2
  ControlQueue = 2
  MaxFailures = 1
  MaxAttempts = 2
SYMMETRY Symmetry
SPECIFICATION Spec
INVARIANTS IInv BindingInv
CHECK_DEADLOCK FALSE
