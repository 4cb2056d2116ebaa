\* One Stream whose client writes a byte; records may be evicted.
CONSTANTS
  Writers = {"client"}
  Evicts = TRUE
SPECIFICATION EndSpec
INVARIANTS NeverRefused EndsAgree
PROPERTIES BothRetire
CHECK_DEADLOCK FALSE
