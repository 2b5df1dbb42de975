SPECIFICATION FairSpec
CONSTANTS
  Ports = 2
  Image <- Images
  Room <- Rooms
  Modulus = 4
  Patience = 1
  Attempts <- Tries
  MaxFaults <- Faults
CHECK_DEADLOCK FALSE
INVARIANTS
  XmodemTypeOK
  DoneIsWhole
PROPERTIES
  TransferEnds
