\* After a factory reset: two tariffs, one fault.
CONSTANTS
  PhaseCount = 1
  TariffCount = 2
  RateChoices <- TwoTariffs
  DivisorChoices <- Nonzero
  Flows <- Reverse
  WritePeriod = 2
  FlushAbove = 1
  StartLength = 24
  MaxReadings = 2
  MaxFaults = 1
SPECIFICATION FairSpec
INVARIANTS MeteringTypeOK Accounted
PROPERTIES LeavesNothing EveryRegisterSaved
