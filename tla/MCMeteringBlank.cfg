\* A meter whose disk was blank: the file grows as registers are written.
CONSTANTS
  PhaseCount = 1
  TariffCount = 2
  RateChoices <- TwoTariffs
  DivisorChoices <- Nonzero
  Flows <- Reverse
  WritePeriod = 2
  FlushAbove = 1
  StartLength = 0
  MaxReadings = 2
  MaxFaults = 0
SPECIFICATION Spec
INVARIANT Accounted
