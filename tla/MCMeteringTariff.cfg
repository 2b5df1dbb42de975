\* A change of tariff while readings wait.
CONSTANTS
  PhaseCount = 1
  TariffCount = 2
  RateChoices <- TwoTariffs
  DivisorChoices <- Nonzero
  Flows <- Reverse
  WritePeriod = 2
  FlushAbove = 1
  StartLength = 24
  MaxReadings = 2
  MaxFaults = 0
SPECIFICATION Spec
PROPERTY TariffsApart
