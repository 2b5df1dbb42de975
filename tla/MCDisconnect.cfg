CONSTANTS
  SlotCount = 3
  Selections <- TwoSelections
  MaskChoices <- NoneOrOne
  Tables <- OneTable
  PollLoops = 2
  MaxFaults = 1
SPECIFICATION Spec
INVARIANTS DisconnectTypeOK RelayObeys ReportIsFresh MaskOutlivesRestart
