CONSTANTS
  RxSize = 2
  Period = 1
  DefaultTimeout = 1
  MinTimeout = 1
  MaxTimeout = 2
  Substitute = 2
  DefaultBaudrate = 2
  Choices <- MCChoices
  AnswerSizes = {1, 2}
  Blank = Blank
  FirstFiles <- MCFirstFiles
  MaxBytes = 3
  MaxSets = 1
  MaxFaults = 1
SPECIFICATION Spec
INVARIANTS CommTypeOK AnswersGoOutWhole SettingsKept
PROPERTIES LineIsRead PortFreed
