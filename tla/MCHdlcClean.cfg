SPECIFICATION Spec
CONSTANTS
  Requests = 4
  RequestParts <- CleanParts
  MtuParts = 3
  AnswerLength = 300
  MaxLenTrans <- CodeMaxLenTrans
  Llc <- CodeLlc
  FrameOverhead <- CodeFrameOverhead
  Timeout = 3
  MaxPolls = 1
  MaxFaults = 0
  MaxUnanswered = 2
  MaxRuns = 8
  MaxRefusals = 1
INVARIANTS
  HdlcTypeOK
  QuestionWhole
  AnswerWhole
