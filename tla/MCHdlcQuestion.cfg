SPECIFICATION Spec
CONSTANTS
  Requests = 1
  RequestParts <- TwoParts
  MtuParts = 2
  AnswerLength = 100
  MaxLenTrans <- CodeMaxLenTrans
  Llc <- CodeLlc
  FrameOverhead <- CodeFrameOverhead
  Timeout = 4
  MaxPolls = 0
  MaxFaults = 1
  MaxUnanswered = 0
  MaxRuns = 0
  MaxRefusals = 0
INVARIANTS
  QuestionWhole
