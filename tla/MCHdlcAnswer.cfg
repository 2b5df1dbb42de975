SPECIFICATION Spec
CONSTANTS
  Requests = 1
  RequestParts <- OnePart
  MtuParts = 2
  AnswerLength = 300
  MaxLenTrans <- CodeMaxLenTrans
  Llc <- CodeLlc
  FrameOverhead <- CodeFrameOverhead
  Timeout = 4
  MaxPolls = 0
  MaxFaults = 1
  MaxUnanswered = 0
  MaxRuns = 0
  MaxRefusals = 0
INVARIANTS
  AnswerWhole
