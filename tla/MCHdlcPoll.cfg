SPECIFICATION Spec
CONSTANTS
  Requests = 1
  RequestParts <- OnePart
  MtuParts = 2
  AnswerLength = 100
  MaxLenTrans <- CodeMaxLenTrans
  Llc <- CodeLlc
  FrameOverhead <- CodeFrameOverhead
  Timeout = 4
  MaxPolls = 2
  MaxFaults = 0
  MaxUnanswered = 0
  MaxRuns = 0
  MaxRefusals = 0
INVARIANTS
  InStep
