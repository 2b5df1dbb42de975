SPECIFICATION FairSpec
CONSTANTS
  Requests = 3
  RequestParts <- OnePart
  MtuParts = 2
  AnswerLength = 100
  MaxLenTrans <- CodeMaxLenTrans
  Llc <- CodeLlc
  FrameOverhead <- CodeFrameOverhead
  Timeout = 4
  MaxPolls = 0
  MaxFaults = 2
  MaxUnanswered = 1
  MaxRuns = 7
  MaxRefusals = 0
INVARIANTS
  InStep
PROPERTIES
  KeepsExchange
  AnswerComes
