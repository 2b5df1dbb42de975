SPECIFICATION FairSpec
CONSTANTS
  Tasks = {protocol, comm}
  NoTask = NoTask
  Memory = 7
  Header = 1
  TaskQuota = 3
  ShortQuota = 3
  Word = 6
  Requests <- OneOrTwo
INVARIANTS HeapTypeOK HeapSound QuotaKept
PROPERTIES CallsReturn KeepsPromise
\* a null pointer cleared ends the program
CHECK_DEADLOCK FALSE
