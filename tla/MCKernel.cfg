\* The scheduler with six tasks.
CONSTANTS
  console = console  timed = timed  metering = metering
  keyboard = keyboard  protocol = protocol  comm = comm
  NoTask = NoTask
  Tasks = {console, timed, metering, keyboard, protocol, comm}
  AlwaysUp = {console, keyboard}
  InitAlloc = {timed, comm}
  FreesOnExit = {comm}
  LazyAlloc = {protocol}
  Orphaning = {protocol}
  Console = console
  Keyboard = keyboard
  WakeTime = 2
  MaxStalls = 1
  Order <- MCOrder
  UpAt <- MCRestrictedUpAt
  Clients <- MCClients
SPECIFICATION FairSpec
INVARIANTS TypeOK LevelsApart
PROPERTIES PowerRequestsKept RunResumes PowerRequestsEnd
