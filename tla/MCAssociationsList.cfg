SPECIFICATION Spec
CONSTANTS
  ch1 = ch1  ch2 = ch2
  k1 = k1  k2 = k2  k3 = k3
  b1 = b1  b2 = b2  b3 = b3  b4 = b4  b5 = b5
  energy = energy  unknown = unknown
  Channels <- TwoChannels
  Keys <- ThreeKeys
  Slots <- TwoSlots
  Blocks <- FiveBlocks
  Objects <- SomeObjects
  Known <- KnownObjects
  NoEntry = NoEntry
  ListMax = 2
  Null = Null
  Dangling = Dangling
SYMMETRY Symmetric
CHECK_DEADLOCK FALSE
INVARIANTS
  RunsWhatIsAsked
