SPECIFICATION DisplayFairSpec
CONSTANTS
  energy = energy  power = power
  Blank = Blank  Straddling = Straddling
  Items = {power}
  ListMax = 2
  Byte = 4
  Second = 2
  Half = 1
  Insertion = 1
  DefaultTimes <- MCTimes
  DefaultAmount = 1
  DefaultItems <- MCDefaultItems
  TimeChoices <- MCTimeChoices
  MaxEdits = 1
  MaxFaults = 1
INVARIANTS DisplayTypeOK ShowsItsList
PROPERTIES DisplayRests ScrollGoesRound
