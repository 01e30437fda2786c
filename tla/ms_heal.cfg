SPECIFICATION FairSpec
CONSTANTS
  Contents = {a, b}
  Nothing = Nothing
  Policy = "delete"
  GlobalPolicy = "ignore"
  MaxEdits = 2
  MaxFaults = 3
  MaxStops = 1
PROPERTY SkipsJustifiedWhenCalm
PROPERTY Heals
