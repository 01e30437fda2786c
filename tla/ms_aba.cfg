SPECIFICATION Spec
CONSTANTS
  Contents = {a, b}
  Nothing = Nothing
  Policy = "ignore"
  GlobalPolicy = "ignore"
  MaxEdits = 3
  MaxFaults = 0
  MaxStops = 0
PROPERTY SkipsJustified
