SPECIFICATION Spec
CONSTANTS
  Processes = {p, q, r}
  Files = {f, g}
  KeepsOpen = FALSE
PROPERTY StaleMeansFree
