SPECIFICATION Spec
CONSTANTS
  Processes = {p, q}
  Files = {f, g}
  KeepsOpen = FALSE
INVARIANT OneInstance
