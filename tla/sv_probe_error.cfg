SPECIFICATION Spec
CONSTANTS
  K = 6
  HandleOpens = {TRUE}
  MaxProbeErrors = 1
  MaxActivity = 8
PROPERTY ErrorsKillNobody
CHECK_DEADLOCK FALSE
