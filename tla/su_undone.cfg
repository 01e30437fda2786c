SPECIFICATION Spec
CONSTANTS
  Updaters = {u, v}
  Service = service
PROPERTY UpdatesStay
CHECK_DEADLOCK FALSE
