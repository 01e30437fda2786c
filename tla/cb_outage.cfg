SPECIFICATION Spec
CONSTANTS
  Workers = 4
  MaxFailures = 70
PROPERTY HeldWhenTripped
