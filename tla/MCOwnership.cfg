SPECIFICATION Spec
CONSTANTS
  Names = {"d1", "d2"}
  Sets = {"r1"}
  Labels = {"a", "b"}
  FirstLabel <- MCFirstLabel
  MaxRetries = 4
  MaxUID = 2
  MaxEdits = 2
  MaxFaults = 1
PROPERTIES NotTakenBack OwnSetsOnly Settles
CHECK_DEADLOCK FALSE
