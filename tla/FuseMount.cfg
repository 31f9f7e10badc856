SPECIFICATION Spec
CONSTANTS
  Options <- MCOptions
  MaxFaults = 2
  MaxOthers = 1
 
PROPERTIES PeersFinish
CHECK_DEADLOCK FALSE
