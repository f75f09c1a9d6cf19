\* Updates, resets, crashes of the server and operator messages under the shipped limit of three boots.
SPECIFICATION FairSpec
CONSTANTS
  CountLimit = 3
  MaxCount = 4
  MaxRev = 3
  NewBootInfo <- MCInvalid
  Faults = {"kill"}
  Habits = {}
INVARIANTS TypeOK BootsUpdated NeverBootsIncomplete FallbackTold
PROPERTIES GivesUp
CHECK_DEADLOCK FALSE
