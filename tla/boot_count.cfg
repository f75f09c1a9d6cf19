\* Neither container can be booted, and container a is forced again and again.
SPECIFICATION Spec
CONSTANTS
  CountLimit = 3
  MaxCount = 12
  MaxRev = 2
  NewBootInfo <- MCInvalid
  Faults = {}
  Habits = {}
PROPERTY StaysGivenUp
CHECK_DEADLOCK FALSE
