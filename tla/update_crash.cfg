\* The server dies or the board loses power at any point outside the final cleanup, and system calls fail.
SPECIFICATION Spec
CONSTANTS
  t1 = t1
  t2 = t2
  None = None
  Ident <- MCIdent
  Kind <- MCKind
  Dest <- MCDest
  Manifests <- MCTwoManifests
  Thread <- MCThread
  Faults = {"kill", "power", "mount", "signal", "device", "thread"}
  Habits = {"location"}
  MaxJournal = 2
  MaxChunks = 2
SYMMETRY MCSymmetry
INVARIANTS NotBootableWhileWritten SucceededInPlace JournalSound
PROPERTY KeepsUpdate
