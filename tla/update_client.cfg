\* A client that waits for the status, no faults: safety and liveness.
SPECIFICATION FairSpec
CONSTANTS
  t1 = t1
  t2 = t2
  None = None
  Ident <- MCIdent
  Kind <- MCKind
  Dest <- MCDest
  Manifests <- MCManifests
  Thread <- MCThread
  Faults = {}
  Habits = {"payload"}
  MaxJournal = 3
  MaxChunks = 2
INVARIANTS TypeOK ThreadsTracked OneWorker JobStable FinalizeComplete
PROPERTIES CancelEnds JobEnds
