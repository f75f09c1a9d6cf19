\* A client that sends its messages without waiting, as client.cc does.
SPECIFICATION FairSpec
CONSTANTS
  t1 = t1
  t2 = t2
  None = None
  Ident <- MCIdent
  Kind <- MCKind
  Dest <- MCDest
  Manifests <- MCOneManifest
  Thread <- MCThread
  Faults = {}
  Habits = {"pipeline"}
  MaxJournal = 2
  MaxChunks = 2
PROPERTY CancelEnds
