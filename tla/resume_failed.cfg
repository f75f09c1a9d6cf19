\* An update continued after its last chunk failed.
SPECIFICATION Spec
CONSTANTS
  t1 = t1
  t2 = t2
  None = None
  Ident <- MCIdent
  Kind <- MCKind
  Dest <- MCDest
  Manifests <- MCTwoManifests
  Thread <- MCThread
  Faults = {"kill"}
  Habits = {}
  MaxJournal = 2
  MaxChunks = 2
PROPERTY FinalizeNeedsSuccess
