\* The server dies between the removal of the manifest and that of the journal.
SPECIFICATION Spec
CONSTANTS
  t1 = t1
  t2 = t2
  None = None
  Ident <- MCIdent
  Kind <- MCKind
  Dest <- MCDest
  Manifests <- MCTwoManifests
  Thread <- MCThread
  Faults = {"kill", "cleanup"}
  Habits = {}
  MaxJournal = 2
  MaxChunks = 2
INVARIANT JournalNeedsManifest
