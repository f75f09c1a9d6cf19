\* Two clients, every way to cut their streams, leaving and SIGINT at any point.
SPECIFICATION FairSpec
CONSTANTS
  Client = {c1, c2}
  None = None
  Sync <- MCSync
  Scripts <- MCScripts
  MaxPayload = 2
  ReadLimit = 2
  SendSpace = 2
  ReplySpace = 1
INVARIANTS TypeOK NothingHeldBack
PROPERTIES KeepsPromise AllAnswered NextServed
CHECK_DEADLOCK FALSE
