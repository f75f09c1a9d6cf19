\* One board, every part of its configuration file in any order; boot messages come when no worker runs.
SPECIFICATION Spec
CONSTANTS
  Names = {"a", "b"}
  Parts <- MCParts
  Devices <- MCDevices
  ConfLines <- MCConfLines
  HashLines = {"md5", "SHA256"}
  CmdLines <- MCCmdLines
  Users = {"main", "worker"}
  OnDisk <- MCOnDisk
  Fstab <- MCFstab
  Faults = {"mount", "read", "write", "kill"}
  Files = {"img", "tar"}
  SizeOf <- MCSizeOf
  BlockSize = 2
  IntLimit = 2
  Word = 16
  Chunks <- MCChunks
  Preparations <- MCPreparations
  Habits = {}
INVARIANTS TypeOK JobInPlace MountPointFree
PROPERTIES NeverActive JobEnds
