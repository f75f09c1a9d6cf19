\* One board; boot messages are handled at any time, and no system call fails.
SPECIFICATION Spec
CONSTANTS
  Names = {"a", "b"}
  Parts <- MCParts
  Devices <- MCDevices
  ConfLines <- MCConfLines
  HashLines = {"md5", "SHA256"}
  CmdLines <- MCCmdLines
  Users = {"main", "worker"}
  OnDisk <- MCOnDisk
  Fstab <- MCFstab
  Faults = {}
  Files = {"img", "tar"}
  SizeOf <- MCSizeOf
  BlockSize = 2
  IntLimit = 2
  Word = 16
  Chunks <- MCChunks
  Preparations <- MCPreparations
  Habits = {"maintain"}
INVARIANTS ChunkInPlace
