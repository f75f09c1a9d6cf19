---------------------------- MODULE MCPartitions ----------------------------
(* Instances of Partitions for TLC: a small board with partitions of up to three bytes. *)
EXTENDS Partitions

Line(w, p, d, t) == [which |-> w, part |-> p, dev |-> d, ftype |-> t]

\* Data is what Android mounts, too.
MCConfLines ==
  {Line("a", "BootInfo", "p5", "other"), Line("a", "Root", "p6", "other"),
   Line("b", "BootInfo", "p9", "other"), Line("b", "Root", "p10", "ext4"),
   Line("b", "Cache", "p12", "other"), Line("single", "Data", "p3", "other")}

MCParts == {"BootInfo", "Root", "System", "Cache", "Data"}
MCDevices == {l.dev : l \in MCConfLines}
MCCmdLines == {[active |-> "a", alternate |-> "b"]}
MCOnDisk == [d \in MCDevices |-> "ext4"]
MCFstab == [n \in {"a", "b", ""} |-> {"p3"}]
MCSizeOf == [p5 |-> 1, p9 |-> 1, p6 |-> 2, p10 |-> 3, p12 |-> 1, p3 |-> 1, img |-> 3, tar |-> 1]

MCChunk(type, dest, file, offset, size) ==
  [type |-> type, dest |-> dest, hash |-> "md5", file |-> file, offset |-> offset,
   size |-> size, complete |-> TRUE]

\* An image of two blocks, one behind the offsets that an int can hold, an archive, and
\* a file for a partition that Android has mounted.
MCChunks ==
  {MCChunk("Image", "Root", "img", 0, 3), MCChunk("Image", "Root", "img", 2, 1),
   MCChunk("Archive", "Root", "tar", 0, 0), MCChunk("File", "Data", "tar", 0, 0)}

MCPreparations ==
  {[parts |-> {"BootInfo", "Root"}, clear |-> TRUE], [parts |-> {}, clear |-> FALSE]}
=============================================================================
