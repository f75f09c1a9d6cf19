---------------------------- MODULE GlobalConfig ----------------------------
(***************************************************************************)
(* config.cc: which device holds which partition of which container, from  *)
(* iveia.boot.active and iveia.boot.alternate on the kernel command line   *)
(* and the lines of iVeiOTA.conf.                                          *)
(***************************************************************************)
EXTENDS Naturals

CONSTANTS
  Names,      \* names of containers
  Parts,      \* the names that GetPartition knows
  Devices,    \* device files
  ConfLines,  \* the partition lines that the file may have
  HashLines,  \* the algorithms that its hash_prog lines may name
  CmdLines    \* what the kernel command line may say

NoDevice == ""
NoName   == ""

FsType == {"ext2", "ext3", "ext4", "fat32", "vfat"}
HashAlgorithm == {"md5", "sha1", "sha256", "sha512", "none"}

\* A line without a filesystem type, or with another one, has "other".
ConfLine == [which: Names \union {"single"}, part: Parts \union {"unknown"},
             dev: Devices, ftype: FsType \union {"other"}]

ASSUME ConfAssumption ==
  /\ NoDevice \notin Devices /\ NoName \notin Names
  /\ ConfLines \subseteq ConfLine /\ "unknown" \notin Parts
  /\ CmdLines \subseteq [active: Names \union {NoName}, alternate: Names \union {NoName}]

VARIABLES
  active, alternate,  \* names of the two containers, NoName if not told
  partitions,         \* partitions[c][p]: device of partition p in container c
  deviceTypes,        \* filesystem types by device
  hashAlgorithms      \* algorithms that have a program

tableVars  == <<partitions, deviceTypes, hashAlgorithms>>
configVars == <<active, alternate, tableVars>>

Containers == {"Active", "Alternate", "Single"}

ConfigTypeOK ==
  /\ active \in Names \union {NoName} /\ alternate \in Names \union {NoName}
  /\ partitions \in [Containers -> [Parts \union {"unknown"} -> Devices \union {NoDevice}]]
  /\ deviceTypes \in [Devices -> FsType \union {""}] /\ hashAlgorithms \subseteq HashAlgorithm

ConfigInit ==
  /\ \E l \in CmdLines : active = l.active /\ alternate = l.alternate
  /\ partitions = [c \in Containers |-> [p \in Parts \union {"unknown"} |-> NoDevice]]
  /\ deviceTypes = [d \in Devices |-> ""]
  /\ hashAlgorithms = {}

\* The containers whose tables a line goes to: partitions that exist once are entered in
\* all of them, even under a name that GetPartition does not know.
Entries(l) ==
  CASE l.which = "single" -> Containers
    [] l.which # "single" /\ l.which = active -> {"Active"}
    [] l.which \notin {"single", active} /\ l.which = alternate -> {"Alternate"}
    [] OTHER -> {}

\* One partition line.  insert keeps the entry that is there; the type of the device is
\* that of its last line.
ReadLine(l) ==
  /\ Entries(l) # {} /\ (l.which = "single" \/ l.part # "unknown")
  /\ partitions' = [c \in Containers |->
       IF c \in Entries(l) /\ partitions[c][l.part] = NoDevice
       THEN [partitions[c] EXCEPT ![l.part] = l.dev] ELSE partitions[c]]
  /\ deviceTypes' = [deviceTypes EXCEPT ![l.dev] = IF l.ftype = "other" THEN "ext4" ELSE l.ftype]
  /\ UNCHANGED <<active, alternate, hashAlgorithms>>

\* One hash_prog line.  GetHashAlgorithm knows its names in lower case only.
ReadHash(a) ==
  /\ a \in HashAlgorithm
  /\ hashAlgorithms' = hashAlgorithms \union {a}
  /\ UNCHANGED <<active, alternate, partitions, deviceTypes>>

GetDevice(c, p) == partitions[c][p]
IsSinglePartition(p) == partitions["Single"][p] # NoDevice
GetFilesystemType(d) == IF d = NoDevice THEN "" ELSE deviceTypes[d]

\* Valid() looks for partitions that exist once before it looks at anything else, with
\* map::at, which throws when there are none: it is true or does not return.
Valid == \E p \in Parts \union {"unknown"} : IsSinglePartition(p)
=============================================================================
