----------------------------- MODULE CopyFile -----------------------------
(***************************************************************************)
(* CopyFileData of support.cc: bytes of a file or device are copied to a   *)
(* device block by block, with the widths that the code's types have.      *)
(***************************************************************************)
EXTENDS MountPoint

CONSTANTS
  Files,      \* files with image data
  SizeOf,     \* SizeOf[x]: bytes of file or device x
  BlockSize,  \* 2^20 bytes
  IntLimit,   \* 2^31, the first number that an int cannot hold
  Word        \* 2^64, the number of values of size_t and uint64_t

ASSUME CopyAssumption ==
  /\ Files \intersect (Devices \union {NoDevice, "fs"}) = {}
  /\ SizeOf \in [Files \union Devices -> Nat] /\ BlockSize \in Nat \ {0}
  /\ IntLimit \in Nat \ {0} /\ Word \in Nat \ {0}
  /\ \A x \in Files \union Devices : SizeOf[x] + 1 < Word

VARIABLES
  content,      \* content[d]: the bytes of device d, and the files of its filesystem
  copy,         \* the call of CopyFileData, if any
  cancelUpdate

copyVars == <<content, copy, cancelUpdate>>

\* A byte is named by the file or device it comes from; "fs" is one that a filesystem wrote.
Byte(x, k) == <<x, k>>
FsByte == Byte("fs", 0)

NoCopy == [state |-> "none", total |-> 0, remaining |-> 0]
Copy == [state: {"none", "open", "returned"}, total: 0 .. Word - 1, remaining: Nat]

CopyTypeOK ==
  /\ DOMAIN content = Devices /\ \A d \in Devices : DOMAIN content[d].bytes = 0 .. SizeOf[d] - 1
  /\ copy \in Copy /\ cancelUpdate \in BOOLEAN

CopyInit == copy = NoCopy /\ cancelUpdate = FALSE

Source(x, k) == IF x \in Devices THEN content[x].bytes[k] ELSE Byte(x, k)

\* A result of lseek as an int.
AsInt(n) == IF n % (2 * IntLimit) < IntLimit THEN n % (2 * IntLimit)
            ELSE (n % (2 * IntLimit)) - 2 * IntLimit

\* Both files can be opened, and the offset is one that the device has.
OpensAndSeeks(t) ==
  /\ t.src \in Files \union Devices /\ t.dest \in Devices
  /\ t.offset <= SizeOf[t.dest] /\ AsInt(t.offset) >= 0

StartCopy(t) ==
  /\ copy.state = "none"
  /\ copy' = IF OpensAndSeeks(t) THEN [NoCopy EXCEPT !.state = "open", !.remaining = t.len]
             ELSE [NoCopy EXCEPT !.state = "returned"]
  /\ UNCHANGED <<content, cancelUpdate>>

Least(a, b) == IF a < b THEN a ELSE b

GoesOn(t) == copy.state = "open" /\ (t.len = 0 \/ copy.remaining > 0) /\ ~cancelUpdate

ToRead(t) == IF t.len = 0 THEN BlockSize ELSE Least(BlockSize, copy.remaining)
Bread(t)  == Least(ToRead(t), SizeOf[t.src] - copy.total)
Room(t)   == SizeOf[t.dest] - (t.offset + copy.total)

\* write() of n bytes; what was on the device there is gone, with the files it belonged to.
Write(t, n) ==
  LET at == t.offset + copy.total
      byte(k) == IF k \in at .. at + n - 1 THEN Source(t.src, k - t.offset)
                 ELSE content[t.dest].bytes[k]
  IN content' = IF n = 0 THEN content
                ELSE [content EXCEPT ![t.dest] = [bytes |-> [k \in DOMAIN @.bytes |-> byte(k)],
                                                  files |-> {}]]

\* Mutated form of Ends: the end of the source is seen when a block is short.
EndsShort(t) == Bread(t) \notin {0, ToRead(t)}

Ends(t) == Bread(t) # ToRead(t) \/ Bread(t) = 0

CopyBlock(t) ==
  /\ GoesOn(t) /\ Bread(t) <= Room(t)
  /\ Write(t, Bread(t))
  /\ copy' = [state |-> IF Ends(t) THEN "returned" ELSE "open",
              total |-> copy.total + Bread(t),
              remaining |-> IF t.len = 0 THEN 0 ELSE copy.remaining - Bread(t)]
  /\ UNCHANGED cancelUpdate

\* A device takes n bytes of a block only: it is full, or fails.  They are not counted.
WriteShort(t, n) ==
  /\ GoesOn(t) /\ n < Bread(t)
  /\ Write(t, n)
  /\ copy' = [copy EXCEPT !.state = "returned"]
  /\ UNCHANGED cancelUpdate

\* Mutated form of MinusOne: as a signed type has it.
MinusOneSigned(n) == n - 1

MinusOne(n) == (n + Word - 1) % Word

\* read() returns -1, which a size_t holds as Word - 1; write() of as many bytes returns
\* -1, too, so the two are equal and are added.
ReadFails(t) ==
  /\ GoesOn(t)
  /\ copy' = [state |-> "returned", total |-> MinusOne(copy.total),
              remaining |-> IF t.len = 0 THEN 0 ELSE copy.remaining + 1]
  /\ UNCHANGED <<content, cancelUpdate>>

LeaveLoop(t) ==
  /\ copy.state = "open" /\ ~GoesOn(t)
  /\ copy' = [copy EXCEPT !.state = "returned"]
  /\ UNCHANGED <<content, cancelUpdate>>
=============================================================================
