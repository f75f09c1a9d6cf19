------------------------------- MODULE ABBoot -------------------------------
(***************************************************************************)
(* The u-boot script config/AB.sh: which of the two containers is booted.  *)
(*                                                                         *)
(* It reads uEnvAB.txt from the BootInfo partition of each container and   *)
(* writes the one it boots back with its boot count increased.  A count is *)
(* a text; it stands here for the number the text is in base 16.           *)
(***************************************************************************)
EXTENDS Naturals

CONSTANTS
  CountLimit,   \* BOOT_COUNT_LIMIT of the u-boot environment
  MaxCount      \* bound: a count stays there

\* Counts are texts of one or two digits; 153 is the text 99, which no limit is above.
ASSUME CountAssumption == CountLimit \in 1 .. 99 /\ MaxCount \in CountLimit .. 153

Container == {"a", "b"}
Other(c)  == IF c = "a" THEN "b" ELSE "a"

\* A BootInfo partition: its filesystem may be damaged, so that nothing can be read from
\* it, or hold a kernel and a device tree but no uEnvAB.txt.
BootInfo == [file: {"damaged", "none", "written"},
             updated: BOOLEAN, valid: BOOLEAN, count: Nat, rev: Nat]

\* The defaults of the script for a container it has not found; 153 stands for the count
\* of 100, which is at every limit too.
NotFound(file) ==
  [file |-> file, updated |-> FALSE, valid |-> FALSE, count |-> 153, rev |-> 0]
Damaged == NotFound("damaged")
NoFile  == NotFound("none")

\* test -lt and strtol(.., 10) read the text of n in base 10, up to its first letter.
Decimal(n) ==
  LET high == n \div 16
      low  == n % 16
  IN  IF high > 9 THEN 0
      ELSE IF low > 9 THEN high
      ELSE 10 * high + low

\* setexpr reads in base 16 the text the server wrote for n in base 10.
Hexadecimal(n) == 16 * (n \div 10) + (n % 10)

CountOk(c)  == Decimal(c.count) < CountLimit
Claims(c)   == c.file = "written" /\ c.valid
Bootable(c) == Claims(c) /\ CountOk(c)
TooMany(c)  == Claims(c) /\ ~CountOk(c)

\* The container to boot when force_boot_container is force, "none" for neither.
Select(force, a, b) ==
  CASE force \in Container -> force
    [] force \notin Container /\ Bootable(a) /\ (Bootable(b) => a.rev >= b.rev) -> "a"
    [] force \notin Container /\ Bootable(b) /\ (Bootable(a) => a.rev < b.rev)  -> "b"
    [] OTHER -> "none"

\* Mutated form of Fallback: equal revisions are forgotten.
FallbackStrict(chosen, a, b) ==
  \/ chosen = "a" /\ a.rev < b.rev /\ TooMany(b)
  \/ chosen = "b" /\ a.rev > b.rev /\ TooMany(a)

\* FALLBACK_BOOT, which the kernel is told.
Fallback(chosen, a, b) ==
  \/ chosen = "a" /\ a.rev < b.rev /\ TooMany(b)
  \/ chosen = "b" /\ a.rev >= b.rev /\ TooMany(a)

\* Mutated form of Counted: the count is not written back.
CountedNot(c) == c

\* What is written back to the container that is booted.
Counted(c) == [c EXCEPT !.file = "written", !.count = IF @ < MaxCount THEN @ + 1 ELSE @]
=============================================================================
