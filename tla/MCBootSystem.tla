---------------------------- MODULE MCBootSystem ----------------------------
(* Instances of BootSystem for TLC: what a chunk on the BootInfo partition brings. *)
EXTENDS BootSystem

\* config/uEnvAB.txt, but invalid until the server says otherwise; as it is; no file.
MCInvalid == {[SetUp EXCEPT !.valid = FALSE]}
MCSetUp   == {SetUp}
MCNoFile  == {NoFile}
=============================================================================
