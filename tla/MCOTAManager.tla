---------------------------- MODULE MCOTAManager ----------------------------
(* Instances of OTAManager for TLC: small manifests over chunks of different kinds. *)
EXTENDS OTAManager, TLC

CONSTANTS t1, t2

\* An image replaces Root, a file goes into the copy of System, a script runs.
MCIdent == {"img", "file", "script"}
MCKind  == [img |-> "image", file |-> "file", script |-> "script"]
MCDest  == [img |-> "Root", file |-> "System", script |-> "None"]

\* Both, a mix of dual and single partitions, and an update of single partitions only.
MCManifests    == {<<"img", "file">>, <<"file", "script">>, <<"script">>}
MCTwoManifests == {<<"img", "file">>, <<"script">>}
MCOneManifest  == {<<"script", "img">>}

\* A file on the cache partition, beside one on System.
MCCacheIdent     == {"cached", "file"}
MCCacheKind      == [cached |-> "file", file |-> "file"]
MCCacheDest      == [cached |-> "Cache", file |-> "System"]
MCCacheManifests == {<<"cached", "file">>}

MCThread == {t1, t2}

\* The thread ids are interchangeable; used where no property is temporal.
MCSymmetry == Permutations(MCThread)
=============================================================================
