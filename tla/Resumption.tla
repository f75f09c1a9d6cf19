----------------------------- MODULE Resumption -----------------------------
(***************************************************************************)
(* What the update manager of the iVeiOTA server promises about an update  *)
(* that is interrupted.  The chunk list a client sees survives the death   *)
(* of the server as it is.  A power failure takes it back to the list on   *)
(* the medium: that is one outcome behind at most, or empty as long as no  *)
(* outcome was recorded.  An update that was finalized or canceled is      *)
(* never offered again.                                                    *)
(***************************************************************************)
EXTENDS Naturals, Sequences

CONSTANTS Manifests     \* the manifests a client may send

VARIABLES
  list,         \* the chunks of the update and their outcomes, <<>> for no update
  medium,       \* the list that a power failure would leave
  muddled       \* the list holds the chunks of two manifests, and nothing is promised

vars == <<list, medium, muddled>>

Untouched(m) == [n \in DOMAIN m |-> [ident |-> m[n], processed |-> FALSE, succeeded |-> FALSE]]

Init == list = <<>> /\ medium = <<>> /\ muddled = FALSE

\* A new update finds nothing of an earlier one, on the medium neither.
Begin(m) ==
  /\ list = <<>> /\ medium = <<>>
  /\ list' = Untouched(m)
  /\ UNCHANGED medium

\* A chunk got its outcome.  What was known before it is on the medium.
Report(n, ok) ==
  /\ list' = [list EXCEPT ![n].processed = TRUE, ![n].succeeded = ok]
  /\ medium' = list

Save == medium' = list /\ UNCHANGED list

\* The update was finalized or canceled.
End == list' = <<>> /\ medium' = <<>>

PowerFailure == list' = medium /\ UNCHANGED medium

\* The promise only ends when an update that was begun, but could not be started, is
\* followed by another one.
Muddle(m) == list # <<>> /\ list' = list \o Untouched(m)

Next ==
  \/ /\ ~muddled /\ ~muddled'
     /\ \/ \E m \in Manifests : Begin(m)
        \/ \E n \in DOMAIN list, ok \in BOOLEAN : Report(n, ok)
        \/ Save \/ End \/ PowerFailure
  \/ ~muddled /\ muddled' /\ \E m \in Manifests : Muddle(m)
  \/ muddled

Spec == Init /\ [][Next]_vars
=============================================================================
