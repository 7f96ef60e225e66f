---------------------------- MODULE InstallCounter ----------------------------
(***************************************************************************)
(* What docs/telemetry.md promises of the install counters: the all-time     *)
(* count of a package is the number of its installs, as of the last run of   *)
(* aggregate-installs. A run that met another run, or an install, at the     *)
(* wrong moment may have counted too much; from then on the count is only    *)
(* never too low.                                                            *)
(***************************************************************************)
EXTENDS Naturals

CONSTANT Packages

VARIABLES
  recorded,   \* the installs of each package
  counted,    \* those in its counter
  raced       \* has a run met another or an install?

vars == <<recorded, counted, raced>>

Init ==
  /\ recorded = [p \in Packages |-> 0]
  /\ counted = [p \in Packages |-> 0]
  /\ raced = FALSE

Record(p) ==
  /\ recorded' = [recorded EXCEPT ![p] = @ + 1]
  /\ raced' \in {raced, TRUE}
  /\ UNCHANGED counted

Race == raced' = TRUE /\ UNCHANGED <<recorded, counted>>

\* All that was recorded is in the counters, each install once unless there was a race.
Count ==
  /\ \A p \in Packages : counted'[p] >= counted[p] /\ counted'[p] >= recorded[p]
  /\ ~raced => counted' = recorded
  /\ UNCHANGED <<recorded, raced>>

Next == Race \/ Count \/ \E p \in Packages : Record(p)

Spec == Init /\ [][Next]_vars

=============================================================================
