---------------------------- MODULE MCMassClosures ----------------------------
(* Instances of MassClosures for TLC: the plugins of one vendor.             *)
EXTENDS MassClosures, TLC

CONSTANT v1

OneVendor == [p \in Plugins |-> v1]

\* Neither plugins nor checks are told apart.
Symmetry == Permutations(Plugins) \cup Permutations(Checkers)

=============================================================================
