------------------------------ MODULE MCOgImages ------------------------------
(* An instance of OgImages for TLC.                                          *)
EXTENDS OgImages

\* Counts below and above a change of the label, and two that read the same.
MCTotals == {0, 99, 1000, 1499}

=============================================================================
