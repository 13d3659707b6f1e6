------------------------------ MODULE MCBuffer ------------------------------
(***************************************************************************)
(* Instances of Buffer for TLC.  Producers and flushers are model values.  *)
(***************************************************************************)
EXTENDS Buffer, TLC

Symmetry == Permutations(Producers) \cup Permutations(Flushers)
=============================================================================
