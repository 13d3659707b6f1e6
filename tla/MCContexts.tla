----------------------------- MODULE MCContexts -----------------------------
(***************************************************************************)
(* Instances of Contexts for TLC.  The contexts named a and b, and the     *)
(* callers, are interchangeable where a configuration gives them one role. *)
(***************************************************************************)
EXTENDS Contexts, TLC

Symmetry == Permutations(Callers)
ContextSymmetry == Symmetry \cup Permutations(ContextIds)
=============================================================================
