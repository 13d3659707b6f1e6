-------------------------- MODULE MCCorrelationIds --------------------------
(***************************************************************************)
(* Instances of CorrelationIds for TLC.                                    *)
(***************************************************************************)
EXTENDS CorrelationIds

CONSTANTS t1, t2

\* Kernels of one call under PC sampling; one of them and a finalization; copies of two
\* threads and a finalization; a kernel and a copy in calls inside one another.
Small ==
  {[threads |-> {t1}, depth |-> 1, kernels |-> 2, copies |-> 0, sampled |-> TRUE, finalizes |-> FALSE],
   [threads |-> {t1}, depth |-> 1, kernels |-> 1, copies |-> 0, sampled |-> TRUE, finalizes |-> TRUE],
   [threads |-> {t1, t2}, depth |-> 0, kernels |-> 0, copies |-> 2, sampled |-> FALSE, finalizes |-> TRUE],
   [threads |-> {t1}, depth |-> 2, kernels |-> 1, copies |-> 1, sampled |-> FALSE, finalizes |-> TRUE]}
=============================================================================
