-------------------------- MODULE MCKernelSerializer --------------------------
(***************************************************************************)
(* Instances of KernelSerializer for TLC.                                  *)
(***************************************************************************)
EXTENDS KernelSerializer, TLC

CONSTANTS q1, q2
TwoAndOne == q1 :> 2 @@ q2 :> 1

\* Either one start and stop with kernels of both queues, or two of each with the
\* kernels of one queue.
BothQueuesOrTwoStarts ==
  {[written |-> q1 :> 0 @@ q2 :> 0, starts |-> 1],
   [written |-> q1 :> 0 @@ q2 :> 1, starts |-> 0]}
OneQueue == {[written |-> q1 :> 0 @@ q2 :> 1, starts |-> 0]}
=============================================================================
