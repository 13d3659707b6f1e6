----------------------------- MODULE FlushCycle -----------------------------
(***************************************************************************)
(* What buffer::flush promises about a buffer's two sides, whoever calls   *)
(* it and however calls overlap: flushes happen one after the other; each  *)
(* takes the current side out of use exactly once and then drains that     *)
(* side, while records go to the other one.                                *)
(***************************************************************************)
EXTENDS Integers

VARIABLES current,   \* the side records are emplaced in
          phase,     \* "rest", "claimed" or "draining"
          drained    \* the side being drained, or the one drained last

cycleVars == <<current, phase, drained>>

CycleInit == current = 0 /\ phase = "rest" /\ drained = 1

Claim == phase = "rest" /\ phase' = "claimed" /\ UNCHANGED <<current, drained>>

Swap ==
  /\ phase = "claimed" /\ phase' = "draining"
  /\ drained' = current /\ current' = drained

Release == phase = "draining" /\ phase' = "rest" /\ UNCHANGED <<current, drained>>

CycleNext == Claim \/ Swap \/ Release

CycleSpec == CycleInit /\ [][CycleNext]_cycleVars
=============================================================================
