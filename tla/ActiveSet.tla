------------------------------ MODULE ActiveSet -----------------------------
(***************************************************************************)
(* What start_context and stop_context promise to a tool: the contexts     *)
(* that are on form a set; a context joins it alone, and only if it does   *)
(* not conflict with one that is on; contexts leave it at any time.        *)
(***************************************************************************)
CONSTANTS ContextIds, Counting

VARIABLE on

SetInit == on = {}

TurnOn(c) ==
  /\ c \in Counting => on \cap Counting = {}
  /\ on' = on \cup {c}

TurnOff == \E S \in SUBSET on : on' = on \ S

SetNext == TurnOff \/ \E c \in ContextIds \ on : TurnOn(c)

SetSpec == SetInit /\ [][SetNext]_on
=============================================================================
