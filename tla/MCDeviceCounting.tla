-------------------------- MODULE MCDeviceCounting --------------------------
(***************************************************************************)
(* Instances of DeviceCounting for TLC.                                    *)
(***************************************************************************)
EXTENDS DeviceCounting

CONSTANTS t1, t2
=============================================================================
