-------------------------- MODULE MCSampleConsumer --------------------------
(***************************************************************************)
(* Instances of SampleConsumer for TLC.                                    *)
(***************************************************************************)
EXTENDS SampleConsumer
=============================================================================
