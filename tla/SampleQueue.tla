---------------------------- MODULE SampleQueue -----------------------------
(***************************************************************************)
(* What the sample consumer promises to the completion handlers: a sample  *)
(* is consumed once, either at once or from a bounded queue in the order   *)
(* in which the queue took it.                                             *)
(***************************************************************************)
EXTENDS Naturals, Sequences

CONSTANTS Samples, Bound

VARIABLES queue, consumed

QueueInit == queue = << >> /\ consumed = [s \in Samples |-> 0]

Queued == {queue[i] : i \in DOMAIN queue}

Put(s) ==
  /\ Len(queue) < Bound /\ s \notin Queued /\ consumed[s] = 0
  /\ queue' = Append(queue, s) /\ UNCHANGED consumed

Consume(s) ==
  /\ \/ queue # << >> /\ s = Head(queue) /\ queue' = Tail(queue)
     \/ s \notin Queued /\ UNCHANGED queue
  /\ consumed[s] = 0 /\ consumed' = [consumed EXCEPT ![s] = 1]

QueueNext == \E s \in Samples : Put(s) \/ Consume(s)

QueueSpec == QueueInit /\ [][QueueNext]_<<queue, consumed>>
=============================================================================
