--------------------------- MODULE SampleConsumer ---------------------------
(***************************************************************************)
(* consumer_thread_t (counters/sample_consumer.hpp): completion handlers   *)
(* add the samples of finished dispatches to a ring, from which a thread   *)
(* takes them; starting a context starts the thread, stopping one ends it. *)
(*                                                                         *)
(* What the mutex protects from the consumer thread is one step.  The      *)
(* consumer reads write_ptr and moves read_ptr without the mutex: these    *)
(* accesses, and the order in which add fills a slot and publishes it, are *)
(* steps of their own.  Every change that a condition waits for is         *)
(* notified with the mutex held, so a wait is a guard.                     *)
(***************************************************************************)
EXTENDS Integers, Sequences, FiniteSets

CONSTANTS Adders,       \* completion handlers
          Controllers,  \* threads that start and stop contexts
          SIZE,         \* slots of the ring (128 in the code)
          NoSample,     \* an empty or moved-from slot
          NoThread,     \* "nobody holds mut"
          MaxSamples,   \* bound: samples of each adder
          MaxCalls      \* bound: calls of each controller

Threads == Adders \cup Controllers
Samples == Adders \X (1 .. MaxSamples)

ASSUME ConsumerAssumption ==
  /\ SIZE \in Nat \ {0} /\ MaxSamples \in Nat /\ MaxCalls \in Nat
  /\ Adders \cap Controllers = {}
  /\ NoThread \notin Threads
  /\ NoSample \notin Samples

VARIABLES
  valid, exited, mut, write_ptr, read_ptr, buffer,
  joinable,    \* consumer.joinable()
  aborted,     \* std::terminate has been called
  consumer,    \* next step of the consumer thread
  retrieved,   \* the sample it holds
  pc,          \* next step of the other threads
  calls,       \* calls each has made
  consumed     \* history: how often each sample was consumed

ringVars == <<write_ptr, read_ptr, buffer>>
stateVars == <<valid, exited, joinable>>
threadVars == <<consumer, retrieved>>
vars == <<ringVars, stateVars, mut, aborted, threadVars, pc, calls, consumed>>

Slot(p) == p % SIZE

Init ==
  /\ valid = FALSE /\ exited = TRUE /\ mut = NoThread
  /\ write_ptr = 0 /\ read_ptr = 0
  /\ buffer = [i \in 0 .. SIZE - 1 |-> NoSample]
  /\ joinable = FALSE /\ aborted = FALSE
  /\ consumer = "none" /\ retrieved = NoSample
  /\ pc = [t \in Threads |-> "idle"]
  /\ calls = [t \in Threads |-> 0]
  /\ consumed = [s \in Samples \cup {NoSample} |-> 0]

Goto(t, from, to) == pc[t] = from /\ pc' = [pc EXCEPT ![t] = to]
Lock(t) == mut = NoThread /\ mut' = t
Unlock == mut' = NoThread
Call(t, bound) == calls[t] < bound /\ calls' = [calls EXCEPT ![t] = @ + 1]
Count(s) == consumed' = [consumed EXCEPT ![s] = @ + 1]

(***************************************************************************)
(* add                                                                     *)
(***************************************************************************)
Current(t) == <<t, calls[t]>>

\* Mutant: off by one, the ring takes a sample too many.
CannotStoreOffByOne == read_ptr + SIZE < write_ptr \/ ~valid

CannotStore == read_ptr + SIZE <= write_ptr \/ ~valid

\* Mutant: the mutex is not held.
AddStoresUnlocked(t) ==
  /\ ~CannotStore
  /\ Goto(t, "idle", "publish") /\ Call(t, MaxSamples)
  /\ buffer' = [buffer EXCEPT ![Slot(write_ptr)] = <<t, calls'[t]>>]
  /\ UNCHANGED <<write_ptr, read_ptr, stateVars, mut, aborted, threadVars, consumed>>

AddStores(t) ==
  /\ ~CannotStore
  /\ Goto(t, "idle", "publish") /\ Call(t, MaxSamples) /\ Lock(t)
  /\ buffer' = [buffer EXCEPT ![Slot(write_ptr)] = <<t, calls'[t]>>]
  /\ UNCHANGED <<write_ptr, read_ptr, stateVars, aborted, threadVars, consumed>>

AddPublishes(t) ==
  /\ Goto(t, "publish", "idle") /\ Unlock
  /\ write_ptr' = write_ptr + 1
  /\ UNCHANGED <<read_ptr, buffer, stateVars, aborted, threadVars, calls, consumed>>

\* "If not possible to use consumer thread, proccess with this thread", with
\* the mutex held.
AddDirectly(t) ==
  /\ CannotStore
  /\ Goto(t, "idle", "consume") /\ Call(t, MaxSamples) /\ Lock(t)
  /\ UNCHANGED <<ringVars, stateVars, aborted, threadVars, consumed>>

AddConsumes(t) ==
  /\ Goto(t, "consume", "idle") /\ Unlock
  /\ Count(Current(t))
  /\ UNCHANGED <<ringVars, stateVars, aborted, threadVars, calls>>

(***************************************************************************)
(* start and exit                                                          *)
(***************************************************************************)
StartFindsValid(t) ==
  /\ pc[t] = "idle" /\ mut = NoThread /\ Call(t, MaxCalls)
  /\ valid
  /\ UNCHANGED <<ringVars, stateVars, mut, aborted, threadVars, pc, consumed>>

StartSpawns(t) ==
  /\ pc[t] = "idle" /\ mut = NoThread /\ Call(t, MaxCalls)
  /\ ~valid /\ ~joinable
  /\ valid' = TRUE /\ exited' = FALSE /\ joinable' = TRUE
  /\ consumer' = "loop"
  /\ UNCHANGED <<ringVars, mut, aborted, retrieved, pc, consumed>>

\* Assigning to a joinable std::thread ends the program.
StartTerminates(t) ==
  /\ pc[t] = "idle" /\ mut = NoThread /\ Call(t, MaxCalls)
  /\ ~valid /\ joinable
  /\ aborted' = TRUE
  /\ UNCHANGED <<ringVars, stateVars, mut, threadVars, pc, consumed>>

\* stop_context, the only caller of exit, holds contexts_mutex until it returns.
Exiting == {t \in Controllers : pc[t] # "idle"}

\* A wait for exited releases the mutex; otherwise it is kept for the join.
ExitCall(t) ==
  /\ Exiting = {} /\ mut = NoThread /\ Call(t, MaxCalls)
  /\ valid' = FALSE
  /\ mut' = IF exited THEN t ELSE NoThread
  /\ Goto(t, "idle", IF exited THEN "join" ELSE "wait")
  /\ UNCHANGED <<ringVars, exited, joinable, aborted, threadVars, consumed>>

ExitWakes(t) ==
  /\ Goto(t, "wait", "join") /\ Lock(t)
  /\ exited
  /\ UNCHANGED <<ringVars, stateVars, aborted, threadVars, calls, consumed>>

\* Mutant: the thread is not joined.
ExitForgetsJoin(t) ==
  /\ Goto(t, "join", "idle") /\ Unlock
  /\ UNCHANGED <<ringVars, stateVars, aborted, threadVars, calls, consumed>>

ExitJoins(t) ==
  /\ Goto(t, "join", "idle") /\ Unlock
  /\ joinable => consumer = "ended"
  /\ joinable' = FALSE
  /\ UNCHANGED <<ringVars, valid, exited, aborted, threadVars, calls, consumed>>

(***************************************************************************)
(* consumer_loop                                                           *)
(***************************************************************************)
ConsumerGoto(from, to) == consumer = from /\ consumer' = to
Empty == read_ptr = write_ptr

LookForSample ==
  /\ ConsumerGoto("loop", IF Empty THEN "wait" ELSE "take")
  /\ UNCHANGED <<ringVars, stateVars, mut, aborted, retrieved, pc, calls, consumed>>

WaitForSample ==
  /\ ConsumerGoto("wait", "loop") /\ mut = NoThread
  /\ ~Empty
  /\ UNCHANGED <<ringVars, stateVars, mut, aborted, retrieved, pc, calls, consumed>>

\* Mutant: the thread ends although the ring holds samples.
WaitEndsEarly ==
  /\ ConsumerGoto("wait", "ended") /\ mut = NoThread
  /\ ~valid
  /\ exited' = TRUE
  /\ UNCHANGED <<ringVars, valid, joinable, mut, aborted, retrieved, pc, calls, consumed>>

\* Mutant: the thread ends without saying so.
WaitEndsSilently ==
  /\ ConsumerGoto("wait", "ended") /\ mut = NoThread
  /\ ~valid /\ Empty
  /\ UNCHANGED <<ringVars, stateVars, mut, aborted, retrieved, pc, calls, consumed>>

WaitEnds ==
  /\ ConsumerGoto("wait", "ended") /\ mut = NoThread
  /\ ~valid /\ Empty
  /\ exited' = TRUE
  /\ UNCHANGED <<ringVars, valid, joinable, mut, aborted, retrieved, pc, calls, consumed>>

TakeSample ==
  /\ ConsumerGoto("take", "advance")
  /\ retrieved' = buffer[Slot(read_ptr)]
  /\ buffer' = [buffer EXCEPT ![Slot(read_ptr)] = NoSample]
  /\ UNCHANGED <<write_ptr, read_ptr, stateVars, mut, aborted, pc, calls, consumed>>

Advance ==
  /\ ConsumerGoto("advance", "consume")
  /\ read_ptr' = read_ptr + 1
  /\ UNCHANGED <<write_ptr, buffer, stateVars, mut, aborted, retrieved, pc, calls, consumed>>

ConsumeSample ==
  /\ ConsumerGoto("consume", "loop")
  /\ Count(retrieved)
  /\ retrieved' = NoSample
  /\ UNCHANGED <<ringVars, stateVars, mut, aborted, pc, calls>>

-----------------------------------------------------------------------------
Add(t) == AddStores(t) \/ AddPublishes(t) \/ AddDirectly(t) \/ AddConsumes(t)
Start(t) == StartFindsValid(t) \/ StartSpawns(t) \/ StartTerminates(t)
Exit(t) == ExitWakes(t) \/ ExitJoins(t)
Consumer ==
  \/ LookForSample \/ WaitForSample \/ WaitEnds \/ TakeSample \/ Advance \/ ConsumeSample

\* Every thread has made the calls it makes, or the program was terminated.
Finished ==
  /\ \/ aborted
     \/ /\ \A t \in Threads : pc[t] = "idle"
        /\ consumer \in {"none", "ended"} \/ (consumer = "wait" /\ Empty /\ valid)
  /\ UNCHANGED vars

Next ==
  \/ ~aborted /\ \/ \E t \in Adders : Add(t)
                 \/ \E t \in Controllers : Start(t) \/ ExitCall(t) \/ Exit(t)
                 \/ Consumer
  \/ Finished

Spec == Init /\ [][Next]_vars

\* Threads go on inside a call; the consumer thread runs.
FairSpec ==
  /\ Spec
  /\ \A t \in Adders : WF_vars(~aborted /\ pc[t] # "idle" /\ Add(t))
  /\ \A t \in Controllers : WF_vars(~aborted /\ Exit(t))
  /\ WF_vars(~aborted /\ Consumer)

-----------------------------------------------------------------------------
Steps == {"idle", "publish", "consume", "wait", "join"}
ConsumerSteps == {"none", "loop", "wait", "take", "advance", "consume", "ended"}

\* Every variable has its type; the ring never holds more than it has slots for.
TypeOK ==
  /\ valid \in BOOLEAN /\ exited \in BOOLEAN /\ joinable \in BOOLEAN /\ aborted \in BOOLEAN
  /\ mut \in Threads \cup {NoThread}
  /\ read_ptr \in Nat /\ write_ptr \in read_ptr .. read_ptr + SIZE
  /\ buffer \in [0 .. SIZE - 1 -> Samples \cup {NoSample}]
  /\ consumer \in ConsumerSteps
  /\ retrieved \in Samples \cup {NoSample}
  /\ pc \in [Threads -> Steps]
  /\ calls \in [Threads -> Nat]
  /\ consumed \in [Samples \cup {NoSample} -> Nat]

\* Samples whose add has returned.
Added == {s \in Samples : s[2] < calls[s[1]] \/ (s[2] = calls[s[1]] /\ pc[s[1]] = "idle")}

\* When exit may return, whoever called it, the consumer thread is gone and every
\* sample whose add returned has been consumed, once.
ExitDrains == exited => ~valid /\ consumer \in {"none", "ended"} /\ \A s \in Added : consumed[s] = 1

\* Only a start that meets an exit which is waiting terminates the program: once
\* exit has returned the thread can be started again.
OnlyOverlapTerminates == aborted => \E t \in Controllers : pc[t] = "wait"

\* Published samples that the consumer thread has not taken, oldest first; one
\* that was taken and not yet consumed counts as the oldest.
Ring ==
  LET first == IF consumer = "advance" THEN read_ptr + 1 ELSE read_ptr
      stored == [i \in 1 .. write_ptr - first |-> buffer[Slot(first + i - 1)]]
  IN IF retrieved = NoSample THEN stored ELSE <<retrieved>> \o stored

\* Samples are consumed once each, those of the ring in order.  The queue holds
\* one more than the ring: the sample the thread is consuming.
Queue == INSTANCE SampleQueue WITH
  queue <- Ring, Bound <- SIZE + 1, consumed <- [s \in Samples |-> consumed[s]]
ImplementsSampleQueue == Queue!QueueSpec

\* A sample that was added is consumed, and a call of exit returns, unless the
\* program is terminated.
SamplesConsumed == \A s \in Samples : s \in Added ~> consumed[s] > 0 \/ aborted
ExitsReturn == \A t \in Controllers : pc[t] # "idle" ~> pc[t] = "idle" \/ aborted
=============================================================================
