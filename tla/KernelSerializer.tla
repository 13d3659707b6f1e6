-------------------------- MODULE KernelSerializer --------------------------
(***************************************************************************)
(* profiler_serializer and hsa_barrier (hsa/), the queue interceptor that  *)
(* asks them for packets (hsa/queue.cpp) and the dispatch counting service *)
(* that switches them (counters/core.cpp, dispatch_handlers.cpp), for one  *)
(* agent.                                                                  *)
(*                                                                         *)
(* Application threads write kernels to intercepted queues, one thread in  *)
(* a queue's interceptor at a time.  While the serializer is enabled, a    *)
(* kernel is preceded by two barrier packets: the first says that the      *)
(* queue is ready, the second waits for its turn.  A switch of mode sets   *)
(* an hsa_barrier: the first kernel that each queue gets afterwards waits  *)
(* until every kernel that was in flight has completed.                    *)
(***************************************************************************)
EXTENDS Integers, Sequences, SequencesExt, FiniteSets

CONSTANTS Queues,      \* the agent's queues, all of them created before Init
          Contexts,    \* counting contexts, each with one callback
          NoQueue, NoContext,
          TRACED,      \* is a context that traces kernel dispatches active?
          MaxKernels,  \* bound: how many kernels each queue gets
          MaxStarts,   \* bound: starts of contexts
          Spent        \* bound: the parts of both that an instance may leave out

Kernels == UNION {{q} \X (1 .. MaxKernels[q]) : q \in Queues}

ASSUME SerializerAssumption ==
  /\ NoQueue \notin Queues /\ NoContext \notin Contexts
  /\ TRACED \in BOOLEAN
  /\ MaxKernels \in [Queues -> Nat] /\ MaxStarts \in Nat
  /\ Spent \subseteq [written : [Queues -> Nat], starts : Nat]
  /\ IsFiniteSet(Queues) /\ IsFiniteSet(Contexts)

VARIABLES
  \* profiler_serializer and its hsa_barriers
  status, barriers, lifted, dispatch_queue, dispatch_ready, held,
  \* each Queue
  alive, notified, active, ready_signal, block_signal,
  \* the hardware's view of each queue, and each kernel
  hw, kernels,
  \* each queue's thread in WriteInterceptor
  pc, written, asked, asking, before,
  \* the tool's thread
  cpc, current, starts, to_count, counting, enabled, fini,
  \* CHECK failed
  aborted,
  \* history: a barrier counts other kernels than will register with it
  miscounted

serializerVars == <<status, barriers, lifted, dispatch_queue, dispatch_ready>>
signalVars == <<ready_signal, block_signal>>
threadVars == <<pc, written, asked, asking, before>>
toolVars == <<cpc, current, starts, to_count, counting, enabled, fini>>
vars == <<serializerVars, held, alive, notified, active, signalVars, hw, kernels,
          threadVars, toolVars, aborted, miscounted>>

\* epoch is history: the last barrier set before the kernel got its packets.
NoKernel == [at |-> "none", tracked |-> FALSE, todo |-> {}, counted |-> FALSE,
             turns |-> 0, fence |-> FALSE, epoch |-> 0]

Init ==
  /\ status = "disabled" /\ barriers = << >> /\ lifted = {}
  /\ dispatch_queue = NoQueue /\ dispatch_ready = << >> /\ held = FALSE
  /\ alive = Queues /\ notified = [q \in Queues |-> {}] /\ active = [q \in Queues |-> 0]
  /\ ready_signal = [q \in Queues |-> 0] /\ block_signal = [q \in Queues |-> 1]
  /\ hw = [q \in Queues |-> << >>] /\ kernels = [k \in Kernels |-> NoKernel]
  /\ pc = [q \in Queues |-> "idle"] /\ \E s \in Spent : written = s.written /\ starts = s.starts
  /\ asked = [q \in Queues |-> {}] /\ asking = [q \in Queues |-> NoContext]
  /\ before = [q \in Queues |-> << >>]
  /\ cpc = "idle" /\ current = NoContext
  /\ to_count = {} /\ counting = NoQueue
  /\ enabled = [c \in Contexts |-> FALSE] /\ fini = "no"
  /\ aborted = FALSE /\ miscounted = FALSE

(***************************************************************************)
(* hsa_barrier: a record.  Its signal is 0 when its id is in lifted.       *)
(***************************************************************************)
NoneWaiting == [q \in {} |-> 0]
NewBarrier(id, state) ==
  [id |-> id, state |-> state, waiting |-> NoneWaiting, enqueued |-> {}, complete |-> FALSE]

Waits(b, q) == q \in DOMAIN b.waiting
Without(b, q) == [p \in DOMAIN b.waiting \ {q} |-> b.waiting[p]]

\* One completion fewer to wait for; a count that is not positive never reaches 0.
RegisterCompletion(b, q) ==
  IF ~Waits(b, q) THEN b
  ELSE IF b.waiting[q] = 1
       THEN [b EXCEPT !.waiting = Without(b, q), !.complete = @ \/ DOMAIN b.waiting = {q}]
       ELSE [b EXCEPT !.waiting[q] = @ - 1]

\* Barriers are numbered in the order they are set.
LastId == Cardinality(lifted \cup {barriers[i].id : i \in DOMAIN barriers})

Lifted(bs) == {bs[i].id : i \in {j \in DOMAIN bs : bs[j].complete}}

\* clear_complete_barriers: from the front, barriers whose signal is 0.
Clear(bs) ==
  LET kept == {i \in DOMAIN bs : bs[i].id \notin lifted}
  IN IF kept = {} THEN << >> ELSE SubSeq(bs, Min(kept), Len(bs))

(***************************************************************************)
(* WriteInterceptor, for one kernel                                        *)
(***************************************************************************)
Intercepts(q) == fini # "finalized" /\ (notified[q] # {} \/ TRACED)
Next1(q) == <<q, written[q] + 1>>

WriteDirectly(q) ==
  /\ pc[q] = "idle" /\ written[q] < MaxKernels[q] /\ ~Intercepts(q)
  /\ written' = [written EXCEPT ![q] = @ + 1]
  /\ kernels' = [kernels EXCEPT ![Next1(q)].at = "queued"]
  /\ hw' = [hw EXCEPT ![q] = Append(@, <<"kernel", written'[q]>>)]
  /\ UNCHANGED <<serializerVars, held, alive, notified, active, signalVars, pc, asked, asking,
                 before, toolVars, aborted, miscounted>>

\* Mutant: async_started is forgotten.
InterceptUncounted(q) ==
  /\ pc[q] = "idle" /\ written[q] < MaxKernels[q] /\ Intercepts(q)
  /\ written' = [written EXCEPT ![q] = @ + 1]
  /\ kernels' = [kernels EXCEPT ![Next1(q)].at = "started", ![Next1(q)].tracked = TRUE]
  /\ pc' = [pc EXCEPT ![q] = "ask"]
  /\ asked' = [asked EXCEPT ![q] = {}] /\ before' = [before EXCEPT ![q] = << >>]
  /\ UNCHANGED <<serializerVars, held, alive, notified, active, signalVars, hw, asking, toolVars,
                 aborted, miscounted>>

\* async_started comes before any callback is asked.
InterceptBegin(q) ==
  /\ pc[q] = "idle" /\ written[q] < MaxKernels[q] /\ Intercepts(q)
  /\ written' = [written EXCEPT ![q] = @ + 1]
  /\ kernels' = [kernels EXCEPT ![Next1(q)].at = "started", ![Next1(q)].tracked = TRUE]
  /\ active' = [active EXCEPT ![q] = @ + 1]
  /\ pc' = [pc EXCEPT ![q] = "ask"]
  /\ asked' = [asked EXCEPT ![q] = {}] /\ before' = [before EXCEPT ![q] = << >>]
  /\ UNCHANGED <<serializerVars, held, alive, notified, signalVars, hw, asking, toolVars,
                 aborted, miscounted>>

\* queue_cb of one context: it looks whether the context is enabled and asks the
\* tool for a profile, which may give none.
AskContext(q, c) ==
  /\ pc[q] = "ask" /\ c \in notified[q] \ asked[q]
  /\ \E profile \in BOOLEAN :
       /\ profile => enabled[c]
       /\ kernels' = [kernels EXCEPT ![<<q, written[q]>>].counted = @ \/ profile]
  /\ asked' = [asked EXCEPT ![q] = @ \cup {c}] /\ asking' = [asking EXCEPT ![q] = c]
  /\ pc' = [pc EXCEPT ![q] = "pack"]
  /\ UNCHANGED <<serializerVars, held, alive, notified, active, signalVars, hw, written, before,
                 toolVars, aborted, miscounted>>

\* profiler_serializer::kernel_dispatch.
Transition(q) ==
  /\ barriers # << >> /\ ~Last(barriers).complete
  /\ q \notin Last(barriers).enqueued

Turn == IF status = "enabled" THEN <<<<"ready", 0>>, <<"block", 0>>>> ELSE << >>

AddSerialization(q) ==
  /\ pc[q] = "pack" /\ ~held
  /\ before' = [before EXCEPT ![q] =
       @ \o (IF Transition(q) THEN <<<<"barrier", Last(barriers).id>>>> ELSE << >>) \o Turn]
  /\ barriers' = IF Transition(q)
                 THEN [barriers EXCEPT ![Len(barriers)].enqueued = @ \cup {q}] ELSE barriers
  /\ kernels' = [kernels EXCEPT ![<<q, written[q]>>].todo = @ \cup {asking[q]},
                                ![<<q, written[q]>>].turns = @ + Len(Turn) \div 2,
                                ![<<q, written[q]>>].epoch = LastId]
  /\ pc' = [pc EXCEPT ![q] = "ask"] /\ asking' = [asking EXCEPT ![q] = NoContext]
  /\ UNCHANGED <<status, lifted, dispatch_queue, dispatch_ready, held, alive, notified, active,
                 signalVars, hw, written, asked, toolVars, aborted, miscounted>>

\* The handler is registered and the packets are written.
Submit(q) ==
  /\ pc[q] = "ask" /\ notified[q] \subseteq asked[q]
  /\ kernels' = [kernels EXCEPT
       ![<<q, written[q]>>].at = "queued",
       ![<<q, written[q]>>].fence = before[q] # << >> \/ kernels[<<q, written[q]>>].counted]
  /\ hw' = [hw EXCEPT ![q] = @ \o before[q] \o <<<<"kernel", written[q]>>>>]
  /\ pc' = [pc EXCEPT ![q] = "idle"] /\ before' = [before EXCEPT ![q] = << >>]
  /\ UNCHANGED <<serializerVars, held, alive, notified, active, signalVars, written, asked,
                 asking, toolVars, aborted, miscounted>>

\* QueueController::destroy_queue, of a queue the application no longer uses: sync,
\* then the queue leaves the map.
Destroy(q) ==
  /\ q \in alive /\ pc[q] = "idle" /\ active[q] = 0
  /\ hw[q] = << >> /\ \A k \in Kernels : k[1] = q => kernels[k].at \in {"none", "gone"}
  /\ ~held /\ cpc \notin {"install", "sync"}
  /\ alive' = alive \ {q} /\ pc' = [pc EXCEPT ![q] = "destroyed"]
  /\ UNCHANGED <<serializerVars, held, notified, active, signalVars, hw, kernels, written, asked,
                 asking, before, toolVars, aborted, miscounted>>

(***************************************************************************)
(* The packet processor (external): packets are launched in order; a       *)
(* packet with the barrier bit waits for the kernels before it.            *)
(***************************************************************************)
Quiet(q) == \A n \in 1 .. MaxKernels[q] : kernels[<<q, n>>].at # "running"
HeadIs(q, type) == hw[q] # << >> /\ Head(hw[q])[1] = type
Pop(q) == hw' = [hw EXCEPT ![q] = Tail(@)]

PassBarrier(q) ==
  /\ HeadIs(q, "barrier") /\ Head(hw[q])[2] \in lifted
  /\ Pop(q)
  /\ UNCHANGED <<serializerVars, held, alive, notified, active, signalVars, kernels, threadVars,
                 toolVars, aborted, miscounted>>

PassReady(q) ==
  /\ HeadIs(q, "ready") /\ Quiet(q) /\ ready_signal[q] = 0
  /\ Pop(q) /\ ready_signal' = [ready_signal EXCEPT ![q] = -1]
  /\ UNCHANGED <<serializerVars, held, alive, notified, active, block_signal, kernels, threadVars,
                 toolVars, aborted, miscounted>>

PassBlock(q) ==
  /\ HeadIs(q, "block") /\ Quiet(q) /\ block_signal[q] = 0
  /\ Pop(q) /\ block_signal' = [block_signal EXCEPT ![q] = -1]
  /\ UNCHANGED <<serializerVars, held, alive, notified, active, ready_signal, kernels, threadVars,
                 toolVars, aborted, miscounted>>

Launch(q) ==
  /\ HeadIs(q, "kernel")
  /\ LET k == <<q, Head(hw[q])[2]>>
     IN /\ kernels[k].fence => Quiet(q)
        /\ kernels' = [kernels EXCEPT ![k].at = "running"]
  /\ Pop(q)
  /\ UNCHANGED <<serializerVars, held, alive, notified, active, signalVars, threadVars, toolVars,
                 aborted, miscounted>>

\* The kernel ends and AsyncSignalHandler starts: after finalization it only deletes
\* the session.
Complete(k) ==
  /\ kernels[k].at = "running"
  /\ kernels' = [kernels EXCEPT ![k].at =
       IF kernels[k].tracked /\ fini # "finalized" THEN "handled" ELSE "gone"]
  /\ UNCHANGED <<serializerVars, held, alive, notified, active, signalVars, hw, threadVars,
                 toolVars, aborted, miscounted>>

(***************************************************************************)
(* Handlers of signals                                                     *)
(***************************************************************************)
\* Mutant: the queue gets its turn although another has it.
QueueReadyAlways(q) ==
  /\ ready_signal[q] = -1 /\ ~held
  /\ ready_signal' = [ready_signal EXCEPT ![q] = 1]
  /\ block_signal' = [block_signal EXCEPT ![q] = 0] /\ dispatch_queue' = q
  /\ UNCHANGED <<status, barriers, lifted, dispatch_ready, held, alive, notified, active, hw,
                 kernels, threadVars, toolVars, aborted, miscounted>>

QueueReady(q) ==
  /\ ready_signal[q] = -1 /\ ~held
  /\ ready_signal' = [ready_signal EXCEPT ![q] = 1]
  /\ IF dispatch_queue = NoQueue
     THEN /\ block_signal' = [block_signal EXCEPT ![q] = 0] /\ dispatch_queue' = q
          /\ UNCHANGED dispatch_ready
     ELSE /\ dispatch_ready' = Append(dispatch_ready, q)
          /\ UNCHANGED <<block_signal, dispatch_queue>>
  /\ UNCHANGED <<status, barriers, lifted, held, alive, notified, active, hw, kernels, threadVars,
                 toolVars, aborted, miscounted>>

\* kernel_completion_signal, called by completed_cb for each context whose queue_cb
\* gave the kernel packets.
FirstWaiting(bs, q) == {bs[i].state : i \in {j \in DOMAIN bs : Waits(bs[j], q) /\
                                               \A h \in 1 .. j - 1 : ~Waits(bs[h], q)}}
DispatchState(bs, q) ==
  IF FirstWaiting(bs, q) = {} THEN status ELSE CHOOSE s \in FirstWaiting(bs, q) : TRUE

\* Mutant: the queue that waits longest is forgotten.
PassTurnNot(q) ==
  /\ ready_signal' = [ready_signal EXCEPT ![q] = 0]
  /\ block_signal' = [block_signal EXCEPT ![q] = 1]
  /\ dispatch_queue' = NoQueue /\ UNCHANGED dispatch_ready

PassTurn(q) ==
  /\ ready_signal' = [ready_signal EXCEPT ![q] = 0]
  /\ IF dispatch_ready = << >>
     THEN /\ block_signal' = [block_signal EXCEPT ![q] = 1]
          /\ dispatch_queue' = NoQueue /\ UNCHANGED dispatch_ready
     ELSE /\ block_signal' = [block_signal EXCEPT ![q] = 1, ![Head(dispatch_ready)] = 0]
          /\ dispatch_queue' = Head(dispatch_ready) /\ dispatch_ready' = Tail(dispatch_ready)

KernelCompletion(k, c) ==
  LET q == k[1]
      cleared == Clear(barriers)
      registered == [i \in DOMAIN cleared |-> RegisterCompletion(cleared[i], q)]
  IN /\ kernels[k].at = "handled" /\ c \in kernels[k].todo /\ ~held
     /\ kernels' = [kernels EXCEPT ![k].todo = @ \ {c}]
     /\ barriers' = registered /\ lifted' = lifted \cup Lifted(registered)
     /\ \/ /\ DispatchState(cleared, q) = "disabled"
           /\ UNCHANGED <<dispatch_queue, dispatch_ready, signalVars, aborted>>
        \/ /\ DispatchState(cleared, q) = "enabled" /\ dispatch_queue # NoQueue
           /\ PassTurn(q) /\ UNCHANGED aborted
        \/ /\ DispatchState(cleared, q) = "enabled" /\ dispatch_queue = NoQueue
           /\ aborted' = TRUE
           /\ UNCHANGED <<dispatch_queue, dispatch_ready, signalVars>>
     /\ UNCHANGED <<status, held, alive, notified, active, hw, threadVars, toolVars, miscounted>>

\* Mutant: async_complete comes before the callbacks.
AsyncCompleteEarly(k) ==
  /\ kernels[k].at = "handled"
  /\ active' = [active EXCEPT ![k[1]] = @ - 1]
  /\ kernels' = [kernels EXCEPT ![k].at = "gone"]
  /\ UNCHANGED <<serializerVars, held, alive, notified, signalVars, hw, threadVars, toolVars,
                 aborted, miscounted>>

AsyncComplete(k) ==
  /\ kernels[k].at = "handled" /\ kernels[k].todo = {}
  /\ active' = [active EXCEPT ![k[1]] = @ - 1]
  /\ kernels' = [kernels EXCEPT ![k].at = "gone"]
  /\ UNCHANGED <<serializerVars, held, alive, notified, signalVars, hw, threadVars, toolVars,
                 aborted, miscounted>>
(***************************************************************************)
(* The tool's thread: counters::start_context and stop_context, one        *)
(* context at a time (two that count conflict), and finalize.              *)
(***************************************************************************)
Start(c) ==
  /\ cpc = "idle" /\ current = NoContext /\ fini = "no" /\ starts < MaxStarts
  /\ current' = c /\ starts' = starts + 1 /\ cpc' = "enable"
  /\ UNCHANGED <<serializerVars, held, alive, notified, active, signalVars, hw, kernels, threadVars,
                 to_count, counting, enabled, fini, aborted, miscounted>>

Stop ==
  /\ cpc = "idle" /\ current # NoContext
  /\ enabled' = [enabled EXCEPT ![current] = FALSE] /\ cpc' = "disable"
  /\ UNCHANGED <<serializerVars, held, alive, notified, active, signalVars, hw, kernels, threadVars,
                 current, starts, to_count, counting, fini, aborted, miscounted>>

\* profiler_serializer::enable and disable.  The new barrier carries the mode in
\* which the kernels it counts were dispatched.
Old == IF cpc = "enable" THEN "disabled" ELSE "enabled"
New == IF cpc = "enable" THEN "enabled" ELSE "disabled"
After(mode) ==
  IF mode = "enabled" THEN cpc' = "mark" /\ UNCHANGED current
                      ELSE cpc' = "idle" /\ current' = NoContext

SwitchNothing ==
  /\ cpc \in {"enable", "disable"} /\ ~held
  /\ status = New \/ alive = {}
  /\ status' = New /\ After(New)
  /\ UNCHANGED <<barriers, lifted, dispatch_queue, dispatch_ready, held, alive, notified, active,
                 signalVars, hw, kernels, threadVars, starts, to_count, counting, enabled, fini,
                  aborted, miscounted>>

\* Mutant: no barrier, the mode changes at once.
SwitchAtOnce ==
  /\ cpc \in {"enable", "disable"} /\ ~held
  /\ status' = New /\ After(New)
  /\ UNCHANGED <<barriers, lifted, dispatch_queue, dispatch_ready, held, alive, notified, active,
                 signalVars, hw, kernels, threadVars, starts, to_count, counting, enabled, fini,
                  aborted, miscounted>>

SwitchBegin ==
  /\ cpc \in {"enable", "disable"} /\ ~held
  /\ status # New /\ alive # {}
  /\ status' = New
  /\ barriers' = Append(Clear(barriers), NewBarrier(LastId + 1, Old))
  /\ held' = TRUE /\ to_count' = alive /\ cpc' = "count"
  /\ UNCHANGED <<lifted, dispatch_queue, dispatch_ready, alive, notified, active, signalVars, hw,
                 kernels, threadVars, current, starts, counting, enabled, fini, aborted, miscounted>>

\* set_barrier reads the count of a queue twice.  The queues have one order.
NextOf(qs) == CHOOSE q \in qs : TRUE

CountQueue(q) ==
  /\ cpc = "count" /\ to_count # {} /\ q = NextOf(to_count)
  /\ IF active[q] > 0 THEN cpc' = "recount" /\ counting' = q ELSE UNCHANGED <<cpc, counting>>
  /\ to_count' = to_count \ {q}
  /\ UNCHANGED <<serializerVars, held, alive, notified, active, signalVars, hw, kernels, threadVars,
                 current, starts, enabled, fini, aborted, miscounted>>

\* Completions that will be registered: one for each context that gave a kernel
\* packets.
Registrations(q) ==
  Cardinality({p \in Kernels \X Contexts :
    /\ p[1][1] = q /\ kernels[p[1]].at \in {"queued", "running", "handled"}
    /\ p[2] \in kernels[p[1]].todo})

RecountQueue ==
  /\ cpc = "recount"
  /\ barriers' = [barriers EXCEPT ![Len(barriers)].waiting =
       [q \in DOMAIN @ \cup {counting} |-> IF q = counting THEN active[q] ELSE @[q]]]
  /\ miscounted' = (miscounted \/ active[counting] = 0 \/ pc[counting] \in {"ask", "pack"}
                                 \/ active[counting] # Registrations(counting))
  /\ cpc' = "count" /\ counting' = NoQueue
  /\ UNCHANGED <<status, lifted, dispatch_queue, dispatch_ready, held, alive, notified, active,
                 signalVars, hw, kernels, threadVars, current, starts, to_count, enabled, fini,
                 aborted>>

\* A barrier that counted nothing is lifted, but not marked complete.
SwitchEnd ==
  /\ cpc = "count" /\ to_count = {}
  /\ lifted' = IF DOMAIN Last(barriers).waiting = {} THEN lifted \cup {Last(barriers).id} ELSE lifted
  /\ held' = FALSE /\ After(status)
  /\ UNCHANGED <<status, barriers, dispatch_queue, dispatch_ready, alive, notified, active,
                 signalVars, hw, kernels, threadVars, starts, to_count, counting, enabled, fini,
                 aborted, miscounted>>

Mark ==
  /\ cpc = "mark"
  /\ enabled' = [enabled EXCEPT ![current] = TRUE] /\ cpc' = "install"
  /\ UNCHANGED <<serializerVars, held, alive, notified, active, signalVars, hw, kernels, threadVars,
                 current, starts, to_count, counting, fini, aborted, miscounted>>

\* add_callback, queue after queue; each waits until nobody iterates the callbacks
\* of the queue.  The callbacks stay when the context stops.
Iterating(q) ==
  \/ pc[q] \in {"ask", "pack"}
  \/ \E k \in Kernels : k[1] = q /\ kernels[k].at = "handled" /\ kernels[k].todo # {}

Install(q) ==
  /\ cpc = "install" /\ q \in alive /\ current \notin notified[q] /\ ~Iterating(q)
  /\ notified' = [notified EXCEPT ![q] = @ \cup {current}]
  /\ UNCHANGED <<serializerVars, held, alive, active, signalVars, hw, kernels, threadVars, toolVars,
                 aborted, miscounted>>

Started ==
  /\ cpc = "install" /\ \A q \in alive : current \in notified[q]
  /\ cpc' = "idle"
  /\ UNCHANGED <<serializerVars, held, alive, notified, active, signalVars, hw, kernels, threadVars,
                 current, starts, to_count, counting, enabled, fini, aborted, miscounted>>

\* finalize: the status is negative while queue_controller_fini waits for each queue,
\* then the clients stop their contexts, then the status is positive.
FinalizeBegin ==
  /\ cpc = "idle" /\ fini = "no"
  /\ fini' = "finalizing" /\ to_count' = alive /\ cpc' = "sync"
  /\ UNCHANGED <<serializerVars, held, alive, notified, active, signalVars, hw, kernels, threadVars,
                 current, starts, counting, enabled, aborted, miscounted>>

Sync(q) ==
  /\ cpc = "sync" /\ q \in to_count /\ active[q] = 0
  /\ to_count' = to_count \ {q} /\ cpc' = IF to_count' = {} THEN "idle" ELSE "sync"
  /\ UNCHANGED <<serializerVars, held, alive, notified, active, signalVars, hw, kernels, threadVars,
                 current, starts, counting, enabled, fini, aborted, miscounted>>

FinalizeEnd ==
  /\ cpc = "idle" /\ fini = "finalizing" /\ current = NoContext
  /\ fini' = "finalized" /\ cpc' = "finalized"
  /\ UNCHANGED <<serializerVars, held, alive, notified, active, signalVars, hw, kernels, threadVars,
                 current, starts, to_count, counting, enabled, aborted, miscounted>>

-----------------------------------------------------------------------------
Dispatch(q) ==
  \/ \E c \in Contexts : AskContext(q, c)
  \/ AddSerialization(q) \/ Submit(q)
Processor(q) == PassBarrier(q) \/ PassReady(q) \/ PassBlock(q) \/ Launch(q)
Handle(k) == AsyncComplete(k) \/ \E c \in Contexts : KernelCompletion(k, c)
Switch == SwitchNothing \/ SwitchBegin \/ (\E q \in Queues : CountQueue(q)) \/ RecountQueue \/ SwitchEnd
Tool ==
  \/ Switch \/ Mark \/ (\E q \in Queues : Install(q)) \/ Started
  \/ \E q \in Queues : Sync(q)

Next ==
  /\ ~aborted
  /\ \/ \E q \in Queues : WriteDirectly(q) \/ InterceptBegin(q) \/ Destroy(q)
     \/ \E q \in Queues : Dispatch(q) \/ Processor(q) \/ QueueReady(q)
     \/ \E k \in Kernels : Complete(k) \/ Handle(k)
     \/ \E c \in Contexts : Start(c)
     \/ Stop \/ Tool \/ FinalizeBegin \/ FinalizeEnd

Spec == Init /\ [][Next]_vars

\* Kernels end, handlers run, and threads go on inside a call.
FairSpec ==
  /\ Spec
  /\ \A q \in Queues : WF_vars(~aborted /\ Dispatch(q)) /\ WF_vars(~aborted /\ Processor(q))
                       /\ WF_vars(~aborted /\ QueueReady(q))
  /\ \A k \in Kernels : WF_vars(~aborted /\ Complete(k)) /\ WF_vars(~aborted /\ Handle(k))
  /\ WF_vars(~aborted /\ Tool)

-----------------------------------------------------------------------------
Running == {k \in Kernels : kernels[k].at = "running"}
Serial(k) == kernels[k].turns > 0

\* A kernel in front of which two contexts put packets.
Doubled == \E k \in Kernels : kernels[k].turns > 1
Harmed == miscounted \/ Doubled \/ aborted

TypeOK ==
  /\ status \in {"enabled", "disabled"}
  /\ dispatch_queue \in Queues \cup {NoQueue}
  /\ dispatch_ready \in Seq(Queues) /\ held \in BOOLEAN
  /\ alive \subseteq Queues /\ notified \in [Queues -> SUBSET Contexts]
  /\ active \in [Queues -> Nat]
  /\ ready_signal \in [Queues -> {-1, 0, 1}] /\ block_signal \in [Queues -> {-1, 0, 1}]
  /\ \A k \in Kernels : kernels[k].todo \subseteq Contexts
  /\ enabled \in [Contexts -> BOOLEAN]
  /\ \A i \in DOMAIN barriers : barriers[i].id \in Nat /\ barriers[i].state \in {"enabled", "disabled"}
  /\ \A i \in DOMAIN barriers : \A q \in DOMAIN barriers[i].waiting : barriers[i].waiting[q] \in Int

\* Whenever a queue waits in line some queue has the turn, and so will pass it on: a
\* line without a turn would never move.  It holds whatever the barriers count.
LineIsServed == dispatch_ready # << >> => dispatch_queue # NoQueue

\* Serialization isolates: while a kernel that was given a turn runs, no other kernel
\* that a context counts (its completion is still to register) runs, of any queue and of
\* either mode, unless a barrier counted wrong or two contexts count.
SerializedAlone ==
  Harmed \/ \A k, j \in Running : Serial(k) /\ kernels[j].todo # {} => k = j

\* kernel_completion_signal's CHECK that some queue has the turn can only fail after
\* a barrier counted kernels that never register with it, or two contexts counted.
CheckHolds == aborted => miscounted \/ Doubled

\* The same CHECK, as the code asserts it: some queue has the turn whenever a
\* serialized kernel completes.
CheckNeverFails == ~aborted

\* remove_queue and the serializer's destroy_queue are never called: a queue leaves
\* after sync alone.  Even so the serializer keeps no turn, no place in line and no
\* barrier's count for it, else the others would wait for a queue that is gone.
DestroyedQueuesUnused ==
  Harmed \/ \A q \in Queues \ alive :
    /\ dispatch_queue # q /\ q \notin Range(dispatch_ready) /\ ready_signal[q] = 0
    /\ \A i \in DOMAIN barriers : ~Waits(barriers[i], q)

\* Turns and barriers stop nobody for ever: a kernel that was written completes and
\* is accounted for, unless a barrier counted wrong, two contexts count, or the
\* program finalizes first.
KernelsFinish ==
  \A k \in Kernels :
    kernels[k].at = "queued" ~> kernels[k].at = "gone" \/ Harmed \/ fini = "finalized"
=============================================================================
