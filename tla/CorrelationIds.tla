--------------------------- MODULE CorrelationIds ---------------------------
(***************************************************************************)
(* Who holds a correlation id, and for how long (context/correlation_id.cpp *)
(* and its users).                                                         *)
(*                                                                         *)
(* Application threads call functions of a traced API (hsa/hsa.cpp), inside *)
(* of which, or by themselves, they write kernels (hsa/queue.cpp) and start *)
(* copies (hsa/async_copy.cpp).  One thread of the runtime runs the        *)
(* completion handlers.  PC sampling keeps the ids of completed kernels    *)
(* until their samples must have been delivered (pc_sampling/cid_manager). *)
(* A thread may finalize the library at any time (registration.cpp).       *)
(***************************************************************************)
EXTENDS Integers, Sequences, SequencesExt, FiniteSets

CONSTANTS Threads,     \* the application's threads
          MaxIds,      \* bound: ids constructed
          MaxKernels,  \* bound: kernels written
          MaxCopies,   \* bound: copies started
          MaxDepth,    \* bound: API calls inside one another
          Instances    \* the threads, kernels and copies of each instance; what is configured

Ids == 1 .. MaxIds
Kernels == 1 .. MaxKernels
Copies == 1 .. MaxCopies

ASSUME CorrelationAssumption ==
  /\ MaxIds \in Nat /\ MaxKernels \in Nat /\ MaxCopies \in Nat /\ MaxDepth \in Nat
  /\ Instances \subseteq [threads : SUBSET Threads, depth : 0 .. MaxDepth, kernels : 0 .. MaxKernels,
                          copies : 0 .. MaxCopies, sampled : BOOLEAN, finalizes : BOOLEAN]
  /\ IsFiniteSet(Threads)

VARIABLES
  \* correlation_id: those constructed, their counts, each thread's stack
  constructed, refs, stack,
  \* each thread: the API calls it is in, and the kernel or copy it is starting
  calls, work,
  \* each kernel and copy, and the one whose completion handler runs
  kern, copy, handler,
  \* _active_kernels of the queue; active_signals
  active, signal, count,
  \* PCSCIDManager, the callers of its two functions, and the runtime's sample buffers
  q1, q2, cb, flush, rocr,
  \* what is configured; the finalizing thread; the contexts are active
  config, fpc, fini, tracing,
  \* history: ids retired, ids used afterwards, and what may excuse a lost copy
  retired, late, excused

idVars == <<constructed, refs, stack, retired>>
signalVars == <<signal, count>>
samplingVars == <<q1, q2, cb, flush, rocr>>
finiVars == <<fpc, fini, tracing>>
vars == <<idVars, calls, work, kern, copy, handler, active, signalVars, samplingVars, config,
          finiVars, late, excused>>

NoWork == [kind |-> "none", n |-> 0, at |-> "idle", own |-> FALSE]
NoUse == [at |-> "none", id |-> 0]
Idle == [at |-> "idle", n |-> 0]
Dead == [alive |-> FALSE, value |-> 0]
Ready == [alive |-> TRUE, value |-> 0]

Init ==
  /\ config \in Instances
  /\ constructed = 0 /\ refs = [i \in Ids |-> 0] /\ retired = {}
  /\ stack = [t \in Threads |-> << >>] /\ calls = [t \in Threads |-> << >>]
  /\ work = [t \in Threads |-> NoWork]
  /\ kern = [k \in Kernels |-> [NoUse EXCEPT !.at = IF k <= config.kernels THEN "none" ELSE "gone"]]
  /\ copy = [c \in Copies |-> [NoUse EXCEPT !.at = IF c <= config.copies THEN "none" ELSE "gone"]]
  /\ handler = Idle /\ active = 0 /\ signal = Ready /\ count = 0
  /\ q1 = {} /\ q2 = {}
  /\ cb = [at |-> "idle", left |-> 0, samples |-> {}, q3 |-> {}]
  /\ flush = [at |-> "idle", taken |-> {}]
  /\ rocr = [halves |-> << {}, {} >>, filling |-> 1]
  /\ fpc = "no" /\ fini = 0 /\ tracing = TRUE
  /\ late = {} /\ excused = {}

(***************************************************************************)
(* correlation_id                                                          *)
(***************************************************************************)
\* construct: a new id on top of the thread's stack.
Construct(t, n) ==
  /\ constructed < MaxIds
  /\ constructed' = constructed + 1
  /\ refs' = [refs EXCEPT ![constructed'] = n]
  /\ stack' = [stack EXCEPT ![t] = Append(@, constructed')]
  /\ UNCHANGED retired

\* sub_ref_count: the id retires when the count reaches zero.
Drop(i) ==
  /\ refs' = [refs EXCEPT ![i] = @ - 1]
  /\ retired' = IF refs[i] = 1 THEN retired \cup {i} ELSE retired

Pop(t) == stack' = [stack EXCEPT ![t] = Front(@)]

\* A callback or a record that carries these ids.
Report(is) == late' = late \cup (is \cap retired)

(***************************************************************************)
(* The wrapper of an API function                                          *)
(***************************************************************************)
CanCall(t) == t \in config.threads /\ work[t] = NoWork /\ \A d \in DOMAIN calls[t] : calls[t][d].at = "exec"
Top(t) == Len(calls[t])

\* Without contexts, and once finalization began, the wrapper calls through.
ApiEnter(t) ==
  /\ CanCall(t) /\ Len(calls[t]) < config.depth /\ fini = 0 /\ tracing
  /\ Construct(t, 2)
  /\ calls' = [calls EXCEPT ![t] = Append(@, [id |-> constructed', at |-> "enter"])]
  /\ UNCHANGED <<work, kern, copy, handler, active, signalVars, samplingVars, config, finiVars,
                 late, excused>>

\* Enter callbacks; then the first of the two counts is dropped.
ApiInvoke(t) ==
  /\ work[t] = NoWork /\ calls[t] # << >> /\ Last(calls[t]).at = "enter"
  /\ Drop(Last(calls[t]).id) /\ Report({Last(calls[t]).id})
  /\ calls' = [calls EXCEPT ![t][Top(t)].at = "exec"]
  /\ UNCHANGED <<constructed, stack, work, kern, copy, handler, active, signalVars, samplingVars,
                 config, finiVars, excused>>

\* Exit callbacks and the record.
ApiRecord(t) ==
  /\ CanCall(t) /\ calls[t] # << >>
  /\ Report({Last(calls[t]).id})
  /\ calls' = [calls EXCEPT ![t][Top(t)].at = "exit"]
  /\ UNCHANGED <<idVars, work, kern, copy, handler, active, signalVars, samplingVars, config,
                 finiVars, excused>>

ApiLeave(t) ==
  /\ work[t] = NoWork /\ calls[t] # << >> /\ Last(calls[t]).at = "exit"
  /\ Drop(Last(calls[t]).id) /\ Pop(t)
  /\ calls' = [calls EXCEPT ![t] = Front(@)]
  /\ UNCHANGED <<constructed, work, kern, copy, handler, active, signalVars, samplingVars, config,
                 finiVars, late, excused>>

(***************************************************************************)
(* Taking the id of a kernel or a copy: the latest of the thread, or a new *)
(* one that the thread drops again when it has started the work.           *)
(***************************************************************************)
Own(t) == stack[t] = << >>
\* Mutant: the latest id is used without a count.
TakeIdUncounted(t) ==
  IF Own(t) THEN Construct(t, 2) ELSE UNCHANGED idVars

TakeId(t) ==
  IF Own(t) THEN Construct(t, 2)
  ELSE /\ refs' = [refs EXCEPT ![Last(stack[t])] = @ + 1]
       /\ UNCHANGED <<constructed, stack, retired>>

Begin(t, kind, n) == work' = [work EXCEPT ![t] = [kind |-> kind, n |-> n, at |-> "begun", own |-> Own(t)]]
Next1(uses) == {n \in DOMAIN uses : uses[n].at = "none" /\ \A m \in 1 .. n - 1 : uses[m].at # "none"}
At(t, kind, at) == work[t].kind = kind /\ work[t].at = at
Go(t, at) == work' = [work EXCEPT ![t].at = at]

\* The thread is done: an id of its own loses the count the thread held.
Finish(t, i) ==
  /\ work' = [work EXCEPT ![t] = NoWork]
  /\ IF work[t].own THEN Drop(i) /\ Pop(t) ELSE UNCHANGED <<refs, retired, stack>>

(***************************************************************************)
(* WriteInterceptor, for one kernel                                        *)
(***************************************************************************)
KernelBegin(t) ==
  /\ CanCall(t) /\ fini <= 0 /\ (tracing \/ config.sampled)
  /\ TakeId(t)
  /\ \E k \in Next1(kern) :
       /\ kern' = [kern EXCEPT ![k] = [at |-> "begun", id |-> Last(stack'[t])]]
       /\ Begin(t, "kernel", k)
  /\ UNCHANGED <<calls, copy, handler, active, signalVars, samplingVars, config, finiVars, late,
                 excused>>

\* async_started and the enter callbacks.
KernelStart(t) ==
  /\ At(t, "kernel", "begun")
  /\ active' = active + 1 /\ Report({kern[work[t].n].id}) /\ Go(t, "started")
  /\ UNCHANGED <<idVars, calls, kern, copy, handler, signalVars, samplingVars, config, finiVars,
                 excused>>

\* Mutant: the marker's count is forgotten.
KernelMarkUncounted(t) ==
  /\ At(t, "kernel", "started") /\ Go(t, "marked")
  /\ UNCHANGED <<idVars, calls, kern, copy, handler, active, signalVars, samplingVars, config,
                 finiVars, late, excused>>

\* The marker packet of PC sampling takes a count of its own.
KernelMark(t) ==
  /\ At(t, "kernel", "started")
  /\ refs' = IF config.sampled THEN [refs EXCEPT ![kern[work[t].n].id] = @ + 1] ELSE refs
  /\ Go(t, "marked")
  /\ UNCHANGED <<constructed, stack, retired, calls, kern, copy, handler, active, signalVars,
                 samplingVars, config, finiVars, late, excused>>

\* The exit callbacks, the end of the scope, and the writer.
KernelWrite(t) ==
  /\ At(t, "kernel", "marked")
  /\ Report({kern[work[t].n].id}) /\ Finish(t, kern[work[t].n].id)
  /\ kern' = [kern EXCEPT ![work[t].n].at = "running"]
  /\ UNCHANGED <<constructed, calls, copy, handler, active, signalVars, samplingVars, config,
                 finiVars, excused>>

(***************************************************************************)
(* async_copy_impl                                                         *)
(***************************************************************************)
\* Nothing tests fini_status: only the contexts decide.
CopyBegin(t) ==
  /\ CanCall(t) /\ tracing
  /\ TakeId(t)
  /\ \E c \in Next1(copy) :
       /\ copy' = [copy EXCEPT ![c] = [at |-> "begun", id |-> Last(stack'[t])]]
       /\ Begin(t, "copy", c)
  /\ UNCHANGED <<calls, kern, handler, active, signalVars, samplingVars, config, finiVars, late,
                 excused>>

\* Enter callbacks; active_signals::create.
CopyCreate(t) ==
  /\ At(t, "copy", "begun")
  /\ Report({copy[work[t].n].id})
  /\ signal' = IF signal.alive THEN signal ELSE Ready
  /\ Go(t, "created")
  /\ UNCHANGED <<idVars, calls, kern, copy, handler, active, count, samplingVars, config, finiVars,
                 excused>>

\* fetch_add: the count ...
CopyCount(t) ==
  /\ At(t, "copy", "created")
  /\ count' = IF signal.alive THEN count + 1 ELSE count
  /\ Go(t, IF signal.alive THEN "counted" ELSE "ready")
  /\ UNCHANGED <<idVars, calls, kern, copy, handler, active, signal, samplingVars, config, finiVars,
                 late, excused>>

\* ... and the signal, which may have been destroyed in between.
CopySignal(t) ==
  /\ At(t, "copy", "counted")
  /\ signal' = [signal EXCEPT !.value = IF signal.alive THEN @ + 1 ELSE @]
  /\ Go(t, "ready")
  /\ UNCHANGED <<idVars, calls, kern, copy, handler, active, count, samplingVars, config, finiVars,
                 late, excused>>

\* The runtime's function takes the copy or returns an error.
CopyInvoke(t) ==
  /\ At(t, "copy", "ready")
  /\ \E at \in {"running", "refused"} : copy' = [copy EXCEPT ![work[t].n].at = at]
  /\ Go(t, "invoked")
  /\ UNCHANGED <<idVars, calls, kern, handler, active, signalVars, samplingVars, config, finiVars,
                 late, excused>>

\* The end of the scope.  start_ts is written to data the handler may have deleted.
CopyReturn(t) ==
  /\ At(t, "copy", "invoked")
  /\ Finish(t, copy[work[t].n].id)
  /\ UNCHANGED <<constructed, calls, kern, copy, handler, active, signalVars, samplingVars, config,
                 finiVars, late, excused>>

(***************************************************************************)
(* The hardware, and the runtime's thread that runs completion handlers    *)
(***************************************************************************)
KernelEnds(k) ==
  /\ kern[k].at = "running"
  /\ kern' = [kern EXCEPT ![k].at = "complete"]
  /\ UNCHANGED <<idVars, calls, work, copy, handler, active, signalVars, samplingVars, config,
                 finiVars, late, excused>>

CopyEnds(c) ==
  /\ copy[c].at = "running"
  /\ copy' = [copy EXCEPT ![c].at = "complete"]
  /\ UNCHANGED <<idVars, calls, work, kern, handler, active, signalVars, samplingVars, config,
                 finiVars, late, excused>>

Handling(at) == handler.at = at
HandlerGo(at) == handler' = [handler EXCEPT !.at = at]

\* AsyncSignalHandler: after finalization it only deletes the session.
HandleKernel(k) ==
  /\ handler = Idle /\ kern[k].at = "complete"
  /\ IF fini > 0
     THEN /\ kern' = [kern EXCEPT ![k].at = "abandoned"]
          /\ UNCHANGED <<handler, late>>
     ELSE /\ kern' = [kern EXCEPT ![k].at = "handled"]
          /\ handler' = [at |-> "dispatched", n |-> k]
          /\ Report({kern[k].id})
  /\ UNCHANGED <<idVars, calls, work, copy, active, signalVars, samplingVars, config, finiVars,
                 excused>>

\* The callbacks of the queue: cid_async_activity_completed.
HandleSampled ==
  /\ Handling("dispatched")
  /\ q1' = IF config.sampled THEN q1 \cup {handler.n} ELSE q1
  /\ HandlerGo("sampled")
  /\ UNCHANGED <<idVars, calls, work, kern, copy, active, signalVars, q2, cb, flush, rocr, config,
                 finiVars, late, excused>>

HandleKernelEnd ==
  /\ Handling("sampled")
  /\ Drop(kern[handler.n].id) /\ active' = active - 1 /\ handler' = Idle
  /\ kern' = [kern EXCEPT ![handler.n].at = "gone"]
  /\ UNCHANGED <<constructed, stack, calls, work, copy, signalVars, samplingVars, config, finiVars,
                 late, excused>>

\* async_copy_handler: after finalization it only deletes its data.
HandleCopy(c) ==
  /\ handler = Idle /\ copy[c].at = "complete"
  /\ IF fini > 0
     THEN /\ copy' = [copy EXCEPT ![c].at = "abandoned"]
          /\ UNCHANGED <<handler, late>>
     ELSE /\ copy' = [copy EXCEPT ![c].at = "handled"]
          /\ handler' = [at |-> "copied", n |-> c]
          /\ Report({copy[c].id})
  /\ UNCHANGED <<idVars, calls, work, kern, active, signalVars, samplingVars, config, finiVars,
                 excused>>

\* fetch_sub: the count ...
HandleCopyCount ==
  /\ Handling("copied")
  /\ count' = IF signal.alive /\ count > 0 THEN count - 1 ELSE count
  /\ HandlerGo(IF signal.alive THEN "uncounted" ELSE "ended")
  /\ UNCHANGED <<idVars, calls, work, kern, copy, active, signal, samplingVars, config, finiVars,
                 late, excused>>

\* ... and the signal.
HandleCopySignal ==
  /\ Handling("uncounted")
  /\ signal' = [signal EXCEPT !.value = IF signal.alive THEN @ - 1 ELSE @]
  /\ HandlerGo("ended")
  /\ UNCHANGED <<idVars, calls, work, kern, copy, active, count, samplingVars, config, finiVars,
                 late, excused>>

\* The application's own signal gets its value, and the id loses the copy's count.
HandleCopyEnd ==
  /\ Handling("ended")
  /\ Drop(copy[handler.n].id) /\ handler' = Idle
  /\ copy' = [copy EXCEPT ![handler.n].at = "gone"]
  /\ UNCHANGED <<constructed, stack, calls, work, kern, active, signalVars, samplingVars, config,
                 finiVars, late, excused>>

(***************************************************************************)
(* PC sampling.  The trap handler fills one of two buffers; the runtime    *)
(* delivers the other, one delivery at a time, through data_ready_callback. *)
(* An entry of q1 and q2 is the id of one completed kernel; the queues here *)
(* hold the kernel.                                                        *)
(***************************************************************************)
Sample(k) ==
  /\ config.sampled /\ kern[k].at = "running"
  /\ rocr' = [rocr EXCEPT !.halves[rocr.filling] = @ \cup {kern[k].id}]
  /\ UNCHANGED <<idVars, calls, work, kern, copy, handler, active, signalVars, q1, q2, cb, flush,
                 config, finiVars, late, excused>>

\* The buffer that was being filled is taken, and the other one filled from now on.
Flip(left) ==
  /\ cb' = [at |-> "ready", left |-> left, samples |-> rocr.halves[rocr.filling], q3 |-> {}]
  /\ rocr' = [halves |-> [rocr.halves EXCEPT ![rocr.filling] = {}], filling |-> 3 - rocr.filling]

\* A buffer's watermark.
Watermark ==
  /\ config.sampled /\ cb.at = "idle" /\ Flip(0)
  /\ UNCHANGED <<idVars, calls, work, kern, copy, handler, active, signalVars, q1, q2, flush, config,
                 finiVars, late, excused>>

\* Mutant: one delivery is taken to be enough.
MoveOnce ==
  /\ cb.at = "ready"
  /\ cb' = [cb EXCEPT !.at = "moved", !.q3 = q1 \cup q2]
  /\ q2' = {} /\ q1' = {}
  /\ UNCHANGED <<idVars, calls, work, kern, copy, handler, active, signalVars, flush, rocr, config,
                 finiVars, late, excused>>

\* manage_cids_implicit: under the lock, both queues move on ...
Move ==
  /\ cb.at = "ready"
  /\ cb' = [cb EXCEPT !.at = "moved", !.q3 = q2]
  /\ q2' = q1 /\ q1' = {}
  /\ UNCHANGED <<idVars, calls, work, kern, copy, handler, active, signalVars, flush, rocr, config,
                 finiVars, late, excused>>

\* ... then the samples are copied ...
Deliver ==
  /\ cb.at = "moved"
  /\ Report(cb.samples)
  /\ cb' = [cb EXCEPT !.at = "copied", !.samples = {}]
  /\ UNCHANGED <<idVars, calls, work, kern, copy, handler, active, signalVars, q1, q2, flush, rocr,
                 config, finiVars, excused>>

\* ... and the ids that waited twice are let go.
RetireImplicit ==
  /\ cb.at = "copied"
  /\ \E k \in cb.q3 : Drop(kern[k].id) /\ cb' = [cb EXCEPT !.q3 = @ \ {k}]
  /\ UNCHANGED <<constructed, stack, calls, work, kern, copy, handler, active, signalVars, q1, q2,
                 flush, rocr, config, finiVars, late, excused>>

\* An explicit flush delivers the second buffer too.
Delivered ==
  /\ cb.at = "copied" /\ cb.q3 = {}
  /\ IF cb.left > 0
     THEN Flip(cb.left - 1) /\ UNCHANGED flush
     ELSE /\ cb' = [cb EXCEPT !.at = "idle"]
          /\ flush' = IF flush.at = "flushing" THEN [flush EXCEPT !.at = "flushed"] ELSE flush
          /\ UNCHANGED rocr
  /\ UNCHANGED <<idVars, calls, work, kern, copy, handler, active, signalVars, q1, q2, config,
                 finiVars, late, excused>>

\* manage_cids_explicit: the ids first, then the flush.
FlushTake ==
  /\ config.sampled /\ flush.at = "idle"
  /\ flush' = [at |-> "taken", taken |-> q1 \cup q2] /\ q1' = {} /\ q2' = {}
  /\ UNCHANGED <<idVars, calls, work, kern, copy, handler, active, signalVars, cb, rocr, config,
                 finiVars, late, excused>>

FlushBegin ==
  /\ flush.at = "taken" /\ cb.at = "idle"
  /\ Flip(1) /\ flush' = [flush EXCEPT !.at = "flushing"]
  /\ UNCHANGED <<idVars, calls, work, kern, copy, handler, active, signalVars, q1, q2, config,
                 finiVars, late, excused>>

\* Mutant: the ids that an explicit flush took are not let go.
RetireExplicitForgets ==
  /\ flush.at = "flushed"
  /\ \E k \in flush.taken : flush' = [flush EXCEPT !.taken = @ \ {k}]
  /\ UNCHANGED <<idVars, calls, work, kern, copy, handler, active, signalVars, q1, q2, cb, rocr,
                 config, finiVars, late, excused>>

RetireExplicit ==
  /\ flush.at = "flushed"
  /\ \E k \in flush.taken : Drop(kern[k].id) /\ flush' = [flush EXCEPT !.taken = @ \ {k}]
  /\ UNCHANGED <<constructed, stack, calls, work, kern, copy, handler, active, signalVars, q1, q2,
                 cb, rocr, config, finiVars, late, excused>>

FlushEnd ==
  /\ flush.at = "flushed" /\ flush.taken = {}
  /\ flush' = [flush EXCEPT !.at = "idle"]
  /\ UNCHANGED <<idVars, calls, work, kern, copy, handler, active, signalVars, q1, q2, cb, rocr,
                 config, finiVars, late, excused>>

(***************************************************************************)
(* finalize: the copies, the queues, the client's finalizer, which stops   *)
(* the contexts and waits again for both.                                  *)
(***************************************************************************)
Same(fs) == UNCHANGED <<idVars, calls, work, kern, copy, handler, active, samplingVars, config, late, fs>>

FinalizeBegin ==
  /\ config.finalizes /\ fpc = "no"
  /\ fpc' = "sync" /\ fini' = -1
  /\ Same(<<signalVars, tracing, excused>>)

\* Copies that their thread has begun but not counted yet.
Uncounted ==
  {c \in Copies : \/ copy[c].at = "none"
                  \/ \E t \in Threads : work[t].kind = "copy" /\ work[t].n = c
                                        /\ work[t].at \in {"begun", "created", "counted"}}
Uncreated ==
  {c \in Copies : \/ copy[c].at \in {"none", "gone"}
                  \/ \E t \in Threads : At(t, "copy", "begun") /\ work[t].n = c}

\* active_signals::sync looks at the count, and waits on the signal.
After == [sync |-> "destroy", sync2 |-> "queues2", wait |-> "destroy", wait2 |-> "queues2"]

SyncBegin ==
  /\ fpc \in {"sync", "sync2"}
  /\ fpc' = IF signal.alive /\ count > 0 THEN [sync |-> "wait", sync2 |-> "wait2"][fpc] ELSE After[fpc]
  /\ excused' = IF fpc = "sync2" THEN excused \cup Uncounted ELSE excused
  /\ Same(<<signalVars, fini, tracing>>)

SyncEnd ==
  /\ fpc \in {"wait", "wait2"} /\ signal.value < 1
  /\ fpc' = After[fpc]
  /\ Same(<<signalVars, fini, tracing, excused>>)

\* Thirty seconds passed.
SyncTimeout ==
  /\ fpc \in {"wait", "wait2"} /\ signal.value >= 1
  /\ fpc' = After[fpc] /\ excused' = Copies
  /\ Same(<<signalVars, fini, tracing>>)

\* active_signals::destroy.  A copy that holds the signal when it goes spoils the next one.
Destroy ==
  /\ fpc = "destroy"
  /\ signal' = Dead /\ fpc' = "queues"
  /\ excused' = IF Uncreated = Copies THEN excused ELSE Copies
  /\ Same(<<count, fini, tracing>>)

\* Queue::sync; the first one is followed by the client's finalizer.
QueuesSynced ==
  /\ fpc \in {"queues", "queues2"} /\ active = 0
  /\ IF fpc = "queues" THEN fpc' = "sync2" /\ tracing' = FALSE /\ fini' = fini
     ELSE fpc' = "done" /\ fini' = 1 /\ UNCHANGED tracing
  /\ Same(<<signalVars, excused>>)

-----------------------------------------------------------------------------
Thread(t) ==
  \/ ApiInvoke(t) \/ ApiLeave(t)
  \/ KernelStart(t) \/ KernelMark(t) \/ KernelWrite(t)
  \/ CopyCreate(t) \/ CopyCount(t) \/ CopySignal(t) \/ CopyInvoke(t) \/ CopyReturn(t)
Handler ==
  \/ \E k \in Kernels : HandleKernel(k)
  \/ \E c \in Copies : HandleCopy(c)
  \/ HandleSampled \/ HandleKernelEnd
  \/ HandleCopyCount \/ HandleCopySignal \/ HandleCopyEnd
Callback == Move \/ Deliver \/ RetireImplicit \/ Delivered
Flush == FlushBegin \/ RetireExplicit \/ FlushEnd
Finalizer == SyncBegin \/ SyncEnd \/ SyncTimeout \/ Destroy \/ QueuesSynced

Next ==
  \/ \E t \in Threads : ApiEnter(t) \/ KernelBegin(t) \/ CopyBegin(t) \/ ApiRecord(t) \/ Thread(t)
  \/ \E k \in Kernels : KernelEnds(k) \/ Sample(k)
  \/ \E c \in Copies : CopyEnds(c)
  \/ Handler \/ Watermark \/ Callback \/ FlushTake \/ Flush
  \/ FinalizeBegin \/ Finalizer

Spec == Init /\ [][Next]_vars

\* Calls return, kernels and copies end, handlers run, and the threads of PC sampling
\* and of the finalizer go on with what they began.
FairSpec ==
  /\ Spec
  /\ \A t \in Threads : WF_vars(Thread(t)) /\ WF_vars(ApiRecord(t))
  /\ \A k \in Kernels : WF_vars(KernelEnds(k))
  /\ \A c \in Copies : WF_vars(CopyEnds(c))
  /\ WF_vars(Handler) /\ WF_vars(Callback) /\ WF_vars(Flush) /\ WF_vars(Finalizer)

-----------------------------------------------------------------------------
\* Completed kernels whose samples are still awaited.
Waiting == q1 \cup q2 \cup cb.q3 \cup flush.taken

\* Types; a count below zero is sub_ref_count's fatal underflow.
TypeOK ==
  /\ constructed \in 0 .. MaxIds /\ refs \in [Ids -> Nat] /\ retired \subseteq Ids
  /\ \A t \in Threads : stack[t] \in Seq(Ids) /\ work[t].kind \in {"none", "kernel", "copy"}
  /\ \A k \in Kernels : kern[k].id \in 0 .. MaxIds
  /\ \A c \in Copies : copy[c].id \in 0 .. MaxIds
  /\ active \in Nat /\ count \in Nat /\ signal.value \in Int
  /\ Waiting \subseteq Kernels /\ fini \in {-1, 0, 1}

\* Who holds a count of id i: calls (two, until the function is invoked), threads that
\* constructed it for a kernel or a copy, kernels, their markers, and copies.
CallsOf(i) == {p \in Threads \X (1 .. MaxDepth) : p[2] \in DOMAIN calls[p[1]] /\ calls[p[1]][p[2]].id = i}
Entering(i) == {p \in CallsOf(i) : calls[p[1]][p[2]].at = "enter"}
IdOf(w) == IF w.kind = "kernel" THEN kern[w.n].id ELSE copy[w.n].id
Owners(i) == {t \in Threads : work[t].own /\ IdOf(work[t]) = i}
KernelsOf(i) == {k \in Kernels : kern[k].id = i /\ kern[k].at \notin {"none", "gone"}}
Marked(k) ==
  \/ kern[k].at = "begun" /\ \E t \in Threads : At(t, "kernel", "marked") /\ work[t].n = k
  \/ kern[k].at \in {"running", "complete", "abandoned"}
  \/ kern[k].at = "handled" /\ Handling("dispatched")
  \/ k \in Waiting
MarkersOf(i) == {k \in Kernels : config.sampled /\ kern[k].id = i /\ Marked(k)}
CopiesOf(i) == {c \in Copies : copy[c].id = i /\ copy[c].at \notin {"none", "gone"}}

\* The count of an id is the number of those who still need it.  One fewer, and it
\* retires under them and the next of them aborts; one more, and it never retires.
RefsCountHolders ==
  \A i \in Ids :
    refs[i] = Cardinality(CallsOf(i)) + Cardinality(Entering(i)) + Cardinality(Owners(i))
              + Cardinality(KernelsOf(i)) + Cardinality(MarkersOf(i)) + Cardinality(CopiesOf(i))

\* Retirement is the last that a tool hears of an id: no callback, no record and no PC
\* sample carries it afterwards, although the samples of a kernel come from two
\* buffers, some time after it completed.
RetirementIsLast == late = {}

\* Every id retires, unless it waits for the next delivery of samples, the runtime
\* refused its copy (nothing drops the count then), or a handler found the library
\* finalized.
Abandoned(i) ==
  \/ \E c \in Copies : copy[c].id = i /\ copy[c].at \in {"refused", "abandoned"}
  \/ \E k \in Kernels : kern[k].id = i /\ kern[k].at = "abandoned"
AwaitsSamples(i) == \E k \in Waiting : kern[k].id = i

IdsRetire == \A i \in Ids : i <= constructed ~> i \in retired \/ AwaitsSamples(i) \/ Abandoned(i)

=============================================================================
