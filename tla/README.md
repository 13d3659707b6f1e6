# A formal model of rocprofiler-sdk

rocprofiler-sdk is the library that ROCm profilers are built on. It sits
between an application and the HSA, HIP, marker, RCCL and OpenMP runtimes,
intercepts their calls and their kernel dispatches, and hands what it observes
to *tools* (clients): either at once, in a callback on the application's thread,
or later, in batches taken from a buffer. This directory holds TLA+ models of
its concurrent core, the configurations with which TLC checks them, and proofs
that TLAPS checks.

Paths below are relative to `src/source/lib/rocprofiler-sdk/` unless they begin
with `lib/`, which stands for `src/source/lib/`. `PROJECT.json` maps each
definition to the lines it models, and lists the runs, the properties, the
faulty variants of the code ("mutants") each property catches, the hazards and
the theorems.

## 1. The system

### Components

| component | state | operations | hard because |
|---|---|---|---|
| **Buffers** (`buffer.*`, `internal_threading.*`, `lib/common/container/record_header_buffer.*`, `ring_buffer.*`) | per buffer: two record stores, `buffer_idx`, `syncer`, `drop_count`; per task group: a mutex and the queue of a one-thread pool | emplace, flush, create, destroy; exec, wait, finalize | lock-free emplace against a swap of the stores; flushes from the watermark, from a blocked emplace and from the tool; finalization |
| **Contexts** (`context.cpp`, `context/context.*`) | registered contexts, array of active contexts, `num_active` | create, start, stop, stop/deactivate/deregister a client's contexts, iterate the active ones | test, lock, unlock, compare-exchange; services started outside the lock |
| **Dispatch counting** (`counters/core.*`, `controller.*`, `dispatch_handlers.*`) | `enabled`, packet cache, `packet_return_map` | start, stop, enqueue callback, completion callback | start/stop while kernels are in flight |
| **Sample consumer** (`counters/sample_consumer.hpp`, `sample_processing.*`) | ring of 128 completed dispatches, `valid`, `exited`, a thread | start, add, consume, exit | fallback that consumes on the producer's thread; exit racing start |
| **Kernel serializer** (`hsa/profile_serializer.*`, `hsa_barrier.*`) | mode, the queue whose turn it is, queues waiting, barriers | enable, disable, dispatch, ready, complete, destroy queue | everyone waits on somebody's turn; switches of mode with work in flight |
| **Queue interceptor** (`hsa/queue*`) | callbacks per queue, count of kernels in flight, state | write interceptor, completion handler, sync, destroy | callbacks added and removed between enqueue and completion; finalization |
| **Device counting** (`counters/device_counting.*`) | a status word (DISABLED, LOCKED, ENABLED, EXIT) per context | start, read, stop, finalize | a lock made of compare-exchanges |
| **Correlation ids** (`context/correlation_id.*`) | reference count per id, per-thread stack of ids | construct, add/sub reference, retire, push, pop | holders on several threads; retirement exactly once |
| **External correlation ids** (`external_correlation.*`) | a stack per thread | push, pop, get | nested locks |
| **Registration** (`registration.*`) | init and fini status, list of clients | initialize, finalize, a client's finalizer | re-entrance, finalizer called from another thread |
| **Intercept tables** (`intercept_table.*`, `runtime_initialization.*`) | callbacks per library | register, notify | callbacks run with the mutex held |
| **API tracing** (`tracing/`, `hsa/hsa.*`, `hip/`, `marker/`, `rccl/`, `rocdecode/`) | per call only | enter and exit phases around a runtime's function | a context that stops between the two phases |
| **Async copies** (`hsa/async_copy.*`) | count of copies in flight, a signal | wrap, complete, sync | handler before the count; timeout |
| **Code objects** (`code_object/`) | executables, code objects, symbols, who was notified | freeze, destroy, start of a context, finalize | two freezes; lists read without the lock |
| **Thread trace** (`thread_trace/`) | active traces, data to collect | start, stop, enqueue, complete | stop with dispatches in flight; uses the serializer |
| **PC sampling** (`pc_sampling/`) | per-agent session, three queues of correlation ids | start, stop, dispatch, completion, implicit and explicit flush | an id may retire only after the hardware buffer was flushed twice |
| **Page migration** (`page_migration/`) | background thread, file descriptors | start, poll, fork, finalize | fork, kernel I/O |
| **OMPT** (`ompt/`) | per-thread stacks | begin/end callbacks | nesting |
| **Counter metrics, AQL packets, agents, kernel-dispatch and scratch/memory tracing** | tables built once, or one thread's data | parse, evaluate, build packets | sequential |
| **Tool and output** (`lib/rocprofiler-sdk-tool`, `lib/output`) | temporary-file ring per record type, kernel iteration counts | write, offload, generate | threads share a ring whose requests are not locked |
| **Trace viewer, ROCTx, launch scripts** | none shared | offline analysis, forwarding | sequential |

### How they interact

A *context* bundles the services of one client. Wrappers of API tracing, the
queue interceptor and the code-object tracker look up the active contexts,
create a correlation id, and either invoke a callback or emplace a record in the
context's **buffer**. The buffer's task group calls the tool back. Dispatch
counting and thread trace install callbacks in every **queue**; enqueueing asks
the **serializer** for barrier packets; the completion handler passes the turn
on, releases the correlation id and hands counters to the **sample consumer**,
which emplaces in a buffer. **Registration**'s finalization calls the clients'
finalizers, drains everything and destroys the task groups. Almost every pair of
these runs on different threads: the application's, the runtime's
signal-handler thread, a buffer's worker, the consumer, and whoever finalizes.

### What makes each correct

Buffers: what was accepted is delivered exactly once and in order, or counted as
dropped; one flush at a time; every flush returns. Contexts: a context is active
at most once, conflicting contexts never together, services run exactly while
active. Serializer: at most one kernel runs in serialized mode, and every kernel
eventually does. Sample consumer: each sample is consumed once; exit leaves none.
Correlation ids: an id retires exactly once, after its last holder. Device
counting: one operation at a time, and EXIT is final. PC sampling: an id outlives
the samples that refer to it. The hazards in `PROJECT.json` name the line where
each of these can go wrong.

## 2. Plan

Order: the behaviour that every service depends on comes first.

1. **Buffers**: `RecordHeaderBuffer` (the store), `Buffer` (emplace, flush,
   worker, finalization), `FlushCycle` (abstract), `BufferProofs`,
   `BufferRecordsProofs`. *Done.*
2. **Contexts**: `Contexts` (active array, count, a service as a flag),
   `ActiveSet` (abstract), `ContextsProofs`. *Done.*
3. **Sample consumer**: `SampleConsumer`, `SampleQueue` (abstract),
   `SampleConsumerProofs`. *Done.*
4. **Serializer**: `KernelSerializer` with `hsa_barrier`, the queue interceptor and the
   dispatch counting service; `KernelSerializerProofs`. *Done.*
5. **Correlation ids** with async copies and **PC sampling**'s id manager:
   `CorrelationIds`, `CorrelationIdsProofs`, `RetirementProofs`. *Done.*
6. **Device counting**: `DeviceCounting`, `DeviceCountingProofs`. *Done.*
7. Later: code objects, thread trace, destruction of buffers and of queues that come and
   go, callbacks that call back into the library.

Every module takes its actors and bounds as CONSTANTS with named assumptions, and
declares no RECURSIVE operator, so that it can be proved about.

## 3. Buffers

### Modules

`RecordHeaderBuffer` is the store: a record value whose operators are the
critical sections and atomic accesses of `record_header_buffer`. Bytes become
slots of one record each (`Capacity` of them), so that an address is a number;
`ring_buffer::request` is "is there a free slot, and which". An exclusive section
(`write_lock`) contains no blocking call, so it is one step guarded by
`NobodyShares`.

`Buffer` is one `buffer::instance` and everything that touches it:

| in the model | in the code |
|---|---|
| `EmplaceCall` .. `EmplaceReturns` | `instance::emplace` and, inside it, `record_header_buffer::emplace`: load `buffer_idx`; announce; reserve under the exclusive lock; take an index under the shared lock; place; withdraw; then throw, block, drop or test the watermark |
| `FlushCall`, `FlushBegin` .. `ExecTask` | `rocprofiler_flush_buffer` and `buffer::flush`: `fini_status`, the task group, `wait` before the `test_and_set`, spin, swap, exec, `wait` after |
| `LockGroup`, `TasksDone` | `TaskGroup::wait`, which keeps `m_mutex` until the tasks it finds are done |
| `TaskBegin` .. `TaskEnd` | the lambda `_task`: `is_empty` (two reads), `get_record_headers`, the callback, `clear`, `syncer.clear` |
| `FinalizeBegin`, `DeleteGroup`, `FinalizeEnd` | `registration::finalize`: status -1, a flush by the client's finalizer, the group's end, status 1 |

A thread's program counter `pc` names its next access to shared state; every
such access is a step of its own, so TLC explores every interleaving of them.
`accepted`, `rejected`, `delivered`, `before`, `owed` and `late` are history
variables that no action reads.

`FlushCycle` says what a flush promises, whoever calls it: claim, swap, drain,
release, in turn. `Buffer` is shown to implement it under the mapping `Cycle`.

### Runs

| run | instance | shows |
|---|---|---|
| `buffer_producers` | two producers, 2 records each, LOSSLESS, sides of 1, symmetric | types, exclusion of flushes, the request count, and `OnlyLateEmplacesHarm` |
| `buffer_flusher` | a producer of 3 records and a tool that flushes twice, sides of 2, with fairness | the same harm property against the tool's flushes, the refinement of `FlushCycle`, every call returns, `syncer` is always cleared |
| `buffer_finalize` | two producers, 2 records each, DISCARD, sides of 1, and the finalizing thread | every record is accepted, dropped and counted, or thrown back; records accepted before finalization are delivered by it |
| `lossless_loses` | two producers, 3 records each, LOSSLESS | a violation, see below |

`OnlyLateEmplacesHarm` says that as long as no emplace is still under way in a
side when that side's task looks at it, nothing is lost, repeated, reordered,
torn or left behind by a flush. The condition is needed: in `lossless_loses` a
record whose LOSSLESS emplace returned true lands between the task's
`get_record_headers` and `clear` and is erased, against what `fwd.h` says of the
policy (`findings` in `PROJECT.json`).

Two more departures are visible in the model without a run of their own. After
its first flush a DISCARD buffer works on a side that was never allocated, and
emplace throws (`EmplaceThrows`, counted in `rejected`) instead of dropping. And a
flush during finalization can find the task group destroyed while `fini_status`
is still negative (`UseDeletedGroup`, and the "aborted" branch of `FlushBegin`).

### Bounds

Two slots per side are the smallest number with which a side can be partly
full, three records overflow one while it is drained and force the blocking
path. With one slot per side every second emplace of the two producers blocks
or drops. `MaxRecords`
and `MaxFlushes` bound how often a thread starts a call, not what a call does.

### Fairness

`FairSpec` assumes weak fairness of each thread inside a call (`Progress`) and of
the worker. The code justifies both: threads are scheduled by the operating
system and none holds a lock it does not release; the pool's thread takes every
task. No thread is assumed to *start* a call. A waiting flush that polls `syncer`
needs no strong fairness: after the claim of another thread ends, it stays
clear until someone claims it, and the number of calls is finite.

### Proofs

`BufferProofs` proves, for every set of threads, capacity, watermark and policy:

- `TypeCorrect`: `Spec => []TypeOK`. `TypeOK` is not inductive: placing a record
  needs the reserved address and index to be valid still, and the worker's steps
  need a task at the head of the queue. `TypeInv` adds both (`EmplaceInv`,
  `WorkerInv`).
- `FlushMutualExclusion`: `Spec => []FlushExclusive`. The strengthening
  `SwappedSide` says that the thread about to queue its task took the side that
  is not current. The proof goes over the actions; the lemmas `QuietStep`,
  `QuietMove`, `ResumeStep` and `OneTask` cover the many that leave the claim, the
  queue and the side alone.

- `FlushesAreCycles`: `Spec => ImplementsFlushCycle`, the refinement. `DrainsOther`
  shows that the side the mapping calls drained is always `1 - buffer_idx`, so
  that a step can disturb the cycle only by moving `buffer_idx`, `syncer` or a
  thread to or from "swap": `FlushClaim`, `SwapSides` and `ReleaseSyncer`, which
  are the abstract steps. `FlushExclusive` is what makes each find its phase; all
  others stutter.

`BufferRecordsProofs` proves what becomes of the records:

- `RequestsAreEmplaces`: `Spec => []RequestsCounted`. `m_requested` of a side is
  the number of emplaces under way in it, so what `is_empty` reads of a side
  whose emplaces are over is zero, and of any other is not.
- `RecordsAccounted`: `Spec => []EveryRecordAccounted`, for producers that do not
  flush besides. The invariant `AccountInv` says of every record handed to emplace
  that it is exactly one of pending (its thread is inside the call, `Undecided`),
  accepted, rejected by an exception, or dropped, and that `drop_count` is the number
  of the dropped. A watermark flush inside the call leaves the outcome decided; a
  blocked LOSSLESS emplace, which flushes and retries, does not.
- `LateEmplacesAlone`: `Spec => []OnlyLateEmplacesHarm`. While no task has looked at a
  side with an emplace under way in it, nothing that was accepted is lost, repeated or
  reordered, nobody writes what a callback reads, and a flush that waits leaves nothing
  behind. The inductive invariant is `HarmInv`: `~late => DeliveryInv`, which holds its
  ground because `late` is never reset. `DeliveryInv` has six parts. `StoreInv`: headers
  lead to distinct records below the write count, an address or an index that is taken
  is its thread's alone. `OrderInv`: a producer's records are older when delivered than
  in the side that is out of use, and older there than in the current one; a thread that
  is still in the side out of use has nothing in the current one. `AgeInv` and `KeptInv`
  tie a stored record to the call that stored it. `TaskInv`: what a task drains is quiet
  from its look at the count on, and the side out of use is clean whenever nobody has
  claimed it (`Unclaimed`); that is what makes a swap safe. `OweInv`: what a flush waits
  for is delivered or in the side it swapped out. The lemmas sort the steps by what they
  can disturb: `MoveKeeps` covers those that write to no side, `ReserveMoves`,
  `TakeMoves` and `PlaceMoves` the three that store a record, `SwapMoves`, `ExecMoves`,
  `LookMoves`, `CallbackMoves` and `ClearMoves` the life of a side out of use.
- `FinalizationDrains`: `Spec => []FinalizeDrains`. `FinalizerInv` says that only one
  thread finalizes, that its flush finds the status negative and the task group there,
  and waits; so it cannot return early, and when it goes on (`FinalInv`) what was
  accepted before it is delivered, by `OweInv` unless an emplace was late.

The assumptions are those that `RecordHeaderBuffer` and `Buffer` state about
their constants (the threads are finitely many); TLC evaluates them in every run.
Liveness is checked by TLC only: it, and ENABLED, are out of the prover's reach.

### Left out

`rocprofiler_destroy_buffer`; the argument checks of the creation functions;
saving and loading a store; several buffers in one task group; re-creation of
threads after a fork; callbacks that emplace or flush (they would block on the
group's mutex, a hazard listed in `PROJECT.json`); records of different sizes.

## 4. Contexts

### Modules

`Contexts` models the array of active contexts, an array of atomic pointers, and
`num_active` beside it. Threads call `rocprofiler_start_context`,
`rocprofiler_stop_context` and `rocprofiler_context_is_active`, and one may run
`registration::finalize`.

| in the model | in the code |
|---|---|
| `ReadCount` .. `Recheck` | `get_active_contexts`: load the count, evaluate `end()`, visit slot after slot, compare the count, start again |
| `StartCall`, `AlreadyActive`, `RefuseConflict`, `NoneActive` | the API's test of `fini_status`, and what `start_context` decides from the contexts found, before it takes the lock |
| `FoundWhileSearching`, `ClaimSlot` | the search under `contexts_mutex`, the new slot, the count |
| `Publish`, `PublishFails`, `NotStarted` | the compare-exchange after the lock was released, and its failure |
| `StartServices` | the services, outside the lock |
| `StopCall`, `StopClears` .. `StopServices` | `stop_context`, with the lock held until it returns |
| `FinalizeBegin` .. `FinalizeEnd` | `finalize`: `stop_client_contexts`, `deactivate_client_contexts` slot by slot, the status |

A step is one access to the array, the count or `fini_status`, with three
exceptions. The search under the lock is one step: slots are emptied only under
the lock or by `deactivate_client_contexts`, filled only from empty, so each
outcome of the loop is one the array offers at a single moment. In `ClaimSlot` the
new slot and the count change together: an empty slot more is invisible to a
reader. `compare_exchange_strong` in `stop_context`, and the load and store in
`deactivate_client_contexts`, are one step each, the moment of the write. The
index that `start_context` initializes to the number of registered contexts means
"none found" to it even when the search found a slot with that index: `Free`
reproduces this.

`throughout`, `flickered`, `overlap` and `result` are history variables. `overlap`
holds what has overlapped a start so far: another start, a stop of the same context,
or finalization; a stop of another context, and a lookup, are no disturbance.
`ActiveSet` is what the API promises: contexts enter a set one at a time and never
next to one they conflict with. `Contexts` implements it (`ImplementsActiveSet`) until
two starts overlap: its `on` is the set of active contexts as long as they have not, and
empty from then on, because nothing is promised any more.

### Runs

| run | instance | shows |
|---|---|---|
| `contexts_start_stop` | two threads and two contexts that conflict, a reader, 2 calls each | types, `CountCoversSlots`, `OnlyOverlapsHarm`, the refinement of `ActiveSet`; a lookup finds what was active all along unless the count left its value and returned |
| `contexts_finalize` | two threads with one call each beside the finalizing thread, with fairness | the count and `OnlyOverlapsHarm` through finalization, and every call returns |
| `conflicting_contexts` | two threads, one start each | a violation, see below |

`LookupsComplete` is about lookups before finalization: `contexts_start_stop` has no
finalizing thread. With finalization it needs more: two starts that overlap a stop can put one
context into two slots, and `deactivate_client_contexts` may empty the higher one ahead of
a reader that has passed the lower one, so that the context stays active and is missed.

`OnlyOverlapsHarm` says which overlap does which harm. Only two starts that overlap can
give a context two slots, make two conflicting contexts active together or cost a start
its slot; stops, lookups and finalization beside a start cannot. Only a start that
overlaps finalization can leave a context active after it. A service can be left on in a
context that is not active, or off in one that is, only by one of these or by a stop that
overlaps a start of the same context. So the property does not show these overlaps to be
harmless, and the code is not: in `conflicting_contexts` two counting contexts are active
at once, because conflicts are looked for before the lock is taken; two starts take the
same empty slot, because the lock is released before it is filled; a context started
twice occupies two slots of which a stop clears one; a stop between the publication of a
context and the start of its services leaves these on; a start past the test of
`fini_status` publishes after finalization emptied the array. `PROJECT.json` lists each
as a hazard; those that only an excused overlap can bring about name no property. What
the property is about is the rest: a start's lookup that runs while slots are emptied
and the count goes down, a slot found beside a stop, and two threads, one of them
finalizing, that stop the same context.

### Bounds

Two contexts are what a conflict takes. Two calls per thread let a context be
stopped and started again while another thread is inside a call; more calls
repeat this, as a thread keeps nothing between calls. In `contexts_finalize`, one call of
each thread is enough: a context that one thread starts can be stopped by the other while
`stop_client_contexts` and `deactivate_client_contexts` reach it.

### Fairness

`FairSpec` assumes weak fairness of each thread inside its call.
`contexts_mutex` needs no strong fairness: its holder releases it after three steps,
and with finitely many calls it is not taken again and again. The recursion of
`get_active_contexts` ends for the same reason.

### Proofs

`ContextsProofs` proves, for any finite set of threads and any contexts:
`TypeCorrect` (`Spec => []TypeOK`) and `CountCovers`
(`Spec => []CountCoversSlots`). They need each other: `NotStarted` keeps
`num_active` natural only because its thread is counted, so the invariant `Inv`
joins `TypeOK`, what a thread knows of its slot and context (`StepInv`) and
`CountCoversSlots`. The six actions that move the count or the array have one case
each in `StartCounts` and `StopCountsToo`; the lemmas `QuietIterate`, `QuietStart`
and `QuietStop` show that the others leave count, array and pending threads alone.
Finiteness of the set of threads is an assumption of `Contexts`
(`ContextsAssumption`).

For any number of threads that start, stop, look up and finalize, two more hold:

- `OverlapsAlone`: `Spec => []OnlyOverlapsHarm`. Its invariant `SoloInv` has a part for each
  of the three conditions. While no two starts overlap (`ApartInv`), nobody else fills a
  slot during a start, so the array only shrinks under its lookup. `LookInv` bounds what is
  ahead of the lookup: what it found and the occupied slots it has not visited are together
  no more than the count it read, by `CountCovers`; so when it stops for having found that
  many, nothing is left ahead, and what the start decides from it still holds when it
  publishes (`StartParts`). While no start overlaps finalization (`EndInv`), the slots
  `deactivate_client_contexts` has passed stay empty, and no new one comes after the last.
  While nothing overlaps a start (`ServeInv`), a context being stopped is no longer in the
  array, and during finalization the array holds only what is yet to be stopped
  (`ToFinalize`), so that `deactivate_client_contexts`, which stops no service, finds
  nothing (`Stopped`). `OpInv` keeps what each thread does in step with where it is.
- `ArrayIsSet`: `Spec => ImplementsActiveSet`, from the same invariant. `ArrayMoves` is its
  step: until two starts overlap, the set of active contexts shrinks or gains one that
  conflicts with none in it; with the step at which they do, it becomes the empty set for
  good.

`OneCallerExcludes` follows: with one thread that starts and stops (`OneCaller`), beside any
number that look up and one that finalizes, starts never overlap (`CallerInv`), hence
`Spec => []ConflictsExcluded`, the property that `conflicting_contexts` refutes for two
callers.

`LookupsFindAll`: `Spec => [](Fits => LookupsComplete)`, for any number of callers and
readers. Its invariant `LookupInv` joins `SoloInv`, that what was active all along is
active (`StillActive`), and `ScanInv` for every lookup: a context that was active all
along and is not found yet is ahead of the reader, and neither a slot beyond the last
one the reader looks at nor a publication to come there has one. While the count is
what the reader read (`Steady`), what is found, what is ahead and what is yet to be
published are together no more than it, by `CountCovers` at the start of the scan; so
a reader that stops because it found that many has left nothing ahead. The steps of
others that matter have a lemma each: `ScanClaim` raises the count, `ScanPublish` turns
a publication to come into one slot more, `ScanClear` empties the first slot of a
context, so that the context is active no more or is so in a slot that is farther.

`Fits` says that `fini_status` is 0 and that no slot has the index `NoneFound`. The
first is the limit named under Runs. The second is about the search for an empty slot
in `start_context`, whose "none found" is the number of registered contexts: an empty
slot with that index is overlooked, so the claim goes to a new slot at the end, and
"whoever claims a slot has looked at all slots before it" (`ClaimFirst`) fails. As many
slots as that exist only after overlapping starts, and the run does not reach them.

Liveness is model-checked only.

### Left out

Creation, which one thread does before initialization; deregistration after a
failed configuration; services other than dispatch counting, some of which can
fail to start; filters of a lookup; several clients; a tool's finalizer that stops
contexts itself; the unsynchronized growth of the array's chunk list beyond eight
slots, which is a data race with readers.

## 5. Sample consumer

### Modules

`SampleConsumer` is `consumer_thread_t`: a ring between the completion handlers of
finished dispatches (`Adders`) and a thread, which starting a counting context
starts and stopping one ends (`Controllers`). There is one for the whole library:
stopping any context ends it.

| in the model | in the code |
|---|---|
| `AddStores`, `AddPublishes` | `add` with room: fill the slot, then move `write_ptr` |
| `AddDirectly`, `AddConsumes` | `add` without room, or with the thread stopping: consume on the caller's thread, with the mutex held |
| `StartFindsValid`, `StartSpawns`, `StartTerminates` | `start`: already valid, a new thread, or the assignment to a joinable `std::thread`, which ends the program (`aborted`) |
| `ExitCall`, `ExitWakes`, `ExitJoins` | `exit`: wait for `exited` with the mutex released, then join with it held |
| `LookForSample` .. `WaitEnds` | the inner loop of `consumer_loop`: the test of the pointers without the mutex, the wait with it |
| `TakeSample`, `Advance`, `ConsumeSample` | the rest of the loop, without the mutex |

The consumer thread reads `write_ptr` and moves `read_ptr` without the mutex, so these
accesses, and the order in which `add` fills a slot and publishes it, are steps of
their own. What else the mutex protects is one step, guarded by `mut = NoThread`.
Every change that a condition variable waits for is followed by `notify_all` under
the mutex, so a wait is a guard. `consumed` is a history variable.

`SampleQueue` is the promise: a sample is consumed once, at once or from a bounded
queue in order. The queue holds one sample more than the ring, the one the thread
took and has not consumed.

`ExitCall` takes no second call while one is under way (`Exiting`): the only caller is
`stop_context`, which holds `contexts_mutex` until it returns. Without that lock a
second `exit` and a `start` could leave the first waiting for ever.

### Runs

| run | instance | shows |
|---|---|---|
| `sample_consumer` | two handlers with three samples each, a ring of two, two controllers with two calls each, with fairness | types and the distance of the pointers; no exit leaves a sample behind (`ExitDrains`); the refinement of `SampleQueue`; every sample is consumed and every exit returns |

`OnlyOverlapTerminates` says that the program ends in `StartTerminates` only if a start
meets an exit that waits. The model reaches that state: `start_context` starts the
services of a context outside `contexts_mutex` while `stop_context` of another context
waits for the thread, `valid` is already false and the thread not joined yet.

### Bounds

A ring of two with six samples fills, wraps three times and forces the direct path
while the thread holds a sample. Two calls per controller allow start, stop and
start again against a stop by the other.

### Fairness

Weak fairness of each thread inside its call and of the consumer thread. Waits for the
mutex need no more: its holders release it and the number of calls is finite. No
thread is assumed to start a call.

### Proofs

`SampleConsumerProofs` proves for any number of handlers, controllers, calls and any
size of the ring:

- `TypeCorrect` and `Restartable` (`OnlyOverlapTerminates`), from `Inv`, which adds what
  a thread holds at each step (`CallInv`), that a slot being filled is free
  (`RingInv`), and how `valid`, `exited` and `joinable` follow the life of the thread
  (`LifeInv`);
- `StopDrains` (`ExitDrains`), from `PlaceInv`: a sample whose `add` has begun is consumed,
  or with its handler, or with the consumer thread, or at exactly one filled position
  of the ring. `SlotsDiffer` is the arithmetic: positions less than a ring apart have
  different slots, so filling one overwrites none.

- `ConsumerIsQueue` (`ImplementsSampleQueue`), from the same invariant: the ring with the
  sample that the consumer thread holds is the queue of `SampleQueue`. The publishing
  step of `add` is its `Put`; the consuming step of the thread, and of an `add` that
  finds no consumer, is its `Consume`; every other step leaves the queue alone. `Entries`
  reads the ring as positions from `RingStart` to `write_ptr`; filling a slot changes
  none of them (`AddQueues`).

Liveness is model-checked only.

### Left out

The destructor, which calls `exit` at static destruction; what
`proccess_completed_cb` does with a sample; a record callback that itself stops a
context, which would wait for a mutex its own thread holds.

## 6. Kernel serializer

### Modules

`KernelSerializer` is the serializer of one agent with what it decides for and what
drives it: the interceptor of the agent's queues, the device's packet processor, the
completion handlers, the dispatch counting service and finalization.

| in the model | in the code |
|---|---|
| `WriteDirectly`, `InterceptBegin` .. `Submit` | `WriteInterceptor` for one kernel: `async_started`, the callbacks of the queue (`queue_cb`, with the tool's profile or none), the packets of the serializer, the write |
| `AddSerialization` (`Transition`, `Turn`) | `kernel_dispatch`, under the serializer's lock: a barrier packet for a mode the queue has not reached, then the ready and the block packet |
| `PassBarrier` .. `Launch`, `Complete` | the packet processor (external): a packet leaves the head of a queue when its signal allows |
| `QueueReady` | `queue_ready`, the handler of a queue's ready signal: take the turn or stand in line |
| `KernelCompletion`, `AsyncComplete` | `AsyncSignalHandler`: the callbacks (`kernel_completion_signal`), then `async_complete` |
| `Start`, `Stop`, `SwitchBegin` .. `SwitchEnd`, `Mark`, `Install` | `start_context` and `stop_context`: enable or disable, the new barrier and its two passes over the queues' counts (`CountQueue`, `RecountQueue`), then the callbacks |
| `FinalizeBegin`, `Sync`, `FinalizeEnd`, `Destroy` | finalization and the destruction of a queue |

What the serializer does under its lock is one step; the counts of kernels in flight
are atomics outside of it, so each access is its own.

### Runs

| run | instance | shows |
|---|---|---|
| `serializer` | two queues with two kernels and one, one context; the instance spends its bounds either on kernels of both queues and one start and stop, or on one queue and two starts (`Spent`) | types, the line is served, serialized kernels run alone, the serializer's assertion, queues that are gone leave nothing behind, and every kernel finishes |
| `serializer_check` | one queue of the above | a violation, see below |

`SerializedAlone`, `DestroyedQueuesUnused` and `KernelsFinish` are stated unless a barrier
`miscounted` (or two contexts put packets in front of one kernel, `Doubled`, for which the
serializer is not made). The condition is needed: `set_barrier` reads the count of
kernels in flight twice and counts a kernel that has registered its completion but
not called `async_complete`. The barrier then waits for a completion that never comes,
a kernel of a later mode registers with it, takes the mode of the barrier for its own,
and `CHECK(_dispatch_queue)` ends the process (`findings` in `PROJECT.json`).

### Bounds

Two queues are what a line of one takes behind a turn; a second kernel on the first
queue lets it ask for a turn again while the other waits. One start and stop give one
barrier of each mode, two starts barriers that stand behind each other. The two halves
of `Spent` keep the product of both small enough for TLC.

### Fairness

Weak fairness of a thread inside the interceptor, of the packet processor per queue, of
each kernel's end and of each handler, and of the tool's thread inside a call. The
runtime calls a handler when its signal changes, and kernels are assumed to end. Nobody
is assumed to write a kernel or to start a context.

### Proofs

`KernelSerializerProofs` proves the run's safety properties for any queues, contexts and
kernels and any number of switches.

`SerializerServesLine` (`Spec => []LineIsServed`): a queue waits in line only while some
queue has the turn, whatever the barriers count. The strengthening `TurnInv` says that only
queues get the turn or stand in line, so the turn that is passed on goes to a queue.

`SerializerTypes` (`Spec => []TypeOK`) is proved from `TypesInv`, which joins the types with
what they need: where a kernel is tells what was asked of it (`Sane`, `PlaceInv`, `FreshInv`),
and a queue's count of active kernels bounds those whose handlers have not ended
(`ActiveInv`), so that it never drops below zero.

The other three follow from the invariant `SerializerInv` (`SerializerInvariant`). Its
first two parts hold in every history: `TypesInv`, and `StructInv`, which numbers the
barriers in the order they are set (`IdInv`; what is not in the list is lifted, and a
barrier that waits for nobody is lifted unless it is being set), keeps the barrier being set
apart (`HeldInv`), dates the kernels (`epoch`, the last barrier set before a kernel got its
packets: `EpochInv`), and says that a queue that is gone is empty (`GoneInv`). The third
part, `RightInv`, holds while no barrier has counted wrong and no kernel has two turns
(`Calm`); both never go back. Its conjuncts need each other:

- `CountInv`: a barrier waits, for each queue, for exactly the completions still to register
  of kernels older than the barrier;
- `LiftInv`: so when a barrier is lifted everything older has registered, and a launched
  kernel's barrier is lifted;
- `AheadInv` is what makes the second half true: a kernel whose barrier is not lifted stands
  behind that barrier's packet in its queue. A queue gets the packet of every barrier it has
  not seen before its next kernel, and `ToCount` excepts the queues that `set_barrier` has
  yet to count;
- `ModeInv`: whether a kernel has a turn is the state of the next barrier, or the present
  mode if there is none, so kernels between two barriers are of one mode (`OneMode`);
- `LinkInv`: the packets of one turn (ready, block, kernel) follow each other;
- `LineInv`: the signals of a queue say whether it has the turn (`block_signal`) or asks for
  it (`ready_signal`), and the queue whose kernel is launched, or about to be, is
  `_dispatch_queue`. From it follows that the CHECK of `kernel_completion_signal` holds.

`SerializedRunAlone` then takes two steps: a running kernel with a turn has a barrier older
than it lifted and everything older registered, so any other running kernel that is still
to register has the same epoch, the same mode, and hence the turn; and the turn is one
queue's, with one kernel there. `SerializerCheckHolds` and `DestroyedQueuesForgotten` are
read off `LineInv`, `CountInv` and `GoneInv`.

The proof changed the model in two places. `epoch` was added as a history variable. And
`miscounted` is set, too, when the recount meets a queue whose interceptor is between
`async_started` and its last callback: with several contexts the count of such a queue may
match by accident, though one context's completion is not among those to register yet.
`SerializedAlone` speaks of kernels that a context counts. The serializer does not see a
kernel dispatched after the switch of mode and before its queue has the context's callback;
with another service tracing kernels (`TRACED`) the interceptor takes such a kernel up, and
it still gets no packets of the serializer and runs beside a serialized one. On the run's
instance (no tracing) the two readings agree.

Of the properties of the run, `KernelsFinish` (liveness) is only model-checked.

### Left out

Queues created while the program runs; `remove_queue` and the serializer's
`destroy_queue`, which nothing calls; packets other than kernels; several kernels in one
write; several agents, which have a serializer each.

## 7. Correlation ids

### Modules

`CorrelationIds` follows an id from the API call or the kernel that constructs it to its
retirement. Who holds a count: an API call (two, one of them until the function is
invoked), a thread that constructed the id for a kernel or a copy only, a kernel until
its completion handler is done, its PC-sampling marker until its samples must have been
delivered, a copy until its handler is done.

| in the model | in the code |
|---|---|
| `ApiEnter` .. `ApiLeave` | the wrapper of an HSA function (`hsa.cpp`) |
| `TakeId`, `Finish` | the use of the latest id of the thread, or a new one and its scope |
| `KernelBegin` .. `KernelWrite`, `HandleKernel` .. `HandleKernelEnd` | `WriteInterceptor` with the marker of `hsa_adapter.cpp`; `AsyncSignalHandler` |
| `CopyBegin` .. `CopyReturn`, `HandleCopy` .. `HandleCopyEnd` | `async_copy_impl` with `active_signals` (`create`, `fetch_add`); `async_copy_handler` and `fetch_sub` |
| `Move`, `Deliver`, `RetireImplicit`, `FlushTake` .. `FlushEnd` | `PCSCIDManager` and its two callers: `data_ready_callback` and an explicit flush |
| `Sample`, `Flip`, `Watermark`, `Delivered` | the trap handler and the runtime's two buffers (external), as `cid_manager.hpp` describes them |
| `FinalizeBegin` .. `QueuesSynced` | `finalize`: sync and destroy of `active_signals`, `Queue::sync`, the clients' finalizer with both again |

`fetch_add` and `fetch_sub` are two steps each, the count and the signal, with the tests
between them. `late` collects ids that a tool hears of after their retirement; `excused`
the copies that finalization may lose, see below.

### Runs

| run | instance | shows |
|---|---|---|
| `correlation_ids` | four instances, chosen initially: two kernels of a traced call under sampling; one of them and a finalization; copies of two threads and a finalization; a kernel and a copy in nested calls and a finalization | types; counts are the holders; retirement is the last that a tool hears of an id; ids retire; copies complete |

What the excuses stand for was met while modelling and departs from what one would
expect:

- a copy that the runtime refuses returns at once (`async_copy.cpp:690`): its id never
  retires, `active_signals` never comes down, and finalization waits its 30 seconds;
- `destroy` may take the signal away between the two halves of a `fetch_add`, or under a
  copy in flight whose `fetch_sub` then lowers the signal that the next copy created, so
  that the next sync ends early;
- a handler that runs after finalization deletes its data and never completes the
  application's own signal (`async_copy.cpp:331`): that copy's waiter waits for ever;
- `start_ts` is written (`async_copy.cpp:658`) to data that the handler may already have
  deleted.

### Bounds and fairness

Two threads, two ids, two kernels, two copies, calls nested twice; each instance varies
what can interact. Weak fairness of threads inside a call, of kernels, copies and
handlers, of a delivery and a flush under way and of the finalizer. No delivery of
samples is assumed to begin: an id may wait for one.

### Proofs

`CorrelationIdsProofs` proves `RefsAreHolders`, `RefsCountHolders` for any finite set of
threads and any number of ids, kernels, copies and nested calls, from
`CorrelationAssumption` alone. The count of an id is a sum of the sizes of six sets, and a
step that takes or drops a count must change exactly one of them, by one element. For that
the inductive invariant `HolderInv` says who may be what at the same time:

- `CallsInv`: ids are handed out in order, and stacks and calls hold only those handed out;
  so an id that is constructed has no holder yet and a count of zero (`NewIds`);
- `WorkInv`: a kernel or a copy is started by one thread, and is not written or submitted
  before that thread has come so far; so a marker is counted once;
- `UseInv`: at most one completion handler runs, and what it handles is still there and
  nothing else is in that state; so a kernel's and a copy's count is dropped once;
- `SampleInv`: a completed kernel is in at most one of the four places where its samples
  are awaited, each of them empty before it is filled; so a delivery and an explicit flush
  never let go of the same marker.

A lemma per action (`...Invariant`) shows that `HolderInv` is kept, a second one
(`...Counts`) which of the six sets changes and that the count follows; the cardinalities
come from `FiniteSetTheorems` by `OneMore` and `OneLess`. The theorem also rules out
`sub_ref_count`'s fatal underflow, a sum of sizes being a natural number.

`RetirementProofs` builds on it and proves `NothingAfterRetirement`, `RetirementIsLast`.
Every step that reports an id belongs to a holder of it, and a holder means a count. The
strengthening `LastInv` says:

- `RetiredInv`: a retired id has no count, so it has no holder, and no step brings it back;
- `StackInv`: the stack of a thread holds the ids of the calls it is in, or the one id it
  constructed for its work; so `TakeId` never counts a retired id;
- `DeliveryInv`: a sample in the buffer that is being filled, or that is being delivered,
  is of a kernel whose marker still holds its id. Here the two queues of `PCSCIDManager`
  come in: a kernel may have samples in the buffer being filled while it is in `q1`, and
  while it is in `q2` too unless that buffer was just exchanged; it may have some in the
  buffer being delivered while it is in `q1`, `q2` or `cb.q3`. The exchange of buffers and
  the step of the queues, taken one after the other, keep both.

Its second theorem, `TypeCorrect`, proves `TypeOK`. Besides the invariants above it takes
`TypesInv`: `_active_kernels` is the number of kernels between `async_started` and the end
of their handler, so that the decrement never finds zero.

### Left out

HIP, marker, scratch-memory and allocation wrappers, which hold ids as the HSA wrapper
does; annotations; the parser's map from hardware samples to ids. Of the properties of the
run, the two liveness properties are only model-checked.

## 8. Device counting

### Modules

`DeviceCounting` is the device counting service of one context on one agent. Its status
word is a lock: a call enters by a compare-exchange to LOCKED and ends with an exchange
that tests nothing. The completion signal says whose turn a sample is: 1, the next may
start; 0, in progress; -1, complete.

| in the model | in the code |
|---|---|
| `StartBegin` .. `StartPublish`, `StopBegin`, `StopClear` | the API, the search under `contexts_mutex`, the compare-exchange after it; the slot that a stop clears |
| `StartLock` .. `StartEnd` | `start_agent_ctx`, with the profile that the tool chooses: none, constants only, or hardware counters |
| `Register`, `RegisterStart` | `device_counting_service_hsa_registration` |
| `ReadLock` .. `ReadEnd` | `read_agent_ctx`: asynchronous, into the caller's vector, or into the buffer |
| `StopLock` .. `StopEnd` | `stop_agent_ctx` |
| `FinalizeBegin`, `FinalizeService`, the stop that follows | `finalize`, `device_counting_service_finalize`, the client's finalizer |
| `Process` | the packet processor of the profile queue (external): packets in order, a barrier lowers its signal |
| `HandlerDecode` .. `HandlerEnd` | `agent_async_handler`: decode the packet, push the record, reset the signal |

`hsa_inited` and the compare-exchange after it are one step: the flag never goes back, so
a call that saw it set may as well have looked later. `out`, `begun` and `recorded`, and
the three excuses `doubled`, `left` and `overlapped`, are history variables.

### Run

`device_counting`: two threads, four starts or stops and two reads between them, every
profile, the registration and the finalization at any time. It shows that the service
follows its context however a start races the registration; that a sample reaches the
read that asked for it; that EXIT stays, with no packet submitted after it; and that calls
return and samples are recorded. What is excused is real:

- an ASYNC read does not wait for its turn (`device_counting.cpp:348`): begun during another
  sample it stores 0 over the signal, the two barriers may leave it at 0, and every later
  synchronous read and stop, and with them finalization, wait for ever (`doubled`);
- a synchronous read of constants leaves `cached_counters` pointing to its caller's vector
  (329), to which the handler of a later ASYNC read writes (`left`);
- a stop that meets a read, or a start on its way, finds the status taken and returns
  success: the service stays enabled without its context, or the context active without its
  service (`overlapped`).

`stop_agent_ctx` says it waits for the stop packet, but that packet is not given a signal: the
wait is for the last sample, and the device may count a little longer. Finalization takes a
service that is ENABLED to EXIT without a stop packet, though the comment at 552 says
"Stop all contexts".

### Bounds and fairness

Four calls are two starts and two stops, so that a service starts again with another
profile while a read of the other thread is under way. Two reads overlap each other. Weak
fairness of a thread inside its call, of the device and of the handler. The status, for
which finalization spins, and the mutex are free again and again, but calls are bounded, so
in the end they stay free.

### Proofs

`DeviceCountingProofs` proves `CountingExitIsFinal` (`Spec => ExitIsFinal`) for any threads
and any number of calls. The strengthening `LockInv` says that a thread between its
compare-exchange and its exchange is alone there and the status is LOCKED (`Locked`): so
when the exchange overwrites the status, it overwrites LOCKED. `Moves`, `Enters` and
`Leaves` are what a step can do to the lock; the other lemmas sort the actions into these
kinds.

It proves too `ServiceFollowsContext` (`Spec => []ServiceMatchesContext`), from two more
inductive invariants next to `LockInv`. `FollowInv` relates the status to the context while
calls are under way: a stop that holds the mutex has cleared its context; a start on its way
and a service that is on have an active context; an active context next to a disabled
service has a start, or the registration, on its way. All this is said of histories without
an overlapped stop. `CountInv` looks at the packets still queued: what the device will
count once it has processed them (`Counts`, the last start or stop packet, or the present
state if there is none) is what the service wants (`On`, enabled or in the hands of a call
that found it so, and a packet with hardware counters). `AppendSwitch`, `AppendOther` and
`TailCounts` are the lemmas about `Counts`.

`CountingTypes` (`Spec => []TypeOK`) needs more than types, because the packet processor
lowers the signals and nothing in the code bounds them from below. `ReaderInv`: whoever reads
has the last number given out. `StartInv`: there is one start packet at most, and only while
its call waits for it. `BarrierInv`: the barriers are queued in the order of their reads'
numbers, one a read, so that the completion signal less the barriers still to come is at
least minus the reads that are past their own (`Past`). With the types these are `TypeInv`.

`ReadersGetTheirSamples` (`Spec => []SamplesReachReaders`) is proved from `TypeInv` and
`~doubled => ReadInv`; `doubled` never goes back. Without it one sample is in progress at a
time, and `SampleInv` says what that means for the signal: at 0 exactly while the barrier
of the sample is queued, behind its read packet; the handler at rest unless it is at -1; at
1 when a read starts. `DataInv`: what the packet, the device and the handler hold is of the
read that waits. `CachedInv`: `cached_counters` is the vector of that read, or none, or one
that a read left behind; never one of a later number. `RecordInv`: the vector is empty until
the handler has pushed the record, and not after. `OwnInv` is the property for the vectors of
past reads, with the excuse that constants need while their read still waits.
`Submitted`, `Processed` and their like for barriers are the lemmas about the queue; most
actions are shown to leave the samples alone (`NoSampleSteps`, `OwnKept`).

Of the properties of the run, `CallsReturn` (liveness) is only model-checked.

### Left out

Several agents of one context; an agent that is gone or has no profile queue; a sample
without values; the packet that sets up a queue at its first start; configuration.

## 9. Not modelled

The share of the implementation that the map covers is small because most of the library
is wrappers, tables and formatting generated per function of a runtime (`hip/`, `hsa/details`,
`rocdecode/`, `rccl/`, `ompt/`), a parser and scanner (`counters/parser`), file formats
(`lib/output`), command-line tools and headers. `PROJECT.json` names each component with the
reason. Concurrent code that would deserve modules of their own and has none: code objects
(freeze against unload and finalization), thread trace (its count of dispatches in flight),
the temporary-file buffer of the tool, and page migration's thread. Their hazards, where
listed, name no property.

Liveness and everything about ENABLED rest on TLC alone. The three refinements are proved as
well as model-checked, that of `ActiveSet` until two starts overlap (chapter 4).
