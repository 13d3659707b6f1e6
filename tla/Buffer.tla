------------------------------- MODULE Buffer -------------------------------
(***************************************************************************)
(* One buffer::instance (rocprofiler-sdk/buffer.{hpp,cpp}): two            *)
(* record_header_buffers of which one is current, threads that emplace     *)
(* records, threads that flush, the finalization of the library, and the   *)
(* single worker thread of the buffer's task group                         *)
(* (rocprofiler-sdk/internal_threading.cpp) that hands the records to the  *)
(* tool's callback.                                                        *)
(*                                                                         *)
(* A thread's steps are the accesses of buffer::instance::emplace and      *)
(* buffer::flush to shared state, in program order; pc names the step that *)
(* comes next.  A task is the side of the buffer it has to drain, and the  *)
(* worker's steps are those of the lambda _task of buffer::flush.          *)
(***************************************************************************)
EXTENDS RecordHeaderBuffer, FiniteSets

CONSTANTS Producers,     \* threads that call instance::emplace
          Flushers,      \* threads that call rocprofiler_flush_buffer
          Finalizers,    \* the thread, if any, that runs registration::finalize
          NoThread,      \* "nobody holds TaskGroup::m_mutex"
          Lossless,      \* policy = ROCPROFILER_BUFFER_POLICY_LOSSLESS
          Watermark,     \* watermark, in records
          MaxRecords,    \* bound: records a producer emplaces
          MaxFlushes     \* bound: calls of rocprofiler_flush_buffer per flusher

Threads == Producers \cup Flushers \cup Finalizers
Side == {0, 1}
Records == Producers \X (1 .. MaxRecords)

ASSUME BufferAssumption ==
  /\ Lossless \in BOOLEAN
  /\ Watermark \in Nat
  /\ MaxRecords \in Nat
  /\ MaxFlushes \in Nat
  /\ NoThread \notin Threads
  /\ NoRecord \notin Records
  /\ Finalizers \cap (Producers \cup Flushers) = {}
  /\ IsFiniteSet(Threads)

VARIABLES
  buffer_idx,   \* parity of the atomic counter: which side is current
  syncer,       \* the atomic_flag: a flush or a destruction is in progress
  drop_count,
  buffers,      \* the two record_header_buffers
  m_mutex,      \* TaskGroup::m_mutex: its holder or NoThread
  m_tasks,      \* tasks handed to the pool that have not completed
  task_group,   \* FALSE once internal_threading::finalize deleted it
  fini_status,
  pc,           \* next step of each thread
  calls,        \* emplace and flush calls each thread has made
  idx,          \* emplace's idx: the side it works on
  addr,         \* emplace's _addr
  index,        \* emplace's idx into m_headers
  wait,         \* flush's parameter, after the fini_status adjustment
  side,         \* flush's idx: the side it took out of use
  caller,       \* who called flush: the retry loop, the watermark, the tool,
                \* or the tool's finalizer
  worker,       \* next step of the worker
  headers,      \* _task's buff_data
  \* History, read by properties only:
  accepted,     \* records whose emplace returned true
  rejected,     \* records whose emplace threw
  callbacks,    \* calls of the callback so far
  delivered,    \* what they were handed: <<call, header index, record>>
  before,       \* per thread: accepted when its flush was called ...
  owed,         \* ... and what of it was in the side the flush swapped out
  late          \* an emplace was under way in a side when its task looked at it

sharedVars == <<buffer_idx, syncer, drop_count, buffers>>
groupVars == <<m_mutex, m_tasks, task_group, fini_status>>
emplaceVars == <<calls, idx, addr, index>>
flushVars == <<wait, side, caller>>
workerVars == <<worker, headers>>
history == <<accepted, rejected, callbacks, delivered, before, owed, late>>
vars == <<sharedVars, groupVars, pc, emplaceVars, flushVars, workerVars, history>>

Init ==
  /\ buffer_idx = 0 /\ syncer = FALSE /\ drop_count = 0
  /\ buffers = [s \in Side |-> IF s = 0 \/ Lossless THEN Allocate(Unallocated)
                                                    ELSE Unallocated]
  /\ m_mutex = NoThread /\ m_tasks = << >> /\ task_group = TRUE /\ fini_status = 0
  /\ pc = [t \in Threads |-> "idle"]
  /\ calls = [t \in Threads |-> 0]
  /\ idx = [t \in Threads |-> 0]
  /\ addr = [t \in Threads |-> NoAddr]
  /\ index = [t \in Threads |-> 0]
  /\ wait = [t \in Threads |-> FALSE]
  /\ side = [t \in Threads |-> 0]
  /\ caller = [t \in Threads |-> "tool"]
  /\ worker = "idle" /\ headers = {}
  /\ accepted = {} /\ rejected = {} /\ callbacks = 0 /\ delivered = {}
  /\ before = [t \in Threads |-> {}] /\ owed = [t \in Threads |-> {}]
  /\ late = FALSE

Goto(t, from, to) == pc[t] = from /\ pc' = [pc EXCEPT ![t] = to]

\* t has chosen a side and may still write to it.
InFlight(t) == pc[t] \in {"announce", "reserve", "index", "place", "withdraw"}

\* The record of t's current call of emplace.
Value(t) == <<t, calls[t]>>

(***************************************************************************)
(* instance::emplace                                                       *)
(***************************************************************************)
\* idx = get_idx(): the side that is current now.
EmplaceCall(t) ==
  /\ calls[t] < MaxRecords
  /\ Goto(t, "idle", "announce")
  /\ calls' = [calls EXCEPT ![t] = @ + 1]
  /\ idx' = [idx EXCEPT ![t] = buffer_idx]
  /\ UNCHANGED <<sharedVars, groupVars, addr, index, flushVars, workerVars, history>>

\* "if(m_headers.empty()) return false", else ++m_requested.
AnnounceRequest(t) ==
  /\ pc[t] = "announce"
  /\ IF buffers[idx[t]].allocated
       THEN /\ buffers' = [buffers EXCEPT ![idx[t]] = Announce(@)]
            /\ pc' = [pc EXCEPT ![t] = "reserve"]
            /\ UNCHANGED addr
       ELSE /\ addr' = [addr EXCEPT ![t] = NoAddr]
            /\ pc' = [pc EXCEPT ![t] = "failed"]
            /\ UNCHANGED buffers
  /\ UNCHANGED <<buffer_idx, syncer, drop_count, groupVars, calls, idx, index,
                 flushVars, workerVars, history>>

\* The ring buffer's space is requested under the exclusive lock.
ReserveSpace(t) ==
  LET b == buffers[idx[t]] IN
  /\ Goto(t, "reserve", "index")
  /\ NobodyShares(b)
  /\ IF HasRoom(b)
       THEN /\ addr' = [addr EXCEPT ![t] = count(b)]
            /\ buffers' = [buffers EXCEPT ![idx[t]] = Reserve(@)]
       ELSE /\ addr' = [addr EXCEPT ![t] = NoAddr]
            /\ UNCHANGED buffers
  /\ UNCHANGED <<buffer_idx, syncer, drop_count, groupVars, calls, idx, index,
                 flushVars, workerVars, history>>

\* The shared lock is taken and, with an address, an index into m_headers.
TakeHeader(t) ==
  /\ pc[t] = "index"
  /\ IF addr[t] = NoAddr
       THEN /\ pc' = [pc EXCEPT ![t] = "withdraw"]
            /\ UNCHANGED <<buffers, index>>
       ELSE /\ pc' = [pc EXCEPT ![t] = "place"]
            /\ index' = [index EXCEPT ![t] = Len(buffers[idx[t]].m_headers) + 1]
            /\ buffers' = [buffers EXCEPT ![idx[t]] = TakeIndex(@)]
  /\ UNCHANGED <<buffer_idx, syncer, drop_count, groupVars, calls, idx, addr,
                 flushVars, workerVars, history>>

\* The payload and the header are written, the shared lock released.
PlaceRecord(t) ==
  /\ Goto(t, "place", "withdraw")
  /\ buffers' = [buffers EXCEPT ![idx[t]] = Place(@, index[t], addr[t], Value(t))]
  /\ UNCHANGED <<buffer_idx, syncer, drop_count, groupVars, emplaceVars,
                 flushVars, workerVars, history>>

\* Mutant: the request is withdrawn only when it was granted.
WithdrawGranted(t) ==
  /\ Goto(t, "withdraw", IF addr[t] = NoAddr THEN "failed" ELSE "watermark")
  /\ buffers' = [buffers EXCEPT ![idx[t]] = IF addr[t] = NoAddr THEN @ ELSE Withdraw(@)]
  /\ UNCHANGED <<buffer_idx, syncer, drop_count, groupVars, emplaceVars,
                 flushVars, workerVars, history>>

\* --m_requested, and record_header_buffer::emplace returns addr # nullptr.
WithdrawRequest(t) ==
  /\ Goto(t, "withdraw", IF addr[t] = NoAddr THEN "failed" ELSE "watermark")
  /\ buffers' = [buffers EXCEPT ![idx[t]] = Withdraw(@)]
  /\ UNCHANGED <<buffer_idx, syncer, drop_count, groupVars, emplaceVars,
                 flushVars, workerVars, history>>

\* capacity() < sizeof(value): every record fits in an allocated buffer, so
\* this is "the side was never allocated".
EmplaceThrows(t) ==
  /\ Goto(t, "failed", "idle")
  /\ ~buffers[idx[t]].allocated
  /\ rejected' = rejected \cup {Value(t)}
  /\ UNCHANGED <<sharedVars, groupVars, emplaceVars, flushVars, workerVars,
                 accepted, callbacks, delivered, before, owed, late>>

\* The LOSSLESS loop: flush(buffer_id, true), then try the current side.
EmplaceBlocks(t) ==
  /\ Goto(t, "failed", "flush")
  /\ buffers[idx[t]].allocated /\ Lossless
  /\ wait' = [wait EXCEPT ![t] = TRUE]
  /\ caller' = [caller EXCEPT ![t] = "retry"]
  /\ UNCHANGED <<sharedVars, groupVars, emplaceVars, side, workerVars, history>>

EmplaceRetries(t) ==
  /\ Goto(t, "retry", "announce")
  /\ idx' = [idx EXCEPT ![t] = buffer_idx]
  /\ UNCHANGED <<sharedVars, groupVars, calls, addr, index, flushVars,
                 workerVars, history>>

\* Mutant: the drop is not counted.
DropUncounted(t) ==
  /\ Goto(t, "failed", "watermark")
  /\ buffers[idx[t]].allocated /\ ~Lossless
  /\ UNCHANGED <<sharedVars, groupVars, emplaceVars, flushVars, workerVars, history>>

EmplaceDrops(t) ==
  /\ Goto(t, "failed", "watermark")
  /\ buffers[idx[t]].allocated /\ ~Lossless
  /\ drop_count' = drop_count + 1
  /\ UNCHANGED <<buffer_idx, syncer, buffers, groupVars, emplaceVars, flushVars,
                 workerVars, history>>

\* "flush without syncing" when the side that was used is at the watermark.
CheckWatermark(t) ==
  /\ pc[t] = "watermark"
  /\ IF count(buffers[idx[t]]) >= Watermark
       THEN /\ pc' = [pc EXCEPT ![t] = "flush"]
            /\ wait' = [wait EXCEPT ![t] = FALSE]
            /\ caller' = [caller EXCEPT ![t] = "watermark"]
       ELSE /\ pc' = [pc EXCEPT ![t] = "return"]
            /\ UNCHANGED <<wait, caller>>
  /\ UNCHANGED <<sharedVars, groupVars, emplaceVars, side, workerVars, history>>

EmplaceReturns(t) ==
  /\ Goto(t, "return", "idle")
  /\ accepted' = IF addr[t] = NoAddr THEN accepted ELSE accepted \cup {Value(t)}
  /\ UNCHANGED <<sharedVars, groupVars, emplaceVars, flushVars, workerVars,
                 rejected, callbacks, delivered, before, owed, late>>

(***************************************************************************)
(* buffer::flush                                                           *)
(***************************************************************************)
\* rocprofiler_flush_buffer; PC sampling, which may emplace first, is left
\* out: its emplaces are those of a producer.
FlushCall(t) ==
  /\ calls[t] < MaxFlushes
  /\ Goto(t, "idle", "flush")
  /\ calls' = [calls EXCEPT ![t] = @ + 1]
  /\ wait' = [wait EXCEPT ![t] = TRUE]
  /\ caller' = [caller EXCEPT ![t] = "tool"]
  /\ before' = [before EXCEPT ![t] = accepted]
  /\ UNCHANGED <<sharedVars, groupVars, idx, addr, index, side, workerVars,
                 accepted, rejected, callbacks, delivered, owed, late>>

\* Where flush's caller goes on.
Resume(t) == CASE caller[t] = "retry" -> "retry"
               [] caller[t] = "watermark" -> "return"
               [] caller[t] = "tool" -> "idle"
               [] caller[t] = "finalizer" -> "quit"

\* fini_status > 0: ERROR_FINALIZED.  fini_status < 0: wait.  Then the task
\* group is looked up, and the process aborts when it is gone.
FlushBegin(t) ==
  /\ pc[t] = "flush"
  /\ LET waits == wait[t] \/ fini_status < 0 IN
     /\ pc' = [pc EXCEPT ![t] = CASE fini_status > 0 -> Resume(t)
                                  [] fini_status <= 0 /\ ~task_group -> "aborted"
                                  [] OTHER -> IF waits THEN "drain" ELSE "sync"]
     /\ wait' = [wait EXCEPT ![t] = fini_status <= 0 /\ waits]
  /\ UNCHANGED <<sharedVars, groupVars, emplaceVars, side, caller, workerVars, history>>

\* TaskGroup::wait holds m_mutex until every task handed to the pool is done.
\* flush calls it before ("drain") and, through join, after ("join") its task;
\* internal_threading::finalize calls it too ("quit").
LockGroup(t) ==
  /\ \/ Goto(t, "drain", "draining")
     \/ Goto(t, "join", "joining")
     \/ Goto(t, "quit", "quitting")
  /\ task_group /\ m_mutex = NoThread
  /\ m_mutex' = t
  /\ UNCHANGED <<sharedVars, m_tasks, task_group, fini_status, emplaceVars,
                 flushVars, workerVars, history>>

TasksDone(t) ==
  /\ \/ Goto(t, "draining", "sync")
     \/ Goto(t, "joining", Resume(t))
     \/ Goto(t, "quitting", "delete")
  /\ m_tasks = << >>
  /\ m_mutex' = NoThread
  /\ UNCHANGED <<sharedVars, m_tasks, task_group, fini_status, emplaceVars,
                 flushVars, workerVars, history>>

\* syncer.test_and_set() finds it set: BUSY, or a spin until it is clear.
FlushBusy(t) ==
  /\ Goto(t, "sync", Resume(t))
  /\ syncer /\ ~wait[t]
  /\ UNCHANGED <<sharedVars, groupVars, emplaceVars, flushVars, workerVars, history>>

FlushSpins(t) ==
  /\ pc[t] = "sync" /\ syncer /\ wait[t]
  /\ UNCHANGED vars

\* Mutant: the flag is set without looking at what it was.
ClaimBlindly(t) ==
  /\ Goto(t, "sync", "swap")
  /\ syncer' = TRUE
  /\ UNCHANGED <<buffer_idx, drop_count, buffers, groupVars, emplaceVars,
                 flushVars, workerVars, history>>

FlushClaim(t) ==
  /\ Goto(t, "sync", "swap")
  /\ ~syncer
  /\ syncer' = TRUE
  /\ UNCHANGED <<buffer_idx, drop_count, buffers, groupVars, emplaceVars,
                 flushVars, workerVars, history>>

\* Mutant: the load without the increment.
SwapForgotten(t) ==
  /\ Goto(t, "swap", "exec")
  /\ side' = [side EXCEPT ![t] = buffer_idx]
  /\ owed' = [owed EXCEPT ![t] = accepted \cap Held(buffers[buffer_idx])]
  /\ UNCHANGED <<sharedVars, groupVars, emplaceVars, wait, caller,
                 workerVars, accepted, rejected, callbacks, delivered, before, late>>

\* idx = buff->buffer_idx++: emplace goes to the other side from here on.
SwapSides(t) ==
  /\ Goto(t, "swap", "exec")
  /\ side' = [side EXCEPT ![t] = buffer_idx]
  /\ buffer_idx' = 1 - buffer_idx
  /\ owed' = [owed EXCEPT ![t] = accepted \cap Held(buffers[buffer_idx])]
  /\ UNCHANGED <<syncer, drop_count, buffers, groupVars, emplaceVars, wait, caller,
                 workerVars, accepted, rejected, callbacks, delivered, before, late>>

\* task_group->exec(_task), which takes m_mutex for the duration of the call.
ExecTask(t) ==
  /\ Goto(t, "exec", IF wait[t] THEN "join" ELSE Resume(t))
  /\ task_group /\ m_mutex = NoThread
  /\ m_tasks' = Append(m_tasks, side[t])
  /\ UNCHANGED <<sharedVars, m_mutex, task_group, fini_status, emplaceVars,
                 flushVars, workerVars, history>>

\* The pointer to the task group outlives the task group: undefined behaviour,
\* taken as the end of the process.
UseDeletedGroup(t) ==
  /\ pc[t] \in {"drain", "draining", "exec", "join", "joining"}
  /\ ~task_group
  /\ pc' = [pc EXCEPT ![t] = "aborted"]
  /\ UNCHANGED <<sharedVars, groupVars, emplaceVars, flushVars, workerVars, history>>

(***************************************************************************)
(* The lambda _task of buffer::flush, run by the pool's only thread        *)
(***************************************************************************)
Draining == buffers[Head(m_tasks)]

LateEmplace == \E t \in Threads : InFlight(t) /\ idx[t] = Head(m_tasks)

WorkerUnchanged == UNCHANGED <<buffer_idx, drop_count, m_mutex, task_group,
                               fini_status, pc, emplaceVars, flushVars,
                               accepted, rejected, before, owed>>

WorkerGoto(from, to) == worker = from /\ worker' = to

TaskBegin ==
  /\ WorkerGoto("idle", "empty")
  /\ task_group /\ m_tasks # << >>
  /\ UNCHANGED <<syncer, buffers, m_tasks, headers, callbacks, delivered, late>> /\ WorkerUnchanged

\* is_empty(), first operand: m_buffer.is_empty(), then m_requested = 0 ...
CheckCount ==
  /\ WorkerGoto("empty", IF ~Draining.allocated THEN "release"
                         ELSE IF count(Draining) = 0 THEN "requested" ELSE "collect")
  /\ late' = (late \/ (count(Draining) = 0 /\ LateEmplace))
  /\ UNCHANGED <<syncer, buffers, m_tasks, headers, callbacks, delivered>> /\ WorkerUnchanged

\* Mutant: a task that finds nothing to drain returns without clearing syncer.
EmptyTaskKeepsSyncer ==
  /\ WorkerGoto("requested", IF Draining.m_requested = 0 THEN "done" ELSE "collect")
  /\ UNCHANGED <<syncer, buffers, m_tasks, headers, callbacks, delivered, late>> /\ WorkerUnchanged

\* ... two reads, between which an emplace may run from start to end.
CheckRequested ==
  /\ WorkerGoto("requested", IF Draining.m_requested = 0 THEN "release" ELSE "collect")
  /\ UNCHANGED <<syncer, buffers, m_tasks, headers, callbacks, delivered, late>> /\ WorkerUnchanged

\* get_record_headers(), under the exclusive lock, which is released again.
CollectHeaders ==
  /\ WorkerGoto("collect", "callback")
  /\ NobodyShares(Draining)
  /\ headers' = RecordHeaders(Draining)
  /\ late' = (late \/ LateEmplace)
  /\ UNCHANGED <<syncer, buffers, m_tasks, callbacks, delivered>> /\ WorkerUnchanged

\* The tool reads every record through its header.  An exception of the tool
\* is caught and changes nothing that follows.
InvokeCallback ==
  /\ WorkerGoto("callback", "clear")
  /\ callbacks' = callbacks + 1
  /\ delivered' = delivered \cup {<<callbacks', i, Payload(Draining, i)>> : i \in headers}
  /\ headers' = {}
  /\ UNCHANGED <<syncer, buffers, m_tasks, late>> /\ WorkerUnchanged

\* clear(), under the exclusive lock, taken anew.
ClearBuffer ==
  /\ WorkerGoto("clear", "release")
  /\ NobodyShares(Draining)
  /\ buffers' = [buffers EXCEPT ![Head(m_tasks)] = Clear(@)]
  /\ UNCHANGED <<syncer, m_tasks, headers, callbacks, delivered, late>> /\ WorkerUnchanged

ReleaseSyncer ==
  /\ WorkerGoto("release", "done")
  /\ syncer' = FALSE
  /\ UNCHANGED <<buffers, m_tasks, headers, callbacks, delivered, late>> /\ WorkerUnchanged

\* The packaged task's future is ready.
TaskEnd ==
  /\ WorkerGoto("done", "idle")
  /\ m_tasks' = Tail(m_tasks)
  /\ UNCHANGED <<syncer, buffers, headers, callbacks, delivered, late>> /\ WorkerUnchanged

(***************************************************************************)
(* registration::finalize, as far as the buffer sees it                    *)
(***************************************************************************)
\* Mutant: the library counts as finalized before its clients are.
FinalizeEarly(t) ==
  /\ Goto(t, "idle", "flush")
  /\ fini_status = 0
  /\ fini_status' = 1
  /\ wait' = [wait EXCEPT ![t] = TRUE]
  /\ caller' = [caller EXCEPT ![t] = "finalizer"]
  /\ before' = [before EXCEPT ![t] = accepted]
  /\ UNCHANGED <<sharedVars, m_mutex, m_tasks, task_group, emplaceVars, side,
                 workerVars, accepted, rejected, callbacks, delivered, owed, late>>

\* set_fini_status(-1), then the client's finalizer, which flushes.
FinalizeBegin(t) ==
  /\ Goto(t, "idle", "flush")
  /\ fini_status = 0
  /\ fini_status' = -1
  /\ wait' = [wait EXCEPT ![t] = TRUE]
  /\ caller' = [caller EXCEPT ![t] = "finalizer"]
  /\ before' = [before EXCEPT ![t] = accepted]
  /\ UNCHANGED <<sharedVars, m_mutex, m_tasks, task_group, emplaceVars, side,
                 workerVars, accepted, rejected, callbacks, delivered, owed, late>>

\* internal_threading::finalize: "delete itr", which joins the pool's thread,
\* and the list of groups is gone.  A task queued since the join is discarded
\* if the worker has not begun it.
DeleteGroup(t) ==
  /\ Goto(t, "delete", "finish")
  /\ worker = "idle"
  /\ task_group' = FALSE
  /\ UNCHANGED <<sharedVars, m_mutex, m_tasks, fini_status, emplaceVars, flushVars,
                 workerVars, history>>

FinalizeEnd(t) ==
  /\ Goto(t, "finish", "finalized")
  /\ fini_status' = 1
  /\ UNCHANGED <<sharedVars, m_mutex, m_tasks, task_group, emplaceVars, flushVars,
                 workerVars, history>>

-----------------------------------------------------------------------------
Emplace(t) ==
  \/ EmplaceCall(t) \/ AnnounceRequest(t) \/ ReserveSpace(t) \/ TakeHeader(t)
  \/ PlaceRecord(t) \/ WithdrawRequest(t) \/ EmplaceThrows(t) \/ EmplaceBlocks(t)
  \/ EmplaceRetries(t) \/ EmplaceDrops(t) \/ CheckWatermark(t) \/ EmplaceReturns(t)

Flush(t) ==
  \/ FlushBegin(t) \/ LockGroup(t) \/ TasksDone(t) \/ FlushBusy(t) \/ FlushSpins(t)
  \/ FlushClaim(t)
  \/ SwapSides(t) \/ ExecTask(t) \/ UseDeletedGroup(t)

Worker ==
  \/ TaskBegin \/ CheckCount \/ CheckRequested \/ CollectHeaders \/ InvokeCallback
  \/ ClearBuffer \/ ReleaseSyncer \/ TaskEnd

Finalize(t) == FinalizeBegin(t) \/ DeleteGroup(t) \/ FinalizeEnd(t)

\* Every thread has made the calls it makes.
Finished ==
  /\ \A t \in Threads : pc[t] \in {"idle", "aborted", "finalized"}
  /\ UNCHANGED vars

Next ==
  \/ \E t \in Producers : Emplace(t)
  \/ \E t \in Flushers : FlushCall(t)
  \/ \E t \in Threads : Flush(t)
  \/ \E t \in Finalizers : Finalize(t)
  \/ Worker
  \/ Finished

Spec == Init /\ [][Next]_vars

\* Each thread and the worker keep running; no thread has to start a call.
Progress(t) == pc[t] # "idle" /\ (Emplace(t) \/ Flush(t))
FairSpec ==
  /\ Spec
  /\ \A t \in Threads : WF_vars(Progress(t))
  /\ WF_vars(Worker)

-----------------------------------------------------------------------------
Steps == {"idle", "announce", "reserve", "index", "place", "withdraw", "failed",
          "retry", "watermark", "return", "flush", "drain", "draining", "sync",
          "swap", "exec", "join", "joining", "quit", "quitting", "delete",
          "finish", "finalized", "aborted"}

WorkerSteps == {"idle", "empty", "requested", "collect", "callback", "clear",
                "release", "done"}

\* Every variable has its type.
TypeOK ==
  /\ buffer_idx \in Side /\ syncer \in BOOLEAN /\ drop_count \in Nat
  /\ buffers \in [Side -> Buffers(Records)]
  /\ m_mutex \in Threads \cup {NoThread}
  /\ m_tasks \in Seq(Side)
  /\ task_group \in BOOLEAN /\ fini_status \in {-1, 0, 1}
  /\ pc \in [Threads -> Steps]
  /\ calls \in [Threads -> Nat]
  /\ idx \in [Threads -> Side]
  /\ addr \in [Threads -> Addr \cup {NoAddr}]
  /\ index \in [Threads -> Nat]
  /\ wait \in [Threads -> BOOLEAN]
  /\ side \in [Threads -> Side]
  /\ caller \in [Threads -> {"retry", "watermark", "tool", "finalizer"}]
  /\ worker \in WorkerSteps
  /\ headers \subseteq Nat
  /\ accepted \subseteq Records /\ rejected \subseteq Records
  /\ callbacks \in Nat
  /\ delivered \subseteq Nat \X Nat \X (Records \cup {NoRecord})
  /\ before \in [Threads -> SUBSET Records] /\ owed \in [Threads -> SUBSET Records]
  /\ late \in BOOLEAN

\* The threads between their test_and_set of syncer and their task's start.
Claimants == {t \in Threads : pc[t] \in {"swap", "exec"}}

\* The tasks that have not yet cleared syncer.
LiveTasks == IF worker = "done" THEN Tail(m_tasks) ELSE m_tasks

\* One flush at a time: syncer is set exactly while one thread is between its
\* test_and_set and its exec, or one task is queued or running, and what is
\* being drained is never the side that emplace uses.
FlushExclusive ==
  /\ \A t, u \in Claimants : t = u
  /\ Len(LiveTasks) <= (IF Claimants = {} THEN 1 ELSE 0)
  /\ Claimants # {} \/ LiveTasks # << >> => syncer
  /\ task_group /\ syncer => Claimants # {} \/ LiveTasks # << >>
  /\ \A i \in DOMAIN LiveTasks : LiveTasks[i] # buffer_idx

Delivered == {d[3] : d \in delivered}

\* A record whose emplace returned true has reached the callback or is still
\* in a side, behind a header: LOSSLESS holds of accepted records.
NothingLost == accepted \subseteq Delivered \cup Held(buffers[0]) \cup Held(buffers[1])

\* No record reaches the callback twice.
NoDuplicates == \A d, e \in delivered : d[3] = e[3] => d = e

\* The records of one producer reach the callback in the order it emplaced them.
InOrder ==
  \A d, e \in delivered :
    (d[1] < e[1] \/ (d[1] = e[1] /\ d[2] < e[2])) /\ d[3][1] = e[3][1]
      => d[3][2] < e[3][2]

\* While the callback reads through its headers, nobody is writing at an
\* address that one of them points at.
CallbackReadsStable ==
  worker = "callback" =>
    \A t \in Threads, i \in headers :
       pc[t] = "place" /\ idx[t] = Head(m_tasks) => addr[t] # Draining.m_headers[i]

\* When a flush that waits has seen its task end, every record that was
\* accepted and in the side it swapped out has reached the callback.
FlushDelivers ==
  \A t \in Threads : pc[t] = "joining" /\ m_tasks = << >> => owed[t] \subseteq Delivered

\* m_requested of a side counts the emplaces between their announcement and
\* their withdrawal: is_empty() relies on it.
RequestsCounted ==
  \A s \in Side :
    buffers[s].m_requested =
      Cardinality({t \in Threads : /\ pc[t] \in {"reserve", "index", "place", "withdraw"}
                                   /\ idx[t] = s})

\* What goes wrong with records goes wrong in one way only: an emplace that
\* chose a side before a flush swapped it out, and still writes to it when its
\* task reads its count as zero, or collects its headers.  As long as that has
\* not happened nothing is lost, repeated, reordered, torn or left behind by a
\* flush.
OnlyLateEmplacesHarm ==
  ~late => /\ NothingLost /\ NoDuplicates /\ InOrder
           /\ CallbackReadsStable /\ FlushDelivers

\* Finalization waits for the records accepted before it began.
FinalizeDrains ==
  fini_status = 1 /\ ~late => \A t \in Finalizers : before[t] \subseteq Delivered

\* At rest every record was accepted, dropped and counted, or rejected.
EveryRecordAccounted ==
  (\A t \in Producers : pc[t] = "idle") =>
    drop_count + Cardinality(accepted) + Cardinality(rejected)
      = Cardinality({r \in Records : r[2] <= calls[r[1]]})

\* Buffer implements the abstract cycle of flushes: the side drained is the one
\* of the task that is queued or running, or of the thread about to queue it.
Cycle == INSTANCE FlushCycle WITH
  current <- buffer_idx,
  drained <- CASE LiveTasks # << >> -> Head(LiveTasks)
               [] \E t \in Threads : pc[t] = "exec" ->
                  side[CHOOSE t \in Threads : pc[t] = "exec"]
               [] OTHER -> 1 - buffer_idx,
  phase <- IF ~syncer THEN "rest"
           ELSE IF \E t \in Threads : pc[t] = "swap" THEN "claimed" ELSE "draining"

ImplementsFlushCycle == Cycle!CycleSpec

\* An emplace or a flush that began returns (or throws).
CallsReturn == \A t \in Threads : pc[t] # "idle" ~> pc[t] = "idle"

\* What is queued for the worker is drained, and syncer does not stay set.
FlushEnds == syncer ~> ~syncer
=============================================================================
