------------------------------ MODULE Contexts ------------------------------
(***************************************************************************)
(* The registry of contexts (rocprofiler-sdk/context/context.cpp and       *)
(* rocprofiler-sdk/context.cpp): the array of active contexts, the count   *)
(* of active contexts beside it, threads that start, stop and look up      *)
(* contexts, and the finalization of the client that owns them.            *)
(*                                                                         *)
(* Contexts are created before the library is initialized, by one thread:  *)
(* here they all exist.  Of the services a context may have, the dispatch  *)
(* counting one is modelled as a flag: it is the only one that conflicts   *)
(* with another context's.                                                 *)
(*                                                                         *)
(* active_contexts is an array of atomics and num_active an atomic; a step *)
(* accesses one of them, except that a search done with contexts_mutex     *)
(* held is one step: only a compare-exchange from nullptr can meet it.     *)
(***************************************************************************)
EXTENDS Integers, Sequences, FiniteSets

CONSTANTS ContextIds,    \* registered contexts, all of one client
          Counting,      \* those with the dispatch counting service
          Callers,       \* threads that start and stop contexts
          Readers,       \* threads that iterate the active contexts
          Finalizers,    \* the thread, if any, that runs registration::finalize
          NoContext,     \* nullptr
          NoThread,      \* "nobody holds contexts_mutex"
          MaxCalls       \* bound: calls each caller and reader makes

Threads == Callers \cup Readers \cup Finalizers

ASSUME ContextsAssumption ==
  /\ Counting \subseteq ContextIds
  /\ NoContext \notin ContextIds
  /\ NoThread \notin Threads
  /\ IsFiniteSet(Threads)
  /\ MaxCalls \in Nat

VARIABLES
  active,         \* active_contexts: a sequence of atomic pointers
  num_active,
  contexts_mutex, \* its holder or NoThread
  enabled,        \* counting contexts whose service is on
  fini_status,
  pc,             \* next step of each thread
  calls,
  op,             \* what the thread's call does: "start", "stop" or "read"
  ctx,            \* the context it is about
  num_ctx,        \* get_active_contexts: the count it read ...
  last,           \* ... where its iteration ends ...
  slot,           \* ... where it stands; start_context: the slot it found
  data,           \* ... and what it found so far
  to_stop,        \* contexts that finalize has yet to stop
  result,         \* what each thread's last call returned
  \* History, read by properties only:
  throughout,     \* contexts in the array since the thread began to read
  flickered,      \* the count changed and changed back while the thread read
  overlap         \* what has overlapped a start: another, a stop of its context, finalize

arrayVars == <<active, num_active, contexts_mutex, enabled, fini_status>>
readVars == <<num_ctx, last, slot, data>>
callVars == <<calls, op, ctx, to_stop>>
vars == <<arrayVars, pc, callVars, readVars, result, throughout, flickered, overlap>>

Slots == DOMAIN active
Occupied == {i \in Slots : active[i] # NoContext}
Active == {active[i] : i \in Occupied}
IsFirst(i, S) == i \in S /\ \A j \in S : i <= j

Init ==
  /\ active = << >> /\ num_active = 0 /\ contexts_mutex = NoThread
  /\ enabled = {} /\ fini_status = 0
  /\ pc = [t \in Threads |-> "idle"]
  /\ calls = [t \in Threads |-> 0]
  /\ op = [t \in Threads |-> "none"]
  /\ ctx = [t \in Threads |-> NoContext]
  /\ num_ctx = [t \in Threads |-> 0]
  /\ last = [t \in Threads |-> 0]
  /\ slot = [t \in Threads |-> 0]
  /\ data = [t \in Threads |-> << >>]
  /\ to_stop = ContextIds
  /\ result = [t \in Threads |-> "none"]
  /\ throughout = [t \in Threads |-> {}]
  /\ flickered = [t \in Threads |-> FALSE]
  /\ overlap = {}

Goto(t, from, to) == pc[t] = from /\ pc' = [pc EXCEPT ![t] = to]

Return(t, from, status) ==
  /\ Goto(t, from, "idle")
  /\ result' = [result EXCEPT ![t] = status]

\* A step that changes the array or the count, as readers may notice it.
Reading(t) == pc[t] \in {"begin", "visit", "recheck"}

NoteChange ==
  /\ throughout' = [t \in Threads |-> throughout[t] \cap Active']
  /\ flickered' = [t \in Threads |->
       flickered[t] \/ (Reading(t) /\ num_active' # num_active /\ num_active' = num_ctx[t])]

(***************************************************************************)
(* get_active_contexts, called by start_context, by                        *)
(* rocprofiler_context_is_active and by every tracing wrapper              *)
(***************************************************************************)
ReadCall(t) ==
  /\ calls[t] < MaxCalls
  /\ Goto(t, "idle", "count")
  /\ calls' = [calls EXCEPT ![t] = @ + 1]
  /\ op' = [op EXCEPT ![t] = "read"]
  /\ UNCHANGED <<arrayVars, ctx, to_stop, readVars, result, throughout, flickered, overlap>>

ReadCount(t) ==
  /\ Goto(t, "count", IF num_active <= 0 THEN "found" ELSE "begin")
  /\ data' = [data EXCEPT ![t] = << >>]
  /\ num_ctx' = [num_ctx EXCEPT ![t] = num_active]
  /\ throughout' = [throughout EXCEPT ![t] = Active]
  /\ flickered' = [flickered EXCEPT ![t] = FALSE]
  /\ UNCHANGED <<arrayVars, callVars, last, slot, result, overlap>>

\* The range-for evaluates end() once.
BeginScan(t) ==
  /\ Goto(t, "begin", "visit")
  /\ last' = [last EXCEPT ![t] = Len(active)]
  /\ slot' = [slot EXCEPT ![t] = 1]
  /\ UNCHANGED <<arrayVars, callVars, num_ctx, data, result, throughout, flickered, overlap>>

VisitSlot(t) ==
  /\ pc[t] = "visit" /\ slot[t] <= last[t]
  /\ slot' = [slot EXCEPT ![t] = @ + 1]
  /\ data' = [data EXCEPT ![t] = IF active[slot[t]] = NoContext THEN @
                                 ELSE Append(@, active[slot[t]])]
  /\ pc' = [pc EXCEPT ![t] = IF Len(data'[t]) = num_ctx[t] THEN "recheck" ELSE "visit"]
  /\ UNCHANGED <<arrayVars, callVars, num_ctx, last, result, throughout, flickered, overlap>>

EndScan(t) ==
  /\ Goto(t, "visit", "found")
  /\ slot[t] > last[t]
  /\ UNCHANGED <<arrayVars, callVars, readVars, result, throughout, flickered, overlap>>

\* Mutant: the count is not read again.
RecheckNot(t) ==
  /\ Goto(t, "recheck", "found")
  /\ UNCHANGED <<arrayVars, callVars, readVars, result, throughout, flickered, overlap>>

\* "if the number of active contexts changed, restart"
Recheck(t) ==
  /\ Goto(t, "recheck", IF num_active = num_ctx[t] THEN "found" ELSE "count")
  /\ UNCHANGED <<arrayVars, callVars, readVars, result, throughout, flickered, overlap>>

ReadReturns(t) ==
  /\ op[t] = "read"
  /\ Return(t, "found", "success")
  /\ UNCHANGED <<arrayVars, callVars, readVars, throughout, flickered, overlap>>

(***************************************************************************)
(* start_context                                                           *)
(***************************************************************************)
InCall(t, kind) == pc[t] # "idle" /\ op[t] = kind

\* A start of c is disturbed by any other start, and by a stop of c.
Disturbs(u, kind, c) == InCall(u, kind) /\ (kind = "stop" => ctx[u] = c)

\* rocprofiler_start_context, refused once finalization has begun.
StartCall(t, c) ==
  /\ calls[t] < MaxCalls
  /\ fini_status = 0
  /\ Goto(t, "idle", "count")
  /\ calls' = [calls EXCEPT ![t] = @ + 1]
  /\ op' = [op EXCEPT ![t] = "start"]
  /\ ctx' = [ctx EXCEPT ![t] = c]
  /\ overlap' = overlap \cup {k \in {"start", "stop"} : \E u \in Threads : Disturbs(u, k, c)}
  /\ UNCHANGED <<arrayVars, to_stop, readVars, result, throughout, flickered>>

Conflict(c, d) == c # d /\ {c, d} \subseteq Counting

\* What the contexts found say of starting c: the first that matters decides.
Matters(t) == {i \in DOMAIN data[t] : data[t][i] = ctx[t] \/ Conflict(ctx[t], data[t][i])}

AlreadyActive(t) ==
  /\ op[t] = "start"
  /\ \E i \in Matters(t) : IsFirst(i, Matters(t)) /\ data[t][i] = ctx[t]
  /\ Return(t, "found", "success")
  /\ UNCHANGED <<arrayVars, callVars, readVars, throughout, flickered, overlap>>

RefuseConflict(t) ==
  /\ op[t] = "start"
  /\ \E i \in Matters(t) : IsFirst(i, Matters(t)) /\ data[t][i] # ctx[t]
  /\ Return(t, "found", "conflict")
  /\ UNCHANGED <<arrayVars, callVars, readVars, throughout, flickered, overlap>>

\* Mutant: conflicts are not looked for.
NoneActiveBlindly(t) ==
  /\ op[t] = "start"
  /\ ~\E i \in DOMAIN data[t] : data[t][i] = ctx[t]
  /\ Goto(t, "found", "claim")
  /\ UNCHANGED <<arrayVars, callVars, readVars, result, throughout, flickered, overlap>>

NoneActive(t) ==
  /\ op[t] = "start"
  /\ Matters(t) = {}
  /\ Goto(t, "found", "claim")
  /\ UNCHANGED <<arrayVars, callVars, readVars, result, throughout, flickered, overlap>>

\* The slots that the search under the lock loads: up to the first empty one.
Searched == {i \in Slots : \A j \in Slots : j < i => active[j] # NoContext}

FoundWhileSearching(t) ==
  /\ contexts_mutex = NoThread
  /\ \E i \in Searched : active[i] = ctx[t]
  /\ Return(t, "claim", "success")
  /\ UNCHANGED <<arrayVars, callVars, readVars, throughout, flickered, overlap>>

\* The first empty slot, or a new one.  The index that stands for "none found" is
\* the number of registered contexts: an empty slot found there is not used.
NoneFound == Cardinality(ContextIds) + 1
Free == {i \in Slots \ Occupied : IsFirst(i, Slots \ Occupied)} \ {NoneFound}

TakeSlot(t) ==
  \/ /\ Free = {}
     /\ active' = Append(active, NoContext)
     /\ slot' = [slot EXCEPT ![t] = Len(active) + 1]
  \/ /\ \E i \in Free : slot' = [slot EXCEPT ![t] = i]
     /\ UNCHANGED active

\* Mutant: the slot is published before it is counted.
ClaimUncounted(t) ==
  /\ contexts_mutex = NoThread
  /\ ~\E i \in Searched : active[i] = ctx[t]
  /\ Goto(t, "claim", "publish")
  /\ TakeSlot(t)
  /\ UNCHANGED <<num_active, contexts_mutex, enabled, fini_status, callVars, num_ctx, last,
                 data, result, throughout, flickered, overlap>>

\* "hold a lock here to prevent multiple threads from finding the same nullptr
\* slot": a slot and one more active context.  The lock is released before the
\* slot is filled.
ClaimSlot(t) ==
  /\ contexts_mutex = NoThread
  /\ ~\E i \in Searched : active[i] = ctx[t]
  /\ Goto(t, "claim", "publish")
  /\ TakeSlot(t)
  /\ num_active' = num_active + 1
  /\ UNCHANGED <<contexts_mutex, enabled, fini_status, callVars, num_ctx, last, data,
                 result, overlap>>
  /\ NoteChange

\* compare_exchange_strong(nullptr, context) ...
Publish(t) ==
  /\ Goto(t, "publish", "services")
  /\ active[slot[t]] = NoContext
  /\ active' = [active EXCEPT ![slot[t]] = ctx[t]]
  /\ UNCHANGED <<num_active, contexts_mutex, enabled, fini_status, callVars, readVars,
                 result, throughout, flickered, overlap>>

\* ... fails when another thread was first.
PublishFails(t) ==
  /\ Goto(t, "publish", "undo")
  /\ active[slot[t]] # NoContext
  /\ UNCHANGED <<arrayVars, callVars, readVars, result, throughout, flickered, overlap>>

NotStarted(t) ==
  /\ Return(t, "undo", "not_started")
  /\ num_active' = num_active - 1
  /\ UNCHANGED <<active, contexts_mutex, enabled, fini_status, callVars, readVars, overlap>>
  /\ NoteChange

\* counters::start_context and the other services, outside the lock.
StartServices(t) ==
  /\ Return(t, "services", "success")
  /\ enabled' = enabled \cup ({ctx[t]} \cap Counting)
  /\ UNCHANGED <<active, num_active, contexts_mutex, fini_status, callVars, readVars,
                 throughout, flickered, overlap>>

(***************************************************************************)
(* stop_context, which holds contexts_mutex until it returns               *)
(***************************************************************************)
\* rocprofiler_stop_context, which returns at once when the library has finalized.
StopCall(t, c) ==
  /\ calls[t] < MaxCalls
  /\ fini_status <= 0
  /\ Goto(t, "idle", "stop")
  /\ calls' = [calls EXCEPT ![t] = @ + 1]
  /\ op' = [op EXCEPT ![t] = "stop"]
  /\ ctx' = [ctx EXCEPT ![t] = c]
  /\ overlap' = overlap \cup
       {k \in {"stop"} : \E u \in Threads : InCall(u, "start") /\ ctx[u] = c}
  /\ UNCHANGED <<arrayVars, to_stop, readVars, result, throughout, flickered>>

\* finalize stops the contexts of its client one after the other.
Finalizing(t) == op[t] = "finalize"
AfterStop(t) == IF Finalizing(t) THEN "next" ELSE "idle"

\* Only the first slot that holds the context is cleared.
StopClears(t) ==
  /\ contexts_mutex = NoThread
  /\ Goto(t, "stop", "decrement")
  /\ contexts_mutex' = t
  /\ LET S == {i \in Slots : active[i] = ctx[t]} IN
     \E i \in S : IsFirst(i, S) /\ active' = [active EXCEPT ![i] = NoContext]
  /\ UNCHANGED <<num_active, enabled, fini_status, callVars, readVars, result, overlap>>
  /\ NoteChange

\* Mutant: the count goes down although nothing was cleared.
StopNotFoundCounts(t) ==
  /\ contexts_mutex = NoThread
  /\ Goto(t, "stop", AfterStop(t))
  /\ ctx[t] \notin Active
  /\ num_active' = num_active - 1
  /\ result' = [result EXCEPT ![t] = "not_found"]
  /\ UNCHANGED <<active, contexts_mutex, enabled, fini_status, callVars, readVars, overlap>>
  /\ NoteChange

StopNotFound(t) ==
  /\ contexts_mutex = NoThread
  /\ Goto(t, "stop", AfterStop(t))
  /\ ctx[t] \notin Active
  /\ result' = [result EXCEPT ![t] = "not_found"]
  /\ UNCHANGED <<arrayVars, callVars, readVars, throughout, flickered, overlap>>

StopCounts(t) ==
  /\ Goto(t, "decrement", "off")
  /\ num_active' = IF num_active > 0 THEN num_active - 1 ELSE num_active
  /\ UNCHANGED <<active, contexts_mutex, enabled, fini_status, callVars, readVars, result,
                 overlap>>
  /\ NoteChange

\* Mutant: the services of the context are left on.
StopKeepsServices(t) ==
  /\ Goto(t, "off", AfterStop(t))
  /\ contexts_mutex' = NoThread
  /\ result' = [result EXCEPT ![t] = "success"]
  /\ UNCHANGED <<active, num_active, enabled, fini_status, callVars, readVars, throughout,
                 flickered, overlap>>

\* Mutant: an early return that keeps the lock.
StopKeepsLock(t) ==
  /\ Goto(t, "off", AfterStop(t))
  /\ enabled' = enabled \ {ctx[t]}
  /\ result' = [result EXCEPT ![t] = "success"]
  /\ UNCHANGED <<active, num_active, contexts_mutex, fini_status, callVars, readVars, throughout,
                 flickered, overlap>>

StopServices(t) ==
  /\ Goto(t, "off", AfterStop(t))
  /\ enabled' = enabled \ {ctx[t]}
  /\ contexts_mutex' = NoThread
  /\ result' = [result EXCEPT ![t] = "success"]
  /\ UNCHANGED <<active, num_active, fini_status, callVars, readVars, throughout,
                 flickered, overlap>>

(***************************************************************************)
(* registration::finalize, as far as the contexts see it                   *)
(***************************************************************************)
FinalizeBegin(t) ==
  /\ fini_status = 0
  /\ Goto(t, "idle", "next")
  /\ fini_status' = -1
  /\ op' = [op EXCEPT ![t] = "finalize"]
  /\ overlap' = overlap \cup {k \in {"finalize"} : \E u \in Threads : InCall(u, "start")}
  /\ UNCHANGED <<active, num_active, contexts_mutex, enabled, calls, ctx, to_stop, readVars,
                 result, throughout, flickered>>

\* Mutant: one context is forgotten.
StopClientContextOnce(t) ==
  /\ to_stop # {}
  /\ Goto(t, "next", "stop")
  /\ \E c \in to_stop : ctx' = [ctx EXCEPT ![t] = c]
  /\ to_stop' = {}
  /\ UNCHANGED <<arrayVars, calls, op, readVars, result, throughout, flickered, overlap>>

\* stop_client_contexts: every registered context of the client once.
StopClientContext(t) ==
  /\ Goto(t, "next", "stop")
  /\ \E c \in to_stop : to_stop' = to_stop \ {c} /\ ctx' = [ctx EXCEPT ![t] = c]
  /\ UNCHANGED <<arrayVars, calls, op, readVars, result, throughout, flickered, overlap>>

\* deactivate_client_contexts: stores nullptr in one slot after the other, without
\* lock, count or services.
DeactivateBegin(t) ==
  /\ to_stop = {}
  /\ Goto(t, "next", "deactivate")
  /\ last' = [last EXCEPT ![t] = Len(active)]
  /\ slot' = [slot EXCEPT ![t] = 1]
  /\ UNCHANGED <<arrayVars, callVars, num_ctx, data, result, throughout, flickered, overlap>>

DeactivateSlot(t) ==
  /\ pc[t] = "deactivate" /\ slot[t] <= last[t]
  /\ active' = [active EXCEPT ![slot[t]] = NoContext]
  /\ slot' = [slot EXCEPT ![t] = @ + 1]
  /\ UNCHANGED <<num_active, contexts_mutex, enabled, fini_status, pc, callVars, num_ctx, last,
                 data, result, overlap>>
  /\ NoteChange

FinalizeEnd(t) ==
  /\ Goto(t, "deactivate", "finalized")
  /\ slot[t] > last[t]
  /\ fini_status' = 1
  /\ UNCHANGED <<active, num_active, contexts_mutex, enabled, callVars, readVars, result,
                 throughout, flickered, overlap>>

-----------------------------------------------------------------------------
Iterate(t) ==
  \/ ReadCount(t) \/ BeginScan(t) \/ VisitSlot(t) \/ EndScan(t) \/ Recheck(t)

Read(t) == ReadCall(t) \/ Iterate(t) \/ ReadReturns(t)

StartSteps(t) ==
  \/ Iterate(t) \/ AlreadyActive(t) \/ RefuseConflict(t) \/ NoneActive(t)
  \/ FoundWhileSearching(t) \/ ClaimSlot(t) \/ Publish(t) \/ PublishFails(t)
  \/ NotStarted(t) \/ StartServices(t)

StopSteps(t) == StopClears(t) \/ StopNotFound(t) \/ StopCounts(t) \/ StopServices(t)

Call(t) == \E c \in ContextIds : StartCall(t, c) \/ StopCall(t, c)

FinalizeSteps(t) ==
  \/ StopClientContext(t) \/ StopSteps(t) \/ DeactivateBegin(t)
  \/ DeactivateSlot(t) \/ FinalizeEnd(t)

\* Every thread has made the calls it makes.
Finished ==
  /\ \A t \in Threads : pc[t] \in {"idle", "finalized"}
  /\ UNCHANGED vars

Next ==
  \/ \E t \in Readers : Read(t)
  \/ \E t \in Callers : Call(t) \/ StartSteps(t) \/ StopSteps(t)
  \/ \E t \in Finalizers : FinalizeBegin(t) \/ FinalizeSteps(t)
  \/ Finished

Spec == Init /\ [][Next]_vars

\* Every thread goes on inside its call; none has to make one.
FairSpec ==
  /\ Spec
  /\ \A t \in Readers : WF_vars(Iterate(t) \/ ReadReturns(t))
  /\ \A t \in Callers : WF_vars(StartSteps(t) \/ StopSteps(t))
  /\ \A t \in Finalizers : WF_vars(FinalizeSteps(t))

-----------------------------------------------------------------------------
Steps == {"idle", "count", "begin", "visit", "recheck", "found", "claim", "publish",
          "undo", "services", "stop", "decrement", "off", "next", "deactivate", "finalized"}

\* Every variable has its type; the count of active contexts is never negative.
TypeOK ==
  /\ active \in Seq(ContextIds \cup {NoContext})
  /\ num_active \in Nat
  /\ contexts_mutex \in Threads \cup {NoThread}
  /\ enabled \subseteq Counting
  /\ fini_status \in {-1, 0, 1}
  /\ pc \in [Threads -> Steps]
  /\ calls \in [Threads -> Nat]
  /\ op \in [Threads -> {"none", "read", "start", "stop", "finalize"}]
  /\ ctx \in [Threads -> ContextIds \cup {NoContext}]
  /\ num_ctx \in [Threads -> Nat]
  /\ last \in [Threads -> Nat]
  /\ slot \in [Threads -> Nat]
  /\ data \in [Threads -> Seq(ContextIds)]
  /\ to_stop \subseteq ContextIds
  /\ result \in [Threads -> {"none", "success", "conflict", "not_started", "not_found"}]
  /\ throughout \in [Threads -> SUBSET ContextIds]
  /\ flickered \in [Threads -> BOOLEAN]
  /\ overlap \subseteq {"start", "stop", "finalize"}

\* Threads whose context is counted but not in the array.
Pending == {t \in Threads : pc[t] \in {"publish", "undo", "decrement"}}

\* The count is at least the number of contexts in the array, whatever starts,
\* failed starts, stops and deactivations are under way: get_active_contexts
\* stops looking when it has found that many.
CountCoversSlots == num_active >= Cardinality(Occupied) + Cardinality(Pending)

Found(t) == {data[t][i] : i \in DOMAIN data[t]}

\* Before finalization, a lookup finds every context that was active from its
\* start to its end, unless the count left the value it read and came back to it.
LookupsComplete ==
  \A t \in Threads : pc[t] = "found" /\ ~flickered[t] => throughout[t] \subseteq Found(t)

Once == \A i, j \in Occupied : active[i] = active[j] => i = j
NoConflicts == \A c, d \in Active : ~Conflict(c, d)
Busy(c) == \E t \in Threads : ctx[t] = c /\ pc[t] \in {"services", "decrement", "off"}
ServicesFollow == \A c \in Counting : ~Busy(c) => (c \in enabled <=> c \in Active)

\* What overlapping calls can harm, and nothing else.  Unless two starts overlap, a
\* context has one slot, contexts that conflict are never active together and no
\* start loses its slot, whatever is stopped, looked up and finalized meanwhile.
\* Unless a start overlaps it, finalization leaves nothing active.  Unless a start
\* overlaps one of these or a stop of its own context, a service is on exactly while
\* its context is active.
OnlyOverlapsHarm ==
  /\ "start" \notin overlap =>
       Once /\ NoConflicts /\ \A t \in Threads : result[t] # "not_started"
  /\ "finalize" \notin overlap => (fini_status = 1 => Active = {})
  /\ overlap = {} => ServicesFollow

\* Two contexts that count dispatches are never active at once: the second
\* start gets ROCPROFILER_STATUS_ERROR_CONTEXT_CONFLICT.
ConflictsExcluded == NoConflicts

\* Until two starts overlap, the array behaves as a set that contexts enter one at
\* a time, whatever is stopped, looked up or finalized meanwhile; from then on it
\* stands for the empty set.
SetOfActive == IF "start" \in overlap THEN {} ELSE Active
Set == INSTANCE ActiveSet WITH on <- SetOfActive
ImplementsActiveSet == Set!SetSpec

\* Every lookup, start, stop and finalization that began returns.
CallsReturn == \A t \in Threads : pc[t] # "idle" ~> pc[t] \in {"idle", "finalized"}
=============================================================================
