--------------------------- MODULE DeviceCounting ---------------------------
(***************************************************************************)
(* The counters of a device, started, sampled and stopped by a tool's      *)
(* threads (counters/device_counting.cpp): one context, one agent with its *)
(* profile queue, and the handler of the completion signal, which a thread *)
(* of the runtime runs.  The contexts that were started before the runtime *)
(* came are started when it registers; a finalization ends the service.    *)
(***************************************************************************)
EXTENDS Integers, Sequences

CONSTANTS Threads,   \* the tool's threads
          Profiles,  \* what the tool's callback may ask for
          MaxCalls,  \* bound: calls of start_context and stop_context
          MaxReads,  \* bound: reads that find the service enabled
          None       \* no thread

Reads == 1 .. MaxReads

ASSUME CountingAssumption ==
  /\ Profiles \subseteq {"none", "constants", "hardware"}
  /\ MaxCalls \in Nat /\ MaxReads \in Nat
  /\ None \notin Threads

VARIABLES
  \* the service's state; hsa_inited; the context is in the active array; get_contexts_mutex
  status, inited, active, mutex,
  \* each thread: where it is, how it reads and the number of its read
  at, mode, num,
  \* agent_callback_data: the kind of its packet, its signals, whose data the packet
  \* holds, user_data, and the vector cached_counters points to (0: none)
  packet, completion, start_signal, data, user, cached,
  \* the profile queue; the device counts; the handler
  queue, counting, handler,
  \* the records in each read's vector; get_fini_status
  out, fini,
  \* bounds; history: samples begun and recorded, a sample begun during another one,
  \* vectors whose pointer outlived their read, a stop during another call
  calls, reads, begun, recorded, doubled, left, overlapped

contextVars == <<inited, active, mutex>>
agentVars == <<packet, completion, start_signal, data, user, cached>>
deviceVars == <<queue, counting, handler>>
sampleVars == <<out, begun, recorded, doubled, left>>
boundVars == <<calls, reads>>
vars == <<status, contextVars, at, mode, num, agentVars, deviceVars, sampleVars, fini, boundVars,
          overlapped>>

Init ==
  /\ status = "disabled" /\ inited = FALSE /\ active = FALSE /\ mutex = None
  /\ at = [t \in Threads |-> "idle"] /\ mode = [t \in Threads |-> "none"]
  /\ num = [t \in Threads |-> 0]
  /\ packet = "none" /\ completion = 1 /\ start_signal = 1
  /\ data = 0 /\ user = 0 /\ cached = 0
  /\ queue = << >> /\ counting = FALSE /\ handler = [at |-> "idle", data |-> 0]
  /\ out = [n \in Reads |-> << >>] /\ fini = 0
  /\ calls = 0 /\ reads = 0
  /\ begun = {} /\ recorded = {} /\ doubled = FALSE /\ left = {} /\ overlapped = FALSE

Goes(t, from, to) == at[t] = from /\ at' = [at EXCEPT ![t] = to]

\* The call that t is in: it begins.
Calls(t, to) == Goes(t, "idle", to) /\ calls < MaxCalls /\ calls' = calls + 1

(***************************************************************************)
(* start_context and start_agent_ctx                                       *)
(***************************************************************************)
\* rocprofiler_start_context refuses once finalization began.
StartBegin(t) ==
  /\ Calls(t, "start") /\ fini = 0
  /\ UNCHANGED <<status, contextVars, mode, num, agentVars, deviceVars, sampleVars, fini, reads,
                 overlapped>>

\* The search for a slot, under the mutex; it ends early when the context is active.
StartSearch(t) ==
  /\ mutex = None
  /\ Goes(t, "start", IF active THEN "idle" ELSE "found")
  /\ UNCHANGED <<status, contextVars, mode, num, agentVars, deviceVars, sampleVars, fini,
                 boundVars, overlapped>>

\* The compare-exchange into the slot, without the mutex.
StartPublish(t) ==
  /\ Goes(t, "found", IF active THEN "idle" ELSE "lock")
  /\ active' = TRUE
  /\ overlapped' = (overlapped \/ mutex # None)
  /\ UNCHANGED <<status, inited, mutex, mode, num, agentVars, deviceVars, sampleVars, fini,
                 boundVars>>

\* start_agent_ctx: nothing to do before the runtime is there, an error unless disabled.
StartLock(t) ==
  /\ LET locks == inited /\ status = "disabled" IN
       /\ Goes(t, "lock", IF locks THEN "profile" ELSE "idle")
       /\ status' = IF locks THEN "locked" ELSE status
  /\ UNCHANGED <<contextVars, mode, num, agentVars, deviceVars, sampleVars, fini, boundVars,
                 overlapped>>

\* Mutant: the start signal is not set back before the packet is submitted.
StartProfileOnce(t) ==
  /\ \E p \in Profiles :
       /\ Goes(t, "profile", IF p = "hardware" THEN "startWait" ELSE "startEnd")
       /\ packet' = p
       /\ data' = IF p = packet THEN data ELSE 0
       /\ queue' = IF p = "hardware" THEN Append(queue, [kind |-> "start", n |-> 0]) ELSE queue
  /\ UNCHANGED <<status, contextVars, mode, num, completion, start_signal, user, cached, counting,
                 handler, sampleVars, fini, boundVars, overlapped>>

\* The tool chooses a profile; a packet is made for it and, when it has hardware
\* counters, the start packet is submitted.
StartProfile(t) ==
  /\ \E p \in Profiles :
       /\ Goes(t, "profile", IF p = "hardware" THEN "startWait" ELSE "startEnd")
       /\ packet' = p
       /\ data' = IF p = packet THEN data ELSE 0
       /\ start_signal' = IF p = "hardware" THEN 1 ELSE start_signal
       /\ queue' = IF p = "hardware" THEN Append(queue, [kind |-> "start", n |-> 0]) ELSE queue
  /\ UNCHANGED <<status, contextVars, mode, num, completion, user, cached, counting, handler,
                 sampleVars, fini, boundVars, overlapped>>

StartWait(t) ==
  /\ start_signal = 0
  /\ Goes(t, "startWait", "startEnd")
  /\ UNCHANGED <<status, contextVars, mode, num, agentVars, deviceVars, sampleVars, fini,
                 boundVars, overlapped>>

StartEnd(t) ==
  /\ Goes(t, "startEnd", "idle")
  /\ status' = "enabled"
  /\ UNCHANGED <<contextVars, mode, num, agentVars, deviceVars, sampleVars, fini, boundVars,
                 overlapped>>

(***************************************************************************)
(* The runtime registers                                                   *)
(***************************************************************************)
Register(t) ==
  /\ ~inited /\ Goes(t, "idle", "lookup")
  /\ inited' = TRUE
  /\ UNCHANGED <<status, active, mutex, mode, num, agentVars, deviceVars, sampleVars, fini,
                 boundVars, overlapped>>

\* Mutant: the contexts that were started before are forgotten.
RegisterStartNothing(t) ==
  /\ Goes(t, "lookup", "idle")
  /\ UNCHANGED <<status, contextVars, mode, num, agentVars, deviceVars, sampleVars, fini,
                 boundVars, overlapped>>

\* get_active_contexts; the context that is active is started now.
RegisterStart(t) ==
  /\ Goes(t, "lookup", IF active THEN "lock" ELSE "idle")
  /\ UNCHANGED <<status, contextVars, mode, num, agentVars, deviceVars, sampleVars, fini,
                 boundVars, overlapped>>

(***************************************************************************)
(* read_agent_ctx                                                          *)
(***************************************************************************)
\* Without the runtime, and unless enabled, it returns an error.  A read waits for its
\* sample unless ASYNC; it gives its records to a vector of the caller or to the buffer.
ReadLock(t, m) ==
  /\ Goes(t, "idle", "read") /\ inited /\ status = "enabled" /\ reads < MaxReads
  /\ status' = "locked"
  /\ reads' = reads + 1
  /\ num' = [num EXCEPT ![t] = reads'] /\ mode' = [mode EXCEPT ![t] = m]
  /\ UNCHANGED <<contextVars, agentVars, deviceVars, sampleVars, fini, calls, overlapped>>

Waits(t) == mode[t] # "async"

\* Wait for the sample in progress, unless ASYNC; say where the records go.
ReadTurn(t) ==
  /\ packet # "none" /\ Waits(t) => completion = 1
  /\ Goes(t, "read", CASE packet = "none" -> "readEnd"
                       [] packet = "constants" -> "readFire"
                       [] OTHER -> "readSubmit")
  /\ cached' = IF packet = "none" \/ ~Waits(t) THEN cached
               ELSE IF mode[t] = "vector" THEN num[t] ELSE 0
  /\ doubled' = (doubled \/ (packet # "none" /\ completion # 1))
  /\ begun' = IF packet = "none" THEN begun ELSE begun \cup {num[t]}
  /\ UNCHANGED <<status, contextVars, mode, num, packet, completion, start_signal, data, user,
                 deviceVars, out, recorded, left, fini, boundVars, overlapped>>

\* Constants only: the handler is triggered by hand.
ReadFire(t) ==
  /\ Goes(t, "readFire", IF Waits(t) THEN "readWait" ELSE "readEnd")
  /\ user' = num[t] /\ completion' = -1
  /\ UNCHANGED <<status, contextVars, mode, num, packet, start_signal, data, cached, deviceVars,
                 sampleVars, fini, boundVars, overlapped>>

ReadSubmit(t) ==
  /\ Goes(t, "readSubmit", "readBarrier")
  /\ queue' = Append(queue, [kind |-> "read", n |-> num[t]])
  /\ UNCHANGED <<status, contextVars, mode, num, agentVars, counting, handler, sampleVars, fini,
                 boundVars, overlapped>>

\* The sample is in progress; the barrier packet will complete it.
ReadBarrier(t) ==
  /\ Goes(t, "readBarrier", IF Waits(t) THEN "readWait" ELSE "readEnd")
  /\ completion' = 0 /\ user' = num[t]
  /\ queue' = Append(queue, [kind |-> "barrier", n |-> num[t]])
  /\ UNCHANGED <<status, contextVars, mode, num, packet, start_signal, data, cached, counting,
                 handler, sampleVars, fini, boundVars, overlapped>>

\* Mutant: the pointer to the caller's vector is left behind.
ReadWaitKeeps(t) ==
  /\ completion = 1
  /\ Goes(t, "readWait", "readEnd")
  /\ left' = IF packet = "constants" THEN left \cup {num[t]} ELSE left
  /\ UNCHANGED <<status, contextVars, mode, num, agentVars, deviceVars, out, begun, recorded,
                 doubled, fini, boundVars, overlapped>>

\* Only after hardware counters is cached_counters reset.
ReadWait(t) ==
  /\ completion = 1
  /\ Goes(t, "readWait", "readEnd")
  /\ cached' = IF packet = "hardware" THEN 0 ELSE cached
  /\ left' = IF packet = "constants" THEN left \cup {num[t]} ELSE left
  /\ UNCHANGED <<status, contextVars, mode, num, packet, completion, start_signal, data, user,
                 deviceVars, out, begun, recorded, doubled, fini, boundVars, overlapped>>

ReadEnd(t) ==
  /\ Goes(t, "readEnd", "idle")
  /\ status' = "enabled"
  /\ num' = [num EXCEPT ![t] = 0] /\ mode' = [mode EXCEPT ![t] = "none"]
  /\ UNCHANGED <<contextVars, agentVars, deviceVars, sampleVars, fini, boundVars, overlapped>>

(***************************************************************************)
(* stop_context and stop_agent_ctx                                         *)
(***************************************************************************)
\* rocprofiler_stop_context returns at once when finalized.
StopBegin(t) ==
  /\ Calls(t, "stop") /\ fini <= 0
  /\ UNCHANGED <<status, contextVars, mode, num, agentVars, deviceVars, sampleVars, fini, reads,
                 overlapped>>

\* The finalizing thread is done once its stop returns.
Finalized(t) == IF mode[t] = "final" THEN 1 ELSE fini

\* The slot is cleared under the mutex, which is held until the services are stopped.
StopClear(t) ==
  /\ mutex = None
  /\ Goes(t, "stop", IF active THEN "stopLock" ELSE "idle")
  /\ mutex' = IF active THEN t ELSE None
  /\ active' = FALSE
  /\ fini' = IF active THEN fini ELSE Finalized(t)
  /\ UNCHANGED <<status, inited, mode, num, agentVars, deviceVars, sampleVars, boundVars,
                 overlapped>>

\* stop_agent_ctx: nothing to do before the runtime is there, and unless enabled.
StopLock(t) ==
  /\ LET locks == inited /\ status = "enabled" IN
       /\ Goes(t, "stopLock", IF locks THEN "stopSubmit" ELSE "idle")
       /\ status' = IF locks THEN "locked" ELSE status
       /\ mutex' = IF locks THEN mutex ELSE None
       /\ fini' = IF locks THEN fini ELSE Finalized(t)
  /\ overlapped' = (overlapped \/ status = "locked" \/ \E u \in Threads : at[u] = "lock")
  /\ UNCHANGED <<inited, active, mode, num, agentVars, deviceVars, sampleVars, boundVars>>

\* The stop packet has no completion signal: nothing waits for it.
StopSubmit(t) ==
  /\ Goes(t, "stopSubmit", IF packet = "none" THEN "stopEnd" ELSE "stopWait")
  /\ queue' = IF packet = "hardware" THEN Append(queue, [kind |-> "stop", n |-> 0]) ELSE queue
  /\ UNCHANGED <<status, contextVars, mode, num, agentVars, counting, handler, sampleVars, fini,
                 boundVars, overlapped>>

\* The wait is for the sample in progress.
StopWait(t) ==
  /\ completion = 1
  /\ Goes(t, "stopWait", "stopEnd")
  /\ UNCHANGED <<status, contextVars, mode, num, agentVars, deviceVars, sampleVars, fini,
                 boundVars, overlapped>>

StopEnd(t) ==
  /\ Goes(t, "stopEnd", "idle")
  /\ status' = "disabled"
  /\ mutex' = None
  /\ fini' = Finalized(t)
  /\ UNCHANGED <<inited, active, mode, num, agentVars, deviceVars, sampleVars, boundVars,
                 overlapped>>

(***************************************************************************)
(* finalize                                                                *)
(***************************************************************************)
FinalizeBegin(t) ==
  /\ Goes(t, "idle", "exit") /\ fini = 0
  /\ fini' = -1
  /\ mode' = [mode EXCEPT ![t] = "final"]
  /\ UNCHANGED <<status, contextVars, num, agentVars, deviceVars, sampleVars, boundVars,
                 overlapped>>

\* Mutant: the status is set without waiting for the call in progress.
FinalizeServiceAtOnce(t) ==
  /\ Goes(t, "exit", "stop")
  /\ status' = "exit"
  /\ UNCHANGED <<contextVars, mode, num, agentVars, deviceVars, sampleVars, fini, boundVars,
                 overlapped>>

\* Mutant: only a service that is disabled is ended.
FinalizeServiceDisabled(t) ==
  /\ status = "disabled"
  /\ Goes(t, "exit", "stop")
  /\ status' = "exit"
  /\ UNCHANGED <<contextVars, mode, num, agentVars, deviceVars, sampleVars, fini, boundVars,
                 overlapped>>

\* device_counting_service_finalize spins while a call is in progress; later the
\* client's finalizer stops its contexts.
FinalizeService(t) ==
  /\ status # "locked"
  /\ Goes(t, "exit", "stop")
  /\ status' = "exit"
  /\ UNCHANGED <<contextVars, mode, num, agentVars, deviceVars, sampleVars, fini, boundVars,
                 overlapped>>

(***************************************************************************)
(* The device's packet processor and agent_async_handler                   *)
(***************************************************************************)
Process ==
  /\ queue # << >>
  /\ queue' = Tail(queue)
  /\ LET p == Head(queue) IN
       /\ counting' = CASE p.kind = "start" -> TRUE
                        [] p.kind = "stop" -> FALSE
                        [] OTHER -> counting
       /\ start_signal' = IF p.kind = "start" THEN start_signal - 1 ELSE start_signal
       /\ data' = IF p.kind = "read" THEN p.n ELSE data
       /\ completion' = IF p.kind = "barrier" THEN completion - 1 ELSE completion
  /\ UNCHANGED <<status, contextVars, at, mode, num, packet, user, cached, handler, sampleVars,
                 fini, boundVars, overlapped>>

\* The runtime calls the handler when the signal is below zero; it decodes the packet.
HandlerDecode ==
  /\ handler.at = "idle" /\ completion < 0
  /\ handler' = [at |-> "decoded", data |-> data]
  /\ UNCHANGED <<status, contextVars, at, mode, num, agentVars, queue, counting, sampleVars, fini,
                 boundVars, overlapped>>

\* The record goes to the vector, if there is one, and to the buffer.
HandlerRecord ==
  /\ handler.at = "decoded"
  /\ handler' = [handler EXCEPT !.at = "recorded"]
  /\ out' = IF cached = 0 THEN out
            ELSE [out EXCEPT ![cached] = Append(@, [data |-> handler.data, user |-> user])]
  /\ recorded' = recorded \cup {user}
  /\ UNCHANGED <<status, contextVars, at, mode, num, agentVars, queue, counting, begun, doubled,
                 left, fini, boundVars, overlapped>>

\* The next sample may start.
HandlerEnd ==
  /\ handler.at = "recorded"
  /\ handler' = [at |-> "idle", data |-> 0]
  /\ completion' = 1
  /\ UNCHANGED <<status, contextVars, at, mode, num, packet, start_signal, data, user, cached,
                 queue, counting, sampleVars, fini, boundVars, overlapped>>

(***************************************************************************)
(* The system                                                              *)
(***************************************************************************)
Modes == {"async", "vector", "buffer"}

Continues(t) ==
  \/ StartSearch(t) \/ StartPublish(t) \/ StartLock(t) \/ StartProfile(t) \/ StartWait(t)
  \/ StartEnd(t) \/ RegisterStart(t)
  \/ ReadTurn(t) \/ ReadFire(t) \/ ReadSubmit(t) \/ ReadBarrier(t) \/ ReadWait(t) \/ ReadEnd(t)
  \/ StopClear(t) \/ StopLock(t) \/ StopSubmit(t) \/ StopWait(t) \/ StopEnd(t)
  \/ FinalizeService(t)

Handler == HandlerDecode \/ HandlerRecord \/ HandlerEnd

Next ==
  \/ \E t \in Threads : StartBegin(t) \/ StopBegin(t) \/ Register(t) \/ FinalizeBegin(t)
  \/ \E t \in Threads, m \in Modes : ReadLock(t, m)
  \/ \E t \in Threads : Continues(t)
  \/ Process \/ Handler

Spec == Init /\ [][Next]_vars

\* A thread inside a call goes on, the device processes its queue and the runtime calls
\* the handler; nobody need call.  A thread that spins on the mutex or on a status that
\* is free again and again is served in the end, as calls are bounded.
FairSpec ==
  /\ Spec
  /\ \A t \in Threads : WF_vars(Continues(t))
  /\ WF_vars(Process) /\ WF_vars(Handler)

(***************************************************************************)
(* Properties                                                              *)
(***************************************************************************)
Places == {"idle", "start", "found", "lock", "profile", "startWait", "startEnd", "lookup", "read",
           "readFire", "readSubmit", "readBarrier", "readWait", "readEnd", "stop", "stopLock",
           "stopSubmit", "stopWait", "stopEnd", "exit"}
Packet == [kind : {"start", "stop", "read", "barrier"}, n : 0 .. MaxReads]
Record == [data : 0 .. MaxReads, user : 0 .. MaxReads]

\* Every variable has its type; the signals stay in the range that stores and packets
\* can give them.
TypeOK ==
  /\ status \in {"disabled", "locked", "enabled", "exit"}
  /\ inited \in BOOLEAN /\ active \in BOOLEAN /\ mutex \in Threads \cup {None}
  /\ at \in [Threads -> Places]
  /\ mode \in [Threads -> Modes \cup {"none", "final"}]
  /\ num \in [Threads -> 0 .. MaxReads]
  /\ packet \in {"none", "constants", "hardware"}
  /\ completion \in -MaxReads .. 1 /\ start_signal \in 0 .. 1
  /\ data \in 0 .. MaxReads /\ user \in 0 .. MaxReads /\ cached \in 0 .. MaxReads
  /\ queue \in Seq(Packet) /\ counting \in BOOLEAN
  /\ handler \in [at : {"idle", "decoded", "recorded"}, data : 0 .. MaxReads]
  /\ out \in [Reads -> Seq(Record)] /\ fini \in {0, -1, 1}
  /\ calls \in 0 .. MaxCalls /\ reads \in 0 .. MaxReads
  /\ begun \subseteq Reads /\ recorded \subseteq Reads /\ left \subseteq Reads
  /\ doubled \in BOOLEAN /\ overlapped \in BOOLEAN

\* device_counting.hpp, "prevent any further requests to start/stop/read": once a
\* context is in EXIT no call that was under way brings it back, though each ends with an
\* unconditional exchange, and none submits another packet.
ExitIsFinal ==
  [][status = "exit" => status' = "exit" /\ Len(queue') <= Len(queue)]_vars

\* When nothing is in progress the service is enabled exactly if its context is active
\* and the runtime is there, and the device counts exactly if the service was started
\* for hardware counters, however the start of a context raced the registration:
\* unless a stop ran next to another call, which then found the status taken.
ServiceMatchesContext ==
  (\A t \in Threads : at[t] = "idle") /\ queue = << >> /\ ~overlapped /\ status # "exit"
    => /\ (status = "enabled") <=> (active /\ inited)
       /\ counting <=> (status = "enabled" /\ packet = "hardware")

\* A read that waited for its sample returns its own record in its own vector, nobody
\* else's, and no later sample is written into the vector of a read that returned:
\* unless an ASYNC read began during another sample, or the vector's read was for
\* constants only, which leaves its pointer behind.
SamplesReachReaders ==
  ~doubled =>
    /\ \A t \in Threads :
         at[t] = "readEnd" /\ mode[t] = "vector" /\ packet # "none" => out[num[t]] # << >>
    /\ \A n \in Reads \ left :
         /\ Len(out[n]) <= 1
         /\ \A i \in DOMAIN out[n] :
              out[n][i].user = n /\ (packet = "hardware" => out[n][i].data \in {0, n})

\* Every call returns and every sample that begins is recorded, through the one signal
\* whose value says whose turn it is: unless an ASYNC read began during another sample,
\* after which the signal may rest at zero.
CallsReturn ==
  /\ \A t \in Threads : (at[t] # "idle") ~> (at[t] = "idle" \/ doubled)
  /\ \A n \in Reads : (n \in begun) ~> (n \in recorded \/ doubled)

=============================================================================
