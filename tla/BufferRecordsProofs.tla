-------------------------- MODULE BufferRecordsProofs -------------------------
(***************************************************************************)
(* What becomes of a buffer's records, for any number of threads, records  *)
(* and slots: m_requested of a side is the number of emplaces under way in *)
(* it, drop_count the number of records that were dropped, and a record    *)
(* that was accepted is delivered once and in order unless an emplace was  *)
(* late.                                                                   *)
(***************************************************************************)
EXTENDS BufferProofs, FiniteSetTheorems

Requests == {"reserve", "index", "place", "withdraw"}
Requesting(s) == {t \in Threads : pc[t] \in Requests /\ idx[t] = s}

RequestsInv == TypeInv /\ RequestsCounted

LEMMA RequestingFinite ==
  \A s : /\ IsFiniteSet(Requesting(s)) /\ Cardinality(Requesting(s)) \in Nat
         /\ \A t : /\ t \notin Requesting(s) =>
                        Cardinality(Requesting(s) \cup {t}) = Cardinality(Requesting(s)) + 1
                   /\ t \in Requesting(s) =>
                        Cardinality(Requesting(s) \ {t}) = Cardinality(Requesting(s)) - 1
  <1>1. \A s : IsFiniteSet(Requesting(s))
    BY BufferAssumption, FS_Subset DEF Requesting
  <1>. QED BY <1>1, FS_CardinalityType, FS_AddElement, FS_RemoveElement

\* A step that neither announces nor withdraws a request.
SameRequests ==
  \A s \in Side : /\ buffers'[s].m_requested = buffers[s].m_requested
                  /\ \A t \in Threads : (t \in Requesting(s)') <=> (t \in Requesting(s))

LEMMA KeepRequests ==
  ASSUME RequestsInv, SameRequests
  PROVE  RequestsCounted'
  <1>1. \A s \in Side : Requesting(s)' = Requesting(s)
    BY DEF SameRequests, Requesting
  <1>. QED BY <1>1 DEF RequestsInv, RequestsCounted, SameRequests, Requesting, Requests

\* A thread that moves, and writes at most the rest of one side.
LEMMA MoveRequests ==
  ASSUME TypeInv, NEW t \in Threads, NEW from, NEW to, Goto(t, from, to),
         from \in Requests <=> to \in Requests,
         \/ idx' = idx
         \/ from \notin Requests /\ \A u \in Threads : u # t => idx'[u] = idx[u],
         \/ buffers' = buffers
         \/ \E s \in Side : \E b : /\ buffers' = [buffers EXCEPT ![s] = b]
                                   /\ b.m_requested = buffers[s].m_requested
  PROVE  SameRequests
  <1>1. pc \in [Threads -> Steps] /\ buffers \in [Side -> Buffers(Records)]
    BY DEF TypeInv, TypeOK
  <1>2. /\ pc[t] = from /\ pc'[t] = to
        /\ \A u \in Threads : u # t => pc'[u] = pc[u]
    BY <1>1 DEF Goto
  <1>3. \A s \in Side : buffers'[s].m_requested = buffers[s].m_requested
    BY <1>1
  <1>. QED BY <1>2, <1>3 DEF SameRequests, Requesting

LEMMA RequestOperations ==
  ASSUME NEW R, NEW b \in Buffers(R)
  PROVE  /\ Announce(b).m_requested = b.m_requested + 1
         /\ Withdraw(b).m_requested = b.m_requested - 1
         /\ Reserve(b).m_requested = b.m_requested
         /\ TakeIndex(b).m_requested = b.m_requested
         /\ Clear(b).m_requested = b.m_requested
         /\ \A i, a, v : Place(b, i, a, v).m_requested = b.m_requested
         /\ b.m_requested \in Int
  BY DEF Buffers, Announce, Withdraw, Reserve, TakeIndex, Clear, Place

LEMMA RequestsStep ==
  ASSUME RequestsInv, [Next]_vars
  PROVE  RequestsCounted'
  <1>. USE DEF sharedVars, groupVars, emplaceVars, flushVars, workerVars, history
  <1>0. /\ TypeInv /\ pc \in [Threads -> Steps] /\ idx \in [Threads -> Side]
        /\ buffers \in [Side -> Buffers(Records)]
    BY DEF RequestsInv, TypeInv, TypeOK
  <1>9. \A s \in Side : buffers[s].m_requested = Cardinality(Requesting(s))
    BY DEF RequestsInv, RequestsCounted, Requesting, Requests
  <1>1. ASSUME NEW t \in Producers, AnnounceRequest(t) PROVE RequestsCounted'
    <2>0. t \in Threads /\ idx[t] \in Side BY <1>0 DEF Threads
    <2>1. CASE ~buffers[idx[t]].allocated
      <3>1. Goto(t, "announce", "failed") /\ UNCHANGED <<buffers, idx>>
        BY <1>1, <2>1 DEF AnnounceRequest, Goto
      <3>2. SameRequests BY <1>0, <2>0, <3>1, MoveRequests DEF Requests
      <3>. QED BY <3>2, KeepRequests
    <2>2. CASE buffers[idx[t]].allocated
      <3>1. /\ pc[t] = "announce" /\ pc' = [pc EXCEPT ![t] = "reserve"] /\ idx' = idx
            /\ buffers' = [buffers EXCEPT ![idx[t]] = Announce(buffers[idx[t]])]
        BY <1>1, <2>2 DEF AnnounceRequest
      <3>2. \A s \in Side : Requesting(s)' = IF s = idx[t] THEN Requesting(s) \cup {t}
                                                           ELSE Requesting(s)
        BY <1>0, <2>0, <3>1 DEF Requesting, Requests
      <3>3. t \notin Requesting(idx[t]) BY <3>1 DEF Requesting, Requests
      <3>4. \A s \in Side : buffers'[s].m_requested =
              IF s = idx[t] THEN buffers[s].m_requested + 1 ELSE buffers[s].m_requested
        BY <1>0, <2>0, <3>1, RequestOperations
      <3>5. \A s \in Side : Cardinality(Requesting(s)') =
              IF s = idx[t] THEN Cardinality(Requesting(s)) + 1 ELSE Cardinality(Requesting(s))
        BY <3>2, <3>3, RequestingFinite
      <3>6. \A s \in Side : buffers'[s].m_requested = Cardinality(Requesting(s)')
        BY <1>9, <3>4, <3>5
      <3>. QED BY <3>6 DEF RequestsCounted, Requesting, Requests
    <2>. QED BY <2>1, <2>2
  <1>2. ASSUME NEW t \in Producers, WithdrawRequest(t) PROVE RequestsCounted'
    <2>0. t \in Threads /\ idx[t] \in Side BY <1>0 DEF Threads
    <2>1. PICK to \in {"failed", "watermark"} : Goto(t, "withdraw", to)
      BY <1>2 DEF WithdrawRequest, Goto
    <2>2. /\ pc[t] = "withdraw" /\ pc' = [pc EXCEPT ![t] = to] /\ idx' = idx
          /\ buffers' = [buffers EXCEPT ![idx[t]] = Withdraw(buffers[idx[t]])]
      BY <1>2, <2>1 DEF WithdrawRequest, Goto
    <2>3. \A s \in Side : Requesting(s)' = IF s = idx[t] THEN Requesting(s) \ {t}
                                                         ELSE Requesting(s)
      BY <1>0, <2>0, <2>2 DEF Requesting, Requests
    <2>4. t \in Requesting(idx[t]) BY <2>0, <2>2 DEF Requesting, Requests
    <2>5. \A s \in Side : buffers'[s].m_requested =
            IF s = idx[t] THEN buffers[s].m_requested - 1 ELSE buffers[s].m_requested
      BY <1>0, <2>0, <2>2, RequestOperations
    <2>6. \A s \in Side : Cardinality(Requesting(s)') =
            IF s = idx[t] THEN Cardinality(Requesting(s)) - 1 ELSE Cardinality(Requesting(s))
      BY <2>3, <2>4, RequestingFinite
    <2>7. \A s \in Side : buffers'[s].m_requested = Cardinality(Requesting(s)')
      BY <1>9, <2>5, <2>6
    <2>. QED BY <2>7 DEF RequestsCounted, Requesting, Requests
  <1>3. ASSUME NEW t \in Producers,
               ReserveSpace(t) \/ TakeHeader(t) \/ PlaceRecord(t)
        PROVE  SameRequests
    <2>0. t \in Threads /\ idx[t] \in Side /\ buffers[idx[t]] \in Buffers(Records)
      BY <1>0 DEF Threads
    <2>1. PICK from \in Requests, to \in Requests : Goto(t, from, to)
      BY <1>3 DEF ReserveSpace, TakeHeader, PlaceRecord, Goto, Requests
    <2>2. \/ buffers' = buffers
          \/ \E b : /\ buffers' = [buffers EXCEPT ![idx[t]] = b]
                    /\ b.m_requested = buffers[idx[t]].m_requested
      <3>1. CASE ReserveSpace(t) BY <2>0, <3>1, RequestOperations DEF ReserveSpace
      <3>2. CASE TakeHeader(t) BY <2>0, <3>2, RequestOperations DEF TakeHeader
      <3>3. CASE PlaceRecord(t)
        <4>1. Place(buffers[idx[t]], index[t], addr[t], Value(t)).m_requested
                = buffers[idx[t]].m_requested
          BY <2>0, RequestOperations
        <4>. QED BY <3>3, <4>1 DEF PlaceRecord
      <3>. QED BY <1>3, <3>1, <3>2, <3>3
    <2>3. idx' = idx BY <1>3 DEF ReserveSpace, TakeHeader, PlaceRecord
    <2>. QED BY <1>0, <2>0, <2>1, <2>2, <2>3, MoveRequests
  <1>4. ASSUME NEW t \in Producers, EmplaceCall(t) \/ EmplaceRetries(t) PROVE SameRequests
    <2>1. PICK from \in {"idle", "retry"} : Goto(t, from, "announce")
      BY <1>4 DEF EmplaceCall, EmplaceRetries
    <2>2. idx' = [idx EXCEPT ![t] = buffer_idx] /\ buffers' = buffers
      BY <1>4 DEF EmplaceCall, EmplaceRetries
    <2>3. \A u \in Threads : u # t => idx'[u] = idx[u] BY <1>0, <2>2
    <2>4. t \in Threads BY DEF Threads
    <2>. QED BY <1>0, <2>1, <2>2, <2>3, <2>4, MoveRequests DEF Requests
  <1>5. ASSUME NEW t \in Producers,
               \/ EmplaceThrows(t) \/ EmplaceBlocks(t) \/ EmplaceDrops(t) \/ CheckWatermark(t)
               \/ EmplaceReturns(t)
        PROVE  SameRequests
    <2>1. PICK from \in {"failed", "watermark", "return"}, to \in {"idle", "flush", "watermark", "return"} :
            Goto(t, from, to)
      BY <1>5 DEF EmplaceThrows, EmplaceBlocks, EmplaceDrops, CheckWatermark, EmplaceReturns, Goto
    <2>2. UNCHANGED <<buffers, idx>>
      BY <1>5 DEF EmplaceThrows, EmplaceBlocks, EmplaceDrops, CheckWatermark, EmplaceReturns
    <2>3. t \in Threads BY DEF Threads
    <2>. QED BY <1>0, <2>1, <2>2, <2>3, MoveRequests DEF Requests
  <1>6. ASSUME NEW t \in Threads,
               \/ FlushBegin(t) \/ LockGroup(t) \/ TasksDone(t) \/ FlushBusy(t)
               \/ FlushClaim(t) \/ SwapSides(t) \/ ExecTask(t) \/ UseDeletedGroup(t)
               \/ FlushCall(t) \/ FinalizeBegin(t) \/ DeleteGroup(t) \/ FinalizeEnd(t)
        PROVE  SameRequests
    <2>1. \E from, to : /\ Goto(t, from, to)
                        /\ from \notin Requests /\ to \notin Requests
      <3>0. Resume(t) \in {"retry", "return", "idle", "quit"} BY <1>0, ResumeStep
      <3>1. CASE FlushBegin(t)
        <4>1. pc'[t] \in {Resume(t), "aborted", "drain", "sync"} /\ pc' = [pc EXCEPT ![t] = pc'[t]]
          <5>0. fini_status > 0 <=> ~(fini_status <= 0)
            BY <1>0 DEF TypeInv, TypeOK
          <5>. QED BY <1>0, <3>1, <5>0 DEF FlushBegin
        <4>. QED BY <3>0, <3>1, <4>1 DEF FlushBegin, Goto, Requests
      <3>2. CASE LockGroup(t) BY <3>2 DEF LockGroup, Requests
      <3>3. CASE TasksDone(t) BY <3>0, <3>3 DEF TasksDone, Requests
      <3>4. CASE FlushBusy(t) \/ FlushClaim(t) \/ SwapSides(t)
        BY <3>0, <3>4 DEF FlushBusy, FlushClaim, SwapSides, Requests
      <3>5. CASE ExecTask(t)
        <4>1. Goto(t, "exec", "join") \/ Goto(t, "exec", Resume(t))
          BY <3>5 DEF ExecTask, Goto
        <4>. QED BY <3>0, <4>1 DEF Requests
      <3>6. CASE UseDeletedGroup(t)
        <4>1. Goto(t, pc[t], "aborted") /\ pc[t] \notin Requests
          BY <3>6 DEF UseDeletedGroup, Requests, Goto
        <4>. QED BY <4>1 DEF Requests
      <3>7. CASE FlushCall(t) \/ FinalizeBegin(t) \/ DeleteGroup(t) \/ FinalizeEnd(t)
        BY <3>7 DEF FlushCall, FinalizeBegin, DeleteGroup, FinalizeEnd, Requests
      <3>. QED BY <1>6, <3>1, <3>2, <3>3, <3>4, <3>5, <3>6, <3>7
    <2>2. UNCHANGED <<buffers, idx>>
      BY <1>6 DEF FlushBegin, LockGroup, TasksDone, FlushBusy, FlushClaim, SwapSides, ExecTask,
                  UseDeletedGroup, FlushCall, FinalizeBegin, DeleteGroup, FinalizeEnd
    <2>. QED BY <1>0, <2>1, <2>2, MoveRequests
  <1>7. ASSUME ClearBuffer PROVE SameRequests
    <2>1. Head(m_tasks) \in Side
      BY <1>7 DEF ClearBuffer, WorkerGoto, RequestsInv, TypeInv, TypeOK, WorkerInv
    <2>2. buffers' = [buffers EXCEPT ![Head(m_tasks)] = Clear(@)] /\ UNCHANGED <<pc, idx>>
      BY <1>7 DEF ClearBuffer, WorkerUnchanged
    <2>3. \A s \in Side : buffers'[s].m_requested = buffers[s].m_requested
      BY <1>0, <2>1, <2>2, RequestOperations
    <2>. QED BY <2>2, <2>3 DEF SameRequests, Requesting
  <1>8. ASSUME \/ TaskBegin \/ CheckCount \/ CheckRequested \/ CollectHeaders \/ InvokeCallback
               \/ ReleaseSyncer \/ TaskEnd \/ UNCHANGED vars \/ \E t \in Threads : FlushSpins(t)
        PROVE  SameRequests
    <2>1. UNCHANGED <<buffers, pc, idx>>
      BY <1>8 DEF TaskBegin, CheckCount, CheckRequested, CollectHeaders, InvokeCallback,
                  ReleaseSyncer, TaskEnd, vars, FlushSpins, WorkerUnchanged
    <2>. QED BY <2>1 DEF SameRequests, Requesting
  <1>. QED
    BY <1>1, <1>2, <1>3, <1>4, <1>5, <1>6, <1>7, <1>8, KeepRequests
    DEF Next, Emplace, Flush, Finalize, Worker, Finished, Threads

\* m_requested, which is_empty() relies on, is at every moment the number of emplaces
\* between their announcement and their withdrawal (record_header_buffer.hpp's emplace).
THEOREM RequestsAreEmplaces == Spec => []RequestsCounted
  <1>1. Init => RequestsInv
    <2>. SUFFICES ASSUME Init PROVE RequestsCounted
      BY TypeInit DEF RequestsInv
    <2>1. \A s \in Side : Requesting(s) = {} BY DEF Init, Requesting, Requests
    <2>2. \A s \in Side : buffers[s].m_requested = 0
      BY DEF Init, Allocate, Unallocated
    <2>. QED BY <2>1, <2>2, FS_EmptySet DEF RequestsCounted, Requesting, Requests
  <1>2. RequestsInv /\ [Next]_vars => RequestsInv'
    BY RequestsStep, TypeStep DEF RequestsInv
  <1>3. RequestsInv => RequestsCounted BY DEF RequestsInv
  <1>. QED BY <1>1, <1>2, <1>3, PTL DEF Spec

(***************************************************************************)
(* Every record that a producer was asked to emplace is undecided, or was  *)
(* accepted, rejected, or dropped and counted.                             *)
(***************************************************************************)
\* t's emplace has neither accepted, rejected nor dropped its record.
Undecided(t) ==
  \/ pc[t] \in {"announce", "reserve", "index", "place", "withdraw", "failed", "retry"}
  \/ pc[t] \in {"watermark", "return"} /\ addr[t] # NoAddr
  \/ /\ pc[t] \in FlushSteps \cup {"aborted"}
     /\ caller[t] = "retry" \/ (caller[t] = "watermark" /\ addr[t] # NoAddr)

Called == {r \in Records : r[2] <= calls[r[1]]}
Pending == {r \in Called : Undecided(r[1]) /\ r[2] = calls[r[1]]}
Dropped == Called \ (accepted \cup rejected \cup Pending)

FailedInv == \A t \in Threads : pc[t] = "failed" => addr[t] = NoAddr
RecordsInv ==
  /\ accepted \subseteq Called /\ rejected \subseteq Called
  /\ accepted \cap rejected = {} /\ (accepted \cup rejected) \cap Pending = {}
  /\ drop_count = Cardinality(Dropped)
AccountInv == TypeInv /\ FailedInv /\ RecordsInv

LEMMA RecordsFinite ==
  ASSUME NEW S, S \subseteq Records
  PROVE  IsFiniteSet(S) /\ Cardinality(S) \in Nat
  <1>1. IsFiniteSet(Producers) BY BufferAssumption, FS_Subset DEF Threads
  <1>2. IsFiniteSet(1 .. MaxRecords) BY BufferAssumption, FS_Interval
  <1>3. IsFiniteSet(Records) BY <1>1, <1>2, FS_Product DEF Records
  <1>. QED BY <1>3, FS_Subset, FS_CardinalityType

LEMMA DisjointUnion ==
  ASSUME NEW S, IsFiniteSet(S), NEW T, IsFiniteSet(T), S \cap T = {}
  PROVE  Cardinality(S \cup T) = Cardinality(S) + Cardinality(T)
  <1>1. Cardinality(S) \in Nat /\ Cardinality(T) \in Nat BY FS_CardinalityType
  <1>2. Cardinality(S \cap T) = 0 BY FS_EmptySet
  <1>3. Cardinality(S \cup T) = Cardinality(S) + Cardinality(T) - Cardinality(S \cap T)
    BY FS_Union
  <1>. QED BY <1>1, <1>2, <1>3

\* A step that calls and decides nothing.
LEMMA KeepRecords ==
  ASSUME AccountInv, UNCHANGED <<accepted, rejected, drop_count>>,
         \A t \in Producers : calls'[t] = calls[t] /\ (Undecided(t)' <=> Undecided(t))
  PROVE  RecordsInv'
  <1>1. \A r \in Records : r[1] \in Producers BY DEF Records
  <1>2. Called' = Called BY <1>1 DEF Called
  <1>3. Pending' = Pending
    <2>1. \A r \in Called : calls'[r[1]] = calls[r[1]] /\ (Undecided(r[1])' <=> Undecided(r[1]))
      BY <1>1 DEF Called
    <2>. QED BY <1>2, <2>1 DEF Pending
  <1>4. Dropped' = Dropped BY <1>2, <1>3 DEF Dropped
  <1>. QED BY <1>2, <1>3, <1>4 DEF AccountInv, RecordsInv

\* A thread that decides: its record was pending, and nobody else's changes.
LEMMA DecideRecord ==
  ASSUME AccountInv, NEW t \in Producers, Undecided(t), ~Undecided(t)', Emplacing(t),
         calls' = calls, \A u \in Threads : u # t => (Undecided(u)' <=> Undecided(u))
  PROVE  Value(t) \in Pending /\ Called' = Called /\ Pending' = Pending \ {Value(t)}
  <1>1. t \in Threads BY DEF Threads
  <1>2. Value(t) \in Records BY <1>1 DEF AccountInv, TypeInv, EmplaceInv
  <1>3. Value(t)[1] = t /\ Value(t)[2] = calls[t] /\ calls[t] \in Nat
    BY <1>1 DEF Value, AccountInv, TypeInv, TypeOK
  <1>4. Value(t) \in Pending BY <1>2, <1>3 DEF Pending, Called
  <1>5. Called' = Called BY DEF Called
  <1>6. \A r \in Records : /\ r[1] \in Producers
                           /\ r[1] = t /\ r[2] = calls[t] => r = Value(t)
    BY DEF Records, Value
  <1>7. Pending' = Pending \ {Value(t)}
    <2>1. \A r \in Called : r \in Records BY DEF Called
    <2>2. \A r \in Called : r[1] # t => (Undecided(r[1])' <=> Undecided(r[1])) /\ r # Value(t)
      BY <1>3, <1>6, <2>1 DEF Threads
    <2>3. \A r \in Called : r[1] = t => r \notin Pending' /\ (r \in Pending => r = Value(t))
      BY <1>6, <2>1 DEF Pending
    <2>4. Pending' \subseteq Pending \ {Value(t)}
      BY <1>5, <2>2, <2>3 DEF Pending
    <2>5. Pending \ {Value(t)} \subseteq Pending'
      BY <1>5, <2>2, <2>3 DEF Pending
    <2>. QED BY <2>4, <2>5
  <1>. QED BY <1>4, <1>5, <1>7

LEMMA AccountStep ==
  ASSUME Producers \cap Flushers = {}, AccountInv, [Next]_vars
  PROVE  FailedInv' /\ RecordsInv'
  <1>. USE DEF sharedVars, groupVars, emplaceVars, flushVars, workerVars, history
  <1>0. /\ TypeInv /\ pc \in [Threads -> Steps] /\ calls \in [Threads -> Nat]
        /\ addr \in [Threads -> Addr \cup {NoAddr}] /\ drop_count \in Nat
        /\ caller \in [Threads -> {"retry", "watermark", "tool", "finalizer"}]
        /\ wait \in [Threads -> BOOLEAN]
    BY DEF AccountInv, TypeInv, TypeOK
  <1>1. ASSUME NEW t \in Producers, EmplaceCall(t) PROVE FailedInv' /\ RecordsInv'
    <2> DEFINE v == <<t, calls[t] + 1>>
    <2>0. t \in Threads BY DEF Threads
    <2>1. /\ pc[t] = "idle" /\ pc' = [pc EXCEPT ![t] = "announce"]
          /\ calls' = [calls EXCEPT ![t] = @ + 1] /\ calls[t] < MaxRecords
          /\ UNCHANGED <<accepted, rejected, drop_count, addr, caller>>
      BY <1>1 DEF EmplaceCall, Goto
    <2>2. v \in Records /\ v \notin Called
      BY <1>0, <2>0, <2>1, BufferAssumption DEF Records, Called
    <2>3. \A r \in Records : /\ r[1] \in Threads /\ r[2] \in Nat
                             /\ (r[1] = t /\ r[2] = calls[t] + 1) <=> r = v
      BY DEF Records, Threads
    <2>4. \A u \in Threads : calls'[u] = IF u = t THEN calls[u] + 1 ELSE calls[u]
      BY <1>0, <2>1
    <2>5. Called' = Called \cup {v}
      <3>1. \A r \in Records : r[2] <= calls'[r[1]] <=> r[2] <= calls[r[1]] \/ r = v
        BY <1>0, <2>3, <2>4
      <3>. QED BY <2>2, <3>1 DEF Called
    <2>6. ~Undecided(t) /\ Undecided(t)' BY <1>0, <2>0, <2>1 DEF Undecided, FlushSteps
    <2>7. \A u \in Threads : u # t => (Undecided(u)' <=> Undecided(u))
      BY <1>0, <2>1 DEF Undecided
    <2>8. Pending' = Pending \cup {v}
      <3>1. \A r \in Called : r[1] # t => (r \in Pending' <=> r \in Pending)
        BY <2>3, <2>4, <2>5, <2>7 DEF Pending, Called
      <3>2. \A r \in Called : r[1] = t => r \notin Pending /\ r \notin Pending'
        BY <1>0, <2>0, <2>3, <2>4, <2>6 DEF Pending, Called
      <3>3. v \in Pending' BY <2>0, <2>4, <2>5, <2>6 DEF Pending
      <3>4. Pending' \subseteq Called \cup {v} /\ Pending \subseteq Called
        BY <2>5 DEF Pending
      <3>. QED BY <3>1, <3>2, <3>3, <3>4
    <2>. HIDE DEF v
    <2>9. Dropped' = Dropped BY <2>1, <2>2, <2>5, <2>8 DEF Dropped, AccountInv, RecordsInv
    <2>10. RecordsInv' BY <2>1, <2>2, <2>5, <2>8, <2>9 DEF AccountInv, RecordsInv
    <2>11. FailedInv' BY <1>0, <2>1 DEF AccountInv, FailedInv
    <2>. QED BY <2>10, <2>11
  <1>2. ASSUME NEW t \in Producers, EmplaceThrows(t) PROVE FailedInv' /\ RecordsInv'
    <2>0. t \in Threads BY DEF Threads
    <2>1. /\ pc[t] = "failed" /\ pc' = [pc EXCEPT ![t] = "idle"]
          /\ rejected' = rejected \cup {Value(t)}
          /\ UNCHANGED <<accepted, drop_count, addr, caller, calls>>
      BY <1>2 DEF EmplaceThrows, Goto
    <2>2. /\ Undecided(t) /\ ~Undecided(t)' /\ Emplacing(t)
          /\ \A u \in Threads : u # t => (Undecided(u)' <=> Undecided(u))
      BY <1>0, <2>0, <2>1 DEF Undecided, Emplacing, EmplaceSteps, FlushSteps
    <2>3. Value(t) \in Pending /\ Called' = Called /\ Pending' = Pending \ {Value(t)}
      BY <2>1, <2>2, DecideRecord
    <2>4. Pending \subseteq Called BY DEF Pending
    <2>5. Dropped' = Dropped BY <2>1, <2>3 DEF Dropped
    <2>6. RecordsInv' BY <2>1, <2>3, <2>4, <2>5 DEF AccountInv, RecordsInv
    <2>7. FailedInv' BY <1>0, <2>1 DEF AccountInv, FailedInv
    <2>. QED BY <2>6, <2>7
  <1>3. ASSUME NEW t \in Producers, EmplaceDrops(t) PROVE FailedInv' /\ RecordsInv'
    <2>0. t \in Threads BY DEF Threads
    <2>1. /\ pc[t] = "failed" /\ pc' = [pc EXCEPT ![t] = "watermark"]
          /\ drop_count' = drop_count + 1
          /\ UNCHANGED <<accepted, rejected, addr, caller, calls>>
      BY <1>3 DEF EmplaceDrops, Goto
    <2>2. addr[t] = NoAddr BY <2>0, <2>1 DEF AccountInv, FailedInv
    <2>3. /\ Undecided(t) /\ ~Undecided(t)' /\ Emplacing(t)
          /\ \A u \in Threads : u # t => (Undecided(u)' <=> Undecided(u))
      BY <1>0, <2>0, <2>1, <2>2 DEF Undecided, Emplacing, EmplaceSteps, FlushSteps
    <2>4. Value(t) \in Pending /\ Called' = Called /\ Pending' = Pending \ {Value(t)}
      BY <2>1, <2>3, DecideRecord
    <2>5. Pending \subseteq Called BY DEF Pending
    <2>6. Value(t) \notin Dropped /\ Dropped' = Dropped \cup {Value(t)}
      BY <2>1, <2>4, <2>5 DEF Dropped, AccountInv, RecordsInv
    <2>7. Dropped \subseteq Records BY DEF Dropped, Called
    <2>8. Cardinality(Dropped') = Cardinality(Dropped) + 1
      BY <2>6, <2>7, RecordsFinite, FS_AddElement
    <2>9. RecordsInv' BY <2>1, <2>4, <2>8 DEF AccountInv, RecordsInv
    <2>10. FailedInv' BY <1>0, <2>1 DEF AccountInv, FailedInv
    <2>. QED BY <2>9, <2>10
  <1>4. ASSUME NEW t \in Producers, EmplaceReturns(t) PROVE FailedInv' /\ RecordsInv'
    <2>0. t \in Threads BY DEF Threads
    <2>1. /\ pc[t] = "return" /\ pc' = [pc EXCEPT ![t] = "idle"]
          /\ accepted' = IF addr[t] = NoAddr THEN accepted ELSE accepted \cup {Value(t)}
          /\ UNCHANGED <<rejected, drop_count, addr, caller, calls>>
      BY <1>4 DEF EmplaceReturns, Goto
    <2>2. /\ ~Undecided(t)' /\ Emplacing(t) /\ (Undecided(t) <=> addr[t] # NoAddr)
          /\ \A u \in Threads : u # t => (Undecided(u)' <=> Undecided(u))
      BY <1>0, <2>0, <2>1 DEF Undecided, Emplacing, EmplaceSteps, FlushSteps
    <2>3. CASE addr[t] = NoAddr
      BY <2>1, <2>2, <2>3, KeepRecords, <1>0 DEF Threads, AccountInv, FailedInv
    <2>4. CASE addr[t] # NoAddr
      <3>1. Value(t) \in Pending /\ Called' = Called /\ Pending' = Pending \ {Value(t)}
        BY <2>1, <2>2, <2>4, DecideRecord
      <3>2. Pending \subseteq Called BY DEF Pending
      <3>3. accepted' = accepted \cup {Value(t)} BY <2>1, <2>4
      <3>4. Dropped' = Dropped BY <2>1, <3>1, <3>3 DEF Dropped
      <3>5. RecordsInv' BY <2>1, <3>1, <3>2, <3>3, <3>4 DEF AccountInv, RecordsInv
      <3>6. FailedInv' BY <1>0, <2>1 DEF AccountInv, FailedInv
      <3>. QED BY <3>5, <3>6
    <2>. QED BY <2>3, <2>4
  <1>5. ASSUME NEW t \in Producers,
               \/ AnnounceRequest(t) \/ ReserveSpace(t) \/ TakeHeader(t) \/ PlaceRecord(t)
               \/ WithdrawRequest(t) \/ EmplaceBlocks(t) \/ EmplaceRetries(t) \/ CheckWatermark(t)
        PROVE  FailedInv' /\ RecordsInv'
    <2>0. t \in Threads BY DEF Threads
    <2>1. UNCHANGED <<accepted, rejected, drop_count, calls>>
      BY <1>5 DEF AnnounceRequest, ReserveSpace, TakeHeader, PlaceRecord, WithdrawRequest,
                  EmplaceBlocks, EmplaceRetries, CheckWatermark
    <2>2. \A u \in Threads : u # t =>
            pc'[u] = pc[u] /\ addr'[u] = addr[u] /\ caller'[u] = caller[u]
      BY <1>0, <1>5 DEF AnnounceRequest, ReserveSpace, TakeHeader, PlaceRecord, WithdrawRequest,
                  EmplaceBlocks, EmplaceRetries, CheckWatermark, Goto
    <2>3. (Undecided(t)' <=> Undecided(t)) /\ (pc'[t] = "failed" => addr'[t] = NoAddr)
      <3>1. CASE AnnounceRequest(t)
        <4>1. /\ pc[t] = "announce"
              /\ \/ pc'[t] = "reserve"
                 \/ pc'[t] = "failed" /\ addr'[t] = NoAddr
          BY <1>0, <2>0, <3>1 DEF AnnounceRequest
        <4>. QED BY <4>1 DEF Undecided
      <3>2. CASE ReserveSpace(t) \/ TakeHeader(t) \/ PlaceRecord(t) \/ EmplaceRetries(t)
        <4>1. /\ pc[t] \in {"reserve", "index", "place", "retry"}
              /\ pc'[t] \in {"index", "withdraw", "place", "announce"}
          BY <1>0, <2>0, <3>2 DEF ReserveSpace, TakeHeader, PlaceRecord, EmplaceRetries, Goto
        <4>. QED BY <4>1 DEF Undecided
      <3>3. CASE WithdrawRequest(t)
        <4>1. /\ pc[t] = "withdraw" /\ addr' = addr
              /\ pc'[t] = IF addr[t] = NoAddr THEN "failed" ELSE "watermark"
          BY <1>0, <2>0, <3>3 DEF WithdrawRequest, Goto
        <4>. QED BY <4>1 DEF Undecided
      <3>4. CASE EmplaceBlocks(t)
        <4>1. pc[t] = "failed" /\ pc'[t] = "flush" /\ caller'[t] = "retry"
          BY <1>0, <2>0, <3>4 DEF EmplaceBlocks, Goto
        <4>. QED BY <4>1 DEF Undecided, FlushSteps
      <3>5. CASE CheckWatermark(t)
        <4>1. /\ pc[t] = "watermark" /\ addr' = addr
              /\ pc'[t] = "return" \/ (pc'[t] = "flush" /\ caller'[t] = "watermark")
          BY <1>0, <2>0, <3>5 DEF CheckWatermark
        <4>. QED BY <4>1 DEF Undecided, FlushSteps
      <3>. QED BY <1>5, <3>1, <3>2, <3>3, <3>4, <3>5
    <2>4. FailedInv' BY <2>2, <2>3 DEF AccountInv, FailedInv
    <2>5. \A u \in Producers : Undecided(u)' <=> Undecided(u)
      BY <2>2, <2>3 DEF Undecided, Threads
    <2>6. RecordsInv' BY <2>1, <2>5, KeepRecords
    <2>. QED BY <2>4, <2>6
  <1>6. ASSUME NEW t \in Threads,
               \/ FlushBegin(t) \/ LockGroup(t) \/ TasksDone(t) \/ FlushBusy(t)
               \/ FlushClaim(t) \/ SwapSides(t) \/ ExecTask(t) \/ UseDeletedGroup(t)
        PROVE  FailedInv' /\ RecordsInv'
    <2>1. UNCHANGED <<accepted, rejected, drop_count, calls, addr, caller>>
      BY <1>6 DEF FlushBegin, LockGroup, TasksDone, FlushBusy, FlushClaim, SwapSides, ExecTask,
                  UseDeletedGroup
    <2>2. /\ pc' = [pc EXCEPT ![t] = pc'[t]]
          /\ \/ pc[t] \in FlushSteps /\ pc'[t] \in FlushSteps \cup {"aborted", Resume(t)}
             \/ pc[t] \in {"quit", "quitting"} /\ pc'[t] \in {"quitting", "delete"}
      <3>1. CASE FlushBegin(t)
        <4>1. fini_status > 0 <=> ~(fini_status <= 0) BY <1>0 DEF TypeInv, TypeOK
        <4>2. pc'[t] \in {Resume(t), "aborted", "drain", "sync"}
          BY <1>0, <3>1, <4>1 DEF FlushBegin
        <4>. QED BY <1>0, <3>1, <4>2 DEF FlushBegin, FlushSteps
      <3>2. CASE LockGroup(t) BY <1>0, <3>2 DEF LockGroup, Goto, FlushSteps
      <3>3. CASE TasksDone(t) BY <1>0, <3>3 DEF TasksDone, Goto, FlushSteps
      <3>4. CASE FlushBusy(t) \/ FlushClaim(t) \/ SwapSides(t)
        BY <1>0, <3>4 DEF FlushBusy, FlushClaim, SwapSides, Goto, FlushSteps
      <3>5. CASE ExecTask(t)
        <4>1. Goto(t, "exec", "join") \/ Goto(t, "exec", Resume(t))
          BY <3>5 DEF ExecTask, Goto
        <4>. QED BY <1>0, <4>1 DEF Goto, FlushSteps
      <3>6. CASE UseDeletedGroup(t) BY <1>0, <3>6 DEF UseDeletedGroup, FlushSteps
      <3>. QED BY <1>6, <3>1, <3>2, <3>3, <3>4, <3>5, <3>6
    <2>3. \A u \in Threads : u # t => pc'[u] = pc[u] BY <1>0, <2>2
    <2>4. (Undecided(t)' <=> Undecided(t)) /\ pc'[t] # "failed"
      <3>1. CASE pc[t] \in FlushSteps /\ pc'[t] \in FlushSteps \cup {"aborted"}
        BY <2>1, <3>1 DEF Undecided, FlushSteps
      <3>2. CASE pc[t] \in FlushSteps /\ pc'[t] = Resume(t)
        <4>1. \/ caller[t] = "retry" /\ pc'[t] = "retry"
              \/ caller[t] = "watermark" /\ pc'[t] = "return"
              \/ caller[t] \in {"tool", "finalizer"} /\ pc'[t] \in {"idle", "quit"}
          BY <1>0, <3>2 DEF Resume
        <4>. QED BY <2>1, <3>2, <4>1 DEF Undecided, FlushSteps
      <3>3. CASE pc[t] \in {"quit", "quitting"} /\ pc'[t] \in {"quitting", "delete"}
        BY <2>1, <3>3 DEF Undecided, FlushSteps
      <3>. QED BY <2>2, <3>1, <3>2, <3>3
    <2>5. FailedInv' BY <2>1, <2>3, <2>4 DEF AccountInv, FailedInv
    <2>6. \A u \in Producers : Undecided(u)' <=> Undecided(u)
      BY <2>1, <2>3, <2>4 DEF Undecided, Threads
    <2>7. RecordsInv' BY <2>1, <2>6, KeepRecords
    <2>. QED BY <2>5, <2>7
  <1>7. ASSUME NEW t \in Flushers \cup Finalizers,
               FlushCall(t) \/ FinalizeBegin(t) \/ DeleteGroup(t) \/ FinalizeEnd(t)
        PROVE  FailedInv' /\ RecordsInv'
    <2>0. t \in Threads /\ t \notin Producers BY BufferAssumption DEF Threads
    <2>1. UNCHANGED <<accepted, rejected, drop_count, addr>>
      BY <1>7 DEF FlushCall, FinalizeBegin, DeleteGroup, FinalizeEnd
    <2>2. \A u \in Threads : u # t =>
            pc'[u] = pc[u] /\ calls'[u] = calls[u] /\ caller'[u] = caller[u]
      BY <1>0, <1>7 DEF FlushCall, FinalizeBegin, DeleteGroup, FinalizeEnd, Goto
    <2>3. pc'[t] # "failed"
      BY <1>0, <1>7, <2>0 DEF FlushCall, FinalizeBegin, DeleteGroup, FinalizeEnd, Goto
    <2>4. FailedInv' BY <2>1, <2>2, <2>3 DEF AccountInv, FailedInv
    <2>5. \A u \in Producers : calls'[u] = calls[u] /\ (Undecided(u)' <=> Undecided(u))
      BY <2>0, <2>1, <2>2 DEF Undecided, Threads
    <2>. QED BY <2>1, <2>4, <2>5, KeepRecords
  <1>8. ASSUME \/ TaskBegin \/ CheckCount \/ CheckRequested \/ CollectHeaders \/ InvokeCallback
               \/ ClearBuffer \/ ReleaseSyncer \/ TaskEnd \/ UNCHANGED vars
               \/ \E t \in Threads : FlushSpins(t)
        PROVE  FailedInv' /\ RecordsInv'
    <2>1. UNCHANGED <<pc, calls, addr, caller, accepted, rejected, drop_count>>
      BY <1>8 DEF TaskBegin, CheckCount, CheckRequested, CollectHeaders, InvokeCallback,
                  ClearBuffer, ReleaseSyncer, TaskEnd, vars, FlushSpins, WorkerUnchanged
    <2>2. \A u \in Producers : Undecided(u)' <=> Undecided(u) BY <2>1 DEF Undecided
    <2>3. RecordsInv' BY <2>1, <2>2, KeepRecords
    <2>. QED BY <2>1, <2>3 DEF AccountInv, FailedInv
  <1>. QED
    BY <1>1, <1>2, <1>3, <1>4, <1>5, <1>6, <1>7, <1>8
    DEF Next, Emplace, Flush, Finalize, Worker, Finished

LEMMA AccountInit == Init => AccountInv
  <1>. SUFFICES ASSUME Init PROVE AccountInv
    OBVIOUS
  <1>1. \A r \in Records : r[1] \in Threads /\ r[2] \in Nat /\ r[2] # 0
    BY BufferAssumption DEF Records, Threads
  <1>2. Called = {} BY <1>1 DEF Init, Called
  <1>3. Pending = {} /\ Dropped = {} BY <1>2 DEF Pending, Dropped
  <1>4. RecordsInv BY <1>3, FS_EmptySet DEF Init, RecordsInv
  <1>5. FailedInv BY DEF Init, FailedInv
  <1>. QED BY <1>4, <1>5, TypeInit DEF AccountInv

LEMMA AccountImplies == AccountInv => EveryRecordAccounted
  <1>. SUFFICES ASSUME AccountInv, \A t \in Producers : pc[t] = "idle"
                PROVE  drop_count + Cardinality(accepted) + Cardinality(rejected)
                         = Cardinality(Called)
    BY DEF EveryRecordAccounted, Called
  <1>1. \A r \in Called : r[1] \in Producers BY DEF Called, Records
  <1>2. Pending = {} BY <1>1 DEF Pending, Undecided, FlushSteps
  <1>3. Called \subseteq Records BY DEF Called
  <1>4. /\ accepted \subseteq Records /\ rejected \subseteq Records /\ Dropped \subseteq Records
        /\ accepted \cup rejected \subseteq Records
    BY <1>3 DEF Dropped, AccountInv, RecordsInv
  <1>5. /\ IsFiniteSet(accepted) /\ IsFiniteSet(rejected) /\ IsFiniteSet(Dropped)
        /\ IsFiniteSet(accepted \cup rejected)
        /\ Cardinality(accepted) \in Nat /\ Cardinality(rejected) \in Nat
        /\ Cardinality(Dropped) \in Nat
    BY <1>4, RecordsFinite
  <1>6. Cardinality(accepted \cup rejected) = Cardinality(accepted) + Cardinality(rejected)
    BY <1>5, DisjointUnion DEF AccountInv, RecordsInv
  <1>7. /\ (accepted \cup rejected) \cap Dropped = {}
        /\ (accepted \cup rejected) \cup Dropped = Called
    BY <1>2 DEF Dropped, AccountInv, RecordsInv
  <1>8. Cardinality(Called) = Cardinality(accepted \cup rejected) + Cardinality(Dropped)
    BY <1>5, <1>7, DisjointUnion
  <1>. QED BY <1>5, <1>6, <1>8 DEF AccountInv, RecordsInv

\* When the producers are at rest, every record they were asked to emplace was accepted,
\* rejected, or dropped and counted in drop_count, once (buffer.hpp's emplace), however
\* flushes and finalization overlap them.
THEOREM RecordsAccounted ==
  ASSUME Producers \cap Flushers = {}
  PROVE  Spec => []EveryRecordAccounted
  <1>1. AccountInv /\ [Next]_vars => AccountInv'
    BY AccountStep, TypeStep DEF AccountInv
  <1>. QED BY <1>1, AccountInit, AccountImplies, PTL DEF Spec

(***************************************************************************)
(* What goes wrong with records is the fault of a late emplace alone.      *)
(***************************************************************************)
\* The emplace that t is in has not stored its record ...
Unstored(t) ==
  \/ pc[t] \in {"announce", "reserve", "index", "place", "failed", "retry"}
  \/ pc[t] = "withdraw" /\ addr[t] = NoAddr
  \/ pc[t] \in FlushSteps /\ caller[t] = "retry"

\* ... or has, and is on its way to say so.
Returning(t) ==
  /\ addr[t] # NoAddr
  /\ \/ pc[t] \in {"withdraw", "watermark", "return"}
     \/ pc[t] \in FlushSteps /\ caller[t] = "watermark"

Reserved(t) == pc[t] \in {"index", "place"} /\ addr[t] # NoAddr

\* Every header of a side leads to a record of its own, below the write count.
CellsInv ==
  \A s \in Side : \A i \in RecordHeaders(buffers[s]) :
    /\ buffers[s].m_headers[i] < count(buffers[s])
    /\ Payload(buffers[s], i) \in Records
    /\ \A j \in RecordHeaders(buffers[s]) :
         buffers[s].m_headers[i] = buffers[s].m_headers[j] => i = j

\* An address that was reserved is its thread's alone.
ReservedInv ==
  \A t \in Threads : Reserved(t) =>
    /\ addr[t] < count(buffers[idx[t]])
    /\ \A i \in RecordHeaders(buffers[idx[t]]) : buffers[idx[t]].m_headers[i] # addr[t]
    /\ \A u \in Threads : u # t /\ Reserved(u) /\ idx[u] = idx[t] => addr[u] # addr[t]

\* So is an index, which is empty still, and what is behind it is of other threads.
PlacingInv ==
  \A t \in Threads : pc[t] = "place" =>
    /\ index[t] \in DOMAIN buffers[idx[t]].m_headers
    /\ buffers[idx[t]].m_headers[index[t]] = NoAddr
    /\ \A u \in Threads : u # t /\ pc[u] = "place" /\ idx[u] = idx[t] => index[u] # index[t]
    /\ \A j \in RecordHeaders(buffers[idx[t]]) : j > index[t] => Payload(buffers[idx[t]], j)[1] # t

\* Nothing is stored in a side that was not allocated.
AllocatedInv ==
  \A s \in Side : ~buffers[s].allocated =>
    /\ count(buffers[s]) = 0
    /\ \A t \in Threads : InFlight(t) /\ idx[t] = s => pc[t] = "announce"

\* Sides hold records as emplace leaves them, at every point of every emplace.
StoreInv == CellsInv /\ ReservedInv /\ PlacingInv /\ AllocatedInv

\* Of two records of one producer, q was emplaced first.
Older(q, r) == q[1] = r[1] => q[2] < r[2]
\* The side that is out of use.
Other == 1 - buffer_idx

\* A producer's records are stored in the order in which it emplaces them: what was
\* delivered, then the side that is out of use, then the current one.
OrderInv ==
  /\ \A s \in Side : \A i, j \in RecordHeaders(buffers[s]) :
       i < j => Older(Payload(buffers[s], i), Payload(buffers[s], j))
  /\ \A q \in Held(buffers[Other]), r \in Held(buffers[buffer_idx]) : Older(q, r)
  /\ \A s \in Side : \A q \in Delivered, r \in Held(buffers[s]) :
       Older(q, r) \/ (worker = "clear" /\ s = Head(m_tasks))
  /\ \A t \in Threads : InFlight(t) /\ idx[t] # buffer_idx =>
       \A r \in Held(buffers[buffer_idx]) : r[1] # t
  /\ InOrder /\ NoDuplicates /\ \A d \in delivered : d[1] <= callbacks

\* The records that were delivered or are held in a side.
Stored == Delivered \cup Held(buffers[0]) \cup Held(buffers[1])

\* What is stored is of a call that has stored it.
AgeInv ==
  \A r \in Stored : /\ r \in Records /\ r[2] <= calls[r[1]]
                    /\ Unstored(r[1]) => r[2] < calls[r[1]]

\* Nothing that was stored goes away.
KeptInv ==
  /\ accepted \subseteq Stored
  /\ \A t \in Threads : Returning(t) => Value(t) \in Stored
  /\ FailedInv

\* No emplace is under way in s, which in a clean side holds nothing either.
Settled(s) == \A t \in Threads : ~(InFlight(t) /\ idx[t] = s)
Clean(s) == RecordHeaders(buffers[s]) = {} /\ Settled(s)

\* Nobody holds the claim, or who holds it has yet to swap the sides.
Unclaimed == ~syncer \/ \E t \in Threads : pc[t] = "swap"

\* What the task finds of its side stays so; the side that is out of use is clean
\* when it is nobody's.
TaskInv ==
  /\ worker \in {"callback", "clear"} => Settled(Head(m_tasks))
  /\ worker \in {"requested", "release"} => Clean(Head(m_tasks))
  /\ worker = "callback" => headers = RecordHeaders(Draining)
  /\ worker = "clear" => Held(Draining) \subseteq Delivered
  /\ Unclaimed => Clean(Other)

\* What a flush has to wait for: delivered, or in the side that it swapped out.
OweInv ==
  \A t \in Threads :
    /\ before[t] \subseteq accepted
    /\ pc[t] = "exec" => owed[t] \cup before[t] \subseteq Delivered \cup Held(buffers[Other])
    /\ pc[t] \in {"join", "joining"} =>
         owed[t] \cup before[t] \subseteq
           Delivered \cup (IF LiveTasks = << >> THEN {} ELSE Held(buffers[Other]))

\* The inductive invariant of a run in which no emplace was late.
DeliveryInv == StoreInv /\ OrderInv /\ AgeInv /\ KeptInv /\ TaskInv /\ OweInv

\* The finalizer is one thread, which flushes while the task group is there and waits.
QuitSteps == {"quit", "quitting", "delete", "finish", "finalized"}
FinalizerInv ==
  /\ \A t \in Finalizers :
       /\ pc[t] \in {"idle"} \cup FlushSteps \cup QuitSteps
       /\ pc[t] = "idle" => before[t] = {}
       /\ pc[t] \in FlushSteps => /\ fini_status = -1 /\ task_group
                                  /\ caller[t] = "finalizer" /\ wait[t]
       /\ pc[t] \in QuitSteps \ {"finalized"} => fini_status = -1
       /\ pc[t] \in {"quit", "quitting", "delete"} => task_group
  /\ \A t, u \in Finalizers : pc[t] # "idle" /\ pc[u] # "idle" => t = u
  /\ fini_status = 0 => task_group /\ \A t \in Finalizers : pc[t] = "idle"

\* Once the finalizer has flushed, what was accepted before is delivered.
FinalInv ==
  \A t \in Finalizers : pc[t] \in QuitSteps => before[t] \subseteq Delivered

\* A step after which every header leads where it led before.
SameRecords ==
  \A s \in Side :
    /\ RecordHeaders(buffers'[s]) = RecordHeaders(buffers[s])
    /\ \A i \in RecordHeaders(buffers[s]) : Payload(buffers'[s], i) = Payload(buffers[s], i)

\* A step that writes neither headers nor records nor reserves space.
SameContents ==
  \A s \in Side : /\ buffers'[s].allocated = buffers[s].allocated
                  /\ buffers'[s].m_write_count = buffers[s].m_write_count
                  /\ buffers'[s].m_headers = buffers[s].m_headers
                  /\ buffers'[s].memory = buffers[s].memory

\* What t may do in a step that stores nothing: it gets neither address nor index; it
\* enters a side only where emplaces go, and is owed what it was.
KeepsStore(t) ==
  /\ Reserved(t)' => Reserved(t) /\ addr'[t] = addr[t] /\ idx'[t] = idx[t]
  /\ pc'[t] = "place" => pc[t] = "place" /\ index'[t] = index[t] /\ idx'[t] = idx[t]
  /\ InFlight(t)' => pc'[t] = "announce" \/ buffers[idx'[t]].allocated

\* ... begins no call in the middle of one, and does not come to have stored a record.
KeepsCalls(t) ==
  /\ calls'[t] >= calls[t]
  /\ Unstored(t)' => Unstored(t) \/ calls'[t] > calls[t]
  /\ Returning(t)' => Returning(t) /\ calls'[t] = calls[t]
  /\ pc'[t] = "failed" => addr'[t] = NoAddr

\* ... and emplaces into the side in use, or the one in which it was at it.
KeepsRest(t) ==
  /\ KeepsCalls(t)
  /\ InFlight(t)' => idx'[t] = buffer_idx \/ (InFlight(t) /\ idx'[t] = idx[t])
  /\ before'[t] = before[t] \/ before'[t] = accepted
  /\ pc'[t] = "exec" => pc[t] = "exec" /\ owed'[t] = owed[t] /\ before'[t] = before[t]
  /\ pc'[t] \in {"join", "joining"} =>
       pc[t] \in {"join", "joining"} /\ owed'[t] = owed[t] /\ before'[t] = before[t]

\* The records a side holds are what its headers lead to.
LEMMA HeldSame == SameRecords => \A s \in Side : Held(buffers'[s]) = Held(buffers[s])
  BY DEF SameRecords, Held

\* What was not written reads as before.
LEMMA ContentsRecords ==
  SameContents => /\ SameRecords
                  /\ \A s \in Side : \A i : Payload(buffers'[s], i) = Payload(buffers[s], i)
                  /\ \A s \in Side : count(buffers'[s]) = count(buffers[s])
  BY DEF SameContents, SameRecords, RecordHeaders, Payload, count

\* A step that writes nothing keeps the sides in order.
LEMMA StoreKept ==
  ASSUME TypeInv, TypeInv', StoreInv, SameContents, \A t \in Threads : KeepsStore(t)
  PROVE  StoreInv'
  <1>1. /\ \A t \in Threads : idx[t] \in Side /\ idx'[t] \in Side
        /\ \A s \in Side : RecordHeaders(buffers'[s]) = RecordHeaders(buffers[s])
        /\ \A s \in Side : \A i : Payload(buffers'[s], i) = Payload(buffers[s], i)
        /\ \A s \in Side : count(buffers'[s]) = count(buffers[s])
        /\ \A s \in Side : buffers'[s].m_headers = buffers[s].m_headers
    BY ContentsRecords DEF TypeInv, TypeOK, SameRecords, SameContents
  <1>2. CellsInv' BY <1>1 DEF StoreInv, CellsInv
  <1>3. ReservedInv'
    <2>1. \A t \in Threads : Reserved(t)' => Reserved(t) /\ addr'[t] = addr[t] /\ idx'[t] = idx[t]
      BY DEF KeepsStore
    <2>. QED BY <1>1, <2>1 DEF StoreInv, ReservedInv
  <1>4. PlacingInv'
    <2>1. \A t \in Threads : pc'[t] = "place" =>
            pc[t] = "place" /\ index'[t] = index[t] /\ idx'[t] = idx[t]
      BY DEF KeepsStore
    <2>. QED BY <1>1, <2>1 DEF StoreInv, PlacingInv
  <1>5. AllocatedInv'
    BY <1>1 DEF StoreInv, AllocatedInv, KeepsStore, SameContents
  <1>. QED BY <1>2, <1>3, <1>4, <1>5 DEF StoreInv

\* Two sides: the one in use and the other, which is what a task drains.
LEMMA TaskSide ==
  ASSUME FlushInv
  PROVE  /\ buffer_idx \in Side /\ Other \in Side /\ Other # buffer_idx
         /\ \A s \in Side : s # buffer_idx => s = Other
         /\ worker # "idle" => Head(m_tasks) \in Side /\ m_tasks # << >>
         /\ worker \notin {"idle", "done"} => Head(m_tasks) = Other
         /\ LiveTasks # << >> => Claimants = {}
  <1>1. buffer_idx \in Side /\ m_tasks \in Seq(Side) BY DEF FlushInv, TypeInv, TypeOK
  <1>2. worker # "idle" => m_tasks # << >> BY DEF FlushInv, TypeInv, WorkerInv
  <1>3. /\ Other \in Side /\ Other # buffer_idx /\ \A s \in Side : s # buffer_idx => s = Other
        /\ m_tasks # << >> => Head(m_tasks) \in Side
    BY <1>1 DEF Side, Other
  <1>4. ASSUME worker \notin {"idle", "done"} PROVE Head(m_tasks) = Other
    <2>1. LiveTasks = m_tasks /\ 1 \in DOMAIN m_tasks /\ Head(m_tasks) = m_tasks[1]
      BY <1>1, <1>2, <1>4 DEF LiveTasks
    <2>2. Head(m_tasks) # buffer_idx BY <2>1 DEF FlushInv, FlushExclusive
    <2>. QED BY <1>2, <1>3, <1>4, <2>2
  <1>5. ASSUME LiveTasks # << >> PROVE Claimants = {}
    <2>1. LiveTasks \in Seq(Side) BY <1>1, <1>2 DEF LiveTasks
    <2>2. Len(LiveTasks) \in Nat /\ Len(LiveTasks) # 0 BY <1>5, <2>1, EmptySeq
    <2>3. Len(LiveTasks) <= (IF Claimants = {} THEN 1 ELSE 0) BY DEF FlushInv, FlushExclusive
    <2>4. ~(Len(LiveTasks) <= 0) BY <2>2
    <2>. QED BY <2>3, <2>4, Zenon
  <1>. QED BY <1>1, <1>2, <1>3, <1>4, <1>5

\* A step that stores nothing keeps the ages and what was stored.
LEMMA CallsKept ==
  ASSUME TypeInv, TypeInv', AgeInv, KeptInv, Stored' = Stored, accepted' \subseteq Stored,
         \A t \in Threads : KeepsCalls(t)
  PROVE  AgeInv' /\ KeptInv'
  <1>1. AgeInv'
    <2>. SUFFICES ASSUME NEW r \in Stored
                  PROVE  /\ r \in Records /\ r[2] <= calls'[r[1]]
                         /\ Unstored(r[1])' => r[2] < calls'[r[1]]
      BY DEF AgeInv
    <2>1. /\ r \in Records /\ r[2] <= calls[r[1]]
          /\ Unstored(r[1]) => r[2] < calls[r[1]]
      BY DEF AgeInv
    <2>2. r[1] \in Threads /\ r[2] \in Nat BY <2>1 DEF Records, Threads
    <2>3. /\ calls[r[1]] \in Nat /\ calls'[r[1]] >= calls[r[1]]
          /\ Unstored(r[1])' => Unstored(r[1]) \/ calls'[r[1]] > calls[r[1]]
      BY <2>2 DEF KeepsCalls, TypeInv, TypeOK
    <2>4. calls'[r[1]] \in Nat BY <2>2 DEF TypeInv, TypeOK
    <2>. QED BY <2>1, <2>2, <2>3, <2>4
  <1>2. KeptInv'
    <2>1. \A t \in Threads : Returning(t)' => Returning(t) /\ Value(t)' = Value(t)
      BY DEF KeepsCalls, Value
    <2>. QED BY <2>1 DEF KeptInv, KeepsCalls, FailedInv
  <1>. QED BY <1>1, <1>2

\* A step that stores nothing, of any thread, keeps what is due to be delivered.
LEMMA RestKept ==
  ASSUME FlushInv, TypeInv', OrderInv, AgeInv, KeptInv, TaskInv, OweInv, SameRecords,
         UNCHANGED <<buffer_idx, worker, headers, callbacks, delivered, m_tasks>>,
         accepted \subseteq accepted', accepted' \subseteq Stored,
         Unclaimed' => Unclaimed, \A t \in Threads : KeepsRest(t)
  PROVE  OrderInv' /\ AgeInv' /\ KeptInv' /\ TaskInv' /\ OweInv'
  <1>1. \A s \in Side : Held(buffers'[s]) = Held(buffers[s]) BY HeldSame
  <1>2. /\ buffer_idx \in Side /\ Other \in Side /\ Other # buffer_idx /\ Other' = Other
        /\ worker \notin {"idle", "done"} => Head(m_tasks) = Other
    BY TaskSide DEF Other
  <1>3. Delivered' = Delivered /\ Stored' = Stored
    BY <1>1 DEF Delivered, Stored, Side
  <1>4. \A t \in Threads, s \in Side : InFlight(t)' /\ idx'[t] = s /\ s # buffer_idx
                                         => InFlight(t) /\ idx[t] = s
    BY DEF KeepsRest
  <1>5. OrderInv'
    <2>1. \A s \in Side : \A i, j \in RecordHeaders(buffers'[s]) :
            i < j => Older(Payload(buffers'[s], i), Payload(buffers'[s], j))
      BY DEF OrderInv, SameRecords
    <2>2. /\ \A q \in Held(buffers'[Other]), r \in Held(buffers'[buffer_idx]) : Older(q, r)
          /\ \A s \in Side : \A q \in Delivered, r \in Held(buffers'[s]) :
               Older(q, r) \/ (worker = "clear" /\ s = Head(m_tasks))
      BY <1>1, <1>2 DEF OrderInv
    <2>3. \A t \in Threads : InFlight(t)' /\ idx'[t] # buffer_idx =>
            \A r \in Held(buffers'[buffer_idx]) : r[1] # t
      <3>1. \A t \in Threads : InFlight(t)' /\ idx'[t] # buffer_idx =>
              InFlight(t) /\ idx[t] # buffer_idx
        BY DEF KeepsRest
      <3>. QED BY <1>1, <1>2, <3>1 DEF OrderInv
    <2>4. InOrder' /\ NoDuplicates' /\ \A d \in delivered' : d[1] <= callbacks'
      BY DEF OrderInv, InOrder, NoDuplicates
    <2>. QED BY <1>2, <1>3, <2>1, <2>2, <2>3, <2>4 DEF OrderInv
  <1>6. AgeInv' /\ KeptInv'
    <2>1. \A t \in Threads : KeepsCalls(t) BY DEF KeepsRest
    <2>. QED BY <1>3, <2>1, CallsKept DEF FlushInv
  <1>8. TaskInv'
    <2>1. Settled(Other) => Settled(Other)' BY <1>2, <1>4 DEF Settled
    <2>2. RecordHeaders(buffers'[Other]) = RecordHeaders(buffers[Other])
      BY <1>2 DEF SameRecords
    <2>3. Clean(Other) => Clean(Other)' BY <1>2, <2>1, <2>2 DEF Clean
    <2>4. worker \in {"requested", "callback", "clear", "release"} => Head(m_tasks) = Other
      BY <1>2
    <2>5. /\ worker' = worker /\ Head(m_tasks)' = Head(m_tasks) /\ headers' = headers
          /\ Other' = Other
      BY <1>2
    <2>6. worker' \in {"callback", "clear"} => Settled(Head(m_tasks))'
      BY <2>1, <2>4, <2>5 DEF TaskInv, Settled
    <2>7. worker' \in {"requested", "release"} => Clean(Head(m_tasks))'
      BY <2>3, <2>4, <2>5 DEF TaskInv, Clean, Settled
    <2>8. worker' = "callback" => headers' = RecordHeaders(Draining)'
      BY <2>2, <2>4, <2>5 DEF TaskInv, Draining
    <2>9. worker' = "clear" => Held(Draining)' \subseteq Delivered'
      BY <1>1, <1>2, <1>3, <2>4, <2>5 DEF TaskInv, Draining
    <2>10. Unclaimed' => Clean(Other)' BY <2>3 DEF TaskInv
    <2>. QED BY <2>6, <2>7, <2>8, <2>9, <2>10 DEF TaskInv
  <1>9. OweInv'
    <2>1. LiveTasks' = LiveTasks BY DEF LiveTasks
    <2>2. \A t \in Threads : before'[t] \subseteq accepted' BY DEF KeepsRest, OweInv
    <2>. QED BY <1>1, <1>2, <1>3, <2>1, <2>2 DEF KeepsRest, OweInv
  <1>. QED BY <1>5, <1>6, <1>8, <1>9

\* t is the only thread that moves.
Moves(t) ==
  \A u \in Threads : u # t =>
    /\ pc'[u] = pc[u] /\ idx'[u] = idx[u] /\ addr'[u] = addr[u] /\ index'[u] = index[u]
    /\ calls'[u] = calls[u] /\ caller'[u] = caller[u]
    /\ before'[u] = before[u] /\ owed'[u] = owed[u]

\* A thread that does not move may do what it does.
LEMMA OthersKeep ==
  ASSUME DeliveryInv, NEW u \in Threads,
         pc'[u] = pc[u], idx'[u] = idx[u], addr'[u] = addr[u], index'[u] = index[u],
         calls'[u] = calls[u], caller'[u] = caller[u], before'[u] = before[u],
         owed'[u] = owed[u], calls[u] \in Nat, idx[u] \in Side
  PROVE  KeepsStore(u) /\ KeepsRest(u)
  <1>1. /\ InFlight(u)' <=> InFlight(u)
        /\ Reserved(u)' <=> Reserved(u)
        /\ Unstored(u)' <=> Unstored(u)
        /\ Returning(u)' <=> Returning(u)
    BY DEF InFlight, Reserved, Unstored, Returning
  <1>2. InFlight(u) => pc[u] = "announce" \/ buffers[idx[u]].allocated
    BY DEF DeliveryInv, StoreInv, AllocatedInv
  <1>3. pc[u] = "failed" => addr[u] = NoAddr
    BY DEF DeliveryInv, KeptInv, FailedInv
  <1>4. KeepsStore(u) BY <1>1, <1>2 DEF KeepsStore
  <1>5. KeepsRest(u) BY <1>1, <1>3 DEF KeepsRest, KeepsCalls
  <1>. QED BY <1>4, <1>5

\* So may everybody but the one that moves.
LEMMA OthersKeepAll ==
  ASSUME TypeInv, DeliveryInv, NEW t \in Threads, Moves(t)
  PROVE  \A u \in Threads : u # t => KeepsStore(u) /\ KeepsRest(u)
  <1>. SUFFICES ASSUME NEW u \in Threads, u # t PROVE KeepsStore(u) /\ KeepsRest(u)
    OBVIOUS
  <1>1. calls[u] \in Nat /\ idx[u] \in Side BY DEF TypeInv, TypeOK
  <1>2. /\ pc'[u] = pc[u] /\ idx'[u] = idx[u] /\ addr'[u] = addr[u] /\ index'[u] = index[u]
        /\ calls'[u] = calls[u] /\ caller'[u] = caller[u]
        /\ before'[u] = before[u] /\ owed'[u] = owed[u]
    BY DEF Moves
  <1>. QED BY <1>1, <1>2, OthersKeep

\* What the worker and the swaps change.
SameDrain == UNCHANGED <<buffer_idx, worker, headers, callbacks, delivered, m_tasks>>

\* A step of one thread that stores nothing and leaves the drain alone, ...
LEMMA MoveKeepsRest ==
  ASSUME FlushInv, TypeInv', DeliveryInv, SameRecords, SameDrain,
         accepted \subseteq accepted', accepted' \subseteq Stored, Unclaimed' => Unclaimed,
         NEW t \in Threads, Moves(t), KeepsRest(t)
  PROVE  OrderInv' /\ AgeInv' /\ KeptInv' /\ TaskInv' /\ OweInv'
  <1>1. \A u \in Threads : KeepsRest(u)
    BY OthersKeepAll DEF FlushInv
  <1>. QED BY <1>1, RestKept DEF DeliveryInv, SameDrain

\* ... and one that does not write to the sides at all.
LEMMA MoveKeeps ==
  ASSUME FlushInv, TypeInv', DeliveryInv, SameContents, SameDrain,
         accepted \subseteq accepted', accepted' \subseteq Stored, Unclaimed' => Unclaimed,
         NEW t \in Threads, Moves(t), KeepsStore(t), KeepsRest(t)
  PROVE  DeliveryInv'
  <1>1. \A u \in Threads : KeepsStore(u)
    BY OthersKeepAll DEF FlushInv
  <1>2. StoreInv' BY <1>1, StoreKept DEF DeliveryInv, FlushInv
  <1>3. SameRecords BY ContentsRecords
  <1>. QED BY <1>2, <1>3, MoveKeepsRest DEF DeliveryInv

\* What was accepted is delivered or held in a side.
LEMMA StoredNow == DeliveryInv => accepted \subseteq Stored
  BY DEF DeliveryInv, KeptInv

\* A step that leaves the sides alone writes nothing to them.
LEMMA SameBuffers == UNCHANGED buffers => SameContents
  BY DEF SameContents

\* The steps of emplace and flush that neither store nor claim anything.
LEMMA EmplaceMoves ==
  ASSUME FlushInv, TypeInv', DeliveryInv, Quiet, NEW t \in Producers,
         \/ EmplaceCall(t) \/ EmplaceThrows(t) \/ EmplaceBlocks(t) \/ EmplaceRetries(t)
         \/ EmplaceDrops(t) \/ CheckWatermark(t) \/ EmplaceReturns(t)
  PROVE  DeliveryInv'
  <1>. USE DEF sharedVars, groupVars, emplaceVars, flushVars, workerVars, history
  <1>0. /\ t \in Threads /\ pc \in [Threads -> Steps] /\ idx \in [Threads -> Side]
        /\ calls \in [Threads -> Nat] /\ wait \in [Threads -> BOOLEAN]
        /\ caller \in [Threads -> {"retry", "watermark", "tool", "finalizer"}]
        /\ buffer_idx \in Side
    BY DEF FlushInv, TypeInv, TypeOK, Threads
  <1>1. Unclaimed' => Unclaimed BY DEF Quiet, Unclaimed
  <1>2. SameContents /\ SameDrain
    <2>1. UNCHANGED <<buffers, buffer_idx, worker, headers, callbacks, delivered, m_tasks>>
      BY DEF EmplaceCall, EmplaceThrows, EmplaceBlocks, EmplaceRetries, EmplaceDrops,
             CheckWatermark, EmplaceReturns
    <2>. QED BY <2>1, SameBuffers DEF SameDrain
  <1>3. /\ pc[t] \in {"idle", "failed", "retry", "watermark", "return"}
        /\ pc'[t] \in {"idle", "announce", "flush", "watermark", "return"}
        /\ \A u \in Threads : u # t => pc'[u] = pc[u]
    BY <1>0 DEF EmplaceCall, EmplaceThrows, EmplaceBlocks, EmplaceRetries, EmplaceDrops,
             CheckWatermark, EmplaceReturns, Goto
  <1>4. /\ UNCHANGED <<addr, index, before, owed>>
        /\ \A u \in Threads : u # t => /\ idx'[u] = idx[u] /\ calls'[u] = calls[u]
                                       /\ caller'[u] = caller[u]
    BY <1>0 DEF EmplaceCall, EmplaceThrows, EmplaceBlocks, EmplaceRetries, EmplaceDrops,
             CheckWatermark, EmplaceReturns
  <1>5. Moves(t) BY <1>3, <1>4 DEF Moves
  <1>6. pc'[t] = "announce" => idx'[t] = buffer_idx
    BY <1>0 DEF EmplaceCall, EmplaceThrows, EmplaceBlocks, EmplaceRetries, EmplaceDrops,
             CheckWatermark, EmplaceReturns, Goto
  <1>7. KeepsStore(t) BY <1>3 DEF KeepsStore, Reserved, InFlight
  <1>8. calls'[t] >= calls[t] /\ (calls'[t] = calls[t] \/ (pc[t] = "idle" /\ calls'[t] > calls[t]))
    BY <1>0 DEF EmplaceCall, EmplaceThrows, EmplaceBlocks, EmplaceRetries, EmplaceDrops,
             CheckWatermark, EmplaceReturns, Goto
  <1>9. FailedInv /\ (pc[t] = "failed" => addr[t] = NoAddr)
    BY <1>0 DEF DeliveryInv, KeptInv, FailedInv
  <1>10. /\ Unstored(t)' => Unstored(t) \/ calls'[t] > calls[t]
         /\ Returning(t)' => Returning(t) /\ calls'[t] = calls[t]
    <2>1. CASE EmplaceCall(t)
      <3>1. pc'[t] = "announce" /\ calls'[t] > calls[t] BY <1>0, <2>1 DEF EmplaceCall, Goto
      <3>. QED BY <3>1 DEF Returning, FlushSteps
    <2>2. CASE EmplaceThrows(t)
      <3>1. pc'[t] = "idle" BY <1>0, <2>2 DEF EmplaceThrows, Goto
      <3>. QED BY <3>1 DEF Returning, Unstored, FlushSteps
    <2>3. CASE EmplaceBlocks(t)
      <3>1. pc[t] = "failed" /\ pc'[t] = "flush" /\ caller'[t] = "retry"
        BY <1>0, <2>3 DEF EmplaceBlocks, Goto
      <3>. QED BY <3>1 DEF Returning, Unstored, FlushSteps
    <2>4. CASE EmplaceRetries(t)
      <3>1. pc[t] = "retry" /\ pc'[t] = "announce" BY <1>0, <2>4 DEF EmplaceRetries, Goto
      <3>. QED BY <3>1 DEF Returning, Unstored, FlushSteps
    <2>5. CASE EmplaceDrops(t)
      <3>1. pc[t] = "failed" /\ pc'[t] = "watermark" BY <1>0, <2>5 DEF EmplaceDrops, Goto
      <3>. QED BY <1>4, <1>9, <3>1 DEF Returning, Unstored, FlushSteps
    <2>6. CASE CheckWatermark(t)
      <3>1. /\ pc[t] = "watermark" /\ calls' = calls
            /\ pc'[t] = "return" \/ (pc'[t] = "flush" /\ caller'[t] = "watermark")
        BY <1>0, <2>6 DEF CheckWatermark
      <3>. QED BY <1>4, <3>1 DEF Returning, Unstored, FlushSteps
    <2>7. CASE EmplaceReturns(t)
      <3>1. pc'[t] = "idle" BY <1>0, <2>7 DEF EmplaceReturns, Goto
      <3>. QED BY <3>1 DEF Returning, Unstored, FlushSteps
    <2>. QED BY <2>1, <2>2, <2>3, <2>4, <2>5, <2>6, <2>7
  <1>11. KeepsRest(t)
    BY <1>3, <1>4, <1>6, <1>8, <1>10 DEF KeepsRest, KeepsCalls, InFlight
  <1>12. accepted \subseteq accepted' /\ accepted' \subseteq Stored
    <2>1. accepted \subseteq Stored BY StoredNow
    <2>2. CASE accepted' = accepted BY <2>1, <2>2
    <2>3. CASE EmplaceReturns(t) /\ addr[t] # NoAddr
      <3>1. Returning(t) BY <2>3 DEF EmplaceReturns, Goto, Returning
      <3>2. Value(t) \in Stored BY <1>0, <3>1 DEF DeliveryInv, KeptInv
      <3>3. accepted' = accepted \cup {Value(t)} BY <2>3 DEF EmplaceReturns
      <3>. QED BY <2>1, <3>2, <3>3
    <2>. QED
      BY <2>2, <2>3 DEF EmplaceCall, EmplaceThrows, EmplaceBlocks, EmplaceRetries, EmplaceDrops,
             CheckWatermark, EmplaceReturns
  <1>. QED BY <1>0, <1>1, <1>2, <1>5, <1>7, <1>11, <1>12, MoveKeeps

\* A request is announced, or withdrawn: the side's counters change, its records do not.
LEMMA RequestMoves ==
  ASSUME FlushInv, TypeInv', DeliveryInv, Quiet, NEW t \in Producers,
         AnnounceRequest(t) \/ WithdrawRequest(t)
  PROVE  DeliveryInv'
  <1>. USE DEF sharedVars, groupVars, emplaceVars, flushVars, workerVars, history
  <1>0. /\ t \in Threads /\ pc \in [Threads -> Steps] /\ idx \in [Threads -> Side]
        /\ addr \in [Threads -> Addr \cup {NoAddr}] /\ idx[t] \in Side
        /\ buffers \in [Side -> Buffers(Records)]
    BY DEF FlushInv, TypeInv, TypeOK, Threads
  <1>1. Unclaimed' => Unclaimed BY DEF Quiet, Unclaimed
  <1>2. SameContents
    <2>1. \E b \in {buffers[idx[t]], Announce(buffers[idx[t]]), Withdraw(buffers[idx[t]])} :
            buffers' = [buffers EXCEPT ![idx[t]] = b]
      BY <1>0 DEF AnnounceRequest, WithdrawRequest
    <2>2. \A b \in {buffers[idx[t]], Announce(buffers[idx[t]]), Withdraw(buffers[idx[t]])} :
            /\ b.allocated = buffers[idx[t]].allocated
            /\ b.m_write_count = buffers[idx[t]].m_write_count
            /\ b.m_headers = buffers[idx[t]].m_headers
            /\ b.memory = buffers[idx[t]].memory
      BY <1>0 DEF Announce, Withdraw, Buffers
    <2>. QED BY <1>0, <2>1, <2>2 DEF SameContents
  <1>3. SameDrain BY DEF AnnounceRequest, WithdrawRequest, SameDrain
  <1>4. /\ UNCHANGED <<idx, calls, index, before, owed, caller, accepted>>
        /\ \A u \in Threads : u # t => pc'[u] = pc[u] /\ addr'[u] = addr[u]
    BY <1>0 DEF AnnounceRequest, WithdrawRequest, Goto
  <1>5. Moves(t) BY <1>4 DEF Moves
  <1>6. \/ pc[t] = "announce" /\ pc'[t] = "reserve" /\ buffers[idx[t]].allocated
        \/ pc[t] = "announce" /\ pc'[t] = "failed" /\ addr'[t] = NoAddr
        \/ pc[t] = "withdraw" /\ pc'[t] = "failed" /\ addr[t] = NoAddr /\ addr'[t] = addr[t]
        \/ pc[t] = "withdraw" /\ pc'[t] = "watermark" /\ addr[t] # NoAddr /\ addr'[t] = addr[t]
    BY <1>0 DEF AnnounceRequest, WithdrawRequest, Goto
  <1>7. KeepsStore(t) BY <1>4, <1>6 DEF KeepsStore, Reserved, InFlight
  <1>8. calls[t] \in Nat BY <1>0 DEF FlushInv, TypeInv, TypeOK
  <1>9. KeepsRest(t)
    BY <1>4, <1>6, <1>8 DEF KeepsRest, KeepsCalls, InFlight, Unstored, Returning, FlushSteps
  <1>. QED BY <1>0, <1>1, <1>2, <1>3, <1>4, <1>5, <1>7, <1>9, MoveKeeps, StoredNow

\* Those of flush and the finalizer.
LEMMA FlushMoves ==
  ASSUME FlushInv, TypeInv', DeliveryInv, Unclaimed' => Unclaimed, NEW t \in Threads,
         \/ FlushBegin(t) \/ LockGroup(t) \/ TasksDone(t) \/ FlushBusy(t) \/ FlushClaim(t)
         \/ UseDeletedGroup(t) \/ FlushCall(t) \/ FinalizeBegin(t) \/ DeleteGroup(t)
         \/ FinalizeEnd(t)
  PROVE  DeliveryInv'
  <1>. USE DEF sharedVars, groupVars, emplaceVars, flushVars, workerVars, history
  <1>0. /\ pc \in [Threads -> Steps] /\ calls \in [Threads -> Nat]
        /\ caller \in [Threads -> {"retry", "watermark", "tool", "finalizer"}]
        /\ wait \in [Threads -> BOOLEAN] /\ fini_status \in {-1, 0, 1}
        /\ before \in [Threads -> SUBSET Records]
    BY DEF FlushInv, TypeInv, TypeOK
  <1>1. UNCHANGED <<buffers, buffer_idx, worker, headers, callbacks, delivered, m_tasks,
                    idx, addr, index, owed, accepted>>
    BY DEF FlushBegin, LockGroup, TasksDone, FlushBusy, FlushClaim, UseDeletedGroup, FlushCall,
           FinalizeBegin, DeleteGroup, FinalizeEnd
  <1>2. SameContents /\ SameDrain BY <1>1, SameBuffers DEF SameDrain
  <1>3. \A u \in Threads : u # t => /\ pc'[u] = pc[u] /\ calls'[u] = calls[u]
                                    /\ caller'[u] = caller[u] /\ before'[u] = before[u]
    <2>1. CASE FlushBegin(t) \/ UseDeletedGroup(t)
      BY <1>0, <2>1 DEF FlushBegin, UseDeletedGroup
    <2>2. CASE \/ LockGroup(t) \/ TasksDone(t) \/ FlushBusy(t) \/ FlushClaim(t) \/ DeleteGroup(t)
               \/ FinalizeEnd(t)
      BY <1>0, <2>2 DEF LockGroup, TasksDone, FlushBusy, FlushClaim, DeleteGroup, FinalizeEnd, Goto
    <2>3. CASE FlushCall(t) \/ FinalizeBegin(t)
      BY <1>0, <2>3 DEF FlushCall, FinalizeBegin, Goto
    <2>. QED BY <2>1, <2>2, <2>3
  <1>4. Moves(t) BY <1>1, <1>3 DEF Moves
  <1>5. \/ /\ pc[t] \in FlushSteps /\ pc'[t] \in FlushSteps \ {"exec"} /\ caller'[t] = caller[t]
           /\ calls'[t] = calls[t] /\ before'[t] = before[t]
           /\ pc'[t] \in {"join", "joining"} => pc[t] \in {"join", "joining"}
        \/ /\ pc[t] \in FlushSteps /\ pc'[t] \in {"aborted", Resume(t)}
           /\ calls'[t] = calls[t] /\ before'[t] = before[t]
        \/ /\ pc[t] = "idle" /\ pc'[t] = "flush" /\ caller'[t] \in {"tool", "finalizer"}
           /\ calls'[t] >= calls[t] /\ before'[t] = accepted
        \/ /\ pc'[t] \in {"quitting", "delete", "finish", "finalized"}
           /\ calls'[t] = calls[t] /\ before'[t] = before[t]
    <2>1. CASE FlushBegin(t)
      <3>1. pc'[t] \in {Resume(t), "aborted", "drain", "sync"}
        <4>1. fini_status > 0 <=> ~(fini_status <= 0) BY <1>0
        <4>. QED BY <1>0, <2>1, <4>1 DEF FlushBegin
      <3>2. pc[t] = "flush" /\ UNCHANGED <<calls, before, caller>> BY <2>1 DEF FlushBegin
      <3>. QED BY <3>1, <3>2 DEF FlushSteps
    <2>2. CASE LockGroup(t) \/ FlushClaim(t)
      BY <1>0, <2>2 DEF LockGroup, FlushClaim, Goto, FlushSteps
    <2>3. CASE TasksDone(t) \/ FlushBusy(t)
      BY <1>0, <2>3 DEF TasksDone, FlushBusy, Goto, FlushSteps
    <2>4. CASE UseDeletedGroup(t)
      BY <1>0, <2>4 DEF UseDeletedGroup, FlushSteps
    <2>5. CASE FlushCall(t)
      <3>1. pc[t] = "idle" /\ pc'[t] = "flush" BY <1>0, <2>5 DEF FlushCall, Goto
      <3>2. caller'[t] = "tool" /\ before'[t] = accepted /\ calls'[t] = calls[t] + 1
        BY <1>0, <2>5 DEF FlushCall
      <3>. QED BY <1>0, <3>1, <3>2
    <2>6. CASE FinalizeBegin(t)
      <3>1. pc[t] = "idle" /\ pc'[t] = "flush" BY <1>0, <2>6 DEF FinalizeBegin, Goto
      <3>2. caller'[t] = "finalizer" /\ before'[t] = accepted /\ calls'[t] = calls[t]
        BY <1>0, <2>6 DEF FinalizeBegin
      <3>. QED BY <1>0, <3>1, <3>2
    <2>7. CASE DeleteGroup(t) \/ FinalizeEnd(t)
      BY <1>0, <2>7 DEF DeleteGroup, FinalizeEnd, Goto
    <2>. QED BY <2>1, <2>2, <2>3, <2>4, <2>5, <2>6, <2>7
  <1>6. \/ caller[t] = "retry" /\ Resume(t) = "retry"
        \/ caller[t] = "watermark" /\ Resume(t) = "return"
        \/ caller[t] \in {"tool", "finalizer"} /\ Resume(t) \in {"idle", "quit"}
    BY <1>0 DEF Resume
  <1>7. KeepsStore(t) BY <1>5, <1>6 DEF KeepsStore, Reserved, InFlight, FlushSteps
  <1>8. calls[t] \in Nat BY <1>0
  <1>9. /\ Unstored(t)' => Unstored(t)
        /\ Returning(t)' => Returning(t) /\ calls'[t] = calls[t]
    BY <1>1, <1>5, <1>6 DEF Unstored, Returning, FlushSteps
  <1>10. pc'[t] \notin {"announce", "reserve", "index", "place", "withdraw", "failed", "exec"}
    BY <1>5, <1>6 DEF FlushSteps
  <1>11. pc'[t] \in {"join", "joining"} => pc[t] \in {"join", "joining"} /\ before'[t] = before[t]
    BY <1>5, <1>6 DEF FlushSteps
  <1>12. calls'[t] >= calls[t] /\ before'[t] \in {before[t], accepted} BY <1>5, <1>8
  <1>13. KeepsRest(t) BY <1>1, <1>9, <1>10, <1>11, <1>12 DEF KeepsRest, KeepsCalls, InFlight
  <1>. QED BY <1>1, <1>2, <1>4, <1>7, <1>13, MoveKeeps, StoredNow

\* An index that is taken is a new, empty header behind the others.
LEMMA TakeIndexHeaders ==
  ASSUME NEW R, NEW b \in Buffers(R)
  PROVE  /\ DOMAIN TakeIndex(b).m_headers = DOMAIN b.m_headers \cup {Len(b.m_headers) + 1}
         /\ Len(b.m_headers) \in Nat /\ DOMAIN b.m_headers = 1 .. Len(b.m_headers)
         /\ \A i \in DOMAIN b.m_headers : TakeIndex(b).m_headers[i] = b.m_headers[i]
         /\ TakeIndex(b).m_headers[Len(b.m_headers) + 1] = NoAddr
         /\ RecordHeaders(TakeIndex(b)) = RecordHeaders(b)
         /\ \A i \in RecordHeaders(b) : Payload(TakeIndex(b), i) = Payload(b, i)
         /\ TakeIndex(b).allocated = b.allocated
         /\ TakeIndex(b).m_write_count = b.m_write_count
         /\ TakeIndex(b).memory = b.memory
  <1>1. /\ TakeIndex(b).m_headers = Append(b.m_headers, NoAddr)
        /\ TakeIndex(b).allocated = b.allocated
        /\ TakeIndex(b).m_write_count = b.m_write_count
        /\ TakeIndex(b).memory = b.memory
    BY DEF Buffers, TakeIndex
  <1>2. b.m_headers \in Seq(Addr \cup {NoAddr}) BY DEF Buffers
  <1>3. /\ DOMAIN Append(b.m_headers, NoAddr) = DOMAIN b.m_headers \cup {Len(b.m_headers) + 1}
        /\ Len(b.m_headers) \in Nat /\ DOMAIN b.m_headers = 1 .. Len(b.m_headers)
        /\ \A i \in DOMAIN b.m_headers : Append(b.m_headers, NoAddr)[i] = b.m_headers[i]
        /\ Append(b.m_headers, NoAddr)[Len(b.m_headers) + 1] = NoAddr
    BY <1>2
  <1>4. RecordHeaders(TakeIndex(b)) = RecordHeaders(b) BY <1>1, <1>3 DEF RecordHeaders
  <1>5. \A i \in RecordHeaders(b) : Payload(TakeIndex(b), i) = Payload(b, i)
    BY <1>1, <1>3 DEF RecordHeaders, Payload
  <1>. QED BY <1>1, <1>3, <1>4, <1>5

\* The address behind a header is a number.
LEMMA HeaderAddress ==
  ASSUME TypeInv, NEW s \in Side
  PROVE  /\ \A i \in RecordHeaders(buffers[s]) :
              /\ buffers[s].m_headers[i] \in Addr /\ buffers[s].m_headers[i] \in Nat
              /\ i \in Nat
         /\ count(buffers[s]) \in Nat
         /\ \A t \in Threads : Reserved(t) => addr[t] \in Addr /\ addr[t] \in Nat
  <1>1. /\ buffers[s].m_headers \in Seq(Addr \cup {NoAddr})
        /\ buffers[s].m_write_count \in 0 .. Capacity
    BY DEF TypeInv, TypeOK, Buffers
  <1>2. \A i \in RecordHeaders(buffers[s]) : buffers[s].m_headers[i] \in Addr /\ i \in Nat
    BY <1>1 DEF RecordHeaders
  <1>3. \A a \in Addr : a \in Nat BY CapacityAssumption DEF Addr
  <1>4. \A t \in Threads : Reserved(t) => addr[t] \in Addr
    BY DEF TypeInv, TypeOK, Reserved
  <1>5. count(buffers[s]) \in Nat BY <1>1, CapacityAssumption DEF count
  <1>. QED BY <1>2, <1>3, <1>4, <1>5

\* Space is reserved: the address is the write count, above every address in use.
LEMMA ReserveMoves ==
  ASSUME FlushInv, TypeInv', DeliveryInv, Quiet, NEW t \in Producers, ReserveSpace(t)
  PROVE  DeliveryInv'
  <1>. USE DEF sharedVars, groupVars, emplaceVars, flushVars, workerVars, history
  <1>0. /\ t \in Threads /\ pc \in [Threads -> Steps] /\ idx \in [Threads -> Side]
        /\ addr \in [Threads -> Addr \cup {NoAddr}] /\ idx[t] \in Side
        /\ calls[t] \in Nat /\ buffers \in [Side -> Buffers(Records)] /\ TypeInv
    BY DEF FlushInv, TypeInv, TypeOK, Threads
  <1>1. Unclaimed' => Unclaimed BY DEF Quiet, Unclaimed
  <1>2. /\ pc[t] = "reserve" /\ pc' = [pc EXCEPT ![t] = "index"]
        /\ UNCHANGED <<idx, calls, index, before, owed, caller, accepted>>
        /\ \A u \in Threads : u # t => pc'[u] = pc[u] /\ addr'[u] = addr[u]
    BY <1>0 DEF ReserveSpace, Goto
  <1>3. SameDrain BY DEF ReserveSpace, SameDrain
  <1>4. Moves(t) BY <1>2 DEF Moves
  <1>5. pc'[t] = "index" BY <1>0, <1>2
  <1>6. KeepsRest(t)
    BY <1>0, <1>2, <1>5 DEF KeepsRest, KeepsCalls, InFlight, Unstored, Returning, FlushSteps
  <1>7. buffers[idx[t]].allocated
    BY <1>0, <1>2 DEF DeliveryInv, StoreInv, AllocatedInv, InFlight
  <1>8. CASE ~HasRoom(buffers[idx[t]])
    <2>1. addr'[t] = NoAddr /\ buffers' = buffers BY <1>0, <1>8 DEF ReserveSpace
    <2>2. KeepsStore(t) BY <1>2, <1>5, <1>7, <2>1 DEF KeepsStore, Reserved
    <2>. QED
      BY <1>0, <1>1, <1>2, <1>3, <1>4, <1>6, <2>1, <2>2, MoveKeeps, SameBuffers, StoredNow
  <1>9. CASE HasRoom(buffers[idx[t]])
    <2>1. /\ addr'[t] = count(buffers[idx[t]])
          /\ buffers' = [buffers EXCEPT ![idx[t]] = Reserve(buffers[idx[t]])]
      BY <1>0, <1>9 DEF ReserveSpace
    <2>2. \A s \in Side : /\ buffers'[s].allocated = buffers[s].allocated
                          /\ buffers'[s].m_headers = buffers[s].m_headers
                          /\ buffers'[s].memory = buffers[s].memory
                          /\ count(buffers'[s]) =
                               IF s = idx[t] THEN count(buffers[s]) + 1 ELSE count(buffers[s])
      BY <1>0, <2>1 DEF Reserve, count, Buffers
    <2>3. /\ \A s \in Side : RecordHeaders(buffers'[s]) = RecordHeaders(buffers[s])
          /\ \A s \in Side : \A i : Payload(buffers'[s], i) = Payload(buffers[s], i)
      BY <2>2 DEF RecordHeaders, Payload
    <2>4. SameRecords BY <2>3 DEF SameRecords
    <2>5. OrderInv' /\ AgeInv' /\ KeptInv' /\ TaskInv' /\ OweInv'
      BY <1>0, <1>1, <1>2, <1>3, <1>4, <1>6, <2>4, MoveKeepsRest, StoredNow
    <2>6. /\ \A s \in Side : count(buffers[s]) \in Nat /\ count(buffers'[s]) >= count(buffers[s])
          /\ count(buffers'[idx[t]]) = count(buffers[idx[t]]) + 1
          /\ \A s \in Side : \A i \in RecordHeaders(buffers[s]) : buffers[s].m_headers[i] \in Nat
          /\ \A u \in Threads : Reserved(u) => addr[u] \in Nat
      BY <1>0, <2>2, HeaderAddress
    <2>7. CellsInv'
      <3>1. \A s \in Side : \A i \in RecordHeaders(buffers[s]) :
              buffers[s].m_headers[i] < count(buffers'[s])
        BY <2>2, <2>6 DEF DeliveryInv, StoreInv, CellsInv
      <3>. QED BY <2>2, <2>3, <3>1 DEF DeliveryInv, StoreInv, CellsInv
    <2>8. ReservedInv'
      <3>1. \A u \in Threads : u # t => (Reserved(u)' <=> Reserved(u)) /\ addr'[u] = addr[u]
        BY <1>2 DEF Reserved
      <3>2. \A u \in Threads : u # t /\ Reserved(u) =>
              /\ addr[u] < count(buffers'[idx[u]])
              /\ idx[u] = idx[t] => addr[u] # addr'[t]
        <4>. SUFFICES ASSUME NEW u \in Threads, u # t, Reserved(u)
                      PROVE  /\ addr[u] < count(buffers'[idx[u]])
                             /\ idx[u] = idx[t] => addr[u] # addr'[t]
          OBVIOUS
        <4>1. addr[u] < count(buffers[idx[u]]) BY DEF DeliveryInv, StoreInv, ReservedInv
        <4>2. idx[u] \in Side BY <1>0
        <4>. QED BY <2>1, <2>2, <2>6, <4>1, <4>2
      <3>3. \A i \in RecordHeaders(buffers[idx[t]]) : buffers[idx[t]].m_headers[i] # addr'[t]
        <4>1. \A i \in RecordHeaders(buffers[idx[t]]) :
                buffers[idx[t]].m_headers[i] < count(buffers[idx[t]])
          BY <1>0 DEF DeliveryInv, StoreInv, CellsInv
        <4>. QED BY <1>0, <2>1, <2>6, <4>1
      <3>4. addr'[t] < count(buffers'[idx[t]]) BY <1>0, <2>1, <2>6
      <3>. SUFFICES ASSUME NEW u \in Threads, Reserved(u)'
                    PROVE  /\ addr'[u] < count(buffers'[idx[u]])
                           /\ \A i \in RecordHeaders(buffers[idx[u]]) :
                                buffers[idx[u]].m_headers[i] # addr'[u]
                           /\ \A v \in Threads : v # u /\ Reserved(v)' /\ idx[v] = idx[u]
                                                   => addr'[v] # addr'[u]
        BY <1>0, <1>2, <2>2, <2>3 DEF ReservedInv
      <3>5. CASE u = t
        BY <3>1, <3>2, <3>3, <3>4, <3>5
      <3>6. CASE u # t
        <4>1. Reserved(u) /\ addr'[u] = addr[u] BY <3>1, <3>6
        <4>2. /\ \A i \in RecordHeaders(buffers[idx[u]]) : buffers[idx[u]].m_headers[i] # addr[u]
              /\ \A v \in Threads : v # u /\ Reserved(v) /\ idx[v] = idx[u] => addr[v] # addr[u]
          BY <4>1 DEF DeliveryInv, StoreInv, ReservedInv
        <4>. QED BY <3>1, <3>2, <3>6, <4>1, <4>2
      <3>. QED BY <3>5, <3>6
    <2>9. PlacingInv'
      <3>1. \A u \in Threads : pc'[u] = "place" => pc[u] = "place"
        BY <1>2, <1>5
      <3>. QED BY <1>0, <1>2, <2>2, <2>3, <3>1 DEF DeliveryInv, StoreInv, PlacingInv
    <2>10. AllocatedInv'
      <3>1. \A s \in Side : ~buffers'[s].allocated => s # idx[t] /\ count(buffers'[s]) = 0
        BY <1>7, <2>2 DEF DeliveryInv, StoreInv, AllocatedInv
      <3>2. \A u \in Threads : u # t => (InFlight(u)' <=> InFlight(u))
        BY <1>2 DEF InFlight
      <3>. QED BY <1>2, <2>2, <3>1, <3>2 DEF DeliveryInv, StoreInv, AllocatedInv
    <2>. QED BY <2>5, <2>7, <2>8, <2>9, <2>10 DEF DeliveryInv, StoreInv
  <1>. QED BY <1>8, <1>9

\* An index is taken, behind every header; the header stays empty.
LEMMA TakeMoves ==
  ASSUME FlushInv, TypeInv', DeliveryInv, Quiet, NEW t \in Producers, TakeHeader(t)
  PROVE  DeliveryInv'
  <1>. USE DEF sharedVars, groupVars, emplaceVars, flushVars, workerVars, history
  <1>0. /\ t \in Threads /\ pc \in [Threads -> Steps] /\ idx \in [Threads -> Side]
        /\ index \in [Threads -> Nat] /\ idx[t] \in Side
        /\ calls[t] \in Nat /\ buffers \in [Side -> Buffers(Records)] /\ TypeInv
    BY DEF FlushInv, TypeInv, TypeOK, Threads
  <1>1. Unclaimed' => Unclaimed BY DEF Quiet, Unclaimed
  <1>2. /\ pc[t] = "index"
        /\ UNCHANGED <<idx, calls, addr, before, owed, caller, accepted>>
        /\ \A u \in Threads : u # t => pc'[u] = pc[u] /\ index'[u] = index[u]
    BY <1>0 DEF TakeHeader
  <1>3. SameDrain BY DEF TakeHeader, SameDrain
  <1>4. Moves(t) BY <1>2 DEF Moves
  <1>5. pc'[t] = IF addr[t] = NoAddr THEN "withdraw" ELSE "place"
    BY <1>0 DEF TakeHeader
  <1>6. KeepsRest(t)
    BY <1>0, <1>2, <1>5 DEF KeepsRest, KeepsCalls, InFlight, Unstored, Returning, FlushSteps
  <1>7. buffers[idx[t]].allocated
    BY <1>0, <1>2 DEF DeliveryInv, StoreInv, AllocatedInv, InFlight
  <1>8. CASE addr[t] = NoAddr
    <2>1. buffers' = buffers BY <1>8 DEF TakeHeader
    <2>2. KeepsStore(t) BY <1>2, <1>5, <1>7, <1>8 DEF KeepsStore, Reserved
    <2>. QED
      BY <1>0, <1>1, <1>2, <1>3, <1>4, <1>6, <2>1, <2>2, MoveKeeps, SameBuffers, StoredNow
  <1>9. CASE addr[t] # NoAddr
    <2> DEFINE b == buffers[idx[t]]
               n == Len(b.m_headers) + 1
    <2>1. index'[t] = n /\ buffers' = [buffers EXCEPT ![idx[t]] = TakeIndex(b)]
      BY <1>0, <1>9 DEF TakeHeader
    <2>2. /\ DOMAIN TakeIndex(b).m_headers = DOMAIN b.m_headers \cup {n}
          /\ \A i \in DOMAIN b.m_headers : i \in Nat /\ i < n
          /\ n \in Nat
          /\ \A i \in DOMAIN b.m_headers : TakeIndex(b).m_headers[i] = b.m_headers[i]
          /\ TakeIndex(b).m_headers[n] = NoAddr
      <3>1. b \in Buffers(Records) BY <1>0
      <3>. HIDE DEF b
      <3>. QED BY <3>1, TakeIndexHeaders
    <2>3. \A s \in Side : /\ buffers'[s].allocated = buffers[s].allocated
                          /\ count(buffers'[s]) = count(buffers[s])
                          /\ RecordHeaders(buffers'[s]) = RecordHeaders(buffers[s])
      BY <1>0, <2>1, TakeIndexHeaders DEF count
    <2>4. \A s \in Side : \A i \in RecordHeaders(buffers[s]) :
            Payload(buffers'[s], i) = Payload(buffers[s], i)
      BY <1>0, <2>1, TakeIndexHeaders
    <2>5. \A s \in Side : \A i \in DOMAIN buffers[s].m_headers :
            /\ i \in DOMAIN buffers'[s].m_headers
            /\ buffers'[s].m_headers[i] = buffers[s].m_headers[i]
      BY <1>0, <2>1, <2>2
    <2>6. SameRecords BY <2>3, <2>4 DEF SameRecords
    <2>7. OrderInv' /\ AgeInv' /\ KeptInv' /\ TaskInv' /\ OweInv'
      BY <1>0, <1>1, <1>2, <1>3, <1>4, <1>6, <2>6, MoveKeepsRest, StoredNow
    <2>8. \A s \in Side : \A i \in RecordHeaders(buffers[s]) :
            buffers'[s].m_headers[i] = buffers[s].m_headers[i]
      BY <2>5 DEF RecordHeaders
    <2>9. CellsInv'
      BY <2>3, <2>4, <2>8 DEF DeliveryInv, StoreInv, CellsInv
    <2>10. ReservedInv'
      <3>1. \A u \in Threads : Reserved(u)' => Reserved(u)
        BY <1>2 DEF Reserved
      <3>. QED BY <1>0, <1>2, <2>3, <2>8, <3>1 DEF DeliveryInv, StoreInv, ReservedInv
    <2>11. PlacingInv'
      <3>1. \A u \in Threads : pc[u] = "place" =>
              /\ index[u] \in DOMAIN buffers[idx[u]].m_headers
              /\ buffers[idx[u]].m_headers[index[u]] = NoAddr
              /\ \A v \in Threads : v # u /\ pc[v] = "place" /\ idx[v] = idx[u]
                                      => index[v] # index[u]
              /\ \A j \in RecordHeaders(buffers[idx[u]]) :
                   j > index[u] => Payload(buffers[idx[u]], j)[1] # u
        BY DEF DeliveryInv, StoreInv, PlacingInv
      <3>2. \A u \in Threads : u # t /\ pc[u] = "place" /\ idx[u] = idx[t] =>
              index[u] # index'[t]
        BY <2>1, <2>2, <3>1
      <3>3. \A j \in RecordHeaders(b) : ~(j > n) BY <2>2 DEF RecordHeaders
      <3>4. n \in DOMAIN buffers'[idx[t]].m_headers /\ buffers'[idx[t]].m_headers[n] = NoAddr
        BY <1>0, <2>1, <2>2
      <3>. SUFFICES ASSUME NEW u \in Threads, pc'[u] = "place"
                    PROVE  /\ index'[u] \in DOMAIN buffers'[idx[u]].m_headers
                           /\ buffers'[idx[u]].m_headers[index'[u]] = NoAddr
                           /\ \A v \in Threads : v # u /\ pc'[v] = "place" /\ idx[v] = idx[u]
                                => index'[v] # index'[u]
                           /\ \A j \in RecordHeaders(buffers[idx[u]]) :
                                j > index'[u] => Payload(buffers[idx[u]], j)[1] # u
        BY <1>0, <1>2, <2>3, <2>4 DEF PlacingInv
      <3>. HIDE DEF n, b
      <3>5. CASE u = t
        <4>1. \A v \in Threads : v # t /\ pc'[v] = "place" /\ idx[v] = idx[t]
                                => index'[v] # index'[t]
          BY <1>2, <3>2
        <4>2. \A j \in RecordHeaders(buffers[idx[t]]) : ~(j > index'[t])
          BY <2>1, <3>3 DEF b
        <4>. QED BY <2>1, <3>4, <3>5, <4>1, <4>2
      <3>6. CASE u # t
        <4>1. pc[u] = "place" /\ index'[u] = index[u] /\ idx[u] \in Side BY <1>0, <1>2, <3>6
        <4>2. /\ index[u] \in DOMAIN buffers'[idx[u]].m_headers
              /\ buffers'[idx[u]].m_headers[index[u]] = NoAddr
          BY <2>5, <3>1, <4>1
        <4>3. \A v \in Threads : v # u /\ pc'[v] = "place" /\ idx[v] = idx[u]
                                => index'[v] # index[u]
          BY <1>2, <3>1, <3>2, <3>6, <4>1
        <4>. QED BY <3>1, <4>1, <4>2, <4>3
      <3>. QED BY <3>5, <3>6
    <2>12. AllocatedInv'
      <3>1. \A u \in Threads : InFlight(u)' /\ ~(pc'[u] = "announce") => u = t \/ InFlight(u)
        BY <1>2 DEF InFlight
      <3>2. InFlight(t) /\ pc[t] # "announce" BY <1>2 DEF InFlight
      <3>. QED BY <1>2, <1>7, <2>3, <3>1, <3>2 DEF DeliveryInv, StoreInv, AllocatedInv
    <2>. QED BY <2>7, <2>9, <2>10, <2>11, <2>12 DEF DeliveryInv, StoreInv
  <1>. QED BY <1>8, <1>9

\* A record that is placed behind an empty header is one more record, the others stay.
LEMMA PlaceAdds ==
  ASSUME NEW R, NEW b \in Buffers(R), NEW i \in DOMAIN b.m_headers,
         b.m_headers[i] = NoAddr, NEW a \in Addr,
         \A j \in RecordHeaders(b) : b.m_headers[j] # a, NEW v \in R
  PROVE  /\ RecordHeaders(Place(b, i, a, v)) = RecordHeaders(b) \cup {i}
         /\ i \notin RecordHeaders(b)
         /\ DOMAIN Place(b, i, a, v).m_headers = DOMAIN b.m_headers
         /\ \A j \in DOMAIN b.m_headers :
              Place(b, i, a, v).m_headers[j] = IF j = i THEN a ELSE b.m_headers[j]
         /\ \A j \in RecordHeaders(b) : Payload(Place(b, i, a, v), j) = Payload(b, j)
         /\ Payload(Place(b, i, a, v), i) = v
         /\ Held(Place(b, i, a, v)) = Held(b) \cup {v}
         /\ count(Place(b, i, a, v)) = count(b)
         /\ Place(b, i, a, v).allocated = b.allocated
  <1> DEFINE p == Place(b, i, a, v)
  <1>1. /\ p.m_headers = [b.m_headers EXCEPT ![i] = a]
        /\ p.memory = [b.memory EXCEPT ![a] = v]
        /\ count(p) = count(b) /\ p.allocated = b.allocated
    BY DEF Buffers, Place, count
  <1>2. b.m_headers \in Seq(Addr \cup {NoAddr}) /\ b.memory \in [Addr -> R \cup {NoRecord}]
    BY DEF Buffers
  <1>. HIDE DEF p
  <1>3. /\ DOMAIN p.m_headers = DOMAIN b.m_headers
        /\ \A j \in DOMAIN b.m_headers : p.m_headers[j] = IF j = i THEN a ELSE b.m_headers[j]
    BY <1>1, <1>2
  <1>4. a # NoAddr BY NoAddrAssumption DEF Addr
  <1>5. i \notin RecordHeaders(b) BY DEF RecordHeaders
  <1>6. RecordHeaders(p) = RecordHeaders(b) \cup {i}
    BY <1>3, <1>4 DEF RecordHeaders
  <1>7. \A j \in RecordHeaders(b) : b.m_headers[j] \in Addr /\ j \in DOMAIN b.m_headers
    BY <1>2 DEF RecordHeaders
  <1>8. \A j \in RecordHeaders(b) : Payload(p, j) = Payload(b, j)
    <2>. SUFFICES ASSUME NEW j \in RecordHeaders(b) PROVE Payload(p, j) = Payload(b, j)
      OBVIOUS
    <2>1. p.m_headers[j] = b.m_headers[j] BY <1>3, <1>5, <1>7
    <2>2. p.memory[b.m_headers[j]] = b.memory[b.m_headers[j]] BY <1>1, <1>2, <1>7
    <2>. QED BY <2>1, <2>2 DEF Payload
  <1>9. Payload(p, i) = v
    <2>1. p.memory[a] = v BY <1>1, <1>2
    <2>. QED BY <1>3, <2>1 DEF Payload
  <1>10. Held(p) = Held(b) \cup {v}
    BY <1>6, <1>8, <1>9 DEF Held
  <1>. QED BY <1>1, <1>3, <1>5, <1>6, <1>8, <1>9, <1>10 DEF p

\* A record is stored: the address and the index are its thread's alone, and of what is
\* stored nothing is younger, except behind other threads' headers.
LEMMA PlaceMoves ==
  ASSUME FlushInv, TypeInv', DeliveryInv, Quiet, NEW t \in Producers, PlaceRecord(t)
  PROVE  DeliveryInv'
  <1>. USE DEF sharedVars, groupVars, emplaceVars, flushVars, workerVars, history
  <1> DEFINE s == idx[t]
             v == Value(t)
             b == buffers[s]
             p == Place(b, index[t], addr[t], v)
  <1>0. /\ t \in Threads /\ pc \in [Threads -> Steps] /\ idx \in [Threads -> Side]
        /\ s \in Side /\ calls[t] \in Nat /\ buffers \in [Side -> Buffers(Records)] /\ TypeInv
    BY DEF FlushInv, TypeInv, TypeOK, Threads
  <1>1. /\ pc[t] = "place" /\ pc' = [pc EXCEPT ![t] = "withdraw"] /\ pc'[t] = "withdraw"
        /\ \A u \in Threads : u # t => pc'[u] = pc[u]
        /\ buffers' = [buffers EXCEPT ![s] = p]
        /\ UNCHANGED <<idx, addr, index, calls, caller, before, owed, accepted>>
    BY <1>0 DEF PlaceRecord, Goto
  <1>2. /\ UNCHANGED <<buffer_idx, worker, headers, callbacks, delivered, m_tasks, syncer>>
        /\ Unclaimed' => Unclaimed
    BY DEF PlaceRecord, Quiet, Unclaimed
  <1>3. v \in Records /\ v[1] = t /\ v[2] = calls[t] /\ addr[t] \in Addr /\ addr[t] # NoAddr
    <2>1. Emplacing(t) BY <1>1 DEF Emplacing, EmplaceSteps
    <2>2. v \in Records /\ addr[t] \in Addr BY <1>0, <1>1, <2>1 DEF TypeInv, EmplaceInv
    <2>. QED BY <2>2, NoAddrAssumption DEF Value, Addr
  <1>4. Reserved(t) /\ Unstored(t) /\ InFlight(t) BY <1>1, <1>3 DEF Reserved, Unstored, InFlight
  <1>5. /\ index[t] \in DOMAIN b.m_headers /\ b.m_headers[index[t]] = NoAddr
        /\ \A j \in RecordHeaders(b) : j > index[t] => Payload(b, j)[1] # t
        /\ \A u \in Threads : u # t /\ pc[u] = "place" /\ idx[u] = s => index[u] # index[t]
    BY <1>0, <1>1 DEF DeliveryInv, StoreInv, PlacingInv
  <1>6. /\ addr[t] < count(b) /\ \A j \in RecordHeaders(b) : b.m_headers[j] # addr[t]
        /\ \A u \in Threads : u # t /\ Reserved(u) /\ idx[u] = s => addr[u] # addr[t]
    BY <1>0, <1>4 DEF DeliveryInv, StoreInv, ReservedInv
  <1>7. b \in Buffers(Records) BY <1>0
  <1>. HIDE DEF s, v, b, p
  <1>8. /\ RecordHeaders(p) = RecordHeaders(b) \cup {index[t]}
        /\ index[t] \notin RecordHeaders(b)
        /\ DOMAIN p.m_headers = DOMAIN b.m_headers
        /\ \A j \in DOMAIN b.m_headers :
             p.m_headers[j] = IF j = index[t] THEN addr[t] ELSE b.m_headers[j]
        /\ \A j \in RecordHeaders(b) : Payload(p, j) = Payload(b, j)
        /\ Payload(p, index[t]) = v
        /\ Held(p) = Held(b) \cup {v}
        /\ count(p) = count(b) /\ p.allocated = b.allocated
    BY <1>3, <1>5, <1>6, <1>7, PlaceAdds DEF p
  <1>9. buffers'[s] = p /\ buffers[s] = b /\ \A r \in Side : r # s => buffers'[r] = buffers[r]
    BY <1>0, <1>1 DEF b
  <1>10. \A u \in Threads : /\ InFlight(u)' <=> InFlight(u)
                            /\ Reserved(u)' => Reserved(u) /\ u # t
                            /\ pc'[u] = "place" => pc[u] = "place" /\ u # t
                            /\ Unstored(u)' => Unstored(u) /\ u # t
                            /\ Returning(u)' => Returning(u) \/ u = t
    <2>1. \A u \in Threads : u # t => /\ InFlight(u)' <=> InFlight(u)
                                      /\ Reserved(u)' <=> Reserved(u)
                                      /\ Unstored(u)' <=> Unstored(u)
                                      /\ Returning(u)' <=> Returning(u)
      BY <1>1 DEF InFlight, Reserved, Unstored, Returning
    <2>2. InFlight(t)' /\ InFlight(t) /\ ~Reserved(t)' /\ ~Unstored(t)'
      BY <1>1, <1>3 DEF InFlight, Reserved, Unstored, FlushSteps
    <2>. QED BY <1>1, <2>1, <2>2
  <1>11. CellsInv'
    <2>1. \A r \in Side : r # s => \A i \in RecordHeaders(buffers'[r]) :
            /\ buffers'[r].m_headers[i] < count(buffers'[r])
            /\ Payload(buffers'[r], i) \in Records
            /\ \A j \in RecordHeaders(buffers'[r]) :
                 buffers'[r].m_headers[i] = buffers'[r].m_headers[j] => i = j
      BY <1>9 DEF DeliveryInv, StoreInv, CellsInv
    <2>2. \A i \in RecordHeaders(b) : /\ b.m_headers[i] < count(b)
                                      /\ Payload(b, i) \in Records /\ i \in DOMAIN b.m_headers
                                      /\ \A j \in RecordHeaders(b) :
                                           b.m_headers[i] = b.m_headers[j] => i = j
      BY <1>0, <1>9 DEF DeliveryInv, StoreInv, CellsInv, RecordHeaders
    <2>3. \A i \in RecordHeaders(p) :
            /\ p.m_headers[i] < count(p)
            /\ Payload(p, i) \in Records
            /\ \A j \in RecordHeaders(p) : p.m_headers[i] = p.m_headers[j] => i = j
      BY <1>3, <1>5, <1>6, <1>8, <2>2
    <2>. QED BY <1>9, <2>1, <2>3 DEF CellsInv
  <1>12. ReservedInv'
    <2>. SUFFICES ASSUME NEW u \in Threads, Reserved(u)'
                  PROVE  /\ addr[u] < count(buffers'[idx[u]])
                         /\ \A i \in RecordHeaders(buffers'[idx[u]]) :
                              buffers'[idx[u]].m_headers[i] # addr[u]
                         /\ \A w \in Threads : w # u /\ Reserved(w)' /\ idx[w] = idx[u]
                                                 => addr[w] # addr[u]
      BY <1>1 DEF ReservedInv
    <2>1. Reserved(u) /\ u # t /\ idx[u] \in Side BY <1>0, <1>10
    <2>2. /\ addr[u] < count(buffers[idx[u]])
          /\ \A i \in RecordHeaders(buffers[idx[u]]) : buffers[idx[u]].m_headers[i] # addr[u]
          /\ \A w \in Threads : w # u /\ Reserved(w)' /\ idx[w] = idx[u] => addr[w] # addr[u]
      BY <1>10, <2>1 DEF DeliveryInv, StoreInv, ReservedInv
    <2>3. CASE idx[u] # s BY <1>9, <2>1, <2>2, <2>3
    <2>4. CASE idx[u] = s
      <3>1. addr[t] # addr[u] BY <1>6, <2>1, <2>4
      <3>2. \A i \in RecordHeaders(b) : b.m_headers[i] # addr[u] /\ i \in DOMAIN b.m_headers
        BY <1>9, <2>2, <2>4 DEF RecordHeaders
      <3>3. \A i \in RecordHeaders(p) : p.m_headers[i] # addr[u]
        BY <1>5, <1>8, <3>1, <3>2
      <3>. QED BY <1>8, <1>9, <2>2, <2>4, <3>3
    <2>. QED BY <2>3, <2>4
  <1>13. PlacingInv'
    <2>. SUFFICES ASSUME NEW u \in Threads, pc'[u] = "place"
                  PROVE  /\ index[u] \in DOMAIN buffers'[idx[u]].m_headers
                         /\ buffers'[idx[u]].m_headers[index[u]] = NoAddr
                         /\ \A w \in Threads : w # u /\ pc'[w] = "place" /\ idx[w] = idx[u]
                              => index[w] # index[u]
                         /\ \A j \in RecordHeaders(buffers'[idx[u]]) :
                              j > index[u] => Payload(buffers'[idx[u]], j)[1] # u
      BY <1>1 DEF PlacingInv
    <2>1. pc[u] = "place" /\ u # t /\ idx[u] \in Side BY <1>0, <1>10
    <2>2. /\ index[u] \in DOMAIN buffers[idx[u]].m_headers
          /\ buffers[idx[u]].m_headers[index[u]] = NoAddr
          /\ \A w \in Threads : w # u /\ pc'[w] = "place" /\ idx[w] = idx[u]
               => index[w] # index[u]
          /\ \A j \in RecordHeaders(buffers[idx[u]]) :
               j > index[u] => Payload(buffers[idx[u]], j)[1] # u
      BY <1>10, <2>1 DEF DeliveryInv, StoreInv, PlacingInv
    <2>3. CASE idx[u] # s BY <1>9, <2>1, <2>2, <2>3
    <2>4. CASE idx[u] = s
      <3>1. index[u] # index[t] BY <1>5, <2>1, <2>4
      <3>2. index[u] \in DOMAIN p.m_headers /\ p.m_headers[index[u]] = NoAddr
        BY <1>8, <1>9, <2>2, <2>4, <3>1
      <3>3. \A j \in RecordHeaders(p) : j > index[u] => Payload(p, j)[1] # u
        BY <1>3, <1>8, <1>9, <2>1, <2>2, <2>4
      <3>. QED BY <1>9, <2>2, <2>4, <3>2, <3>3
    <2>. QED BY <2>3, <2>4
  <1>14. AllocatedInv'
    <2>1. b.allocated
      BY <1>0, <1>1, <1>4, <1>9 DEF DeliveryInv, StoreInv, AllocatedInv, s, b
    <2>2. \A r \in Side : ~buffers'[r].allocated => r # s /\ buffers'[r] = buffers[r]
      BY <1>8, <1>9, <2>1
    <2>3. \A u \in Threads : u # t => pc'[u] = pc[u] BY <1>1
    <2>4. \A u \in Threads : u = t => idx[u] = s BY DEF s
    <2>. QED BY <1>1, <1>10, <2>2, <2>3, <2>4 DEF DeliveryInv, StoreInv, AllocatedInv
  <1>15. /\ Held(buffers'[s]) = Held(b) \cup {v} /\ Held(buffers[s]) = Held(b)
         /\ \A r \in Side : r # s => Held(buffers'[r]) = Held(buffers[r])
    BY <1>8, <1>9
  <1>16. Delivered' = Delivered /\ Stored' = Stored \cup {v}
    BY <1>0, <1>2, <1>15 DEF Delivered, Stored, Side
  <1>17. /\ buffer_idx \in Side /\ Other \in Side /\ Other # buffer_idx /\ Other' = Other
         /\ \A r \in Side : r # buffer_idx => r = Other
         /\ worker \notin {"idle", "done"} => Head(m_tasks) = Other
    BY <1>2, TaskSide DEF Other
  <1>18. \A q \in Stored : q[1] = t => q[2] < calls[t]
    BY <1>4 DEF DeliveryInv, AgeInv
  <1>19. \A q \in Stored : Older(q, v) BY <1>3, <1>18 DEF Older
  <1>20. /\ Delivered \subseteq Stored
         /\ \A r \in Side : Held(buffers[r]) \subseteq Stored
    BY DEF Stored, Side
  <1>21. OrderInv'
    <2>1. \A r \in Side : \A i, j \in RecordHeaders(buffers'[r]) :
            i < j => Older(Payload(buffers'[r], i), Payload(buffers'[r], j))
      <3>1. \A r \in Side : r # s => \A i, j \in RecordHeaders(buffers'[r]) :
              i < j => Older(Payload(buffers'[r], i), Payload(buffers'[r], j))
        BY <1>9 DEF DeliveryInv, OrderInv
      <3>2. \A i, j \in RecordHeaders(b) : i < j => Older(Payload(b, i), Payload(b, j))
        BY <1>0, <1>9 DEF DeliveryInv, OrderInv
      <3>3. \A i \in RecordHeaders(b) : Older(Payload(b, i), v)
        <4>1. \A i \in RecordHeaders(b) : Payload(b, i) \in Stored
          BY <1>0, <1>9, <1>20 DEF Held
        <4>. QED BY <1>19, <4>1
      <3>4. \A j \in RecordHeaders(b) : index[t] < j => Older(v, Payload(b, j))
        <4>1. \A j \in RecordHeaders(b) : j \in Int
          BY <1>0, <1>9, HeaderAddress
        <4>2. index[t] \in Int BY <1>0 DEF TypeInv, TypeOK
        <4>3. \A j \in RecordHeaders(b) : index[t] < j => Payload(b, j)[1] # t
          BY <1>5, <4>1, <4>2
        <4>. QED BY <1>3, <4>3 DEF Older
      <3>5. index[t] \in Int BY <1>0 DEF TypeInv, TypeOK
      <3>6. \A i, j \in RecordHeaders(p) : i < j => Older(Payload(p, i), Payload(p, j))
        <4>. SUFFICES ASSUME NEW i \in RecordHeaders(p), NEW j \in RecordHeaders(p), i < j
                      PROVE  Older(Payload(p, i), Payload(p, j))
          OBVIOUS
        <4>1. CASE i \in RecordHeaders(b) /\ j \in RecordHeaders(b) BY <1>8, <3>2, <4>1
        <4>2. CASE i \in RecordHeaders(b) /\ j = index[t] BY <1>8, <3>3, <4>2
        <4>3. CASE i = index[t] /\ j \in RecordHeaders(b) BY <1>8, <3>4, <4>3
        <4>4. CASE i = index[t] /\ j = index[t] BY <3>5, <4>4
        <4>. QED BY <1>8, <4>1, <4>2, <4>3, <4>4
      <3>. QED BY <1>9, <3>1, <3>6
    <2>2. \A q \in Held(buffers'[Other]), r \in Held(buffers'[buffer_idx]) : Older(q, r)
      <3>1. \A q \in Held(buffers[Other]), r \in Held(buffers[buffer_idx]) : Older(q, r)
        BY DEF DeliveryInv, OrderInv
      <3>2. CASE s = buffer_idx
        <4>1. \A q \in Held(buffers[Other]) : Older(q, v) BY <1>17, <1>19, <1>20
        <4>. QED BY <1>15, <1>17, <3>1, <3>2, <4>1
      <3>3. CASE s # buffer_idx
        <4>1. \A r \in Held(buffers[buffer_idx]) : r[1] # t
          BY <1>0, <1>4, <3>3 DEF DeliveryInv, OrderInv, s
        <4>2. \A r \in Held(buffers[buffer_idx]) : Older(v, r) BY <1>3, <4>1 DEF Older
        <4>3. s = Other BY <1>0, <1>17, <3>3
        <4>. QED BY <1>15, <1>17, <3>1, <3>3, <4>2, <4>3
      <3>. QED BY <3>2, <3>3
    <2>3. \A r \in Side : \A q \in Delivered, x \in Held(buffers'[r]) :
            Older(q, x) \/ (worker = "clear" /\ r = Head(m_tasks))
      <3>1. \A r \in Side : \A q \in Delivered, x \in Held(buffers[r]) :
              Older(q, x) \/ (worker = "clear" /\ r = Head(m_tasks))
        BY DEF DeliveryInv, OrderInv
      <3>2. \A q \in Delivered : Older(q, v) BY <1>19, <1>20
      <3>. QED BY <1>15, <3>1, <3>2
    <2>4. \A u \in Threads : InFlight(u)' /\ idx[u] # buffer_idx =>
            \A r \in Held(buffers'[buffer_idx]) : r[1] # u
      <3>. SUFFICES ASSUME NEW u \in Threads, InFlight(u), idx[u] # buffer_idx,
                           NEW r \in Held(buffers'[buffer_idx])
                    PROVE  r[1] # u
        BY <1>10
      <3>1. \A x \in Held(buffers[buffer_idx]) : x[1] # u BY DEF DeliveryInv, OrderInv
      <3>2. r \in Held(buffers[buffer_idx]) \/ (s = buffer_idx /\ r = v)
        BY <1>15, <1>17
      <3>3. s = buffer_idx => u # t BY DEF s
      <3>. QED BY <1>3, <3>1, <3>2, <3>3
    <2>5. InOrder' /\ NoDuplicates' /\ \A d \in delivered' : d[1] <= callbacks'
      BY <1>2 DEF DeliveryInv, OrderInv, InOrder, NoDuplicates
    <2>. QED BY <1>1, <1>2, <1>16, <1>17, <2>1, <2>2, <2>3, <2>4, <2>5 DEF OrderInv
  <1>22. AgeInv'
    <2>1. \A q \in Stored : /\ q \in Records /\ q[2] <= calls[q[1]]
                            /\ Unstored(q[1]) => q[2] < calls[q[1]]
      BY DEF DeliveryInv, AgeInv
    <2>2. \A q \in Records : q[1] \in Threads BY DEF Records, Threads
    <2>3. \A u \in Threads : Unstored(u)' => Unstored(u) /\ u # t BY <1>10
    <2>4. calls' = calls BY <1>1
    <2>. SUFFICES ASSUME NEW r \in Stored \cup {v}
                  PROVE  /\ r \in Records /\ r[2] <= calls[r[1]]
                         /\ Unstored(r[1])' => r[2] < calls[r[1]]
      BY <1>16, <2>4 DEF AgeInv
    <2>5. CASE r \in Stored BY <2>1, <2>2, <2>3, <2>5
    <2>6. CASE r = v
      <3>1. r \in Records /\ r[1] = t /\ r[2] = calls[t] BY <1>3, <2>6
      <3>. QED BY <1>0, <2>3, <3>1
    <2>. QED BY <2>5, <2>6
  <1>23. KeptInv'
    <2>1. accepted' \subseteq Stored' BY <1>1, <1>16 DEF DeliveryInv, KeptInv
    <2>2. \A u \in Threads : Returning(u)' => Value(u)' \in Stored'
      <3>1. \A u \in Threads : Value(u)' = Value(u) BY <1>1 DEF Value
      <3>2. \A u \in Threads : Returning(u) => Value(u) \in Stored
        BY DEF DeliveryInv, KeptInv
      <3>3. Value(t) \in Stored' BY <1>16 DEF v
      <3>. QED BY <1>10, <1>16, <3>1, <3>2, <3>3
    <2>3. FailedInv'
      <3>1. \A u \in Threads : pc'[u] = "failed" => pc[u] = "failed" BY <1>1
      <3>. QED BY <1>1, <3>1 DEF DeliveryInv, KeptInv, FailedInv
    <2>. QED BY <2>1, <2>2, <2>3 DEF KeptInv
  <1>24. TaskInv'
    <2>1. s = Other => ~Settled(Other)
      BY <1>0, <1>4 DEF Settled, s
    <2>2. Settled(Other)' <=> Settled(Other) BY <1>1, <1>10, <1>17 DEF Settled
    <2>3. s # Other => buffers'[Other] = buffers[Other] BY <1>9, <1>17
    <2>4. Clean(Other) => Clean(Other)' BY <1>17, <2>1, <2>2, <2>3 DEF Clean
    <2>5. worker \in {"requested", "callback", "clear", "release"} => Head(m_tasks) = Other
      BY <1>17
    <2>6. worker' = worker /\ Head(m_tasks)' = Head(m_tasks) /\ headers' = headers BY <1>2
    <2>7. worker' \in {"callback", "clear"} => Settled(Head(m_tasks))'
      BY <2>2, <2>5, <2>6, <1>17 DEF DeliveryInv, TaskInv, Settled
    <2>8. worker' \in {"requested", "release"} => Clean(Head(m_tasks))'
      BY <2>4, <2>5, <2>6, <1>17 DEF DeliveryInv, TaskInv, Clean, Settled
    <2>9. worker \in {"callback", "clear"} => s # Other
      BY <2>1, <2>5 DEF DeliveryInv, TaskInv
    <2>10. worker' = "callback" => headers' = RecordHeaders(Draining)'
      BY <2>3, <2>5, <2>6, <2>9 DEF DeliveryInv, TaskInv, Draining
    <2>11. worker' = "clear" => Held(Draining)' \subseteq Delivered'
      BY <1>16, <2>3, <2>5, <2>6, <2>9 DEF DeliveryInv, TaskInv, Draining
    <2>12. Unclaimed' => Clean(Other)' BY <1>2, <2>4 DEF DeliveryInv, TaskInv
    <2>. QED BY <2>7, <2>8, <2>10, <2>11, <2>12 DEF TaskInv
  <1>25. OweInv'
    <2>1. LiveTasks' = LiveTasks BY <1>2 DEF LiveTasks
    <2>2. Held(buffers[Other]) \subseteq Held(buffers'[Other]) BY <1>15, <1>17
    <2>3. \A u \in Threads : /\ pc'[u] = "exec" => pc[u] = "exec"
                             /\ pc'[u] \in {"join", "joining"} => pc[u] = pc'[u]
      BY <1>1
    <2>. QED BY <1>1, <1>16, <1>17, <2>1, <2>2, <2>3 DEF DeliveryInv, OweInv
  <1>. QED
    BY <1>11, <1>12, <1>13, <1>14, <1>21, <1>22, <1>23, <1>24, <1>25
    DEF DeliveryInv, StoreInv

\* While a thread holds the claim, no task is there and the worker has nothing to do.
LEMMA ClaimHeld ==
  ASSUME FlushInv, NEW t \in Threads, t \in Claimants
  PROVE  Claimants = {t} /\ LiveTasks = << >> /\ worker \in {"idle", "done"} /\ syncer
  <1>1. Claimants = {t} /\ syncer BY DEF FlushInv, FlushExclusive
  <1>2. LiveTasks = << >> BY TaskSide
  <1>3. worker \in {"idle", "done"}
    <2>1. worker # "idle" => m_tasks # << >> BY TaskSide
    <2>. QED BY <1>2, <2>1 DEF LiveTasks
  <1>. QED BY <1>1, <1>2, <1>3

\* The sides are swapped: the one that comes into use is clean, so everything that is
\* stored and was not delivered is in the one that goes out of use.
LEMMA SwapMoves ==
  ASSUME FlushInv, TypeInv', DeliveryInv, NEW t \in Threads, SwapSides(t)
  PROVE  DeliveryInv'
  <1>. USE DEF sharedVars, groupVars, emplaceVars, flushVars, workerVars, history
  <1>0. /\ pc \in [Threads -> Steps] /\ owed \in [Threads -> SUBSET Records]
        /\ TypeInv
    BY DEF FlushInv, TypeInv, TypeOK
  <1>1. /\ pc[t] = "swap" /\ pc'[t] = "exec"
        /\ \A u \in Threads : u # t => pc'[u] = pc[u] /\ owed'[u] = owed[u]
        /\ owed'[t] = accepted \cap Held(buffers[buffer_idx])
        /\ buffer_idx' = Other
        /\ UNCHANGED <<buffers, worker, headers, callbacks, delivered, m_tasks, syncer,
                       idx, addr, index, calls, caller, before, accepted>>
    BY <1>0 DEF SwapSides, Goto, Other
  <1>2. Claimants = {t} /\ LiveTasks = << >> /\ worker \in {"idle", "done"} /\ syncer
    BY <1>1, ClaimHeld DEF Claimants
  <1>3. /\ buffer_idx \in Side /\ Other \in Side /\ Other # buffer_idx
        /\ \A s \in Side : s # buffer_idx => s = Other
    BY TaskSide
  <1>4. Other' = buffer_idx
    <2>1. buffer_idx \in {0, 1} BY <1>3 DEF Side
    <2>. QED BY <1>1, <2>1 DEF Other
  <1>5. Held(buffers[Other]) = {}
    <2>1. Clean(Other) BY <1>1 DEF DeliveryInv, TaskInv, Unclaimed
    <2>. QED BY <2>1 DEF Clean, Held
  <1>6. LiveTasks' = << >> BY <1>1, <1>2 DEF LiveTasks
  <1>7. Delivered' = Delivered /\ Stored' = Stored BY <1>1 DEF Delivered, Stored
  <1>8. Moves(t) BY <1>1 DEF Moves
  <1>9. \A u \in Threads : u # t => KeepsStore(u) /\ KeepsRest(u)
    BY <1>0, <1>8, OthersKeepAll
  <1>10. /\ KeepsStore(t) /\ KeepsCalls(t)
    <2>1. ~InFlight(t)' /\ ~Reserved(t)' BY <1>1 DEF InFlight, Reserved
    <2>2. (Unstored(t)' => Unstored(t)) /\ (Returning(t)' => Returning(t))
      BY <1>1 DEF Unstored, Returning, FlushSteps
    <2>3. calls[t] \in Nat BY DEF FlushInv, TypeInv, TypeOK
    <2>. QED BY <1>1, <2>1, <2>2, <2>3 DEF KeepsStore, KeepsCalls
  <1>11. StoreInv'
    BY <1>0, <1>1, <1>9, <1>10, StoreKept, SameBuffers DEF DeliveryInv
  <1>12. AgeInv' /\ KeptInv'
    <2>1. \A u \in Threads : KeepsCalls(u) BY <1>9, <1>10 DEF KeepsRest
    <2>. QED BY <1>0, <1>1, <1>7, <2>1, CallsKept, StoredNow DEF DeliveryInv
  <1>13. OrderInv'
    <2>1. \A s \in Side : \A i, j \in RecordHeaders(buffers[s]) :
            i < j => Older(Payload(buffers[s], i), Payload(buffers[s], j))
      BY DEF DeliveryInv, OrderInv
    <2>2. \A s \in Side : \A q \in Delivered, r \in Held(buffers[s]) : Older(q, r)
      BY <1>2 DEF DeliveryInv, OrderInv
    <2>3. InOrder' /\ NoDuplicates' /\ \A d \in delivered' : d[1] <= callbacks'
      BY <1>1 DEF DeliveryInv, OrderInv, InOrder, NoDuplicates
    <2>. QED BY <1>1, <1>4, <1>5, <1>7, <2>1, <2>2, <2>3 DEF OrderInv
  <1>14. TaskInv'
    <2>1. ~Unclaimed' BY <1>1, <1>2 DEF Unclaimed, Claimants
    <2>. QED BY <1>1, <1>2, <2>1 DEF TaskInv
  <1>15. OweInv'
    <2>1. before[t] \subseteq accepted /\ accepted \subseteq Stored
      BY StoredNow DEF DeliveryInv, OweInv
    <2>2. Stored = Delivered \cup Held(buffers[buffer_idx])
      BY <1>3, <1>5 DEF Stored, Side
    <2>3. \A u \in Threads : pc'[u] = "exec" => u = t BY <1>1, <1>2 DEF Claimants
    <2>4. \A u \in Threads : pc'[u] \in {"join", "joining"} =>
            owed'[u] = owed[u] /\ owed[u] \cup before[u] \subseteq Delivered
      BY <1>1, <1>2 DEF DeliveryInv, OweInv
    <2>5. \A u \in Threads : before[u] \subseteq accepted BY DEF DeliveryInv, OweInv
    <2>6. owed'[t] \cup before[t] \subseteq Delivered \cup Held(buffers[buffer_idx])
      BY <1>1, <2>1, <2>2
    <2>. QED BY <1>1, <1>4, <1>7, <2>3, <2>4, <2>5, <2>6 DEF OweInv
  <1>. QED BY <1>11, <1>12, <1>13, <1>14, <1>15 DEF DeliveryInv

\* The task is queued: what its thread is owed stays in the side that it drains.
LEMMA ExecMoves ==
  ASSUME FlushInv, FlushInv', DeliveryInv, NEW t \in Threads, ExecTask(t)
  PROVE  DeliveryInv'
  <1>. USE DEF sharedVars, groupVars, emplaceVars, flushVars, workerVars, history
  <1>0. /\ pc \in [Threads -> Steps] /\ TypeInv /\ TypeInv'
    BY DEF FlushInv, TypeInv, TypeOK
  <1>1. /\ pc[t] = "exec"
        /\ \A u \in Threads : u # t => pc'[u] = pc[u]
        /\ m_tasks' = Append(m_tasks, side[t])
        /\ UNCHANGED <<buffer_idx, buffers, worker, headers, callbacks, delivered, syncer,
                       idx, addr, index, calls, caller, before, owed, accepted>>
    BY <1>0 DEF ExecTask, Goto
  <1>2. pc'[t] \in {"join", Resume(t)} BY <1>0 DEF ExecTask, Goto
  <1>3. \/ caller[t] = "retry" /\ Resume(t) = "retry"
        \/ caller[t] = "watermark" /\ Resume(t) = "return"
        \/ caller[t] \in {"tool", "finalizer"} /\ Resume(t) \in {"idle", "quit"}
    BY DEF FlushInv, TypeInv, TypeOK, Resume
  <1>4. Claimants = {t} /\ LiveTasks = << >> /\ worker \in {"idle", "done"} /\ syncer
    BY <1>1, ClaimHeld DEF Claimants
  <1>5. Claimants' = {}
    <2>1. pc'[t] \notin {"swap", "exec"} BY <1>2, <1>3
    <2>. QED BY <1>1, <1>4, <2>1 DEF Claimants
  <1>6. LiveTasks' # << >>
    <2>1. task_group' BY DEF ExecTask
    <2>. QED BY <1>1, <1>4, <1>5, <2>1 DEF FlushInv, FlushExclusive
  <1>7. Other' = Other BY <1>1 DEF Other
  <1>8. Delivered' = Delivered /\ Stored' = Stored BY <1>1 DEF Delivered, Stored
  <1>9. Moves(t) BY <1>1 DEF Moves
  <1>10. \A u \in Threads : u # t => KeepsStore(u) /\ KeepsRest(u)
    BY <1>0, <1>9, OthersKeepAll
  <1>11. KeepsStore(t) /\ KeepsCalls(t)
    <2>1. ~InFlight(t)' /\ ~Reserved(t)' /\ pc'[t] \notin {"place", "failed"}
      BY <1>2, <1>3 DEF InFlight, Reserved
    <2>2. (Unstored(t)' => Unstored(t)) /\ (Returning(t)' => Returning(t))
      BY <1>1, <1>2, <1>3 DEF Unstored, Returning, FlushSteps
    <2>3. calls[t] \in Nat BY DEF FlushInv, TypeInv, TypeOK
    <2>. QED BY <1>1, <2>1, <2>2, <2>3 DEF KeepsStore, KeepsCalls
  <1>12. StoreInv'
    BY <1>0, <1>1, <1>10, <1>11, StoreKept, SameBuffers DEF DeliveryInv
  <1>13. AgeInv' /\ KeptInv'
    <2>1. \A u \in Threads : KeepsCalls(u) BY <1>10, <1>11 DEF KeepsRest
    <2>. QED BY <1>0, <1>1, <1>8, <2>1, CallsKept, StoredNow DEF DeliveryInv
  <1>14. OrderInv'
    <2>1. /\ \A s \in Side : \A i, j \in RecordHeaders(buffers[s]) :
               i < j => Older(Payload(buffers[s], i), Payload(buffers[s], j))
          /\ \A q \in Held(buffers[Other]), r \in Held(buffers[buffer_idx]) : Older(q, r)
          /\ \A s \in Side : \A q \in Delivered, r \in Held(buffers[s]) : Older(q, r)
      BY <1>4 DEF DeliveryInv, OrderInv
    <2>2. \A u \in Threads : InFlight(u)' /\ idx[u] # buffer_idx =>
            \A r \in Held(buffers[buffer_idx]) : r[1] # u
      <3>1. \A u \in Threads : InFlight(u)' => InFlight(u) BY <1>1, <1>2, <1>3 DEF InFlight
      <3>. QED BY <3>1 DEF DeliveryInv, OrderInv
    <2>3. InOrder' /\ NoDuplicates' /\ \A d \in delivered' : d[1] <= callbacks'
      BY <1>1 DEF DeliveryInv, OrderInv, InOrder, NoDuplicates
    <2>. QED BY <1>1, <1>7, <1>8, <2>1, <2>2, <2>3 DEF OrderInv
  <1>15. TaskInv'
    <2>1. ~Unclaimed' BY <1>1, <1>4, <1>5 DEF Unclaimed, Claimants
    <2>. QED BY <1>1, <1>4, <2>1 DEF TaskInv
  <1>16. OweInv'
    <2>1. \A u \in Threads : pc'[u] # "exec" BY <1>5 DEF Claimants
    <2>2. owed[t] \cup before[t] \subseteq Delivered \cup Held(buffers[Other])
      BY <1>1 DEF DeliveryInv, OweInv
    <2>3. \A u \in Threads : u # t /\ pc'[u] \in {"join", "joining"} =>
            owed[u] \cup before[u] \subseteq Delivered
      BY <1>1, <1>4 DEF DeliveryInv, OweInv
    <2>4. \A u \in Threads : before[u] \subseteq accepted BY DEF DeliveryInv, OweInv
    <2>. QED BY <1>1, <1>6, <1>7, <1>8, <2>1, <2>2, <2>3, <2>4 DEF OweInv
  <1>. QED BY <1>12, <1>13, <1>14, <1>15, <1>16 DEF DeliveryInv

\* What a step of the worker leaves alone.
WorkerMoves ==
  UNCHANGED <<buffer_idx, pc, idx, addr, index, calls, caller, before, owed, accepted>>

\* A step of the worker moves no thread.
LEMMA WorkerKeeps ==
  ASSUME TypeInv, DeliveryInv, WorkerMoves
  PROVE  /\ \A t \in Threads : KeepsStore(t) /\ KeepsRest(t) /\ KeepsCalls(t)
         /\ \A t \in Threads : InFlight(t)' <=> InFlight(t)
         /\ \A s \in Side : Settled(s)' <=> Settled(s)
         /\ Other' = Other
  <1>. USE DEF WorkerMoves
  <1>1. \A t \in Threads : calls[t] \in Nat /\ idx[t] \in Side BY DEF TypeInv, TypeOK
  <1>2. \A t \in Threads : KeepsStore(t) /\ KeepsRest(t) BY <1>1, OthersKeep
  <1>3. \A t \in Threads : InFlight(t)' <=> InFlight(t) BY DEF InFlight
  <1>4. \A s \in Side : Settled(s)' <=> Settled(s) BY <1>3 DEF Settled
  <1>. QED BY <1>2, <1>3, <1>4 DEF KeepsRest, Other

\* The worker's steps that neither deliver nor clear.
LEMMA LookMoves ==
  ASSUME FlushInv, FlushInv', DeliveryInv, ~late',
         \/ TaskBegin \/ CheckCount \/ CheckRequested \/ CollectHeaders \/ ReleaseSyncer
         \/ TaskEnd
  PROVE  DeliveryInv'
  <1>. USE DEF emplaceVars, flushVars, WorkerGoto
  <1>1. /\ WorkerMoves /\ UNCHANGED <<buffers, callbacks, delivered>>
        /\ worker \in {"idle", "empty", "requested", "collect", "release", "done"}
        /\ worker' # "clear"
    BY DEF TaskBegin, CheckCount, CheckRequested, CollectHeaders, ReleaseSyncer, TaskEnd,
           WorkerUnchanged, WorkerMoves
  <1>2. TypeInv /\ TypeInv' BY DEF FlushInv
  <1>3. /\ \A t \in Threads : KeepsStore(t) /\ KeepsCalls(t)
        /\ \A t \in Threads : InFlight(t)' <=> InFlight(t)
        /\ \A s \in Side : Settled(s)' <=> Settled(s)
        /\ Other' = Other /\ buffer_idx' = buffer_idx
    BY <1>1, <1>2, WorkerKeeps DEF WorkerMoves
  <1>4. Delivered' = Delivered /\ Stored' = Stored BY <1>1 DEF Delivered, Stored
  <1>5. StoreInv' BY <1>1, <1>2, <1>3, StoreKept, SameBuffers DEF DeliveryInv
  <1>6. AgeInv' /\ KeptInv'
    BY <1>1, <1>2, <1>3, <1>4, CallsKept, StoredNow DEF DeliveryInv, WorkerMoves
  <1>7. OrderInv'
    <2>1. /\ \A s \in Side : \A i, j \in RecordHeaders(buffers[s]) :
               i < j => Older(Payload(buffers[s], i), Payload(buffers[s], j))
          /\ \A q \in Held(buffers[Other]), r \in Held(buffers[buffer_idx]) : Older(q, r)
          /\ \A s \in Side : \A q \in Delivered, r \in Held(buffers[s]) : Older(q, r)
          /\ \A t \in Threads : InFlight(t) /\ idx[t] # buffer_idx =>
               \A r \in Held(buffers[buffer_idx]) : r[1] # t
      BY <1>1 DEF DeliveryInv, OrderInv
    <2>2. InOrder' /\ NoDuplicates' /\ \A d \in delivered' : d[1] <= callbacks'
      BY <1>1 DEF DeliveryInv, OrderInv, InOrder, NoDuplicates
    <2>3. idx' = idx BY <1>1 DEF WorkerMoves
    <2>. QED BY <1>1, <1>3, <1>4, <2>1, <2>2, <2>3 DEF OrderInv
  <1>8. /\ buffer_idx \in Side /\ Other \in Side /\ Other # buffer_idx
        /\ worker # "idle" => Head(m_tasks) \in Side
        /\ worker \notin {"idle", "done"} => Head(m_tasks) = Other
    BY TaskSide
  <1>9. Clean(Other)' <=> Clean(Other) BY <1>1, <1>3, <1>8 DEF Clean, Settled
  <1>10. /\ worker' = "callback" => Settled(Other) /\ headers' = RecordHeaders(Draining)
         /\ worker' \in {"requested", "release"} => Clean(Other)
         /\ Unclaimed' => Unclaimed \/ Clean(Other)
    <2>1. CASE TaskBegin \/ TaskEnd
      <3>1. worker' \in {"empty", "idle"} /\ UNCHANGED <<syncer, pc>>
        BY <2>1 DEF TaskBegin, TaskEnd, WorkerUnchanged
      <3>. QED BY <3>1 DEF Unclaimed
    <2>2. CASE CheckCount
      <3>1. /\ UNCHANGED <<syncer, pc>> /\ worker = "empty" /\ worker' # "callback"
            /\ worker' \in {"requested", "release"} => ~Draining.allocated \/ count(Draining) = 0
            /\ count(Draining) # 0 \/ ~LateEmplace
        BY <2>2 DEF CheckCount, WorkerUnchanged
      <3>2. Head(m_tasks) = Other BY <1>8, <3>1
      <3>3. ~Draining.allocated => count(Draining) = 0
        BY <1>8, <3>2 DEF DeliveryInv, StoreInv, AllocatedInv, Draining
      <3>4. ASSUME worker' \in {"requested", "release"} PROVE Clean(Other)
        <4>1. count(buffers[Other]) = 0 /\ ~LateEmplace BY <3>1, <3>2, <3>3, <3>4 DEF Draining
        <4>2. Settled(Other) BY <3>2, <4>1 DEF LateEmplace, Settled
        <4>3. \A i \in RecordHeaders(buffers[Other]) :
                buffers[Other].m_headers[i] < 0 /\ buffers[Other].m_headers[i] \in Nat
          BY <1>2, <1>8, <4>1, HeaderAddress DEF DeliveryInv, StoreInv, CellsInv
        <4>4. RecordHeaders(buffers[Other]) = {} BY <4>3
        <4>. QED BY <4>2, <4>4 DEF Clean
      <3>. QED BY <3>1, <3>4 DEF Unclaimed
    <2>3. CASE CheckRequested
      <3>1. UNCHANGED <<syncer, pc>> /\ worker = "requested" /\ worker' \in {"release", "collect"}
        BY <2>3 DEF CheckRequested, WorkerUnchanged
      <3>2. Clean(Other) BY <1>8, <3>1 DEF DeliveryInv, TaskInv
      <3>. QED BY <3>1, <3>2 DEF Unclaimed
    <2>4. CASE CollectHeaders
      <3>1. /\ UNCHANGED <<syncer, pc>> /\ worker = "collect" /\ worker' = "callback"
            /\ headers' = RecordHeaders(Draining) /\ ~LateEmplace
        BY <2>4 DEF CollectHeaders, WorkerUnchanged
      <3>2. Settled(Other) BY <1>8, <3>1 DEF LateEmplace, Settled
      <3>. QED BY <3>1, <3>2 DEF Unclaimed
    <2>5. CASE ReleaseSyncer
      <3>1. worker = "release" /\ worker' = "done" BY <2>5 DEF ReleaseSyncer
      <3>2. Clean(Other) BY <1>8, <3>1 DEF DeliveryInv, TaskInv
      <3>. QED BY <3>1, <3>2
    <2>. QED BY <2>1, <2>2, <2>3, <2>4, <2>5
  <1>11. worker' \in {"requested", "callback", "release"} =>
           Head(m_tasks)' = Other /\ Draining' = buffers[Other] /\ Draining = buffers[Other]
    <2>1. worker' \in {"requested", "callback", "release"} =>
            m_tasks' = m_tasks /\ worker \notin {"idle", "done"}
      BY DEF TaskBegin, CheckCount, CheckRequested, CollectHeaders, ReleaseSyncer, TaskEnd
    <2>. QED BY <1>1, <1>8, <2>1 DEF Draining
  <1>12. TaskInv'
    <2>1. Unclaimed' => Clean(Other)' BY <1>9, <1>10 DEF DeliveryInv, TaskInv
    <2>2. worker' \in {"callback", "clear"} => Settled(Head(m_tasks))'
      BY <1>1, <1>3, <1>8, <1>10, <1>11 DEF Settled
    <2>3. worker' \in {"requested", "release"} => Clean(Head(m_tasks))'
      BY <1>3, <1>9, <1>10, <1>11 DEF Clean, Settled
    <2>4. worker' = "callback" => headers' = RecordHeaders(Draining)'
      BY <1>10, <1>11
    <2>. QED BY <1>1, <2>1, <2>2, <2>3, <2>4 DEF TaskInv
  <1>13. OweInv'
    <2>1. LiveTasks' = LiveTasks \/ Held(buffers[Other]) = {}
      <3>1. CASE ReleaseSyncer
        <4>1. Clean(Other) BY <1>8, <3>1 DEF ReleaseSyncer, DeliveryInv, TaskInv
        <4>. QED BY <4>1 DEF Clean, Held
      <3>2. CASE TaskEnd BY <3>2 DEF TaskEnd, LiveTasks
      <3>3. CASE TaskBegin \/ CheckCount \/ CheckRequested \/ CollectHeaders
        BY <3>3 DEF TaskBegin, CheckCount, CheckRequested, CollectHeaders, LiveTasks
      <3>. QED BY <3>1, <3>2, <3>3
    <2>2. UNCHANGED <<pc, before, owed, accepted>> BY <1>1 DEF WorkerMoves
    <2>. QED BY <1>1, <1>3, <1>4, <2>1, <2>2 DEF DeliveryInv, OweInv
  <1>. QED BY <1>5, <1>6, <1>7, <1>12, <1>13 DEF DeliveryInv

\* The callback is handed all of the side, in order, behind everything delivered before.
LEMMA CallbackMoves ==
  ASSUME FlushInv, FlushInv', DeliveryInv, InvokeCallback
  PROVE  DeliveryInv'
  <1>. USE DEF emplaceVars, flushVars, WorkerGoto
  <1> DEFINE b == buffers[Other]
             new == {<<callbacks + 1, i, Payload(b, i)>> : i \in RecordHeaders(b)}
  <1>1. /\ WorkerMoves /\ UNCHANGED <<buffers, m_tasks, syncer, pc, idx>>
        /\ worker = "callback" /\ worker' = "clear" /\ callbacks' = callbacks + 1
    BY DEF InvokeCallback, WorkerUnchanged, WorkerMoves
  <1>2. TypeInv /\ TypeInv' /\ callbacks \in Nat BY DEF FlushInv, TypeInv, TypeOK
  <1>3. /\ \A t \in Threads : KeepsStore(t) /\ KeepsCalls(t)
        /\ \A t \in Threads : InFlight(t)' <=> InFlight(t)
        /\ \A s \in Side : Settled(s)' <=> Settled(s)
        /\ Other' = Other /\ buffer_idx' = buffer_idx
    BY <1>1, <1>2, WorkerKeeps DEF WorkerMoves
  <1>4. /\ buffer_idx \in Side /\ Other \in Side /\ Other # buffer_idx
        /\ \A s \in Side : s # Other => s = buffer_idx
        /\ Head(m_tasks) = Other
    BY <1>1, TaskSide
  <1>5. headers = RecordHeaders(b) /\ Draining = b
    BY <1>1, <1>4 DEF DeliveryInv, TaskInv, Draining
  <1>6. delivered' = delivered \cup new BY <1>5 DEF InvokeCallback
  <1>7. \A d \in new : d[1] = callbacks + 1 /\ d[2] \in RecordHeaders(b) /\ d[3] = Payload(b, d[2])
    OBVIOUS
  <1>8. {d[3] : d \in new} = Held(b)
    <2>1. \A i \in RecordHeaders(b) : <<callbacks + 1, i, Payload(b, i)>>[3] = Payload(b, i)
      OBVIOUS
    <2>. QED BY <2>1 DEF Held
  <1>9. \A d, e \in new : d[2] = e[2] => d = e
    OBVIOUS
  <1>. HIDE DEF new, b
  <1>10. Delivered' = Delivered \cup Held(b) BY <1>6, <1>8 DEF Delivered
  <1>11. Stored' = Stored
    BY <1>1, <1>4, <1>10 DEF Stored, Side, b
  <1>12. StoreInv' BY <1>1, <1>2, <1>3, StoreKept, SameBuffers DEF DeliveryInv
  <1>13. AgeInv' /\ KeptInv'
    BY <1>1, <1>2, <1>3, <1>11, CallsKept, StoredNow DEF DeliveryInv, WorkerMoves
  <1>14. OrderInv'
    <2>1. /\ \A s \in Side : \A i, j \in RecordHeaders(buffers[s]) :
               i < j => Older(Payload(buffers[s], i), Payload(buffers[s], j))
          /\ \A q \in Held(b), r \in Held(buffers[buffer_idx]) : Older(q, r)
          /\ \A s \in Side : \A q \in Delivered, r \in Held(buffers[s]) : Older(q, r)
          /\ \A t \in Threads : InFlight(t) /\ idx[t] # buffer_idx =>
               \A r \in Held(buffers[buffer_idx]) : r[1] # t
          /\ InOrder /\ NoDuplicates /\ \A d \in delivered : d[1] <= callbacks
      BY <1>1 DEF DeliveryInv, OrderInv, b
    <2>2. \A s \in Side : \A q \in Delivered', r \in Held(buffers[s]) :
            Older(q, r) \/ s = Other
      BY <1>4, <1>10, <2>1
    <2>3. \A r \in Held(b) : ~Older(r, r)
      <3>1. \A r \in Held(b) : r \in Stored BY <1>4 DEF Stored, Side, b
      <3>2. \A r \in Stored : r \in Records BY DEF DeliveryInv, AgeInv
      <3>3. \A r \in Records : r[2] \in Nat BY DEF Records
      <3>. QED BY <3>1, <3>2, <3>3 DEF Older
    <2>4. \A d \in delivered : d[3] \in Delivered /\ d[1] \in Nat
      BY <1>2 DEF Delivered, TypeInv, TypeOK
    <2>5. \A d \in new : d[3] \in Held(b) /\ d[2] \in Nat
      <3>1. \A i \in RecordHeaders(b) : i \in Nat BY <1>2, <1>4, HeaderAddress DEF b
      <3>. QED BY <1>7, <3>1 DEF Held
    <2>6. \A d \in delivered, e \in new : /\ d[1] < e[1] /\ ~(e[1] < d[1]) /\ e[1] # d[1]
                                          /\ Older(d[3], e[3])
      <3>1. \A d \in delivered, e \in new : d[1] <= callbacks /\ e[1] = callbacks + 1 /\ d[1] \in Nat
        BY <1>7, <2>1, <2>4
      <3>2. \A d \in delivered, e \in new : Older(d[3], e[3])
        BY <1>4, <2>1, <2>4, <2>5 DEF b
      <3>. QED BY <1>2, <3>1, <3>2
    <2>7. \A d, e \in new : d[1] = e[1] /\ ~(d[1] < e[1]) /\ (d[2] < e[2] => Older(d[3], e[3]))
      <3>1. \A i, j \in RecordHeaders(b) : i < j => Older(Payload(b, i), Payload(b, j))
        BY <1>4, <2>1 DEF b
      <3>. QED BY <1>2, <1>7, <3>1
    <2>8. InOrder'
      <3>. SUFFICES ASSUME NEW d \in delivered \cup new, NEW e \in delivered \cup new,
                           d[1] < e[1] \/ (d[1] = e[1] /\ d[2] < e[2]), d[3][1] = e[3][1]
                    PROVE  d[3][2] < e[3][2]
        BY <1>6 DEF InOrder
      <3>1. CASE d \in delivered /\ e \in delivered BY <2>1, <3>1 DEF InOrder
      <3>2. CASE d \in delivered /\ e \in new BY <2>6, <3>2 DEF Older
      <3>3. CASE d \in new /\ e \in delivered BY <2>6, <3>3
      <3>4. CASE d \in new /\ e \in new BY <2>7, <3>4 DEF Older
      <3>. QED BY <3>1, <3>2, <3>3, <3>4
    <2>9. NoDuplicates'
      <3>. SUFFICES ASSUME NEW d \in delivered \cup new, NEW e \in delivered \cup new,
                           d[3] = e[3]
                    PROVE  d = e
        BY <1>6 DEF NoDuplicates
      <3>1. CASE d \in delivered /\ e \in delivered BY <2>1, <3>1 DEF NoDuplicates
      <3>2. CASE d \in delivered /\ e \in new BY <2>3, <2>5, <2>6, <3>2
      <3>3. CASE d \in new /\ e \in delivered BY <2>3, <2>5, <2>6, <3>3
      <3>4. CASE d \in new /\ e \in new
        <4>1. ~(d[2] < e[2]) /\ ~(e[2] < d[2]) BY <2>3, <2>5, <2>7, <3>4
        <4>2. d[2] = e[2] BY <2>5, <3>4, <4>1
        <4>. QED BY <1>9, <3>4, <4>2
      <3>. QED BY <3>1, <3>2, <3>3, <3>4
    <2>10. \A d \in delivered' : d[1] <= callbacks'
      BY <1>1, <1>2, <1>6, <1>7, <2>1, <2>4
    <2>. QED
      BY <1>1, <1>3, <1>4, <2>1, <2>2, <2>8, <2>9, <2>10 DEF OrderInv, b
  <1>15. TaskInv'
    <2>1. Settled(Other) BY <1>1, <1>4 DEF DeliveryInv, TaskInv
    <2>2. Clean(Other) => Clean(Other)' BY <1>1, <1>3, <1>4 DEF Clean, Settled
    <2>3. Unclaimed' => Unclaimed BY <1>1 DEF Unclaimed
    <2>4. Settled(Head(m_tasks))' BY <1>1, <1>3, <1>4, <2>1 DEF Settled
    <2>5. Held(Draining)' \subseteq Delivered' BY <1>1, <1>4, <1>10 DEF Draining, b
    <2>. QED BY <1>1, <2>2, <2>3, <2>4, <2>5 DEF DeliveryInv, TaskInv
  <1>16. OweInv'
    <2>1. LiveTasks' = LiveTasks BY <1>1 DEF LiveTasks
    <2>2. UNCHANGED <<pc, before, owed, accepted>> BY <1>1 DEF WorkerMoves
    <2>. QED BY <1>1, <1>3, <1>10, <2>1, <2>2 DEF DeliveryInv, OweInv
  <1>. QED BY <1>12, <1>13, <1>14, <1>15, <1>16 DEF DeliveryInv

\* What is cleared was delivered, and nobody writes to it.
LEMMA ClearMoves ==
  ASSUME FlushInv, FlushInv', DeliveryInv, ClearBuffer
  PROVE  DeliveryInv'
  <1>. USE DEF emplaceVars, flushVars, WorkerGoto
  <1>1. /\ WorkerMoves /\ UNCHANGED <<delivered, callbacks, m_tasks, syncer, pc, idx, index, addr>>
        /\ worker = "clear" /\ worker' = "release"
        /\ buffers' = [buffers EXCEPT ![Head(m_tasks)] = Clear(buffers[Head(m_tasks)])]
    BY DEF ClearBuffer, WorkerUnchanged, WorkerMoves
  <1>2. TypeInv /\ TypeInv' /\ buffers \in [Side -> Buffers(Records)]
    BY DEF FlushInv, TypeInv, TypeOK
  <1>3. /\ \A t \in Threads : KeepsStore(t) /\ KeepsCalls(t)
        /\ \A t \in Threads : InFlight(t)' <=> InFlight(t)
        /\ \A s \in Side : Settled(s)' <=> Settled(s)
        /\ Other' = Other /\ buffer_idx' = buffer_idx
    BY <1>1, <1>2, WorkerKeeps DEF WorkerMoves
  <1>4. /\ buffer_idx \in Side /\ Other \in Side /\ Other # buffer_idx
        /\ \A s \in Side : s # Other => s = buffer_idx
        /\ Head(m_tasks) = Other
    BY <1>1, TaskSide
  <1>5. /\ buffers'[Other] = Clear(buffers[Other]) /\ buffers'[buffer_idx] = buffers[buffer_idx]
        /\ buffers[Other] \in Buffers(Records)
    BY <1>1, <1>2, <1>4
  <1>6. /\ RecordHeaders(buffers'[Other]) = {} /\ count(buffers'[Other]) = 0
        /\ buffers'[Other].allocated = buffers[Other].allocated
    <2>1. /\ Clear(buffers[Other]).m_headers = << >> /\ Clear(buffers[Other]).m_write_count = 0
          /\ Clear(buffers[Other]).allocated = buffers[Other].allocated
      BY <1>5 DEF Clear, Buffers
    <2>. QED BY <1>5, <2>1 DEF RecordHeaders, count
  <1>7. Held(buffers'[Other]) = {} BY <1>6 DEF Held
  <1>8. Settled(Other) /\ Held(buffers[Other]) \subseteq Delivered
    BY <1>1, <1>4 DEF DeliveryInv, TaskInv, Draining
  <1>9. Delivered' = Delivered /\ Stored' = Stored
    <2>1. Delivered' = Delivered BY <1>1 DEF Delivered
    <2>2. Stored = Delivered \cup Held(buffers[buffer_idx]) \cup Held(buffers[Other])
      BY <1>4 DEF Stored, Side
    <2>3. Stored' = Delivered \cup Held(buffers'[buffer_idx]) \cup Held(buffers'[Other])
      BY <1>4, <2>1 DEF Stored, Side
    <2>. QED BY <1>5, <1>7, <1>8, <2>1, <2>2, <2>3
  <1>10. \A t \in Threads : InFlight(t) => idx[t] = buffer_idx
    <2>1. \A t \in Threads : idx[t] \in Side BY <1>2 DEF TypeInv, TypeOK
    <2>. QED BY <1>4, <1>8, <2>1 DEF Settled
  <1>11. StoreInv'
    <2>1. CellsInv'
      <3>1. \A i \in RecordHeaders(buffers[buffer_idx]) :
              /\ buffers[buffer_idx].m_headers[i] < count(buffers[buffer_idx])
              /\ Payload(buffers[buffer_idx], i) \in Records
              /\ \A j \in RecordHeaders(buffers[buffer_idx]) :
                   buffers[buffer_idx].m_headers[i] = buffers[buffer_idx].m_headers[j] => i = j
        BY <1>4 DEF DeliveryInv, StoreInv, CellsInv
      <3>. SUFFICES ASSUME NEW s \in Side, NEW i \in RecordHeaders(buffers'[s])
                    PROVE  /\ buffers'[s].m_headers[i] < count(buffers'[s])
                           /\ Payload(buffers'[s], i) \in Records
                           /\ \A j \in RecordHeaders(buffers'[s]) :
                                buffers'[s].m_headers[i] = buffers'[s].m_headers[j] => i = j
        BY DEF CellsInv
      <3>2. s = buffer_idx BY <1>4, <1>6
      <3>. QED BY <1>5, <3>1, <3>2
    <2>2. \A t \in Threads : /\ Reserved(t) => InFlight(t)
                             /\ pc[t] = "place" => InFlight(t)
                             /\ Reserved(t)' <=> Reserved(t)
      BY <1>1 DEF Reserved, InFlight
    <2>3. ReservedInv'
      <3>1. \A t \in Threads : Reserved(t) => idx[t] = buffer_idx BY <1>10, <2>2
      <3>. QED BY <1>1, <1>5, <2>2, <3>1 DEF DeliveryInv, StoreInv, ReservedInv
    <2>4. PlacingInv'
      <3>1. \A t \in Threads : pc[t] = "place" => idx[t] = buffer_idx BY <1>10, <2>2
      <3>. QED BY <1>1, <1>5, <3>1 DEF DeliveryInv, StoreInv, PlacingInv
    <2>5. AllocatedInv'
      <3>1. \A s \in Side : ~buffers'[s].allocated => ~buffers[s].allocated /\ count(buffers'[s]) = 0
        BY <1>4, <1>5, <1>6 DEF DeliveryInv, StoreInv, AllocatedInv
      <3>. QED BY <1>1, <1>3, <3>1 DEF DeliveryInv, StoreInv, AllocatedInv
    <2>. QED BY <2>1, <2>3, <2>4, <2>5 DEF StoreInv
  <1>12. AgeInv' /\ KeptInv'
    BY <1>1, <1>2, <1>3, <1>9, CallsKept, StoredNow DEF DeliveryInv, WorkerMoves
  <1>13. OrderInv'
    <2>1. /\ \A i, j \in RecordHeaders(buffers[buffer_idx]) :
               i < j => Older(Payload(buffers[buffer_idx], i), Payload(buffers[buffer_idx], j))
          /\ \A q \in Delivered, r \in Held(buffers[buffer_idx]) : Older(q, r)
          /\ \A t \in Threads : InFlight(t) /\ idx[t] # buffer_idx =>
               \A r \in Held(buffers[buffer_idx]) : r[1] # t
      BY <1>1, <1>4 DEF DeliveryInv, OrderInv
    <2>2. InOrder' /\ NoDuplicates' /\ \A d \in delivered' : d[1] <= callbacks'
      BY <1>1 DEF DeliveryInv, OrderInv, InOrder, NoDuplicates
    <2>3. \A s \in Side : \A i, j \in RecordHeaders(buffers'[s]) :
            i < j => Older(Payload(buffers'[s], i), Payload(buffers'[s], j))
      BY <1>4, <1>5, <1>6, <2>1
    <2>4. \A s \in Side : \A q \in Delivered, r \in Held(buffers'[s]) : Older(q, r)
      BY <1>4, <1>5, <1>7, <2>1
    <2>. QED BY <1>1, <1>3, <1>5, <1>7, <1>9, <2>1, <2>2, <2>3, <2>4 DEF OrderInv
  <1>14. TaskInv'
    <2>1. Clean(Other)' BY <1>3, <1>4, <1>6, <1>8 DEF Clean, Settled
    <2>2. Clean(Head(m_tasks))' BY <1>1, <1>3, <1>4, <2>1 DEF Clean, Settled
    <2>. QED BY <1>1, <2>1, <2>2 DEF TaskInv
  <1>15. OweInv'
    <2>1. UNCHANGED <<pc, before, owed, accepted>> BY <1>1 DEF WorkerMoves
    <2>2. \A t \in Threads : pc[t] \in {"exec", "join", "joining"} =>
            owed[t] \cup before[t] \subseteq Delivered
      BY <1>8 DEF DeliveryInv, OweInv
    <2>. QED BY <1>9, <2>1, <2>2 DEF DeliveryInv, OweInv
  <1>. QED BY <1>11, <1>12, <1>13, <1>14, <1>15 DEF DeliveryInv

\* Every step keeps the invariant, if no emplace is late after it.
LEMMA DeliveryStep ==
  ASSUME FlushInv, FlushInv', DeliveryInv, ~late', [Next]_vars
  PROVE  DeliveryInv'
  <1>0. TypeInv /\ TypeInv' BY DEF FlushInv
  <1>1. ASSUME ~Claiming, NEW t \in Producers, Emplace(t) PROVE DeliveryInv'
    <2>1. Quiet BY <1>0, <1>1, QuietElse
    <2>. QED
      BY <1>0, <1>1, <2>1, EmplaceMoves, RequestMoves, ReserveMoves, TakeMoves, PlaceMoves
      DEF Emplace
  <1>2. ASSUME ~Claiming, NEW t \in Threads,
               \/ FlushBegin(t) \/ LockGroup(t) \/ TasksDone(t) \/ FlushBusy(t)
               \/ FlushCall(t) \/ FinalizeBegin(t) \/ DeleteGroup(t) \/ FinalizeEnd(t)
        PROVE  DeliveryInv'
    <2>1. Quiet BY <1>0, <1>2, QuietElse
    <2>2. Unclaimed' => Unclaimed BY <2>1 DEF Quiet, Unclaimed
    <2>. QED BY <1>0, <1>2, <2>2, FlushMoves
  <1>3. ASSUME NEW t \in Threads, FlushClaim(t) PROVE DeliveryInv'
    <2>1. Unclaimed BY <1>3 DEF FlushClaim, Unclaimed
    <2>. QED BY <1>0, <1>3, <2>1, FlushMoves
  <1>4. ASSUME NEW t \in Threads, UseDeletedGroup(t) PROVE DeliveryInv'
    <2>1. /\ pc \in [Threads -> Steps] /\ pc' = [pc EXCEPT ![t] = "aborted"] /\ syncer' = syncer
      BY <1>0, <1>4 DEF UseDeletedGroup, TypeInv, TypeOK, sharedVars
    <2>2. \A u \in Threads : pc'[u] = "swap" => pc[u] = "swap" BY <2>1
    <2>3. Unclaimed' => Unclaimed BY <2>1, <2>2 DEF Unclaimed
    <2>. QED BY <1>0, <1>4, <2>3, FlushMoves
  <1>5. ASSUME NEW t \in Threads, SwapSides(t) PROVE DeliveryInv'
    BY <1>0, <1>5, SwapMoves
  <1>6. ASSUME NEW t \in Threads, ExecTask(t) PROVE DeliveryInv'
    BY <1>6, ExecMoves
  <1>7. ASSUME \/ TaskBegin \/ CheckCount \/ CheckRequested \/ CollectHeaders \/ ReleaseSyncer
               \/ TaskEnd
        PROVE  DeliveryInv'
    BY <1>7, LookMoves
  <1>8. ASSUME InvokeCallback PROVE DeliveryInv' BY <1>8, CallbackMoves
  <1>9. ASSUME ClearBuffer PROVE DeliveryInv' BY <1>9, ClearMoves
  <1>10. ASSUME UNCHANGED vars \/ \E t \in Threads : FlushSpins(t) PROVE DeliveryInv'
    <2>1. UNCHANGED vars BY <1>10 DEF FlushSpins
    <2>2. /\ WorkerMoves
          /\ UNCHANGED <<buffers, callbacks, delivered, worker, headers, m_tasks, syncer>>
      BY <2>1 DEF vars, sharedVars, groupVars, emplaceVars, flushVars, workerVars, history,
                  WorkerMoves
    <2>3. \A t \in Threads : KeepsStore(t) /\ KeepsRest(t) BY <1>0, <2>2, WorkerKeeps
    <2>4. StoreInv' BY <1>0, <2>2, <2>3, StoreKept, SameBuffers DEF DeliveryInv
    <2>5. SameRecords BY <2>2, SameBuffers, ContentsRecords
    <2>6. Unclaimed' => Unclaimed BY <2>2 DEF Unclaimed, WorkerMoves
    <2>7. /\ UNCHANGED <<buffer_idx, worker, headers, callbacks, delivered, m_tasks>>
          /\ accepted \subseteq accepted' /\ accepted' \subseteq Stored
      BY <2>2, StoredNow DEF WorkerMoves
    <2>. QED BY <1>0, <2>3, <2>4, <2>5, <2>6, <2>7, RestKept DEF DeliveryInv
  <1>11. Producers \subseteq Threads /\ Flushers \subseteq Threads /\ Finalizers \subseteq Threads
    BY DEF Threads
  <1>12. CASE Claiming BY <1>3, <1>4, <1>5, <1>6, <1>7, <1>12 DEF Claiming
  <1>13. CASE ~Claiming
    <2>1. ASSUME NEW t \in Threads, Flush(t) PROVE DeliveryInv'
      BY <1>2, <1>3, <1>4, <1>5, <1>6, <1>10, <1>13, <2>1 DEF Flush
    <2>2. ASSUME NEW t \in Finalizers, Finalize(t) PROVE DeliveryInv'
      BY <1>2, <1>11, <1>13, <2>2 DEF Finalize
    <2>3. ASSUME Worker PROVE DeliveryInv'
      BY <1>7, <1>8, <1>9, <2>3 DEF Worker
    <2>4. ASSUME NEW t \in Flushers, FlushCall(t) PROVE DeliveryInv'
      BY <1>2, <1>11, <1>13, <2>4
    <2>. QED BY <1>1, <1>10, <1>13, <2>1, <2>2, <2>3, <2>4 DEF Next, Finished
  <1>. QED BY <1>12, <1>13

\* Once late, always late; what was delivered stays so.
LEMMA HistoryGrows ==
  ASSUME [Next]_vars, TypeInv
  PROVE  (late => late') /\ Delivered \subseteq Delivered'
  <1>. USE DEF sharedVars, groupVars, emplaceVars, flushVars, workerVars, history
  <1>1. ASSUME NEW t \in Producers, Emplace(t) PROVE UNCHANGED <<late, delivered>>
    <2>1. CASE \/ EmplaceCall(t) \/ AnnounceRequest(t) \/ ReserveSpace(t) \/ TakeHeader(t)
               \/ PlaceRecord(t) \/ WithdrawRequest(t)
      BY <2>1, Zenon DEF EmplaceCall, AnnounceRequest, ReserveSpace, TakeHeader, PlaceRecord,
         WithdrawRequest
    <2>2. CASE \/ EmplaceThrows(t) \/ EmplaceBlocks(t) \/ EmplaceRetries(t) \/ EmplaceDrops(t)
               \/ CheckWatermark(t) \/ EmplaceReturns(t)
      BY <2>2, Zenon DEF EmplaceThrows, EmplaceBlocks, EmplaceRetries, EmplaceDrops, CheckWatermark,
         EmplaceReturns
    <2>. QED BY <1>1, <2>1, <2>2 DEF Emplace
  <1>2. ASSUME NEW t, Flush(t) \/ FlushCall(t) \/ Finalize(t) PROVE UNCHANGED <<late, delivered>>
    <2>1. CASE FlushBegin(t) \/ LockGroup(t) \/ TasksDone(t) \/ FlushBusy(t) \/ FlushClaim(t)
      BY <2>1, Zenon DEF FlushBegin, LockGroup, TasksDone, FlushBusy, FlushClaim
    <2>2. CASE SwapSides(t) \/ ExecTask(t) \/ UseDeletedGroup(t) \/ FlushCall(t)
      BY <2>2, Zenon DEF SwapSides, ExecTask, UseDeletedGroup, FlushCall
    <2>3. CASE FlushSpins(t) BY <2>3 DEF FlushSpins, vars
    <2>4. CASE Finalize(t) BY <2>4, Zenon DEF Finalize, FinalizeBegin, DeleteGroup, FinalizeEnd
    <2>. QED BY <1>2, <2>1, <2>2, <2>3, <2>4 DEF Flush
  <1>3. ASSUME Worker PROVE (late => late') /\ delivered \subseteq delivered'
    <2>1. late \in BOOLEAN BY DEF TypeInv, TypeOK
    <2>2. CASE TaskBegin \/ CheckRequested \/ ClearBuffer \/ ReleaseSyncer \/ TaskEnd
      <3>1. UNCHANGED <<late, delivered>>
        BY <2>2, Zenon DEF TaskBegin, CheckRequested, ClearBuffer, ReleaseSyncer, TaskEnd
      <3>. QED BY <3>1
    <2>3. CASE CheckCount \/ CollectHeaders
      <3>1. (late => late') /\ delivered' = delivered
        BY <2>3, Zenon DEF CheckCount, CollectHeaders
      <3>. QED BY <3>1
    <2>4. CASE InvokeCallback BY <2>4, Zenon DEF InvokeCallback
    <2>. QED BY <1>3, <2>2, <2>3, <2>4 DEF Worker
  <1>4. ASSUME UNCHANGED vars PROVE UNCHANGED <<late, delivered>> BY <1>4 DEF vars
  <1>5. (late => late') /\ delivered \subseteq delivered'
    BY <1>1, <1>2, <1>3, <1>4 DEF Next, Finished
  <1>. QED BY <1>5 DEF Delivered

\* A buffer starts out empty.
LEMMA DeliveryInit == Init => DeliveryInv
  <1>. SUFFICES ASSUME Init PROVE DeliveryInv
    OBVIOUS
  <1>1. \A s \in Side : RecordHeaders(buffers[s]) = {} /\ count(buffers[s]) = 0
    BY DEF Init, Allocate, Unallocated, RecordHeaders, count
  <1>2. \A s \in Side : Held(buffers[s]) = {} BY <1>1 DEF Held
  <1>3. \A t \in Threads : pc[t] = "idle" BY DEF Init
  <1>4. Delivered = {} /\ Stored = {}
    BY <1>2 DEF Init, Delivered, Stored, Side
  <1>5. StoreInv
    BY <1>1, <1>3 DEF StoreInv, CellsInv, ReservedInv, PlacingInv, AllocatedInv, Reserved, InFlight
  <1>6. buffer_idx \in Side /\ Other \in Side BY DEF Init, Other, Side
  <1>7. OrderInv
    BY <1>1, <1>2, <1>3, <1>4, <1>6 DEF Init, OrderInv, InFlight, InOrder, NoDuplicates
  <1>8. AgeInv /\ KeptInv
    BY <1>3, <1>4 DEF Init, AgeInv, KeptInv, Returning, FailedInv, FlushSteps
  <1>9. TaskInv
    BY <1>1, <1>3, <1>6 DEF Init, TaskInv, Clean, Settled, InFlight
  <1>10. OweInv BY <1>3 DEF Init, OweInv
  <1>. QED BY <1>5, <1>7, <1>8, <1>9, <1>10 DEF DeliveryInv

\* A late emplace, once there, excuses everything.
HarmInv == FlushInv /\ (~late => DeliveryInv)

\* It is inductive, because late is never reset.
LEMMA HarmStep == HarmInv /\ [Next]_vars => HarmInv'
  <1>. SUFFICES ASSUME HarmInv, [Next]_vars PROVE HarmInv'
    OBVIOUS
  <1>1. FlushInv /\ FlushInv' BY FlushStep DEF HarmInv
  <1>2. late => late' BY <1>1, HistoryGrows DEF FlushInv
  <1>3. ASSUME ~late' PROVE DeliveryInv' BY <1>1, <1>2, <1>3, DeliveryStep DEF HarmInv
  <1>. QED BY <1>1, <1>3 DEF HarmInv

\* What the invariant says of the records.
LEMMA NothingHarmed ==
  ASSUME FlushInv, DeliveryInv
  PROVE  NothingLost /\ NoDuplicates /\ InOrder /\ CallbackReadsStable /\ FlushDelivers
  <1>1. NothingLost BY StoredNow DEF NothingLost, Stored
  <1>2. NoDuplicates /\ InOrder BY DEF DeliveryInv, OrderInv
  <1>3. CallbackReadsStable
    BY DEF DeliveryInv, TaskInv, Settled, CallbackReadsStable, InFlight
  <1>4. FlushDelivers
    <2>1. m_tasks = << >> => LiveTasks = << >>
      BY DEF FlushInv, TypeInv, WorkerInv, LiveTasks
    <2>. QED BY <2>1 DEF DeliveryInv, OweInv, FlushDelivers
  <1>. QED BY <1>1, <1>2, <1>3, <1>4

\* As long as no emplace was under way in a side when its task looked at it, nothing that
\* was accepted is lost, repeated, reordered, or left behind by a flush that waits, and
\* nobody writes what the callback reads (buffer.hpp's emplace, buffer.cpp's flush).
THEOREM LateEmplacesAlone == Spec => []OnlyLateEmplacesHarm
  <1>1. Init => HarmInv BY FlushInit, DeliveryInit DEF HarmInv
  <1>2. HarmInv => OnlyLateEmplacesHarm
    BY NothingHarmed DEF HarmInv, OnlyLateEmplacesHarm
  <1>. QED BY <1>1, <1>2, HarmStep, PTL DEF Spec

(***************************************************************************)
(* Finalization waits for what was accepted before it.                     *)
(***************************************************************************)
\* A step that is none of the finalizer's.
LEMMA FinalizersRest ==
  ASSUME FinalizerInv, UNCHANGED <<fini_status, task_group>>,
         \A u \in Finalizers : /\ pc'[u] = pc[u] /\ before'[u] = before[u]
                               /\ caller'[u] = caller[u] /\ wait'[u] = wait[u]
  PROVE  FinalizerInv'
  <1>. USE DEF FinalizerInv
  <1>1. \A u \in Finalizers : /\ pc'[u] \in {"idle"} \cup FlushSteps \cup QuitSteps
                              /\ pc'[u] = "idle" => before'[u] = {}
                              /\ pc'[u] \in FlushSteps =>
                                   /\ fini_status' = -1 /\ task_group'
                                   /\ caller'[u] = "finalizer" /\ wait'[u]
                              /\ pc'[u] \in QuitSteps \ {"finalized"} => fini_status' = -1
                              /\ pc'[u] \in {"quit", "quitting", "delete"} => task_group'
    OBVIOUS
  <1>2. /\ \A t, u \in Finalizers : pc'[t] # "idle" /\ pc'[u] # "idle" => t = u
        /\ fini_status' = 0 => task_group' /\ \A t \in Finalizers : pc'[t] = "idle"
    OBVIOUS
  <1>. QED BY <1>1, <1>2

\* What the finalizer's steps do to it.
FinalizerMoves(t) ==
  \/ /\ pc[t] = "idle" /\ pc'[t] = "flush" /\ fini_status = 0 /\ fini_status' = -1
     /\ wait'[t] /\ caller'[t] = "finalizer" /\ task_group' = task_group
  \/ /\ pc[t] \in FlushSteps /\ pc'[t] \in FlushSteps \cup {"quit"}
     /\ pc'[t] = "quit" => pc[t] = "joining" /\ m_tasks = << >>
     /\ wait'[t] /\ caller'[t] = caller[t] /\ UNCHANGED <<fini_status, task_group>>
     /\ before'[t] = before[t]
  \/ /\ pc[t] \in {"quit", "quitting"} /\ pc'[t] \in {"quitting", "delete"}
     /\ UNCHANGED <<fini_status, task_group>> /\ before'[t] = before[t]
  \/ /\ pc[t] = "delete" /\ pc'[t] = "finish" /\ fini_status' = fini_status
     /\ before'[t] = before[t]
  \/ /\ pc[t] = "finish" /\ pc'[t] = "finalized" /\ fini_status' = 1
     /\ UNCHANGED task_group /\ before'[t] = before[t]

\* A step of flush that the finalizer takes.
LEMMA FinalizerFlush ==
  ASSUME TypeInv, FinalizerInv, NEW t \in Finalizers, Flush(t), ~FlushSpins(t)
  PROVE  FinalizerMoves(t)
  <1>0. /\ pc \in [Threads -> Steps] /\ wait \in [Threads -> BOOLEAN] /\ t \in Threads
        /\ pc[t] \in {"idle"} \cup FlushSteps \cup QuitSteps
        /\ pc[t] \in FlushSteps =>
             /\ fini_status = -1 /\ task_group /\ caller[t] = "finalizer" /\ wait[t]
             /\ Resume(t) = "quit"
    BY DEF TypeInv, TypeOK, FinalizerInv, Threads, Resume
  <1>. USE DEF FinalizerMoves, FlushSteps, groupVars, flushVars, history
  <1>1. CASE FlushBegin(t)
    <2>1. pc[t] = "flush" BY <1>1 DEF FlushBegin
    <2>2. /\ fini_status = -1 /\ task_group /\ caller[t] = "finalizer" /\ wait[t]
      BY <1>0, <2>1
    <2>3. ~(fini_status > 0) /\ fini_status <= 0 /\ fini_status < 0 BY <2>2
    <2>4. pc'[t] = "drain" /\ wait'[t] BY <1>0, <1>1, <2>2, <2>3 DEF FlushBegin
    <2>5. UNCHANGED <<fini_status, task_group, caller, before>> BY <1>1 DEF FlushBegin
    <2>. QED BY <2>1, <2>4, <2>5
  <1>2. CASE LockGroup(t)
    <2>1. /\ pc[t] \in {"drain", "join", "quit"}
          /\ pc'[t] = IF pc[t] = "drain" THEN "draining"
                      ELSE IF pc[t] = "join" THEN "joining" ELSE "quitting"
      BY <1>0, <1>2 DEF LockGroup, Goto
    <2>2. UNCHANGED <<fini_status, task_group, caller, before, wait>> BY <1>2 DEF LockGroup
    <2>. QED BY <1>0, <2>1, <2>2
  <1>3. CASE TasksDone(t)
    <2>1. /\ pc[t] \in {"draining", "joining", "quitting"} /\ m_tasks = << >>
          /\ pc'[t] = IF pc[t] = "draining" THEN "sync"
                      ELSE IF pc[t] = "joining" THEN Resume(t) ELSE "delete"
      BY <1>0, <1>3 DEF TasksDone, Goto
    <2>2. UNCHANGED <<fini_status, task_group, caller, before, wait>> BY <1>3 DEF TasksDone
    <2>. QED BY <1>0, <2>1, <2>2
  <1>4. CASE FlushBusy(t) BY <1>0, <1>4 DEF FlushBusy, Goto
  <1>5. CASE FlushClaim(t)
    <2>1. pc[t] = "sync" /\ pc'[t] = "swap" BY <1>0, <1>5 DEF FlushClaim, Goto
    <2>2. UNCHANGED <<fini_status, task_group, caller, before, wait>> BY <1>5 DEF FlushClaim
    <2>. QED BY <1>0, <2>1, <2>2
  <1>6. CASE SwapSides(t)
    <2>1. pc[t] = "swap" /\ pc'[t] = "exec" BY <1>0, <1>6 DEF SwapSides, Goto
    <2>2. UNCHANGED <<fini_status, task_group, caller, before, wait>> BY <1>6 DEF SwapSides
    <2>. QED BY <1>0, <2>1, <2>2
  <1>7. CASE ExecTask(t)
    <2>1. pc[t] = "exec" /\ pc'[t] = "join" BY <1>0, <1>7 DEF ExecTask, Goto
    <2>2. UNCHANGED <<fini_status, task_group, caller, before, wait>> BY <1>7 DEF ExecTask
    <2>. QED BY <1>0, <2>1, <2>2
  <1>8. CASE UseDeletedGroup(t) BY <1>0, <1>8 DEF UseDeletedGroup
  <1>. QED BY <1>1, <1>2, <1>3, <1>4, <1>5, <1>6, <1>7, <1>8 DEF Flush

\* A step of finalization outside flush.
LEMMA FinalizerEnds ==
  ASSUME TypeInv, NEW t \in Finalizers, Finalize(t)
  PROVE  FinalizerMoves(t)
  <1>0. /\ pc \in [Threads -> Steps] /\ wait \in [Threads -> BOOLEAN] /\ t \in Threads
        /\ caller \in [Threads -> {"retry", "watermark", "tool", "finalizer"}]
    BY DEF TypeInv, TypeOK, Threads
  <1>. USE DEF FinalizerMoves, history
  <1>1. CASE FinalizeBegin(t) BY <1>0, <1>1 DEF FinalizeBegin, Goto
  <1>2. CASE DeleteGroup(t) BY <1>0, <1>2 DEF DeleteGroup, Goto
  <1>3. CASE FinalizeEnd(t) BY <1>0, <1>3 DEF FinalizeEnd, Goto
  <1>. QED BY <1>1, <1>2, <1>3 DEF Finalize

\* The finalizer's own steps, and everybody else's.
LEMMA FinalizerSteps ==
  ASSUME TypeInv, FinalizerInv, [Next]_vars
  PROVE  \/ /\ UNCHANGED <<fini_status, task_group>>
            /\ \A u \in Finalizers : /\ pc'[u] = pc[u] /\ before'[u] = before[u]
                                     /\ caller'[u] = caller[u] /\ wait'[u] = wait[u]
         \/ \E t \in Finalizers :
              /\ FinalizerMoves(t)
              /\ \A u \in Finalizers : u # t =>
                   /\ pc'[u] = pc[u] /\ before'[u] = before[u]
                   /\ caller'[u] = caller[u] /\ wait'[u] = wait[u]
  <1> DEFINE Same(u) == /\ pc'[u] = pc[u] /\ before'[u] = before[u]
                        /\ caller'[u] = caller[u] /\ wait'[u] = wait[u]
             Rest == UNCHANGED <<fini_status, task_group>> /\ \A u \in Finalizers : Same(u)
  <1>0. /\ pc \in [Threads -> Steps] /\ wait \in [Threads -> BOOLEAN]
        /\ caller \in [Threads -> {"retry", "watermark", "tool", "finalizer"}]
        /\ before \in [Threads -> SUBSET Records]
        /\ Finalizers \cap (Producers \cup Flushers) = {}
        /\ Producers \subseteq Threads /\ Flushers \subseteq Threads /\ Finalizers \subseteq Threads
    BY BufferAssumption DEF TypeInv, TypeOK, Threads
  <1>. USE DEF sharedVars, groupVars, emplaceVars, flushVars, workerVars, history
  <1>1. ASSUME NEW t \in Threads, Flush(t), ~FlushSpins(t)
        PROVE  /\ \A u \in Threads : u # t => Same(u)
               /\ UNCHANGED <<fini_status, task_group>>
    <2>1. CASE FlushBegin(t) BY <1>0, <2>1 DEF FlushBegin
    <2>2. CASE LockGroup(t) \/ TasksDone(t) BY <1>0, <2>2 DEF LockGroup, TasksDone, Goto
    <2>3. CASE FlushBusy(t) \/ FlushClaim(t) \/ SwapSides(t) \/ ExecTask(t)
      BY <1>0, <2>3 DEF FlushBusy, FlushClaim, SwapSides, ExecTask, Goto
    <2>4. CASE UseDeletedGroup(t) BY <1>0, <2>4 DEF UseDeletedGroup
    <2>. QED BY <1>1, <2>1, <2>2, <2>3, <2>4 DEF Flush
  <1>2. ASSUME NEW t \in Producers, Emplace(t) PROVE Rest
    <2>1. UNCHANGED <<fini_status, task_group, before>>
      <3>1. CASE \/ EmplaceCall(t) \/ AnnounceRequest(t) \/ ReserveSpace(t) \/ TakeHeader(t)
                 \/ PlaceRecord(t) \/ WithdrawRequest(t)
        BY <3>1, Zenon DEF EmplaceCall, AnnounceRequest, ReserveSpace, TakeHeader, PlaceRecord,
           WithdrawRequest
      <3>2. CASE \/ EmplaceThrows(t) \/ EmplaceBlocks(t) \/ EmplaceRetries(t) \/ EmplaceDrops(t)
                 \/ CheckWatermark(t) \/ EmplaceReturns(t)
        BY <3>2, Zenon DEF EmplaceThrows, EmplaceBlocks, EmplaceRetries, EmplaceDrops,
           CheckWatermark, EmplaceReturns
      <3>. QED BY <1>2, <3>1, <3>2 DEF Emplace
    <2>2. \A u \in Threads : u # t => pc'[u] = pc[u] /\ caller'[u] = caller[u] /\ wait'[u] = wait[u]
      <3>1. CASE \/ EmplaceCall(t) \/ AnnounceRequest(t) \/ ReserveSpace(t) \/ TakeHeader(t)
                 \/ PlaceRecord(t) \/ WithdrawRequest(t)
        BY <1>0, <3>1 DEF EmplaceCall, AnnounceRequest, ReserveSpace, TakeHeader, PlaceRecord,
           WithdrawRequest, Goto
      <3>2. CASE \/ EmplaceThrows(t) \/ EmplaceBlocks(t) \/ EmplaceRetries(t) \/ EmplaceDrops(t)
                 \/ CheckWatermark(t) \/ EmplaceReturns(t)
        BY <1>0, <3>2 DEF EmplaceThrows, EmplaceBlocks, EmplaceRetries, EmplaceDrops,
           CheckWatermark, EmplaceReturns, Goto
      <3>. QED BY <1>2, <3>1, <3>2 DEF Emplace
    <2>. QED BY <1>0, <2>1, <2>2
  <1>3. ASSUME NEW t \in Flushers, FlushCall(t) PROVE Rest
    BY <1>0, <1>3 DEF FlushCall, Goto
  <1>4. ASSUME Worker PROVE Rest
    <2>1. WorkerUnchanged
      BY <1>4, Zenon DEF Worker, TaskBegin, CheckCount, CheckRequested, CollectHeaders,
         InvokeCallback, ClearBuffer, ReleaseSyncer, TaskEnd
    <2>. QED BY <2>1 DEF WorkerUnchanged
  <1>5. ASSUME UNCHANGED vars PROVE Rest BY <1>5 DEF vars
  <1>6. ASSUME NEW t \in Finalizers, Finalize(t)
        PROVE  \A u \in Threads : u # t => Same(u)
    <2>1. CASE FinalizeBegin(t) BY <1>0, <2>1 DEF FinalizeBegin, Goto
    <2>2. CASE DeleteGroup(t) BY <1>0, <2>2 DEF DeleteGroup, Goto
    <2>3. CASE FinalizeEnd(t) BY <1>0, <2>3 DEF FinalizeEnd, Goto
    <2>. QED BY <1>6, <2>1, <2>2, <2>3 DEF Finalize
  <1>. HIDE DEF Same
  <1>7. ASSUME NEW t \in Threads, t \notin Finalizers, Flush(t) PROVE Rest
    <2>1. CASE FlushSpins(t) BY <1>5, <2>1 DEF FlushSpins
    <2>2. CASE ~FlushSpins(t) BY <1>0, <1>1, <1>7, <2>2
    <2>. QED BY <2>1, <2>2
  <1>8. ASSUME NEW t \in Finalizers, Flush(t)
        PROVE  Rest \/ (FinalizerMoves(t) /\ \A u \in Finalizers : u # t => Same(u))
    <2>1. CASE FlushSpins(t) BY <1>5, <2>1 DEF FlushSpins
    <2>2. CASE ~FlushSpins(t) BY <1>0, <1>1, <1>8, <2>2, FinalizerFlush
    <2>. QED BY <2>1, <2>2
  <1>9. ASSUME NEW t \in Finalizers, Finalize(t)
        PROVE  FinalizerMoves(t) /\ \A u \in Finalizers : u # t => Same(u)
    BY <1>0, <1>6, <1>9, FinalizerEnds
  <1>10. Rest \/ \E t \in Finalizers : /\ FinalizerMoves(t)
                                       /\ \A u \in Finalizers : u # t => Same(u)
    BY <1>2, <1>3, <1>4, <1>5, <1>7, <1>8, <1>9 DEF Next, Finished
  <1>. QED BY <1>10 DEF Same

\* Every step keeps what is said of the finalizer.
LEMMA FinalizerStep ==
  ASSUME TypeInv, FinalizerInv, [Next]_vars
  PROVE  FinalizerInv'
  <1>1. ASSUME NEW t \in Finalizers, FinalizerMoves(t),
               \A u \in Finalizers : u # t =>
                 /\ pc'[u] = pc[u] /\ before'[u] = before[u]
                 /\ caller'[u] = caller[u] /\ wait'[u] = wait[u]
        PROVE  FinalizerInv'
    <2>1. \A u \in Finalizers : u # t => pc[u] = "idle"
      BY <1>1 DEF FinalizerMoves, FinalizerInv, FlushSteps
    <2>2. \A u \in Finalizers : u # t => pc'[u] = "idle" /\ before'[u] = {}
      BY <1>1, <2>1 DEF FinalizerInv
    <2>3. pc[t] \in FlushSteps => caller[t] = "finalizer" /\ fini_status = -1 /\ task_group
      BY DEF FinalizerInv
    <2>4. /\ pc[t] \in QuitSteps \ {"finalized"} => fini_status = -1
          /\ pc[t] \in {"quit", "quitting", "delete"} => task_group
      BY DEF FinalizerInv
    <2>5. fini_status = 0 => task_group BY DEF FinalizerInv
    <2>6. /\ pc'[t] \in FlushSteps \cup QuitSteps
          /\ pc'[t] \in FlushSteps =>
               fini_status' = -1 /\ task_group' /\ caller'[t] = "finalizer" /\ wait'[t]
          /\ pc'[t] \in QuitSteps \ {"finalized"} => fini_status' = -1
          /\ pc'[t] \in {"quit", "quitting", "delete"} => task_group'
          /\ fini_status' # 0
      <3>1. CASE pc[t] = "idle" BY <1>1, <2>5, <3>1 DEF FinalizerMoves, FlushSteps, QuitSteps
      <3>2. CASE pc[t] \in FlushSteps
        BY <1>1, <2>3, <3>2 DEF FinalizerMoves, FlushSteps, QuitSteps
      <3>3. CASE pc[t] \in QuitSteps
        BY <1>1, <2>4, <3>3 DEF FinalizerMoves, FlushSteps, QuitSteps
      <3>. QED BY <1>1, <3>1, <3>2, <3>3 DEF FinalizerMoves, QuitSteps
    <2>7. pc'[t] # "idle" BY <2>6 DEF FlushSteps, QuitSteps
    <2>8. "idle" \notin FlushSteps /\ "idle" \notin QuitSteps BY DEF FlushSteps, QuitSteps
    <2>. QED BY <2>2, <2>6, <2>7, <2>8 DEF FinalizerInv
  <1>. QED BY <1>1, FinalizerSteps, FinalizersRest

\* The finalizer goes on to delete the task group only when its flush was joined.
LEMMA FinalStep ==
  ASSUME FlushInv, FinalizerInv, DeliveryInv, FinalInv, [Next]_vars
  PROVE  FinalInv'
  <1>1. Delivered \subseteq Delivered' BY HistoryGrows DEF FlushInv
  <1>2. LiveTasks = << >> \/ m_tasks # << >>
    BY DEF FlushInv, TypeInv, WorkerInv, LiveTasks
  <1>3. ASSUME NEW t \in Finalizers, FinalizerMoves(t), pc'[t] \in QuitSteps
        PROVE  before'[t] \subseteq Delivered
    <2>1. CASE pc[t] \in QuitSteps
      <3>1. before'[t] = before[t] BY <1>3, <2>1 DEF FinalizerMoves, QuitSteps, FlushSteps
      <3>. QED BY <2>1, <3>1 DEF FinalInv
    <2>2. CASE pc[t] \notin QuitSteps
      <3>1. pc[t] = "joining" /\ m_tasks = << >> /\ before'[t] = before[t]
        BY <1>3, <2>2 DEF FinalizerMoves, QuitSteps, FlushSteps
      <3>2. t \in Threads BY DEF Threads
      <3>. QED BY <1>2, <3>1, <3>2 DEF DeliveryInv, OweInv
    <2>. QED BY <2>1, <2>2
  <1>4. ASSUME NEW t \in Finalizers, pc'[t] = pc[t], before'[t] = before[t], pc'[t] \in QuitSteps
        PROVE  before'[t] \subseteq Delivered
    BY <1>4 DEF FinalInv
  <1>. SUFFICES ASSUME NEW t \in Finalizers, pc'[t] \in QuitSteps
                PROVE  before'[t] \subseteq Delivered'
    BY DEF FinalInv
  <1>5. TypeInv BY DEF FlushInv
  <1>. QED BY <1>1, <1>3, <1>4, <1>5, FinalizerSteps

\* The two together.
FinalHarmInv == HarmInv /\ FinalizerInv /\ (~late => FinalInv)

\* When the library counts as finalized every record that was accepted before finalization
\* began has been delivered, unless an emplace was late (registration.cpp's finalize).
THEOREM FinalizationDrains == Spec => []FinalizeDrains
  <1>1. Init => FinalHarmInv
    <2>. SUFFICES ASSUME Init PROVE FinalHarmInv
      OBVIOUS
    <2>1. HarmInv BY FlushInit, DeliveryInit DEF HarmInv
    <2>2. \A t \in Finalizers : pc[t] = "idle" /\ before[t] = {} BY DEF Init, Threads
    <2>3. fini_status = 0 /\ task_group BY DEF Init
    <2>4. FinalizerInv /\ FinalInv
      BY <2>2, <2>3 DEF FinalizerInv, FinalInv, FlushSteps, QuitSteps
    <2>. QED BY <2>1, <2>4 DEF FinalHarmInv
  <1>2. FinalHarmInv /\ [Next]_vars => FinalHarmInv'
    <2>. SUFFICES ASSUME FinalHarmInv, [Next]_vars PROVE FinalHarmInv'
      OBVIOUS
    <2>1. FlushInv /\ TypeInv /\ FinalizerInv BY DEF FinalHarmInv, HarmInv, FlushInv
    <2>2. HarmInv' BY HarmStep DEF FinalHarmInv
    <2>3. FinalizerInv' BY <2>1, FinalizerStep
    <2>4. ASSUME ~late' PROVE FinalInv'
      <3>1. ~late BY <2>1, <2>4, HistoryGrows
      <3>2. DeliveryInv /\ FinalInv BY <3>1 DEF FinalHarmInv, HarmInv
      <3>. QED BY <2>1, <3>2, FinalStep
    <2>. QED BY <2>2, <2>3, <2>4 DEF FinalHarmInv
  <1>3. FinalHarmInv => FinalizeDrains
    <2>. SUFFICES ASSUME FinalHarmInv, fini_status = 1, ~late, NEW t \in Finalizers
                  PROVE  before[t] \subseteq Delivered
      BY DEF FinalizeDrains
    <2>1. FinalizerInv /\ FinalInv BY DEF FinalHarmInv
    <2>2. fini_status # -1 OBVIOUS
    <2>3. pc[t] = "idle" \/ pc[t] \in QuitSteps BY <2>1, <2>2 DEF FinalizerInv
    <2>4. CASE pc[t] = "idle" BY <2>1, <2>4 DEF FinalizerInv
    <2>5. CASE pc[t] \in QuitSteps BY <2>1, <2>5 DEF FinalInv
    <2>. QED BY <2>3, <2>4, <2>5
  <1>. QED BY <1>1, <1>2, <1>3, PTL DEF Spec
=============================================================================
