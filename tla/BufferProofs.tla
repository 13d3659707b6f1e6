---------------------------- MODULE BufferProofs ----------------------------
(***************************************************************************)
(* Theorems about Buffer, for every number of threads, records and slots:  *)
(* its types, that flushes exclude one another, and that it implements     *)
(* FlushCycle.                                                             *)
(***************************************************************************)
EXTENDS Buffer, TLAPS, SequenceTheorems

(***************************************************************************)
(* The operations of record_header_buffer keep its type.                   *)
(***************************************************************************)
LEMMA OperationTypes ==
  ASSUME NEW R, NEW b \in Buffers(R)
  PROVE  /\ Announce(b) \in Buffers(R) /\ Withdraw(b) \in Buffers(R)
         /\ HasRoom(b) => Reserve(b) \in Buffers(R) /\ count(b) \in Addr
         /\ TakeIndex(b) \in Buffers(R) /\ Clear(b) \in Buffers(R)
  <1>1. Announce(b) \in Buffers(R) BY DEF Buffers, Announce
  <1>2. Withdraw(b) \in Buffers(R) BY DEF Buffers, Withdraw
  <1>3. ASSUME HasRoom(b) PROVE Reserve(b) \in Buffers(R) /\ count(b) \in Addr
    BY <1>3, CapacityAssumption DEF Buffers, HasRoom, Reserve, count, Addr
  <1>4. TakeIndex(b) \in Buffers(R)
    <2>1. Append(b.m_headers, NoAddr) \in Seq(Addr \cup {NoAddr}) BY DEF Buffers
    <2>2. b.m_shared + 1 \in Int BY DEF Buffers
    <2>. QED BY <2>1, <2>2, Zenon DEF Buffers, TakeIndex
  <1>5. Clear(b) \in Buffers(R)
    <2>1. << >> \in Seq(Addr \cup {NoAddr}) /\ 0 \in 0 .. Capacity
      BY CapacityAssumption
    <2>. QED BY <2>1 DEF Buffers, Clear
  <1>. QED BY <1>1, <1>2, <1>3, <1>4, <1>5

LEMMA PlaceType ==
  ASSUME NEW R, NEW b \in Buffers(R), NEW i \in Nat,
         NEW a \in Addr \cup {NoAddr}, NEW v \in R
  PROVE  Place(b, i, a, v) \in Buffers(R)
  <1>1. [b.m_headers EXCEPT ![i] = a] \in Seq(Addr \cup {NoAddr})
    <2>0. b.m_headers \in Seq(Addr \cup {NoAddr}) BY DEF Buffers
    <2>1. CASE i \in 1 .. Len(b.m_headers) BY <2>0, <2>1, ExceptSeq
    <2>2. CASE i \notin DOMAIN b.m_headers
      <3>1. [b.m_headers EXCEPT ![i] = a] = b.m_headers BY <2>0, <2>2
      <3>. QED BY <2>0, <3>1
    <2>. QED BY <2>0, <2>1, <2>2
  <1>2. [b.memory EXCEPT ![a] = v] \in [Addr -> R \cup {NoRecord}] BY DEF Buffers
  <1>3. b.m_shared - 1 \in Int BY DEF Buffers
  <1>. QED BY <1>1, <1>2, <1>3, Zenon DEF Buffers, Place

(***************************************************************************)
(* A header that was collected keeps its address until clear.              *)
(***************************************************************************)
LEMMA HeadersGrow ==
  ASSUME NEW R, NEW b \in Buffers(R)
  PROVE  /\ RecordHeaders(Announce(b)) = RecordHeaders(b)
         /\ RecordHeaders(Withdraw(b)) = RecordHeaders(b)
         /\ RecordHeaders(Reserve(b)) = RecordHeaders(b)
         /\ RecordHeaders(b) \subseteq RecordHeaders(TakeIndex(b))
  <1>1. /\ Announce(b).m_headers = b.m_headers
        /\ Withdraw(b).m_headers = b.m_headers
        /\ Reserve(b).m_headers = b.m_headers
        /\ TakeIndex(b).m_headers = Append(b.m_headers, NoAddr)
    BY DEF Buffers, Announce, Withdraw, Reserve, TakeIndex
  <1>2. b.m_headers \in Seq(Addr \cup {NoAddr}) BY DEF Buffers
  <1>3. \A i \in DOMAIN b.m_headers :
           /\ i \in DOMAIN Append(b.m_headers, NoAddr)
           /\ Append(b.m_headers, NoAddr)[i] = b.m_headers[i]
    BY <1>2
  <1>. QED BY <1>1, <1>3 DEF RecordHeaders

LEMMA HeadersKept ==
  ASSUME NEW R, NEW b \in Buffers(R), NEW i \in Nat, NEW a \in Addr, NEW v \in R
  PROVE  RecordHeaders(b) \subseteq RecordHeaders(Place(b, i, a, v))
  <1>1. Place(b, i, a, v).m_headers = [b.m_headers EXCEPT ![i] = a]
    BY DEF Buffers, Place
  <1>2. b.m_headers \in Seq(Addr \cup {NoAddr}) BY DEF Buffers
  <1>3. DOMAIN [b.m_headers EXCEPT ![i] = a] = DOMAIN b.m_headers BY <1>2
  <1>4. \A j \in DOMAIN b.m_headers :
           [b.m_headers EXCEPT ![i] = a][j] = IF j = i THEN a ELSE b.m_headers[j]
    BY <1>2
  <1>5. a # NoAddr BY NoAddrAssumption DEF Addr
  <1>. QED BY <1>1, <1>3, <1>4, <1>5 DEF RecordHeaders

(***************************************************************************)
(* Type correctness.  TypeOK is not inductive: that the callback is handed *)
(* records needs to know that the headers it was given have an address,    *)
(* and that a thread that stores a record is a producer within its bound.  *)
(***************************************************************************)
EmplaceSteps == {"announce", "reserve", "index", "place", "withdraw", "failed",
                 "retry", "watermark", "return"}
FlushSteps == {"flush", "drain", "draining", "sync", "swap", "exec", "join",
               "joining"}

\* t is in emplace, or in a flush that emplace called.
Emplacing(t) ==
  \/ pc[t] \in EmplaceSteps
  \/ pc[t] \in FlushSteps /\ caller[t] \in {"retry", "watermark"}

EmplaceInv ==
  \A t \in Threads : /\ Emplacing(t) => Value(t) \in Records
                     /\ pc[t] = "place" => addr[t] \in Addr

WorkerInv ==
  /\ worker # "idle" => m_tasks # << >>
  /\ worker = "callback" => headers \subseteq RecordHeaders(Draining)

TypeInv == TypeOK /\ EmplaceInv /\ WorkerInv

LEMMA TypeInit == Init => TypeInv
  <1>. SUFFICES ASSUME Init PROVE TypeInv
    OBVIOUS
  <1>1. Unallocated \in Buffers(Records) /\ Allocate(Unallocated) \in Buffers(Records)
    <2>1. << >> \in Seq(Addr \cup {NoAddr}) /\ 0 \in 0 .. Capacity
      BY CapacityAssumption
    <2>2. Unallocated \in Buffers(Records) BY <2>1 DEF Buffers, Unallocated
    <2>. QED BY <2>2 DEF Buffers, Allocate
  <1>2. buffers \in [Side -> Buffers(Records)]
    BY <1>1 DEF Init
  <1>3. TypeOK
    <2>1. /\ pc \in [Threads -> Steps] /\ worker \in WorkerSteps
          /\ caller \in [Threads -> {"retry", "watermark", "tool", "finalizer"}]
      BY DEF Init, Steps, WorkerSteps
    <2>2. /\ calls \in [Threads -> Nat] /\ idx \in [Threads -> Side]
          /\ addr \in [Threads -> Addr \cup {NoAddr}] /\ index \in [Threads -> Nat]
          /\ wait \in [Threads -> BOOLEAN] /\ side \in [Threads -> Side]
          /\ before \in [Threads -> SUBSET Records]
          /\ owed \in [Threads -> SUBSET Records]
      BY DEF Init, Side
    <2>. QED BY <1>2, <2>1, <2>2 DEF Init, TypeOK, Side
  <1>4. EmplaceInv /\ WorkerInv
    BY DEF Init, EmplaceInv, WorkerInv, Emplacing, EmplaceSteps, FlushSteps
  <1>. QED BY <1>3, <1>4 DEF TypeInv

\* A side may be replaced by one with the same or more headers.
LEMMA SideUpdate ==
  ASSUME TypeInv, NEW s \in Side, NEW b \in Buffers(Records),
         RecordHeaders(buffers[s]) \subseteq RecordHeaders(b),
         buffers' = [buffers EXCEPT ![s] = b],
         UNCHANGED <<worker, m_tasks, headers>>
  PROVE  buffers' \in [Side -> Buffers(Records)] /\ WorkerInv'
  BY DEF TypeInv, TypeOK, WorkerInv, Draining

LEMMA TypeStep == TypeInv /\ [Next]_vars => TypeInv'
  <1>. SUFFICES ASSUME TypeInv, [Next]_vars PROVE TypeInv'
    OBVIOUS
  <1>. USE DEF TypeInv, TypeOK, EmplaceInv, WorkerInv, Emplacing, EmplaceSteps,
               FlushSteps, Steps, WorkerSteps, Goto, sharedVars, groupVars,
               emplaceVars, flushVars, workerVars, history, Side, Draining, Value
  <1>1. ASSUME NEW t \in Producers, EmplaceCall(t) PROVE TypeInv'
    <2>1. Value(t)' \in Records
      <3>1. /\ calls[t] \in Nat /\ calls[t] < MaxRecords /\ calls'[t] = calls[t] + 1
            /\ MaxRecords \in Nat
        BY <1>1, BufferAssumption DEF EmplaceCall, Threads
      <3>2. calls'[t] \in 1 .. MaxRecords BY <3>1
      <3>. QED BY <3>2 DEF Records
    <2>2. TypeOK' BY <1>1 DEF EmplaceCall, Threads
    <2>3. EmplaceInv' BY <1>1, <2>1 DEF EmplaceCall, Threads
    <2>. QED BY <1>1, <2>2, <2>3 DEF EmplaceCall
  <1>2. ASSUME NEW t \in Producers, AnnounceRequest(t) PROVE TypeInv'
    <2>1. CASE ~buffers[idx[t]].allocated
      <3>1. TypeOK'
        <4>1. pc' \in [Threads -> Steps] /\ addr' \in [Threads -> Addr \cup {NoAddr}]
          BY <1>2, <2>1 DEF AnnounceRequest
        <4>. HIDE DEF Steps
        <4>. QED BY <1>2, <2>1, <4>1 DEF AnnounceRequest
      <3>2. EmplaceInv' BY <1>2, <2>1 DEF AnnounceRequest, Threads
      <3>. QED BY <1>2, <2>1, <3>1, <3>2 DEF AnnounceRequest
    <2>2. CASE buffers[idx[t]].allocated
      <3>1. buffers' \in [Side -> Buffers(Records)] /\ WorkerInv'
        BY <1>2, <2>2, SideUpdate, OperationTypes, HeadersGrow
        DEF AnnounceRequest, Threads
      <3>2. TypeOK'
        <4>1. pc' \in [Threads -> Steps] /\ addr' \in [Threads -> Addr \cup {NoAddr}]
          BY <1>2, <2>2 DEF AnnounceRequest
        <4>. HIDE DEF Steps
        <4>. QED BY <1>2, <2>2, <3>1, <4>1 DEF AnnounceRequest
      <3>3. EmplaceInv' BY <1>2, <2>2 DEF AnnounceRequest, Threads
      <3>. QED BY <3>1, <3>2, <3>3
    <2>. QED BY <2>1, <2>2
  <1>3. ASSUME NEW t \in Producers, ReserveSpace(t) PROVE TypeInv'
    <2>1. CASE ~HasRoom(buffers[idx[t]])
      <3>1. TypeOK'
        <4>1. /\ pc' \in [Threads -> Steps] /\ addr' \in [Threads -> Addr \cup {NoAddr}]
              /\ buffers' = buffers
          BY <1>3, <2>1 DEF ReserveSpace, Threads
        <4>. HIDE DEF Steps
        <4>. QED BY <1>3, <4>1 DEF ReserveSpace
      <3>2. EmplaceInv' BY <1>3, <2>1 DEF ReserveSpace, Threads
      <3>. QED BY <1>3, <2>1, <3>1, <3>2 DEF ReserveSpace
    <2>2. CASE HasRoom(buffers[idx[t]])
      <3>1. buffers' \in [Side -> Buffers(Records)] /\ WorkerInv'
        BY <1>3, <2>2, SideUpdate, OperationTypes, HeadersGrow
        DEF ReserveSpace, Threads
      <3>2. count(buffers[idx[t]]) \in Addr
        BY <1>3, <2>2, OperationTypes DEF Threads
      <3>3. TypeOK'
        <4>1. pc' \in [Threads -> Steps] /\ addr' \in [Threads -> Addr \cup {NoAddr}]
          BY <1>3, <2>2, <3>2 DEF ReserveSpace
        <4>. HIDE DEF Steps
        <4>. QED BY <1>3, <2>2, <3>1, <4>1 DEF ReserveSpace
      <3>4. EmplaceInv' BY <1>3, <2>2 DEF ReserveSpace, Threads
      <3>. QED BY <3>1, <3>3, <3>4
    <2>. QED BY <2>1, <2>2
  <1>4. ASSUME NEW t \in Producers, TakeHeader(t) PROVE TypeInv'
    <2>1. CASE addr[t] = NoAddr
      <3>1. TypeOK'
        <4>1. pc' = [pc EXCEPT ![t] = "withdraw"] /\ UNCHANGED <<buffers, index>>
          BY <1>4, <2>1, Zenon DEF TakeHeader
        <4>2. pc' \in [Threads -> Steps] BY <4>1
        <4>. HIDE DEF Steps
        <4>. QED BY <1>4, <4>1, <4>2 DEF TakeHeader
      <3>2. EmplaceInv' BY <1>4, <2>1 DEF TakeHeader, Threads
      <3>. QED BY <1>4, <2>1, <3>1, <3>2 DEF TakeHeader
    <2>2. CASE addr[t] # NoAddr
      <3>1. buffers' \in [Side -> Buffers(Records)] /\ WorkerInv'
        BY <1>4, <2>2, SideUpdate, OperationTypes, HeadersGrow
        DEF TakeHeader, Threads
      <3>2. Len(buffers[idx[t]].m_headers) + 1 \in Nat
        BY <1>4 DEF Threads, Buffers
      <3>3. TypeOK'
        <4>1. pc' \in [Threads -> Steps] /\ index' \in [Threads -> Nat]
          BY <1>4, <2>2, <3>2 DEF TakeHeader
        <4>. HIDE DEF Steps
        <4>. QED BY <1>4, <2>2, <3>1, <4>1 DEF TakeHeader
      <3>4. EmplaceInv' BY <1>4, <2>2 DEF TakeHeader, Threads
      <3>. QED BY <3>1, <3>3, <3>4
    <2>. QED BY <2>1, <2>2
  <1>5. ASSUME NEW t \in Producers, PlaceRecord(t) PROVE TypeInv'
    <2>1. /\ idx[t] \in Side /\ index[t] \in Nat /\ addr[t] \in Addr
          /\ Value(t) \in Records /\ buffers[idx[t]] \in Buffers(Records)
      BY <1>5 DEF PlaceRecord, Threads
    <2>2. /\ Place(buffers[idx[t]], index[t], addr[t], Value(t)) \in Buffers(Records)
          /\ RecordHeaders(buffers[idx[t]]) \subseteq
               RecordHeaders(Place(buffers[idx[t]], index[t], addr[t], Value(t)))
      BY <2>1, PlaceType, HeadersKept
    <2>3. buffers' \in [Side -> Buffers(Records)] /\ WorkerInv'
      BY <1>5, <2>1, <2>2, SideUpdate DEF PlaceRecord
    <2>4. TypeOK' BY <1>5, <2>3 DEF PlaceRecord, Threads
    <2>5. EmplaceInv' BY <1>5 DEF PlaceRecord, Threads
    <2>. QED BY <2>3, <2>4, <2>5
  <1>6. ASSUME NEW t \in Producers, WithdrawRequest(t) PROVE TypeInv'
    <2>1. buffers' \in [Side -> Buffers(Records)] /\ WorkerInv'
      BY <1>6, SideUpdate, OperationTypes, HeadersGrow DEF WithdrawRequest, Threads
    <2>2. TypeOK'
      <3>1. pc' \in [Threads -> Steps] BY <1>6 DEF WithdrawRequest
      <3>. HIDE DEF Steps
      <3>. QED BY <1>6, <2>1, <3>1 DEF WithdrawRequest, Threads
    <2>3. EmplaceInv' BY <1>6 DEF WithdrawRequest, Threads
    <2>. QED BY <2>1, <2>2, <2>3
  <1>7. ASSUME NEW t \in Producers, EmplaceThrows(t) PROVE TypeInv'
    BY <1>7 DEF EmplaceThrows, Threads
  <1>8. ASSUME NEW t \in Producers, EmplaceBlocks(t) PROVE TypeInv'
    <2>1. TypeOK'
      <3>1. pc' \in [Threads -> Steps] BY <1>8 DEF EmplaceBlocks, Threads
      <3>. HIDE DEF Steps
      <3>. QED BY <1>8, <3>1 DEF EmplaceBlocks, Threads
    <2>2. EmplaceInv' BY <1>8 DEF EmplaceBlocks, Threads
    <2>. QED BY <1>8, <2>1, <2>2 DEF EmplaceBlocks, Threads
  <1>9. ASSUME NEW t \in Producers, EmplaceRetries(t) PROVE TypeInv'
    <2>1. TypeOK'
      <3>1. pc' \in [Threads -> Steps] BY <1>9 DEF EmplaceRetries, Threads
      <3>. HIDE DEF Steps
      <3>. QED BY <1>9, <3>1 DEF EmplaceRetries, Threads
    <2>2. EmplaceInv' BY <1>9 DEF EmplaceRetries, Threads
    <2>. QED BY <1>9, <2>1, <2>2 DEF EmplaceRetries, Threads
  <1>10. ASSUME NEW t \in Producers, EmplaceDrops(t) PROVE TypeInv'
    <2>1. TypeOK'
      <3>1. pc' \in [Threads -> Steps] BY <1>10 DEF EmplaceDrops, Threads
      <3>. HIDE DEF Steps
      <3>. QED BY <1>10, <3>1 DEF EmplaceDrops, Threads
    <2>2. EmplaceInv' BY <1>10 DEF EmplaceDrops, Threads
    <2>. QED BY <1>10, <2>1, <2>2 DEF EmplaceDrops, Threads
  <1>11. ASSUME NEW t \in Producers, CheckWatermark(t) PROVE TypeInv'
    <2>1. TypeOK'
      <3>1. /\ pc' \in [Threads -> Steps] /\ wait' \in [Threads -> BOOLEAN]
            /\ caller' \in [Threads -> {"retry", "watermark", "tool", "finalizer"}]
        BY <1>11 DEF CheckWatermark
      <3>. HIDE DEF Steps
      <3>. QED BY <1>11, <3>1 DEF CheckWatermark
    <2>2. EmplaceInv' BY <1>11 DEF CheckWatermark, Threads
    <2>. QED BY <1>11, <2>1, <2>2 DEF CheckWatermark
  <1>12. ASSUME NEW t \in Producers, EmplaceReturns(t) PROVE TypeInv'
    <2>1. TypeOK'
      <3>1. pc' \in [Threads -> Steps] BY <1>12 DEF EmplaceReturns, Threads
      <3>. HIDE DEF Steps
      <3>. QED BY <1>12, <3>1 DEF EmplaceReturns, Threads
    <2>2. EmplaceInv' BY <1>12 DEF EmplaceReturns, Threads
    <2>. QED BY <1>12, <2>1, <2>2 DEF EmplaceReturns, Threads
  <1>13. ASSUME NEW t \in Flushers, FlushCall(t) PROVE TypeInv'
    <2>1. TypeOK'
      <3>1. pc' \in [Threads -> Steps] BY <1>13 DEF FlushCall, Threads
      <3>. HIDE DEF Steps
      <3>. QED BY <1>13, <3>1 DEF FlushCall, Threads
    <2>2. EmplaceInv' BY <1>13 DEF FlushCall, Threads
    <2>. QED BY <1>13, <2>1, <2>2 DEF FlushCall, Threads
  <1>14. ASSUME NEW t \in Threads, FlushBegin(t) PROVE TypeInv'
    <2>1. TypeOK'
      <3>1. pc' \in [Threads -> Steps] BY <1>14 DEF FlushBegin, Resume
      <3>. HIDE DEF Steps
      <3>. QED BY <1>14, <3>1 DEF FlushBegin, Resume
    <2>2. EmplaceInv' BY <1>14 DEF FlushBegin, Resume
    <2>. QED BY <1>14, <2>1, <2>2 DEF FlushBegin, Resume
  <1>15. ASSUME NEW t \in Threads, LockGroup(t) PROVE TypeInv'
    <2>1. TypeOK'
      <3>1. \E to \in Steps : pc' = [pc EXCEPT ![t] = to] BY <1>15, Zenon DEF LockGroup
      <3>2. pc' \in [Threads -> Steps] BY <3>1
      <3>. HIDE DEF Steps
      <3>. QED BY <1>15, <3>2 DEF LockGroup
    <2>2. EmplaceInv' BY <1>15 DEF LockGroup
    <2>. QED BY <1>15, <2>1, <2>2 DEF LockGroup
  <1>16. ASSUME NEW t \in Threads, TasksDone(t) PROVE TypeInv'
    <2>1. TypeOK'
      <3>1. Resume(t) \in Steps BY <1>16 DEF Resume
      <3>2. \E to \in Steps : pc' = [pc EXCEPT ![t] = to] BY <1>16, <3>1, Zenon DEF TasksDone
      <3>3. pc' \in [Threads -> Steps] BY <3>2
      <3>. HIDE DEF Steps
      <3>. QED BY <1>16, <3>3 DEF TasksDone
    <2>2. EmplaceInv' BY <1>16 DEF TasksDone, Resume
    <2>. QED BY <1>16, <2>1, <2>2 DEF TasksDone, Resume
  <1>17. ASSUME NEW t \in Threads, FlushBusy(t) PROVE TypeInv'
    <2>1. TypeOK'
      <3>1. pc' \in [Threads -> Steps] BY <1>17 DEF FlushBusy, Resume
      <3>. HIDE DEF Steps
      <3>. QED BY <1>17, <3>1 DEF FlushBusy, Resume
    <2>2. EmplaceInv' BY <1>17 DEF FlushBusy, Resume
    <2>. QED BY <1>17, <2>1, <2>2 DEF FlushBusy, Resume
  <1>18. ASSUME NEW t \in Threads, FlushSpins(t) PROVE TypeInv'
    BY <1>18 DEF FlushSpins, vars
  <1>19. ASSUME NEW t \in Threads, FlushClaim(t) PROVE TypeInv'
    <2>1. TypeOK'
      <3>1. pc' \in [Threads -> Steps] BY <1>19 DEF FlushClaim, Resume
      <3>. HIDE DEF Steps
      <3>. QED BY <1>19, <3>1 DEF FlushClaim, Resume
    <2>2. EmplaceInv' BY <1>19 DEF FlushClaim, Resume
    <2>. QED BY <1>19, <2>1, <2>2 DEF FlushClaim, Resume
  <1>20. ASSUME NEW t \in Threads, SwapSides(t) PROVE TypeInv'
    <2>1. TypeOK'
      <3>1. pc' \in [Threads -> Steps] BY <1>20 DEF SwapSides, Resume
      <3>. HIDE DEF Steps
      <3>. QED BY <1>20, <3>1 DEF SwapSides, Resume
    <2>2. EmplaceInv' BY <1>20 DEF SwapSides, Resume
    <2>. QED BY <1>20, <2>1, <2>2 DEF SwapSides, Resume
  <1>21. ASSUME NEW t \in Threads, ExecTask(t) PROVE TypeInv'
    <2>1. TypeOK'
      <3>1. pc' \in [Threads -> Steps] /\ m_tasks' \in Seq(Side)
        BY <1>21 DEF ExecTask, Resume
      <3>. HIDE DEF Steps
      <3>. QED BY <1>21, <3>1 DEF ExecTask, Resume
    <2>2. EmplaceInv' BY <1>21 DEF ExecTask, Resume
    <2>3. m_tasks' # << >> /\ (m_tasks # << >> => Head(m_tasks') = Head(m_tasks))
      BY <1>21 DEF ExecTask
    <2>4. WorkerInv' BY <1>21, <2>3 DEF ExecTask
    <2>. QED BY <2>1, <2>2, <2>4
  <1>22. ASSUME NEW t \in Threads, UseDeletedGroup(t) PROVE TypeInv'
    <2>1. TypeOK'
      <3>1. pc' \in [Threads -> Steps] BY <1>22 DEF UseDeletedGroup, Resume
      <3>. HIDE DEF Steps
      <3>. QED BY <1>22, <3>1 DEF UseDeletedGroup, Resume
    <2>2. EmplaceInv' BY <1>22 DEF UseDeletedGroup, Resume
    <2>. QED BY <1>22, <2>1, <2>2 DEF UseDeletedGroup, Resume
  <1>23. ASSUME NEW t \in Finalizers, FinalizeBegin(t) PROVE TypeInv'
    <2>1. TypeOK'
      <3>1. pc' \in [Threads -> Steps] BY <1>23 DEF FinalizeBegin, Threads
      <3>. HIDE DEF Steps
      <3>. QED BY <1>23, <3>1 DEF FinalizeBegin, Threads
    <2>2. EmplaceInv' BY <1>23 DEF FinalizeBegin, Threads
    <2>. QED BY <1>23, <2>1, <2>2 DEF FinalizeBegin, Threads
  <1>24. ASSUME NEW t \in Finalizers, DeleteGroup(t) PROVE TypeInv'
    BY <1>24 DEF DeleteGroup, Threads
  <1>25. ASSUME NEW t \in Finalizers, FinalizeEnd(t) PROVE TypeInv'
    BY <1>25 DEF FinalizeEnd, Threads
  <1>26. ASSUME TaskBegin PROVE TypeInv'
    BY <1>26 DEF TaskBegin, WorkerGoto, WorkerUnchanged
  <1>27. ASSUME CheckCount PROVE TypeInv'
    BY <1>27 DEF CheckCount, WorkerGoto, WorkerUnchanged
  <1>28. ASSUME CheckRequested PROVE TypeInv'
    BY <1>28 DEF CheckRequested, WorkerGoto, WorkerUnchanged
  <1>29. ASSUME CollectHeaders PROVE TypeInv'
    <2>1. headers' \subseteq Nat
      BY <1>29 DEF CollectHeaders, WorkerGoto, RecordHeaders, Buffers
    <2>. QED BY <1>29, <2>1 DEF CollectHeaders, WorkerGoto, WorkerUnchanged
  <1>30. ASSUME InvokeCallback PROVE TypeInv'
    <2>1. Draining \in Buffers(Records) /\ headers \subseteq RecordHeaders(Draining)
      BY <1>30 DEF InvokeCallback, WorkerGoto
    <2>2. \A i \in headers : Payload(Draining, i) \in Records \cup {NoRecord}
      <3>. HIDE DEF Draining
      <3>0. Draining.m_headers \in Seq(Addr \cup {NoAddr})
        BY <2>1 DEF Buffers
      <3>1. \A i \in headers : Draining.m_headers[i] \in Addr
        BY <2>1, <3>0 DEF RecordHeaders
      <3>2. Draining.memory \in [Addr -> Records \cup {NoRecord}]
        BY <2>1 DEF Buffers
      <3>. QED BY <3>1, <3>2 DEF Payload
    <2>3. callbacks' \in Nat /\ headers \subseteq Nat
      BY <1>30 DEF InvokeCallback
    <2>4. {<<callbacks', i, Payload(Draining, i)>> : i \in headers}
            \subseteq Nat \X Nat \X (Records \cup {NoRecord})
      <3>. HIDE DEF TypeInv, Payload, Draining, Records
      <3>. QED BY <2>2, <2>3
    <2>5. delivered' \subseteq Nat \X Nat \X (Records \cup {NoRecord})
      <3>1. delivered \subseteq Nat \X Nat \X (Records \cup {NoRecord})
        OBVIOUS
      <3>. QED BY ONLY <1>30, <2>4, <3>1, Zenon DEF InvokeCallback
    <2>. QED BY <1>30, <2>3, <2>5 DEF InvokeCallback, WorkerGoto, WorkerUnchanged
  <1>31. ASSUME ClearBuffer PROVE TypeInv'
    <2>1. buffers' \in [Side -> Buffers(Records)]
      BY <1>31, OperationTypes DEF ClearBuffer, WorkerGoto
    <2>. QED BY <1>31, <2>1 DEF ClearBuffer, WorkerGoto, WorkerUnchanged
  <1>32. ASSUME ReleaseSyncer PROVE TypeInv'
    BY <1>32 DEF ReleaseSyncer, WorkerGoto, WorkerUnchanged
  <1>33. ASSUME TaskEnd PROVE TypeInv'
    BY <1>33 DEF TaskEnd, WorkerGoto, WorkerUnchanged
  <1>34. ASSUME UNCHANGED vars PROVE TypeInv'
    BY <1>34 DEF vars
  <1>. QED
    BY <1>1, <1>2, <1>3, <1>4, <1>5, <1>6, <1>7, <1>8, <1>9, <1>10, <1>11, <1>12, <1>13, <1>14, <1>15, <1>16, <1>17, <1>18, <1>19, <1>20, <1>21, <1>22, <1>23, <1>24, <1>25, <1>26, <1>27, <1>28, <1>29, <1>30, <1>31, <1>32, <1>33, <1>34
    DEF Next, Emplace, Flush, Finalize, Worker, Finished

\* Every variable keeps its type, for any number of threads and records.
THEOREM TypeCorrect == Spec => []TypeOK
  <1>1. TypeInv => TypeOK BY DEF TypeInv
  <1>. QED BY TypeInit, TypeStep, <1>1, PTL DEF Spec

(***************************************************************************)
(* Flushes exclude one another.  FlushExclusive says nothing of the side a *)
(* thread holds between its swap and its exec; that it is out of use has   *)
(* to be carried along to know the same of the task it then queues.        *)
(***************************************************************************)
SwappedSide == \A t \in Threads : pc[t] = "exec" => side[t] # buffer_idx

FlushInv == TypeInv /\ FlushExclusive /\ SwappedSide

\* A step that neither claims nor releases anything.
Quiet ==
  /\ UNCHANGED <<syncer, buffer_idx, LiveTasks>>
  /\ task_group' => task_group
  /\ \A t \in Threads : /\ pc'[t] = "swap" <=> pc[t] = "swap"
                        /\ pc'[t] = "exec" <=> pc[t] = "exec"
                        /\ pc[t] = "exec" => side'[t] = side[t]

LEMMA QuietStep == FlushInv /\ Quiet => FlushExclusive' /\ SwappedSide'
  <1>. SUFFICES ASSUME FlushInv, Quiet PROVE FlushExclusive' /\ SwappedSide'
    OBVIOUS
  <1>1. Claimants' = Claimants BY DEF Quiet, Claimants
  <1>2. FlushExclusive' BY <1>1 DEF FlushInv, Quiet, FlushExclusive
  <1>3. SwappedSide' BY DEF FlushInv, Quiet, SwappedSide
  <1>. QED BY <1>2, <1>3

\* A thread that moves between steps outside the claim is quiet.
LEMMA QuietMove ==
  ASSUME TypeInv, NEW t \in Threads, NEW from, NEW to, Goto(t, from, to),
         from \notin {"swap", "exec"}, to \notin {"swap", "exec"},
         UNCHANGED <<syncer, buffer_idx, m_tasks, worker, side>>,
         task_group' => task_group
  PROVE  Quiet
  <1>1. pc \in [Threads -> Steps] BY DEF TypeInv, TypeOK
  <1>2. LiveTasks' = LiveTasks BY DEF LiveTasks
  <1>3. \A u \in Threads : u # t => pc'[u] = pc[u] BY <1>1 DEF Goto
  <1>4. pc[t] = from /\ pc'[t] = to BY <1>1 DEF Goto
  <1>. QED BY <1>2, <1>3, <1>4 DEF Quiet

LEMMA ResumeStep ==
  ASSUME TypeInv, NEW t \in Threads
  PROVE  Resume(t) \in {"retry", "return", "idle", "quit"}
  BY DEF TypeInv, TypeOK, Resume

\* A queue of one task: its tail is empty, and a task put behind it is next.
LEMMA OneTask ==
  ASSUME NEW S, NEW q \in Seq(S), q # << >>
  PROVE  /\ Tail(q) = << >> <=> Len(q) = 1
         /\ \A e \in S : Tail(q) = << >> => Tail(Append(q, e)) = <<e>>
  <1>1. Len(q) \in Nat /\ Len(q) # 0 BY EmptySeq
  <1>2. Tail(q) \in Seq(S) /\ Len(Tail(q)) = Len(q) - 1 BY HeadTailProperties
  <1>3. \A r \in Seq(S) : r = << >> <=> Len(r) = 0 BY EmptySeq
  <1>4. Tail(q) = << >> <=> Len(q) = 1
    <2>1. Len(q) = 1 <=> Len(q) - 1 = 0 BY <1>1
    <2>2. Tail(q) = << >> <=> Len(Tail(q)) = 0 BY <1>2, <1>3
    <2>. QED BY <1>2, <2>1, <2>2
  <1>5. ASSUME NEW e \in S, Tail(q) = << >> PROVE Tail(Append(q, e)) = <<e>>
    <2> DEFINE a == Append(q, e)
    <2>1. Len(q) = 1 BY <1>4, <1>5
    <2>2. /\ a \in Seq(S) /\ a # << >>
          /\ Len(a) = Len(q) + 1 /\ a[Len(q) + 1] = e
      BY AppendProperties, Zenon
    <2>3. Len(a) = 2 /\ a[2] = e BY <2>1, <2>2
    <2>4. /\ Tail(a) \in Seq(S) /\ Len(Tail(a)) = Len(a) - 1
          /\ \A i \in 1 .. Len(Tail(a)) : Tail(a)[i] = a[i + 1]
      BY <2>2, HeadTailProperties, Zenon
    <2>. HIDE DEF a
    <2>5. Len(Tail(a)) = 1 BY <2>3, <2>4
    <2>6. 1 \in 1 .. Len(Tail(a))
      <3>1. 1 \in 1 .. 1 OBVIOUS
      <3>. QED BY <2>5, <3>1, Zenon
    <2>7. Tail(a)[1] = e
      <3>1. 1 + 1 = 2 OBVIOUS
      <3>. QED BY <2>3, <2>4, <2>6, <3>1, Zenon
    <2>8. <<e>> \in Seq(S) /\ Len(<<e>>) = 1 /\ <<e>>[1] = e OBVIOUS
    <2>9. \A i \in 1 .. Len(Tail(a)) : Tail(a)[i] = <<e>>[i] BY <2>5, <2>7, <2>8
    <2>10. Tail(a) = <<e>> BY <2>4, <2>5, <2>8, <2>9, SeqEqual
    <2>. QED BY <2>10 DEF a
  <1>. QED BY <1>4, <1>5

\* The steps that claim syncer, swap the sides, queue the task or release syncer.
Claiming ==
  \/ \E t \in Threads : FlushClaim(t) \/ SwapSides(t) \/ ExecTask(t) \/ UseDeletedGroup(t)
  \/ ReleaseSyncer

LEMMA QuietElse ==
  ASSUME TypeInv, [Next]_vars, ~Claiming
  PROVE  Quiet
  <1>0. TypeInv OBVIOUS
  <1>. USE DEF sharedVars, groupVars, emplaceVars, flushVars, workerVars, history
  <1>1. ASSUME NEW t \in Producers, EmplaceCall(t) PROVE Quiet
    BY <1>0, <1>1, QuietMove DEF EmplaceCall, Threads
  <1>2. ASSUME NEW t \in Producers, AnnounceRequest(t) PROVE Quiet
    <2>0. PICK from, to : /\ Goto(t, from, to)
                          /\ from \notin {"swap", "exec"} /\ to \notin {"swap", "exec"}
      BY <1>0, <1>2 DEF AnnounceRequest, Goto, Threads
    <2>. QED BY <1>0, <1>2, <2>0, QuietMove DEF AnnounceRequest, Threads
  <1>3. ASSUME NEW t \in Producers, ReserveSpace(t) PROVE Quiet
    BY <1>0, <1>3, QuietMove DEF ReserveSpace, Threads
  <1>4. ASSUME NEW t \in Producers, TakeHeader(t) PROVE Quiet
    <2>0. PICK from, to : /\ Goto(t, from, to)
                          /\ from \notin {"swap", "exec"} /\ to \notin {"swap", "exec"}
      BY <1>0, <1>4 DEF TakeHeader, Goto, Threads
    <2>. QED BY <1>0, <1>4, <2>0, QuietMove DEF TakeHeader, Threads
  <1>5. ASSUME NEW t \in Producers, PlaceRecord(t) PROVE Quiet
    BY <1>0, <1>5, QuietMove DEF PlaceRecord, Threads
  <1>6. ASSUME NEW t \in Producers, WithdrawRequest(t) PROVE Quiet
    <2>0. Goto(t, "withdraw", "failed") \/ Goto(t, "withdraw", "watermark")
      <3>1. CASE addr[t] = NoAddr BY <1>6, <3>1 DEF WithdrawRequest
      <3>2. CASE addr[t] # NoAddr BY <1>6, <3>2 DEF WithdrawRequest
      <3>. QED BY <3>1, <3>2
    <2>. QED BY <1>0, <1>6, <2>0, QuietMove DEF WithdrawRequest, Threads
  <1>7. ASSUME NEW t \in Producers, EmplaceThrows(t) PROVE Quiet
    BY <1>0, <1>7, QuietMove DEF EmplaceThrows, Threads
  <1>8. ASSUME NEW t \in Producers, EmplaceBlocks(t) PROVE Quiet
    BY <1>0, <1>8, QuietMove DEF EmplaceBlocks, Threads
  <1>9. ASSUME NEW t \in Producers, EmplaceRetries(t) PROVE Quiet
    BY <1>0, <1>9, QuietMove DEF EmplaceRetries, Threads
  <1>10. ASSUME NEW t \in Producers, EmplaceDrops(t) PROVE Quiet
    BY <1>0, <1>10, QuietMove DEF EmplaceDrops, Threads
  <1>11. ASSUME NEW t \in Producers, CheckWatermark(t) PROVE Quiet
    <2>0. PICK from, to : /\ Goto(t, from, to)
                          /\ from \notin {"swap", "exec"} /\ to \notin {"swap", "exec"}
      BY <1>0, <1>11 DEF CheckWatermark, Goto, Threads
    <2>. QED BY <1>0, <1>11, <2>0, QuietMove DEF CheckWatermark, Threads
  <1>12. ASSUME NEW t \in Producers, EmplaceReturns(t) PROVE Quiet
    BY <1>0, <1>12, QuietMove DEF EmplaceReturns, Threads
  <1>13. ASSUME NEW t \in Flushers, FlushCall(t) PROVE Quiet
    BY <1>0, <1>13, QuietMove DEF FlushCall, Threads
  <1>14. ASSUME NEW t \in Threads, FlushBegin(t) PROVE Quiet
    <2>0. PICK to \in {Resume(t), "aborted", "drain", "sync"} : Goto(t, "flush", to)
      <3>0. fini_status > 0 <=> ~(fini_status <= 0)
        BY <1>0 DEF TypeInv, TypeOK
      <3>1. CASE fini_status > 0 BY <1>14, <3>0, <3>1 DEF FlushBegin, Goto
      <3>2. CASE fini_status <= 0 /\ ~task_group
        BY <1>14, <3>0, <3>2 DEF FlushBegin, Goto
      <3>3. CASE fini_status <= 0 /\ task_group
        BY <1>14, <3>0, <3>3 DEF FlushBegin, Goto
      <3>. QED BY <1>0, <3>0, <3>1, <3>2, <3>3 DEF TypeInv, TypeOK
    <2>. to \notin {"swap", "exec"} BY <1>0, ResumeStep
    <2>. QED BY <1>0, <1>14, <2>0, QuietMove DEF FlushBegin
  <1>15. ASSUME NEW t \in Threads, LockGroup(t) PROVE Quiet
    <2>0. PICK from, to : /\ Goto(t, from, to)
                          /\ from \notin {"swap", "exec"} /\ to \notin {"swap", "exec"}
      BY <1>0, <1>15 DEF LockGroup, Goto
    <2>. QED BY <1>0, <1>15, <2>0, QuietMove DEF LockGroup
  <1>16. ASSUME NEW t \in Threads, TasksDone(t) PROVE Quiet
    <2>0. PICK from, to : /\ Goto(t, from, to)
                          /\ from \notin {"swap", "exec"} /\ to \notin {"swap", "exec"}
      BY <1>0, <1>16, ResumeStep DEF TasksDone, Goto
    <2>. QED BY <1>0, <1>16, <2>0, QuietMove DEF TasksDone
  <1>17. ASSUME NEW t \in Threads, FlushBusy(t) PROVE Quiet
    <2>0. PICK from, to : /\ Goto(t, from, to)
                          /\ from \notin {"swap", "exec"} /\ to \notin {"swap", "exec"}
      BY <1>0, <1>17, ResumeStep DEF FlushBusy, Goto
    <2>. QED BY <1>0, <1>17, <2>0, QuietMove DEF FlushBusy
  <1>23. ASSUME NEW t \in Finalizers, FinalizeBegin(t) PROVE Quiet
    BY <1>0, <1>23, QuietMove DEF FinalizeBegin, Threads
  <1>24. ASSUME NEW t \in Finalizers, DeleteGroup(t) PROVE Quiet
    BY <1>0, <1>24, QuietMove DEF DeleteGroup, Threads
  <1>25. ASSUME NEW t \in Finalizers, FinalizeEnd(t) PROVE Quiet
    BY <1>0, <1>25, QuietMove DEF FinalizeEnd, Threads
  <1>18. ASSUME NEW t \in Threads, FlushSpins(t) PROVE Quiet
    BY <1>18 DEF FlushSpins, vars, Quiet, LiveTasks
  <1>26. ASSUME TaskBegin PROVE Quiet
    BY <1>26 DEF TaskBegin, WorkerGoto, WorkerUnchanged, Quiet, LiveTasks
  <1>27. ASSUME CheckCount PROVE Quiet
    BY <1>27 DEF CheckCount, WorkerGoto, WorkerUnchanged, Quiet, LiveTasks
  <1>28. ASSUME CheckRequested PROVE Quiet
    BY <1>28 DEF CheckRequested, WorkerGoto, WorkerUnchanged, Quiet, LiveTasks
  <1>29. ASSUME CollectHeaders PROVE Quiet
    BY <1>29 DEF CollectHeaders, WorkerGoto, WorkerUnchanged, Quiet, LiveTasks
  <1>30. ASSUME InvokeCallback PROVE Quiet
    BY <1>30 DEF InvokeCallback, WorkerGoto, WorkerUnchanged, Quiet, LiveTasks
  <1>31. ASSUME ClearBuffer PROVE Quiet
    BY <1>31 DEF ClearBuffer, WorkerGoto, WorkerUnchanged, Quiet, LiveTasks
  <1>33. ASSUME TaskEnd PROVE Quiet
    BY <1>33 DEF TaskEnd, WorkerGoto, WorkerUnchanged, Quiet, LiveTasks
  <1>34. ASSUME UNCHANGED vars PROVE Quiet
    BY <1>34 DEF vars, Quiet, LiveTasks
  <1>. QED
    BY <1>1, <1>2, <1>3, <1>4, <1>5, <1>6, <1>7, <1>8, <1>9, <1>10, <1>11, <1>12, <1>13, <1>14, <1>15, <1>16, <1>17, <1>23, <1>24, <1>25, <1>18, <1>26, <1>27, <1>28, <1>29, <1>30, <1>31, <1>33, <1>34
    DEF Claiming, Next, Emplace, Flush, Finalize, Worker, Finished

LEMMA FlushStep == FlushInv /\ [Next]_vars => FlushInv'
  <1>. SUFFICES ASSUME FlushInv, [Next]_vars PROVE FlushInv'
    OBVIOUS
  <1>0. TypeInv /\ TypeInv' BY TypeStep DEF FlushInv
  <1>. SUFFICES FlushExclusive' /\ SwappedSide'
    BY <1>0 DEF FlushInv
  <1>1. ASSUME ~Claiming PROVE FlushExclusive' /\ SwappedSide'
    BY <1>0, <1>1, QuietElse, QuietStep
  <1>. USE DEF sharedVars, groupVars, emplaceVars, flushVars, workerVars, history
  <1>19. ASSUME NEW t \in Threads, FlushClaim(t) PROVE FlushExclusive' /\ SwappedSide'
    <2>1. Claimants = {} /\ LiveTasks = << >> /\ LiveTasks' = LiveTasks
      BY <1>19 DEF FlushInv, FlushExclusive, FlushClaim, LiveTasks
    <2>2. pc' = [pc EXCEPT ![t] = "swap"] /\ pc \in [Threads -> Steps]
      BY <1>0, <1>19 DEF FlushClaim, Goto, TypeInv, TypeOK
    <2>3. Claimants' = {t} BY <2>1, <2>2 DEF Claimants
    <2>4. FlushExclusive' BY <1>19, <2>1, <2>3 DEF FlushExclusive, FlushClaim
    <2>5. SwappedSide' BY <1>19, <2>2 DEF FlushInv, SwappedSide, FlushClaim
    <2>. QED BY <2>4, <2>5
  <1>20. ASSUME NEW t \in Threads, SwapSides(t) PROVE FlushExclusive' /\ SwappedSide'
    <2>1. pc[t] = "swap" /\ pc' = [pc EXCEPT ![t] = "exec"] /\ pc \in [Threads -> Steps]
      BY <1>0, <1>20 DEF SwapSides, Goto, TypeInv, TypeOK
    <2>2. Claimants = {t}
      BY <2>1 DEF FlushInv, FlushExclusive, Claimants
    <2>3. Claimants' = {t} BY <2>1, <2>2 DEF Claimants
    <2>4. LiveTasks \in Seq(Side)
      BY <1>0 DEF LiveTasks, TypeInv, TypeOK, WorkerInv
    <2>5. LiveTasks = << >> /\ LiveTasks' = << >> /\ syncer /\ syncer'
      BY <1>20, <2>2, <2>4 DEF FlushInv, FlushExclusive, SwapSides, LiveTasks
    <2>6. FlushExclusive' BY <2>3, <2>5 DEF FlushExclusive
    <2>7. side' = [side EXCEPT ![t] = buffer_idx] /\ buffer_idx' # buffer_idx
      BY <1>0, <1>20 DEF SwapSides, TypeInv, TypeOK, Side
    <2>8. \A u \in Threads : pc'[u] = "exec" => u = t
      BY <2>3 DEF Claimants
    <2>9. SwappedSide' BY <1>0, <2>7, <2>8 DEF SwappedSide, TypeInv, TypeOK
    <2>. QED BY <2>6, <2>9
  <1>21. ASSUME NEW t \in Threads, ExecTask(t) PROVE FlushExclusive' /\ SwappedSide'
    <2>1. PICK to : /\ to \notin {"swap", "exec"} /\ pc[t] = "exec"
                    /\ pc' = [pc EXCEPT ![t] = to] /\ pc \in [Threads -> Steps]
      BY <1>0, <1>21, ResumeStep DEF ExecTask, Goto, TypeInv, TypeOK
    <2>2. Claimants = {t} BY <2>1 DEF FlushInv, FlushExclusive, Claimants
    <2>3. Claimants' = {} BY <2>1, <2>2 DEF Claimants
    <2>4. /\ m_tasks \in Seq(Side) /\ side[t] \in Side
          /\ worker = "done" => m_tasks # << >>
      BY <1>0 DEF TypeInv, TypeOK, WorkerInv
    <2>5. LiveTasks \in Seq(Side) BY <2>4 DEF LiveTasks
    <2>6. LiveTasks = << >> /\ syncer /\ syncer' /\ side[t] # buffer_idx
      BY <1>21, <2>1, <2>2, <2>5
      DEF FlushInv, FlushExclusive, SwappedSide, ExecTask
    <2>7. LiveTasks' = <<side[t]>>
      <3>1. m_tasks' = Append(m_tasks, side[t]) /\ worker' = worker
        BY <1>21 DEF ExecTask
      <3>2. CASE worker = "done"
        <4>1. Tail(Append(m_tasks, side[t])) = <<side[t]>>
          BY <2>4, <2>6, <3>2, OneTask DEF LiveTasks
        <4>. QED BY <3>1, <3>2, <4>1 DEF LiveTasks
      <3>3. CASE worker # "done"
        <4>1. Append(m_tasks, side[t]) = <<side[t]>>
          BY <2>4, <2>6, <3>3 DEF LiveTasks
        <4>. QED BY <3>1, <3>3, <4>1 DEF LiveTasks
      <3>. QED BY <3>2, <3>3
    <2>8. buffer_idx' = buffer_idx BY <1>21 DEF ExecTask
    <2>9. FlushExclusive' BY <2>3, <2>6, <2>7, <2>8 DEF FlushExclusive
    <2>10. SwappedSide' BY <2>3 DEF SwappedSide, Claimants
    <2>. QED BY <2>9, <2>10
  <1>22. ASSUME NEW t \in Threads, UseDeletedGroup(t) PROVE FlushExclusive' /\ SwappedSide'
    <2>1. /\ pc' = [pc EXCEPT ![t] = "aborted"] /\ pc \in [Threads -> Steps]
          /\ UNCHANGED <<syncer, buffer_idx, side>> /\ LiveTasks' = LiveTasks
          /\ ~task_group'
      BY <1>0, <1>22 DEF UseDeletedGroup, TypeInv, TypeOK, LiveTasks
    <2>2. Claimants' \subseteq Claimants BY <2>1 DEF Claimants
    <2>3. LiveTasks \in Seq(Side)
      BY <1>0 DEF LiveTasks, TypeInv, TypeOK, WorkerInv
    <2>4. FlushExclusive' BY <2>1, <2>2, <2>3 DEF FlushInv, FlushExclusive
    <2>5. SwappedSide' BY <2>1 DEF FlushInv, SwappedSide
    <2>. QED BY <2>4, <2>5
  <1>32. ASSUME ReleaseSyncer PROVE FlushExclusive' /\ SwappedSide'
    <2>1. /\ worker = "release" /\ worker' = "done" /\ ~syncer'
          /\ UNCHANGED <<m_tasks, pc, buffer_idx, side>>
      BY <1>32 DEF ReleaseSyncer, WorkerGoto, WorkerUnchanged
    <2>2. m_tasks \in Seq(Side) /\ m_tasks # << >>
      BY <1>0, <2>1 DEF TypeInv, TypeOK, WorkerInv
    <2>3. Claimants = {} /\ Len(m_tasks) = 1
      <3>1. Len(m_tasks) \in Nat /\ Len(m_tasks) # 0 BY <2>2, EmptySeq
      <3>2. Len(m_tasks) <= IF Claimants = {} THEN 1 ELSE 0
        BY <2>1 DEF FlushInv, FlushExclusive, LiveTasks
      <3>3. CASE Claimants = {}
        <4>1. Len(m_tasks) <= 1 BY <3>2, <3>3, Zenon
        <4>2. Len(m_tasks) = 1 BY <3>1, <4>1
        <4>. QED BY <3>3, <4>2
      <3>4. CASE Claimants # {}
        <4>1. Len(m_tasks) <= 0 BY <3>2, <3>4, Zenon
        <4>. QED BY <3>1, <4>1
      <3>. QED BY <3>3, <3>4
    <2>4. Claimants' = {} /\ LiveTasks' = << >>
      BY <2>1, <2>2, <2>3, OneTask DEF Claimants, LiveTasks
    <2>5. FlushExclusive' BY <2>1, <2>4 DEF FlushExclusive
    <2>6. SwappedSide' BY <2>1 DEF FlushInv, SwappedSide
    <2>. QED BY <2>5, <2>6
  <1>. QED
    BY <1>1, <1>19, <1>20, <1>21, <1>22, <1>32 DEF Claiming

LEMMA FlushInit == Init => FlushInv
  <1>. SUFFICES ASSUME Init PROVE FlushInv
    OBVIOUS
  <1>1. Claimants = {} /\ LiveTasks = << >> /\ ~syncer
    BY DEF Init, Claimants, LiveTasks
  <1>2. FlushExclusive BY <1>1 DEF FlushExclusive
  <1>3. SwappedSide BY DEF Init, SwappedSide
  <1>. QED BY TypeInit, <1>2, <1>3 DEF FlushInv

\* At every moment at most one flush is under way, syncer says whether one
\* is, and no task drains the side that emplace uses.
THEOREM FlushMutualExclusion == Spec => []FlushExclusive
  <1>1. FlushInv => FlushExclusive BY DEF FlushInv
  <1>. QED BY FlushInit, <1>1, FlushStep, PTL DEF Spec

(***************************************************************************)
(* Buffer implements FlushCycle.  What is drained is always the side that  *)
(* is not current, whoever holds it; the phase moves with the steps that   *)
(* set, use and clear syncer.                                              *)
(***************************************************************************)
CycleDrained ==
  CASE LiveTasks # << >> -> Head(LiveTasks)
    [] \E t \in Threads : pc[t] = "exec" -> side[CHOOSE t \in Threads : pc[t] = "exec"]
    [] OTHER -> 1 - buffer_idx
CyclePhase ==
  IF ~syncer THEN "rest" ELSE IF \E t \in Threads : pc[t] = "swap" THEN "claimed" ELSE "draining"

LEMMA DrainsOther == FlushInv => CycleDrained = 1 - buffer_idx
  <1>. SUFFICES ASSUME FlushInv PROVE CycleDrained = 1 - buffer_idx
    OBVIOUS
  <1>0. buffer_idx \in {0, 1} /\ LiveTasks \in Seq({0, 1})
    BY DEF FlushInv, TypeInv, TypeOK, WorkerInv, LiveTasks, Side
  <1>1. CASE LiveTasks # << >>
    <2>1. 1 \in DOMAIN LiveTasks /\ Head(LiveTasks) = LiveTasks[1] /\ LiveTasks[1] \in {0, 1}
      BY <1>0, <1>1
    <2>2. Head(LiveTasks) # buffer_idx BY <2>1 DEF FlushInv, FlushExclusive
    <2>3. Head(LiveTasks) = 1 - buffer_idx BY <1>0, <2>1, <2>2
    <2>4. Claimants = {}
      <3>1. Len(LiveTasks) \in Nat /\ Len(LiveTasks) # 0 BY <1>0, <1>1, EmptySeq
      <3>2. Len(LiveTasks) <= (IF Claimants = {} THEN 1 ELSE 0)
        BY DEF FlushInv, FlushExclusive
      <3>3. ~(Len(LiveTasks) <= 0) BY <3>1
      <3>. QED BY <3>2, <3>3, Zenon
    <2>5. ~\E t \in Threads : pc[t] = "exec" BY <2>4 DEF Claimants
    <2>. QED BY <1>1, <2>3, <2>5 DEF CycleDrained
  <1>2. CASE LiveTasks = << >> /\ \E t \in Threads : pc[t] = "exec"
    <2> DEFINE u == CHOOSE t \in Threads : pc[t] = "exec"
    <2>1. u \in Threads /\ pc[u] = "exec" BY <1>2
    <2>2. side[u] \in {0, 1} /\ side[u] # buffer_idx
      BY <2>1 DEF FlushInv, SwappedSide, TypeInv, TypeOK, Side
    <2>3. side[u] = 1 - buffer_idx BY <1>0, <2>2
    <2>. QED BY <1>2, <2>3 DEF CycleDrained
  <1>3. CASE LiveTasks = << >> /\ ~\E t \in Threads : pc[t] = "exec"
    BY <1>3 DEF CycleDrained
  <1>. QED BY <1>1, <1>2, <1>3

\* One flush after the other takes the current side out of use, once, and drains that
\* side while records go to the other one (buffer.cpp's flush and its task).
THEOREM FlushesAreCycles == Spec => ImplementsFlushCycle
  <1>1. Init => Cycle!CycleInit
    <2>. SUFFICES ASSUME Init PROVE Cycle!CycleInit
      OBVIOUS
    <2>1. FlushInv BY FlushInit
    <2>2. buffer_idx = 0 /\ ~syncer BY DEF Init
    <2>3. CycleDrained = 1 BY <2>1, <2>2, DrainsOther
    <2>. QED BY <2>2, <2>3 DEF Cycle!CycleInit, CycleDrained
  <1>2. FlushInv /\ [Next]_vars => [Cycle!CycleNext]_(Cycle!cycleVars)
    <2>. SUFFICES ASSUME FlushInv, [Next]_vars
                  PROVE  Cycle!CycleNext \/ UNCHANGED <<buffer_idx, CyclePhase, CycleDrained>>
      BY DEF Cycle!cycleVars, CyclePhase, CycleDrained
    <2>0. FlushInv' BY FlushStep
    <2>1. CycleDrained = 1 - buffer_idx /\ CycleDrained' = 1 - buffer_idx'
      <3>1. (FlushInv => CycleDrained = 1 - buffer_idx)' BY DrainsOther, PTL
      <3>. QED BY <2>0, <3>1, DrainsOther
    <2>2. pc \in [Threads -> Steps] /\ buffer_idx \in {0, 1}
      BY DEF FlushInv, TypeInv, TypeOK, Side
    <2>3. ASSUME NEW t \in Threads, FlushClaim(t) PROVE Cycle!CycleNext
      <3>1. ~syncer /\ syncer' /\ pc' = [pc EXCEPT ![t] = "swap"] /\ UNCHANGED buffer_idx
        BY <2>3 DEF FlushClaim, Goto
      <3>2. CyclePhase = "rest" /\ CyclePhase' = "claimed" BY <2>2, <3>1 DEF CyclePhase
      <3>3. Cycle!Claim BY <2>1, <3>1, <3>2 DEF Cycle!Claim, CyclePhase, CycleDrained
      <3>. QED BY <3>3 DEF Cycle!CycleNext
    <2>4. ASSUME NEW t \in Threads, SwapSides(t) PROVE Cycle!CycleNext
      <3>1. /\ pc[t] = "swap" /\ pc' = [pc EXCEPT ![t] = "exec"] /\ buffer_idx' = 1 - buffer_idx
            /\ UNCHANGED syncer
        BY <2>4 DEF SwapSides, Goto
      <3>2. Claimants = {t} /\ syncer
        BY <3>1 DEF FlushInv, FlushExclusive, Claimants
      <3>3. CyclePhase = "claimed" BY <3>1, <3>2 DEF CyclePhase
      <3>4. \A u \in Threads : pc'[u] # "swap" BY <2>2, <3>1, <3>2 DEF Claimants
      <3>5. CyclePhase' = "draining" BY <3>1, <3>2, <3>4 DEF CyclePhase
      <3>6. CycleDrained' = buffer_idx /\ buffer_idx' = CycleDrained BY <2>1, <2>2, <3>1
      <3>7. Cycle!Swap BY <3>3, <3>5, <3>6 DEF Cycle!Swap, CyclePhase, CycleDrained
      <3>. QED BY <3>7 DEF Cycle!CycleNext
    <2>5. ASSUME ReleaseSyncer PROVE Cycle!CycleNext
      <3>1. worker = "release" /\ ~syncer' /\ UNCHANGED <<pc, buffer_idx>>
        BY <2>5 DEF ReleaseSyncer, WorkerGoto, WorkerUnchanged
      <3>2. LiveTasks = m_tasks /\ m_tasks # << >> /\ m_tasks \in Seq(Side)
        BY <3>1 DEF LiveTasks, FlushInv, TypeInv, WorkerInv, TypeOK
      <3>3. Claimants = {} /\ syncer
        <4>1. Len(LiveTasks) \in Nat /\ Len(LiveTasks) # 0 BY <3>2, EmptySeq
        <4>2. Len(LiveTasks) <= (IF Claimants = {} THEN 1 ELSE 0)
          BY DEF FlushInv, FlushExclusive
        <4>3. ~(Len(LiveTasks) <= 0) BY <4>1
        <4>4. Claimants = {} BY <4>2, <4>3, Zenon
        <4>. QED BY <3>2, <4>4 DEF FlushInv, FlushExclusive
      <3>4. CyclePhase = "draining" /\ CyclePhase' = "rest"
        BY <3>1, <3>3 DEF CyclePhase, Claimants
      <3>5. Cycle!Release BY <2>1, <3>1, <3>4 DEF Cycle!Release, CyclePhase, CycleDrained
      <3>. QED BY <3>5 DEF Cycle!CycleNext
    <2>6. ASSUME ~Claiming PROVE UNCHANGED <<buffer_idx, CyclePhase, CycleDrained>>
      <3>1. Quiet BY <2>6, QuietElse DEF FlushInv
      <3>. QED BY <2>1, <3>1 DEF Quiet, CyclePhase
    <2>7. ASSUME NEW t \in Threads, ExecTask(t) \/ UseDeletedGroup(t)
          PROVE  UNCHANGED <<buffer_idx, CyclePhase, CycleDrained>>
      <3>1. PICK to \in {"join", "retry", "return", "idle", "quit", "aborted"} :
              pc' = [pc EXCEPT ![t] = to] /\ pc[t] # "swap"
        BY <2>7, ResumeStep DEF ExecTask, UseDeletedGroup, Goto, FlushInv
      <3>2. UNCHANGED <<syncer, buffer_idx>>
        BY <2>7 DEF ExecTask, UseDeletedGroup, sharedVars
      <3>3. \A u \in Threads : pc'[u] = "swap" <=> pc[u] = "swap" BY <2>2, <3>1
      <3>. QED BY <2>1, <3>2, <3>3 DEF CyclePhase
    <2>. QED BY <2>3, <2>4, <2>5, <2>6, <2>7 DEF Claiming
  <1>3. Spec => []FlushInv
    BY FlushInit, FlushStep, PTL DEF Spec
  <1>. QED BY <1>1, <1>2, <1>3, PTL DEF Spec, ImplementsFlushCycle, Cycle!CycleSpec
=============================================================================
