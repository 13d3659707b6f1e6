----------------------- MODULE KernelSerializerProofs -----------------------
(***************************************************************************)
(* The serializer, for every set of queues and of contexts and every       *)
(* number of kernels.                                                      *)
(*                                                                         *)
(* The line of queues that wait for their turn is served, whatever the     *)
(* barriers count: whenever it is not empty, some queue has the turn.      *)
(*                                                                         *)
(* As long as every barrier counts the kernels that are still to register  *)
(* and no kernel is given two turns, serialization isolates, the check of  *)
(* kernel_completion_signal holds and nothing is kept of a queue that is   *)
(* gone.  The invariant is SerializerInv: the types (TypesInv), what holds *)
(* of the structure whatever is counted (StructInv), and, while the counts *)
(* are right, how a barrier's counts, its place in the queues, the mode of *)
(* the kernels behind it and the line of turns fit together (RightInv).    *)
(***************************************************************************)
EXTENDS KernelSerializer, FiniteSetTheorems, WellFoundedInduction, TLAPS

\* The strengthening: only queues get the turn or stand in line, so that the turn
\* that is passed on goes to a queue.
TurnInv ==
  /\ dispatch_queue \in Queues \cup {NoQueue}
  /\ dispatch_ready \in Seq(Queues)
  /\ LineIsServed

\* A step that hands out no turn keeps all of it.
LEMMA NoTurn ==
  ASSUME TurnInv, UNCHANGED <<dispatch_queue, dispatch_ready>>
  PROVE  TurnInv'
BY DEF TurnInv, LineIsServed

\* queue_ready: the queue gets a free turn or goes to the end of the line.
LEMMA QueueReadyServes ==
  ASSUME TurnInv, NEW q \in Queues, QueueReady(q)
  PROVE  TurnInv'
<1>1. CASE dispatch_queue = NoQueue
  <2>1. dispatch_queue' = q /\ dispatch_ready' = dispatch_ready
    BY <1>1 DEF QueueReady
  <2>2. q # NoQueue
    BY SerializerAssumption
  <2>3. QED
    BY <2>1, <2>2 DEF TurnInv, LineIsServed
<1>2. CASE dispatch_queue # NoQueue
  <2>1. dispatch_queue' = dispatch_queue /\ dispatch_ready' = Append(dispatch_ready, q)
    BY <1>2 DEF QueueReady
  <2>2. QED
    BY <1>2, <2>1 DEF TurnInv, LineIsServed
<1>3. QED
  BY <1>1, <1>2

\* kernel_completion_signal: the turn goes to the head of the line, or to nobody
\* when the line is empty.
LEMMA PassTurnServes ==
  ASSUME TurnInv, NEW q \in Queues, PassTurn(q)
  PROVE  TurnInv'
<1>1. CASE dispatch_ready = << >>
  BY <1>1 DEF PassTurn, TurnInv, LineIsServed
<1>2. CASE dispatch_ready # << >>
  <2>1. dispatch_queue' = Head(dispatch_ready) /\ dispatch_ready' = Tail(dispatch_ready)
    BY <1>2 DEF PassTurn
  <2>2. Head(dispatch_ready) \in Queues /\ Tail(dispatch_ready) \in Seq(Queues)
    BY <1>2 DEF TurnInv
  <2>3. Head(dispatch_ready) # NoQueue
    BY <2>2, SerializerAssumption
  <2>4. QED
    BY <2>1, <2>2, <2>3 DEF TurnInv, LineIsServed
<1>3. QED
  BY <1>1, <1>2

\* A kernel's completion passes the turn or leaves it alone.
LEMMA CompletionServes ==
  ASSUME TurnInv, NEW k \in Kernels, NEW c \in Contexts, KernelCompletion(k, c)
  PROVE  TurnInv'
<1>1. k[1] \in Queues
  BY DEF Kernels
<1>2. PassTurn(k[1]) \/ UNCHANGED <<dispatch_queue, dispatch_ready>>
  BY DEF KernelCompletion
<1>3. QED
  BY <1>1, <1>2, NoTurn, PassTurnServes

\* Every step of the system.
LEMMA StepServes ==
  ASSUME TurnInv, [Next]_vars
  PROVE  TurnInv'
<1>1. CASE UNCHANGED vars
  BY <1>1, NoTurn DEF vars, serializerVars
<1>2. ASSUME NEW q \in Queues, WriteDirectly(q) \/ InterceptBegin(q) \/ Destroy(q)
      PROVE  TurnInv'
  BY <1>2, NoTurn DEF WriteDirectly, InterceptBegin, Destroy, serializerVars
<1>3. ASSUME NEW q \in Queues, Dispatch(q)
      PROVE  TurnInv'
  BY <1>3, NoTurn DEF Dispatch, AskContext, AddSerialization, Submit, serializerVars
<1>4. ASSUME NEW q \in Queues, Processor(q)
      PROVE  TurnInv'
  BY <1>4, NoTurn DEF Processor, PassBarrier, PassReady, PassBlock, Launch, serializerVars
<1>5. ASSUME NEW k \in Kernels, Complete(k)
      PROVE  TurnInv'
  BY <1>5, NoTurn DEF Complete, serializerVars
<1>6. ASSUME NEW k \in Kernels, Handle(k)
      PROVE  TurnInv'
  BY <1>6, NoTurn, CompletionServes DEF Handle, AsyncComplete, serializerVars
<1>7. ASSUME NEW c \in Contexts, Start(c)
      PROVE  TurnInv'
  BY <1>7, NoTurn DEF Start, serializerVars
<1>8. ASSUME Stop \/ FinalizeBegin \/ FinalizeEnd
      PROVE  TurnInv'
  BY <1>8, NoTurn DEF Stop, FinalizeBegin, FinalizeEnd, serializerVars
<1>9. ASSUME Switch
      PROVE  TurnInv'
  BY <1>9, NoTurn DEF Switch, SwitchNothing, SwitchBegin, CountQueue, RecountQueue, SwitchEnd,
                      serializerVars
<1>10. ASSUME Tool
       PROVE  TurnInv'
  BY <1>9, <1>10, NoTurn DEF Tool, Mark, Install, Started, Sync, serializerVars
<1>11. QED
  BY <1>1, <1>2, <1>3, <1>4, <1>5, <1>6, <1>7, <1>8, <1>10, QueueReadyServes DEF Next

\* profiler_serializer: a queue waits in line only while another queue has the turn.
THEOREM SerializerServesLine == Spec => []LineIsServed
<1>1. Init => TurnInv
  BY DEF Init, TurnInv, LineIsServed
<1>2. TurnInv /\ [Next]_vars => TurnInv'
  BY StepServes
<1>3. TurnInv => LineIsServed
  BY DEF TurnInv
<1>4. QED
  BY <1>1, <1>2, <1>3, PTL DEF Spec

-----------------------------------------------------------------------------
\* A nonempty set of numbers has a least one.
LEMMA LeastOf ==
  ASSUME NEW S, S \subseteq Nat, S # {}
  PROVE  \E m \in S : \A n \in S : m <= n
<1> DEFINE R == {ss \in Nat \X Nat : ss[1] < ss[2]}
<1>1. IsWellFoundedOn(R, Nat)
  BY NatLessThanWellFounded DEF OpToRel
<1>2. \E m \in S : \A n \in S : <<n, m>> \notin R
  BY <1>1, WFMin
<1>3. PICK m \in S : \A n \in S : <<n, m>> \notin R
  BY <1>2
<1>4. ASSUME NEW n \in S PROVE m <= n
  <2>1. <<n, m>> \notin R /\ n \in Nat /\ m \in Nat
    BY <1>3
  <2>2. ~(n < m)
    BY <2>1
  <2>3. QED
    BY <2>1, <2>2
<1>5. QED
  BY <1>4

\* The kernels of one queue.
KernelsOf(q) == {q} \X (1 .. MaxKernels[q])

\* The kernels of a queue, and their completions, are finitely many.
LEMMA KernelsFinite ==
  ASSUME NEW q \in Queues
  PROVE  IsFiniteSet(KernelsOf(q)) /\ IsFiniteSet(KernelsOf(q) \X Contexts)
<1>1. MaxKernels[q] \in Nat
  BY SerializerAssumption
<1>2. IsFiniteSet(1 .. MaxKernels[q])
  BY <1>1, FS_Interval
<1>3. IsFiniteSet(KernelsOf(q))
  BY <1>2, FS_Singleton, FS_Product DEF KernelsOf
<1>4. QED
  BY <1>3, FS_Product, SerializerAssumption

\* A kernel is named by its queue and its number there.
LEMMA KernelOf ==
  ASSUME NEW k \in Kernels
  PROVE  k[1] \in Queues /\ k[2] \in 1 .. MaxKernels[k[1]] /\ k = <<k[1], k[2]>>
         /\ k \in KernelsOf(k[1])
BY DEF Kernels, KernelsOf

\* Every number of a queue names a kernel.
LEMMA InKernels ==
  ASSUME NEW q \in Queues, NEW n \in 1 .. MaxKernels[q]
  PROVE  <<q, n>> \in Kernels
<1>1. <<q, n>> \in {q} \X (1 .. MaxKernels[q])
  OBVIOUS
<1>2. QED
  BY <1>1 DEF Kernels

\* The kernels of a queue are kernels.
LEMMA OfQueue ==
  ASSUME NEW q \in Queues, NEW k \in KernelsOf(q)
  PROVE  k \in Kernels /\ k[1] = q
BY DEF Kernels, KernelsOf

\* A set that is 1 .. m has m elements.
LEMMA CountTo ==
  ASSUME NEW S, NEW m \in Nat, S = 1 .. m
  PROVE  Cardinality(S) = m
<1>1. Cardinality(1 .. m) = IF 1 > m THEN 0 ELSE m - 1 + 1
  BY FS_Interval
<1>2. QED
  BY <1>1

-----------------------------------------------------------------------------
\* What a barrier holds, and a packet, and a kernel.
Barrier ==
  [id : Nat, state : {"enabled", "disabled"}, waiting : UNION {[S -> Int] : S \in SUBSET Queues},
   enqueued : SUBSET Queues, complete : BOOLEAN]
Ordering == {"barrier", "ready", "block"} \X Nat
PacketOf(q) == Ordering \cup {<<"kernel", n>> : n \in {m \in 1 .. MaxKernels[q] : m <= written[q]}}
Live == {"started", "queued", "running", "handled"}
KernelRecord ==
  [at : {"none", "gone"} \cup Live, tracked : BOOLEAN, todo : SUBSET Contexts,
   counted : BOOLEAN, turns : Nat, fence : BOOLEAN, epoch : Nat]

\* The ids of barriers are finitely many.
LEMMA IdsFinite ==
  ASSUME NEW bs \in Seq(Barrier), NEW L, IsFiniteSet(L)
  PROVE  IsFiniteSet(L \cup {bs[i].id : i \in DOMAIN bs})
<1> DEFINE D == DOMAIN bs
           T == {bs[i].id : i \in D}
           f == [i \in D |-> bs[i].id]
<1>1. D = 1 .. Len(bs) /\ Len(bs) \in Nat
  OBVIOUS
<1>2. IsFiniteSet(D)
  BY <1>1, FS_Interval
<1>3. f \in Surjection(D, T)
  BY DEF Surjection
<1>4. IsFiniteSet(T)
  BY <1>2, <1>3, FS_Surjection
<1>5. QED
  BY <1>4, FS_Union

\* What becomes of a barrier and of the list of them keeps its type.
LEMMA RegisterTypes ==
  ASSUME NEW b \in Barrier, NEW q \in Queues
  PROVE  RegisterCompletion(b, q) \in Barrier
<1>1. PICK S \in SUBSET Queues : b.waiting \in [S -> Int]
  BY DEF Barrier
<1>2. CASE ~Waits(b, q)
  BY <1>2 DEF RegisterCompletion
<1>3. CASE Waits(b, q) /\ b.waiting[q] = 1
  <2>1. Without(b, q) \in [S \ {q} -> Int] /\ S \ {q} \in SUBSET Queues
    BY <1>1 DEF Without
  <2>2. RegisterCompletion(b, q)
          = [b EXCEPT !.waiting = Without(b, q), !.complete = @ \/ DOMAIN b.waiting = {q}]
    BY <1>3 DEF RegisterCompletion
  <2>3. Without(b, q) \in UNION {[R -> Int] : R \in SUBSET Queues}
    BY <2>1
  <2>4. (b.complete \/ DOMAIN b.waiting = {q}) \in BOOLEAN
    OBVIOUS
  <2>5. QED
    BY <2>2, <2>3, <2>4 DEF Barrier
<1>4. CASE Waits(b, q) /\ b.waiting[q] # 1
  <2>1. RegisterCompletion(b, q) = [b EXCEPT !.waiting[q] = @ - 1]
    BY <1>4 DEF RegisterCompletion
  <2>2. q \in S /\ b.waiting[q] \in Int
    BY <1>1, <1>4 DEF Waits
  <2>3. [b.waiting EXCEPT ![q] = @ - 1] \in [S -> Int]
    BY <1>1, <2>2
  <2>4. QED
    BY <2>1, <2>3 DEF Barrier
<1>5. QED
  BY <1>2, <1>3, <1>4

\* clear_complete_barriers drops lifted barriers from the front.
LEMMA Cleared ==
  ASSUME NEW bs \in Seq(Barrier)
  PROVE  /\ Clear(bs) \in Seq(Barrier)
         /\ \E d \in 0 .. Len(bs) :
              /\ Len(Clear(bs)) = Len(bs) - d
              /\ \A i \in 1 .. Len(bs) - d : Clear(bs)[i] = bs[i + d]
              /\ \A i \in 1 .. d : bs[i].id \in lifted
<1> DEFINE kept == {i \in DOMAIN bs : bs[i].id \notin lifted}
<1>0. DOMAIN bs = 1 .. Len(bs) /\ Len(bs) \in Nat
  OBVIOUS
<1>1. CASE kept = {}
  <2>1. Clear(bs) = << >>
    BY <1>1 DEF Clear
  <2>2. \A i \in 1 .. Len(bs) : bs[i].id \in lifted
    BY <1>0, <1>1
  <2>3. Len(bs) \in 0 .. Len(bs) /\ Len(Clear(bs)) = Len(bs) - Len(bs)
    BY <1>0, <2>1
  <2>4. \A i \in 1 .. Len(bs) - Len(bs) : Clear(bs)[i] = bs[i + Len(bs)]
    BY <1>0
  <2>5. QED
    BY <2>1, <2>2, <2>3, <2>4
<1>2. CASE kept # {}
  <2>0. kept \subseteq 1 .. Len(bs) /\ kept \subseteq Nat
    BY <1>0
  <2>1. \E m \in kept : \A n \in kept : m <= n
    BY <1>2, <2>0, LeastOf
  <2>2. Min(kept) \in kept /\ \A n \in kept : Min(kept) <= n
    BY <2>1, Zenon DEF Min
  <2>3. PICK m \in 1 .. Len(bs) : m = Min(kept) /\ \A n \in kept : m <= n
    BY <1>0, <2>2
  <2>4. Clear(bs) = SubSeq(bs, m, Len(bs))
    BY <1>2, <2>3 DEF Clear
  <2>5. SubSeq(bs, m, Len(bs)) \in Seq(Barrier)
    BY <1>0, <2>3
  <2>6. /\ Len(SubSeq(bs, m, Len(bs))) = Len(bs) - (m - 1)
        /\ \A i \in 1 .. Len(bs) - (m - 1) : SubSeq(bs, m, Len(bs))[i] = bs[i + (m - 1)]
    <3>1. m \in Int /\ Len(bs) \in Int /\ m <= Len(bs)
      BY <1>0, <2>3
    <3>2. Len(SubSeq(bs, m, Len(bs))) = Len(bs) - m + 1
      BY <3>1
    <3>3. ASSUME NEW i \in 1 .. Len(bs) - m + 1 PROVE SubSeq(bs, m, Len(bs))[i] = bs[m + i - 1]
      BY <3>1
    <3>4. Len(bs) - (m - 1) = Len(bs) - m + 1 /\ \A i \in Int : i + (m - 1) = m + i - 1
      BY <3>1
    <3>5. QED
      BY <3>2, <3>3, <3>4
  <2>9. ASSUME NEW i \in 1 .. m - 1 PROVE bs[i].id \in lifted
    <3>1. i \in DOMAIN bs /\ ~(m <= i)
      BY <1>0, <2>3
    <3>2. i \notin kept
      BY <2>3, <3>1
    <3>3. QED
      BY <3>1, <3>2
  <2>7. m - 1 \in 0 .. Len(bs)
    BY <1>0, <2>3
  <2>8. QED
    BY <2>4, <2>5, <2>6, <2>7, <2>9
<1>3. QED
  BY <1>1, <1>2

\* Two packets make a turn.
LEMMA TurnTypes ==
  /\ Turn \in Seq(Ordering)
  /\ status = "enabled" => Turn = <<<<"ready", 0>>, <<"block", 0>>>> /\ Len(Turn) \div 2 = 1
  /\ status # "enabled" => Turn = << >> /\ Len(Turn) \div 2 = 0
<1>1. <<"ready", 0>> \in Ordering /\ <<"block", 0>> \in Ordering
  BY DEF Ordering
<1>2. CASE status = "enabled"
  BY <1>1, <1>2 DEF Turn
<1>3. CASE status # "enabled"
  BY <1>3 DEF Turn
<1>4. QED
  BY <1>2, <1>3

-----------------------------------------------------------------------------
\* The types, by what holds them.
StateTypes ==
  /\ status \in {"enabled", "disabled"} /\ held \in BOOLEAN /\ alive \subseteq Queues
  /\ notified \in [Queues -> SUBSET Contexts] /\ enabled \in [Contexts -> BOOLEAN]
  /\ ready_signal \in [Queues -> {-1, 0, 1}] /\ block_signal \in [Queues -> {-1, 0, 1}]
\* What a kernel has come to tells what was asked of it.
Packing == {"ask", "pack"}
Sane(r) ==
  /\ r.todo # {} => r.at # "none" /\ r.tracked
  /\ r.at \in {"started", "handled"} => r.tracked
  /\ r.turns > 0 /\ r.at \in {"started", "queued", "running"} => r.todo # {}
  /\ r.at = "gone" /\ r.todo # {} => fini = "finalized"
KernelTypes ==
  /\ kernels \in [Kernels -> KernelRecord]
  /\ \A k \in Kernels : Sane(kernels[k])
BarrierTypes == barriers \in Seq(Barrier) /\ lifted \subseteq Nat /\ IsFiniteSet(lifted)
QueueTypes ==
  /\ DOMAIN hw = Queues /\ \A q \in Queues : hw[q] \in Seq(PacketOf(q))
  /\ before \in [Queues -> Seq(Ordering)] /\ written \in [Queues -> Nat]
  /\ pc \in [Queues -> {"idle", "ask", "pack", "destroyed"}]
  /\ asking \in [Queues -> Contexts \cup {NoContext}]
  /\ \A q \in Queues : pc[q] = "pack" => asking[q] \in Contexts
  /\ \A q \in Queues : pc[q] \in {"ask", "pack"} => <<q, written[q]>> \in Kernels
\* A kernel that is not written yet.
FreshInv == \A k \in Kernels : k[2] > written[k[1]] => kernels[k] = NoKernel
\* Where a kernel is: in its queue's interceptor, or in the queue, once.
PlaceInv ==
  /\ \A q \in Queues : pc[q] \in Packing => kernels[<<q, written[q]>>].at = "started"
  /\ \A k \in Kernels : kernels[k].at = "started" => k[2] = written[k[1]] /\ pc[k[1]] \in Packing
  /\ \A q \in Queues : \A i \in DOMAIN hw[q] : hw[q][i][1] = "kernel" =>
       /\ kernels[<<q, hw[q][i][2]>>].at = "queued"
       /\ \A j \in DOMAIN hw[q] : hw[q][j] = hw[q][i] => j = i
ToolTypes ==
  /\ current \in Contexts \cup {NoContext}
  /\ cpc \in {"enable", "mark", "install"} => current \in Contexts
  /\ cpc \in {"count", "recount"} /\ status = "enabled" => current \in Contexts
  /\ cpc = "recount" => counting \in Queues
  /\ held <=> cpc \in {"count", "recount"}
  /\ held => barriers # << >>
  /\ fini = "finalized" => cpc = "finalized"

\* active_async_packets counts at least the kernels whose handler has not ended: what
\* finalization keeps from ending stays counted.
Outstanding(q) ==
  {k \in KernelsOf(q) :
     kernels[k].tracked /\ (kernels[k].at \in Live \/ kernels[k].todo # {})}
ActiveInv ==
  active \in [Queues -> Nat] /\ \A q \in Queues : active[q] >= Cardinality(Outstanding(q))

TypesInv ==
  TurnInv /\ StateTypes /\ KernelTypes /\ BarrierTypes /\ QueueTypes /\ FreshInv /\ PlaceInv
  /\ ToolTypes /\ ActiveInv

\* The types of the proof give those of the run.
LEMMA TypesOK == TypesInv => TypeOK
<1> SUFFICES ASSUME TypesInv PROVE TypeOK
  OBVIOUS
<1>1. \A k \in Kernels : kernels[k].todo \subseteq Contexts
  BY DEF TypesInv, KernelTypes, KernelRecord
<1>2. ASSUME NEW i \in DOMAIN barriers
      PROVE  /\ barriers[i].id \in Nat /\ barriers[i].state \in {"enabled", "disabled"}
             /\ \A q \in DOMAIN barriers[i].waiting : barriers[i].waiting[q] \in Int
  <2>1. barriers[i] \in Barrier
    BY <1>2 DEF TypesInv, BarrierTypes
  <2>2. PICK S \in SUBSET Queues : barriers[i].waiting \in [S -> Int]
    BY <2>1 DEF Barrier
  <2>3. QED
    BY <2>1, <2>2 DEF Barrier
<1>3. QED
  BY <1>1, <1>2 DEF TypesInv, TypeOK, TurnInv, StateTypes, ActiveInv

\* Barriers are numbered with natural numbers.
LEMMA LastIdType ==
  ASSUME BarrierTypes
  PROVE  LastId \in Nat
BY IdsFinite, FS_CardinalityType DEF BarrierTypes, LastId

\* The tool's thread leaves kernels, queues, signals and turns alone.
ToolStep == (\E c \in Contexts : Start(c)) \/ Stop \/ Tool \/ FinalizeBegin \/ FinalizeEnd

\* What the tool's thread leaves alone.
LEMMA ToolKeeps ==
  ASSUME ToolStep
  PROVE  /\ UNCHANGED <<kernels, hw, before, written, pc, asking, active, signalVars>>
         /\ UNCHANGED <<dispatch_queue, dispatch_ready, alive, aborted>>
<1> USE DEF signalVars, threadVars
<1>1. CASE (\E c \in Contexts : Start(c)) \/ Stop \/ FinalizeBegin \/ FinalizeEnd
  BY <1>1, Zenon DEF Start, Stop, FinalizeBegin, FinalizeEnd, serializerVars
<1>2. CASE SwitchNothing \/ SwitchBegin
  BY <1>2, Zenon DEF SwitchNothing, SwitchBegin
<1>3. CASE (\E q \in Queues : CountQueue(q)) \/ RecountQueue \/ SwitchEnd
  BY <1>3, Zenon DEF CountQueue, RecountQueue, SwitchEnd, serializerVars
<1>4. CASE Mark \/ (\E q \in Queues : Install(q) \/ Sync(q)) \/ Started
  BY <1>4, Zenon DEF Mark, Install, Sync, Started, serializerVars
<1>5. QED
  BY <1>1, <1>2, <1>3, <1>4, Zenon DEF ToolStep, Tool, Switch

\* The steps by whose they are.
LEMMA Steps ==
  ASSUME Next
  PROVE  \/ ToolStep
         \/ \E q \in Queues :
              \/ WriteDirectly(q) \/ InterceptBegin(q) \/ Destroy(q) \/ AddSerialization(q) \/ Submit(q)
              \/ PassBarrier(q) \/ PassReady(q) \/ PassBlock(q) \/ Launch(q) \/ QueueReady(q)
              \/ \E c \in Contexts : AskContext(q, c)
         \/ \E k \in Kernels :
              Complete(k) \/ AsyncComplete(k) \/ \E c \in Contexts : KernelCompletion(k, c)
BY Zenon DEF Next, Dispatch, Processor, Handle, ToolStep

\* A kernel that moves on keeps the rest.
LEMMA AtSet ==
  ASSUME NEW r \in KernelRecord, NEW a
  PROVE  LET s == [r EXCEPT !.at = a]
         IN /\ s.at = a /\ s.tracked = r.tracked /\ s.todo = r.todo
            /\ s.turns = r.turns /\ s.epoch = r.epoch
BY DEF KernelRecord

\* What each step does to the one kernel that it changes.
Same(k) == \A j \in Kernels : j # k => kernels'[j] = kernels[j]
From(k, a, b) == kernels[k].at = a /\ kernels'[k].at = b
Asked(k) == <<kernels[k].tracked, kernels[k].todo, kernels[k].turns, kernels[k].epoch>>

\* A dispatch that the interceptor lets through: the kernel is put in the queue as it
\* is.
LEMMA WriteEffect ==
  ASSUME TypesInv, NEW q \in Queues, WriteDirectly(q)
  PROVE  \E k \in Kernels :
           /\ k = Next1(q) /\ k[1] = q /\ k[2] = written[q] + 1
           /\ Same(k) /\ kernels' \in [Kernels -> KernelRecord]
           /\ From(k, "none", "queued") /\ UNCHANGED Asked(k) /\ kernels[k] = NoKernel
<1>1. kernels \in [Kernels -> KernelRecord] /\ written[q] \in Nat
  BY DEF TypesInv, KernelTypes, QueueTypes
<1>2. PICK k \in Kernels : k = Next1(q) /\ k[1] = q /\ k[2] = written[q] + 1
  <2>1. written[q] < MaxKernels[q] /\ MaxKernels[q] \in Nat
    BY SerializerAssumption DEF WriteDirectly
  <2>2. written[q] + 1 \in 1 .. MaxKernels[q]
    BY <1>1, <2>1
  <2>3. Next1(q) \in Kernels
    BY <2>2, InKernels DEF Next1
  <2>4. QED
    BY <2>3 DEF Next1
<1>3. kernels' = [kernels EXCEPT ![k].at = "queued"]
  BY <1>2 DEF WriteDirectly
<1>4. kernels'[k] = [kernels[k] EXCEPT !.at = "queued"] /\ Same(k)
  BY <1>1, <1>3 DEF Same
<1>5. kernels' \in [Kernels -> KernelRecord]
  BY <1>1, <1>3 DEF KernelRecord, Live
<1>6. kernels[k] = NoKernel
  <2>1. k[2] > written[k[1]]
    BY <1>1, <1>2
  <2>2. QED
    BY <2>1 DEF TypesInv, FreshInv
<1>7. From(k, "none", "queued") /\ UNCHANGED Asked(k)
  <2>1. NoKernel.at = "none"
    BY DEF NoKernel
  <2>2. kernels[k] \in KernelRecord /\ kernels[k].at = "none"
    BY <1>1, <1>6, <2>1
  <2>3. QED
    BY <1>4, <2>2, AtSet DEF From, Asked
<1>8. QED
  BY <1>2, <1>4, <1>5, <1>6, <1>7

\* The interceptor takes a kernel up.
LEMMA InterceptEffect ==
  ASSUME TypesInv, NEW q \in Queues, InterceptBegin(q)
  PROVE  \E k \in Kernels :
           /\ k = Next1(q) /\ k[1] = q /\ k[2] = written[q] + 1
           /\ Same(k) /\ kernels' \in [Kernels -> KernelRecord]
           /\ From(k, "none", "started") /\ kernels[k] = NoKernel
           /\ kernels'[k] = [NoKernel EXCEPT !.at = "started", !.tracked = TRUE]
<1>1. kernels \in [Kernels -> KernelRecord] /\ written[q] \in Nat
  BY DEF TypesInv, KernelTypes, QueueTypes
<1>2. PICK k \in Kernels : k = Next1(q) /\ k[1] = q /\ k[2] = written[q] + 1
  <2>1. written[q] < MaxKernels[q] /\ MaxKernels[q] \in Nat
    BY SerializerAssumption DEF InterceptBegin
  <2>2. written[q] + 1 \in 1 .. MaxKernels[q]
    BY <1>1, <2>1
  <2>3. Next1(q) \in Kernels
    BY <2>2, InKernels DEF Next1
  <2>4. QED
    BY <2>3 DEF Next1
<1>3. kernels' = [kernels EXCEPT ![k].at = "started", ![k].tracked = TRUE]
  BY <1>2 DEF InterceptBegin
<1>4. kernels[k] = NoKernel
  <2>1. k[2] > written[k[1]]
    BY <1>1, <1>2
  <2>2. QED
    BY <2>1 DEF TypesInv, FreshInv
<1>5. kernels'[k] = [NoKernel EXCEPT !.at = "started", !.tracked = TRUE] /\ Same(k)
  BY <1>1, <1>3, <1>4 DEF Same
<1>6. kernels'[k] \in KernelRecord
  <2>1. NoKernel \in KernelRecord
    BY DEF KernelRecord, NoKernel
  <2>2. QED
    BY <1>5, <2>1 DEF KernelRecord, Live
<1>7. kernels' = [j \in Kernels |-> kernels'[j]]
  BY <1>1, <1>3
<1>8. kernels' \in [Kernels -> KernelRecord]
  BY <1>1, <1>5, <1>6, <1>7 DEF Same
<1>9. From(k, "none", "started")
  BY <1>4, <1>5 DEF From, NoKernel
<1>10. QED
  BY <1>2, <1>4, <1>5, <1>8, <1>9

\* The kernel in the interceptor.
LEMMA InHand ==
  ASSUME TypesInv, NEW q \in Queues, pc[q] \in Packing
  PROVE  \E k \in Kernels : /\ k = <<q, written[q]>> /\ k[1] = q /\ k[2] = written[q]
                            /\ kernels[k] \in KernelRecord /\ kernels[k].at = "started"
<1>1. <<q, written[q]>> \in Kernels
  BY DEF TypesInv, QueueTypes, Packing
<1>2. kernels[<<q, written[q]>>].at = "started"
  BY DEF TypesInv, PlaceInv
<1>3. QED
  BY <1>1, <1>2 DEF TypesInv, KernelTypes

\* A context is asked whether it counts the kernel; the kernel does not change.
LEMMA AskEffect ==
  ASSUME TypesInv, NEW q \in Queues, NEW c \in Contexts, AskContext(q, c)
  PROVE  \E k \in Kernels :
           /\ k = <<q, written[q]>> /\ k[1] = q /\ k[2] = written[q]
           /\ Same(k) /\ kernels' \in [Kernels -> KernelRecord]
           /\ From(k, "started", "started") /\ UNCHANGED Asked(k)
<1>1. kernels \in [Kernels -> KernelRecord]
  BY DEF TypesInv, KernelTypes
<1>2. PICK k \in Kernels : /\ k = <<q, written[q]>> /\ k[1] = q /\ k[2] = written[q]
                           /\ kernels[k] \in KernelRecord /\ kernels[k].at = "started"
  BY InHand DEF AskContext, Packing
<1>3. PICK profile \in BOOLEAN : kernels' = [kernels EXCEPT ![k].counted = @ \/ profile]
  BY <1>2 DEF AskContext
<1>4. kernels'[k] = [kernels[k] EXCEPT !.counted = @ \/ profile] /\ Same(k)
  BY <1>1, <1>3 DEF Same
<1>5. kernels'[k] \in KernelRecord
  <2>1. (kernels[k].counted \/ profile) \in BOOLEAN
    OBVIOUS
  <2>2. QED
    BY <1>2, <1>4, <2>1 DEF KernelRecord
<1>6. kernels' = [j \in Kernels |-> kernels'[j]]
  BY <1>1, <1>3
<1>7. kernels' \in [Kernels -> KernelRecord]
  BY <1>1, <1>4, <1>5, <1>6 DEF Same
<1>8. From(k, "started", "started") /\ UNCHANGED Asked(k)
  BY <1>2, <1>4 DEF From, Asked, KernelRecord
<1>9. QED
  BY <1>2, <1>4, <1>7, <1>8

\* A context counts the kernel: a completion to register, and a turn when serializing.
LEMMA PackEffect ==
  ASSUME TypesInv, NEW q \in Queues, AddSerialization(q)
  PROVE  \E k \in Kernels :
           /\ k = <<q, written[q]>> /\ k[1] = q /\ k[2] = written[q]
           /\ Same(k) /\ kernels' \in [Kernels -> KernelRecord]
           /\ From(k, "started", "started") /\ kernels'[k].tracked = kernels[k].tracked
           /\ asking[q] \in Contexts /\ kernels'[k].todo = kernels[k].todo \cup {asking[q]}
           /\ status = "enabled" => kernels'[k].turns = kernels[k].turns + 1
           /\ status # "enabled" => kernels'[k].turns = kernels[k].turns
           /\ LastId \in Nat /\ kernels'[k].epoch = LastId
<1> DEFINE t == Len(Turn) \div 2
<1>1. kernels \in [Kernels -> KernelRecord]
  BY DEF TypesInv, KernelTypes
<1>2. PICK k \in Kernels : /\ k = <<q, written[q]>> /\ k[1] = q /\ k[2] = written[q]
                           /\ kernels[k] \in KernelRecord /\ kernels[k].at = "started"
  BY InHand DEF AddSerialization, Packing
<1>3. kernels' = [kernels EXCEPT ![k].todo = @ \cup {asking[q]}, ![k].turns = @ + t,
                                 ![k].epoch = LastId]
  BY <1>2 DEF AddSerialization
<1>4. /\ LastId \in Nat /\ asking[q] \in Contexts
      /\ status = "enabled" => t = 1
      /\ status # "enabled" => t = 0
  BY TurnTypes, LastIdType DEF TypesInv, AddSerialization, QueueTypes
<1> HIDE DEF t
<1>5. /\ kernels'[k] = [kernels[k] EXCEPT !.todo = @ \cup {asking[q]}, !.turns = @ + t,
                                          !.epoch = LastId]
      /\ Same(k)
  BY <1>1, <1>3 DEF Same
<1>6. t \in {0, 1}
  BY <1>4
<1>7. kernels'[k] \in KernelRecord
  <2>1. /\ kernels[k].turns + t \in Nat /\ kernels[k].todo \cup {asking[q]} \in SUBSET Contexts
    BY <1>2, <1>4, <1>6 DEF KernelRecord
  <2>2. QED
    BY <1>2, <1>4, <1>5, <2>1 DEF KernelRecord
<1>8. kernels' = [j \in Kernels |-> kernels'[j]]
  BY <1>1, <1>3
<1>9. kernels' \in [Kernels -> KernelRecord]
  BY <1>1, <1>5, <1>7, <1>8 DEF Same
<1>10. /\ From(k, "started", "started") /\ kernels'[k].tracked = kernels[k].tracked
       /\ kernels'[k].todo = kernels[k].todo \cup {asking[q]}
       /\ kernels'[k].turns = kernels[k].turns + t /\ kernels'[k].epoch = LastId
  BY <1>2, <1>5 DEF From, KernelRecord
<1>11. kernels[k].turns \in Nat
  BY <1>2 DEF KernelRecord
<1>12. /\ status = "enabled" => kernels'[k].turns = kernels[k].turns + 1
       /\ status # "enabled" => kernels'[k].turns = kernels[k].turns
  BY <1>4, <1>10, <1>11
<1>13. QED
  BY <1>2, <1>4, <1>5, <1>9, <1>10, <1>12

\* The kernel and what was put before it enter the queue.
LEMMA SubmitEffect ==
  ASSUME TypesInv, NEW q \in Queues, Submit(q)
  PROVE  \E k \in Kernels :
           /\ k = <<q, written[q]>> /\ k[1] = q /\ k[2] = written[q]
           /\ Same(k) /\ kernels' \in [Kernels -> KernelRecord]
           /\ From(k, "started", "queued") /\ UNCHANGED Asked(k)
<1>1. kernels \in [Kernels -> KernelRecord]
  BY DEF TypesInv, KernelTypes
<1>2. PICK k \in Kernels : /\ k = <<q, written[q]>> /\ k[1] = q /\ k[2] = written[q]
                           /\ kernels[k] \in KernelRecord /\ kernels[k].at = "started"
  BY InHand DEF Submit, Packing
<1>3. PICK f \in BOOLEAN : kernels' = [kernels EXCEPT ![k].at = "queued", ![k].fence = f]
  <2>1. (before[q] # << >> \/ kernels[k].counted) \in BOOLEAN
    OBVIOUS
  <2>2. QED
    BY <1>2, <2>1 DEF Submit
<1>4. kernels'[k] = [kernels[k] EXCEPT !.at = "queued", !.fence = f] /\ Same(k)
  BY <1>1, <1>3 DEF Same
<1>5. kernels'[k] \in KernelRecord
  BY <1>2, <1>4 DEF KernelRecord, Live
<1>6. kernels' = [j \in Kernels |-> kernels'[j]]
  BY <1>1, <1>3
<1>7. kernels' \in [Kernels -> KernelRecord]
  BY <1>1, <1>4, <1>5, <1>6 DEF Same
<1>8. From(k, "started", "queued") /\ UNCHANGED Asked(k)
  BY <1>2, <1>4 DEF From, Asked, KernelRecord
<1>9. QED
  BY <1>2, <1>4, <1>7, <1>8

\* The queue's processor launches the kernel at its head.
LEMMA LaunchEffect ==
  ASSUME TypesInv, NEW q \in Queues, Launch(q)
  PROVE  \E k \in Kernels :
           /\ k = <<q, Head(hw[q])[2]>> /\ k[1] = q /\ k[2] = Head(hw[q])[2] /\ k[2] <= written[q]
           /\ Same(k) /\ kernels' \in [Kernels -> KernelRecord]
           /\ From(k, "queued", "running") /\ UNCHANGED Asked(k)
<1>1. kernels \in [Kernels -> KernelRecord]
  BY DEF TypesInv, KernelTypes
<1>2. PICK k \in Kernels : /\ k = <<q, Head(hw[q])[2]>> /\ k[1] = q /\ k[2] = Head(hw[q])[2]
                           /\ k[2] <= written[q] /\ kernels[k].at = "queued"
  <2>1. hw[q] \in Seq(PacketOf(q)) /\ hw[q] # << >> /\ Head(hw[q])[1] = "kernel"
    BY DEF Launch, HeadIs, TypesInv, QueueTypes
  <2>2. Head(hw[q]) \in PacketOf(q) /\ Head(hw[q]) = hw[q][1] /\ 1 \in DOMAIN hw[q]
    BY <2>1
  <2>3. Head(hw[q])[2] \in 1 .. MaxKernels[q] /\ Head(hw[q])[2] <= written[q]
    BY <2>1, <2>2 DEF PacketOf, Ordering
  <2>4. kernels[<<q, Head(hw[q])[2]>>].at = "queued"
    BY <2>1, <2>2 DEF TypesInv, PlaceInv
  <2>5. QED
    BY <2>3, <2>4, InKernels
<1>3. kernels' = [kernels EXCEPT ![k].at = "running"]
  BY <1>2 DEF Launch
<1>4. kernels'[k] = [kernels[k] EXCEPT !.at = "running"] /\ Same(k)
  BY <1>1, <1>3 DEF Same
<1>5. kernels' \in [Kernels -> KernelRecord]
  BY <1>1, <1>3 DEF KernelRecord, Live
<1>6. From(k, "queued", "running") /\ UNCHANGED Asked(k)
  <2>1. kernels[k] \in KernelRecord
    BY <1>1
  <2>2. QED
    BY <1>2, <1>4, <2>1, AtSet DEF From, Asked
<1>7. QED
  BY <1>2, <1>4, <1>5, <1>6

\* A kernel ends: its handler runs, or it is gone when nobody tracks it any more.
LEMMA CompleteEffect ==
  ASSUME TypesInv, NEW k \in Kernels, Complete(k)
  PROVE  /\ Same(k) /\ kernels' \in [Kernels -> KernelRecord]
         /\ \/ From(k, "running", "handled") /\ kernels[k].tracked
            \/ From(k, "running", "gone") /\ (kernels[k].tracked => fini = "finalized")
         /\ UNCHANGED Asked(k)
<1>1. kernels \in [Kernels -> KernelRecord]
  BY DEF TypesInv, KernelTypes
<1>2. PICK a \in {"handled", "gone"} :
        /\ kernels' = [kernels EXCEPT ![k].at = a]
        /\ a = "handled" => kernels[k].tracked
        /\ a = "gone" => (kernels[k].tracked => fini = "finalized")
  BY DEF Complete
<1>3. kernels'[k] = [kernels[k] EXCEPT !.at = a] /\ Same(k)
  BY <1>1, <1>2 DEF Same
<1>4. kernels' \in [Kernels -> KernelRecord]
  BY <1>1, <1>2 DEF KernelRecord, Live
<1>5. kernels'[k].at = a /\ kernels[k].at = "running" /\ UNCHANGED Asked(k)
  <2>1. kernels[k] \in KernelRecord
    BY <1>1
  <2>2. kernels'[k].at = a /\ UNCHANGED Asked(k)
    BY <1>3, <2>1, AtSet DEF Asked
  <2>3. kernels[k].at = "running"
    BY DEF Complete
  <2>4. QED
    BY <2>2, <2>3
<1>6. QED
  BY <1>2, <1>3, <1>4, <1>5 DEF From

\* A context's completion registers: one less is to do.
LEMMA CompletionEffect ==
  ASSUME TypesInv, NEW k \in Kernels, NEW c \in Contexts, KernelCompletion(k, c)
  PROVE  /\ Same(k) /\ kernels' \in [Kernels -> KernelRecord]
         /\ From(k, "handled", "handled") /\ kernels'[k].tracked = kernels[k].tracked
         /\ c \in kernels[k].todo /\ kernels'[k].todo = kernels[k].todo \ {c}
         /\ kernels'[k].turns = kernels[k].turns /\ kernels'[k].epoch = kernels[k].epoch
<1>1. kernels \in [Kernels -> KernelRecord] /\ kernels[k] \in KernelRecord
  BY DEF TypesInv, KernelTypes
<1>2. /\ kernels' = [kernels EXCEPT ![k].todo = @ \ {c}]
      /\ c \in kernels[k].todo /\ kernels[k].at = "handled"
  BY DEF KernelCompletion
<1>3. Same(k) /\ kernels' \in [Kernels -> KernelRecord]
  BY <1>1, <1>2 DEF Same, KernelRecord, Live
<1>4. kernels'[k] = [kernels[k] EXCEPT !.todo = @ \ {c}]
  BY <1>1, <1>2
<1>5. QED
  BY <1>1, <1>2, <1>3, <1>4 DEF From, KernelRecord

\* The handler of a kernel ends when nothing is to do.
LEMMA AsyncEffect ==
  ASSUME TypesInv, NEW k \in Kernels, AsyncComplete(k)
  PROVE  /\ Same(k) /\ kernels' \in [Kernels -> KernelRecord]
         /\ From(k, "handled", "gone") /\ UNCHANGED Asked(k) /\ kernels[k].todo = {}
<1>1. kernels \in [Kernels -> KernelRecord] /\ kernels[k] \in KernelRecord
  BY DEF TypesInv, KernelTypes
<1>2. /\ kernels' = [kernels EXCEPT ![k].at = "gone"]
      /\ kernels[k].todo = {} /\ kernels[k].at = "handled"
  BY DEF AsyncComplete
<1>3. Same(k) /\ kernels' \in [Kernels -> KernelRecord]
  BY <1>1, <1>2 DEF Same, KernelRecord, Live
<1>4. kernels'[k] = [kernels[k] EXCEPT !.at = "gone"]
  BY <1>1, <1>2
<1>5. QED
  BY <1>1, <1>2, <1>3, <1>4, AtSet DEF From, Asked

\* The kernels change one at a time, in these steps.
OtherStep(q) == Destroy(q) \/ PassBarrier(q) \/ PassReady(q) \/ PassBlock(q) \/ QueueReady(q)

\* The other steps of a queue leave the kernels alone.
LEMMA OthersKeepKernels ==
  ASSUME NEW q \in Queues, OtherStep(q)
  PROVE  UNCHANGED kernels
BY Zenon DEF OtherStep, Destroy, PassBarrier, PassReady, PassBlock, QueueReady

\* The last phase of finalization is not left.
LEMMA FiniMoves ==
  ASSUME Next, TypesInv
  PROVE  fini = "finalized" => fini' = "finalized"
<1> USE DEF toolVars
<1>1. ASSUME ToolStep PROVE fini = "finalized" => fini' = "finalized"
  <2>1. CASE FinalizeBegin \/ FinalizeEnd
    BY <2>1 DEF FinalizeBegin, FinalizeEnd
  <2>2. CASE (\E c \in Contexts : Start(c)) \/ Stop \/ Tool
    BY <2>2, Zenon DEF Start, Stop, Tool, Switch, SwitchNothing, SwitchBegin, CountQueue, RecountQueue,
                       SwitchEnd, Mark, Install, Started, Sync
  <2>3. QED
    BY <1>1, <2>1, <2>2 DEF ToolStep
<1>2. ASSUME NEW q \in Queues,
             \/ WriteDirectly(q) \/ InterceptBegin(q) \/ Destroy(q) \/ AddSerialization(q) \/ Submit(q)
             \/ PassBarrier(q) \/ PassReady(q) \/ PassBlock(q) \/ Launch(q) \/ QueueReady(q)
             \/ \E c \in Contexts : AskContext(q, c)
      PROVE  fini' = fini
  BY <1>2, Zenon DEF WriteDirectly, InterceptBegin, Destroy, AddSerialization, Submit, PassBarrier,
                     PassReady, PassBlock, Launch, QueueReady, AskContext
<1>3. ASSUME NEW k \in Kernels,
             Complete(k) \/ AsyncComplete(k) \/ \E c \in Contexts : KernelCompletion(k, c)
      PROVE  fini' = fini
  BY <1>3, Zenon DEF Complete, AsyncComplete, KernelCompletion
<1>4. QED
  BY <1>1, <1>2, <1>3, Steps, Zenon

\* Kernels keep their types.
LEMMA KernelTypesStep ==
  ASSUME TypesInv, Next
  PROVE  KernelTypes'
<1>0. KernelTypes /\ (fini = "finalized" => fini' = "finalized")
  BY FiniMoves DEF TypesInv
<1>1. ASSUME NEW k \in Kernels, Same(k), kernels' \in [Kernels -> KernelRecord], Sane(kernels[k])'
      PROVE  KernelTypes'
  <2>1. ASSUME NEW j \in Kernels PROVE Sane(kernels[j])'
    <3>1. CASE j = k
      BY <1>1, <3>1
    <3>2. CASE j # k
      <4>1. kernels'[j] = kernels[j]
        BY <1>1, <3>2 DEF Same
      <4>2. QED
        BY <1>0, <4>1 DEF KernelTypes, Sane
    <3>3. QED
      BY <3>1, <3>2
  <2>2. QED
    BY <1>1, <2>1 DEF KernelTypes
<1>2. ASSUME NEW q \in Queues, WriteDirectly(q) PROVE KernelTypes'
  <2>1. PICK k \in Kernels :
           /\ Same(k) /\ kernels' \in [Kernels -> KernelRecord]
           /\ From(k, "none", "queued") /\ UNCHANGED Asked(k) /\ kernels[k] = NoKernel
    BY <1>2, WriteEffect
  <2>2. Sane(kernels[k])'
    BY <2>1 DEF From, Asked, NoKernel, Sane
  <2>3. QED
    BY <1>1, <2>1, <2>2
<1>3. ASSUME NEW q \in Queues, InterceptBegin(q) PROVE KernelTypes'
  <2>1. PICK k \in Kernels :
           /\ Same(k) /\ kernels' \in [Kernels -> KernelRecord]
           /\ kernels'[k] = [NoKernel EXCEPT !.at = "started", !.tracked = TRUE]
    BY <1>3, InterceptEffect
  <2>2. Sane(kernels[k])'
    BY <2>1 DEF NoKernel, Sane
  <2>3. QED
    BY <1>1, <2>1, <2>2
<1>4. ASSUME NEW q \in Queues, NEW c \in Contexts, AskContext(q, c) PROVE KernelTypes'
  <2>1. PICK k \in Kernels :
           /\ Same(k) /\ kernels' \in [Kernels -> KernelRecord]
           /\ From(k, "started", "started") /\ UNCHANGED Asked(k)
    BY <1>4, AskEffect
  <2>2. Sane(kernels[k])'
    BY <1>0, <2>1 DEF From, Asked, Sane, KernelTypes
  <2>3. QED
    BY <1>1, <2>1, <2>2
<1>5. ASSUME NEW q \in Queues, AddSerialization(q) PROVE KernelTypes'
  <2>1. PICK k \in Kernels :
           /\ Same(k) /\ kernels' \in [Kernels -> KernelRecord]
           /\ From(k, "started", "started") /\ kernels'[k].tracked = kernels[k].tracked
           /\ asking[q] \in Contexts /\ kernels'[k].todo = kernels[k].todo \cup {asking[q]}
    BY <1>5, PackEffect
  <2>2. Sane(kernels[k])'
    BY <1>0, <2>1 DEF From, Sane, KernelTypes
  <2>3. QED
    BY <1>1, <2>1, <2>2
<1>6. ASSUME NEW q \in Queues, Submit(q) PROVE KernelTypes'
  <2>1. PICK k \in Kernels :
           /\ Same(k) /\ kernels' \in [Kernels -> KernelRecord]
           /\ From(k, "started", "queued") /\ UNCHANGED Asked(k)
    BY <1>6, SubmitEffect
  <2>2. Sane(kernels[k])'
    BY <1>0, <2>1 DEF From, Asked, Sane, KernelTypes
  <2>3. QED
    BY <1>1, <2>1, <2>2
<1>7. ASSUME NEW q \in Queues, Launch(q) PROVE KernelTypes'
  <2>1. PICK k \in Kernels :
           /\ Same(k) /\ kernels' \in [Kernels -> KernelRecord]
           /\ From(k, "queued", "running") /\ UNCHANGED Asked(k)
    BY <1>7, LaunchEffect
  <2>2. Sane(kernels[k])'
    BY <1>0, <2>1 DEF From, Asked, Sane, KernelTypes
  <2>3. QED
    BY <1>1, <2>1, <2>2
<1>8. ASSUME NEW k \in Kernels, Complete(k) PROVE KernelTypes'
  <2>1. /\ Same(k) /\ kernels' \in [Kernels -> KernelRecord]
        /\ \/ From(k, "running", "handled") /\ kernels[k].tracked
           \/ From(k, "running", "gone") /\ (kernels[k].tracked => fini = "finalized")
        /\ UNCHANGED Asked(k)
    BY <1>8, CompleteEffect
  <2>2. Sane(kernels[k])'
    BY <1>0, <2>1 DEF From, Asked, Sane, KernelTypes
  <2>3. QED
    BY <1>1, <2>1, <2>2
<1>9. ASSUME NEW k \in Kernels, NEW c \in Contexts, KernelCompletion(k, c) PROVE KernelTypes'
  <2>1. /\ Same(k) /\ kernels' \in [Kernels -> KernelRecord]
        /\ From(k, "handled", "handled") /\ kernels'[k].tracked = kernels[k].tracked
    BY <1>9, CompletionEffect
  <2>2. Sane(kernels[k])'
    BY <1>0, <2>1 DEF From, Sane, KernelTypes
  <2>3. QED
    BY <1>1, <2>1, <2>2
<1>10. ASSUME NEW k \in Kernels, AsyncComplete(k) PROVE KernelTypes'
  <2>1. /\ Same(k) /\ kernels' \in [Kernels -> KernelRecord]
        /\ From(k, "handled", "gone") /\ UNCHANGED Asked(k) /\ kernels[k].todo = {}
    BY <1>10, AsyncEffect
  <2>2. Sane(kernels[k])'
    BY <2>1 DEF From, Asked, Sane
  <2>3. QED
    BY <1>1, <2>1, <2>2
<1>11. ASSUME UNCHANGED kernels PROVE KernelTypes'
  BY <1>0, <1>11 DEF KernelTypes, Sane
<1>12. QED
  BY <1>2, <1>3, <1>4, <1>5, <1>6, <1>7, <1>8, <1>9, <1>10, <1>11, Steps, ToolKeeps,
     OthersKeepKernels, Zenon DEF OtherStep

\* The completion of a kernel of q is registered with what clear_complete_barriers keeps.
Registered(q) == [i \in DOMAIN Clear(barriers) |-> RegisterCompletion(Clear(barriers)[i], q)]

\* What a completion makes of the barriers: those complete are cleared, the rest counts
\* it off.
LEMMA CompletionBarriers ==
  ASSUME TypesInv, NEW k \in Kernels, NEW c \in Contexts, KernelCompletion(k, c)
  PROVE  /\ barriers' = Registered(k[1]) /\ lifted' = lifted \cup Lifted(Registered(k[1]))
         /\ ~held /\ Registered(k[1]) \in Seq(Barrier)
<1>1. k[1] \in Queues
  BY KernelOf
<1>2. Clear(barriers) \in Seq(Barrier)
  BY Cleared DEF TypesInv, BarrierTypes
<1>3. \A i \in DOMAIN Clear(barriers) : Clear(barriers)[i] \in Barrier
  BY <1>2
<1>4. \A i \in DOMAIN Clear(barriers) : RegisterCompletion(Clear(barriers)[i], k[1]) \in Barrier
  BY <1>1, <1>3, RegisterTypes
<1>5. DOMAIN Clear(barriers) = 1 .. Len(Clear(barriers)) /\ Len(Clear(barriers)) \in Nat
  BY <1>2
<1>6. Registered(k[1]) \in [1 .. Len(Clear(barriers)) -> Barrier]
  BY <1>4, <1>5 DEF Registered
<1>7. Registered(k[1]) \in Seq(Barrier)
  BY <1>5, <1>6
<1>8. QED
  BY <1>7 DEF KernelCompletion, Registered

\* The ids of barriers that are complete.
LEMMA LiftedTypes ==
  ASSUME NEW bs \in Seq(Barrier)
  PROVE  Lifted(bs) \subseteq Nat /\ IsFiniteSet(Lifted(bs))
<1>1. Lifted(bs) \subseteq {} \cup {bs[i].id : i \in DOMAIN bs}
  BY DEF Lifted
<1>2. IsFiniteSet({} \cup {bs[i].id : i \in DOMAIN bs})
  BY IdsFinite, FS_EmptySet
<1>3. IsFiniteSet(Lifted(bs))
  BY <1>1, <1>2, FS_Subset
<1>4. ASSUME NEW i \in DOMAIN bs PROVE bs[i].id \in Nat
  <2>1. bs[i] \in Barrier
    OBVIOUS
  <2>2. QED
    BY <2>1 DEF Barrier
<1>5. QED
  BY <1>1, <1>3, <1>4

\* Packing a kernel marks its queue at the last barrier, if at all.
LEMMA PackBarriers ==
  ASSUME TypesInv, NEW q \in Queues, AddSerialization(q)
  PROVE  /\ lifted' = lifted /\ ~held /\ barriers' \in Seq(Barrier)
         /\ DOMAIN barriers' = DOMAIN barriers /\ Len(barriers') = Len(barriers)
         /\ \A i \in DOMAIN barriers :
              \/ barriers'[i] = barriers[i] /\ (Transition(q) => i # Len(barriers))
              \/ /\ i = Len(barriers) /\ Transition(q)
                 /\ barriers'[i] = [barriers[i] EXCEPT !.enqueued = @ \cup {q}]
<1> DEFINE n == Len(barriers)
<1>1. barriers \in Seq(Barrier) /\ n \in Nat /\ DOMAIN barriers = 1 .. n
  BY DEF TypesInv, BarrierTypes
<1>2. lifted' = lifted /\ ~held
  BY DEF AddSerialization
<1>3. CASE ~Transition(q)
  <2>1. barriers' = barriers
    BY <1>3 DEF AddSerialization
  <2>2. QED
    BY <1>1, <1>2, <1>3, <2>1
<1>4. CASE Transition(q)
  <2>1. barriers' = [barriers EXCEPT ![n].enqueued = @ \cup {q}]
    BY <1>4 DEF AddSerialization
  <2>2. barriers # << >>
    BY <1>4 DEF Transition
  <2>3. n \in DOMAIN barriers
    BY <1>1, <2>2
  <2> DEFINE b == [barriers[n] EXCEPT !.enqueued = @ \cup {q}]
  <2>4. b \in Barrier
    <3>1. barriers[n] \in Barrier
      BY <1>1, <2>3
    <3>2. barriers[n].enqueued \cup {q} \in SUBSET Queues
      BY <3>1 DEF Barrier
    <3>3. QED
      BY <3>1, <3>2 DEF Barrier
  <2>5. /\ DOMAIN barriers' = DOMAIN barriers
        /\ \A i \in DOMAIN barriers : barriers'[i] = IF i = n THEN b ELSE barriers[i]
    BY <1>1, <2>1
  <2>6. barriers' = [barriers EXCEPT ![n] = b]
    BY <2>1
  <2>7. barriers' \in Seq(Barrier) /\ Len(barriers') = n
    BY <1>1, <2>3, <2>4, <2>6
  <2>8. QED
    BY <1>2, <1>4, <2>5, <2>7
<1>5. QED
  BY <1>3, <1>4

\* A new barrier goes behind those that are kept.
LEMMA BeginBarriers ==
  ASSUME TypesInv, SwitchBegin
  PROVE  /\ barriers' = Append(Clear(barriers), NewBarrier(LastId + 1, Old)) /\ lifted' = lifted
         /\ Clear(barriers) \in Seq(Barrier) /\ NewBarrier(LastId + 1, Old) \in Barrier
         /\ barriers' \in Seq(Barrier)
<1>1. LastId \in Nat
  BY LastIdType DEF TypesInv
<1>2. NoneWaiting \in [{} -> Int] /\ {} \in SUBSET Queues
  BY DEF NoneWaiting
<1>3. NoneWaiting \in UNION {[S -> Int] : S \in SUBSET Queues}
  BY <1>2
<1>4. Old \in {"enabled", "disabled"}
  BY DEF Old
<1>5. NewBarrier(LastId + 1, Old) \in Barrier
  BY <1>1, <1>3, <1>4 DEF NewBarrier, Barrier
<1>6. Clear(barriers) \in Seq(Barrier)
  BY Cleared DEF TypesInv, BarrierTypes
<1>7. QED
  BY <1>5, <1>6 DEF SwitchBegin

\* The count of a queue is stored in the last barrier.
Counted(b, q, n) ==
  [b EXCEPT !.waiting = [p \in DOMAIN @ \cup {q} |-> IF p = q THEN n ELSE @[p]]]

\* What the count of a queue makes of the last barrier; the others stay.
LEMMA RecountBarriers ==
  ASSUME TypesInv, RecountQueue
  PROVE  /\ lifted' = lifted /\ counting \in Queues /\ Len(barriers) \in DOMAIN barriers
         /\ barriers' \in Seq(Barrier) /\ Len(barriers') = Len(barriers)
         /\ DOMAIN barriers' = DOMAIN barriers
         /\ \A i \in DOMAIN barriers :
              barriers'[i] = IF i = Len(barriers) THEN Counted(barriers[i], counting, active[counting])
                             ELSE barriers[i]
<1> DEFINE n == Len(barriers)
           b == Counted(barriers[n], counting, active[counting])
<1>1. barriers \in Seq(Barrier) /\ n \in Nat /\ DOMAIN barriers = 1 .. n
  BY DEF TypesInv, BarrierTypes
<1>2. counting \in Queues /\ barriers # << >>
  BY DEF RecountQueue, TypesInv, ToolTypes
<1>3. n \in DOMAIN barriers
  BY <1>1, <1>2
<1>4. active[counting] \in Int
  BY <1>2 DEF TypesInv, ActiveInv
<1>5. barriers[n] \in Barrier
  BY <1>1, <1>3
<1>6. b \in Barrier
  <2>1. PICK S \in SUBSET Queues : barriers[n].waiting \in [S -> Int]
    BY <1>5 DEF Barrier
  <2> DEFINE w == [p \in DOMAIN barriers[n].waiting \cup {counting} |->
                     IF p = counting THEN active[counting] ELSE barriers[n].waiting[p]]
  <2>2. w \in [S \cup {counting} -> Int] /\ S \cup {counting} \in SUBSET Queues
    BY <1>2, <1>4, <2>1
  <2>3. w \in UNION {[R -> Int] : R \in SUBSET Queues}
    BY <2>2
  <2>4. b = [barriers[n] EXCEPT !.waiting = w]
    BY DEF Counted
  <2>5. QED
    BY <1>5, <2>3, <2>4 DEF Barrier
<1>7. barriers' = [barriers EXCEPT ![n] = b]
  BY DEF RecountQueue, Counted
<1>8. lifted' = lifted
  BY DEF RecountQueue
<1>9. QED
  BY <1>1, <1>2, <1>3, <1>6, <1>7, <1>8

\* The other steps leave barriers and what is lifted alone.
LEMMA BarriersKept ==
  ASSUME Next
  PROVE  \/ UNCHANGED <<barriers, lifted>>
         \/ \E q \in Queues : AddSerialization(q)
         \/ \E k \in Kernels, c \in Contexts : KernelCompletion(k, c)
         \/ SwitchBegin \/ RecountQueue \/ SwitchEnd
<1> USE DEF serializerVars
<1>1. ASSUME NEW q \in Queues,
             \/ WriteDirectly(q) \/ InterceptBegin(q) \/ Destroy(q) \/ Submit(q)
             \/ PassBarrier(q) \/ PassReady(q) \/ PassBlock(q) \/ Launch(q) \/ QueueReady(q)
             \/ \E c \in Contexts : AskContext(q, c)
      PROVE  UNCHANGED <<barriers, lifted>>
  BY <1>1, Zenon DEF WriteDirectly, InterceptBegin, Destroy, Submit, PassBarrier, PassReady, PassBlock,
                     Launch, QueueReady, AskContext
<1>2. ASSUME NEW k \in Kernels, Complete(k) \/ AsyncComplete(k)
      PROVE  UNCHANGED <<barriers, lifted>>
  BY <1>2, Zenon DEF Complete, AsyncComplete
<1>3. ASSUME ToolStep
      PROVE  UNCHANGED <<barriers, lifted>> \/ SwitchBegin \/ RecountQueue \/ SwitchEnd
  BY <1>3, Zenon DEF ToolStep, Start, Stop, FinalizeBegin, FinalizeEnd, Tool, Switch, SwitchNothing,
                     CountQueue, Mark, Install, Sync, Started
<1>4. QED
  BY <1>1, <1>2, <1>3, Steps, Zenon

\* Barriers keep their types.
LEMMA BarrierTypesStep ==
  ASSUME TypesInv, Next
  PROVE  BarrierTypes'
<1>0. BarrierTypes
  BY DEF TypesInv
<1>1. CASE UNCHANGED <<barriers, lifted>>
  BY <1>0, <1>1 DEF BarrierTypes
<1>2. ASSUME NEW q \in Queues, AddSerialization(q) PROVE BarrierTypes'
  BY <1>0, <1>2, PackBarriers DEF BarrierTypes
<1>3. ASSUME NEW k \in Kernels, NEW c \in Contexts, KernelCompletion(k, c) PROVE BarrierTypes'
  <2>1. /\ barriers' = Registered(k[1]) /\ lifted' = lifted \cup Lifted(Registered(k[1]))
        /\ Registered(k[1]) \in Seq(Barrier)
    BY <1>3, CompletionBarriers
  <2>2. Lifted(Registered(k[1])) \subseteq Nat /\ IsFiniteSet(Lifted(Registered(k[1])))
    BY <2>1, LiftedTypes
  <2>3. IsFiniteSet(lifted')
    BY <1>0, <2>1, <2>2, FS_Union DEF BarrierTypes
  <2>4. QED
    BY <1>0, <2>1, <2>2, <2>3 DEF BarrierTypes
<1>4. CASE SwitchBegin
  BY <1>0, <1>4, BeginBarriers DEF BarrierTypes
<1>5. CASE RecountQueue
  BY <1>0, <1>5, RecountBarriers DEF BarrierTypes
<1>6. CASE SwitchEnd
  <2>1. barriers' = barriers /\ barriers # << >> /\ barriers \in Seq(Barrier)
    BY <1>0, <1>6 DEF SwitchEnd, TypesInv, ToolTypes, BarrierTypes
  <2>2. lifted' \in {lifted, lifted \cup {Last(barriers).id}}
    BY <1>6 DEF SwitchEnd
  <2>3. Last(barriers).id \in Nat
    <3>1. Last(barriers) \in Barrier
      BY <2>1 DEF Last
    <3>2. QED
      BY <3>1 DEF Barrier
  <2>4. IsFiniteSet(lifted \cup {Last(barriers).id})
    BY <1>0, FS_AddElement DEF BarrierTypes
  <2>5. QED
    BY <1>0, <2>1, <2>2, <2>3, <2>4 DEF BarrierTypes
<1>7. QED
  BY <1>1, <1>2, <1>3, <1>4, <1>5, <1>6, BarriersKept

-----------------------------------------------------------------------------
\* Kernels are written one after the other, and none changes before.
LEMMA FreshKept ==
  ASSUME TypesInv, NEW k \in Kernels, Same(k), k[2] <= written'[k[1]],
         \A q \in Queues : written'[q] >= written[q] /\ written'[q] \in Nat
  PROVE  FreshInv'
<1> SUFFICES ASSUME NEW j \in Kernels, j[2] > written'[j[1]] PROVE kernels'[j] = NoKernel
  BY DEF FreshInv
<1>1. j # k /\ j[1] \in Queues /\ j[2] \in Nat
  BY KernelOf
<1>2. j[2] > written[j[1]]
  BY <1>1 DEF TypesInv, QueueTypes
<1>3. QED
  BY <1>1, <1>2 DEF Same, TypesInv, FreshInv

\* Only a write counts a kernel.
LEMMA WrittenMoves ==
  ASSUME TypesInv, Next
  PROVE  \/ written' = written
         \/ \E q \in Queues : /\ written' = [written EXCEPT ![q] = @ + 1]
                              /\ WriteDirectly(q) \/ InterceptBegin(q)
<1>1. ASSUME NEW q \in Queues, NEW c \in Contexts,
             \/ Destroy(q) \/ AddSerialization(q) \/ Submit(q)
             \/ PassBarrier(q) \/ PassReady(q) \/ PassBlock(q) \/ Launch(q) \/ QueueReady(q)
             \/ AskContext(q, c)
      PROVE  written' = written
  BY <1>1, Zenon DEF Destroy, AddSerialization, Submit, PassBarrier, PassReady, PassBlock, Launch,
                     QueueReady, AskContext, threadVars
<1>2. ASSUME NEW q \in Queues,
             \/ Destroy(q) \/ AddSerialization(q) \/ Submit(q)
             \/ PassBarrier(q) \/ PassReady(q) \/ PassBlock(q) \/ Launch(q) \/ QueueReady(q)
      PROVE  written' = written
  BY <1>2, Zenon DEF Destroy, AddSerialization, Submit, PassBarrier, PassReady, PassBlock, Launch,
                     QueueReady, threadVars
<1>3. ASSUME NEW k \in Kernels, NEW c \in Contexts, KernelCompletion(k, c)
      PROVE  written' = written
  BY <1>3, Zenon DEF KernelCompletion, threadVars
<1>4. ASSUME NEW k \in Kernels, Complete(k) \/ AsyncComplete(k)
      PROVE  written' = written
  BY <1>4, Zenon DEF Complete, AsyncComplete, threadVars
<1>5. ASSUME NEW q \in Queues, WriteDirectly(q) \/ InterceptBegin(q)
      PROVE  written' = [written EXCEPT ![q] = @ + 1]
  BY <1>5, Zenon DEF WriteDirectly, InterceptBegin
<1>6. QED
  BY <1>1, <1>2, <1>3, <1>4, <1>5, Steps, ToolKeeps, Zenon

\* The kernels that are not written yet stay untouched.
LEMMA FreshStep ==
  ASSUME TypesInv, Next
  PROVE  FreshInv'
<1>0. written \in [Queues -> Nat] /\ FreshInv
  BY DEF TypesInv, QueueTypes
<1>1. \A q \in Queues : written'[q] \in Nat /\ written'[q] >= written[q]
  BY <1>0, WrittenMoves
<1>2. ASSUME NEW q \in Queues, WriteDirectly(q) \/ InterceptBegin(q) PROVE FreshInv'
  <2>1. PICK k \in Kernels : Same(k) /\ k[1] = q /\ k[2] = written[q] + 1
    BY <1>2, WriteEffect, InterceptEffect
  <2>2. written'[q] = written[q] + 1
    BY <1>0, <1>2 DEF WriteDirectly, InterceptBegin
  <2>3. k[2] <= written'[k[1]]
    BY <1>0, <2>1, <2>2
  <2>4. QED
    BY <1>1, <2>1, <2>3, FreshKept
<1>3. ASSUME NEW q \in Queues, (\E c \in Contexts : AskContext(q, c)) \/ AddSerialization(q) \/ Submit(q)
      PROVE  FreshInv'
  <2>1. PICK k \in Kernels : Same(k) /\ k[1] = q /\ k[2] = written[q]
    BY <1>3, AskEffect, PackEffect, SubmitEffect
  <2>2. k[2] <= written'[k[1]]
    BY <1>0, <1>1, <2>1
  <2>3. QED
    BY <1>1, <2>1, <2>2, FreshKept
<1>4. ASSUME NEW q \in Queues, Launch(q) PROVE FreshInv'
  <2>1. PICK k \in Kernels : Same(k) /\ k[1] = q /\ k[2] <= written[q]
    BY <1>4, LaunchEffect
  <2>2. k[2] <= written'[k[1]]
    BY <1>0, <1>1, <2>1, KernelOf
  <2>3. QED
    BY <1>1, <2>1, <2>2, FreshKept
<1>5. ASSUME NEW k \in Kernels, Complete(k) \/ AsyncComplete(k) \/ \E c \in Contexts : KernelCompletion(k, c)
      PROVE  FreshInv'
  <2>1. Same(k)
    BY <1>5, CompleteEffect, AsyncEffect, CompletionEffect
  <2>2. kernels[k].at \in {"running", "handled"}
    BY <1>5 DEF Complete, AsyncComplete, KernelCompletion
  <2>3. k[1] \in Queues /\ k[2] \in Nat
    BY KernelOf
  <2>4. ~(k[2] > written[k[1]])
    BY <1>0, <2>2 DEF FreshInv, NoKernel
  <2>5. k[2] <= written'[k[1]]
    BY <1>0, <1>1, <2>3, <2>4
  <2>6. QED
    BY <1>1, <2>1, <2>5, FreshKept
<1>6. ASSUME UNCHANGED kernels PROVE FreshInv'
  <2>1. \A k \in Kernels : k[1] \in Queues /\ k[2] \in Nat
    BY KernelOf
  <2>2. QED
    BY <1>0, <1>1, <1>6, <2>1 DEF FreshInv
<1>7. QED
  BY <1>2, <1>3, <1>4, <1>5, <1>6, Steps, ToolKeeps, OthersKeepKernels, Zenon DEF OtherStep

\* Counts of kernels whose handler has not ended.
Out(k) == kernels[k].tracked /\ (kernels[k].at \in Live \/ kernels[k].todo # {})

\* The kernels of a queue that are not handled are finitely many.
LEMMA OutstandingFinite ==
  ASSUME NEW q \in Queues
  PROVE  IsFiniteSet(Outstanding(q)) /\ Cardinality(Outstanding(q)) \in Nat
<1>1. Outstanding(q) \subseteq KernelsOf(q)
  BY DEF Outstanding
<1>2. IsFiniteSet(Outstanding(q))
  BY <1>1, KernelsFinite, FS_Subset
<1>3. QED
  BY <1>2, FS_CardinalityType

\* A count of a queue stays a bound when no kernel becomes one to handle.
LEMMA ActiveKept ==
  ASSUME TypesInv, UNCHANGED active, \A k \in Kernels : Out(k)' => Out(k)
  PROVE  ActiveInv'
<1>1. active \in [Queues -> Nat] /\ \A q \in Queues : active[q] >= Cardinality(Outstanding(q))
  BY DEF TypesInv, ActiveInv
<1>2. ASSUME NEW q \in Queues PROVE active'[q] >= Cardinality(Outstanding(q)')
  <2>1. Outstanding(q)' \subseteq Outstanding(q)
    BY OfQueue DEF Outstanding, Out
  <2>2. Cardinality(Outstanding(q)') <= Cardinality(Outstanding(q)) /\ Cardinality(Outstanding(q)') \in Nat
    BY <2>1, OutstandingFinite, FS_Subset, FS_CardinalityType
  <2>3. QED
    BY <1>1, <2>2, OutstandingFinite
<1>3. QED
  BY <1>1, <1>2 DEF ActiveInv

\* The count of active kernels bounds those that are not handled.
LEMMA ActiveStep ==
  ASSUME TypesInv, Next
  PROVE  ActiveInv'
<1>0. /\ \A k \in Kernels : kernels[k] \in KernelRecord
      /\ active \in [Queues -> Nat] /\ \A q \in Queues : active[q] >= Cardinality(Outstanding(q))
  BY DEF TypesInv, KernelTypes, ActiveInv
<1>1. ASSUME NEW k \in Kernels, Same(k), UNCHANGED active, Out(k)' => Out(k)
      PROVE  ActiveInv'
  <2>1. \A j \in Kernels : Out(j)' => Out(j)
    BY <1>1 DEF Same, Out
  <2>2. QED
    BY <1>1, <2>1, ActiveKept
<1>2. ASSUME NEW q \in Queues, WriteDirectly(q) PROVE ActiveInv'
  <2>1. PICK k \in Kernels : Same(k) /\ UNCHANGED Asked(k) /\ kernels[k] = NoKernel
    BY <1>2, WriteEffect
  <2>2. active' = active
    BY <1>2 DEF WriteDirectly
  <2>3. ~Out(k)'
    BY <2>1 DEF Out, NoKernel, Asked
  <2>4. QED
    BY <1>1, <2>1, <2>2, <2>3
<1>3. ASSUME NEW q \in Queues, InterceptBegin(q) PROVE ActiveInv'
  <2>1. PICK k \in Kernels : Same(k) /\ k[1] = q
    BY <1>3, InterceptEffect
  <2>2. active' = [active EXCEPT ![q] = @ + 1]
    BY <1>3 DEF InterceptBegin
  <2>3. ASSUME NEW p \in Queues PROVE active'[p] >= Cardinality(Outstanding(p)')
    <3>1. \A j \in Kernels : j # k /\ Out(j)' => Out(j)
      BY <2>1 DEF Same, Out
    <3>2. CASE p = q
      <4>1. Outstanding(q)' \subseteq Outstanding(q) \cup {k}
        BY <3>1, OfQueue DEF Outstanding, Out
      <4>2. /\ IsFiniteSet(Outstanding(q) \cup {k})
            /\ Cardinality(Outstanding(q) \cup {k}) \in {Cardinality(Outstanding(q)), Cardinality(Outstanding(q)) + 1}
        BY OutstandingFinite, FS_AddElement
      <4>3. Cardinality(Outstanding(q)') <= Cardinality(Outstanding(q)) + 1
            /\ Cardinality(Outstanding(q)') \in Nat
        BY <4>1, <4>2, OutstandingFinite, FS_Subset, FS_CardinalityType
      <4>4. QED
        BY <1>0, <2>2, <3>2, <4>3, OutstandingFinite
    <3>3. CASE p # q
      <4>1. Outstanding(p)' \subseteq Outstanding(p)
        BY <2>1, <3>1, <3>3, OfQueue DEF Outstanding, Out
      <4>2. Cardinality(Outstanding(p)') <= Cardinality(Outstanding(p)) /\ Cardinality(Outstanding(p)') \in Nat
        BY <4>1, OutstandingFinite, FS_Subset, FS_CardinalityType
      <4>3. QED
        BY <1>0, <2>2, <3>3, <4>2, OutstandingFinite
    <3>4. QED
      BY <3>2, <3>3
  <2>4. QED
    BY <1>0, <2>2, <2>3 DEF ActiveInv
<1>4. ASSUME NEW q \in Queues, NEW c \in Contexts, AskContext(q, c) PROVE ActiveInv'
  <2>1. PICK k \in Kernels : Same(k) /\ From(k, "started", "started") /\ UNCHANGED Asked(k)
    BY <1>4, AskEffect
  <2>2. active' = active
    BY <1>4 DEF AskContext
  <2>3. Out(k)' => Out(k)
    BY <2>1 DEF Out, From, Asked
  <2>4. QED
    BY <1>1, <2>1, <2>2, <2>3
<1>5. ASSUME NEW q \in Queues, AddSerialization(q) \/ Submit(q) \/ Launch(q) PROVE ActiveInv'
  <2>1. PICK k \in Kernels : /\ Same(k) /\ kernels[k].at \in {"started", "queued"}
                             /\ kernels'[k].tracked = kernels[k].tracked
    BY <1>5, PackEffect, SubmitEffect, LaunchEffect DEF From, Asked
  <2>2. active' = active
    BY <1>5 DEF AddSerialization, Submit, Launch
  <2>3. Out(k)' => Out(k)
    BY <2>1 DEF Out, Live
  <2>4. QED
    BY <1>1, <2>1, <2>2, <2>3
<1>6. ASSUME NEW k \in Kernels, Complete(k) PROVE ActiveInv'
  <2>1. Same(k) /\ kernels[k].at = "running" /\ kernels'[k].tracked = kernels[k].tracked
    BY <1>6, CompleteEffect DEF From, Asked
  <2>2. active' = active
    BY <1>6 DEF Complete
  <2>3. Out(k)' => Out(k)
    BY <2>1 DEF Out, Live
  <2>4. QED
    BY <1>1, <2>1, <2>2, <2>3
<1>7. ASSUME NEW k \in Kernels, NEW c \in Contexts, KernelCompletion(k, c) PROVE ActiveInv'
  <2>1. Same(k) /\ kernels[k].at = "handled" /\ kernels'[k].tracked = kernels[k].tracked
    BY <1>7, CompletionEffect DEF From
  <2>2. active' = active
    BY <1>7 DEF KernelCompletion
  <2>3. Out(k)' => Out(k)
    BY <2>1 DEF Out, Live
  <2>4. QED
    BY <1>1, <2>1, <2>2, <2>3
<1>8. ASSUME NEW k \in Kernels, AsyncComplete(k) PROVE ActiveInv'
  <2>1. PICK q \in Queues : q = k[1] /\ k \in KernelsOf(q)
    BY KernelOf
  <2>2. Same(k) /\ From(k, "handled", "gone") /\ UNCHANGED Asked(k) /\ kernels[k].todo = {}
    BY <1>8, AsyncEffect
  <2>3. active' = [active EXCEPT ![q] = @ - 1]
    BY <1>8, <2>1 DEF AsyncComplete
  <2>4. kernels[k].tracked
    BY <2>2 DEF TypesInv, KernelTypes, Sane, From
  <2>5. ~Out(k)' /\ Out(k)
    BY <2>2, <2>4 DEF Out, Live, From, Asked
  <2>6. \A j \in Kernels : Out(j)' => Out(j) /\ j # k
    BY <2>2, <2>5 DEF Same, Out
  <2>7. ASSUME NEW p \in Queues
        PROVE  active'[p] \in Nat /\ active'[p] >= Cardinality(Outstanding(p)')
    <3>1. CASE p = q
      <4>1. Outstanding(q)' \subseteq Outstanding(q) \ {k} /\ k \in Outstanding(q)
        BY <2>1, <2>5, <2>6, OfQueue DEF Outstanding, Out
      <4>2. /\ IsFiniteSet(Outstanding(q) \ {k})
            /\ Cardinality(Outstanding(q) \ {k}) = Cardinality(Outstanding(q)) - 1
        BY <4>1, OutstandingFinite, FS_RemoveElement
      <4>3. Cardinality(Outstanding(q)') <= Cardinality(Outstanding(q)) - 1
            /\ Cardinality(Outstanding(q)') \in Nat
        BY <4>1, <4>2, FS_Subset, FS_CardinalityType
      <4>4. QED
        BY <1>0, <2>3, <3>1, <4>3, OutstandingFinite
    <3>2. CASE p # q
      <4>1. Outstanding(p)' \subseteq Outstanding(p)
        BY <2>6, OfQueue DEF Outstanding, Out
      <4>2. Cardinality(Outstanding(p)') <= Cardinality(Outstanding(p)) /\ Cardinality(Outstanding(p)') \in Nat
        BY <4>1, OutstandingFinite, FS_Subset, FS_CardinalityType
      <4>3. QED
        BY <1>0, <2>3, <3>2, <4>2, OutstandingFinite
    <3>3. QED
      BY <3>1, <3>2
  <2>8. QED
    BY <1>0, <2>3, <2>7 DEF ActiveInv
<1>9. ASSUME UNCHANGED <<kernels, active>> PROVE ActiveInv'
  BY <1>9, ActiveKept DEF Out
<1>10. ASSUME NEW q \in Queues, OtherStep(q) PROVE UNCHANGED active
  BY <1>10, Zenon DEF OtherStep, Destroy, PassBarrier, PassReady, PassBlock, QueueReady
<1>11. QED
  BY <1>2, <1>3, <1>4, <1>5, <1>6, <1>7, <1>8, <1>9, <1>10, Steps, ToolKeeps,
     OthersKeepKernels, Zenon DEF OtherStep

-----------------------------------------------------------------------------
\* A queue gets the packets b and a kernel, or loses its first packet.
Grows(q, b, n) ==
  /\ Len(hw'[q]) = Len(hw[q]) + Len(b) + 1
  /\ \A i \in 1 .. Len(hw[q]) : hw'[q][i] = hw[q][i]
  /\ \A i \in 1 .. Len(b) : hw'[q][Len(hw[q]) + i] = b[i]
  /\ hw'[q][Len(hw[q]) + Len(b) + 1] = <<"kernel", n>>
Shrinks(q) ==
  /\ Len(hw[q]) \in Nat \ {0} /\ Len(hw'[q]) = Len(hw[q]) - 1
  /\ \A i \in 1 .. Len(hw[q]) - 1 : hw'[q][i] = hw[q][i + 1]
OthersStay(q) == DOMAIN hw' = Queues /\ \A p \in Queues \ {q} : hw'[p] = hw[p]

\* The packets that were there, the new ones and the kernel.
LEMMA Appended ==
  ASSUME NEW S, NEW w \in Seq(S), NEW b \in Seq(S), NEW p \in S
  PROVE  LET v == w \o b \o <<p>>
         IN /\ v \in Seq(S) /\ Len(v) = Len(w) + Len(b) + 1
            /\ \A i \in 1 .. Len(w) : v[i] = w[i]
            /\ \A i \in 1 .. Len(b) : v[Len(w) + i] = b[i]
            /\ v[Len(w) + Len(b) + 1] = p
<1> DEFINE u == w \o b
           v == u \o <<p>>
<1>1. /\ u \in Seq(S) /\ Len(u) = Len(w) + Len(b)
      /\ \A i \in 1 .. Len(w) : u[i] = w[i]
      /\ \A i \in 1 .. Len(b) : u[Len(w) + i] = b[i]
  OBVIOUS
<1>2. Len(w) \in Nat /\ Len(b) \in Nat
  OBVIOUS
<1> HIDE DEF u
<1>3. /\ v \in Seq(S) /\ Len(v) = Len(u) + 1
      /\ \A i \in 1 .. Len(u) : v[i] = u[i]
      /\ v[Len(u) + 1] = p
  BY <1>1
<1>4. ASSUME NEW i \in 1 .. Len(w) PROVE v[i] = w[i]
  <2>1. i \in 1 .. Len(u)
    BY <1>1, <1>2
  <2>2. QED
    BY <1>1, <1>3, <2>1
<1>5. ASSUME NEW i \in 1 .. Len(b) PROVE v[Len(w) + i] = b[i]
  <2>1. Len(w) + i \in 1 .. Len(u)
    BY <1>1, <1>2
  <2>2. QED
    BY <1>1, <1>3, <2>1
<1>6. v = w \o b \o <<p>>
  BY DEF u
<1>7. QED
  BY <1>1, <1>2, <1>3, <1>4, <1>5, <1>6

\* A kernel that is not intercepted is added to its queue.
LEMMA WriteGrows ==
  ASSUME TypesInv, NEW q \in Queues, WriteDirectly(q)
  PROVE  /\ Grows(q, << >>, written[q] + 1) /\ OthersStay(q)
         /\ hw'[q] \in Seq(PacketOf(q)')
<1>1. /\ DOMAIN hw = Queues /\ hw[q] \in Seq(PacketOf(q)) /\ written \in [Queues -> Nat]
  BY DEF TypesInv, QueueTypes
<1>2. /\ written'[q] = written[q] + 1
      /\ hw' = [hw EXCEPT ![q] = Append(@, <<"kernel", written'[q]>>)]
      /\ written[q] < MaxKernels[q] /\ MaxKernels[q] \in Nat
  BY <1>1, SerializerAssumption DEF WriteDirectly
<1>3. PacketOf(q) \subseteq PacketOf(q)'
  BY <1>1, <1>2 DEF PacketOf
<1>4. <<"kernel", written[q] + 1>> \in PacketOf(q)'
  BY <1>1, <1>2 DEF PacketOf
<1> DEFINE w == hw[q]
           p == <<"kernel", written[q] + 1>>
<1>5. w \in Seq(PacketOf(q)')
  BY <1>1, <1>3
<1>6. hw'[q] = Append(w, p) /\ OthersStay(q)
  BY <1>1, <1>2 DEF OthersStay
<1>7. p \in PacketOf(q)'
  BY <1>4
<1>8. Grows(q, << >>, written[q] + 1) <=>
        /\ Len(hw'[q]) = Len(w) + 0 + 1
        /\ \A i \in 1 .. Len(w) : hw'[q][i] = w[i]
        /\ hw'[q][Len(w) + 0 + 1] = p
  BY DEF Grows
<1> HIDE DEF w, p
<1>9. /\ hw'[q] \in Seq(PacketOf(q)') /\ Len(hw'[q]) = Len(w) + 1 /\ Len(w) \in Nat
      /\ \A i \in 1 .. Len(w) : hw'[q][i] = w[i]
      /\ hw'[q][Len(w) + 1] = p
  BY <1>5, <1>6, <1>7
<1>10. QED
  BY <1>6, <1>8, <1>9

\* A packed kernel is added to its queue after its barriers and its turn.
LEMMA SubmitGrows ==
  ASSUME TypesInv, NEW q \in Queues, Submit(q)
  PROVE  /\ Grows(q, before[q], written[q]) /\ OthersStay(q)
         /\ hw'[q] \in Seq(PacketOf(q)')
<1>1. /\ DOMAIN hw = Queues /\ hw[q] \in Seq(PacketOf(q)) /\ written \in [Queues -> Nat]
      /\ before[q] \in Seq(Ordering)
  BY DEF TypesInv, QueueTypes
<1>2. /\ written' = written
      /\ hw' = [hw EXCEPT ![q] = @ \o before[q] \o <<<<"kernel", written[q]>>>>]
  BY DEF Submit
<1>3. PacketOf(q)' = PacketOf(q)
  BY <1>2 DEF PacketOf
<1>4. written[q] \in 1 .. MaxKernels[q]
  <2>1. PICK k \in Kernels : k[1] = q /\ k[2] = written[q]
    BY InHand DEF Submit, Packing
  <2>2. QED
    BY <2>1, KernelOf
<1>5. <<"kernel", written[q]>> \in PacketOf(q) /\ before[q] \in Seq(PacketOf(q))
  BY <1>1, <1>4 DEF PacketOf
<1>6. hw'[q] = hw[q] \o before[q] \o <<<<"kernel", written[q]>>>> /\ OthersStay(q)
  BY <1>1, <1>2 DEF OthersStay
<1> DEFINE v == hw[q] \o before[q] \o <<<<"kernel", written[q]>>>>
<1>7. /\ v \in Seq(PacketOf(q)) /\ Len(v) = Len(hw[q]) + Len(before[q]) + 1
      /\ \A i \in 1 .. Len(hw[q]) : v[i] = hw[q][i]
      /\ \A i \in 1 .. Len(before[q]) : v[Len(hw[q]) + i] = before[q][i]
      /\ v[Len(hw[q]) + Len(before[q]) + 1] = <<"kernel", written[q]>>
  <2>1. PICK S, w, b, p : /\ S = PacketOf(q) /\ w = hw[q] /\ b = before[q]
                          /\ p = <<"kernel", written[q]>>
    OBVIOUS
  <2>2. w \in Seq(S) /\ b \in Seq(S) /\ p \in S
    BY <1>1, <1>5, <2>1
  <2>3. /\ w \o b \o <<p>> \in Seq(S) /\ Len(w \o b \o <<p>>) = Len(w) + Len(b) + 1
        /\ \A i \in 1 .. Len(w) : (w \o b \o <<p>>)[i] = w[i]
        /\ \A i \in 1 .. Len(b) : (w \o b \o <<p>>)[Len(w) + i] = b[i]
        /\ (w \o b \o <<p>>)[Len(w) + Len(b) + 1] = p
    BY <2>2, Appended
  <2>4. QED
    BY <2>1, <2>3
<1>8. hw'[q] = v
  BY <1>6
<1> HIDE DEF v
<1>9. QED
  BY <1>3, <1>6, <1>7, <1>8 DEF Grows

PassStep(q) == PassBarrier(q) \/ PassReady(q) \/ PassBlock(q) \/ Launch(q)

\* The processor takes the packet at the head of its queue.
LEMMA PassShrinks ==
  ASSUME TypesInv, NEW q \in Queues, PassStep(q)
  PROVE  /\ Shrinks(q) /\ OthersStay(q) /\ hw'[q] \in Seq(PacketOf(q))
         /\ Head(hw[q]) = hw[q][1] /\ 1 \in DOMAIN hw[q]
<1>1. /\ DOMAIN hw = Queues /\ hw[q] \in Seq(PacketOf(q))
  BY DEF TypesInv, QueueTypes
<1>2. hw[q] # << >> /\ hw' = [hw EXCEPT ![q] = Tail(@)]
  BY Zenon DEF PassStep, PassBarrier, PassReady, PassBlock, Launch, HeadIs, Pop
<1>3. hw'[q] = Tail(hw[q]) /\ OthersStay(q)
  BY <1>1, <1>2 DEF OthersStay
<1>4. /\ Len(hw[q]) \in Nat \ {0} /\ Tail(hw[q]) \in Seq(PacketOf(q))
      /\ Len(Tail(hw[q])) = Len(hw[q]) - 1
      /\ \A i \in 1 .. Len(hw[q]) - 1 : Tail(hw[q])[i] = hw[q][i + 1]
      /\ Head(hw[q]) = hw[q][1] /\ 1 \in DOMAIN hw[q]
  BY <1>1, <1>2
<1>5. QED
  BY <1>3, <1>4 DEF Shrinks

\* The other steps leave the queues of packets alone.
LEMMA PacketsKept ==
  ASSUME Next
  PROVE  \/ hw' = hw
         \/ \E q \in Queues : WriteDirectly(q) \/ Submit(q) \/ PassStep(q)
<1>1. ASSUME NEW q \in Queues,
             \/ InterceptBegin(q) \/ Destroy(q) \/ AddSerialization(q) \/ QueueReady(q)
             \/ \E c \in Contexts : AskContext(q, c)
      PROVE  hw' = hw
  BY <1>1, Zenon DEF InterceptBegin, Destroy, AddSerialization, QueueReady, AskContext
<1>2. ASSUME NEW k \in Kernels,
             Complete(k) \/ AsyncComplete(k) \/ \E c \in Contexts : KernelCompletion(k, c)
      PROVE  hw' = hw
  BY <1>2, Zenon DEF Complete, AsyncComplete, KernelCompletion
<1>3. QED
  BY <1>1, <1>2, Steps, ToolKeeps, Zenon DEF PassStep

\* What happens to a queue's thread.
LEMMA ThreadMoves ==
  ASSUME Next
  PROVE  \/ UNCHANGED <<pc, written, before, asking>>
         \/ \E q \in Queues : UNCHANGED <<pc, before, asking>> /\ WriteDirectly(q)
         \/ \E q \in Queues : InterceptBegin(q) \/ AddSerialization(q) \/ Submit(q) \/ Destroy(q)
         \/ \E q \in Queues, c \in Contexts : AskContext(q, c)
<1> USE DEF threadVars
<1>1. ASSUME NEW q \in Queues, PassStep(q) \/ QueueReady(q)
      PROVE  UNCHANGED <<pc, written, before, asking>>
  BY <1>1, Zenon DEF PassStep, PassBarrier, PassReady, PassBlock, Launch, QueueReady
<1>2. ASSUME NEW k \in Kernels,
             Complete(k) \/ AsyncComplete(k) \/ \E c \in Contexts : KernelCompletion(k, c)
      PROVE  UNCHANGED <<pc, written, before, asking>>
  BY <1>2, Zenon DEF Complete, AsyncComplete, KernelCompletion
<1>3. ASSUME NEW q \in Queues, WriteDirectly(q)
      PROVE  UNCHANGED <<pc, before, asking>>
  BY <1>3, Zenon DEF WriteDirectly
<1>4. QED
  BY <1>1, <1>2, <1>3, Steps, ToolKeeps, Zenon DEF PassStep

\* The queues hold packets of their types.
LEMMA QueueTypesStep ==
  ASSUME TypesInv, Next
  PROVE  QueueTypes'
<1>0. /\ DOMAIN hw = Queues /\ \A q \in Queues : hw[q] \in Seq(PacketOf(q))
      /\ before \in [Queues -> Seq(Ordering)] /\ written \in [Queues -> Nat]
      /\ pc \in [Queues -> {"idle", "ask", "pack", "destroyed"}]
      /\ asking \in [Queues -> Contexts \cup {NoContext}]
      /\ \A q \in Queues : pc[q] = "pack" => asking[q] \in Contexts
      /\ \A q \in Queues : pc[q] \in {"ask", "pack"} => <<q, written[q]>> \in Kernels
  BY DEF TypesInv, QueueTypes
<1>1. /\ written' \in [Queues -> Nat] /\ \A q \in Queues : written'[q] >= written[q]
  <2>1. CASE written' = written
    BY <1>0, <2>1
  <2>2. ASSUME NEW q \in Queues, written' = [written EXCEPT ![q] = @ + 1]
        PROVE  /\ written' \in [Queues -> Nat] /\ \A p \in Queues : written'[p] >= written[p]
    BY <1>0, <2>2
  <2>3. QED
    BY <2>1, <2>2, WrittenMoves
<1>2. \A q \in Queues : Seq(PacketOf(q)) \subseteq Seq(PacketOf(q)')
  <2>1. ASSUME NEW q \in Queues PROVE PacketOf(q) \subseteq PacketOf(q)'
    BY <1>0, <1>1 DEF PacketOf
  <2>2. QED
    BY <2>1
<1>3. DOMAIN hw' = Queues /\ \A q \in Queues : hw'[q] \in Seq(PacketOf(q)')
  <2>1. CASE hw' = hw
    BY <1>0, <1>2, <2>1
  <2>2. ASSUME NEW q \in Queues, WriteDirectly(q) \/ Submit(q) \/ PassStep(q)
        PROVE  DOMAIN hw' = Queues /\ \A p \in Queues : hw'[p] \in Seq(PacketOf(p)')
    <3>1. OthersStay(q)
      BY <2>2, WriteGrows, SubmitGrows, PassShrinks
    <3>2. hw'[q] \in Seq(PacketOf(q)')
      BY <1>2, <2>2, WriteGrows, SubmitGrows, PassShrinks
    <3>3. ASSUME NEW p \in Queues, p # q PROVE hw'[p] \in Seq(PacketOf(p)')
      BY <1>0, <1>2, <3>1, <3>3 DEF OthersStay
    <3>4. QED
      BY <3>1, <3>2, <3>3 DEF OthersStay
  <2>3. QED
    BY <2>1, <2>2, PacketsKept
<1>4. ASSUME UNCHANGED <<pc, written, before, asking>> PROVE QueueTypes'
  BY <1>0, <1>3, <1>4 DEF QueueTypes
<1>5. ASSUME NEW q \in Queues, UNCHANGED <<pc, before, asking>>, WriteDirectly(q) PROVE QueueTypes'
  <2>1. pc[q] = "idle" /\ written' = [written EXCEPT ![q] = @ + 1]
    BY <1>5 DEF WriteDirectly
  <2>2. QED
    BY <1>0, <1>1, <1>3, <1>5, <2>1 DEF QueueTypes
<1>6. ASSUME NEW q \in Queues, InterceptBegin(q) PROVE QueueTypes'
  <2>1. /\ written' = [written EXCEPT ![q] = @ + 1] /\ pc' = [pc EXCEPT ![q] = "ask"]
        /\ before' = [before EXCEPT ![q] = << >>] /\ asking' = asking
    BY <1>6 DEF InterceptBegin
  <2>2. <<q, written'[q]>> \in Kernels
    <3>1. Next1(q) \in Kernels
      BY <1>6, InterceptEffect
    <3>2. QED
      BY <1>0, <2>1, <3>1 DEF Next1
  <2>3. << >> \in Seq(Ordering)
    OBVIOUS
  <2>4. before' \in [Queues -> Seq(Ordering)]
    BY <1>0, <2>1, <2>3
  <2>5. QED
    BY <1>0, <1>1, <1>3, <2>1, <2>2, <2>4 DEF QueueTypes
<1>7. ASSUME NEW q \in Queues, NEW c \in Contexts, AskContext(q, c) PROVE QueueTypes'
  <2>1. /\ written' = written /\ pc' = [pc EXCEPT ![q] = "pack"] /\ pc[q] = "ask"
        /\ before' = before /\ asking' = [asking EXCEPT ![q] = c]
    BY <1>7 DEF AskContext
  <2>2. QED
    BY <1>0, <1>1, <1>3, <2>1 DEF QueueTypes
<1>8. ASSUME NEW q \in Queues, AddSerialization(q) PROVE QueueTypes'
  <2> DEFINE b == (IF Transition(q) THEN <<<<"barrier", Last(barriers).id>>>> ELSE << >>)
  <2>1. /\ written' = written /\ pc' = [pc EXCEPT ![q] = "ask"] /\ pc[q] = "pack"
        /\ before' = [before EXCEPT ![q] = @ \o b \o Turn]
        /\ asking' = [asking EXCEPT ![q] = NoContext]
    BY <1>8 DEF AddSerialization
  <2>2. b \in Seq(Ordering)
    <3>1. CASE Transition(q)
      <4>1. barriers # << >> /\ barriers \in Seq(Barrier)
        BY <3>1 DEF Transition, TypesInv, BarrierTypes
      <4>2. Last(barriers) \in Barrier
        BY <4>1 DEF Last
      <4>3. <<"barrier", Last(barriers).id>> \in Ordering
        BY <4>2 DEF Barrier, Ordering
      <4>4. QED
        BY <3>1, <4>3
    <3>2. QED
      BY <3>1
  <2> HIDE DEF b
  <2>3. before[q] \o b \o Turn \in Seq(Ordering)
    BY <1>0, <2>2, TurnTypes
  <2>4. before' \in [Queues -> Seq(Ordering)]
    BY <1>0, <2>1, <2>3
  <2>5. QED
    BY <1>0, <1>1, <1>3, <2>1, <2>4 DEF QueueTypes
<1>9. ASSUME NEW q \in Queues, Submit(q) PROVE QueueTypes'
  <2>1. /\ written' = written /\ pc' = [pc EXCEPT ![q] = "idle"] /\ pc[q] = "ask"
        /\ before' = [before EXCEPT ![q] = << >>] /\ asking' = asking
    BY <1>9 DEF Submit
  <2>2. << >> \in Seq(Ordering)
    OBVIOUS
  <2>3. before' \in [Queues -> Seq(Ordering)]
    BY <1>0, <2>1, <2>2
  <2>4. QED
    BY <1>0, <1>1, <1>3, <2>1, <2>3 DEF QueueTypes
<1>10. ASSUME NEW q \in Queues, Destroy(q) PROVE QueueTypes'
  <2>1. /\ written' = written /\ pc' = [pc EXCEPT ![q] = "destroyed"] /\ pc[q] = "idle"
        /\ before' = before /\ asking' = asking
    BY <1>10 DEF Destroy
  <2>2. QED
    BY <1>0, <1>1, <1>3, <2>1 DEF QueueTypes
<1>11. QED
  BY <1>4, <1>5, <1>6, <1>7, <1>8, <1>9, <1>10, ThreadMoves, Zenon

\* Where the packets of kernels are, when a kernel or a queue changes.
PacketsInv ==
  \A q \in Queues : \A i \in DOMAIN hw[q] : hw[q][i][1] = "kernel" =>
    /\ kernels[<<q, hw[q][i][2]>>].at = "queued"
    /\ \A j \in DOMAIN hw[q] : hw[q][j] = hw[q][i] => j = i
HandInv ==
  /\ \A q \in Queues : pc[q] \in Packing => kernels[<<q, written[q]>>].at = "started"
  /\ \A k \in Kernels : kernels[k].at = "started" => k[2] = written[k[1]] /\ pc[k[1]] \in Packing

\* Where kernels are: those queued are in their queues, those started are in hand.
LEMMA PlaceSplit == /\ PlaceInv <=> PacketsInv /\ HandInv
                    /\ PlaceInv' <=> PacketsInv' /\ HandInv'
BY DEF PlaceInv, PacketsInv, HandInv

\* A packet's kernel.
LEMMA PacketKernel ==
  ASSUME TypesInv, NEW q \in Queues, NEW i \in DOMAIN hw[q], hw[q][i][1] = "kernel"
  PROVE  /\ <<q, hw[q][i][2]>> \in Kernels /\ kernels[<<q, hw[q][i][2]>>].at = "queued"
         /\ hw[q][i] = <<"kernel", hw[q][i][2]>>
<1>1. hw[q] \in Seq(PacketOf(q))
  BY DEF TypesInv, QueueTypes
<1>2. hw[q][i] \in PacketOf(q)
  BY <1>1
<1>3. hw[q][i][2] \in 1 .. MaxKernels[q] /\ hw[q][i] = <<"kernel", hw[q][i][2]>>
  BY <1>2 DEF PacketOf, Ordering
<1>4. QED
  BY <1>3, InKernels, PlaceSplit DEF TypesInv, PacketsInv

\* The kernels in the queues stay queued where no queue changes.
LEMMA PacketsStay ==
  ASSUME TypesInv, UNCHANGED hw,
         \A k \in Kernels : kernels[k].at = "queued" => kernels'[k].at = "queued"
  PROVE  PacketsInv'
BY PacketKernel, PlaceSplit DEF TypesInv, PacketsInv

\* A kernel's packet goes to the end of its queue.
LEMMA PacketsGrow ==
  ASSUME TypesInv, NEW q \in Queues, NEW b \in Seq(Ordering), NEW k \in Kernels, k[1] = q,
         Grows(q, b, k[2]), OthersStay(q), Same(k), kernels[k].at # "queued",
         kernels'[k].at = "queued", hw'[q] \in Seq(PacketOf(q)')
  PROVE  PacketsInv'
<1> SUFFICES ASSUME NEW p \in Queues, NEW i \in DOMAIN hw'[p], hw'[p][i][1] = "kernel"
             PROVE  /\ kernels'[<<p, hw'[p][i][2]>>].at = "queued"
                    /\ \A j \in DOMAIN hw'[p] : hw'[p][j] = hw'[p][i] => j = i
  BY DEF PacketsInv
<1>0. hw[q] \in Seq(PacketOf(q)) /\ PacketsInv
  BY PlaceSplit DEF TypesInv, QueueTypes
<1>1. CASE p # q
  <2>1. hw'[p] = hw[p]
    BY <1>1 DEF OthersStay
  <2>2. /\ <<p, hw[p][i][2]>> \in Kernels /\ kernels[<<p, hw[p][i][2]>>].at = "queued"
    BY <2>1, PacketKernel
  <2>3. <<p, hw[p][i][2]>> # k
    BY <1>1
  <2>4. kernels'[<<p, hw[p][i][2]>>] = kernels[<<p, hw[p][i][2]>>]
    BY <2>2, <2>3 DEF Same
  <2>5. \A j \in DOMAIN hw[p] : hw[p][j] = hw[p][i] => j = i
    BY <1>0, <2>1 DEF PacketsInv
  <2>6. QED
    BY <2>1, <2>2, <2>4, <2>5
<1>2. CASE p = q
  <2>0. PICK m \in Nat, n \in Nat : m = Len(hw[q]) /\ n = Len(b)
    BY <1>0
  <2>1. /\ DOMAIN hw[q] = 1 .. m /\ DOMAIN hw'[q] = 1 .. m + n + 1 /\ DOMAIN b = 1 .. n
    BY <1>0, <2>0 DEF Grows
  <2>2. ASSUME NEW j \in 1 .. m + n + 1, hw'[q][j][1] = "kernel" PROVE j <= m \/ j = m + n + 1
    <3>1. CASE j \in m + 1 .. m + n
      <4>1. j - m \in 1 .. n /\ m + (j - m) = j
        BY <2>1, <3>1
      <4>2. hw'[q][j] = b[j - m]
        BY <2>0, <4>1 DEF Grows
      <4>3. b[j - m] \in Ordering
        BY <2>1, <4>1
      <4>4. QED
        BY <2>2, <4>2, <4>3 DEF Ordering
    <3>2. QED
      BY <3>1
  <2>3. ASSUME NEW j \in 1 .. m, hw'[q][j][1] = "kernel"
        PROVE  /\ hw'[q][j] = hw[q][j] /\ <<q, hw[q][j][2]>> \in Kernels /\ <<q, hw[q][j][2]>> # k
               /\ kernels[<<q, hw[q][j][2]>>].at = "queued" /\ hw'[q][j] # <<"kernel", k[2]>>
    <3>1. hw'[q][j] = hw[q][j]
      BY <2>0 DEF Grows
    <3>2. /\ <<q, hw[q][j][2]>> \in Kernels /\ kernels[<<q, hw[q][j][2]>>].at = "queued"
          /\ hw[q][j] = <<"kernel", hw[q][j][2]>>
      BY <2>1, <2>3, <3>1, PacketKernel
    <3>3. k = <<q, k[2]>>
      BY KernelOf
    <3>4. <<q, hw[q][j][2]>> # k
      BY <3>2
    <3>5. hw[q][j][2] # k[2]
      BY <3>3, <3>4
    <3>6. QED
      BY <3>1, <3>2, <3>4, <3>5
  <2>4. hw'[q][m + n + 1] = <<"kernel", k[2]>>
    BY <2>0 DEF Grows
  <2>5. CASE i = m + n + 1
    <3>1. k = <<q, k[2]>>
      BY KernelOf
    <3>0. hw'[q][i][2] = k[2]
      BY <2>4, <2>5
    <3>2. kernels'[<<q, hw'[q][i][2]>>].at = "queued"
      BY <3>0, <3>1
    <3>3. ASSUME NEW j \in 1 .. m + n + 1, hw'[q][j] = hw'[q][i] PROVE j = i
      <4>1. hw'[q][j][1] = "kernel"
        BY <2>4, <2>5, <3>3
      <4>2. CASE j <= m
        <5>1. j \in 1 .. m
          BY <2>1, <4>2
        <5>2. QED
          BY <2>3, <2>4, <2>5, <3>3, <4>1, <5>1
      <4>3. QED
        BY <2>2, <2>5, <4>1, <4>2
    <3>4. QED
      BY <1>2, <2>1, <3>2, <3>3
  <2>6. CASE i \in 1 .. m
    <3>1. /\ hw'[q][i] = hw[q][i] /\ <<q, hw[q][i][2]>> \in Kernels /\ <<q, hw[q][i][2]>> # k
          /\ kernels[<<q, hw[q][i][2]>>].at = "queued" /\ hw'[q][i] # <<"kernel", k[2]>>
      BY <1>2, <2>3, <2>6
    <3>2. kernels'[<<q, hw'[q][i][2]>>].at = "queued"
      BY <3>1 DEF Same
    <3>3. ASSUME NEW j \in 1 .. m + n + 1, hw'[q][j] = hw'[q][i] PROVE j = i
      <4>1. hw'[q][j][1] = "kernel"
        BY <1>2, <3>3
      <4>2. CASE j = m + n + 1
        BY <2>4, <3>1, <3>3, <4>2
      <4>3. CASE j <= m
        <5>0. j \in 1 .. m /\ hw'[p] = hw'[q]
          BY <1>2, <4>3
        <5>1. j \in DOMAIN hw[q] /\ hw[q][j] = hw[q][i] /\ hw[q][i][1] = "kernel" /\ i \in DOMAIN hw[q]
          BY <2>1, <2>3, <2>6, <3>1, <3>3, <4>1, <5>0
        <5>2. QED
          BY <1>0, <5>1 DEF PacketsInv
      <4>4. QED
        BY <2>2, <4>1, <4>2, <4>3
    <3>4. QED
      BY <1>2, <2>1, <3>2, <3>3
  <2>7. i \in 1 .. m \/ i = m + n + 1
    BY <1>2, <2>1, <2>2
  <2>8. QED
    BY <2>5, <2>6, <2>7
<1>3. QED
  BY <1>1, <1>2

\* The first packet leaves; if it is a kernel's, it was the kernel's only one.
LEMMA PacketsShrink ==
  ASSUME TypesInv, NEW q \in Queues, Shrinks(q), OthersStay(q),
         hw'[q] \in Seq(PacketOf(q)),
         \/ UNCHANGED kernels
         \/ hw[q][1][1] = "kernel" /\ \E k \in Kernels : k = <<q, hw[q][1][2]>> /\ Same(k)
  PROVE  PacketsInv'
<1> SUFFICES ASSUME NEW p \in Queues, NEW i \in DOMAIN hw'[p], hw'[p][i][1] = "kernel"
             PROVE  /\ kernels'[<<p, hw'[p][i][2]>>].at = "queued"
                    /\ \A j \in DOMAIN hw'[p] : hw'[p][j] = hw'[p][i] => j = i
  BY DEF PacketsInv
<1>0. hw[q] \in Seq(PacketOf(q)) /\ PacketsInv
  BY PlaceSplit DEF TypesInv, QueueTypes
<1>1. CASE p # q
  <2>1. hw'[p] = hw[p]
    BY <1>1 DEF OthersStay
  <2>2. /\ <<p, hw[p][i][2]>> \in Kernels /\ kernels[<<p, hw[p][i][2]>>].at = "queued"
    BY <2>1, PacketKernel
  <2>3. kernels'[<<p, hw[p][i][2]>>] = kernels[<<p, hw[p][i][2]>>]
    BY <1>1, <2>2 DEF Same
  <2>4. QED
    BY <1>0, <2>1, <2>2, <2>3 DEF PacketsInv
<1>2. CASE p = q
  <2> DEFINE m == Len(hw[q])
  <2>1. /\ m \in Nat \ {0} /\ DOMAIN hw[q] = 1 .. m /\ DOMAIN hw'[q] = 1 .. m - 1
        /\ \A j \in 1 .. m - 1 : hw'[q][j] = hw[q][j + 1] /\ j + 1 \in DOMAIN hw[q] /\ j + 1 # 1
    BY <1>0 DEF Shrinks
  <2>2. i \in 1 .. m - 1 /\ i + 1 \in DOMAIN hw[q] /\ hw'[q][i] = hw[q][i + 1] /\ 1 \in DOMAIN hw[q]
        /\ i + 1 # 1
    BY <1>2, <2>1
  <2>3. /\ <<q, hw[q][i + 1][2]>> \in Kernels /\ kernels[<<q, hw[q][i + 1][2]>>].at = "queued"
        /\ hw[q][i + 1] = <<"kernel", hw[q][i + 1][2]>>
    BY <1>2, <2>2, PacketKernel
  <2>4. kernels'[<<q, hw[q][i + 1][2]>>] = kernels[<<q, hw[q][i + 1][2]>>]
    <3>1. ASSUME hw[q][1][1] = "kernel" PROVE <<q, hw[q][i + 1][2]>> # <<q, hw[q][1][2]>>
      <4>1. hw[q][1] = <<"kernel", hw[q][1][2]>>
        BY <2>2, <3>1, PacketKernel
      <4>2. hw[q][i + 1] # hw[q][1]
        BY <1>0, <2>2, <3>1 DEF PacketsInv
      <4>3. QED
        BY <2>3, <4>1, <4>2
    <3>2. QED
      BY <2>3, <3>1 DEF Same
  <2>5. ASSUME NEW j \in 1 .. m - 1, hw'[q][j] = hw'[q][i] PROVE j = i
    <3>1. hw[q][j + 1] = hw[q][i + 1] /\ j + 1 \in DOMAIN hw[q]
      BY <2>1, <2>2, <2>5
    <3>2. j + 1 = i + 1
      BY <1>0, <1>2, <2>2, <3>1 DEF PacketsInv
    <3>3. QED
      BY <2>1, <2>2, <3>2
  <2>6. QED
    BY <1>2, <2>1, <2>2, <2>3, <2>4, <2>5
<1>3. QED
  BY <1>1, <1>2

\* The kernels in the queues are queued, and each once.
LEMMA PacketsStep ==
  ASSUME TypesInv, Next
  PROVE  PacketsInv'
<1>1. ASSUME NEW q \in Queues, WriteDirectly(q) PROVE PacketsInv'
  <2>1. PICK k \in Kernels : /\ k[1] = q /\ k[2] = written[q] + 1 /\ Same(k)
                             /\ From(k, "none", "queued")
    BY <1>1, WriteEffect
  <2>2. << >> \in Seq(Ordering)
    OBVIOUS
  <2>3. QED
    BY <1>1, <2>1, <2>2, WriteGrows, PacketsGrow DEF From
<1>2. ASSUME NEW q \in Queues, Submit(q) PROVE PacketsInv'
  <2>1. PICK k \in Kernels : /\ k[1] = q /\ k[2] = written[q] /\ Same(k)
                             /\ From(k, "started", "queued")
    BY <1>2, SubmitEffect
  <2>2. before[q] \in Seq(Ordering)
    BY DEF TypesInv, QueueTypes
  <2>3. QED
    BY <1>2, <2>1, <2>2, SubmitGrows, PacketsGrow DEF From
<1>3. ASSUME NEW q \in Queues, PassBarrier(q) \/ PassReady(q) \/ PassBlock(q) PROVE PacketsInv'
  <2>1. UNCHANGED kernels
    BY <1>3, OthersKeepKernels DEF OtherStep
  <2>2. QED
    BY <1>3, <2>1, PassShrinks, PacketsShrink DEF PassStep
<1>4. ASSUME NEW q \in Queues, Launch(q) PROVE PacketsInv'
  <2>1. /\ Shrinks(q) /\ OthersStay(q) /\ hw'[q] \in Seq(PacketOf(q))
        /\ Head(hw[q]) = hw[q][1]
    BY <1>4, PassShrinks DEF PassStep
  <2>2. PICK k \in Kernels : k = <<q, Head(hw[q])[2]>> /\ Same(k)
    BY <1>4, LaunchEffect
  <2>3. Head(hw[q])[1] = "kernel"
    BY <1>4 DEF Launch, HeadIs
  <2>4. QED
    BY <2>1, <2>2, <2>3, PacketsShrink
<1>5. ASSUME NEW k \in Kernels, Same(k), kernels[k].at # "queued", UNCHANGED hw PROVE PacketsInv'
  BY <1>5, PacketsStay DEF Same
<1>6. ASSUME NEW q \in Queues, InterceptBegin(q) PROVE PacketsInv'
  <2>1. PICK k \in Kernels : Same(k) /\ From(k, "none", "started")
    BY <1>6, InterceptEffect
  <2>2. UNCHANGED hw
    BY <1>6 DEF InterceptBegin
  <2>3. QED
    BY <1>5, <2>1, <2>2 DEF From
<1>7. ASSUME NEW q \in Queues, NEW c \in Contexts, AskContext(q, c) PROVE PacketsInv'
  <2>1. PICK k \in Kernels : Same(k) /\ From(k, "started", "started")
    BY <1>7, AskEffect
  <2>2. UNCHANGED hw
    BY <1>7 DEF AskContext
  <2>3. QED
    BY <1>5, <2>1, <2>2 DEF From
<1>8. ASSUME NEW q \in Queues, AddSerialization(q) PROVE PacketsInv'
  <2>1. PICK k \in Kernels : Same(k) /\ From(k, "started", "started")
    BY <1>8, PackEffect
  <2>2. UNCHANGED hw
    BY <1>8 DEF AddSerialization
  <2>3. QED
    BY <1>5, <2>1, <2>2 DEF From
<1>9. ASSUME NEW k \in Kernels,
             Complete(k) \/ AsyncComplete(k) \/ \E c \in Contexts : KernelCompletion(k, c)
      PROVE  PacketsInv'
  <2>1. Same(k) /\ kernels[k].at # "queued"
    BY <1>9, CompleteEffect, AsyncEffect, CompletionEffect DEF From
  <2>2. UNCHANGED hw
    BY <1>9, Zenon DEF Complete, AsyncComplete, KernelCompletion
  <2>3. QED
    BY <1>5, <2>1, <2>2
<1>10. ASSUME NEW q \in Queues, Destroy(q) \/ QueueReady(q) PROVE PacketsInv'
  <2>1. UNCHANGED <<kernels, hw>>
    BY <1>10, Zenon DEF Destroy, QueueReady
  <2>2. QED
    BY <2>1, PacketsStay
<1>11. ASSUME ToolStep PROVE PacketsInv'
  BY <1>11, ToolKeeps, PacketsStay
<1>12. QED
  BY <1>1, <1>2, <1>3, <1>4, <1>6, <1>7, <1>8, <1>9, <1>10, <1>11, Steps, Zenon

\* A kernel in its interceptor is the last that was written.
LEMMA HandStep ==
  ASSUME TypesInv, Next
  PROVE  HandInv'
<1>0. /\ HandInv /\ written \in [Queues -> Nat]
      /\ pc \in [Queues -> {"idle", "ask", "pack", "destroyed"}]
      /\ \A q \in Queues : pc[q] \in Packing => <<q, written[q]>> \in Kernels
  BY PlaceSplit DEF TypesInv, QueueTypes, Packing
<1>1. \A k \in Kernels : k[1] \in Queues /\ k = <<k[1], k[2]>>
  BY KernelOf
<1>2. ASSUME \A k \in Kernels : kernels[k].at = "started" <=> kernels'[k].at = "started",
             UNCHANGED written, \A q \in Queues : pc[q] \in Packing <=> pc'[q] \in Packing
      PROVE  HandInv'
  BY <1>0, <1>1, <1>2 DEF HandInv
<1>3. ASSUME NEW q \in Queues, WriteDirectly(q) PROVE HandInv'
  <2>1. PICK k \in Kernels : k[1] = q /\ k[2] = written[q] + 1 /\ Same(k) /\ From(k, "none", "queued")
    BY <1>3, WriteEffect
  <2>2. pc[q] = "idle" /\ pc' = pc /\ written' = [written EXCEPT ![q] = @ + 1]
    BY <1>3 DEF WriteDirectly, threadVars
  <2>3. ASSUME NEW p \in Queues, pc'[p] \in Packing PROVE kernels'[<<p, written'[p]>>].at = "started"
    <3>1. p # q /\ written'[p] = written[p] /\ pc[p] \in Packing
      BY <1>0, <2>2, <2>3 DEF Packing
    <3>2. <<p, written[p]>> \in Kernels /\ <<p, written[p]>> # k /\ kernels[<<p, written[p]>>].at = "started"
      BY <1>0, <2>1, <3>1 DEF HandInv
    <3>3. QED
      BY <2>1, <3>1, <3>2 DEF Same
  <2>4. ASSUME NEW j \in Kernels, kernels'[j].at = "started"
        PROVE  j[2] = written'[j[1]] /\ pc'[j[1]] \in Packing
    <3>1. j # k
      BY <2>1, <2>4 DEF From
    <3>2. j[2] = written[j[1]] /\ pc[j[1]] \in Packing
      BY <1>0, <2>1, <2>4, <3>1 DEF Same, HandInv
    <3>3. j[1] # q /\ j[1] \in Queues
      BY <1>1, <2>2, <3>2 DEF Packing
    <3>4. QED
      BY <1>0, <2>2, <3>2, <3>3
  <2>5. QED
    BY <2>3, <2>4 DEF HandInv
<1>4. ASSUME NEW q \in Queues, InterceptBegin(q) PROVE HandInv'
  <2>1. PICK k \in Kernels : k[1] = q /\ k[2] = written[q] + 1 /\ Same(k) /\ From(k, "none", "started")
    BY <1>4, InterceptEffect
  <2>2. /\ pc[q] = "idle" /\ pc' = [pc EXCEPT ![q] = "ask"]
        /\ written' = [written EXCEPT ![q] = @ + 1]
    BY <1>4 DEF InterceptBegin
  <2>3. /\ written'[q] = written[q] + 1 /\ pc'[q] = "ask" /\ k = <<q, written[q] + 1>>
        /\ \A p \in Queues : p # q => written'[p] = written[p] /\ pc'[p] = pc[p]
    BY <1>0, <1>1, <2>1, <2>2
  <2>4. ASSUME NEW p \in Queues, pc'[p] \in Packing PROVE kernels'[<<p, written'[p]>>].at = "started"
    <3>1. CASE p = q
      BY <2>1, <2>3, <3>1 DEF From
    <3>2. CASE p # q
      <4>1. <<p, written[p]>> \in Kernels /\ <<p, written[p]>> # k /\ kernels[<<p, written[p]>>].at = "started"
        BY <1>0, <2>1, <2>3, <2>4, <3>2 DEF HandInv
      <4>2. QED
        BY <2>1, <2>3, <3>2, <4>1 DEF Same
    <3>3. QED
      BY <3>1, <3>2
  <2>5. ASSUME NEW j \in Kernels, kernels'[j].at = "started"
        PROVE  j[2] = written'[j[1]] /\ pc'[j[1]] \in Packing
    <3>1. CASE j = k
      BY <2>1, <2>3, <3>1 DEF Packing
    <3>2. CASE j # k
      <4>1. j[2] = written[j[1]] /\ pc[j[1]] \in Packing
        BY <1>0, <2>1, <2>5, <3>2 DEF Same, HandInv
      <4>2. j[1] # q /\ j[1] \in Queues
        BY <1>1, <2>2, <4>1 DEF Packing
      <4>3. QED
        BY <2>3, <4>1, <4>2
    <3>3. QED
      BY <3>1, <3>2
  <2>6. QED
    BY <2>4, <2>5 DEF HandInv
<1>5. ASSUME NEW q \in Queues, NEW c \in Contexts, AskContext(q, c) PROVE HandInv'
  <2>1. PICK k \in Kernels : Same(k) /\ From(k, "started", "started")
    BY <1>5, AskEffect
  <2>2. written' = written /\ pc[q] = "ask" /\ pc' = [pc EXCEPT ![q] = "pack"]
    BY <1>5 DEF AskContext
  <2>3. \A p \in Queues : pc[p] \in Packing <=> pc'[p] \in Packing
    BY <1>0, <2>2 DEF Packing
  <2>4. QED
    BY <1>2, <2>1, <2>2, <2>3 DEF Same, From
<1>6. ASSUME NEW q \in Queues, AddSerialization(q) PROVE HandInv'
  <2>1. PICK k \in Kernels : Same(k) /\ From(k, "started", "started")
    BY <1>6, PackEffect
  <2>2. written' = written /\ pc[q] = "pack" /\ pc' = [pc EXCEPT ![q] = "ask"]
    BY <1>6 DEF AddSerialization
  <2>3. \A p \in Queues : pc[p] \in Packing <=> pc'[p] \in Packing
    BY <1>0, <2>2 DEF Packing
  <2>4. QED
    BY <1>2, <2>1, <2>2, <2>3 DEF Same, From
<1>7. ASSUME NEW q \in Queues, Submit(q) PROVE HandInv'
  <2>1. PICK k \in Kernels : k[1] = q /\ k[2] = written[q] /\ Same(k) /\ From(k, "started", "queued")
    BY <1>7, SubmitEffect
  <2>2. written' = written /\ pc' = [pc EXCEPT ![q] = "idle"]
    BY <1>7 DEF Submit
  <2>3. pc'[q] = "idle" /\ \A p \in Queues : p # q => pc'[p] = pc[p]
    BY <1>0, <2>2
  <2>4. ASSUME NEW p \in Queues, pc'[p] \in Packing PROVE kernels'[<<p, written'[p]>>].at = "started"
    <3>1. p # q /\ pc[p] \in Packing
      BY <2>3, <2>4 DEF Packing
    <3>2. <<p, written[p]>> \in Kernels /\ <<p, written[p]>> # k /\ kernels[<<p, written[p]>>].at = "started"
      BY <1>0, <2>1, <3>1 DEF HandInv
    <3>3. QED
      BY <2>1, <2>2, <3>2 DEF Same
  <2>5. ASSUME NEW j \in Kernels, kernels'[j].at = "started"
        PROVE  j[2] = written'[j[1]] /\ pc'[j[1]] \in Packing
    <3>1. j # k
      BY <2>1, <2>5 DEF From
    <3>2. j[2] = written[j[1]] /\ pc[j[1]] \in Packing
      BY <1>0, <2>1, <2>5, <3>1 DEF Same, HandInv
    <3>3. j[1] # q /\ j[1] \in Queues
      <4>1. ASSUME j[1] = q PROVE FALSE
        <5>1. j[2] = k[2] /\ j = <<j[1], j[2]>> /\ k = <<k[1], k[2]>>
          BY <1>1, <2>1, <3>2, <4>1
        <5>2. QED
          BY <2>1, <3>1, <4>1, <5>1
      <4>2. QED
        BY <1>1, <4>1
    <3>4. QED
      BY <2>2, <2>3, <3>2, <3>3
  <2>6. QED
    BY <2>4, <2>5 DEF HandInv
<1>8. ASSUME NEW q \in Queues, Launch(q) PROVE HandInv'
  <2>1. PICK k \in Kernels : Same(k) /\ From(k, "queued", "running")
    BY <1>8, LaunchEffect
  <2>2. written' = written /\ pc' = pc
    BY <1>8 DEF Launch, threadVars
  <2>3. QED
    BY <1>2, <2>1, <2>2 DEF Same, From
<1>9. ASSUME NEW k \in Kernels,
             Complete(k) \/ AsyncComplete(k) \/ \E c \in Contexts : KernelCompletion(k, c)
      PROVE  HandInv'
  <2>1. Same(k) /\ kernels[k].at # "started" /\ kernels'[k].at # "started"
    BY <1>9, CompleteEffect, AsyncEffect, CompletionEffect DEF From
  <2>2. written' = written /\ pc' = pc
    BY <1>9, Zenon DEF Complete, AsyncComplete, KernelCompletion, threadVars
  <2>3. QED
    BY <1>2, <2>1, <2>2 DEF Same
<1>10. ASSUME NEW q \in Queues, Destroy(q) PROVE HandInv'
  <2>1. UNCHANGED <<kernels, written>> /\ pc[q] = "idle" /\ pc' = [pc EXCEPT ![q] = "destroyed"]
    BY <1>10 DEF Destroy
  <2>2. \A p \in Queues : pc[p] \in Packing <=> pc'[p] \in Packing
    BY <1>0, <2>1 DEF Packing
  <2>3. QED
    BY <1>2, <2>1, <2>2
<1>11. ASSUME NEW q \in Queues, PassBarrier(q) \/ PassReady(q) \/ PassBlock(q) \/ QueueReady(q)
       PROVE HandInv'
  <2>1. UNCHANGED <<kernels, written, pc>>
    BY <1>11, Zenon DEF PassBarrier, PassReady, PassBlock, QueueReady, threadVars
  <2>2. QED
    BY <1>2, <2>1
<1>12. ASSUME ToolStep PROVE HandInv'
  BY <1>2, <1>12, ToolKeeps
<1>13. QED
  BY <1>3, <1>4, <1>5, <1>6, <1>7, <1>8, <1>9, <1>10, <1>11, <1>12, Steps, Zenon

\* The tool's thread and the lock.
LEMMA ToolVarsMove ==
  ASSUME Next
  PROVE  ToolStep \/ UNCHANGED <<toolVars, held, status, notified>>
<1> USE DEF serializerVars
<1>1. ASSUME NEW q \in Queues,
             \/ WriteDirectly(q) \/ InterceptBegin(q) \/ Destroy(q) \/ AddSerialization(q) \/ Submit(q)
             \/ PassBarrier(q) \/ PassReady(q) \/ PassBlock(q) \/ Launch(q) \/ QueueReady(q)
             \/ \E c \in Contexts : AskContext(q, c)
      PROVE  UNCHANGED <<toolVars, held, status, notified>>
  BY <1>1, Zenon DEF WriteDirectly, InterceptBegin, Destroy, AddSerialization, Submit, PassBarrier,
                     PassReady, PassBlock, Launch, QueueReady, AskContext
<1>2. ASSUME NEW k \in Kernels,
             Complete(k) \/ AsyncComplete(k) \/ \E c \in Contexts : KernelCompletion(k, c)
      PROVE  UNCHANGED <<toolVars, held, status, notified>>
  BY <1>2, Zenon DEF Complete, AsyncComplete, KernelCompletion
<1>3. QED
  BY <1>1, <1>2, Steps, Zenon

\* What the tool's thread does keeps its types.
LEMMA ToolTypesStep ==
  ASSUME TypesInv, Next
  PROVE  ToolTypes'
<1>0. ToolTypes /\ status \in {"enabled", "disabled"} /\ alive \subseteq Queues
  BY DEF TypesInv, StateTypes
<1>1. held => barriers' # << >> \/ ~held'
  <2>1. ASSUME held, held', barriers = << >> \/ barriers' = << >> PROVE FALSE
    <3>1. barriers # << >> /\ barriers \in Seq(Barrier)
      BY <1>0, <2>1 DEF ToolTypes, TypesInv, BarrierTypes
    <3>2. UNCHANGED <<barriers, lifted>> \/ RecountQueue
      BY <2>1, BarriersKept DEF AddSerialization, KernelCompletion, SwitchBegin, SwitchEnd
    <3>3. barriers' # << >>
      BY <3>1, <3>2, RecountBarriers
    <3>4. QED
      BY <2>1, <3>1, <3>3
  <2>2. QED
    BY <2>1
<1>2. CASE UNCHANGED <<toolVars, held, status, notified>>
  BY <1>0, <1>1, <1>2 DEF ToolTypes, toolVars
<1>3. ASSUME NEW c \in Contexts, Start(c) PROVE ToolTypes'
  BY <1>0, <1>3 DEF Start, ToolTypes, serializerVars
<1>4. CASE Stop
  BY <1>0, <1>4 DEF Stop, ToolTypes, serializerVars
<1>5. CASE FinalizeBegin \/ FinalizeEnd
  BY <1>0, <1>5 DEF FinalizeBegin, FinalizeEnd, ToolTypes, serializerVars
<1>6. CASE SwitchNothing
  BY <1>0, <1>6 DEF SwitchNothing, ToolTypes, New, After
<1>7. CASE SwitchBegin
  <2>1. barriers' \in Seq(Barrier) /\ barriers' = Append(Clear(barriers), NewBarrier(LastId + 1, Old))
        /\ Clear(barriers) \in Seq(Barrier)
    BY <1>7, BeginBarriers
  <2>2. barriers' # << >>
    BY <2>1
  <2>3. QED
    BY <1>0, <1>7, <2>2 DEF SwitchBegin, ToolTypes, New
<1>8. ASSUME NEW q \in Queues, CountQueue(q) PROVE ToolTypes'
  BY <1>0, <1>8 DEF CountQueue, ToolTypes, serializerVars
<1>9. CASE RecountQueue
  BY <1>0, <1>1, <1>9 DEF RecountQueue, ToolTypes
<1>10. CASE SwitchEnd
  BY <1>0, <1>10 DEF SwitchEnd, ToolTypes, After
<1>11. CASE Mark \/ Started
  BY <1>0, <1>11 DEF Mark, Started, ToolTypes, serializerVars
<1>12. ASSUME NEW q \in Queues, Install(q) PROVE ToolTypes'
  BY <1>0, <1>12 DEF Install, ToolTypes, serializerVars, toolVars
<1>13. ASSUME NEW q \in Queues, Sync(q) PROVE ToolTypes'
  BY <1>0, <1>13 DEF Sync, ToolTypes, serializerVars
<1>14. QED
  BY <1>2, <1>3, <1>4, <1>5, <1>6, <1>7, <1>8, <1>9, <1>10, <1>11, <1>12, <1>13, ToolVarsMove,
     Zenon DEF ToolStep, Tool, Switch

\* Signals take three values.
LEMMA SignalTypesStep ==
  ASSUME TypesInv, Next
  PROVE  /\ ready_signal' \in [Queues -> {-1, 0, 1}] /\ block_signal' \in [Queues -> {-1, 0, 1}]
         /\ alive' \subseteq Queues
<1>0. /\ ready_signal \in [Queues -> {-1, 0, 1}] /\ block_signal \in [Queues -> {-1, 0, 1}]
      /\ alive \subseteq Queues
  BY DEF TypesInv, StateTypes
<1>1. ASSUME UNCHANGED <<signalVars, alive>>
      PROVE  /\ ready_signal' \in [Queues -> {-1, 0, 1}] /\ block_signal' \in [Queues -> {-1, 0, 1}]
             /\ alive' \subseteq Queues
  BY <1>0, <1>1 DEF signalVars
<1>2. ASSUME NEW q \in Queues,
             \/ WriteDirectly(q) \/ InterceptBegin(q) \/ AddSerialization(q) \/ Submit(q)
             \/ PassBarrier(q) \/ Launch(q) \/ \E c \in Contexts : AskContext(q, c)
      PROVE  UNCHANGED <<signalVars, alive>>
  BY <1>2, Zenon DEF WriteDirectly, InterceptBegin, AddSerialization, Submit, PassBarrier, Launch,
                     AskContext
<1>3. ASSUME NEW k \in Kernels, Complete(k) \/ AsyncComplete(k)
      PROVE  UNCHANGED <<signalVars, alive>>
  BY <1>3, Zenon DEF Complete, AsyncComplete
<1>4. ASSUME NEW q \in Queues, PassReady(q) \/ PassBlock(q) \/ QueueReady(q) \/ Destroy(q)
      PROVE  /\ ready_signal' \in [Queues -> {-1, 0, 1}] /\ block_signal' \in [Queues -> {-1, 0, 1}]
             /\ alive' \subseteq Queues
  <2>1. CASE PassReady(q)
    BY <1>0, <2>1 DEF PassReady
  <2>2. CASE PassBlock(q)
    BY <1>0, <2>2 DEF PassBlock
  <2>3. CASE QueueReady(q)
    BY <1>0, <2>3 DEF QueueReady
  <2>4. CASE Destroy(q)
    BY <1>0, <2>4 DEF Destroy, signalVars
  <2>5. QED
    BY <1>4, <2>1, <2>2, <2>3, <2>4
<1>5. ASSUME NEW k \in Kernels, NEW c \in Contexts, KernelCompletion(k, c)
      PROVE  /\ ready_signal' \in [Queues -> {-1, 0, 1}] /\ block_signal' \in [Queues -> {-1, 0, 1}]
             /\ alive' \subseteq Queues
  <2>1. UNCHANGED signalVars \/ PassTurn(k[1])
    BY <1>5 DEF KernelCompletion
  <2>2. alive' = alive
    BY <1>5 DEF KernelCompletion
  <2>3. ASSUME PassTurn(k[1])
        PROVE  /\ ready_signal' \in [Queues -> {-1, 0, 1}] /\ block_signal' \in [Queues -> {-1, 0, 1}]
    <3>1. ready_signal' = [ready_signal EXCEPT ![k[1]] = 0]
      BY <2>3 DEF PassTurn
    <3>2. block_signal' \in { [block_signal EXCEPT ![k[1]] = 1],
                              [block_signal EXCEPT ![k[1]] = 1, ![Head(dispatch_ready)] = 0] }
      BY <2>3 DEF PassTurn
    <3>3. QED
      BY <1>0, <3>1, <3>2
  <2>4. QED
    BY <1>0, <2>1, <2>2, <2>3 DEF signalVars
<1>6. ASSUME ToolStep PROVE UNCHANGED <<signalVars, alive>>
  BY <1>6, ToolKeeps
<1>7. QED
  BY <1>1, <1>2, <1>3, <1>4, <1>5, <1>6, Steps, Zenon

\* The states of the threads keep their types.
LEMMA StateTypesStep ==
  ASSUME TypesInv, Next
  PROVE  StateTypes'
<1>0. /\ status \in {"enabled", "disabled"} /\ held \in BOOLEAN
      /\ notified \in [Queues -> SUBSET Contexts] /\ enabled \in [Contexts -> BOOLEAN] /\ ToolTypes
  BY DEF TypesInv, StateTypes
<1>1. ASSUME UNCHANGED <<status, held, notified, enabled>> PROVE StateTypes'
  BY <1>0, <1>1, SignalTypesStep DEF StateTypes
<1>2. CASE UNCHANGED <<toolVars, held, status, notified>>
  BY <1>1, <1>2 DEF toolVars
<1>3. CASE (\E c \in Contexts : Start(c)) \/ FinalizeBegin \/ FinalizeEnd \/ Started
  BY <1>1, <1>3, Zenon DEF Start, FinalizeBegin, FinalizeEnd, Started, serializerVars
<1>4. CASE Stop
  BY <1>0, <1>4, SignalTypesStep DEF Stop, serializerVars, StateTypes
<1>5. CASE SwitchNothing \/ SwitchBegin
  <2>1. /\ status' \in {"enabled", "disabled"} /\ held' \in BOOLEAN
        /\ UNCHANGED <<notified, enabled>>
    BY <1>0, <1>5 DEF SwitchNothing, SwitchBegin, New
  <2>2. QED
    BY <1>0, <2>1, SignalTypesStep DEF StateTypes
<1>6. CASE (\E q \in Queues : CountQueue(q) \/ Sync(q)) \/ RecountQueue
  BY <1>1, <1>6, Zenon DEF CountQueue, Sync, RecountQueue, serializerVars
<1>7. CASE SwitchEnd
  BY <1>0, <1>7, SignalTypesStep DEF SwitchEnd, StateTypes
<1>8. CASE Mark
  BY <1>0, <1>8, SignalTypesStep DEF Mark, StateTypes, serializerVars
<1>9. ASSUME NEW q \in Queues, Install(q) PROVE StateTypes'
  <2>1. /\ current \in Contexts /\ notified' = [notified EXCEPT ![q] = @ \cup {current}]
        /\ UNCHANGED <<status, held, enabled>>
    BY <1>0, <1>9 DEF Install, ToolTypes, serializerVars, toolVars
  <2>2. QED
    BY <1>0, <2>1, SignalTypesStep DEF StateTypes
<1>10. QED
  BY <1>2, <1>3, <1>4, <1>5, <1>6, <1>7, <1>8, <1>9, ToolVarsMove, Zenon DEF ToolStep, Tool, Switch

-----------------------------------------------------------------------------
\* The types hold initially.
LEMMA TypesInit == Init => TypesInv
<1> SUFFICES ASSUME Init PROVE TypesInv
  OBVIOUS
<1>1. NoKernel \in KernelRecord /\ Sane(NoKernel) /\ NoKernel.at = "none" /\ NoKernel.tracked = FALSE
  BY DEF NoKernel, KernelRecord, Sane
<1>2. kernels = [k \in Kernels |-> NoKernel]
  BY DEF Init
<1>3. KernelTypes /\ FreshInv
  BY <1>1, <1>2 DEF KernelTypes, FreshInv
<1>4. written \in [Queues -> Nat]
  BY SerializerAssumption DEF Init
<1>5. BarrierTypes
  BY FS_EmptySet DEF Init, BarrierTypes
<1>6. /\ hw = [q \in Queues |-> << >>] /\ before = [q \in Queues |-> << >>]
      /\ pc = [q \in Queues |-> "idle"] /\ asking = [q \in Queues |-> NoContext]
  BY DEF Init
<1>7. QueueTypes
  <2>1. << >> \in Seq(Ordering) /\ \A q \in Queues : << >> \in Seq(PacketOf(q))
    OBVIOUS
  <2>2. QED
    BY <1>4, <1>6, <2>1 DEF QueueTypes
<1>8. PlaceInv
  <2>1. \A q \in Queues : DOMAIN hw[q] = {}
    BY <1>6
  <2>2. QED
    BY <1>1, <1>2, <1>6, <2>1 DEF PlaceInv, Packing
<1>9. TurnInv /\ StateTypes /\ ToolTypes
  <2>1. TurnInv
    BY DEF Init, TurnInv, LineIsServed
  <2>2. /\ status = "disabled" /\ held = FALSE /\ alive = Queues
        /\ notified = [q \in Queues |-> {}] /\ enabled = [c \in Contexts |-> FALSE]
        /\ ready_signal = [q \in Queues |-> 0] /\ block_signal = [q \in Queues |-> 1]
    BY DEF Init
  <2>3. StateTypes
    BY <2>2 DEF StateTypes
  <2>4. current = NoContext /\ cpc = "idle" /\ fini = "no"
    BY DEF Init
  <2>5. ToolTypes
    BY <2>2, <2>4 DEF ToolTypes
  <2>6. QED
    BY <2>1, <2>3, <2>5
<1>10. ActiveInv
  <2>1. ASSUME NEW q \in Queues PROVE Outstanding(q) = {}
    BY <1>1, <1>2, OfQueue DEF Outstanding
  <2>2. active = [q \in Queues |-> 0]
    BY DEF Init
  <2>3. QED
    BY <2>1, <2>2, FS_EmptySet DEF ActiveInv
<1>11. QED
  BY <1>3, <1>5, <1>7, <1>8, <1>9, <1>10 DEF TypesInv

\* The types are inductive.
LEMMA TypesStep ==
  ASSUME TypesInv, [Next]_vars
  PROVE  TypesInv'
<1>1. CASE Next
  <2>1. TurnInv'
    BY <1>1, StepServes DEF TypesInv
  <2>2. PlaceInv'
    BY <1>1, PlaceSplit, PacketsStep, HandStep
  <2>3. QED
    BY <1>1, <2>1, <2>2, StateTypesStep, KernelTypesStep, BarrierTypesStep, QueueTypesStep, FreshStep,
       ToolTypesStep, ActiveStep DEF TypesInv
<1>2. CASE UNCHANGED vars
  <2> USE <1>2 DEF vars, serializerVars, signalVars, threadVars, toolVars
  <2>1. TurnInv' /\ StateTypes' /\ ToolTypes'
    BY DEF TypesInv, TurnInv, LineIsServed, StateTypes, ToolTypes
  <2>2. KernelTypes' /\ BarrierTypes' /\ FreshInv'
    BY DEF TypesInv, KernelTypes, Sane, BarrierTypes, FreshInv
  <2>3. QueueTypes'
    BY DEF TypesInv, QueueTypes, PacketOf
  <2>4. PlaceInv'
    BY DEF TypesInv, PlaceInv
  <2>5. ActiveInv'
    BY ActiveKept DEF Out
  <2>6. QED
    BY <2>1, <2>2, <2>3, <2>4, <2>5 DEF TypesInv
<1>3. QED
  BY <1>1, <1>2

\* The types of the serializer's state.
THEOREM SerializerTypes == Spec => []TypeOK
<1>1. TypesInv /\ [Next]_vars => TypesInv'
  BY TypesStep
<1>2. QED
  BY <1>1, TypesInit, TypesOK, PTL DEF Spec

-----------------------------------------------------------------------------
\* What holds of the barriers whatever they count.  The ids are numbers in the order
\* of the list, and what is not in the list is lifted; a barrier that waits for nobody
\* is lifted, unless it is being set.
Ids == {barriers[i].id : i \in DOMAIN barriers}
IdInv ==
  /\ lifted \cup Ids = 1 .. LastId
  /\ \A i \in DOMAIN barriers :
       /\ barriers[i].id = LastId - Len(barriers) + i
       /\ barriers[i].complete => barriers[i].id \in lifted
       /\ barriers[i].id \in lifted => DOMAIN barriers[i].waiting = {}
       /\ barriers[i].id \notin lifted /\ DOMAIN barriers[i].waiting = {} =>
            held /\ i = Len(barriers)

\* The queues that set_barrier has yet to count.
ToCount == IF held THEN to_count \cup (IF cpc = "recount" THEN {counting} ELSE {}) ELSE {}

\* While a barrier is set it is the last, and not lifted.
HeldInv ==
  /\ held => /\ barriers[Len(barriers)].id \notin lifted /\ ToCount \subseteq alive
             /\ DOMAIN barriers[Len(barriers)].waiting \cap ToCount = {}
  /\ cpc = "recount" => counting \notin to_count

\* A kernel's epoch is a barrier that was set, but not the one that is being set.
EpochInv == \A k \in Kernels : kernels[k].epoch <= LastId /\ (held => kernels[k].epoch < LastId)

\* A queue that is gone holds nothing.
Emptied(q) ==
  /\ pc[q] = "destroyed" /\ hw[q] = << >>
  /\ \A k \in Kernels : k[1] = q => kernels[k].at \in {"none", "gone"} /\ kernels[k].todo = {}
GoneInv == \A q \in Queues : q \notin alive => Emptied(q)

StructInv == IdInv /\ HeldInv /\ EpochInv /\ GoneInv

\* What the types say of the list of barriers.
LEMMA ListTypes ==
  ASSUME TypesInv
  PROVE  /\ barriers \in Seq(Barrier) /\ Len(barriers) \in Nat
         /\ DOMAIN barriers = 1 .. Len(barriers) /\ LastId \in Nat
         /\ \A i \in DOMAIN barriers :
              /\ barriers[i].id \in Nat /\ barriers[i] \in Barrier
              /\ \E S \in SUBSET Queues : barriers[i].waiting \in [S -> Int]
              /\ DOMAIN barriers[i].waiting \subseteq Queues
<1>1. /\ barriers \in Seq(Barrier) /\ Len(barriers) \in Nat /\ LastId \in Nat
      /\ DOMAIN barriers = 1 .. Len(barriers)
  BY LastIdType DEF TypesInv, BarrierTypes
<1>2. ASSUME NEW i \in DOMAIN barriers
      PROVE  /\ barriers[i].id \in Nat /\ barriers[i] \in Barrier
             /\ \E S \in SUBSET Queues : barriers[i].waiting \in [S -> Int]
  <2>1. barriers[i] \in Barrier
    BY <1>1
  <2>2. QED
    BY <2>1 DEF Barrier
<1>3. ASSUME NEW i \in DOMAIN barriers PROVE DOMAIN barriers[i].waiting \subseteq Queues
  <2>1. PICK S \in SUBSET Queues : barriers[i].waiting \in [S -> Int]
    BY <1>2
  <2>2. QED
    BY <2>1
<1>4. QED
  BY <1>1, <1>2, <1>3

\* Two barriers of the list have two ids.
LEMMA IdsDiffer ==
  ASSUME TypesInv, IdInv, NEW i \in DOMAIN barriers, NEW j \in DOMAIN barriers,
         barriers[i].id = barriers[j].id
  PROVE  i = j
<1>1. PICK m \in Int : m = LastId - Len(barriers)
  BY ListTypes
<1>2. barriers[i].id = m + i /\ barriers[j].id = m + j
  BY <1>1 DEF IdInv
<1>3. i \in Int /\ j \in Int
  BY ListTypes
<1>4. m + i = m + j
  BY <1>2
<1>5. QED
  BY <1>1, <1>3, <1>4

\* What registering a completion does to a barrier.
LEMMA RegisterKeeps ==
  ASSUME NEW b \in Barrier, NEW q \in Queues
  PROVE  LET r == RegisterCompletion(b, q)
         IN /\ r.id = b.id /\ r.state = b.state /\ r.enqueued = b.enqueued
            /\ ~Waits(b, q) => r = b
            /\ Waits(b, q) /\ b.waiting[q] = 1 =>
                 /\ DOMAIN r.waiting = DOMAIN b.waiting \ {q}
                 /\ \A p \in DOMAIN b.waiting \ {q} : r.waiting[p] = b.waiting[p]
                 /\ r.complete <=> b.complete \/ DOMAIN b.waiting = {q}
            /\ Waits(b, q) /\ b.waiting[q] # 1 =>
                 /\ DOMAIN r.waiting = DOMAIN b.waiting /\ r.complete = b.complete
                 /\ r.waiting[q] = b.waiting[q] - 1
                 /\ \A p \in DOMAIN b.waiting \ {q} : r.waiting[p] = b.waiting[p]
<1> DEFINE r == RegisterCompletion(b, q)
<1>1. PICK S \in SUBSET Queues : b.waiting \in [S -> Int]
  BY DEF Barrier
<1>2. CASE ~Waits(b, q)
  BY <1>2 DEF RegisterCompletion
<1>3. CASE Waits(b, q) /\ b.waiting[q] = 1
  <2>1. r = [b EXCEPT !.waiting = Without(b, q), !.complete = @ \/ DOMAIN b.waiting = {q}]
    BY <1>3 DEF RegisterCompletion
  <2>2. /\ r.id = b.id /\ r.state = b.state /\ r.enqueued = b.enqueued
        /\ r.waiting = Without(b, q) /\ r.complete = (b.complete \/ DOMAIN b.waiting = {q})
    BY <2>1 DEF Barrier
  <2>3. /\ DOMAIN Without(b, q) = DOMAIN b.waiting \ {q}
        /\ \A p \in DOMAIN b.waiting \ {q} : Without(b, q)[p] = b.waiting[p]
    BY DEF Without
  <2>4. QED
    BY <1>3, <2>2, <2>3
<1>4. CASE Waits(b, q) /\ b.waiting[q] # 1
  <2>1. r = [b EXCEPT !.waiting[q] = @ - 1]
    BY <1>4 DEF RegisterCompletion
  <2>2. /\ r.id = b.id /\ r.state = b.state /\ r.enqueued = b.enqueued /\ r.complete = b.complete
        /\ r.waiting = [b.waiting EXCEPT ![q] = @ - 1]
    BY <2>1 DEF Barrier
  <2>3. q \in DOMAIN b.waiting
    BY <1>4 DEF Waits
  <2>4. QED
    BY <1>1, <1>4, <2>2, <2>3
<1>5. QED
  BY <1>2, <1>3, <1>4

\* The barriers after a completion are the old ones without some lifted ones in front.
LEMMA CompletionList ==
  ASSUME TypesInv, NEW k \in Kernels, NEW c \in Contexts, KernelCompletion(k, c)
  PROVE  \E d \in 0 .. Len(barriers) :
           /\ Len(barriers') = Len(barriers) - d /\ DOMAIN barriers' = 1 .. Len(barriers) - d
           /\ barriers' \in Seq(Barrier)
           /\ \A i \in 1 .. d : barriers[i].id \in lifted
           /\ \A i \in 1 .. Len(barriers) - d :
                /\ i + d \in DOMAIN barriers
                /\ barriers'[i] = RegisterCompletion(barriers[i + d], k[1])
<1>0. /\ barriers \in Seq(Barrier) /\ Len(barriers) \in Nat
      /\ DOMAIN barriers = 1 .. Len(barriers)
  BY ListTypes
<1>1. PICK d \in 0 .. Len(barriers) :
        /\ Len(Clear(barriers)) = Len(barriers) - d
        /\ \A i \in 1 .. Len(barriers) - d : Clear(barriers)[i] = barriers[i + d]
        /\ \A i \in 1 .. d : barriers[i].id \in lifted
  BY <1>0, Cleared
<1>2. Clear(barriers) \in Seq(Barrier)
  BY <1>0, Cleared
<1>3. /\ barriers' = Registered(k[1]) /\ Registered(k[1]) \in Seq(Barrier)
  BY CompletionBarriers
<1>4. DOMAIN Clear(barriers) = 1 .. Len(barriers) - d
  BY <1>0, <1>1, <1>2
<1>5. /\ DOMAIN barriers' = 1 .. Len(barriers) - d
      /\ \A i \in 1 .. Len(barriers) - d :
           barriers'[i] = RegisterCompletion(Clear(barriers)[i], k[1])
  BY <1>3, <1>4 DEF Registered
<1>6. Len(barriers) - d \in Nat
  BY <1>0
<1>7. Len(barriers') = Len(barriers) - d
  BY <1>3, <1>5, <1>6
<1>8. \A i \in 1 .. Len(barriers) - d : i + d \in DOMAIN barriers
  BY <1>0
<1>9. QED
  BY <1>1, <1>3, <1>5, <1>7, <1>8

\* Which barriers a completion lifts.
LEMMA CompletionLifts ==
  ASSUME TypesInv, NEW k \in Kernels, NEW c \in Contexts, KernelCompletion(k, c)
  PROVE  /\ lifted \subseteq lifted' /\ ~held
         /\ \A id : id \in lifted' <=>
              id \in lifted \/ \E i \in DOMAIN barriers' : barriers'[i].id = id /\ barriers'[i].complete
<1>1. barriers' = Registered(k[1]) /\ lifted' = lifted \cup Lifted(Registered(k[1])) /\ ~held
  BY CompletionBarriers
<1>2. lifted' = lifted \cup Lifted(barriers')
  BY <1>1
<1>3. QED
  BY <1>1, <1>2 DEF Lifted

\* The barriers after a switch begins: some lifted ones are gone, and one is new.
LEMMA BeginList ==
  ASSUME TypesInv, SwitchBegin
  PROVE  \E d \in 0 .. Len(barriers) :
           /\ Len(barriers') = Len(barriers) - d + 1 /\ DOMAIN barriers' = 1 .. Len(barriers) - d + 1
           /\ \A i \in 1 .. d : barriers[i].id \in lifted
           /\ \A i \in 1 .. Len(barriers) - d :
                i + d \in DOMAIN barriers /\ barriers'[i] = barriers[i + d]
           /\ barriers'[Len(barriers) - d + 1] = NewBarrier(LastId + 1, Old)
<1>0. /\ barriers \in Seq(Barrier) /\ Len(barriers) \in Nat
      /\ DOMAIN barriers = 1 .. Len(barriers)
  BY ListTypes
<1>1. PICK d \in 0 .. Len(barriers) :
        /\ Len(Clear(barriers)) = Len(barriers) - d
        /\ \A i \in 1 .. Len(barriers) - d : Clear(barriers)[i] = barriers[i + d]
        /\ \A i \in 1 .. d : barriers[i].id \in lifted
  BY <1>0, Cleared
<1>2. /\ barriers' = Append(Clear(barriers), NewBarrier(LastId + 1, Old))
      /\ Clear(barriers) \in Seq(Barrier) /\ NewBarrier(LastId + 1, Old) \in Barrier
      /\ barriers' \in Seq(Barrier)
  BY BeginBarriers
<1> DEFINE m == Len(barriers) - d
           new == NewBarrier(LastId + 1, Old)
           cs == Clear(barriers)
<1>3. m \in Nat /\ Len(cs) = m
  BY <1>0, <1>1
<1>4. \A i \in 1 .. m : i + d \in DOMAIN barriers /\ cs[i] = barriers[i + d]
  BY <1>0, <1>1
<1>5. barriers' = Append(cs, new) /\ cs \in Seq(Barrier)
  BY <1>2
<1> HIDE DEF m, new, cs
<1>6. /\ Len(barriers') = m + 1 /\ DOMAIN barriers' = 1 .. m + 1
      /\ \A i \in 1 .. m : barriers'[i] = cs[i]
      /\ barriers'[m + 1] = new
  BY <1>3, <1>5
<1>7. /\ Len(barriers') = m + 1 /\ DOMAIN barriers' = 1 .. m + 1
      /\ \A i \in 1 .. d : barriers[i].id \in lifted
      /\ \A i \in 1 .. m : i + d \in DOMAIN barriers /\ barriers'[i] = barriers[i + d]
      /\ barriers'[m + 1] = new
  BY <1>1, <1>4, <1>6
<1>8. QED
  BY <1>7 DEF m, new

\* The steps that leave the ids where they are.
LEMMA SameIds ==
  ASSUME TypesInv, IdInv, Len(barriers') = Len(barriers), DOMAIN barriers' = DOMAIN barriers,
         \A i \in DOMAIN barriers : barriers'[i].id = barriers[i].id,
         lifted \subseteq lifted', lifted' \subseteq lifted \cup Ids
  PROVE  /\ LastId' = LastId /\ (lifted \cup Ids)' = 1 .. LastId'
         /\ \A i \in DOMAIN barriers' : barriers'[i].id = LastId' - Len(barriers') + i
<1>1. Ids' = Ids
  BY DEF Ids
<1>2. lifted' \cup Ids' = lifted \cup Ids
  BY <1>1
<1>3. LastId' = LastId
  BY <1>2 DEF LastId, Ids
<1>4. QED
  BY <1>2, <1>3 DEF IdInv

\* The ids after a completion.
LEMMA CompletionIds ==
  ASSUME TypesInv, IdInv, NEW k \in Kernels, NEW c \in Contexts, KernelCompletion(k, c)
  PROVE  /\ LastId' = LastId /\ (lifted \cup Ids)' = 1 .. LastId'
         /\ \A i \in DOMAIN barriers' : barriers'[i].id = LastId' - Len(barriers') + i
<1>0. /\ Len(barriers) \in Nat /\ DOMAIN barriers = 1 .. Len(barriers) /\ LastId \in Nat
      /\ \A i \in DOMAIN barriers : barriers[i] \in Barrier
  BY ListTypes
<1>1. PICK d \in 0 .. Len(barriers) :
           /\ Len(barriers') = Len(barriers) - d /\ DOMAIN barriers' = 1 .. Len(barriers) - d
           /\ \A i \in 1 .. d : barriers[i].id \in lifted
           /\ \A i \in 1 .. Len(barriers) - d :
                /\ i + d \in DOMAIN barriers
                /\ barriers'[i] = RegisterCompletion(barriers[i + d], k[1])
  BY CompletionList
<1>2. k[1] \in Queues
  BY KernelOf
<1>3. \A i \in 1 .. Len(barriers) - d : barriers'[i].id = barriers[i + d].id
  BY <1>0, <1>1, <1>2, RegisterKeeps
<1>4. /\ lifted \subseteq lifted'
      /\ \A id : id \in lifted' <=>
           id \in lifted \/ \E i \in DOMAIN barriers' : barriers'[i].id = id /\ barriers'[i].complete
  BY CompletionLifts
<1>5. lifted' \cup Ids' \subseteq lifted \cup Ids
  <2>1. Ids' \subseteq Ids
    BY <1>1, <1>3 DEF Ids
  <2>2. lifted' \subseteq lifted \cup Ids'
    BY <1>4 DEF Ids
  <2>3. QED
    BY <2>1, <2>2
<1>6. lifted \cup Ids \subseteq lifted' \cup Ids'
  <2>1. ASSUME NEW i \in DOMAIN barriers PROVE barriers[i].id \in lifted' \cup Ids'
    <3>1. CASE i <= d
      <4>1. i \in 1 .. d
        BY <1>0, <3>1
      <4>2. QED
        BY <1>1, <1>4, <4>1
    <3>2. CASE i > d
      <4>1. i - d \in 1 .. Len(barriers) - d /\ (i - d) + d = i
        BY <1>0, <3>2
      <4>2. i - d \in DOMAIN barriers' /\ barriers'[i - d].id = barriers[i].id
        BY <1>1, <1>3, <4>1
      <4>3. QED
        BY <4>2 DEF Ids
    <3>3. QED
      BY <1>0, <3>1, <3>2
  <2>2. QED
    BY <1>4, <2>1 DEF Ids
<1>7. lifted' \cup Ids' = lifted \cup Ids
  BY <1>5, <1>6
<1>8. LastId' = LastId
  BY <1>7 DEF LastId, Ids
<1>9. ASSUME NEW i \in 1 .. Len(barriers) - d
      PROVE  barriers'[i].id = LastId - (Len(barriers) - d) + i
  <2>1. barriers'[i].id = LastId - Len(barriers) + (i + d)
    BY <1>1, <1>3 DEF IdInv
  <2>2. QED
    BY <1>0, <1>1, <2>1
<1>10. QED
  BY <1>1, <1>7, <1>8, <1>9 DEF IdInv

\* The ids after a barrier was added.
LEMMA BeginIds ==
  ASSUME TypesInv, IdInv, SwitchBegin
  PROVE  /\ LastId' = LastId + 1 /\ (lifted \cup Ids)' = 1 .. LastId' /\ LastId + 1 \notin lifted'
         /\ \A i \in DOMAIN barriers' : barriers'[i].id = LastId' - Len(barriers') + i
<1>0. /\ Len(barriers) \in Nat /\ DOMAIN barriers = 1 .. Len(barriers) /\ LastId \in Nat
      /\ \A i \in DOMAIN barriers : barriers[i] \in Barrier
  BY ListTypes
<1>1. PICK d \in 0 .. Len(barriers) :
           /\ Len(barriers') = Len(barriers) - d + 1 /\ DOMAIN barriers' = 1 .. Len(barriers) - d + 1
           /\ \A i \in 1 .. d : barriers[i].id \in lifted
           /\ \A i \in 1 .. Len(barriers) - d :
                i + d \in DOMAIN barriers /\ barriers'[i] = barriers[i + d]
           /\ barriers'[Len(barriers) - d + 1] = NewBarrier(LastId + 1, Old)
  BY BeginList
<1> DEFINE m == Len(barriers) - d
<1>2. m \in Nat /\ DOMAIN barriers' = 1 .. m + 1 /\ m + 1 \in 1 .. m + 1
  BY <1>0, <1>1
<1>3. barriers'[m + 1].id = LastId + 1
  BY <1>1 DEF NewBarrier
<1>4. \A i \in 1 .. m : i + d \in DOMAIN barriers /\ barriers'[i].id = barriers[i + d].id
  BY <1>1
<1>5. lifted' = lifted
  BY DEF SwitchBegin
<1>6. lifted \cup Ids = 1 .. LastId
  BY DEF IdInv
<1>7. lifted' \cup Ids' = (lifted \cup Ids) \cup {LastId + 1}
  <2>1. ASSUME NEW i \in DOMAIN barriers' PROVE barriers'[i].id \in (lifted \cup Ids) \cup {LastId + 1}
    <3>1. CASE i = m + 1
      BY <1>3, <3>1
    <3>2. CASE i # m + 1
      <4>1. i \in 1 .. m
        BY <1>2, <3>2
      <4>2. QED
        BY <1>4, <4>1 DEF Ids
    <3>3. QED
      BY <3>1, <3>2
  <2>2. ASSUME NEW i \in DOMAIN barriers PROVE barriers[i].id \in lifted' \cup Ids'
    <3>1. CASE i <= d
      <4>1. i \in 1 .. d
        BY <1>0, <3>1
      <4>2. QED
        BY <1>1, <1>5, <4>1
    <3>2. CASE i > d
      <4>1. i - d \in 1 .. m /\ (i - d) + d = i /\ i - d \in DOMAIN barriers'
        BY <1>0, <1>2, <3>2
      <4>2. barriers'[i - d].id = barriers[i].id
        BY <1>4, <4>1
      <4>3. QED
        BY <4>1, <4>2 DEF Ids
    <3>3. QED
      BY <1>0, <3>1, <3>2
  <2>3. LastId + 1 \in Ids'
    BY <1>2, <1>3 DEF Ids
  <2>4. Ids' \subseteq (lifted \cup Ids) \cup {LastId + 1}
    BY <2>1 DEF Ids
  <2>5. Ids \subseteq lifted' \cup Ids'
    BY <2>2 DEF Ids
  <2>6. QED
    BY <1>5, <2>3, <2>4, <2>5
<1>8. lifted' \cup Ids' = 1 .. LastId + 1
  BY <1>0, <1>6, <1>7
<1>9. LastId' = LastId + 1
  <2>1. LastId' = Cardinality(lifted' \cup Ids')
    BY DEF LastId, Ids
  <2>2. LastId + 1 \in Nat
    BY <1>0
  <2>3. QED
    BY <1>8, <2>1, <2>2, CountTo
<1>10. LastId + 1 \notin lifted'
  BY <1>0, <1>5, <1>6
<1>11. ASSUME NEW i \in DOMAIN barriers'
       PROVE  barriers'[i].id = (LastId + 1) - (m + 1) + i
  <2>1. CASE i = m + 1
    BY <1>0, <1>2, <1>3, <2>1
  <2>2. CASE i # m + 1
    <3>1. i \in 1 .. m
      BY <1>2, <2>2
    <3>2. barriers'[i].id = LastId - Len(barriers) + (i + d)
      BY <1>4, <3>1 DEF IdInv
    <3>3. QED
      BY <1>0, <1>1, <3>1, <3>2
  <2>3. QED
    BY <2>1, <2>2
<1>12. Len(barriers') = m + 1
  BY <1>1
<1>13. QED
  BY <1>8, <1>9, <1>10, <1>11, <1>12

\* How the last id moves, and what is lifted.
LEMMA LastIdMoves ==
  ASSUME TypesInv, IdInv, Next
  PROVE  /\ SwitchBegin => LastId' = LastId + 1
         /\ ~SwitchBegin => LastId' = LastId
         /\ (lifted \cup Ids)' = 1 .. LastId'
         /\ \A i \in DOMAIN barriers' : barriers'[i].id = LastId' - Len(barriers') + i
<1>1. CASE UNCHANGED <<barriers, lifted>>
  <2>1. LastId' = LastId /\ Ids' = Ids
    BY <1>1 DEF LastId, Ids
  <2>2. ~SwitchBegin
    <3>1. ASSUME SwitchBegin PROVE FALSE
      <4>1. LastId' = LastId + 1 /\ LastId \in Nat
        BY <3>1, BeginIds, ListTypes
      <4>2. QED
        BY <2>1, <4>1
    <3>2. QED
      BY <3>1
  <2>3. QED
    BY <1>1, <2>1, <2>2 DEF IdInv
<1>2. ASSUME NEW q \in Queues, AddSerialization(q)
      PROVE  /\ LastId' = LastId /\ (lifted \cup Ids)' = 1 .. LastId'
             /\ \A i \in DOMAIN barriers' : barriers'[i].id = LastId' - Len(barriers') + i
  <2>1. /\ lifted' = lifted /\ DOMAIN barriers' = DOMAIN barriers /\ Len(barriers') = Len(barriers)
        /\ \A i \in DOMAIN barriers :
              \/ barriers'[i] = barriers[i]
              \/ barriers'[i] = [barriers[i] EXCEPT !.enqueued = @ \cup {q}]
    BY <1>2, PackBarriers
  <2>2. \A i \in DOMAIN barriers : barriers'[i].id = barriers[i].id
    BY <2>1, ListTypes DEF Barrier
  <2>3. QED
    BY <2>1, <2>2, SameIds
<1>3. ASSUME NEW k \in Kernels, NEW c \in Contexts, KernelCompletion(k, c)
      PROVE  /\ LastId' = LastId /\ (lifted \cup Ids)' = 1 .. LastId'
             /\ \A i \in DOMAIN barriers' : barriers'[i].id = LastId' - Len(barriers') + i
  BY <1>3, CompletionIds
<1>4. CASE RecountQueue
  <2>1. /\ lifted' = lifted /\ DOMAIN barriers' = DOMAIN barriers /\ Len(barriers') = Len(barriers)
        /\ \A i \in DOMAIN barriers :
              barriers'[i] = IF i = Len(barriers) THEN Counted(barriers[i], counting, active[counting])
                             ELSE barriers[i]
    BY <1>4, RecountBarriers
  <2>2. \A i \in DOMAIN barriers : barriers'[i].id = barriers[i].id
    BY <2>1, ListTypes DEF Barrier, Counted
  <2>3. ~SwitchBegin
    BY <1>4 DEF RecountQueue, SwitchBegin
  <2>4. QED
    BY <2>1, <2>2, <2>3, SameIds
<1>5. CASE SwitchEnd
  <2>1. barriers' = barriers /\ barriers # << >> /\ ~SwitchBegin
    BY <1>5 DEF SwitchEnd, TypesInv, ToolTypes, SwitchBegin
  <2>2. lifted' \in {lifted, lifted \cup {Last(barriers).id}}
    BY <1>5 DEF SwitchEnd
  <2>3. Last(barriers).id \in Ids
    <3>1. Len(barriers) \in DOMAIN barriers /\ Last(barriers) = barriers[Len(barriers)]
      BY <2>1, ListTypes DEF Last
    <3>2. QED
      BY <3>1 DEF Ids
  <2>4. QED
    BY <2>1, <2>2, <2>3, SameIds
<1>6. ASSUME NEW q \in Queues, AddSerialization(q) PROVE ~SwitchBegin
  BY <1>6 DEF AddSerialization, SwitchBegin, toolVars
<1>7. ASSUME NEW k \in Kernels, NEW c \in Contexts, KernelCompletion(k, c) PROVE ~SwitchBegin
  BY <1>7 DEF KernelCompletion, SwitchBegin, toolVars
<1>8. QED
  BY <1>1, <1>2, <1>3, <1>4, <1>5, <1>6, <1>7, BarriersKept, BeginIds

\* The lock is taken and given back by the tool's thread.
LEMMA HeldMoves ==
  ASSUME Next, ~SwitchBegin, ~SwitchEnd
  PROVE  held' = held
<1>1. ASSUME ToolStep PROVE held' = held
  BY <1>1, Zenon DEF ToolStep, Start, Stop, FinalizeBegin, FinalizeEnd, Tool, Switch, SwitchNothing,
                     CountQueue, RecountQueue, Mark, Install, Sync, Started
<1>2. QED
  BY <1>1, ToolVarsMove

\* An id is lifted only as its barrier waits for nobody.
Settled(i) ==
  /\ barriers[i].complete => barriers[i].id \in lifted
  /\ barriers[i].id \in lifted => DOMAIN barriers[i].waiting = {}
  /\ barriers[i].id \notin lifted /\ DOMAIN barriers[i].waiting = {} =>
       held /\ i = Len(barriers)

\* The three parts of IdInv, in this state and the next.
LEMMA IdSplit ==
  /\ IdInv <=> /\ lifted \cup Ids = 1 .. LastId
               /\ \A i \in DOMAIN barriers : barriers[i].id = LastId - Len(barriers) + i
               /\ \A i \in DOMAIN barriers : Settled(i)
  /\ IdInv' <=> /\ (lifted \cup Ids)' = 1 .. LastId'
                /\ \A i \in DOMAIN barriers' : barriers'[i].id = LastId' - Len(barriers') + i
                /\ \A i \in DOMAIN barriers' : Settled(i)'
BY DEF IdInv, Settled

\* A barrier that a completion leaves with nothing to count is lifted.
LEMMA CompletionSettles ==
  ASSUME TypesInv, IdInv, NEW k \in Kernels, NEW c \in Contexts, KernelCompletion(k, c),
         NEW i \in DOMAIN barriers',
         \A j \in DOMAIN barriers' : barriers'[j].id = barriers'[i].id => j = i
  PROVE  Settled(i)'
<1> DEFINE q == k[1]
<1>0. /\ Len(barriers) \in Nat /\ DOMAIN barriers = 1 .. Len(barriers)
      /\ \A j \in DOMAIN barriers : barriers[j] \in Barrier
  BY ListTypes
<1>1. PICK d \in 0 .. Len(barriers) :
           /\ DOMAIN barriers' = 1 .. Len(barriers) - d
           /\ \A j \in 1 .. Len(barriers) - d :
                /\ j + d \in DOMAIN barriers
                /\ barriers'[j] = RegisterCompletion(barriers[j + d], q)
  BY CompletionList
<1>2. q \in Queues
  BY KernelOf
<1> HIDE DEF q
<1>3. /\ ~held /\ lifted \subseteq lifted'
      /\ \A id : id \in lifted' <=>
           id \in lifted \/ \E j \in DOMAIN barriers' : barriers'[j].id = id /\ barriers'[j].complete
  BY CompletionLifts
<1>4. PICK b \in Barrier : /\ barriers'[i] = RegisterCompletion(b, q)
                           /\ b.complete => b.id \in lifted
                           /\ b.id \in lifted => DOMAIN b.waiting = {}
                           /\ b.id \notin lifted => DOMAIN b.waiting # {}
  <2>1. i + d \in DOMAIN barriers /\ barriers'[i] = RegisterCompletion(barriers[i + d], q)
    BY <1>1
  <2>2. Settled(i + d)
    BY <2>1, IdSplit
  <2>3. QED
    BY <1>0, <1>3, <2>1, <2>2 DEF Settled
<1> DEFINE r == RegisterCompletion(b, q)
<1>5. /\ r.id = b.id
      /\ ~Waits(b, q) => r = b
      /\ Waits(b, q) /\ b.waiting[q] = 1 =>
           /\ DOMAIN r.waiting = DOMAIN b.waiting \ {q}
           /\ r.complete <=> b.complete \/ DOMAIN b.waiting = {q}
      /\ Waits(b, q) /\ b.waiting[q] # 1 =>
           DOMAIN r.waiting = DOMAIN b.waiting /\ r.complete = b.complete
  BY <1>2, RegisterKeeps
<1>6. barriers'[i] = r
  BY <1>4
<1> HIDE DEF r
<1>7. r.id \in lifted' <=> b.id \in lifted \/ r.complete
  BY <1>3, <1>5, <1>6
<1>8. Waits(b, q) <=> q \in DOMAIN b.waiting
  BY DEF Waits
<1>9. /\ r.complete => r.id \in lifted'
      /\ r.id \in lifted' => DOMAIN r.waiting = {}
      /\ r.id \notin lifted' => DOMAIN r.waiting # {}
  <2>1. CASE ~Waits(b, q)
    BY <1>4, <1>5, <1>7, <2>1
  <2>2. CASE Waits(b, q) /\ b.waiting[q] = 1
    <3>1. b.id \notin lifted /\ ~b.complete
      BY <1>4, <1>8, <2>2
    <3>2. QED
      BY <1>5, <1>7, <1>8, <2>2, <3>1
  <2>3. CASE Waits(b, q) /\ b.waiting[q] # 1
    BY <1>4, <1>5, <1>7, <2>3
  <2>4. QED
    BY <2>1, <2>2, <2>3
<1>10. QED
  BY <1>6, <1>9 DEF Settled

\* The numbers of barriers: each is set once, in order, and lifted when it is complete.
LEMMA IdStep ==
  ASSUME TypesInv, IdInv, HeldInv, Next
  PROVE  IdInv'
<1>0. /\ barriers \in Seq(Barrier) /\ Len(barriers) \in Nat
      /\ DOMAIN barriers = 1 .. Len(barriers) /\ LastId \in Nat
      /\ \A i \in DOMAIN barriers : barriers[i] \in Barrier
  BY ListTypes
<1>1. /\ (lifted \cup Ids)' = 1 .. LastId'
      /\ \A i \in DOMAIN barriers' : barriers'[i].id = LastId' - Len(barriers') + i
  BY LastIdMoves
<1>2. SUFFICES ASSUME NEW i \in DOMAIN barriers' PROVE Settled(i)'
  BY <1>1, IdSplit
<1>3. \A j \in DOMAIN barriers : Settled(j)
  BY IdSplit
<1>4. CASE UNCHANGED <<barriers, lifted>>
  <2>1. ~SwitchBegin
    <3>1. ASSUME SwitchBegin PROVE FALSE
      <4>1. LastId' = LastId + 1 /\ LastId' = LastId
        BY <1>4, <3>1, BeginIds DEF LastId
      <4>2. QED
        BY <1>0, <4>1
    <3>2. QED
      BY <3>1
  <2>2. CASE ~SwitchEnd
    <3>1. held' = held
      BY <2>1, <2>2, HeldMoves
    <3>2. QED
      BY <1>3, <1>4, <3>1 DEF Settled
  <2>3. CASE SwitchEnd
    <3>1. /\ DOMAIN Last(barriers).waiting = {} => lifted = lifted \cup {Last(barriers).id}
          /\ barriers # << >>
      BY <1>4, <2>3 DEF SwitchEnd, TypesInv, ToolTypes
    <3>2. Last(barriers) = barriers[Len(barriers)]
      BY <1>0, <3>1 DEF Last
    <3>3. Settled(i)
      BY <1>3, <1>4
    <3>4. barriers[i].id \notin lifted => DOMAIN barriers[i].waiting # {}
      BY <3>1, <3>2, <3>3 DEF Settled
    <3>5. QED
      BY <1>4, <3>3, <3>4 DEF Settled
  <2>4. QED
    BY <2>2, <2>3
<1>5. ASSUME NEW q \in Queues, AddSerialization(q) PROVE Settled(i)'
  <2>1. /\ lifted' = lifted /\ DOMAIN barriers' = DOMAIN barriers /\ Len(barriers') = Len(barriers)
        /\ \A j \in DOMAIN barriers :
              \/ barriers'[j] = barriers[j]
              \/ barriers'[j] = [barriers[j] EXCEPT !.enqueued = @ \cup {q}]
    BY <1>5, PackBarriers
  <2>2. /\ barriers'[i].id = barriers[i].id /\ barriers'[i].waiting = barriers[i].waiting
        /\ barriers'[i].complete = barriers[i].complete
    BY <1>0, <2>1 DEF Barrier
  <2>3. held' = held
    BY <1>5 DEF AddSerialization
  <2>4. Settled(i)
    BY <1>3, <2>1
  <2>5. QED
    BY <2>1, <2>2, <2>3, <2>4 DEF Settled
<1>6. ASSUME NEW k \in Kernels, NEW c \in Contexts, KernelCompletion(k, c) PROVE Settled(i)'
  <2>1. PICK m \in Int : m = LastId' - Len(barriers')
    <3>1. Len(barriers') \in Int /\ LastId' \in Int
      <4>1. \E d \in 0 .. Len(barriers) : Len(barriers') = Len(barriers) - d
        BY <1>6, CompletionList
      <4>2. LastId' = LastId
        BY <1>6, CompletionIds
      <4>3. QED
        BY <1>0, <4>1, <4>2
    <3>2. LastId' - Len(barriers') \in Int
      BY <3>1
    <3>3. QED
      BY <3>2
  <2>2. \A j \in DOMAIN barriers' : barriers'[j].id = m + j /\ j \in Int
    <3>1. DOMAIN barriers' \subseteq Int
      BY <1>6, CompletionList
    <3>2. QED
      BY <1>1, <2>1, <3>1
  <2>3. \A j \in DOMAIN barriers' : barriers'[j].id = barriers'[i].id => j = i
    BY <2>1, <2>2
  <2>4. QED
    BY <1>6, <2>3, CompletionSettles
<1>7. CASE SwitchBegin
  <2>1. PICK d \in 0 .. Len(barriers) :
           /\ Len(barriers') = Len(barriers) - d + 1 /\ DOMAIN barriers' = 1 .. Len(barriers) - d + 1
           /\ \A j \in 1 .. Len(barriers) - d :
                j + d \in DOMAIN barriers /\ barriers'[j] = barriers[j + d]
           /\ barriers'[Len(barriers) - d + 1] = NewBarrier(LastId + 1, Old)
    BY <1>7, BeginList
  <2>2. lifted' = lifted /\ ~held /\ held'
    BY <1>7 DEF SwitchBegin
  <2>3. CASE i = Len(barriers) - d + 1
    <3>1. barriers'[i].id = LastId + 1 /\ barriers'[i].complete = FALSE /\ i = Len(barriers')
      BY <2>1, <2>3 DEF NewBarrier
    <3>2. LastId + 1 \notin lifted'
      BY <1>7, BeginIds
    <3>3. QED
      BY <2>2, <3>1, <3>2 DEF Settled
  <2>4. CASE i # Len(barriers) - d + 1
    <3>1. i \in 1 .. Len(barriers) - d
      BY <1>0, <2>1, <2>4
    <3>2. Settled(i + d) /\ barriers'[i] = barriers[i + d]
      BY <1>3, <2>1, <3>1
    <3>3. QED
      BY <2>2, <3>2 DEF Settled
  <2>5. QED
    BY <2>3, <2>4
<1>8. CASE RecountQueue
  <2>1. /\ lifted' = lifted /\ DOMAIN barriers' = DOMAIN barriers /\ Len(barriers') = Len(barriers)
        /\ Len(barriers) \in DOMAIN barriers
        /\ \A j \in DOMAIN barriers :
              barriers'[j] = IF j = Len(barriers) THEN Counted(barriers[j], counting, active[counting])
                             ELSE barriers[j]
    BY <1>8, RecountBarriers
  <2>2. held' = held /\ held
    BY <1>8 DEF RecountQueue, TypesInv, ToolTypes
  <2>3. Settled(i)
    BY <1>3, <2>1
  <2>4. CASE i = Len(barriers)
    <3>1. barriers'[i].id = barriers[i].id /\ barriers'[i].complete = barriers[i].complete
      BY <1>0, <2>1, <2>4 DEF Counted, Barrier
    <3>2. barriers[i].id \notin lifted
      BY <2>2, <2>4 DEF HeldInv
    <3>3. QED
      BY <2>1, <2>2, <2>3, <2>4, <3>1, <3>2 DEF Settled
  <2>5. CASE i # Len(barriers)
    BY <2>1, <2>2, <2>3, <2>5 DEF Settled
  <2>6. QED
    BY <2>4, <2>5
<1>9. CASE SwitchEnd
  <2>1. /\ barriers' = barriers /\ barriers # << >> /\ held' = FALSE
        /\ lifted' = IF DOMAIN Last(barriers).waiting = {} THEN lifted \cup {Last(barriers).id} ELSE lifted
    BY <1>9 DEF SwitchEnd, TypesInv, ToolTypes
  <2>2. Len(barriers) \in DOMAIN barriers /\ Last(barriers) = barriers[Len(barriers)]
    BY <1>0, <2>1 DEF Last
  <2>3. Settled(i)
    BY <1>3, <2>1
  <2>4. barriers[i].id = barriers[Len(barriers)].id => i = Len(barriers)
    BY <2>1, <2>2, IdsDiffer
  <2>5. CASE DOMAIN Last(barriers).waiting = {}
    BY <2>1, <2>2, <2>3, <2>4, <2>5 DEF Settled
  <2>6. CASE DOMAIN Last(barriers).waiting # {}
    BY <2>1, <2>2, <2>3, <2>6 DEF Settled
  <2>7. QED
    BY <2>5, <2>6
<1>10. QED
  BY <1>4, <1>5, <1>6, <1>7, <1>8, <1>9, BarriersKept

\* What the tool's thread has yet to count changes only as it goes on.
LEMMA ToCountMoves ==
  ASSUME TypesInv, Next, held, ~RecountQueue, ~SwitchEnd
  PROVE  /\ ToCount' \subseteq ToCount /\ UNCHANGED <<barriers, lifted, alive>> /\ held'
         /\ (cpc = "recount" => counting \notin to_count) =>
              (cpc' = "recount" => counting' \notin to_count')
<1>1. cpc \in {"count", "recount"} /\ ~SwitchBegin
  BY DEF TypesInv, ToolTypes, SwitchBegin
<1>2. held'
  BY <1>1, HeldMoves
<1>3. UNCHANGED <<barriers, lifted>>
  <2>1. (\A q \in Queues : ~AddSerialization(q)) /\ \A k \in Kernels, c \in Contexts : ~KernelCompletion(k, c)
    BY DEF AddSerialization, KernelCompletion
  <2>2. QED
    BY <1>1, <2>1, BarriersKept
<1>4. CASE UNCHANGED toolVars
  <2>1. UNCHANGED alive
    <3>1. ASSUME NEW q \in Queues, Destroy(q) PROVE FALSE
      BY <3>1 DEF Destroy
    <3>2. ASSUME NEW q \in Queues,
                 \/ WriteDirectly(q) \/ InterceptBegin(q) \/ AddSerialization(q) \/ Submit(q)
                 \/ PassBarrier(q) \/ PassReady(q) \/ PassBlock(q) \/ Launch(q) \/ QueueReady(q)
                 \/ \E c \in Contexts : AskContext(q, c)
          PROVE  UNCHANGED alive
      BY <3>2, Zenon DEF WriteDirectly, InterceptBegin, AddSerialization, Submit, PassBarrier,
                         PassReady, PassBlock, Launch, QueueReady, AskContext
    <3>3. ASSUME NEW k \in Kernels,
                 Complete(k) \/ AsyncComplete(k) \/ \E c \in Contexts : KernelCompletion(k, c)
          PROVE  UNCHANGED alive
      BY <3>3, Zenon DEF Complete, AsyncComplete, KernelCompletion
    <3>4. QED
      BY <3>1, <3>2, <3>3, Steps, ToolKeeps, Zenon
  <2>2. QED
    BY <1>2, <1>3, <1>4, <2>1 DEF ToCount, toolVars
<1>5. ASSUME ToolStep PROVE \E q \in Queues : CountQueue(q)
  BY <1>1, <1>5, Zenon DEF ToolStep, Start, Stop, FinalizeBegin, FinalizeEnd, Tool, Switch, SwitchNothing,
                     SwitchBegin, Mark, Install, Sync, Started, TypesInv, ToolTypes
<1>6. ASSUME NEW q \in Queues, CountQueue(q)
      PROVE  /\ ToCount' \subseteq ToCount /\ UNCHANGED alive
             /\ cpc' = "recount" => counting' \notin to_count'
  <2>1. /\ cpc = "count" /\ q \in to_count /\ to_count' = to_count \ {q} /\ UNCHANGED alive
        /\ \/ cpc' = "recount" /\ counting' = q
           \/ cpc' = cpc /\ counting' = counting
    BY <1>6 DEF CountQueue, NextOf
  <2>2. QED
    BY <1>2, <2>1 DEF ToCount
<1>7. QED
  BY <1>2, <1>3, <1>4, <1>5, <1>6, ToolVarsMove

\* The last barrier is not lifted while the switch holds the lock.
LEMMA HeldStep ==
  ASSUME TypesInv, IdInv, HeldInv, Next
  PROVE  HeldInv'
<1>0. /\ barriers \in Seq(Barrier) /\ Len(barriers) \in Nat
      /\ DOMAIN barriers = 1 .. Len(barriers) /\ LastId \in Nat
      /\ \A i \in DOMAIN barriers : barriers[i] \in Barrier
  BY ListTypes
<1>1. held <=> cpc \in {"count", "recount"}
  BY DEF TypesInv, ToolTypes
<1>2. held' <=> cpc' \in {"count", "recount"}
  BY ToolTypesStep DEF ToolTypes
<1>3. CASE SwitchBegin
  <2>1. PICK d \in 0 .. Len(barriers) :
           /\ Len(barriers') = Len(barriers) - d + 1
           /\ barriers'[Len(barriers) - d + 1] = NewBarrier(LastId + 1, Old)
    BY <1>3, BeginList
  <2>2. barriers'[Len(barriers')].id = LastId + 1 /\ DOMAIN barriers'[Len(barriers')].waiting = {}
    BY <2>1 DEF NewBarrier, NoneWaiting
  <2>3. LastId + 1 \notin lifted'
    BY <1>3, BeginIds
  <2>4. to_count' = alive /\ alive' = alive /\ cpc' = "count"
    BY <1>3 DEF SwitchBegin
  <2>5. QED
    BY <2>2, <2>3, <2>4 DEF HeldInv, ToCount
<1>4. CASE SwitchEnd
  <2>1. ~held' /\ cpc' # "recount"
    BY <1>2, <1>4 DEF SwitchEnd
  <2>2. QED
    BY <2>1 DEF HeldInv
<1>5. CASE RecountQueue
  <2>1. /\ lifted' = lifted /\ Len(barriers') = Len(barriers) /\ Len(barriers) \in DOMAIN barriers
        /\ barriers'[Len(barriers)] = Counted(barriers[Len(barriers)], counting, active[counting])
    BY <1>5, RecountBarriers
  <2>2. /\ barriers'[Len(barriers')].id = barriers[Len(barriers)].id
        /\ DOMAIN barriers'[Len(barriers')].waiting = DOMAIN barriers[Len(barriers)].waiting \cup {counting}
    BY <1>0, <2>1 DEF Counted, Barrier
  <2>3. cpc = "recount" /\ cpc' = "count" /\ to_count' = to_count /\ alive' = alive /\ held' = held
    BY <1>5 DEF RecountQueue
  <2>4. QED
    BY <1>1, <2>1, <2>2, <2>3 DEF HeldInv, ToCount
<1>6. CASE ~held /\ ~SwitchBegin /\ ~SwitchEnd
  <2>1. ~held' /\ cpc' # "recount"
    BY <1>2, <1>6, HeldMoves
  <2>2. QED
    BY <2>1 DEF HeldInv
<1>7. CASE held /\ ~RecountQueue /\ ~SwitchEnd
  BY <1>7, ToCountMoves DEF HeldInv
<1>8. QED
  BY <1>3, <1>4, <1>5, <1>6, <1>7

\* Only packing gives a kernel an epoch.
LEMMA EpochMoves ==
  ASSUME TypesInv, Next, NEW k \in Kernels
  PROVE  \/ kernels'[k].epoch = kernels[k].epoch
         \/ \E q \in Queues : AddSerialization(q) /\ kernels'[k].epoch = LastId
<1>1. ASSUME NEW q \in Queues, WriteDirectly(q) PROVE kernels'[k].epoch = kernels[k].epoch
  BY <1>1, WriteEffect DEF Same, Asked
<1>2. ASSUME NEW q \in Queues, InterceptBegin(q) PROVE kernels'[k].epoch = kernels[k].epoch
  <2>1. PICK j \in Kernels : /\ Same(j) /\ kernels[j] = NoKernel
                             /\ kernels'[j] = [NoKernel EXCEPT !.at = "started", !.tracked = TRUE]
    BY <1>2, InterceptEffect
  <2>2. kernels'[j].epoch = kernels[j].epoch
    BY <2>1 DEF NoKernel
  <2>3. QED
    BY <2>1, <2>2 DEF Same
<1>3. ASSUME NEW q \in Queues, NEW c \in Contexts, AskContext(q, c) PROVE kernels'[k].epoch = kernels[k].epoch
  BY <1>3, AskEffect DEF Same, Asked
<1>4. ASSUME NEW q \in Queues, AddSerialization(q)
      PROVE  kernels'[k].epoch = kernels[k].epoch \/ kernels'[k].epoch = LastId
  BY <1>4, PackEffect DEF Same
<1>5. ASSUME NEW q \in Queues, Submit(q) \/ Launch(q) PROVE kernels'[k].epoch = kernels[k].epoch
  BY <1>5, SubmitEffect, LaunchEffect DEF Same, Asked
<1>6. ASSUME NEW j \in Kernels,
             Complete(j) \/ AsyncComplete(j) \/ \E c \in Contexts : KernelCompletion(j, c)
      PROVE  kernels'[k].epoch = kernels[k].epoch
  BY <1>6, CompleteEffect, AsyncEffect, CompletionEffect DEF Same, Asked
<1>7. QED
  BY <1>1, <1>2, <1>3, <1>4, <1>5, <1>6, Steps, ToolKeeps, OthersKeepKernels, Zenon DEF OtherStep

\* No kernel was dispatched after a barrier that is still being set.
LEMMA EpochStep ==
  ASSUME TypesInv, IdInv, EpochInv, Next
  PROVE  EpochInv'
<1> SUFFICES ASSUME NEW k \in Kernels
             PROVE  kernels'[k].epoch <= LastId' /\ (held' => kernels'[k].epoch < LastId')
  BY DEF EpochInv
<1>0. LastId \in Nat /\ kernels[k].epoch \in Nat
  BY ListTypes DEF TypesInv, KernelTypes, KernelRecord
<1>1. kernels[k].epoch <= LastId /\ (held => kernels[k].epoch < LastId)
  BY DEF EpochInv
<1>2. CASE SwitchBegin
  <2>1. kernels'[k].epoch = kernels[k].epoch
    BY <1>2 DEF SwitchBegin
  <2>2. LastId' = LastId + 1
    BY <1>2, LastIdMoves
  <2>3. QED
    BY <1>0, <1>1, <2>1, <2>2
<1>3. CASE ~SwitchBegin
  <2>1. LastId' = LastId
    BY <1>3, LastIdMoves
  <2>2. held' => held
    BY <1>3, HeldMoves DEF SwitchEnd
  <2>3. CASE kernels'[k].epoch = kernels[k].epoch
    BY <1>1, <2>1, <2>2, <2>3
  <2>4. ASSUME NEW q \in Queues, AddSerialization(q), kernels'[k].epoch = LastId
        PROVE  kernels'[k].epoch <= LastId' /\ (held' => kernels'[k].epoch < LastId')
    <3>1. ~held'
      BY <2>4 DEF AddSerialization
    <3>2. QED
      BY <1>0, <2>1, <2>4, <3>1
  <2>5. QED
    BY <2>3, <2>4, EpochMoves
<1>4. QED
  BY <1>2, <1>3

\* A queue that leaves has no kernel whose handler has yet to end.
LEMMA DestroyEmpties ==
  ASSUME TypesInv, NEW q \in Queues, Destroy(q)
  PROVE  Emptied(q)'
<1>1. /\ pc' = [pc EXCEPT ![q] = "destroyed"] /\ hw' = hw /\ hw[q] = << >> /\ kernels' = kernels
      /\ active[q] = 0 /\ \A k \in Kernels : k[1] = q => kernels[k].at \in {"none", "gone"}
  BY DEF Destroy
<1>2. Cardinality(Outstanding(q)) <= 0
  BY <1>1 DEF TypesInv, ActiveInv
<1>3. Outstanding(q) = {}
  BY <1>2, OutstandingFinite, FS_EmptySet
<1>4. ASSUME NEW k \in Kernels, k[1] = q PROVE kernels[k].todo = {}
  <2>1. k \in KernelsOf(q) /\ Sane(kernels[k])
    BY <1>4, KernelOf DEF TypesInv, KernelTypes
  <2>2. QED
    BY <1>3, <2>1 DEF Outstanding, Sane
<1>5. pc'[q] = "destroyed"
  BY <1>1 DEF TypesInv, QueueTypes
<1>6. QED
  BY <1>1, <1>4, <1>5 DEF Emptied

\* A queue that is gone has nothing left.
LEMMA GoneStep ==
  ASSUME TypesInv, GoneInv, Next
  PROVE  GoneInv'
<1>0. pc \in [Queues -> {"idle", "ask", "pack", "destroyed"}]
  BY DEF TypesInv, QueueTypes
<1>1. ASSUME NEW q \in Queues, Destroy(q) PROVE GoneInv'
  <2>1. alive' = alive \ {q} /\ pc' = [pc EXCEPT ![q] = "destroyed"] /\ hw' = hw /\ kernels' = kernels
    BY <1>1 DEF Destroy
  <2>2. ASSUME NEW p \in Queues, p \notin alive', p # q PROVE Emptied(p)'
    BY <1>0, <2>1, <2>2 DEF GoneInv, Emptied
  <2>3. QED
    BY <1>1, <2>2, DestroyEmpties DEF GoneInv
<1>2. ASSUME NEW q \in Queues, pc[q] # "destroyed", alive' = alive, OthersStay(q) \/ hw' = hw,
             \A p \in Queues : p # q => pc'[p] = pc[p],
             \A k \in Kernels : k[1] # q => kernels'[k] = kernels[k]
      PROVE  GoneInv'
  <2>1. ASSUME NEW p \in Queues, p \notin alive PROVE Emptied(p)'
    <3>1. Emptied(p) /\ p # q
      BY <1>2, <2>1 DEF GoneInv, Emptied
    <3>2. pc'[p] = pc[p] /\ hw'[p] = hw[p] /\ \A k \in Kernels : k[1] = p => kernels'[k] = kernels[k]
      BY <1>2, <3>1 DEF OthersStay
    <3>3. QED
      BY <3>1, <3>2 DEF Emptied
  <2>2. QED
    BY <1>2, <2>1 DEF GoneInv
<1>3. ASSUME NEW q \in Queues, WriteDirectly(q) \/ InterceptBegin(q) \/ Submit(q) \/ AddSerialization(q)
      PROVE  GoneInv'
  <2>1. /\ alive' = alive /\ pc[q] \in {"idle", "ask", "pack"}
        /\ \/ pc' = pc \/ \E s \in {"idle", "ask", "pack"} : pc' = [pc EXCEPT ![q] = s]
    BY <1>3, Zenon DEF WriteDirectly, InterceptBegin, Submit, AddSerialization
  <2>2. PICK k \in Kernels : Same(k) /\ k[1] = q
    BY <1>3, WriteEffect, InterceptEffect, SubmitEffect, PackEffect
  <2>3. OthersStay(q) \/ hw' = hw
    BY <1>3, WriteGrows, SubmitGrows DEF InterceptBegin, AddSerialization
  <2>4. QED
    BY <1>0, <1>2, <2>1, <2>2, <2>3 DEF Same
<1>4. ASSUME NEW q \in Queues, NEW c \in Contexts, AskContext(q, c) PROVE GoneInv'
  <2>1. alive' = alive /\ pc[q] = "ask" /\ pc' = [pc EXCEPT ![q] = "pack"] /\ hw' = hw
    BY <1>4 DEF AskContext
  <2>2. PICK k \in Kernels : Same(k) /\ k[1] = q
    BY <1>4, AskEffect
  <2>3. QED
    BY <1>0, <1>2, <2>1, <2>2 DEF Same
<1>5. ASSUME NEW q \in Queues, PassStep(q) PROVE GoneInv'
  <2>1. alive' = alive /\ pc' = pc /\ hw[q] # << >>
    BY <1>5, Zenon DEF PassStep, PassBarrier, PassReady, PassBlock, Launch, HeadIs, threadVars
  <2>2. OthersStay(q)
    BY <1>5, PassShrinks
  <2>3. \A k \in Kernels : k[1] # q => kernels'[k] = kernels[k]
    BY <1>5, LaunchEffect, OthersKeepKernels DEF PassStep, OtherStep, Same
  <2>4. ASSUME NEW p \in Queues, p \notin alive PROVE Emptied(p)'
    <3>1. Emptied(p) /\ p # q
      BY <2>1, <2>4 DEF GoneInv, Emptied
    <3>2. QED
      BY <2>1, <2>2, <2>3, <3>1 DEF Emptied, OthersStay
  <2>5. QED
    BY <2>1, <2>4 DEF GoneInv
<1>6. ASSUME NEW k \in Kernels,
             Complete(k) \/ AsyncComplete(k) \/ \E c \in Contexts : KernelCompletion(k, c)
      PROVE  GoneInv'
  <2>1. alive' = alive /\ pc' = pc /\ hw' = hw
    BY <1>6, Zenon DEF Complete, AsyncComplete, KernelCompletion, threadVars
  <2>2. Same(k) /\ kernels[k].at \in {"running", "handled"}
    BY <1>6, CompleteEffect, AsyncEffect, CompletionEffect DEF From
  <2>3. ASSUME NEW p \in Queues, p \notin alive PROVE Emptied(p)'
    <3>1. Emptied(p) /\ \A j \in Kernels : j[1] = p => j # k
      BY <2>2, <2>3 DEF GoneInv, Emptied
    <3>2. QED
      BY <2>1, <2>2, <3>1 DEF Emptied, Same
  <2>4. QED
    BY <2>1, <2>3 DEF GoneInv
<1>7. ASSUME UNCHANGED <<alive, pc, hw, kernels>> PROVE GoneInv'
  BY <1>7 DEF GoneInv, Emptied
<1>8. ASSUME NEW q \in Queues, QueueReady(q) PROVE UNCHANGED <<alive, pc, hw, kernels>>
  BY <1>8, Zenon DEF QueueReady, threadVars
<1>9. QED
  BY <1>1, <1>3, <1>4, <1>5, <1>6, <1>7, <1>8, Steps, ToolKeeps, Zenon DEF PassStep

\* What holds whatever the barriers count holds at the start and in every step.
LEMMA StructInit == Init => StructInv
<1> SUFFICES ASSUME Init PROVE StructInv
  OBVIOUS
<1>1. /\ barriers = << >> /\ lifted = {} /\ held = FALSE /\ cpc = "idle" /\ alive = Queues
      /\ kernels = [k \in Kernels |-> NoKernel]
  BY DEF Init
<1>2. DOMAIN barriers = {} /\ Ids = {}
  BY <1>1 DEF Ids
<1>3. LastId = 0
  <2>1. LastId = Cardinality({})
    BY <1>1, <1>2 DEF LastId
  <2>2. QED
    BY <2>1, FS_EmptySet
<1>4. IdInv
  BY <1>1, <1>2, <1>3 DEF IdInv
<1>5. HeldInv
  BY <1>1 DEF HeldInv
<1>6. EpochInv
  BY <1>1, <1>3 DEF EpochInv, NoKernel
<1>7. GoneInv
  BY <1>1 DEF GoneInv
<1>8. QED
  BY <1>4, <1>5, <1>6, <1>7 DEF StructInv

\* The structure is kept, whatever is counted.
LEMMA StructStep ==
  ASSUME TypesInv, StructInv, [Next]_vars
  PROVE  StructInv'
<1>1. CASE Next
  BY <1>1, IdStep, HeldStep, EpochStep, GoneStep DEF StructInv
<1>2. CASE UNCHANGED vars
  <2> USE <1>2 DEF vars, serializerVars, threadVars, toolVars
  <2>1. LastId' = LastId /\ Ids' = Ids /\ ToCount' = ToCount
    BY DEF LastId, Ids, ToCount
  <2>2. IdInv'
    BY <2>1 DEF StructInv, IdInv
  <2>3. HeldInv'
    BY <2>1 DEF StructInv, HeldInv
  <2>4. EpochInv' /\ GoneInv'
    BY <2>1 DEF StructInv, EpochInv, GoneInv, Emptied
  <2>5. QED
    BY <2>2, <2>3, <2>4 DEF StructInv
<1>3. QED
  BY <1>1, <1>2

-----------------------------------------------------------------------------
\* What holds of the barriers and the turns while every count is right and no kernel
\* has two turns.
Pending(k) == kernels[k].todo # {}
Launched == {"running", "handled", "gone"}

\* The completions that a barrier waits for, of one queue: those of kernels that got
\* their packets before it was set.
Regs(q, id) ==
  {p \in KernelsOf(q) \X Contexts : p[2] \in kernels[p[1]].todo /\ kernels[p[1]].epoch < id}
Counts(i, q) ==
  /\ Waits(barriers[i], q) <=> Regs(q, barriers[i].id) # {}
  /\ Waits(barriers[i], q) => barriers[i].waiting[q] = Cardinality(Regs(q, barriers[i].id))
CountInv ==
  \A i \in DOMAIN barriers : \A q \in Queues :
    \/ barriers[i].id \in lifted
    \/ i = Len(barriers) /\ q \in ToCount
    \/ Counts(i, q)

\* A barrier is lifted when nothing older has still to register, and a kernel is
\* launched when its barrier is lifted.
LiftInv ==
  \A k \in Kernels : Pending(k) =>
    /\ \A id \in lifted : kernels[k].epoch >= id
    /\ kernels[k].at \in Launched => kernels[k].epoch = 0 \/ kernels[k].epoch \in lifted

\* A kernel is serialized when the mode was on between its barrier and the next.
ModeInv ==
  \A k \in Kernels : Pending(k) =>
    /\ kernels[k].epoch = LastId => (Serial(k) <=> status = "enabled")
    /\ \A i \in DOMAIN barriers : barriers[i].id = kernels[k].epoch + 1 =>
         (Serial(k) <=> barriers[i].state = "enabled")
    /\ Serial(k) => \E c \in Contexts : kernels[k].todo = {c}
    /\ kernels[k].at = "started" => kernels[k].epoch = LastId \/ k[1] \in ToCount

\* A kernel of a barrier that is not lifted is behind that barrier's packet.
Barred(q, id) ==
  \/ \E i \in DOMAIN hw[q] : hw[q][i] = <<"barrier", id>>
  \/ \E i \in DOMAIN before[q] : before[q][i] = <<"barrier", id>>
Passed(id) == id = 0 \/ id \in lifted
AheadInv ==
  /\ \A q \in Queues : pc[q] \notin Packing => before[q] = << >>
  /\ \A q \in Queues : \A i \in DOMAIN hw[q] :
       hw[q][i][1] = "kernel" /\ Pending(<<q, hw[q][i][2]>>) =>
         \/ Passed(kernels[<<q, hw[q][i][2]>>].epoch)
         \/ \E j \in DOMAIN hw[q] : j < i /\ hw[q][j] = <<"barrier", kernels[<<q, hw[q][i][2]>>].epoch>>
  /\ \A k \in Kernels : Pending(k) /\ kernels[k].at = "started" =>
       Passed(kernels[k].epoch) \/ Barred(k[1], kernels[k].epoch)
  /\ \A i \in DOMAIN barriers : \A q \in barriers[i].enqueued :
       Passed(barriers[i].id) \/ Barred(q, barriers[i].id)

\* The packets of one turn follow each other.
IsTurn(q, p) == p[1] = "kernel" /\ kernels[<<q, p[2]>>].turns > 0
Linked(q) ==
  \A i \in DOMAIN hw[q] :
    /\ hw[q][i][1] = "ready" => i + 1 \in DOMAIN hw[q] /\ hw[q][i + 1][1] = "block"
    /\ hw[q][i][1] = "block" => i + 1 \in DOMAIN hw[q] /\ IsTurn(q, hw[q][i + 1])
    /\ i > 1 /\ hw[q][i][1] = "block" => hw[q][i - 1][1] = "ready"
    /\ i > 1 /\ IsTurn(q, hw[q][i]) => hw[q][i - 1][1] = "block"
\* What was put before a kernel: barriers, then its turn.
Plain(q) == Len(before[q]) - 2 * kernels[<<q, written[q]>>].turns
Prepared(q) ==
  /\ Plain(q) >= 0 /\ \A i \in 1 .. Plain(q) : before[q][i][1] = "barrier"
  /\ kernels[<<q, written[q]>>].turns = 1 =>
       before[q][Plain(q) + 1][1] = "ready" /\ before[q][Plain(q) + 2][1] = "block"
LinkInv ==
  \A q \in Queues : Linked(q) /\ (pc[q] \in Packing => Prepared(q))

\* One queue has the turn, and its kernel is the one that runs.
Current(k) == Serial(k) /\ kernels[k].at \in Launched /\ Pending(k)
HasCurrent(q) == \E k \in Kernels : k[1] = q /\ Current(k)
AtBlock(q) == 1 \in DOMAIN hw[q] /\ hw[q][1][1] = "block"
AtTurn(q) == 1 \in DOMAIN hw[q] /\ IsTurn(q, hw[q][1])
InLine(q) == \E i \in DOMAIN dispatch_ready : dispatch_ready[i] = q
LineOf(q) ==
  /\ ready_signal[q] = 1 <=> q = dispatch_queue \/ InLine(q)
  /\ ~(q = dispatch_queue /\ InLine(q))
  /\ block_signal[q] = 1 <=> q # dispatch_queue
  /\ block_signal[q] = -1 <=> AtTurn(q) \/ HasCurrent(q)
  /\ AtBlock(q) <=> ready_signal[q] # 0 /\ block_signal[q] # -1
  /\ ~(AtTurn(q) /\ HasCurrent(q))
LineInv ==
  /\ \A i, j \in DOMAIN dispatch_ready : dispatch_ready[i] = dispatch_ready[j] => i = j
  /\ \A q \in Queues : LineOf(q)
  /\ \A k, j \in Kernels : k[1] = j[1] /\ Current(k) /\ Current(j) => k = j

RightInv == CountInv /\ LiftInv /\ ModeInv /\ AheadInv /\ LinkInv /\ LineInv /\ aborted = FALSE
Calm == ~miscounted /\ ~Doubled

\* A kernel's turns and what it has to register change as it is packed and as it
\* completes.
SameAsked ==
  \A k \in Kernels : /\ kernels'[k].todo = kernels[k].todo /\ kernels'[k].turns = kernels[k].turns
                     /\ kernels'[k].epoch = kernels[k].epoch

\* Which steps change what is asked of a kernel.
LEMMA AskedMoves ==
  ASSUME TypesInv, Next
  PROVE  \/ SameAsked
         \/ \E q \in Queues : AddSerialization(q)
         \/ \E k \in Kernels, c \in Contexts : KernelCompletion(k, c)
<1>1. ASSUME NEW k \in Kernels, Same(k), UNCHANGED Asked(k) PROVE SameAsked
  <2>1. ASSUME NEW j \in Kernels
        PROVE  /\ kernels'[j].todo = kernels[j].todo /\ kernels'[j].turns = kernels[j].turns
               /\ kernels'[j].epoch = kernels[j].epoch
    <3>1. CASE j = k
      BY <1>1, <3>1 DEF Asked
    <3>2. CASE j # k
      BY <1>1, <3>2 DEF Same
    <3>3. QED
      BY <3>1, <3>2
  <2>2. QED
    BY <2>1 DEF SameAsked
<1>2. ASSUME NEW q \in Queues,
             WriteDirectly(q) \/ Submit(q) \/ Launch(q) \/ \E c \in Contexts : AskContext(q, c)
      PROVE  SameAsked
  <2>1. \E k \in Kernels : Same(k) /\ UNCHANGED Asked(k)
    BY <1>2, WriteEffect, SubmitEffect, LaunchEffect, AskEffect
  <2>2. QED
    BY <1>1, <2>1
<1>3. ASSUME NEW q \in Queues, InterceptBegin(q) PROVE SameAsked
  <2>1. PICK k \in Kernels : /\ Same(k) /\ kernels[k] = NoKernel
                             /\ kernels'[k] = [NoKernel EXCEPT !.at = "started", !.tracked = TRUE]
    BY <1>3, InterceptEffect
  <2>2. /\ kernels'[k].todo = kernels[k].todo /\ kernels'[k].turns = kernels[k].turns
        /\ kernels'[k].epoch = kernels[k].epoch
    BY <2>1 DEF NoKernel
  <2>3. QED
    BY <2>1, <2>2 DEF Same, SameAsked
<1>4. ASSUME NEW k \in Kernels, Complete(k) \/ AsyncComplete(k) PROVE SameAsked
  BY <1>1, <1>4, CompleteEffect, AsyncEffect
<1>5. ASSUME UNCHANGED kernels PROVE SameAsked
  BY <1>5 DEF SameAsked
<1>6. QED
  BY <1>2, <1>3, <1>4, <1>5, Steps, ToolKeeps, OthersKeepKernels, Zenon DEF OtherStep

\* A kernel that has still to register a completion is launched from its queue's head,
\* and got its packets in the interceptor.
LEMMA PendingMoves ==
  ASSUME TypesInv, Next, NEW k \in Kernels, Pending(k)'
  PROVE  /\ Pending(k) \/ \E q \in Queues : AddSerialization(q) /\ k = <<q, written[q]>>
         /\ kernels'[k].at \in Launched =>
              \/ kernels[k].at \in Launched
              \/ \E q \in Queues : Launch(q) /\ k = <<q, Head(hw[q])[2]>> /\ k[1] = q
         /\ kernels[k].at \in Launched => kernels'[k].at \in Launched
         /\ kernels'[k].at = "started" => kernels[k].at = "started"
<1> DEFINE Moves ==
      /\ Pending(k) \/ \E q \in Queues : AddSerialization(q) /\ k = <<q, written[q]>>
      /\ kernels'[k].at \in Launched =>
           \/ kernels[k].at \in Launched
           \/ \E q \in Queues : Launch(q) /\ k = <<q, Head(hw[q])[2]>> /\ k[1] = q
      /\ kernels[k].at \in Launched => kernels'[k].at \in Launched
      /\ kernels'[k].at = "started" => kernels[k].at = "started"
<1>1. ASSUME kernels'[k] = kernels[k] PROVE Moves
  BY <1>1 DEF Pending
<1>2. ASSUME NEW q \in Queues, WriteDirectly(q) PROVE Moves
  <2>1. PICK j \in Kernels : Same(j) /\ kernels[j] = NoKernel /\ UNCHANGED Asked(j)
    BY <1>2, WriteEffect
  <2>2. j # k
    BY <2>1 DEF Pending, Asked, NoKernel
  <2>3. QED
    BY <1>1, <2>1, <2>2 DEF Same
<1>3. ASSUME NEW q \in Queues, InterceptBegin(q) PROVE Moves
  <2>1. PICK j \in Kernels : /\ Same(j)
                             /\ kernels'[j] = [NoKernel EXCEPT !.at = "started", !.tracked = TRUE]
    BY <1>3, InterceptEffect
  <2>2. kernels'[j].todo = {}
    BY <2>1 DEF NoKernel
  <2>3. QED
    BY <1>1, <2>1, <2>2 DEF Same, Pending
<1>4. ASSUME NEW q \in Queues, NEW c \in Contexts, AskContext(q, c) PROVE Moves
  <2>1. PICK j \in Kernels : Same(j) /\ From(j, "started", "started") /\ UNCHANGED Asked(j)
    BY <1>4, AskEffect
  <2>2. QED
    BY <1>1, <2>1 DEF Same, From, Asked, Pending, Launched
<1>5. ASSUME NEW q \in Queues, AddSerialization(q) PROVE Moves
  <2>1. PICK j \in Kernels : Same(j) /\ From(j, "started", "started") /\ j = <<q, written[q]>>
    BY <1>5, PackEffect
  <2>2. CASE j = k
    BY <1>5, <2>1, <2>2 DEF From, Launched
  <2>3. QED
    BY <1>1, <2>1, <2>2 DEF Same
<1>6. ASSUME NEW q \in Queues, Submit(q) PROVE Moves
  <2>1. PICK j \in Kernels : Same(j) /\ From(j, "started", "queued") /\ UNCHANGED Asked(j)
    BY <1>6, SubmitEffect
  <2>2. QED
    BY <1>1, <2>1 DEF Same, From, Asked, Pending, Launched
<1>7. ASSUME NEW q \in Queues, Launch(q) PROVE Moves
  <2>1. PICK j \in Kernels : /\ j = <<q, Head(hw[q])[2]>> /\ j[1] = q
                             /\ Same(j) /\ From(j, "queued", "running") /\ UNCHANGED Asked(j)
    BY <1>7, LaunchEffect
  <2>2. CASE j = k
    BY <1>7, <2>1, <2>2 DEF From, Asked, Pending, Launched
  <2>3. QED
    BY <1>1, <2>1, <2>2 DEF Same
<1>8. ASSUME NEW j \in Kernels, Complete(j) PROVE Moves
  <2>1. /\ Same(j) /\ kernels[j].at = "running" /\ kernels'[j].at \in {"handled", "gone"}
        /\ UNCHANGED Asked(j)
    BY <1>8, CompleteEffect DEF From
  <2>2. QED
    BY <1>1, <2>1 DEF Same, Asked, Pending, Launched
<1>9. ASSUME NEW j \in Kernels, NEW c \in Contexts, KernelCompletion(j, c) PROVE Moves
  <2>1. /\ Same(j) /\ From(j, "handled", "handled") /\ kernels'[j].todo = kernels[j].todo \ {c}
    BY <1>9, CompletionEffect
  <2>2. CASE j = k
    BY <2>1, <2>2 DEF From, Pending, Launched
  <2>3. QED
    BY <1>1, <2>1, <2>2 DEF Same
<1>10. ASSUME NEW j \in Kernels, AsyncComplete(j) PROVE Moves
  <2>1. /\ Same(j) /\ kernels[j].todo = {} /\ UNCHANGED Asked(j)
    BY <1>10, AsyncEffect
  <2>2. j # k
    BY <2>1 DEF Asked, Pending
  <2>3. QED
    BY <1>1, <2>1, <2>2 DEF Same
<1>11. ASSUME UNCHANGED kernels PROVE Moves
  BY <1>1, <1>11
<1>12. QED
  BY <1>2, <1>3, <1>4, <1>5, <1>6, <1>7, <1>8, <1>9, <1>10, <1>11, Steps, ToolKeeps,
     OthersKeepKernels, Zenon DEF OtherStep

\* A wrong count and a second turn stay.
LEMMA CalmBefore ==
  ASSUME TypesInv, Next, Calm'
  PROVE  Calm
<1>1. miscounted => miscounted'
  <2>1. ASSUME NEW q \in Queues,
               \/ WriteDirectly(q) \/ InterceptBegin(q) \/ Destroy(q) \/ AddSerialization(q) \/ Submit(q)
               \/ PassBarrier(q) \/ PassReady(q) \/ PassBlock(q) \/ Launch(q) \/ QueueReady(q)
               \/ \E c \in Contexts : AskContext(q, c)
        PROVE  miscounted' = miscounted
    BY <2>1, Zenon DEF WriteDirectly, InterceptBegin, Destroy, AddSerialization, Submit, PassBarrier,
                       PassReady, PassBlock, Launch, QueueReady, AskContext
  <2>2. ASSUME NEW k \in Kernels,
               Complete(k) \/ AsyncComplete(k) \/ \E c \in Contexts : KernelCompletion(k, c)
        PROVE  miscounted' = miscounted
    BY <2>2, Zenon DEF Complete, AsyncComplete, KernelCompletion
  <2>3. ASSUME ToolStep, ~RecountQueue PROVE miscounted' = miscounted
    BY <2>3, Zenon DEF ToolStep, Start, Stop, FinalizeBegin, FinalizeEnd, Tool, Switch, SwitchNothing,
                       SwitchBegin, CountQueue, SwitchEnd, Mark, Install, Sync, Started
  <2>4. RecountQueue => (miscounted => miscounted')
    BY DEF RecountQueue
  <2>5. QED
    BY <2>1, <2>2, <2>3, <2>4, Steps, Zenon
<1>2. ASSUME NEW k \in Kernels PROVE kernels'[k].turns >= kernels[k].turns
  <2>1. kernels[k].turns \in Nat
    BY DEF TypesInv, KernelTypes, KernelRecord
  <2>2. ASSUME NEW q \in Queues, AddSerialization(q) PROVE kernels'[k].turns >= kernels[k].turns
    BY <2>1, <2>2, PackEffect DEF Same
  <2>3. ASSUME NEW j \in Kernels, NEW c \in Contexts, KernelCompletion(j, c)
        PROVE  kernels'[k].turns = kernels[k].turns
    BY <2>3, CompletionEffect DEF Same
  <2>4. QED
    BY <2>1, <2>2, <2>3, AskedMoves DEF SameAsked
<1>3. ASSUME NEW k \in Kernels PROVE kernels[k].turns \in Nat /\ kernels'[k].turns \in Nat
  BY KernelTypesStep DEF TypesInv, KernelTypes, KernelRecord
<1>4. QED
  BY <1>1, <1>2, <1>3 DEF Calm, Doubled

-----------------------------------------------------------------------------
\* The completions that a barrier waits for.
LEMMA RegsFinite ==
  ASSUME NEW q \in Queues, NEW id
  PROVE  IsFiniteSet(Regs(q, id)) /\ Cardinality(Regs(q, id)) \in Nat
<1>1. Regs(q, id) \subseteq KernelsOf(q) \X Contexts
  BY DEF Regs
<1>2. IsFiniteSet(Regs(q, id))
  BY <1>1, KernelsFinite, FS_Subset
<1>3. QED
  BY <1>2, FS_CardinalityType

\* A member of them.
LEMMA InRegs ==
  ASSUME TypesInv, NEW q \in Queues, NEW id, NEW k \in Kernels, k[1] = q, NEW c,
         c \in kernels[k].todo, kernels[k].epoch < id
  PROVE  <<k, c>> \in Regs(q, id)
<1>1. k \in KernelsOf(q) /\ c \in Contexts
  BY KernelOf DEF TypesInv, KernelTypes, KernelRecord
<1>2. QED
  BY <1>1 DEF Regs

\* A queue without them has no older kernel that has still to register.
LEMMA NoRegs ==
  ASSUME TypesInv, NEW q \in Queues, NEW id, Regs(q, id) = {}, NEW k \in Kernels, k[1] = q, Pending(k)
  PROVE  ~(kernels[k].epoch < id)
<1>1. PICK c : c \in kernels[k].todo
  BY DEF Pending
<1>2. QED
  BY <1>1, InRegs

\* They change with what the kernels of the queue have asked.
LEMMA RegsKept ==
  ASSUME NEW q \in Queues, NEW id,
         \A k \in Kernels : k[1] = q =>
           kernels'[k].todo = kernels[k].todo /\ kernels'[k].epoch = kernels[k].epoch
  PROVE  Regs(q, id)' = Regs(q, id)
BY OfQueue DEF Regs

\* A queue whose count is zero has none, and no kernel that has still to register.
LEMMA IdleRegs ==
  ASSUME TypesInv, NEW q \in Queues, active[q] = 0 \/ Emptied(q)
  PROVE  (\A id : Regs(q, id) = {}) /\ \A k \in Kernels : k[1] = q => ~Pending(k)
<1>1. ASSUME NEW k \in Kernels, k[1] = q PROVE ~Pending(k)
  <2>1. CASE Emptied(q)
    BY <1>1, <2>1 DEF Emptied, Pending
  <2>2. CASE active[q] = 0
    <3>1. Cardinality(Outstanding(q)) <= 0
      BY <2>2 DEF TypesInv, ActiveInv
    <3>2. Outstanding(q) = {}
      BY <3>1, OutstandingFinite, FS_EmptySet
    <3>3. k \in KernelsOf(q) /\ Sane(kernels[k])
      BY <1>1, KernelOf DEF TypesInv, KernelTypes
    <3>4. QED
      BY <3>2, <3>3 DEF Outstanding, Sane, Pending
  <2>3. QED
    BY <2>1, <2>2
<1>2. QED
  BY <1>1, OfQueue DEF Regs, Pending

\* What counting right says of a barrier after a step.
LEMMA CountsNext ==
  ASSUME NEW q, NEW i, NEW id, NEW b, barriers'[i] = b, b.id = id
  PROVE  Counts(i, q)' <=>
           /\ q \in DOMAIN b.waiting <=> Regs(q, id)' # {}
           /\ q \in DOMAIN b.waiting => b.waiting[q] = Cardinality(Regs(q, id)')
BY DEF Counts, Regs, Waits
\* What a barrier counts of a queue, spelled out.
LEMMA CountsNow ==
  ASSUME NEW q, NEW i, NEW id, NEW b, barriers[i] = b, b.id = id
  PROVE  Counts(i, q) <=>
           /\ q \in DOMAIN b.waiting <=> Regs(q, id) # {}
           /\ q \in DOMAIN b.waiting => b.waiting[q] = Cardinality(Regs(q, id))
BY DEF Counts, Waits

\* A barrier whose count is right stays so when neither it nor its completions change.
LEMMA CountsKept ==
  ASSUME NEW q, NEW i, NEW j, Counts(i, q), barriers'[j].id = barriers[i].id,
         barriers'[j].waiting = barriers[i].waiting,
         \A id : id = barriers[i].id => Regs(q, id)' = Regs(q, id)
  PROVE  Counts(j, q)'
<1>1. PICK id, b, a : id = barriers[i].id /\ b = barriers'[j] /\ a = barriers[i]
  OBVIOUS
<1>2. Regs(q, id)' = Regs(q, id)
  BY <1>1
<1>3. /\ q \in DOMAIN a.waiting <=> Regs(q, id) # {}
      /\ q \in DOMAIN a.waiting => a.waiting[q] = Cardinality(Regs(q, id))
  BY <1>1, CountsNow
<1>4. QED
  BY <1>1, <1>2, <1>3, CountsNext

\* A kernel that was launched is among those that a barrier of its queue waits for, if
\* the barrier waits for any.
LEMMA LaunchedOldest ==
  ASSUME TypesInv, LiftInv, NEW k \in Kernels, Pending(k), kernels[k].at \in Launched,
         NEW id \in Nat, Regs(k[1], id) # {}
  PROVE  kernels[k].epoch < id
<1>1. k[1] \in Queues
  BY KernelOf
<1>2. PICK j \in Kernels : Pending(j) /\ kernels[j].epoch < id
  <2>1. PICK p \in Regs(k[1], id) : TRUE
    OBVIOUS
  <2>2. p[1] \in KernelsOf(k[1]) /\ p[2] \in kernels[p[1]].todo /\ kernels[p[1]].epoch < id
    BY <2>1 DEF Regs
  <2>3. QED
    BY <1>1, <2>2, OfQueue DEF Pending
<1>3. kernels[j].epoch \in Nat /\ kernels[k].epoch \in Nat
  BY DEF TypesInv, KernelTypes, KernelRecord
<1>4. kernels[k].epoch = 0 \/ kernels[k].epoch \in lifted
  BY DEF LiftInv
<1>5. kernels[k].epoch \in lifted => kernels[j].epoch >= kernels[k].epoch
  BY <1>2 DEF LiftInv
<1>6. QED
  BY <1>2, <1>3, <1>4, <1>5

\* A completion takes itself out of what the barriers of its queue wait for.
LEMMA CompletionRegs ==
  ASSUME TypesInv, NEW k \in Kernels, NEW c \in Contexts, KernelCompletion(k, c),
         NEW id \in Nat, NEW p \in Queues
  PROVE  /\ p # k[1] => Regs(p, id)' = Regs(p, id)
         /\ p = k[1] => Regs(p, id)' = Regs(p, id) \ {<<k, c>>}
<1>1. /\ Same(k) /\ kernels'[k].todo = kernels[k].todo \ {c} /\ kernels'[k].epoch = kernels[k].epoch
  BY CompletionEffect
<1>2. CASE p # k[1]
  BY <1>1, <1>2, RegsKept DEF Same
<1>3. CASE p = k[1]
  <2>1. ASSUME NEW r \in KernelsOf(p) \X Contexts
        PROVE  r \in Regs(p, id)' <=> r \in Regs(p, id) /\ r # <<k, c>>
    <3>1. r[1] \in Kernels /\ r = <<r[1], r[2]>>
      BY OfQueue
    <3>2. r \in Regs(p, id)' <=> r[2] \in kernels'[r[1]].todo /\ kernels'[r[1]].epoch < id
      BY DEF Regs
    <3>3. r \in Regs(p, id) <=> r[2] \in kernels[r[1]].todo /\ kernels[r[1]].epoch < id
      BY DEF Regs
    <3>4. CASE r[1] = k
      BY <1>1, <3>1, <3>2, <3>3, <3>4
    <3>5. CASE r[1] # k
      <4>1. kernels'[r[1]] = kernels[r[1]]
        BY <1>1, <3>1, <3>5 DEF Same
      <4>2. r # <<k, c>>
        BY <3>5
      <4>3. QED
        BY <3>2, <3>3, <4>1, <4>2
    <3>6. QED
      BY <3>4, <3>5
  <2>2. Regs(p, id)' \subseteq KernelsOf(p) \X Contexts /\ Regs(p, id) \subseteq KernelsOf(p) \X Contexts
    BY DEF Regs
  <2>3. QED
    BY <1>3, <2>1, <2>2
<1>4. QED
  BY <1>2, <1>3

\* Every barrier that is not lifted counts right after a completion.
LEMMA CompletionCounts ==
  ASSUME TypesInv, StructInv, CountInv, LiftInv, NEW k \in Kernels, NEW c \in Contexts,
         KernelCompletion(k, c), NEW i \in DOMAIN barriers', NEW p \in Queues,
         barriers'[i].id \notin lifted
  PROVE  Counts(i, p)'
<1> DEFINE q == k[1]
<1>0. /\ Len(barriers) \in Nat /\ \A j \in DOMAIN barriers : barriers[j] \in Barrier
  BY ListTypes
<1>1. q \in Queues /\ ~held
  BY KernelOf, CompletionLifts
<1> HIDE DEF q
<1>2. PICK j \in DOMAIN barriers : barriers'[i] = RegisterCompletion(barriers[j], q)
  BY CompletionList DEF q
<1>3. PICK b \in Barrier : b = barriers[j]
  BY <1>0
<1>4. PICK id \in Nat : id = b.id
  BY DEF Barrier
<1>5. PICK r : r = RegisterCompletion(b, q)
  OBVIOUS
<1>6. /\ r.id = b.id
      /\ ~Waits(b, q) => r = b
      /\ Waits(b, q) /\ b.waiting[q] = 1 =>
           /\ DOMAIN r.waiting = DOMAIN b.waiting \ {q}
           /\ \A x \in DOMAIN b.waiting \ {q} : r.waiting[x] = b.waiting[x]
      /\ Waits(b, q) /\ b.waiting[q] # 1 =>
           /\ DOMAIN r.waiting = DOMAIN b.waiting
           /\ r.waiting[q] = b.waiting[q] - 1
           /\ \A x \in DOMAIN b.waiting \ {q} : r.waiting[x] = b.waiting[x]
  BY <1>1, <1>5, RegisterKeeps
<1>7. barriers'[i] = r
  BY <1>2, <1>3, <1>5
<1>8. Counts(j, p)
  <2>1. barriers[j].id \notin lifted
    BY <1>3, <1>6, <1>7
  <2>2. ToCount = {}
    BY <1>1 DEF ToCount
  <2>3. QED
    BY <2>1, <2>2 DEF CountInv
<1>9. /\ p \in DOMAIN b.waiting <=> Regs(p, id) # {}
      /\ p \in DOMAIN b.waiting => b.waiting[p] = Cardinality(Regs(p, id))
  BY <1>3, <1>4, <1>8, CountsNow
<1>10. Waits(b, q) <=> q \in DOMAIN b.waiting
  BY DEF Waits
<1>11. SUFFICES /\ p \in DOMAIN r.waiting <=> Regs(p, id)' # {}
                /\ p \in DOMAIN r.waiting => r.waiting[p] = Cardinality(Regs(p, id)')
  BY <1>4, <1>6, <1>7, CountsNext
<1>12. CASE p # q
  <2>1. Regs(p, id)' = Regs(p, id)
    BY <1>12, CompletionRegs DEF q
  <2>2. /\ p \in DOMAIN r.waiting <=> p \in DOMAIN b.waiting
        /\ p \in DOMAIN b.waiting => r.waiting[p] = b.waiting[p]
    BY <1>6, <1>12
  <2>3. QED
    BY <1>9, <2>1, <2>2
<1>13. CASE p = q
  <2>1. Regs(q, id)' = Regs(q, id) \ {<<k, c>>}
    BY <1>1, CompletionRegs DEF q
  <2>2. CASE q \notin DOMAIN b.waiting
    <3>1. Regs(q, id) = {} /\ r = b
      BY <1>6, <1>9, <1>10, <1>13, <2>2
    <3>2. QED
      BY <1>13, <2>1, <2>2, <3>1
  <2>3. CASE q \in DOMAIN b.waiting
    <3>1. Regs(q, id) # {} /\ b.waiting[q] = Cardinality(Regs(q, id))
      BY <1>9, <1>13, <2>3
    <3>2. <<k, c>> \in Regs(q, id)
      <4>1. c \in kernels[k].todo /\ kernels[k].at = "handled"
        BY DEF KernelCompletion
      <4>2. kernels[k].epoch < id
        BY <3>1, <4>1, LaunchedOldest DEF q, Pending, Launched
      <4>3. QED
        BY <1>1, <4>1, <4>2, InRegs DEF q
    <3>3. /\ Cardinality(Regs(q, id) \ {<<k, c>>}) = Cardinality(Regs(q, id)) - 1
          /\ IsFiniteSet(Regs(q, id) \ {<<k, c>>}) /\ Cardinality(Regs(q, id)) \in Nat
      BY <1>1, <3>2, RegsFinite, FS_RemoveElement
    <3>4. Regs(q, id)' = {} <=> Cardinality(Regs(q, id)) = 1
      BY <2>1, <3>3, FS_EmptySet
    <3>5. CASE b.waiting[q] = 1
      <4>1. q \notin DOMAIN r.waiting
        BY <1>6, <1>10, <2>3, <3>5
      <4>2. QED
        BY <1>13, <3>1, <3>4, <3>5, <4>1
    <3>6. CASE b.waiting[q] # 1
      <4>1. q \in DOMAIN r.waiting /\ r.waiting[q] = b.waiting[q] - 1
        BY <1>6, <1>10, <2>3, <3>6
      <4>2. QED
        BY <1>13, <2>1, <3>1, <3>3, <3>4, <3>6, <4>1
    <3>7. QED
      BY <3>5, <3>6
  <2>4. QED
    BY <2>2, <2>3
<1>14. QED
  BY <1>12, <1>13

\* Packing a kernel adds nothing that an older barrier waits for.
LEMMA PackRegs ==
  ASSUME TypesInv, ModeInv, NEW q \in Queues, AddSerialization(q),
         NEW p \in Queues, NEW id \in Nat, id <= LastId
  PROVE  Regs(p, id)' = Regs(p, id)
<1>1. PICK k \in Kernels :
           /\ k[1] = q /\ Same(k) /\ From(k, "started", "started")
           /\ LastId \in Nat /\ kernels'[k].epoch = LastId
  BY PackEffect
<1>2. ToCount = {}
  BY DEF AddSerialization, ToCount
<1>3. Pending(k) => kernels[k].epoch = LastId
  BY <1>1, <1>2 DEF ModeInv, From
<1>4. ASSUME NEW r \in KernelsOf(p) \X Contexts
      PROVE  r \in Regs(p, id)' <=> r \in Regs(p, id)
  <2>1. r[1] \in Kernels
    BY OfQueue
  <2>2. r \in Regs(p, id)' <=> r[2] \in kernels'[r[1]].todo /\ kernels'[r[1]].epoch < id
    BY DEF Regs
  <2>3. r \in Regs(p, id) <=> r[2] \in kernels[r[1]].todo /\ kernels[r[1]].epoch < id
    BY DEF Regs
  <2>4. CASE r[1] = k
    <3>1. ~(kernels'[k].epoch < id)
      BY <1>1
    <3>2. r[2] \in kernels[k].todo => ~(kernels[k].epoch < id)
      BY <1>1, <1>3 DEF Pending
    <3>3. QED
      BY <2>2, <2>3, <2>4, <3>1, <3>2
  <2>5. CASE r[1] # k
    BY <1>1, <2>1, <2>2, <2>3, <2>5 DEF Same
  <2>6. QED
    BY <2>4, <2>5
<1>5. Regs(p, id)' \subseteq KernelsOf(p) \X Contexts /\ Regs(p, id) \subseteq KernelsOf(p) \X Contexts
  BY DEF Regs
<1>6. QED
  BY <1>4, <1>5

\* A queue leaves what is to be counted when it is idle, or counted.
LEMMA ToCountLeaves ==
  ASSUME TypesInv, Next, NEW p \in ToCount, p \notin ToCount', p \in Queues, ~RecountQueue
  PROVE  active[p] = 0 /\ held'
<1>1. held /\ cpc \in {"count", "recount"} /\ ~SwitchBegin
  BY DEF ToCount, TypesInv, ToolTypes, SwitchBegin
<1>2. ~SwitchEnd
  BY DEF SwitchEnd, ToCount
<1>3. held'
  BY <1>1, <1>2, HeldMoves
<1>4. ~UNCHANGED toolVars
  BY <1>1, <1>3 DEF ToCount, toolVars
<1>5. ToolStep
  BY <1>4, ToolVarsMove
<1>6. \E q \in Queues : CountQueue(q)
  BY <1>1, <1>2, <1>5, Zenon DEF ToolStep, Start, Stop, FinalizeBegin, FinalizeEnd, Tool, Switch,
                     SwitchNothing, SwitchBegin, Mark, Install, Sync, Started, TypesInv, ToolTypes
<1>7. PICK q \in Queues : CountQueue(q)
  BY <1>6
<1>8. cpc = "count" /\ to_count' = to_count \ {q} /\ active[q] \in Nat
  BY <1>7 DEF CountQueue, TypesInv, ActiveInv
<1>9. CASE active[q] > 0
  <2>1. cpc' = "recount" /\ counting' = q
    BY <1>7, <1>9 DEF CountQueue
  <2>2. QED
    BY <1>1, <1>3, <1>8, <2>1 DEF ToCount
<1>10. CASE ~(active[q] > 0)
  <2>1. cpc' = cpc /\ counting' = counting
    BY <1>7, <1>10 DEF CountQueue
  <2>2. p = q
    BY <1>1, <1>3, <1>8, <2>1 DEF ToCount
  <2>3. QED
    BY <1>3, <1>8, <1>10, <2>2
<1>11. QED
  BY <1>9, <1>10

\* set_barrier's second look counts what will register, unless it counts wrong.
LEMMA RecountCounts ==
  ASSUME TypesInv, StructInv, RecountQueue, ~miscounted', NEW i, i = Len(barriers),
         NEW q \in Queues, q = counting
  PROVE  Counts(i, q)' /\ pc[q] \notin Packing
<1> DEFINE R == {p \in Kernels \X Contexts :
                  /\ p[1][1] = q /\ kernels[p[1]].at \in {"queued", "running", "handled"}
                  /\ p[2] \in kernels[p[1]].todo}
<1>0. /\ cpc = "recount" /\ active[q] # 0 /\ pc[q] \notin Packing /\ active[q] = Cardinality(R)
  BY DEF RecountQueue, Registrations, Packing
<1>1. q \in Queues /\ held /\ fini # "finalized"
  BY <1>0 DEF TypesInv, ToolTypes
<1>2. Len(barriers) \in Nat /\ LastId \in Nat /\ \A j \in DOMAIN barriers : barriers[j] \in Barrier
  BY ListTypes
<1>3. i \in DOMAIN barriers /\ barriers'[i] = Counted(barriers[i], q, active[q])
  BY RecountBarriers
<1>4. barriers[i].id = LastId
  BY <1>2, <1>3 DEF StructInv, IdInv
<1>5. ASSUME NEW k \in Kernels, k[1] = q, Pending(k)
      PROVE  kernels[k].at \in {"queued", "running", "handled"} /\ kernels[k].epoch < LastId
  <2>1. kernels[k] \in KernelRecord /\ Sane(kernels[k]) /\ kernels[k].todo # {}
    BY <1>5 DEF TypesInv, KernelTypes, Pending
  <2>2. kernels[k].at # "started"
    BY <1>0, <1>5 DEF TypesInv, PlaceInv
  <2>3. kernels[k].at # "none" /\ kernels[k].at # "gone"
    BY <1>1, <2>1 DEF Sane
  <2>4. kernels[k].epoch < LastId
    BY <1>1 DEF StructInv, EpochInv
  <2>5. QED
    BY <2>1, <2>2, <2>3, <2>4 DEF KernelRecord, Live
<1>6. Regs(q, LastId) = R
  <2>1. ASSUME NEW r \in Regs(q, LastId) PROVE r \in R
    <3>1. r \in KernelsOf(q) \X Contexts /\ r[2] \in kernels[r[1]].todo
      BY DEF Regs
    <3>2. r[1] \in Kernels /\ r[1][1] = q /\ Pending(r[1])
      BY <1>1, <3>1, OfQueue DEF Pending
    <3>3. QED
      BY <1>5, <3>1, <3>2
  <2>2. ASSUME NEW r \in R PROVE r \in Regs(q, LastId)
    <3>1. r[1] \in Kernels /\ r[1][1] = q /\ r[2] \in kernels[r[1]].todo /\ r = <<r[1], r[2]>>
      OBVIOUS
    <3>2. kernels[r[1]].epoch < LastId
      BY <1>5, <3>1 DEF Pending
    <3>3. QED
      BY <1>1, <3>1, <3>2, InRegs
  <2>3. QED
    BY <2>1, <2>2
<1> HIDE DEF R
<1>7. PICK id \in Nat : id = LastId
  BY <1>2
<1>8. Regs(q, id)' = R
  <2>1. kernels' = kernels
    BY DEF RecountQueue
  <2>2. QED
    BY <1>1, <1>6, <1>7, <2>1, RegsKept
<1>9. R # {}
  BY <1>0, FS_EmptySet DEF R
<1>10. PICK b \in Barrier : b = barriers[i]
  BY <1>2, <1>3
<1>11. PICK r : r = Counted(b, q, active[q])
  OBVIOUS
<1>12. r.id = id /\ q \in DOMAIN r.waiting /\ r.waiting[q] = active[q]
  BY <1>4, <1>7, <1>10, <1>11 DEF Counted, Barrier
<1>13. Counts(i, q)'
  <2>1. barriers'[i] = r
    BY <1>3, <1>10, <1>11
  <2>2. active[q] = Cardinality(Regs(q, id)')
    BY <1>0, <1>8 DEF R
  <2>3. QED
    BY <1>8, <1>9, <1>12, <2>1, <2>2, CountsNext
<1>14. QED
  BY <1>0, <1>13

\* Every barrier that is not lifted counts right after a step.
LEMMA CountStep ==
  ASSUME TypesInv, StructInv, CountInv, LiftInv, ModeInv, Next, Calm'
  PROVE  CountInv'
<1>0. /\ Len(barriers) \in Nat /\ DOMAIN barriers = 1 .. Len(barriers) /\ LastId \in Nat
      /\ \A j \in DOMAIN barriers : barriers[j] \in Barrier /\ barriers[j].id \in Nat
  BY ListTypes
<1> SUFFICES ASSUME NEW i \in DOMAIN barriers', NEW p \in Queues, barriers'[i].id \notin lifted',
                    ~(i = Len(barriers') /\ p \in ToCount')
             PROVE  Counts(i, p)'
  BY DEF CountInv
<1>1. ASSUME SameAsked, NEW j \in DOMAIN barriers, Counts(j, p),
             barriers'[i].id = barriers[j].id, barriers'[i].waiting = barriers[j].waiting
      PROVE  Counts(i, p)'
  <2>1. \A id : Regs(p, id)' = Regs(p, id)
    BY <1>1, RegsKept DEF SameAsked
  <2>2. QED
    BY <1>1, <2>1, CountsKept
<1>2. CASE SameAsked /\ UNCHANGED barriers /\ lifted \subseteq lifted' /\ ~RecountQueue
  <2>1. i \in DOMAIN barriers /\ barriers'[i] = barriers[i] /\ barriers[i].id \notin lifted
    BY <1>2
  <2>2. CASE Counts(i, p)
    BY <1>1, <1>2, <2>1, <2>2
  <2>3. CASE i = Len(barriers) /\ p \in ToCount
    <3>1. active[p] = 0
      BY <1>2, <2>3, ToCountLeaves
    <3>2. \A id : Regs(p, id) = {}
      BY <3>1, IdleRegs
    <3>3. p \notin DOMAIN barriers[i].waiting
      BY <2>3 DEF StructInv, HeldInv, ToCount
    <3>4. Counts(i, p)
      BY <3>2, <3>3 DEF Counts, Waits
    <3>5. QED
      BY <1>1, <1>2, <2>1, <3>4
  <2>4. QED
    BY <2>1, <2>2, <2>3 DEF CountInv
<1>3. ASSUME NEW q \in Queues, AddSerialization(q) PROVE Counts(i, p)'
  <2>1. /\ lifted' = lifted /\ ~held /\ i \in DOMAIN barriers
        /\ \/ barriers'[i] = barriers[i]
           \/ barriers'[i] = [barriers[i] EXCEPT !.enqueued = @ \cup {q}]
    BY <1>3, PackBarriers
  <2>2. barriers'[i].id = barriers[i].id /\ barriers'[i].waiting = barriers[i].waiting
    BY <1>0, <2>1 DEF Barrier
  <2>3. Counts(i, p)
    BY <2>1, <2>2 DEF CountInv, ToCount
  <2>4. PICK id \in Nat : id = barriers[i].id /\ id <= LastId
    <3>1. barriers[i].id = LastId - Len(barriers) + i
      BY <2>1 DEF StructInv, IdInv
    <3>2. QED
      BY <1>0, <2>1, <3>1
  <2>5. Regs(p, id)' = Regs(p, id)
    BY <1>3, <2>4, PackRegs
  <2>6. QED
    BY <2>2, <2>3, <2>4, <2>5, CountsKept
<1>4. ASSUME NEW k \in Kernels, NEW c \in Contexts, KernelCompletion(k, c) PROVE Counts(i, p)'
  BY <1>4, CompletionCounts, CompletionLifts
<1>5. CASE SwitchBegin
  <2>1. PICK d \in 0 .. Len(barriers) :
           /\ Len(barriers') = Len(barriers) - d + 1 /\ DOMAIN barriers' = 1 .. Len(barriers) - d + 1
           /\ \A j \in 1 .. Len(barriers) - d :
                j + d \in DOMAIN barriers /\ barriers'[j] = barriers[j + d]
           /\ barriers'[Len(barriers) - d + 1] = NewBarrier(LastId + 1, Old)
    BY <1>5, BeginList
  <2>2. /\ UNCHANGED <<lifted, kernels, alive>> /\ ~held /\ held' /\ to_count' = alive
    BY <1>5 DEF SwitchBegin
  <2>3. SameAsked
    BY <2>2 DEF SameAsked
  <2>4. CASE i = Len(barriers')
    <3>1. p \notin alive
      BY <2>2, <2>4 DEF ToCount
    <3>2. \A id : Regs(p, id) = {}
      BY <3>1, IdleRegs DEF StructInv, GoneInv
    <3>3. \A id : Regs(p, id)' = {}
      BY <2>3, <3>2, RegsKept DEF SameAsked
    <3>4. PICK b, id : barriers'[i] = b /\ b.id = id
      OBVIOUS
    <3>5. b = NewBarrier(LastId + 1, Old)
      BY <2>1, <2>4, <3>4
    <3>6. DOMAIN b.waiting = {}
      BY <3>5 DEF NewBarrier, NoneWaiting
    <3>7. QED
      BY <3>3, <3>4, <3>6, CountsNext
  <2>5. CASE i # Len(barriers')
    <3>1. i \in 1 .. Len(barriers) - d
      BY <1>0, <2>1, <2>5
    <3>2. PICK j \in DOMAIN barriers : j = i + d /\ barriers'[i] = barriers[j]
      BY <2>1, <3>1
    <3>3. Counts(j, p)
      BY <2>2, <3>2 DEF CountInv, ToCount
    <3>4. QED
      BY <1>1, <2>3, <3>2, <3>3
  <2>6. QED
    BY <2>4, <2>5
<1>6. CASE RecountQueue
  <2>1. /\ lifted' = lifted /\ DOMAIN barriers' = DOMAIN barriers /\ Len(barriers') = Len(barriers)
        /\ barriers'[i] = IF i = Len(barriers) THEN Counted(barriers[i], counting, active[counting])
                          ELSE barriers[i]
        /\ i \in DOMAIN barriers
    BY <1>6, RecountBarriers
  <2>2. /\ kernels' = kernels /\ held' = held /\ cpc = "recount" /\ cpc' = "count"
        /\ to_count' = to_count
    BY <1>6 DEF RecountQueue
  <2>3. SameAsked
    BY <2>2 DEF SameAsked
  <2>4. CASE i = Len(barriers) /\ p = counting
    BY <1>6, <2>4, RecountCounts DEF Calm
  <2>5. CASE i = Len(barriers) /\ p # counting
    <3>1. p \notin ToCount
      BY <2>1, <2>2, <2>5 DEF ToCount
    <3>2. barriers[i].id = barriers'[i].id
      BY <1>0, <2>1 DEF Counted, Barrier
    <3>3. Counts(i, p)
      BY <2>1, <3>1, <3>2 DEF CountInv
    <3>4. barriers[i] \in Barrier
      BY <1>0, <2>1
    <3>4a. PICK b, r : b \in Barrier /\ b = barriers[i] /\ r = barriers'[i]
      BY <3>4
    <3>5. r = Counted(b, counting, active[counting])
      BY <2>1, <2>5, <3>4a
    <3>6. /\ p \in DOMAIN r.waiting <=> p \in DOMAIN b.waiting
          /\ p \in DOMAIN b.waiting => r.waiting[p] = b.waiting[p]
      BY <2>5, <3>4a, <3>5 DEF Counted, Barrier
    <3>7. PICK id : id = b.id /\ id = r.id
      BY <3>2, <3>4a
    <3>8. Regs(p, id)' = Regs(p, id)
      BY <2>3, RegsKept DEF SameAsked
    <3>9. /\ p \in DOMAIN b.waiting <=> Regs(p, id) # {}
          /\ p \in DOMAIN b.waiting => b.waiting[p] = Cardinality(Regs(p, id))
      <4>1. barriers[i] = b /\ b.id = id
        BY <3>4a, <3>7
      <4>2. QED
        BY <3>3, <4>1, CountsNow
    <3>10. QED
      BY <3>4a, <3>6, <3>7, <3>8, <3>9, CountsNext
  <2>6. CASE i # Len(barriers)
    <3>1. Counts(i, p)
      BY <2>1, <2>6 DEF CountInv
    <3>2. QED
      BY <1>1, <2>1, <2>3, <2>6, <3>1
  <2>7. QED
    BY <2>4, <2>5, <2>6
<1>7. CASE SwitchEnd
  <2>1. UNCHANGED <<barriers, kernels>> /\ lifted \subseteq lifted' /\ ~RecountQueue
    BY <1>7 DEF SwitchEnd, RecountQueue
  <2>2. QED
    BY <1>2, <2>1 DEF SameAsked
<1>8. CASE UNCHANGED <<barriers, lifted>> /\ ~RecountQueue
  BY <1>2, <1>3, <1>4, <1>8, AskedMoves
<1>9. QED
  BY <1>3, <1>4, <1>5, <1>6, <1>7, <1>8, BarriersKept

\* What is lifted stays so.
LEMMA LiftedGrows ==
  ASSUME TypesInv, Next
  PROVE  /\ lifted \subseteq lifted'
         /\ lifted' # lifted => SwitchEnd \/ \E k \in Kernels, c \in Contexts : KernelCompletion(k, c)
<1>1. ASSUME NEW k \in Kernels, NEW c \in Contexts, KernelCompletion(k, c) PROVE lifted \subseteq lifted'
  BY <1>1, CompletionLifts
<1>2. ASSUME NEW q \in Queues, AddSerialization(q) PROVE lifted' = lifted
  BY <1>2, PackBarriers
<1>3. SwitchEnd => lifted \subseteq lifted'
  BY DEF SwitchEnd
<1>4. SwitchBegin \/ RecountQueue => lifted' = lifted
  BY DEF SwitchBegin, RecountQueue
<1>5. QED
  BY <1>1, <1>2, <1>3, <1>4, BarriersKept

\* A queue without completions to register has no older kernel, after the step.
LEMMA NoRegsNext ==
  ASSUME TypesInv, Next, NEW q \in Queues, NEW id \in Nat, Regs(q, id)' = {},
         NEW k \in Kernels, k[1] = q, Pending(k)'
  PROVE  kernels'[k].epoch >= id
<1>1. kernels'[k] \in KernelRecord
  BY KernelTypesStep DEF KernelTypes
<1>2. PICK c \in Contexts : c \in kernels'[k].todo
  BY <1>1 DEF Pending, KernelRecord
<1>3. kernels'[k].epoch \in Nat
  BY <1>1 DEF KernelRecord
<1>4. ~(kernels'[k].epoch < id)
  <2>1. <<k, c>> \in KernelsOf(q) \X Contexts
    BY KernelOf
  <2>2. QED
    BY <1>2, <2>1 DEF Regs
<1>5. QED
  BY <1>3, <1>4

\* Nothing older has still to register with a barrier that is lifted.
LEMMA LiftedSettles ==
  ASSUME TypesInv, StructInv, CountInv, LiftInv, Next, NEW id \in lifted' \ lifted,
         NEW k \in Kernels, Pending(k)', kernels'[k].epoch = kernels[k].epoch, Pending(k)
  PROVE  kernels'[k].epoch >= id
<1>0. k[1] \in Queues
  BY KernelOf
<1>1. ASSUME NEW j \in Kernels, NEW c \in Contexts, KernelCompletion(j, c)
      PROVE  kernels'[k].epoch >= id
  <2>1. PICK i \in DOMAIN barriers' : barriers'[i].id = id /\ barriers'[i].complete
    BY <1>1, CompletionLifts
  <2>2. Counts(i, k[1])'
    BY <1>0, <1>1, <2>1, CompletionCounts
  <2>3. DOMAIN barriers'[i].waiting = {}
    BY <2>1, IdStep, IdSplit DEF StructInv, Settled
  <2>4. PICK b : b = barriers'[i]
    OBVIOUS
  <2>5. Regs(k[1], id)' = {}
    BY <2>1, <2>2, <2>3, <2>4, CountsNext
  <2>6. id \in Nat
    BY BarrierTypesStep DEF BarrierTypes
  <2>7. QED
    BY <1>0, <2>5, <2>6, NoRegsNext
<1>2. CASE SwitchEnd
  <2>1. barriers # << >> /\ held /\ cpc = "count" /\ to_count = {}
    BY <1>2 DEF SwitchEnd, TypesInv, ToolTypes
  <2>2. PICK n \in DOMAIN barriers : n = Len(barriers) /\ Last(barriers) = barriers[n]
    BY <2>1, ListTypes DEF Last
  <2>3. id = barriers[n].id /\ DOMAIN barriers[n].waiting = {}
    BY <1>2, <2>2 DEF SwitchEnd
  <2>4. barriers[n].id \notin lifted /\ ToCount = {}
    BY <2>1, <2>3 DEF ToCount
  <2>5. Counts(n, k[1])
    BY <1>0, <2>4 DEF CountInv
  <2>6. Regs(k[1], id) = {}
    BY <2>3, <2>5 DEF Counts, Waits
  <2>7. ~(kernels[k].epoch < id) /\ id \in Nat /\ kernels[k].epoch \in Nat
    BY <1>0, <2>3, <2>6, NoRegs, ListTypes DEF TypesInv, KernelTypes, KernelRecord
  <2>8. QED
    BY <2>7
<1>3. QED
  BY <1>1, <1>2, LiftedGrows

\* A barrier is lifted only when everything older is registered.
LEMMA LiftStep ==
  ASSUME TypesInv, StructInv, CountInv, LiftInv, AheadInv, Next
  PROVE  LiftInv'
<1> SUFFICES ASSUME NEW k \in Kernels, Pending(k)'
             PROVE  /\ \A id \in lifted' : kernels'[k].epoch >= id
                    /\ kernels'[k].at \in Launched => kernels'[k].epoch = 0 \/ kernels'[k].epoch \in lifted'
  BY DEF LiftInv
<1>1. ASSUME NEW q \in Queues, AddSerialization(q), k = <<q, written[q]>>
      PROVE  /\ \A id \in lifted' : kernels'[k].epoch >= id
             /\ kernels'[k].at \in Launched => kernels'[k].epoch = 0 \/ kernels'[k].epoch \in lifted'
  <2>1. From(k, "started", "started") /\ kernels'[k].epoch = LastId /\ LastId \in Nat
    BY <1>1, PackEffect
  <2>2. lifted' = lifted /\ lifted \subseteq 1 .. LastId
    BY <1>1, PackBarriers DEF StructInv, IdInv
  <2>3. QED
    BY <2>1, <2>2 DEF From, Launched
<1>2. ASSUME Pending(k), kernels'[k].epoch = kernels[k].epoch
      PROVE  /\ \A id \in lifted' : kernels'[k].epoch >= id
             /\ kernels'[k].at \in Launched => kernels'[k].epoch = 0 \/ kernels'[k].epoch \in lifted'
  <2>1. \A id \in lifted' : kernels'[k].epoch >= id
    BY <1>2, LiftedSettles DEF LiftInv
  <2>2. ASSUME kernels[k].at \in Launched
        PROVE  kernels'[k].epoch = 0 \/ kernels'[k].epoch \in lifted'
    BY <1>2, <2>2, LiftedGrows DEF LiftInv
  <2>3. ASSUME NEW q \in Queues, Launch(q), k = <<q, Head(hw[q])[2]>>, k[1] = q
        PROVE  kernels'[k].epoch = 0 \/ kernels'[k].epoch \in lifted'
    <3>1. Head(hw[q]) = hw[q][1] /\ 1 \in DOMAIN hw[q]
      BY <2>3, PassShrinks DEF PassStep
    <3>2. hw[q][1][1] = "kernel" /\ k = <<q, hw[q][1][2]>>
      BY <2>3, <3>1 DEF Launch, HeadIs
    <3>3. Passed(kernels[k].epoch)
      <4>1. ~\E j \in DOMAIN hw[q] : j < 1 /\ hw[q][j] = <<"barrier", kernels[k].epoch>>
        <5>1. hw[q] \in Seq(PacketOf(q))
          BY DEF TypesInv, QueueTypes
        <5>2. QED
          BY <5>1
      <4>2. QED
        BY <1>2, <3>1, <3>2, <4>1 DEF AheadInv
    <3>4. QED
      BY <1>2, <3>3, LiftedGrows DEF Passed
  <2>4. QED
    BY <2>1, <2>2, <2>3, PendingMoves
<1>3. ASSUME NEW q \in Queues, AddSerialization(q), k # <<q, written[q]>>
      PROVE  kernels'[k].epoch = kernels[k].epoch /\ Pending(k)
  BY <1>3, PackEffect DEF Same, Pending
<1>4. CASE \A q \in Queues : ~AddSerialization(q)
  BY <1>2, <1>4, PendingMoves, EpochMoves
<1>5. QED
  BY <1>1, <1>2, <1>3, <1>4

\* The modes of the barriers of the list, when a step leaves the list alone or shortens it.
LEMMA ModeKept ==
  ASSUME TypesInv, StructInv, ModeInv, NEW k \in Kernels, Pending(k), Pending(k)',
         kernels'[k].epoch = kernels[k].epoch, kernels'[k].turns = kernels[k].turns,
         status' = status, LastId' = LastId,
         \A i \in DOMAIN barriers' : \E j \in DOMAIN barriers :
           barriers'[i].id = barriers[j].id /\ barriers'[i].state = barriers[j].state
  PROVE  /\ kernels'[k].epoch = LastId' => (Serial(k)' <=> status' = "enabled")
         /\ \A i \in DOMAIN barriers' : barriers'[i].id = kernels'[k].epoch + 1 =>
              (Serial(k)' <=> barriers'[i].state = "enabled")
<1>1. Serial(k)' <=> Serial(k)
  BY DEF Serial
<1>2. /\ kernels[k].epoch = LastId => (Serial(k) <=> status = "enabled")
      /\ \A i \in DOMAIN barriers : barriers[i].id = kernels[k].epoch + 1 =>
           (Serial(k) <=> barriers[i].state = "enabled")
  BY DEF ModeInv
<1>3. QED
  BY <1>1, <1>2

\* The list of barriers without a switch.
LEMMA StatesKept ==
  ASSUME TypesInv, Next, ~SwitchBegin
  PROVE  \A i \in DOMAIN barriers' : \E j \in DOMAIN barriers :
           barriers'[i].id = barriers[j].id /\ barriers'[i].state = barriers[j].state
<1>0. \A j \in DOMAIN barriers : barriers[j] \in Barrier
  BY ListTypes
<1>1. CASE UNCHANGED barriers
  BY <1>1
<1>2. ASSUME NEW q \in Queues, AddSerialization(q), NEW i \in DOMAIN barriers'
      PROVE  /\ i \in DOMAIN barriers
             /\ barriers'[i].id = barriers[i].id /\ barriers'[i].state = barriers[i].state
  <2>1. /\ i \in DOMAIN barriers
        /\ \/ barriers'[i] = barriers[i]
           \/ barriers'[i] = [barriers[i] EXCEPT !.enqueued = @ \cup {q}]
    BY <1>2, PackBarriers
  <2>2. QED
    BY <1>0, <2>1 DEF Barrier
<1>3. ASSUME NEW k \in Kernels, NEW c \in Contexts, KernelCompletion(k, c), NEW i \in DOMAIN barriers'
      PROVE  \E j \in DOMAIN barriers :
               barriers'[i].id = barriers[j].id /\ barriers'[i].state = barriers[j].state
  <2>1. PICK j \in DOMAIN barriers : barriers'[i] = RegisterCompletion(barriers[j], k[1])
    BY <1>3, CompletionList
  <2>2. k[1] \in Queues /\ barriers[j] \in Barrier
    BY <1>0, KernelOf
  <2>3. QED
    BY <2>1, <2>2, RegisterKeeps
<1>4. ASSUME RecountQueue, NEW i \in DOMAIN barriers'
      PROVE  /\ i \in DOMAIN barriers
             /\ barriers'[i].id = barriers[i].id /\ barriers'[i].state = barriers[i].state
  <2>1. /\ i \in DOMAIN barriers
        /\ barriers'[i] = IF i = Len(barriers) THEN Counted(barriers[i], counting, active[counting])
                          ELSE barriers[i]
    BY <1>4, RecountBarriers
  <2>2. QED
    BY <1>0, <2>1 DEF Barrier, Counted
<1>5. SwitchEnd => UNCHANGED barriers
  BY DEF SwitchEnd
<1>6. QED
  BY <1>1, <1>2, <1>3, <1>4, <1>5, BarriersKept

\* The mode changes with a new barrier, or when no queue is left.
LEMMA StatusMoves ==
  ASSUME Next, ~SwitchBegin, status' # status
  PROVE  alive = {}
<1>1. ASSUME ToolStep PROVE SwitchNothing
  BY <1>1, Zenon DEF ToolStep, Start, Stop, FinalizeBegin, FinalizeEnd, Tool, Switch, CountQueue,
                     RecountQueue, SwitchEnd, Mark, Install, Sync, Started, serializerVars
<1>2. QED
  BY <1>1, ToolVarsMove DEF SwitchNothing

\* No kernel of a queue that is gone has still to register.
LEMMA GoneSettled ==
  ASSUME TypesInv, StructInv, NEW k \in Kernels, Pending(k)
  PROVE  k[1] \in alive
<1>1. k[1] \in Queues
  BY KernelOf
<1>2. ASSUME k[1] \notin alive PROVE FALSE
  BY <1>1, <1>2, IdleRegs DEF StructInv, GoneInv
<1>3. QED
  BY <1>2

\* The mode of the kernel that is packed.
LEMMA PackMode ==
  ASSUME TypesInv, StructInv, ModeInv, NEW q \in Queues, AddSerialization(q), Next, Calm'
  PROVE  \E k \in Kernels :
           /\ k = <<q, written[q]>> /\ k[1] = q /\ Same(k) /\ From(k, "started", "started")
           /\ kernels'[k].epoch = LastId /\ LastId' = LastId /\ status' = status /\ Pending(k)'
           /\ kernels[k].turns = 0
           /\ status = "enabled" => kernels'[k].turns = 1 /\ \E c \in Contexts : kernels'[k].todo = {c}
           /\ status # "enabled" => kernels'[k].turns = 0
<1>1. PICK k \in Kernels :
           /\ k = <<q, written[q]>> /\ k[1] = q
           /\ Same(k) /\ From(k, "started", "started")
           /\ asking[q] \in Contexts /\ kernels'[k].todo = kernels[k].todo \cup {asking[q]}
           /\ status = "enabled" => kernels'[k].turns = kernels[k].turns + 1
           /\ status # "enabled" => kernels'[k].turns = kernels[k].turns
           /\ kernels'[k].epoch = LastId
  BY PackEffect
<1>2. status' = status /\ ~held /\ ~SwitchBegin
  BY DEF AddSerialization, SwitchBegin, toolVars
<1>3. LastId' = LastId
  BY <1>2, LastIdMoves DEF StructInv
<1>4. kernels[k].turns \in Nat /\ Sane(kernels[k])
  BY DEF TypesInv, KernelTypes, KernelRecord
<1>5. Pending(k) => (Serial(k) <=> status = "enabled")
  <2>1. Pending(k) => kernels[k].epoch = LastId
    BY <1>1, <1>2 DEF ModeInv, From, ToCount
  <2>2. QED
    BY <2>1 DEF ModeInv
<1>6. ~Pending(k) => kernels[k].turns = 0
  BY <1>1, <1>4 DEF Pending, Sane, From
<1>7. kernels'[k].turns <= 1
  <2>1. ~(kernels'[k].turns > 1)
    BY DEF Calm, Doubled
  <2>2. kernels'[k].turns \in Nat
    BY KernelTypesStep DEF KernelTypes, KernelRecord
  <2>3. QED
    BY <2>1, <2>2
<1>8. kernels[k].turns = 0
  <2>1. CASE status = "enabled"
    BY <1>1, <1>4, <1>7, <2>1
  <2>2. CASE status # "enabled"
    BY <1>4, <1>5, <1>6, <2>2 DEF Serial
  <2>3. QED
    BY <2>1, <2>2
<1>9. status = "enabled" => kernels[k].todo = {}
  BY <1>5, <1>8 DEF Pending, Serial
<1>10. status = "enabled" => kernels'[k].todo = {asking[q]}
  BY <1>1, <1>9
<1>11. Pending(k)'
  BY <1>1 DEF Pending
<1>12. QED
  BY <1>1, <1>2, <1>3, <1>8, <1>10, <1>11

\* The mode of a kernel's turn, after a new barrier.
LEMMA BeginModes ==
  ASSUME TypesInv, StructInv, ModeInv, SwitchBegin, NEW k \in Kernels, Pending(k)
  PROVE  /\ kernels'[k] = kernels[k] /\ LastId' = LastId + 1 /\ kernels[k].epoch <= LastId
         /\ \A i \in DOMAIN barriers' : barriers'[i].id = kernels[k].epoch + 1 =>
              (Serial(k) <=> barriers'[i].state = "enabled")
         /\ kernels[k].at = "started" => k[1] \in ToCount'
<1>0. /\ Len(barriers) \in Nat /\ DOMAIN barriers = 1 .. Len(barriers) /\ LastId \in Nat
      /\ \A j \in DOMAIN barriers : barriers[j] \in Barrier /\ barriers[j].id \in Nat
  BY ListTypes
<1>1. PICK d \in 0 .. Len(barriers) :
           /\ Len(barriers') = Len(barriers) - d + 1 /\ DOMAIN barriers' = 1 .. Len(barriers) - d + 1
           /\ \A j \in 1 .. Len(barriers) - d :
                j + d \in DOMAIN barriers /\ barriers'[j] = barriers[j + d]
           /\ barriers'[Len(barriers) - d + 1] = NewBarrier(LastId + 1, Old)
  BY BeginList
<1>2. kernels' = kernels /\ LastId' = LastId + 1
  BY BeginIds DEF SwitchBegin, StructInv
<1>3. kernels[k].epoch <= LastId /\ kernels[k].epoch \in Nat
  BY DEF StructInv, EpochInv, TypesInv, KernelTypes, KernelRecord
<1>4. /\ kernels[k].epoch = LastId => (Serial(k) <=> status = "enabled")
      /\ \A i \in DOMAIN barriers : barriers[i].id = kernels[k].epoch + 1 =>
           (Serial(k) <=> barriers[i].state = "enabled")
  BY DEF ModeInv
<1>5. status = Old
  BY DEF SwitchBegin, Old, New, TypesInv, StateTypes
<1>6. ASSUME NEW i \in DOMAIN barriers', barriers'[i].id = kernels[k].epoch + 1
      PROVE  Serial(k) <=> barriers'[i].state = "enabled"
  <2>1. CASE i = Len(barriers) - d + 1
    <3>1. barriers'[i].id = LastId + 1 /\ barriers'[i].state = Old
      BY <1>1, <2>1 DEF NewBarrier
    <3>2. kernels[k].epoch = LastId
      BY <1>0, <1>3, <1>6, <3>1
    <3>3. QED
      BY <1>4, <1>5, <3>1, <3>2
  <2>2. CASE i # Len(barriers) - d + 1
    <3>1. i \in 1 .. Len(barriers) - d
      BY <1>0, <1>1, <2>2
    <3>2. i + d \in DOMAIN barriers /\ barriers'[i] = barriers[i + d]
      BY <1>1, <3>1
    <3>3. QED
      BY <1>4, <1>6, <3>2
  <2>3. QED
    BY <2>1, <2>2
<1>7. k[1] \in ToCount'
  <2>1. to_count' = alive /\ held'
    BY DEF SwitchBegin
  <2>2. QED
    BY <2>1, GoneSettled DEF ToCount
<1>8. QED
  BY <1>2, <1>3, <1>6, <1>7

\* A kernel in the interceptor while a barrier is set stays among what is to be counted.
LEMMA StartedCounted ==
  ASSUME TypesInv, StructInv, Next, Calm', NEW k \in Kernels, Pending(k), kernels[k].at = "started",
         k[1] \in ToCount
  PROVE  k[1] \in ToCount'
<1>1. SUFFICES ASSUME k[1] \notin ToCount' PROVE FALSE
  OBVIOUS
<1>2. k[1] \in Queues
  BY KernelOf
<1>3. CASE RecountQueue
  <2>1. held' /\ to_count' = to_count /\ cpc' = "count"
    BY <1>3 DEF RecountQueue, TypesInv, ToolTypes
  <2>2. k[1] = counting
    BY <1>1, <2>1 DEF ToCount
  <2>3. pc[k[1]] \notin Packing
    BY <1>3, <2>2 DEF RecountQueue, Calm, Packing
  <2>4. QED
    BY <2>3 DEF TypesInv, PlaceInv
<1>4. CASE ~RecountQueue
  <2>1. active[k[1]] = 0
    BY <1>1, <1>2, <1>4, ToCountLeaves
  <2>2. QED
    BY <1>2, <2>1, IdleRegs
<1>5. QED
  BY <1>3, <1>4

\* The mode of a turn, and the one completion that a serialized kernel has to register.
LEMMA ModeStep ==
  ASSUME TypesInv, StructInv, ModeInv, Next, Calm'
  PROVE  ModeInv'
<1> SUFFICES ASSUME NEW k \in Kernels, Pending(k)'
    PROVE  /\ kernels'[k].epoch = LastId' => (Serial(k)' <=> status' = "enabled")
           /\ \A i \in DOMAIN barriers' : barriers'[i].id = kernels'[k].epoch + 1 =>
                (Serial(k)' <=> barriers'[i].state = "enabled")
           /\ Serial(k)' => \E c \in Contexts : kernels'[k].todo = {c}
           /\ kernels'[k].at = "started" => kernels'[k].epoch = LastId' \/ k[1] \in ToCount'
  BY DEF ModeInv
<1> DEFINE Right1 ==
      /\ kernels'[k].epoch = LastId' => (Serial(k)' <=> status' = "enabled")
      /\ \A i \in DOMAIN barriers' : barriers'[i].id = kernels'[k].epoch + 1 =>
           (Serial(k)' <=> barriers'[i].state = "enabled")
    Right2 ==
      /\ Serial(k)' => \E c \in Contexts : kernels'[k].todo = {c}
      /\ kernels'[k].at = "started" => kernels'[k].epoch = LastId' \/ k[1] \in ToCount'
<1>1. CASE SwitchBegin
  <2>1. Pending(k)
    BY <1>1, PendingMoves DEF AddSerialization, SwitchBegin, toolVars
  <2>2. /\ kernels'[k] = kernels[k] /\ LastId' = LastId + 1 /\ kernels[k].epoch <= LastId
        /\ \A i \in DOMAIN barriers' : barriers'[i].id = kernels[k].epoch + 1 =>
             (Serial(k) <=> barriers'[i].state = "enabled")
        /\ kernels[k].at = "started" => k[1] \in ToCount'
    BY <1>1, <2>1, BeginModes
  <2>3. LastId \in Nat /\ kernels[k].epoch \in Nat
    BY ListTypes DEF TypesInv, KernelTypes, KernelRecord
  <2>4. kernels'[k].epoch # LastId'
    BY <2>2, <2>3
  <2>5. Serial(k)' <=> Serial(k)
    BY <2>2 DEF Serial
  <2>6. Right1
    BY <2>2, <2>4, <2>5
  <2>7. Serial(k) => \E c \in Contexts : kernels[k].todo = {c}
    BY <2>1 DEF ModeInv
  <2>8. Right2
    BY <2>2, <2>5, <2>7
  <2>9. QED
    BY <2>6, <2>8
<1>2. ASSUME ~SwitchBegin, Pending(k), kernels'[k].epoch = kernels[k].epoch,
             kernels'[k].turns = kernels[k].turns
      PROVE  Right1 /\ (kernels'[k].at = "started" => kernels'[k].epoch = LastId' \/ k[1] \in ToCount')
  <2>1. LastId' = LastId
    BY <1>2, LastIdMoves DEF StructInv
  <2>2. status' = status
    BY <1>2, StatusMoves, GoneSettled
  <2>3. \A i \in DOMAIN barriers' : \E j \in DOMAIN barriers :
           barriers'[i].id = barriers[j].id /\ barriers'[i].state = barriers[j].state
    BY <1>2, StatesKept
  <2>4. Right1
    BY <1>2, <2>1, <2>2, <2>3, ModeKept
  <2>5. ASSUME kernels'[k].at = "started" PROVE kernels'[k].epoch = LastId' \/ k[1] \in ToCount'
    <3>1. kernels[k].at = "started"
      BY <2>5, PendingMoves
    <3>2. kernels[k].epoch = LastId \/ k[1] \in ToCount
      BY <1>2, <3>1 DEF ModeInv
    <3>3. QED
      BY <1>2, <2>1, <3>1, <3>2, StartedCounted
  <2>6. QED
    BY <2>4, <2>5
<1>3. ASSUME NEW q \in Queues, AddSerialization(q) PROVE Right1 /\ Right2
  <2>1. PICK j \in Kernels :
           /\ j = <<q, written[q]>> /\ j[1] = q /\ Same(j) /\ From(j, "started", "started")
           /\ kernels'[j].epoch = LastId /\ LastId' = LastId /\ status' = status
           /\ status = "enabled" => kernels'[j].turns = 1 /\ \E c \in Contexts : kernels'[j].todo = {c}
           /\ status # "enabled" => kernels'[j].turns = 0
    BY <1>3, PackMode
  <2>2. CASE k = j
    <3>1. Serial(k)' <=> status' = "enabled"
      BY <2>1, <2>2 DEF Serial
    <3>2. ASSUME NEW i \in DOMAIN barriers' PROVE barriers'[i].id # LastId' + 1
      <4>1. barriers'[i].id = LastId' - Len(barriers') + i
        BY LastIdMoves DEF StructInv
      <4>2. LastId' \in Int /\ Len(barriers') \in Int /\ i \in 1 .. Len(barriers')
        BY <1>3, <2>1, PackBarriers, ListTypes
      <4>3. QED
        BY <4>1, <4>2
    <3>3. QED
      BY <2>1, <2>2, <3>1, <3>2
  <2>3. CASE k # j
    <3>1. kernels'[k] = kernels[k] /\ Pending(k) /\ ~SwitchBegin
      BY <1>3, <2>1, <2>3 DEF Same, Pending, AddSerialization, SwitchBegin, toolVars
    <3>2. Serial(k) => \E c \in Contexts : kernels[k].todo = {c}
      BY <3>1 DEF ModeInv
    <3>3. QED
      BY <1>2, <3>1, <3>2 DEF Serial
  <2>4. QED
    BY <2>2, <2>3
<1>4. ASSUME NEW j \in Kernels, NEW c \in Contexts, KernelCompletion(j, c) PROVE Right1 /\ Right2
  <2>1. /\ Same(j) /\ c \in kernels[j].todo /\ kernels'[j].todo = kernels[j].todo \ {c}
        /\ kernels'[j].turns = kernels[j].turns /\ kernels'[j].epoch = kernels[j].epoch
    BY <1>4, CompletionEffect
  <2>2. /\ kernels'[k].turns = kernels[k].turns /\ kernels'[k].epoch = kernels[k].epoch /\ Pending(k)
        /\ ~SwitchBegin
    BY <1>4, <2>1 DEF Same, Pending, KernelCompletion, SwitchBegin, toolVars
  <2>3. Serial(k) => \E b \in Contexts : kernels[k].todo = {b}
    BY <2>2 DEF ModeInv
  <2>4. CASE k = j
    <3>1. ~Serial(k)
      BY <2>1, <2>3, <2>4 DEF Pending
    <3>2. QED
      BY <1>2, <2>2, <3>1 DEF Serial
  <2>5. CASE k # j
    <3>1. kernels'[k] = kernels[k]
      BY <2>1, <2>5 DEF Same
    <3>2. QED
      BY <1>2, <2>2, <2>3, <3>1 DEF Serial
  <2>6. QED
    BY <2>4, <2>5
<1>5. CASE SameAsked /\ ~SwitchBegin
  <2>1. /\ kernels'[k].turns = kernels[k].turns /\ kernels'[k].epoch = kernels[k].epoch /\ Pending(k)
        /\ kernels'[k].todo = kernels[k].todo
    BY <1>5 DEF SameAsked, Pending
  <2>2. Serial(k) => \E c \in Contexts : kernels[k].todo = {c}
    BY <2>1 DEF ModeInv
  <2>3. QED
    BY <1>2, <1>5, <2>1, <2>2 DEF Serial
<1>6. QED
  BY <1>1, <1>3, <1>4, <1>5, AskedMoves

\* The packets that a kernel gets in the interceptor.
LEMMA PackPackets ==
  ASSUME TypesInv, NEW q \in Queues, AddSerialization(q)
  PROVE  \E a \in Seq(Ordering) :
           /\ Transition(q) => Len(a) = 1 /\ a[1] = <<"barrier", Last(barriers).id>>
           /\ ~Transition(q) => Len(a) = 0
           /\ Len(before'[q]) = Len(before[q]) + Len(a) + Len(Turn)
           /\ \A i \in 1 .. Len(before[q]) : before'[q][i] = before[q][i]
           /\ \A i \in 1 .. Len(a) : before'[q][Len(before[q]) + i] = a[i]
           /\ \A i \in 1 .. Len(Turn) : before'[q][Len(before[q]) + Len(a) + i] = Turn[i]
           /\ \A p \in Queues \ {q} : before'[p] = before[p]
<1> DEFINE a == IF Transition(q) THEN <<<<"barrier", Last(barriers).id>>>> ELSE << >>
           v == before[q] \o a \o Turn
<1>1. before \in [Queues -> Seq(Ordering)] /\ before[q] \in Seq(Ordering)
  BY DEF TypesInv, QueueTypes
<1>2. before' = [before EXCEPT ![q] = v]
  BY DEF AddSerialization
<1>3. a \in Seq(Ordering)
  <2>1. CASE Transition(q)
    <3>1. barriers # << >> /\ Last(barriers) = barriers[Len(barriers)]
      BY <2>1 DEF Transition, Last
    <3>2. Last(barriers).id \in Nat
      BY <3>1, ListTypes
    <3>3. <<"barrier", Last(barriers).id>> \in Ordering
      BY <3>2 DEF Ordering
    <3>4. QED
      BY <2>1, <3>3
  <2>2. CASE ~Transition(q)
    BY <2>2
  <2>3. QED
    BY <2>1, <2>2
<1>4. /\ Transition(q) => Len(a) = 1 /\ a[1] = <<"barrier", Last(barriers).id>>
      /\ ~Transition(q) => Len(a) = 0
  OBVIOUS
<1>5. before'[q] = v /\ \A p \in Queues \ {q} : before'[p] = before[p]
  BY <1>1, <1>2
<1>6. Turn \in Seq(Ordering)
  BY TurnTypes
<1> HIDE DEF a
<1>7. /\ Len(v) = Len(before[q]) + Len(a) + Len(Turn)
      /\ \A i \in 1 .. Len(before[q]) : v[i] = before[q][i]
      /\ \A i \in 1 .. Len(a) : v[Len(before[q]) + i] = a[i]
      /\ \A i \in 1 .. Len(Turn) : v[Len(before[q]) + Len(a) + i] = Turn[i]
  BY <1>1, <1>3, <1>6
<1>8. QED
  BY <1>3, <1>4, <1>5, <1>7

\* The packets before a barrier's packet leave one by one, and it leaves when the
\* barrier is lifted.
LEMMA BarredStays ==
  ASSUME TypesInv, AheadInv, Next, NEW q \in Queues, NEW id, Barred(q, id)
  PROVE  Barred(q, id)' \/ id \in lifted
<1> DEFINE p == <<"barrier", id>>
<1>0. /\ hw[q] \in Seq(PacketOf(q)) /\ before[q] \in Seq(Ordering)
      /\ Len(hw[q]) \in Nat /\ Len(before[q]) \in Nat
      /\ DOMAIN hw[q] = 1 .. Len(hw[q]) /\ DOMAIN before[q] = 1 .. Len(before[q])
  <2>1. hw[q] \in Seq(PacketOf(q)) /\ before[q] \in Seq(Ordering)
    BY DEF TypesInv, QueueTypes
  <2>2. QED
    BY <2>1
<1>1. \/ \E i \in DOMAIN hw[q] : hw[q][i] = p
      \/ \E i \in DOMAIN before[q] : before[q][i] = p
  BY DEF Barred
<1>2. ASSUME hw'[q] = hw[q], before'[q] = before[q] PROVE Barred(q, id)'
  BY <1>1, <1>2 DEF Barred
<1>3. hw'[q] \in Seq(PacketOf(q)') /\ before'[q] \in Seq(Ordering)
      /\ DOMAIN hw'[q] = 1 .. Len(hw'[q]) /\ DOMAIN before'[q] = 1 .. Len(before'[q])
  <2>1. hw'[q] \in Seq(PacketOf(q)') /\ before'[q] \in Seq(Ordering)
    BY QueueTypesStep DEF QueueTypes
  <2>2. QED
    BY <2>1
<1>4. ASSUME NEW b \in Seq(Ordering), NEW n, Grows(q, b, n), b = before[q] \/ before'[q] = before[q]
      PROVE  Barred(q, id)'
  <2>1. /\ DOMAIN hw'[q] = 1 .. Len(hw[q]) + Len(b) + 1 /\ Len(b) \in Nat /\ DOMAIN b = 1 .. Len(b)
        /\ \A i \in 1 .. Len(hw[q]) : hw'[q][i] = hw[q][i]
        /\ \A i \in 1 .. Len(b) : hw'[q][Len(hw[q]) + i] = b[i]
    BY <1>3, <1>4 DEF Grows
  <2>2. ASSUME NEW i \in DOMAIN hw[q], hw[q][i] = p PROVE Barred(q, id)'
    <3>1. i \in DOMAIN hw'[q] /\ hw'[q][i] = p
      BY <1>0, <2>1, <2>2
    <3>2. QED
      BY <3>1 DEF Barred
  <2>3. ASSUME NEW i \in DOMAIN before[q], before[q][i] = p PROVE Barred(q, id)'
    <3>1. CASE b = before[q]
      <4>0. i \in 1 .. Len(b) /\ b[i] = p
        BY <1>0, <2>3, <3>1
      <4>1. Len(hw[q]) + i \in DOMAIN hw'[q] /\ hw'[q][Len(hw[q]) + i] = p
        BY <1>0, <2>1, <4>0
      <4>2. QED
        BY <4>1 DEF Barred
    <3>2. CASE before'[q] = before[q]
      BY <2>3, <3>2 DEF Barred
    <3>3. QED
      BY <1>4, <3>1, <3>2
  <2>4. QED
    BY <1>1, <2>2, <2>3
<1>5. ASSUME NEW r \in Queues, WriteDirectly(r) PROVE Barred(q, id)'
  <2>1. before' = before /\ Grows(r, << >>, written[r] + 1) /\ OthersStay(r) /\ << >> \in Seq(Ordering)
    <3>1. before' = before
      BY <1>5, Zenon DEF WriteDirectly
    <3>2. << >> \in Seq(Ordering)
      OBVIOUS
    <3>3. QED
      BY <1>5, <3>1, <3>2, WriteGrows
  <2>2. QED
    BY <1>2, <1>4, <2>1 DEF OthersStay
<1>6. ASSUME NEW r \in Queues, Submit(r) PROVE Barred(q, id)'
  <2>1. /\ before' = [before EXCEPT ![r] = << >>] /\ Grows(r, before[r], written[r]) /\ OthersStay(r)
        /\ before \in [Queues -> Seq(Ordering)]
    BY <1>6, SubmitGrows DEF Submit, TypesInv, QueueTypes
  <2>2. CASE r = q
    BY <1>0, <1>4, <2>1, <2>2
  <2>3. CASE r # q
    BY <1>2, <2>1, <2>3 DEF OthersStay
  <2>4. QED
    BY <2>2, <2>3
<1>7. ASSUME NEW r \in Queues, PassStep(r) PROVE Barred(q, id)' \/ id \in lifted
  <2>1. before' = before
    BY <1>7, Zenon DEF PassStep, PassBarrier, PassReady, PassBlock, Launch, threadVars
  <2>2. /\ Shrinks(r) /\ OthersStay(r) /\ Head(hw[r]) = hw[r][1]
    BY <1>7, PassShrinks
  <2>3. CASE r # q
    BY <1>2, <2>1, <2>2, <2>3 DEF OthersStay
  <2>4. CASE r = q
    <3>1. /\ \A i \in 1 .. Len(hw[q]) - 1 : hw'[q][i] = hw[q][i + 1]
          /\ DOMAIN hw'[q] = 1 .. Len(hw[q]) - 1
      BY <1>3, <2>2, <2>4 DEF Shrinks
    <3>2. ASSUME NEW i \in DOMAIN hw[q], hw[q][i] = p, i # 1 PROVE Barred(q, id)'
      <4>1. i - 1 \in 1 .. Len(hw[q]) - 1 /\ i - 1 + 1 = i
        BY <1>0, <3>2
      <4>2. i - 1 \in DOMAIN hw'[q] /\ hw'[q][i - 1] = p
        BY <3>1, <3>2, <4>1
      <4>3. QED
        BY <4>2 DEF Barred
    <3>3. ASSUME hw[q][1] = p PROVE id \in lifted
      <4>1. PassBarrier(q)
        BY <1>7, <2>2, <2>4, <3>3 DEF PassStep, PassReady, PassBlock, Launch, HeadIs
      <4>2. QED
        BY <2>2, <2>4, <3>3, <4>1 DEF PassBarrier
    <3>4. ASSUME NEW i \in DOMAIN before[q], before[q][i] = p PROVE Barred(q, id)'
      BY <2>1, <3>4 DEF Barred
    <3>5. QED
      BY <1>1, <3>2, <3>3, <3>4
  <2>5. QED
    BY <2>3, <2>4
<1>8. ASSUME NEW r \in Queues, InterceptBegin(r) PROVE Barred(q, id)'
  <2>1. before' = [before EXCEPT ![r] = << >>] /\ UNCHANGED hw /\ pc[r] = "idle"
        /\ before \in [Queues -> Seq(Ordering)]
    BY <1>8 DEF InterceptBegin, TypesInv, QueueTypes
  <2>2. before[r] = << >>
    BY <2>1 DEF AheadInv, Packing
  <2>3. before'[q] = before[q]
    BY <2>1, <2>2
  <2>4. QED
    BY <1>2, <2>1, <2>3
<1>9. ASSUME NEW r \in Queues, AddSerialization(r) PROVE Barred(q, id)'
  <2>1. UNCHANGED hw
    BY <1>9 DEF AddSerialization
  <2>2. PICK a \in Seq(Ordering) :
           /\ Len(before'[r]) = Len(before[r]) + Len(a) + Len(Turn)
           /\ \A i \in 1 .. Len(before[r]) : before'[r][i] = before[r][i]
           /\ \A s \in Queues \ {r} : before'[s] = before[s]
    BY <1>9, PackPackets
  <2>3. CASE r # q
    BY <1>2, <2>1, <2>2, <2>3
  <2>4. CASE r = q
    <3>1. Len(a) \in Nat /\ Len(Turn) \in Nat
      BY <2>2, TurnTypes
    <3>2. ASSUME NEW i \in DOMAIN before[q], before[q][i] = p PROVE Barred(q, id)'
      <4>1. i \in DOMAIN before'[q] /\ before'[q][i] = p
        BY <1>0, <1>3, <2>2, <2>4, <3>1, <3>2
      <4>2. QED
        BY <4>1 DEF Barred
    <3>3. QED
      BY <1>1, <2>1, <3>2 DEF Barred
  <2>5. QED
    BY <2>3, <2>4
<1>10. CASE UNCHANGED <<hw, before>>
  BY <1>2, <1>10
<1>11. ASSUME NEW r \in Queues, Destroy(r) \/ \E c \in Contexts : AskContext(r, c)
       PROVE  UNCHANGED <<hw, before>>
  BY <1>11, Zenon DEF Destroy, AskContext
<1>12. QED
  BY <1>5, <1>6, <1>7, <1>8, <1>9, <1>10, <1>11, PacketsKept, ThreadMoves, Zenon

\* The places of the packets in a queue that grew, and in one that shrank.
LEMMA GrownPlaces ==
  ASSUME TypesInv, NEW q \in Queues, NEW b \in Seq(Ordering), NEW n, Grows(q, b, n), QueueTypes'
  PROVE  /\ \A i \in DOMAIN hw[q] : /\ i \in DOMAIN hw'[q] /\ hw'[q][i] = hw[q][i]
                                    /\ i < Len(hw[q]) + Len(b) + 1
         /\ \A i \in DOMAIN b : /\ Len(hw[q]) + i \in DOMAIN hw'[q] /\ hw'[q][Len(hw[q]) + i] = b[i]
                                /\ Len(hw[q]) + i < Len(hw[q]) + Len(b) + 1
         /\ Len(hw[q]) + Len(b) + 1 \in DOMAIN hw'[q]
         /\ hw'[q][Len(hw[q]) + Len(b) + 1] = <<"kernel", n>>
         /\ \A i \in DOMAIN hw'[q] :
              \/ i \in DOMAIN hw[q]
              \/ \E j \in DOMAIN b : i = Len(hw[q]) + j
              \/ i = Len(hw[q]) + Len(b) + 1
<1>1. hw[q] \in Seq(PacketOf(q)) /\ hw'[q] \in Seq(PacketOf(q)')
  BY DEF TypesInv, QueueTypes
<1>2. PICK m \in Nat, l \in Nat : m = Len(hw[q]) /\ l = Len(b)
  BY <1>1
<1>3. DOMAIN hw[q] = 1 .. m /\ DOMAIN b = 1 .. l /\ DOMAIN hw'[q] = 1 .. m + l + 1
  BY <1>1, <1>2 DEF Grows
<1>4. /\ \A i \in 1 .. m : hw'[q][i] = hw[q][i]
      /\ \A i \in 1 .. l : hw'[q][m + i] = b[i]
      /\ hw'[q][m + l + 1] = <<"kernel", n>>
  BY <1>2 DEF Grows
<1>5. ASSUME NEW i \in 1 .. m + l + 1
      PROVE  i \in 1 .. m \/ (\E j \in 1 .. l : i = m + j) \/ i = m + l + 1
  <2>1. CASE i \in m + 1 .. m + l
    <3>1. i - m \in 1 .. l /\ i = m + (i - m)
      BY <2>1
    <3>2. QED
      BY <3>1
  <2>2. QED
    BY <2>1
<1>6. /\ \A i \in 1 .. m : i \in 1 .. m + l + 1 /\ i < m + l + 1
      /\ \A i \in 1 .. l : m + i \in 1 .. m + l + 1 /\ m + i < m + l + 1
      /\ m + l + 1 \in 1 .. m + l + 1
  OBVIOUS
<1>7. /\ \A i \in DOMAIN hw[q] : /\ i \in DOMAIN hw'[q] /\ hw'[q][i] = hw[q][i]
                                 /\ i < m + l + 1
      /\ \A i \in DOMAIN b : /\ m + i \in DOMAIN hw'[q] /\ hw'[q][m + i] = b[i]
                             /\ m + i < m + l + 1
      /\ m + l + 1 \in DOMAIN hw'[q]
  BY <1>3, <1>4, <1>6
<1>8. \A i \in DOMAIN hw'[q] :
        i \in DOMAIN hw[q] \/ (\E j \in DOMAIN b : i = m + j) \/ i = m + l + 1
  BY <1>3, <1>5
<1>9. QED
  BY <1>2, <1>4, <1>7, <1>8

\* Places move down by one when the head of a queue is taken.
LEMMA ShrunkPlaces ==
  ASSUME TypesInv, NEW q \in Queues, Shrinks(q), QueueTypes'
  PROVE  /\ 1 \in DOMAIN hw[q]
         /\ \A i \in DOMAIN hw[q] : i # 1 => i - 1 \in DOMAIN hw'[q] /\ hw'[q][i - 1] = hw[q][i]
         /\ \A i \in DOMAIN hw'[q] : i + 1 \in DOMAIN hw[q] /\ hw'[q][i] = hw[q][i + 1]
         /\ DOMAIN hw[q] \subseteq Nat \ {0} /\ DOMAIN hw'[q] \subseteq Nat \ {0}
<1>1. hw[q] \in Seq(PacketOf(q)) /\ hw'[q] \in Seq(PacketOf(q)')
  BY DEF TypesInv, QueueTypes
<1>2. PICK m \in Nat \ {0} : m = Len(hw[q])
  BY DEF Shrinks
<1>3. DOMAIN hw[q] = 1 .. m /\ DOMAIN hw'[q] = 1 .. m - 1
  BY <1>1, <1>2 DEF Shrinks
<1>4. \A i \in 1 .. m - 1 : hw'[q][i] = hw[q][i + 1]
  BY <1>2 DEF Shrinks
<1>5. ASSUME NEW i \in 1 .. m, i # 1 PROVE i - 1 \in 1 .. m - 1 /\ hw'[q][i - 1] = hw[q][i]
  <2>1. i - 1 \in 1 .. m - 1 /\ i - 1 + 1 = i
    BY <1>5
  <2>2. QED
    BY <1>4, <2>1
<1>6. ASSUME NEW i \in 1 .. m - 1 PROVE i + 1 \in 1 .. m
  OBVIOUS
<1>7. QED
  BY <1>3, <1>4, <1>5, <1>6

\* A kernel's packet in the queue is behind its barrier's, while that is not lifted.
LEMMA PacketAhead ==
  ASSUME TypesInv, AheadInv, Next, NEW q \in Queues, NEW i \in DOMAIN hw'[q], NEW k \in Kernels,
         hw'[q][i][1] = "kernel", k = <<q, hw'[q][i][2]>>, Pending(k)',
         NEW e, e = kernels'[k].epoch
  PROVE  \/ Passed(e)'
         \/ \E j \in DOMAIN hw'[q] : j < i /\ hw'[q][j] = <<"barrier", e>>
<1> DEFINE p == <<"barrier", e>>
           Ahead == \E j \in DOMAIN hw'[q] : j < i /\ hw'[q][j] = p
<1>0. QueueTypes' /\ k[1] = q /\ Len(hw[q]) \in Nat /\ before[q] \in Seq(Ordering)
  BY QueueTypesStep DEF TypesInv, QueueTypes
<1>1. kernels'[k].at = "queued"
  BY PacketsStep DEF PacketsInv
<1>2. e = kernels[k].epoch /\ Pending(k)
  <2>1. ASSUME NEW r \in Queues, AddSerialization(r) PROVE k # <<r, written[r]>>
    BY <1>1, <2>1, PackEffect DEF From
  <2>2. ASSUME NEW r \in Queues, AddSerialization(r) PROVE e = kernels[k].epoch
    BY <2>1, <2>2, PackEffect DEF Same
  <2>3. QED
    BY <2>1, <2>2, EpochMoves, PendingMoves
<1>3. Passed(e) => Passed(e)'
  BY LiftedGrows DEF Passed
<1>4. ASSUME NEW m \in DOMAIN hw[q], hw[q][m] = hw'[q][i]
      PROVE  Passed(e) \/ \E j \in DOMAIN hw[q] : j < m /\ hw[q][j] = p
  <2>1. hw[q][m][1] = "kernel" /\ k = <<q, hw[q][m][2]>>
    BY <1>4
  <2>2. Pending(<<q, hw[q][m][2]>>) /\ kernels[<<q, hw[q][m][2]>>].epoch = e
    BY <1>2, <2>1
  <2>3. QED
    BY <2>1, <2>2 DEF AheadInv
<1>5. CASE hw'[q] = hw[q]
  BY <1>3, <1>4, <1>5
<1>6. ASSUME NEW b \in Seq(Ordering), NEW n, Grows(q, b, n) PROVE
        Passed(e)' \/ Ahead \/ (i = Len(hw[q]) + Len(b) + 1 /\ hw'[q][i] = <<"kernel", n>>)
  <2>1. CASE i \in DOMAIN hw[q]
    <3>1. /\ hw[q][i] = hw'[q][i]
          /\ \A j \in DOMAIN hw[q] : j \in DOMAIN hw'[q] /\ hw'[q][j] = hw[q][j]
      BY <1>0, <1>6, <2>1, GrownPlaces
    <3>2. QED
      BY <1>3, <1>4, <2>1, <3>1
  <2>2. ASSUME NEW j \in DOMAIN b, i = Len(hw[q]) + j PROVE FALSE
    <3>1. hw'[q][i] = b[j]
      <4>1. \A h \in DOMAIN b : hw'[q][Len(hw[q]) + h] = b[h]
        BY <1>0, <1>6, GrownPlaces
      <4>2. QED
        BY <2>2, <4>1
    <3>2. b[j] \in Ordering
      OBVIOUS
    <3>3. QED
      BY <3>1, <3>2 DEF Ordering
  <2>3. /\ \/ i \in DOMAIN hw[q]
           \/ \E j \in DOMAIN b : i = Len(hw[q]) + j
           \/ i = Len(hw[q]) + Len(b) + 1
        /\ hw'[q][Len(hw[q]) + Len(b) + 1] = <<"kernel", n>>
    BY <1>0, <1>6, GrownPlaces
  <2>4. QED
    BY <2>1, <2>2, <2>3, Zenon
<1>7. ASSUME NEW r \in Queues, WriteDirectly(r) PROVE Passed(e)' \/ Ahead
  <2>1. Grows(r, << >>, written[r] + 1) /\ OthersStay(r) /\ << >> \in Seq(Ordering)
    BY <1>7, WriteGrows
  <2>2. PICK w \in Kernels : w = <<r, written[r] + 1>> /\ kernels[w] = NoKernel
    BY <1>7, WriteEffect DEF Next1
  <2>3. w # k
    BY <1>2, <2>2 DEF Pending, NoKernel
  <2>4. CASE r = q
    <3>1. hw'[q][i] # <<"kernel", written[q] + 1>>
      BY <2>2, <2>3, <2>4
    <3>2. QED
      BY <1>6, <2>1, <2>4, <3>1
  <2>5. CASE r # q
    BY <1>5, <2>1, <2>5 DEF OthersStay
  <2>6. QED
    BY <2>4, <2>5
<1>8. ASSUME NEW r \in Queues, Submit(r) PROVE Passed(e)' \/ Ahead
  <2>1. Grows(r, before[r], written[r]) /\ OthersStay(r)
    BY <1>8, SubmitGrows
  <2>2. ASSUME r = q, i = Len(hw[q]) + Len(before[q]) + 1, hw'[q][i] = <<"kernel", written[q]>>
        PROVE  Passed(e)' \/ Ahead
    <3>1. k = <<q, written[q]>>
      BY <2>2
    <3>2. kernels[k].at = "started"
      BY <1>8, <2>2, <3>1, SubmitEffect DEF From
    <3>3. Passed(e) \/ Barred(q, e)
      BY <1>0, <1>2, <3>2 DEF AheadInv
    <3>4. ASSUME NEW j \in DOMAIN hw[q], hw[q][j] = p PROVE Ahead
      <4>1. /\ j \in DOMAIN hw'[q] /\ hw'[q][j] = p
            /\ j < Len(hw[q]) + Len(before[q]) + 1
        BY <1>0, <2>1, <2>2, <3>4, GrownPlaces
      <4>2. QED
        BY <2>2, <4>1
    <3>5. ASSUME NEW j \in DOMAIN before[q], before[q][j] = p PROVE Ahead
      <4>1. /\ Len(hw[q]) + j \in DOMAIN hw'[q] /\ hw'[q][Len(hw[q]) + j] = p
            /\ Len(hw[q]) + j < Len(hw[q]) + Len(before[q]) + 1
        BY <1>0, <2>1, <2>2, <3>5, GrownPlaces
      <4>2. QED
        BY <2>2, <4>1
    <3>6. QED
      BY <1>3, <3>3, <3>4, <3>5 DEF Barred
  <2>3. CASE r = q
    BY <1>0, <1>6, <2>1, <2>2, <2>3
  <2>4. CASE r # q
    BY <1>5, <2>1, <2>4 DEF OthersStay
  <2>5. QED
    BY <2>3, <2>4
<1>9. ASSUME NEW r \in Queues, PassStep(r) PROVE Passed(e)' \/ Ahead
  <2>1. /\ Shrinks(r) /\ OthersStay(r) /\ Head(hw[r]) = hw[r][1]
    BY <1>9, PassShrinks
  <2>2. CASE r # q
    BY <1>5, <2>1, <2>2 DEF OthersStay
  <2>3. CASE r = q
    <3>1. PICK m \in DOMAIN hw[q] : m = i + 1 /\ hw[q][m] = hw'[q][i] /\ m \in Nat /\ i \in Nat
      BY <1>0, <2>1, <2>3, ShrunkPlaces
    <3>2. ASSUME NEW j \in DOMAIN hw[q], j < m, hw[q][j] = p, j # 1 PROVE Ahead
      <4>1. j - 1 \in DOMAIN hw'[q] /\ hw'[q][j - 1] = p /\ j \in Nat
        BY <1>0, <2>1, <2>3, <3>2, ShrunkPlaces
      <4>2. j - 1 < i
        BY <3>1, <3>2, <4>1
      <4>3. QED
        BY <4>1, <4>2
    <3>3. ASSUME hw[q][1] = p PROVE e \in lifted
      <4>1. PassBarrier(q)
        BY <1>9, <2>1, <2>3, <3>3 DEF PassStep, PassReady, PassBlock, Launch, HeadIs
      <4>2. QED
        BY <2>1, <2>3, <3>3, <4>1 DEF PassBarrier
    <3>4. QED
      BY <1>3, <1>4, <3>1, <3>2, <3>3 DEF Passed
  <2>4. QED
    BY <2>2, <2>3
<1>10. QED
  BY <1>5, <1>7, <1>8, <1>9, PacketsKept

\* A kernel in the interceptor has its barrier's packet in front of it.
LEMMA StartedAhead ==
  ASSUME TypesInv, StructInv, AheadInv, Next, NEW k \in Kernels, Pending(k)',
         kernels'[k].at = "started", NEW e, e = kernels'[k].epoch
  PROVE  Passed(e)' \/ Barred(k[1], e)'
<1>0. k[1] \in Queues
  BY KernelOf
<1>1. Passed(e) => Passed(e)'
  BY LiftedGrows DEF Passed
<1>2. e \in lifted => Passed(e)'
  BY LiftedGrows DEF Passed
<1>3. CASE kernels[k].epoch = e /\ Pending(k)
  <2>1. kernels[k].at = "started"
    BY PendingMoves
  <2>2. Passed(e) \/ Barred(k[1], e)
    BY <1>3, <2>1 DEF AheadInv
  <2>3. QED
    BY <1>0, <1>1, <1>2, <2>2, BarredStays
<1>4. ASSUME NEW q \in Queues, AddSerialization(q), k = <<q, written[q]>>
      PROVE  Passed(e)' \/ Barred(k[1], e)'
  <2>1. k[1] = q /\ e = LastId /\ LastId \in Nat
    BY <1>4, PackEffect
  <2>2. CASE Transition(q)
    <3>1. PICK n \in DOMAIN barriers : n = Len(barriers) /\ Last(barriers) = barriers[n]
      BY <2>2, ListTypes DEF Transition, Last
    <3>2. barriers[n].id = LastId
      BY <2>1, <3>1, ListTypes DEF StructInv, IdInv
    <3>3. PICK a \in Seq(Ordering) :
             /\ Len(a) = 1 /\ a[1] = <<"barrier", Last(barriers).id>>
             /\ Len(before'[q]) = Len(before[q]) + Len(a) + Len(Turn)
             /\ \A i \in 1 .. Len(a) : before'[q][Len(before[q]) + i] = a[i]
      BY <1>4, <2>2, PackPackets
    <3>4. before'[q][Len(before[q]) + 1] = <<"barrier", e>>
      BY <2>1, <3>1, <3>2, <3>3
    <3>5. Len(before[q]) + 1 \in DOMAIN before'[q]
      <4>1. before'[q] \in Seq(Ordering) /\ Len(before[q]) \in Nat /\ Len(Turn) \in Nat
        BY QueueTypesStep, TurnTypes DEF TypesInv, QueueTypes
      <4>2. QED
        BY <3>3, <4>1
    <3>6. QED
      BY <2>1, <3>4, <3>5 DEF Barred
  <2>3. CASE ~Transition(q)
    <3>1. CASE barriers = << >>
      <4>1. Ids = {}
        BY <3>1 DEF Ids
      <4>2. lifted = 1 .. LastId
        BY <4>1 DEF StructInv, IdInv
      <4>3. Passed(e)
        BY <2>1, <4>2 DEF Passed
      <4>4. QED
        BY <1>1, <4>3
    <3>2. CASE barriers # << >>
      <4>1. PICK n \in DOMAIN barriers : n = Len(barriers) /\ Last(barriers) = barriers[n]
        BY <3>2, ListTypes DEF Last
      <4>2. barriers[n].id = e
        BY <2>1, <4>1, ListTypes DEF StructInv, IdInv
      <4>3. barriers[n].complete \/ q \in barriers[n].enqueued
        BY <2>3, <3>2, <4>1 DEF Transition
      <4>4. barriers[n].complete => e \in lifted
        BY <4>2 DEF StructInv, IdInv
      <4>5. q \in barriers[n].enqueued => Passed(e) \/ Barred(q, e)
        BY <4>2 DEF AheadInv
      <4>6. QED
        BY <1>1, <1>2, <2>1, <4>3, <4>4, <4>5, BarredStays
    <3>3. QED
      BY <3>1, <3>2
  <2>4. QED
    BY <2>2, <2>3
<1>5. ASSUME NEW q \in Queues, AddSerialization(q), k # <<q, written[q]>>
      PROVE  kernels[k].epoch = e
  BY <1>5, PackEffect DEF Same
<1>6. QED
  BY <1>3, <1>4, <1>5, EpochMoves, PendingMoves

\* A queue that a barrier says it was put in has its packet, while it is not lifted.
LEMMA EnqueuedAhead ==
  ASSUME TypesInv, StructInv, AheadInv, Next, NEW i \in DOMAIN barriers',
         NEW q \in barriers'[i].enqueued, NEW e, e = barriers'[i].id
  PROVE  Passed(e)' \/ Barred(q, e)'
<1>0. \A j \in DOMAIN barriers : barriers[j] \in Barrier /\ barriers[j].enqueued \subseteq Queues
  BY ListTypes DEF Barrier
<1>1. Passed(e) \/ e \in lifted => Passed(e)'
  BY LiftedGrows DEF Passed
<1>2. ASSUME NEW j \in DOMAIN barriers, barriers[j].id = e, q \in barriers[j].enqueued
      PROVE  Passed(e)' \/ Barred(q, e)'
  <2>1. Passed(e) \/ Barred(q, e)
    BY <1>2 DEF AheadInv
  <2>2. q \in Queues
    BY <1>0, <1>2
  <2>3. QED
    BY <1>1, <2>1, <2>2, BarredStays
<1>3. ASSUME UNCHANGED barriers PROVE Passed(e)' \/ Barred(q, e)'
  BY <1>2, <1>3
<1>4. ASSUME NEW r \in Queues, AddSerialization(r) PROVE Passed(e)' \/ Barred(q, e)'
  <2>1. i \in DOMAIN barriers
        /\ \/ barriers'[i] = barriers[i]
           \/ /\ i = Len(barriers) /\ Transition(r)
              /\ barriers'[i] = [barriers[i] EXCEPT !.enqueued = @ \cup {r}]
    BY <1>4, PackBarriers
  <2>2. CASE barriers'[i] = barriers[i]
    BY <1>2, <2>1, <2>2
  <2>3. CASE /\ i = Len(barriers) /\ Transition(r)
             /\ barriers'[i] = [barriers[i] EXCEPT !.enqueued = @ \cup {r}]
    <3>1. barriers[i].id = e /\ q \in barriers[i].enqueued \cup {r}
      BY <1>0, <2>1, <2>3 DEF Barrier
    <3>2. CASE q = r
      <4>1. Last(barriers) = barriers[i]
        BY <2>1, <2>3 DEF Last
      <4>2. PICK a \in Seq(Ordering) :
             /\ Len(a) = 1 /\ a[1] = <<"barrier", Last(barriers).id>>
             /\ Len(before'[r]) = Len(before[r]) + Len(a) + Len(Turn)
             /\ \A j \in 1 .. Len(a) : before'[r][Len(before[r]) + j] = a[j]
        BY <1>4, <2>3, PackPackets
      <4>3. before'[r][Len(before[r]) + 1] = <<"barrier", e>>
        BY <3>1, <4>1, <4>2
      <4>4. Len(before[r]) + 1 \in DOMAIN before'[r]
        <5>1. before'[r] \in Seq(Ordering) /\ Len(before[r]) \in Nat /\ Len(Turn) \in Nat
          BY QueueTypesStep, TurnTypes DEF TypesInv, QueueTypes
        <5>2. QED
          BY <4>2, <5>1
      <4>5. QED
        BY <3>2, <4>3, <4>4 DEF Barred
    <3>3. CASE q # r
      BY <1>2, <2>1, <3>1, <3>3
    <3>4. QED
      BY <3>2, <3>3
  <2>4. QED
    BY <2>1, <2>2, <2>3
<1>5. ASSUME NEW k \in Kernels, NEW c \in Contexts, KernelCompletion(k, c)
      PROVE  Passed(e)' \/ Barred(q, e)'
  <2>1. PICK j \in DOMAIN barriers : barriers'[i] = RegisterCompletion(barriers[j], k[1])
    BY <1>5, CompletionList
  <2>2. k[1] \in Queues /\ barriers[j] \in Barrier
    BY <1>0, KernelOf
  <2>3. barriers'[i].id = barriers[j].id /\ barriers'[i].enqueued = barriers[j].enqueued
    BY <2>1, <2>2, RegisterKeeps
  <2>4. QED
    BY <1>2, <2>3
<1>6. ASSUME SwitchBegin PROVE Passed(e)' \/ Barred(q, e)'
  <2>1. PICK d \in 0 .. Len(barriers) :
           /\ DOMAIN barriers' = 1 .. Len(barriers) - d + 1
           /\ \A j \in 1 .. Len(barriers) - d :
                j + d \in DOMAIN barriers /\ barriers'[j] = barriers[j + d]
           /\ barriers'[Len(barriers) - d + 1] = NewBarrier(LastId + 1, Old)
    BY <1>6, BeginList
  <2>2. i # Len(barriers) - d + 1
    BY <2>1 DEF NewBarrier
  <2>3. Len(barriers) \in Nat
    BY ListTypes
  <2>4. i \in 1 .. Len(barriers) - d
    BY <2>1, <2>2, <2>3
  <2>5. QED
    BY <1>2, <2>1, <2>4
<1>7. ASSUME RecountQueue PROVE Passed(e)' \/ Barred(q, e)'
  <2>1. /\ i \in DOMAIN barriers
        /\ barriers'[i] = IF i = Len(barriers) THEN Counted(barriers[i], counting, active[counting])
                          ELSE barriers[i]
    BY <1>7, RecountBarriers
  <2>2. barriers'[i].id = barriers[i].id /\ barriers'[i].enqueued = barriers[i].enqueued
    BY <1>0, <2>1 DEF Barrier, Counted
  <2>3. QED
    BY <1>2, <2>1, <2>2
<1>8. SwitchEnd => UNCHANGED barriers
  BY DEF SwitchEnd
<1>9. QED
  BY <1>3, <1>4, <1>5, <1>6, <1>7, <1>8, BarriersKept

\* Nothing is prepared while no thread is in the interceptor.
LEMMA IdleBefore ==
  ASSUME TypesInv, AheadInv, Next, NEW q \in Queues, pc'[q] \notin Packing
  PROVE  before'[q] = << >>
<1>0. before \in [Queues -> Seq(Ordering)] /\ pc \in [Queues -> {"idle", "ask", "pack", "destroyed"}]
  BY DEF TypesInv, QueueTypes
<1>1. ASSUME UNCHANGED <<pc, before>> PROVE before'[q] = << >>
  BY <1>1 DEF AheadInv
<1>2. ASSUME NEW r \in Queues, InterceptBegin(r) \/ Submit(r) PROVE before'[q] = << >>
  <2>1. before' = [before EXCEPT ![r] = << >>] /\ \E x : pc' = [pc EXCEPT ![r] = x]
    BY <1>2 DEF InterceptBegin, Submit
  <2>2. q # r => pc'[q] = pc[q] /\ before'[q] = before[q]
    BY <1>0, <2>1
  <2>3. QED
    BY <1>0, <2>1, <2>2 DEF AheadInv
<1>3. ASSUME NEW r \in Queues, AddSerialization(r) PROVE before'[q] = << >>
  <2>1. pc' = [pc EXCEPT ![r] = "ask"] /\ \A s \in Queues \ {r} : before'[s] = before[s]
    BY <1>3, PackPackets DEF AddSerialization
  <2>2. q # r
    BY <1>0, <2>1 DEF Packing
  <2>3. QED
    BY <1>0, <2>1, <2>2 DEF AheadInv
<1>4. ASSUME NEW r \in Queues, Destroy(r) PROVE before'[q] = << >>
  <2>1. pc' = [pc EXCEPT ![r] = "destroyed"] /\ UNCHANGED before /\ pc[r] = "idle"
    BY <1>4 DEF Destroy
  <2>2. pc[q] \notin Packing
    BY <1>0, <2>1 DEF Packing
  <2>3. QED
    BY <2>1, <2>2 DEF AheadInv
<1>5. ASSUME NEW r \in Queues, NEW c \in Contexts, AskContext(r, c) PROVE before'[q] = << >>
  <2>1. pc' = [pc EXCEPT ![r] = "pack"] /\ UNCHANGED before
    BY <1>5 DEF AskContext
  <2>2. q # r
    BY <1>0, <2>1 DEF Packing
  <2>3. QED
    BY <1>0, <2>1, <2>2 DEF AheadInv
<1>6. QED
  BY <1>1, <1>2, <1>3, <1>4, <1>5, ThreadMoves

\* A kernel whose barrier is not lifted stays behind the barrier's packet.
LEMMA AheadStep ==
  ASSUME TypesInv, StructInv, AheadInv, Next
  PROVE  AheadInv'
<1>1. \A q \in Queues : pc'[q] \notin Packing => before'[q] = << >>
  BY IdleBefore
<1>2. ASSUME NEW q \in Queues, NEW i \in DOMAIN hw'[q], hw'[q][i][1] = "kernel",
             Pending(<<q, hw[q][i][2]>>)'
      PROVE  \/ Passed(kernels[<<q, hw[q][i][2]>>].epoch)'
             \/ \E j \in DOMAIN hw'[q] :
                  j < i /\ hw'[q][j] = <<"barrier", kernels'[<<q, hw'[q][i][2]>>].epoch>>
  <2>1. <<q, hw'[q][i][2]>> \in Kernels
    <3>1. hw'[q] \in Seq(PacketOf(q)')
      BY QueueTypesStep DEF QueueTypes
    <3>2. hw'[q][i] \in PacketOf(q)'
      BY <3>1
    <3>3. hw'[q][i][2] \in 1 .. MaxKernels[q]
      BY <1>2, <3>2 DEF PacketOf, Ordering
    <3>4. QED
      BY <3>3, InKernels
  <2>2. PICK k \in Kernels : k = <<q, hw'[q][i][2]>>
    BY <2>1
  <2>3. PICK e : e = kernels'[k].epoch
    OBVIOUS
  <2>4. Passed(e)' \/ \E j \in DOMAIN hw'[q] : j < i /\ hw'[q][j] = <<"barrier", e>>
    <3>1. Pending(k)'
      BY <1>2, <2>2 DEF Pending
    <3>2. QED
      BY <1>2, <2>2, <2>3, <3>1, PacketAhead
  <2>5. QED
    BY <2>2, <2>3, <2>4 DEF Passed
<1>3. ASSUME NEW k \in Kernels, Pending(k)', kernels'[k].at = "started"
      PROVE  Passed(kernels[k].epoch)' \/ Barred(k[1], kernels[k].epoch)'
  <2>1. PICK e : e = kernels'[k].epoch
    OBVIOUS
  <2>2. Passed(e)' \/ Barred(k[1], e)'
    BY <1>3, <2>1, StartedAhead
  <2>3. QED
    BY <2>1, <2>2 DEF Passed, Barred
<1>4. ASSUME NEW i \in DOMAIN barriers', NEW q \in barriers'[i].enqueued
      PROVE  Passed(barriers[i].id)' \/ Barred(q, barriers[i].id)'
  <2>1. PICK e : e = barriers'[i].id
    OBVIOUS
  <2>2. Passed(e)' \/ Barred(q, e)'
    BY <2>1, EnqueuedAhead
  <2>3. QED
    BY <2>1, <2>2 DEF Passed, Barred
<1>5. QED
  BY <1>1, <1>2, <1>3, <1>4 DEF AheadInv

\* A kernel's turns change only when it is packed.
LEMMA TurnsMove ==
  ASSUME TypesInv, Next, NEW k \in Kernels,
         \A q \in Queues : AddSerialization(q) => k # <<q, written[q]>>
  PROVE  kernels'[k].turns = kernels[k].turns
<1>1. ASSUME NEW q \in Queues, AddSerialization(q) PROVE kernels'[k].turns = kernels[k].turns
  BY <1>1, PackEffect DEF Same
<1>2. ASSUME NEW j \in Kernels, NEW c \in Contexts, KernelCompletion(j, c)
      PROVE  kernels'[k].turns = kernels[k].turns
  BY <1>2, CompletionEffect DEF Same
<1>3. QED
  BY <1>1, <1>2, AskedMoves DEF SameAsked

\* The kernel of a packet in the queue keeps its turns.
LEMMA PacketTurns ==
  ASSUME TypesInv, Next, NEW q \in Queues, NEW i \in DOMAIN hw[q], hw[q][i][1] = "kernel"
  PROVE  kernels'[<<q, hw[q][i][2]>>].turns = kernels[<<q, hw[q][i][2]>>].turns
<1>1. PICK k \in Kernels : k = <<q, hw[q][i][2]>> /\ kernels[k].at = "queued"
  BY PacketKernel
<1>2. \A r \in Queues : AddSerialization(r) => k # <<r, written[r]>>
  BY <1>1, PackEffect DEF From
<1>3. QED
  BY <1>1, <1>2, TurnsMove

\* The links of a queue, one packet at a time.
LinkedAt(q, i) ==
  /\ hw[q][i][1] = "ready" => i + 1 \in DOMAIN hw[q] /\ hw[q][i + 1][1] = "block"
  /\ hw[q][i][1] = "block" => i + 1 \in DOMAIN hw[q] /\ IsTurn(q, hw[q][i + 1])
  /\ i > 1 /\ hw[q][i][1] = "block" => hw[q][i - 1][1] = "ready"
  /\ i > 1 /\ IsTurn(q, hw[q][i]) => hw[q][i - 1][1] = "block"
\* What holds of the packets of a queue, one place at a time.
LEMMA LinkedSplit ==
  ASSUME NEW q \in Queues
  PROVE  /\ Linked(q) <=> \A i \in DOMAIN hw[q] : LinkedAt(q, i)
         /\ Linked(q)' <=> \A i \in DOMAIN hw'[q] : LinkedAt(q, i)'
BY DEF Linked, LinkedAt

\* Whether a packet is a turn's kernel does not change while it is in the queue.
LEMMA SameTurn ==
  ASSUME TypesInv, Next, NEW q \in Queues, NEW i \in DOMAIN hw[q], NEW p, p = hw[q][i]
  PROVE  IsTurn(q, p)' <=> IsTurn(q, p)
BY PacketTurns DEF IsTurn

\* Links after packets were added at the end.
LEMMA GrownLinks ==
  ASSUME TypesInv, Next, NEW q \in Queues, Linked(q), NEW b \in Seq(Ordering), NEW n,
         NEW k \in Kernels, k = <<q, n>>, Grows(q, b, n), NEW h \in 0 .. Len(b),
         \A i \in 1 .. h : b[i][1] = "barrier",
         \/ h = Len(b) /\ ~(kernels'[k].turns > 0)
         \/ /\ h + 2 = Len(b) /\ kernels'[k].turns > 0
            /\ b[h + 1][1] = "ready" /\ b[h + 2][1] = "block"
  PROVE  Linked(q)'
<1>1. QueueTypes' /\ hw[q] \in Seq(PacketOf(q)) /\ hw'[q] \in Seq(PacketOf(q)')
  BY QueueTypesStep DEF TypesInv, QueueTypes
<1>2. PICK m \in Nat, l \in Nat : m = Len(hw[q]) /\ l = Len(b)
  BY <1>1
<1>3. DOMAIN hw[q] = 1 .. m /\ DOMAIN b = 1 .. l /\ DOMAIN hw'[q] = 1 .. m + l + 1
  BY <1>1, <1>2 DEF Grows
<1>4. /\ \A i \in 1 .. m : hw'[q][i] = hw[q][i]
      /\ \A i \in 1 .. l : hw'[q][m + i] = b[i]
      /\ hw'[q][m + l + 1] = <<"kernel", n>>
  BY <1>2 DEF Grows
<1>5. IsTurn(q, hw[q][m + l + 1])' <=> kernels'[k].turns > 0
  BY <1>4 DEF IsTurn
<1>6. \A i \in 1 .. l : b[i][1] \in {"barrier", "ready", "block"}
  <2>1. \A i \in 1 .. l : b[i] \in Ordering
    BY <1>3
  <2>2. QED
    BY <2>1 DEF Ordering
<1>7. ASSUME NEW i \in 1 .. m PROVE LinkedAt(q, i)'
  <2>1. LinkedAt(q, i) /\ i \in DOMAIN hw[q]
    BY <1>3, LinkedSplit
  <2>2. IsTurn(q, hw[q][i])' <=> IsTurn(q, hw[q][i])
    <3>1. PICK p : p = hw[q][i] /\ p = hw'[q][i]
      BY <1>4
    <3>2. IsTurn(q, p)' <=> IsTurn(q, p)
      BY <2>1, <3>1, SameTurn
    <3>3. QED
      BY <3>1, <3>2 DEF IsTurn
  <2>3. ASSUME i + 1 \in DOMAIN hw[q]
        PROVE  /\ hw'[q][i + 1] = hw[q][i + 1] /\ i + 1 \in DOMAIN hw'[q]
               /\ IsTurn(q, hw[q][i + 1])' <=> IsTurn(q, hw[q][i + 1])
    <3>1. i + 1 \in 1 .. m /\ i + 1 \in DOMAIN hw'[q]
      BY <1>3, <2>3
    <3>2. PICK p : p = hw[q][i + 1] /\ p = hw'[q][i + 1]
      BY <1>4, <3>1
    <3>3. IsTurn(q, p)' <=> IsTurn(q, p)
      BY <2>3, <3>2, SameTurn
    <3>4. QED
      BY <3>1, <3>2, <3>3 DEF IsTurn
  <2>4. ASSUME i > 1 PROVE hw'[q][i - 1] = hw[q][i - 1]
    <3>1. i - 1 \in 1 .. m
      BY <2>4
    <3>2. QED
      BY <1>4, <3>1
  <2>5. hw'[q][i] = hw[q][i]
    BY <1>4
  <2>6. QED
    BY <2>1, <2>2, <2>3, <2>4, <2>5 DEF LinkedAt
<1>8. ASSUME NEW j \in 1 .. l, NEW i, i = m + j PROVE LinkedAt(q, i)'
  <2>1. hw'[q][i] = b[j] /\ b[j][1] \in {"barrier", "ready", "block"}
    BY <1>4, <1>6, <1>8
  <2>2. ~IsTurn(q, hw[q][i])'
    BY <2>1 DEF IsTurn
  <2>3. CASE b[j][1] = "barrier"
    BY <2>1, <2>2, <2>3 DEF LinkedAt
  <2>4. ASSUME b[j][1] # "barrier"
        PROVE  /\ h + 2 = l /\ kernels'[k].turns > 0 /\ (j = h + 1 \/ j = h + 2)
               /\ b[h + 1][1] = "ready" /\ b[h + 2][1] = "block"
    <3>1. ~(j \in 1 .. h)
      BY <2>4
    <3>2. QED
      BY <1>2, <3>1
  <2>5. CASE b[j][1] # "barrier" /\ j = h + 1
    <3>1. j + 1 \in 1 .. l /\ m + (j + 1) = i + 1 /\ i + 1 \in DOMAIN hw'[q] /\ b[j + 1][1] = "block"
      BY <1>3, <1>8, <2>4, <2>5
    <3>2. hw'[q][i + 1][1] = "block"
      BY <1>4, <3>1
    <3>3. b[j][1] = "ready"
      BY <2>4, <2>5
    <3>4. QED
      BY <2>1, <2>2, <3>1, <3>2, <3>3 DEF LinkedAt
  <2>6. CASE b[j][1] # "barrier" /\ j = h + 2
    <3>1. j - 1 \in 1 .. l /\ m + (j - 1) = i - 1 /\ i + 1 = m + l + 1 /\ i + 1 \in DOMAIN hw'[q]
      BY <1>3, <1>8, <2>4, <2>6
    <3>2. b[j - 1][1] = "ready" /\ b[j][1] = "block"
      <4>1. j - 1 = h + 1
        BY <2>6
      <4>2. QED
        BY <2>4, <2>6, <4>1
    <3>3. hw'[q][i - 1][1] = "ready"
      BY <1>4, <3>1, <3>2
    <3>4. IsTurn(q, hw[q][i + 1])'
      BY <1>5, <2>4, <2>6, <3>1 DEF IsTurn
    <3>5. QED
      BY <2>1, <2>2, <3>1, <3>2, <3>3, <3>4 DEF LinkedAt
  <2>7. QED
    BY <2>3, <2>4, <2>5, <2>6
<1>9. ASSUME NEW i, i = m + l + 1 PROVE LinkedAt(q, i)'
  <2>1. hw'[q][i][1] = "kernel"
    BY <1>4, <1>9
  <2>2. ASSUME IsTurn(q, hw[q][i])' PROVE hw'[q][i - 1][1] = "block"
    <3>1. h + 2 = l /\ b[h + 2][1] = "block"
      BY <1>2, <1>5, <1>9, <2>2 DEF IsTurn
    <3>2. l \in 1 .. l /\ m + l = i - 1 /\ b[l][1] = "block"
      BY <1>9, <3>1
    <3>3. QED
      BY <1>4, <3>2
  <2>3. QED
    BY <2>1, <2>2 DEF LinkedAt
<1>10. ASSUME NEW i \in DOMAIN hw'[q] PROVE LinkedAt(q, i)'
  <2>1. i \in 1 .. m + l + 1
    BY <1>3
  <2>2. CASE i \in m + 1 .. m + l
    <3>1. i - m \in 1 .. l /\ i = m + (i - m)
      BY <2>2
    <3>2. QED
      BY <1>8, <3>1
  <2>3. QED
    BY <1>7, <1>9, <2>1, <2>2
<1>11. QED
  BY <1>10, LinkedSplit

\* Links after the first packet left.
LEMMA ShrunkLinks ==
  ASSUME TypesInv, Next, NEW q \in Queues, Linked(q), Shrinks(q)
  PROVE  Linked(q)'
<1>0. QueueTypes'
  BY QueueTypesStep
<1>1. ASSUME NEW i \in DOMAIN hw'[q] PROVE LinkedAt(q, i)'
  <2>1. PICK n \in DOMAIN hw[q] : n = i + 1 /\ hw'[q][i] = hw[q][n] /\ n \in Nat \ {0} /\ i \in Nat \ {0}
    BY <1>0, ShrunkPlaces
  <2>2. LinkedAt(q, n)
    BY LinkedSplit
  <2>3. ASSUME NEW j \in DOMAIN hw'[q], NEW o \in DOMAIN hw[q], hw'[q][j] = hw[q][o]
        PROVE  IsTurn(q, hw[q][j])' <=> IsTurn(q, hw[q][o])
    <3>1. PICK p : p = hw[q][o] /\ p = hw'[q][j]
      BY <2>3
    <3>2. IsTurn(q, p)' <=> IsTurn(q, p)
      BY <3>1, SameTurn
    <3>3. QED
      BY <3>1, <3>2 DEF IsTurn
  <2>4. IsTurn(q, hw[q][i])' <=> IsTurn(q, hw[q][n])
    BY <2>1, <2>3
  <2>5. ASSUME n + 1 \in DOMAIN hw[q]
        PROVE  /\ i + 1 \in DOMAIN hw'[q] /\ hw'[q][i + 1] = hw[q][n + 1]
               /\ IsTurn(q, hw[q][i + 1])' <=> IsTurn(q, hw[q][n + 1])
    <3>1. PICK o \in DOMAIN hw[q] : o = n + 1
      BY <2>5
    <3>2. o # 1 /\ o - 1 = i + 1 /\ i + 1 = n
      BY <2>1, <3>1
    <3>3. i + 1 \in DOMAIN hw'[q] /\ hw'[q][i + 1] = hw[q][o]
      BY <1>0, <3>1, <3>2, ShrunkPlaces
    <3>4. PICK j \in DOMAIN hw'[q] : j = i + 1 /\ hw'[q][j] = hw[q][o]
      BY <3>3
    <3>5. IsTurn(q, hw[q][j])' <=> IsTurn(q, hw[q][o])
      BY <2>3, <3>4
    <3>6. QED
      BY <3>1, <3>3, <3>4, <3>5 DEF IsTurn
  <2>6. ASSUME i > 1 PROVE hw'[q][i - 1] = hw[q][n - 1]
    <3>1. n # 1 /\ n - 1 = i /\ i \in Nat
      BY <2>1
    <3>2. i \in DOMAIN hw[q]
      <4>1. hw[q] \in Seq(PacketOf(q))
        BY DEF TypesInv, QueueTypes
      <4>2. DOMAIN hw[q] = 1 .. Len(hw[q]) /\ Len(hw[q]) \in Nat
        BY <4>1
      <4>3. QED
        BY <2>1, <4>2
    <3>3. i # 1
      BY <2>6
    <3>4. hw'[q][i - 1] = hw[q][i]
      BY <1>0, <3>2, <3>3, ShrunkPlaces
    <3>5. QED
      BY <3>1, <3>4
  <2>7. n > 1
    BY <2>1
  <2>8. QED
    BY <2>1, <2>2, <2>4, <2>5, <2>6, <2>7 DEF LinkedAt
<1>2. QED
  BY <1>1, LinkedSplit

\* Links where nothing moves.
LEMMA KeptLinks ==
  ASSUME TypesInv, Next, NEW q \in Queues, Linked(q), hw'[q] = hw[q]
  PROVE  Linked(q)'
<1>1. ASSUME NEW i \in DOMAIN hw[q] PROVE IsTurn(q, hw[q][i])' <=> IsTurn(q, hw[q][i])
  <2>1. PICK p : p = hw[q][i] /\ p = hw'[q][i]
    OBVIOUS
  <2>2. IsTurn(q, p)' <=> IsTurn(q, p)
    BY <2>1, SameTurn
  <2>3. QED
    BY <2>1, <2>2 DEF IsTurn
<1>2. ASSUME NEW i \in DOMAIN hw'[q] PROVE LinkedAt(q, i)'
  <2>1. LinkedAt(q, i) /\ i \in DOMAIN hw[q]
    BY LinkedSplit
  <2>2. QED
    BY <1>1, <2>1 DEF LinkedAt
<1>3. QED
  BY <1>2, LinkedSplit

\* The packets of a turn follow each other, whatever happens.
LEMMA LinkedStep ==
  ASSUME TypesInv, AheadInv, LinkInv, Next, Calm', NEW q \in Queues
  PROVE  Linked(q)'
<1>0. Linked(q)
  BY DEF LinkInv
<1>1. CASE hw'[q] = hw[q]
  BY <1>0, <1>1, KeptLinks
<1>2. ASSUME NEW r \in Queues, WriteDirectly(r) PROVE Linked(q)'
  <2>1. Grows(r, << >>, written[r] + 1) /\ OthersStay(r) /\ << >> \in Seq(Ordering)
    BY <1>2, WriteGrows
  <2>2. PICK k \in Kernels : k = <<r, written[r] + 1>> /\ kernels[k] = NoKernel /\ UNCHANGED Asked(k)
    BY <1>2, WriteEffect DEF Next1
  <2>3. kernels'[k].turns = 0
    BY <2>2 DEF Asked, NoKernel
  <2>4. ~(kernels'[k].turns > 0)
    BY <2>3
  <2>5. CASE r = q
    <3>1. 0 \in 0 .. Len(<< >>) /\ Len(<< >>) = 0 /\ \A i \in 1 .. 0 : << >>[i][1] = "barrier"
      OBVIOUS
    <3>2. QED
      BY <1>0, <2>1, <2>2, <2>4, <2>5, <3>1, GrownLinks
  <2>6. CASE r # q
    BY <1>1, <2>1, <2>6 DEF OthersStay
  <2>7. QED
    BY <2>5, <2>6
<1>3. ASSUME NEW r \in Queues, Submit(r) PROVE Linked(q)'
  <2>1. Grows(r, before[r], written[r]) /\ OthersStay(r) /\ before[r] \in Seq(Ordering)
    BY <1>3, SubmitGrows DEF TypesInv, QueueTypes
  <2>2. PICK k \in Kernels : k = <<r, written[r]>> /\ kernels'[k].turns = kernels[k].turns
    BY <1>3, SubmitEffect DEF Asked
  <2>3. /\ Plain(r) >= 0 /\ \A i \in 1 .. Plain(r) : before[r][i][1] = "barrier"
        /\ kernels[k].turns = 1 =>
             before[r][Plain(r) + 1][1] = "ready" /\ before[r][Plain(r) + 2][1] = "block"
        /\ Plain(r) = Len(before[r]) - 2 * kernels[k].turns
    BY <1>3, <2>2 DEF LinkInv, Prepared, Plain, Submit, Packing
  <2>4. kernels[k].turns \in {0, 1}
    <3>1. kernels'[k].turns \in Nat /\ ~(kernels'[k].turns > 1)
      BY KernelTypesStep DEF KernelTypes, KernelRecord, Calm, Doubled
    <3>2. QED
      BY <2>2, <3>1
  <2>5. PICK h : h = Plain(r)
    OBVIOUS
  <2>6. Len(before[r]) \in Nat
    BY <2>1
  <2>7. CASE r = q
    <3>1. h \in 0 .. Len(before[q]) /\ \A i \in 1 .. h : before[q][i][1] = "barrier"
      BY <2>3, <2>4, <2>5, <2>6, <2>7
    <3>2. CASE kernels[k].turns = 0
      <4>1. h = Len(before[q]) /\ ~(kernels'[k].turns > 0)
        BY <2>2, <2>3, <2>5, <2>6, <2>7, <3>2
      <4>2. QED
        BY <1>0, <2>1, <2>2, <2>7, <3>1, <4>1, GrownLinks
    <3>3. CASE kernels[k].turns = 1
      <4>1. /\ h + 2 = Len(before[q]) /\ kernels'[k].turns > 0
            /\ before[q][h + 1][1] = "ready" /\ before[q][h + 2][1] = "block"
        BY <2>2, <2>3, <2>5, <2>6, <2>7, <3>3
      <4>2. QED
        BY <1>0, <2>1, <2>2, <2>7, <3>1, <4>1, GrownLinks
    <3>4. QED
      BY <2>4, <3>2, <3>3
  <2>8. CASE r # q
    BY <1>1, <2>1, <2>8 DEF OthersStay
  <2>9. QED
    BY <2>7, <2>8
<1>4. ASSUME NEW r \in Queues, PassStep(r) PROVE Linked(q)'
  <2>1. Shrinks(r) /\ OthersStay(r)
    BY <1>4, PassShrinks
  <2>2. QED
    BY <1>0, <1>1, <2>1, ShrunkLinks DEF OthersStay
<1>5. QED
  BY <1>1, <1>2, <1>3, <1>4, PacketsKept

\* What is prepared for a kernel, as it gets packets.
LEMMA PackPrepares ==
  ASSUME TypesInv, StructInv, ModeInv, LinkInv, Next, Calm', NEW q \in Queues, AddSerialization(q)
  PROVE  Prepared(q)'
<1>1. PICK k \in Kernels :
        /\ k = <<q, written[q]>> /\ kernels[k].turns = 0
        /\ status = "enabled" => kernels'[k].turns = 1
        /\ status # "enabled" => kernels'[k].turns = 0
  BY PackMode
<1>2. written' = written /\ pc[q] \in Packing
  BY DEF AddSerialization, Packing
<1>3. before[q] \in Seq(Ordering) /\ Len(before[q]) \in Nat
  BY DEF TypesInv, QueueTypes
<1>4. \A i \in 1 .. Len(before[q]) : before[q][i][1] = "barrier"
  <2>1. Plain(q) = Len(before[q])
    BY <1>1, <1>3 DEF Plain
  <2>2. QED
    BY <1>2, <2>1 DEF LinkInv, Prepared
<1>5. PICK a \in Seq(Ordering) :
           /\ Transition(q) => Len(a) = 1 /\ a[1] = <<"barrier", Last(barriers).id>>
           /\ ~Transition(q) => Len(a) = 0
           /\ Len(before'[q]) = Len(before[q]) + Len(a) + Len(Turn)
           /\ \A i \in 1 .. Len(before[q]) : before'[q][i] = before[q][i]
           /\ \A i \in 1 .. Len(a) : before'[q][Len(before[q]) + i] = a[i]
           /\ \A i \in 1 .. Len(Turn) : before'[q][Len(before[q]) + Len(a) + i] = Turn[i]
  BY PackPackets
<1>6. PICK m \in Nat, l \in Nat : m = Len(before[q]) /\ l = Len(a) /\ l \in {0, 1}
  BY <1>3, <1>5
<1>7. PICK t \in {0, 1} : Len(Turn) = 2 * t /\ kernels'[k].turns = t
  <2>1. CASE status = "enabled"
    <3>1. Len(Turn) = 2 * 1 /\ kernels'[k].turns = 1
      BY <1>1, <2>1, TurnTypes
    <3>2. QED
      BY <3>1
  <2>2. CASE status # "enabled"
    <3>1. Len(Turn) = 2 * 0 /\ kernels'[k].turns = 0
      BY <1>1, <2>2, TurnTypes
    <3>2. QED
      BY <3>1
  <2>3. QED
    BY <2>1, <2>2
<1>8. Len(before'[q]) - 2 * kernels'[k].turns = m + l
  BY <1>5, <1>6, <1>7
<1>9. ASSUME NEW i \in 1 .. m + l PROVE before'[q][i][1] = "barrier"
  <2>1. CASE i \in 1 .. m
    BY <1>4, <1>5, <1>6, <2>1
  <2>2. CASE i = m + 1 /\ l = 1
    <3>1. Transition(q) /\ before'[q][m + 1] = a[1]
      BY <1>5, <1>6, <2>2
    <3>2. QED
      BY <1>5, <2>2, <3>1
  <2>3. i \in 1 .. m \/ (i = m + 1 /\ l = 1)
    <3>1. CASE l = 0
      BY <3>1
    <3>2. CASE l = 1
      BY <3>2
    <3>3. QED
      BY <1>6, <3>1, <3>2
  <2>4. QED
    BY <2>1, <2>2, <2>3
<1>10. ASSUME kernels'[k].turns = 1
       PROVE  before'[q][m + l + 1][1] = "ready" /\ before'[q][m + l + 2][1] = "block"
  <2>1. status = "enabled"
    BY <1>1, <1>10
  <2>2. Turn = <<<<"ready", 0>>, <<"block", 0>>>> /\ Len(Turn) = 2
    BY <2>1, TurnTypes
  <2>3. before'[q][m + l + 1] = Turn[1] /\ before'[q][m + l + 2] = Turn[2]
    BY <1>5, <1>6, <2>2
  <2>4. QED
    BY <2>2, <2>3
<1>11. Plain(q)' = m + l
  BY <1>1, <1>2, <1>8 DEF Plain
<1>12. m + l >= 0
  BY <1>6
<1>13. QED
  BY <1>1, <1>2, <1>9, <1>10, <1>11, <1>12 DEF Prepared

\* What is put before a kernel is barriers, then its turn.
LEMMA PreparedStep ==
  ASSUME TypesInv, StructInv, ModeInv, AheadInv, LinkInv, Next, Calm', NEW q \in Queues,
         pc'[q] \in Packing
  PROVE  Prepared(q)'
<1>0. /\ before \in [Queues -> Seq(Ordering)] /\ pc \in [Queues -> {"idle", "ask", "pack", "destroyed"}]
      /\ written \in [Queues -> Nat]
  BY DEF TypesInv, QueueTypes
<1>1. ASSUME pc[q] \in Packing, before'[q] = before[q], written'[q] = written[q],
             \A r \in Queues : AddSerialization(r) => r # q
      PROVE  Prepared(q)'
  <2>1. PICK k \in Kernels : k = <<q, written[q]>> /\ k[1] = q
    BY <1>1, InHand
  <2>2. \A r \in Queues : AddSerialization(r) => k # <<r, written[r]>>
    BY <1>1, <2>1
  <2>3. kernels'[k].turns = kernels[k].turns
    BY <2>2, TurnsMove
  <2>4. Plain(q)' = Plain(q)
    BY <1>1, <2>1, <2>3 DEF Plain
  <2>5. Prepared(q)
    BY <1>1 DEF LinkInv
  <2>6. QED
    BY <1>1, <2>1, <2>3, <2>4, <2>5 DEF Prepared
<1>2. CASE UNCHANGED <<pc, written, before, asking>>
  <2>1. ASSUME NEW r \in Queues, AddSerialization(r), r = q PROVE Prepared(q)'
    BY <2>1, PackPrepares
  <2>2. QED
    BY <1>1, <1>2, <2>1
<1>3. ASSUME NEW r \in Queues, UNCHANGED <<pc, before, asking>>, WriteDirectly(r) PROVE Prepared(q)'
  <2>1. pc[r] = "idle" /\ written' = [written EXCEPT ![r] = @ + 1]
    BY <1>3 DEF WriteDirectly
  <2>2. r # q
    BY <1>3, <2>1 DEF Packing
  <2>3. written'[q] = written[q]
    BY <1>0, <2>1, <2>2
  <2>4. \A s \in Queues : AddSerialization(s) => s # q \/ Prepared(q)'
    BY PackPrepares
  <2>5. QED
    BY <1>1, <1>3, <2>3, <2>4
<1>4. ASSUME NEW r \in Queues, InterceptBegin(r) PROVE Prepared(q)'
  <2>1. /\ before' = [before EXCEPT ![r] = << >>] /\ \E x : pc' = [pc EXCEPT ![r] = x]
        /\ written' = [written EXCEPT ![r] = @ + 1]
    BY <1>4 DEF InterceptBegin
  <2>2. CASE r = q
    <3>1. PICK k \in Kernels :
           /\ k = Next1(q) /\ kernels'[k] = [NoKernel EXCEPT !.at = "started", !.tracked = TRUE]
      BY <1>4, <2>2, InterceptEffect
    <3>2. kernels'[k].turns = 0
      BY <3>1 DEF NoKernel
    <3>3. k = <<q, written'[q]>> /\ before'[q] = << >>
      BY <1>0, <2>1, <2>2, <3>1 DEF Next1
    <3>4. Plain(q)' = 0
      BY <3>2, <3>3 DEF Plain
    <3>5. QED
      BY <3>2, <3>3, <3>4 DEF Prepared
  <2>3. CASE r # q
    <3>1. pc'[q] = pc[q] /\ before'[q] = before[q] /\ written'[q] = written[q]
      BY <1>0, <2>1, <2>3
    <3>2. \A s \in Queues : AddSerialization(s) => s # q \/ Prepared(q)'
      BY PackPrepares
    <3>3. QED
      BY <1>1, <3>1, <3>2
  <2>4. QED
    BY <2>2, <2>3
<1>5. ASSUME NEW r \in Queues, AddSerialization(r) PROVE Prepared(q)'
  <2>1. pc' = [pc EXCEPT ![r] = "ask"] /\ written' = written /\ \A s \in Queues \ {r} : before'[s] = before[s]
    BY <1>5, PackPackets DEF AddSerialization
  <2>2. CASE r = q
    BY <1>5, <2>2, PackPrepares
  <2>3. CASE r # q
    <3>1. pc'[q] = pc[q] /\ before'[q] = before[q] /\ written'[q] = written[q]
      BY <1>0, <2>1, <2>3
    <3>2. \A s \in Queues : AddSerialization(s) => s # q \/ Prepared(q)'
      BY PackPrepares
    <3>3. QED
      BY <1>1, <3>1, <3>2
  <2>4. QED
    BY <2>2, <2>3
<1>6. ASSUME NEW r \in Queues, Submit(r) \/ Destroy(r) PROVE Prepared(q)'
  <2>1. /\ \E x : pc' = [pc EXCEPT ![r] = x] /\ x \notin Packing
        /\ written' = written /\ \A s \in Queues \ {r} : before'[s] = before[s]
    BY <1>0, <1>6 DEF Submit, Destroy, Packing
  <2>2. r # q
    BY <1>0, <2>1
  <2>3. pc'[q] = pc[q] /\ before'[q] = before[q] /\ written'[q] = written[q]
    BY <1>0, <2>1, <2>2
  <2>4. \A s \in Queues : AddSerialization(s) => s # q \/ Prepared(q)'
    BY PackPrepares
  <2>5. QED
    BY <1>1, <2>3, <2>4
<1>7. ASSUME NEW r \in Queues, NEW c \in Contexts, AskContext(r, c) PROVE Prepared(q)'
  <2>1. /\ pc' = [pc EXCEPT ![r] = "pack"] /\ written' = written /\ before' = before /\ pc[r] = "ask"
    BY <1>7 DEF AskContext
  <2>2. pc[q] \in Packing
    BY <1>0, <2>1 DEF Packing
  <2>3. \A s \in Queues : AddSerialization(s) => s # q \/ Prepared(q)'
    BY PackPrepares
  <2>4. QED
    BY <1>1, <2>1, <2>2, <2>3
<1>8. QED
  BY <1>2, <1>3, <1>4, <1>5, <1>6, <1>7, ThreadMoves

\* The packets of a turn follow each other.
LEMMA LinkStep ==
  ASSUME TypesInv, StructInv, ModeInv, AheadInv, LinkInv, Next, Calm'
  PROVE  LinkInv'
BY LinkedStep, PreparedStep DEF LinkInv

\* A kernel that has still to register waits for by the barrier after its own, and by
\* no older one.
LEMMA NextWaits ==
  ASSUME TypesInv, StructInv, CountInv, LiftInv, ~held, NEW k \in Kernels, Pending(k),
         kernels[k].at \in Launched
  PROVE  /\ \A i \in DOMAIN barriers : Waits(barriers[i], k[1]) => kernels[k].epoch < barriers[i].id
         /\ kernels[k].epoch < LastId =>
              \E n \in DOMAIN barriers : /\ barriers[n].id = kernels[k].epoch + 1
                                         /\ Waits(barriers[n], k[1]) /\ barriers[n].id \notin lifted
<1>0. k[1] \in Queues /\ kernels[k].epoch \in Nat /\ LastId \in Nat /\ ToCount = {}
      /\ kernels[k].todo \subseteq Contexts
  BY KernelOf, ListTypes DEF TypesInv, KernelTypes, KernelRecord, ToCount
<1>1. ASSUME NEW i \in DOMAIN barriers, barriers[i].id \notin lifted PROVE Counts(i, k[1])
  BY <1>0, <1>1 DEF CountInv
<1>2. ASSUME NEW i \in DOMAIN barriers, Waits(barriers[i], k[1])
      PROVE  kernels[k].epoch < barriers[i].id
  <2>1. barriers[i].id \notin lifted
    BY <1>2 DEF StructInv, IdInv, Waits
  <2>2. Regs(k[1], barriers[i].id) # {}
    BY <1>1, <1>2, <2>1 DEF Counts
  <2>3. barriers[i].id \in Nat
    BY ListTypes
  <2>4. QED
    BY <2>2, <2>3, LaunchedOldest
<1>3. ASSUME kernels[k].epoch < LastId
      PROVE  \E n \in DOMAIN barriers : /\ barriers[n].id = kernels[k].epoch + 1
                                        /\ Waits(barriers[n], k[1]) /\ barriers[n].id \notin lifted
  <2>1. kernels[k].epoch + 1 \in 1 .. LastId
    BY <1>0, <1>3
  <2>2. kernels[k].epoch + 1 \notin lifted
    <3>1. ASSUME kernels[k].epoch + 1 \in lifted PROVE kernels[k].epoch >= kernels[k].epoch + 1
      BY <3>1 DEF LiftInv
    <3>2. QED
      BY <1>0, <3>1
  <2>3. PICK n \in DOMAIN barriers : barriers[n].id = kernels[k].epoch + 1
    BY <2>1, <2>2 DEF StructInv, IdInv, Ids
  <2>4. PICK c \in Contexts : c \in kernels[k].todo
    BY <1>0 DEF Pending
  <2>5. PICK id : id = barriers[n].id
    OBVIOUS
  <2>6. kernels[k].epoch < id
    BY <1>0, <2>3, <2>5
  <2>7. <<k, c>> \in Regs(k[1], id)
    BY <1>0, <2>4, <2>6, InRegs
  <2>8. Waits(barriers[n], k[1])
    BY <1>1, <2>2, <2>3, <2>5, <2>7 DEF Counts
  <2>9. QED
    BY <2>2, <2>3, <2>8
<1>4. QED
  BY <1>2, <1>3

\* The mode that kernel_completion_signal finds is the one in which the kernel got its
\* packets.
LEMMA ModeFound ==
  ASSUME TypesInv, StructInv, CountInv, LiftInv, ModeInv, ~held, NEW k \in Kernels, Pending(k),
         kernels[k].at \in Launched
  PROVE  \/ Serial(k) /\ DispatchState(Clear(barriers), k[1]) = "enabled"
         \/ ~Serial(k) /\ DispatchState(Clear(barriers), k[1]) = "disabled"
<1> DEFINE q == k[1]
           cs == Clear(barriers)
           W == {j \in DOMAIN cs : Waits(cs[j], q)}
<1>0. /\ barriers \in Seq(Barrier) /\ Len(barriers) \in Nat /\ DOMAIN barriers = 1 .. Len(barriers)
      /\ kernels[k].epoch \in Nat /\ LastId \in Nat
      /\ \A i \in DOMAIN barriers : /\ barriers[i].id \in Nat
                                    /\ barriers[i].state \in {"enabled", "disabled"}
  BY ListTypes DEF TypesInv, KernelTypes, KernelRecord, Barrier
<1>1. PICK d \in 0 .. Len(barriers) :
        /\ Len(cs) = Len(barriers) - d
        /\ \A i \in 1 .. Len(barriers) - d : cs[i] = barriers[i + d]
        /\ \A i \in 1 .. d : barriers[i].id \in lifted
  BY <1>0, Cleared
<1>2. cs \in Seq(Barrier)
  BY <1>0, Cleared
<1>3. DOMAIN cs = 1 .. Len(barriers) - d
  BY <1>0, <1>1, <1>2
<1>4. ASSUME NEW i \in DOMAIN cs
      PROVE  i + d \in DOMAIN barriers /\ cs[i] = barriers[i + d] /\ i \in Nat
  BY <1>0, <1>1, <1>3
<1>5. \A i \in DOMAIN barriers : barriers[i].id = LastId - Len(barriers) + i
  BY DEF StructInv, IdInv
<1>6. \A i \in DOMAIN barriers : barriers[i].id <= LastId
  BY <1>0, <1>5
<1>7. CASE W = {}
  <2>1. FirstWaiting(cs, q) = {}
    BY <1>7 DEF FirstWaiting
  <2>2. DispatchState(cs, q) = status
    BY <2>1 DEF DispatchState
  <2>3. ~(kernels[k].epoch < LastId)
    <3>1. SUFFICES ASSUME kernels[k].epoch < LastId PROVE FALSE
      OBVIOUS
    <3>2. PICK n \in DOMAIN barriers : Waits(barriers[n], q) /\ barriers[n].id \notin lifted
      BY <3>1, NextWaits
    <3>3. n \notin 1 .. d
      BY <1>1, <3>2
    <3>4. n - d \in 1 .. Len(barriers) - d /\ n - d + d = n
      BY <1>0, <3>3
    <3>5. n - d \in DOMAIN cs /\ cs[n - d] = barriers[n]
      BY <1>1, <1>3, <3>4
    <3>6. QED
      BY <1>7, <3>2, <3>5
  <2>4. kernels[k].epoch = LastId
    BY <1>0, <2>3 DEF StructInv, EpochInv
  <2>5. Serial(k) <=> status = "enabled"
    BY <2>4 DEF ModeInv
  <2>6. status \in {"enabled", "disabled"}
    BY DEF TypesInv, StateTypes
  <2>7. QED
    BY <2>2, <2>5, <2>6
<1>8. CASE W # {}
  <2>1. W \subseteq Nat
    BY <1>4
  <2>2. PICK f \in W : \A j \in W : f <= j
    BY <1>8, <2>1, LeastOf
  <2>3. f \in DOMAIN cs /\ Waits(cs[f], q) /\ f + d \in DOMAIN barriers /\ cs[f] = barriers[f + d]
        /\ f \in Nat
    BY <1>4
  <2>4. FirstWaiting(cs, q) = {cs[f].state}
    <3>1. ASSUME NEW h \in 1 .. f - 1 PROVE ~Waits(cs[h], q)
      <4>1. h \in DOMAIN cs /\ ~(f <= h)
        BY <1>3, <2>3
      <4>2. QED
        BY <2>2, <4>1
    <3>2. ASSUME NEW j \in DOMAIN cs, Waits(cs[j], q), \A h \in 1 .. j - 1 : ~Waits(cs[h], q)
          PROVE  j = f
      <4>1. f <= j /\ j \in Nat
        BY <1>4, <2>2, <3>2
      <4>2. ~(f \in 1 .. j - 1)
        BY <2>3, <3>2
      <4>3. f \in 1 .. Len(barriers) - d
        BY <1>3, <2>3
      <4>4. QED
        BY <4>1, <4>2, <4>3
    <3>3. {j \in DOMAIN cs : Waits(cs[j], q) /\ \A h \in 1 .. j - 1 : ~Waits(cs[h], q)} = {f}
      BY <2>3, <3>1, <3>2
    <3>4. QED
      BY <3>3 DEF FirstWaiting
  <2>5. DispatchState(cs, q) = barriers[f + d].state
    <3>1. FirstWaiting(cs, q) # {}
      BY <2>4
    <3>2. DispatchState(cs, q) = CHOOSE s \in FirstWaiting(cs, q) : TRUE
      BY <3>1 DEF DispatchState
    <3>3. DispatchState(cs, q) \in FirstWaiting(cs, q)
      BY <3>1, <3>2
    <3>4. QED
      BY <2>3, <2>4, <3>3
  <2>6. kernels[k].epoch < barriers[f + d].id
    BY <2>3, NextWaits
  <2>7. kernels[k].epoch < LastId
    BY <1>0, <1>6, <2>3, <2>6
  <2>8. PICK n \in DOMAIN barriers : /\ barriers[n].id = kernels[k].epoch + 1
                                     /\ Waits(barriers[n], q) /\ barriers[n].id \notin lifted
    BY <2>7, NextWaits
  <2>9. f <= n - d
    <3>3. n \notin 1 .. d
      BY <1>1, <2>8
    <3>4. n - d \in 1 .. Len(barriers) - d /\ n - d + d = n
      BY <1>0, <3>3
    <3>5. n - d \in DOMAIN cs /\ cs[n - d] = barriers[n]
      BY <1>1, <1>3, <3>4
    <3>6. n - d \in W
      BY <2>8, <3>5
    <3>7. QED
      BY <2>2, <3>6
  <2>10. barriers[f + d].id = kernels[k].epoch + 1
    <3>1. PICK g \in DOMAIN barriers : g = f + d
      BY <2>3
    <3>2. barriers[g].id = LastId - Len(barriers) + g /\ barriers[n].id = LastId - Len(barriers) + n
      BY <1>5
    <3>3. g <= n
      BY <1>0, <2>3, <2>9, <3>1
    <3>4. kernels[k].epoch < barriers[g].id
      BY <2>6, <3>1
    <3>5. barriers[g].id = kernels[k].epoch + 1
      BY <1>0, <2>8, <3>2, <3>3, <3>4
    <3>6. QED
      BY <3>1, <3>5
  <2>11. Serial(k) <=> barriers[f + d].state = "enabled"
    BY <2>3, <2>10 DEF ModeInv
  <2>12. barriers[f + d].state \in {"enabled", "disabled"}
    BY <1>0, <2>3
  <2>13. QED
    BY <2>5, <2>11, <2>12
<1>9. QED
  BY <1>7, <1>8

\* Which kernels hold the turn changes as one is launched and as one completes.
LEMMA CurrentKept ==
  ASSUME TypesInv, Next, NEW k \in Kernels,
         \A q \in Queues : Launch(q) => k # <<q, Head(hw[q])[2]>>,
         \A c \in Contexts : ~KernelCompletion(k, c)
  PROVE  Current(k)' <=> Current(k)
<1>1. ASSUME Pending(k), kernels[k].at \in Launched PROVE kernels'[k].todo = kernels[k].todo
  <2>1. ASSUME NEW q \in Queues, AddSerialization(q) PROVE kernels'[k].todo = kernels[k].todo
    <3>1. PICK j \in Kernels : Same(j) /\ From(j, "started", "started")
      BY <2>1, PackEffect
    <3>2. j # k
      BY <1>1, <3>1 DEF From, Launched
    <3>3. QED
      BY <3>1, <3>2 DEF Same
  <2>2. ASSUME NEW j \in Kernels, NEW c \in Contexts, KernelCompletion(j, c)
        PROVE  kernels'[k].todo = kernels[k].todo
    BY <2>2, CompletionEffect DEF Same
  <2>3. QED
    BY <2>1, <2>2, AskedMoves DEF SameAsked
<1>2. ASSUME kernels[k].at # "started" PROVE kernels'[k].turns = kernels[k].turns
  <2>1. \A q \in Queues : AddSerialization(q) => k # <<q, written[q]>>
    BY <1>2, PackEffect DEF From
  <2>2. QED
    BY <2>1, TurnsMove
<1>3. ASSUME Current(k) PROVE Current(k)'
  <2>1. Pending(k)'
    BY <1>1, <1>3 DEF Current, Pending
  <2>2. kernels'[k].at \in Launched
    BY <1>3, <2>1, PendingMoves DEF Current
  <2>3. kernels'[k].turns = kernels[k].turns
    BY <1>2, <1>3 DEF Current, Launched
  <2>4. QED
    BY <1>3, <2>1, <2>2, <2>3 DEF Current, Serial
<1>4. ASSUME Current(k)' PROVE Current(k)
  <2>1. Pending(k)' /\ kernels'[k].at \in Launched /\ kernels'[k].turns > 0
    BY <1>4 DEF Current, Serial
  <2>2. kernels[k].at \in Launched
    BY <2>1, PendingMoves
  <2>3. Pending(k)
    <3>1. ASSUME NEW q \in Queues, AddSerialization(q) PROVE k # <<q, written[q]>>
      BY <2>2, <3>1, PackEffect DEF From, Launched
    <3>2. QED
      BY <2>1, <3>1, PendingMoves
  <2>4. kernels'[k].turns = kernels[k].turns
    BY <1>2, <2>2 DEF Launched
  <2>5. QED
    BY <2>1, <2>2, <2>3, <2>4 DEF Current, Serial
<1>5. QED
  BY <1>3, <1>4

\* The front of a queue after packets were added: a turn starts with its ready packet.
LEMMA GrownFront ==
  ASSUME TypesInv, Next, NEW q \in Queues, NEW b \in Seq(Ordering), NEW n, Grows(q, b, n),
         b = << >> => ~(kernels'[<<q, n>>].turns > 0),
         b # << >> => b[1][1] \in {"barrier", "ready"}
  PROVE  (AtBlock(q)' <=> AtBlock(q)) /\ (AtTurn(q)' <=> AtTurn(q))
<1>0. QueueTypes' /\ hw[q] \in Seq(PacketOf(q))
  BY QueueTypesStep DEF TypesInv, QueueTypes
<1>1. CASE hw[q] # << >>
  <2>1. 1 \in DOMAIN hw[q]
    BY <1>0, <1>1
  <2>2. 1 \in DOMAIN hw'[q] /\ hw'[q][1] = hw[q][1]
    BY <1>0, <2>1, GrownPlaces
  <2>3. PICK p : p = hw[q][1] /\ p = hw'[q][1]
    BY <2>2
  <2>4. IsTurn(q, p)' <=> IsTurn(q, p)
    BY <2>1, <2>3, SameTurn
  <2>5. AtTurn(q)' <=> AtTurn(q)
    BY <2>1, <2>2, <2>3, <2>4 DEF AtTurn, IsTurn
  <2>6. AtBlock(q)' <=> AtBlock(q)
    BY <2>1, <2>2 DEF AtBlock
  <2>7. QED
    BY <2>5, <2>6
<1>2. CASE hw[q] = << >>
  <2>1. ~AtBlock(q) /\ ~AtTurn(q) /\ Len(hw[q]) = 0
    BY <1>2 DEF AtBlock, AtTurn
  <2>2. CASE b = << >>
    <3>1. hw'[q][1] = <<"kernel", n>>
      BY <2>1, <2>2 DEF Grows
    <3>2. QED
      BY <2>1, <2>2, <3>1 DEF AtBlock, AtTurn, IsTurn
  <2>3. CASE b # << >>
    <3>1. 1 \in 1 .. Len(b)
      BY <2>3
    <3>2. hw'[q][1] = b[1]
      <4>1. hw'[q][0 + 1] = b[1]
        BY <2>1, <3>1 DEF Grows
      <4>2. QED
        BY <4>1
    <3>3. hw'[q][1][1] \in {"barrier", "ready"}
      BY <2>3, <3>2
    <3>4. QED
      BY <2>1, <3>3 DEF AtBlock, AtTurn, IsTurn
  <2>4. QED
    BY <2>2, <2>3
<1>3. QED
  BY <1>1, <1>2

\* The front of a queue changes only as its first packet leaves.
LEMMA FrontKept ==
  ASSUME TypesInv, LinkInv, Next, Calm', NEW q \in Queues, ~PassStep(q)
  PROVE  (AtBlock(q)' <=> AtBlock(q)) /\ (AtTurn(q)' <=> AtTurn(q))
<1>1. ASSUME hw'[q] = hw[q] PROVE (AtBlock(q)' <=> AtBlock(q)) /\ (AtTurn(q)' <=> AtTurn(q))
  <2>1. PICK p : p = hw[q][1] /\ p = hw'[q][1]
    BY <1>1
  <2>2. 1 \in DOMAIN hw[q] => (IsTurn(q, p)' <=> IsTurn(q, p))
    BY <2>1, SameTurn
  <2>3. AtTurn(q)' <=> AtTurn(q)
    BY <1>1, <2>1, <2>2 DEF AtTurn, IsTurn
  <2>4. AtBlock(q)' <=> AtBlock(q)
    BY <1>1 DEF AtBlock
  <2>5. QED
    BY <2>3, <2>4
<1>2. ASSUME NEW r \in Queues, WriteDirectly(r)
      PROVE  (AtBlock(q)' <=> AtBlock(q)) /\ (AtTurn(q)' <=> AtTurn(q))
  <2>1. Grows(r, << >>, written[r] + 1) /\ OthersStay(r) /\ << >> \in Seq(Ordering)
    BY <1>2, WriteGrows
  <2>2. PICK k \in Kernels : k = <<r, written[r] + 1>> /\ kernels[k] = NoKernel /\ UNCHANGED Asked(k)
    BY <1>2, WriteEffect DEF Next1
  <2>3. kernels'[k].turns = 0
    BY <2>2 DEF Asked, NoKernel
  <2>4. ~(kernels'[<<r, written[r] + 1>>].turns > 0)
    BY <2>2, <2>3
  <2>5. CASE r = q
    BY <2>1, <2>4, <2>5, GrownFront
  <2>6. CASE r # q
    BY <1>1, <2>1, <2>6 DEF OthersStay
  <2>7. QED
    BY <2>5, <2>6
<1>3. ASSUME NEW r \in Queues, Submit(r)
      PROVE  (AtBlock(q)' <=> AtBlock(q)) /\ (AtTurn(q)' <=> AtTurn(q))
  <2>1. Grows(r, before[r], written[r]) /\ OthersStay(r) /\ before[r] \in Seq(Ordering)
        /\ Len(before[r]) \in Nat
    BY <1>3, SubmitGrows DEF TypesInv, QueueTypes
  <2>2. PICK k \in Kernels : k = <<r, written[r]>> /\ kernels'[k].turns = kernels[k].turns
    BY <1>3, SubmitEffect DEF Asked
  <2>3. /\ Plain(r) >= 0 /\ \A i \in 1 .. Plain(r) : before[r][i][1] = "barrier"
        /\ kernels[k].turns = 1 =>
             before[r][Plain(r) + 1][1] = "ready" /\ before[r][Plain(r) + 2][1] = "block"
        /\ Plain(r) = Len(before[r]) - 2 * kernels[k].turns
    BY <1>3, <2>2 DEF LinkInv, Prepared, Plain, Submit, Packing
  <2>4. kernels[k].turns \in {0, 1}
    <3>1. kernels'[k].turns \in Nat /\ ~(kernels'[k].turns > 1)
      BY KernelTypesStep DEF KernelTypes, KernelRecord, Calm, Doubled
    <3>2. QED
      BY <2>2, <3>1
  <2>5. ASSUME before[r] = << >> PROVE ~(kernels'[<<r, written[r]>>].turns > 0)
    <3>1. Len(before[r]) = 0
      BY <2>5
    <3>2. kernels[k].turns = 0
      BY <2>3, <2>4, <3>1
    <3>3. QED
      BY <2>2, <3>2
  <2>6. ASSUME before[r] # << >> PROVE before[r][1][1] \in {"barrier", "ready"}
    <3>1. Len(before[r]) > 0
      BY <2>1, <2>6
    <3>2. CASE Plain(r) > 0
      <4>1. 1 \in 1 .. Plain(r)
        BY <2>1, <2>3, <2>4, <3>2
      <4>2. QED
        BY <2>3, <4>1
    <3>3. CASE Plain(r) = 0
      <4>1. kernels[k].turns = 1
        BY <2>1, <2>3, <2>4, <3>1, <3>3
      <4>2. before[r][0 + 1][1] = "ready"
        BY <2>3, <3>3, <4>1
      <4>3. QED
        BY <4>2
    <3>4. QED
      BY <2>1, <2>3, <2>4, <3>2, <3>3
  <2>7. CASE r = q
    BY <2>1, <2>5, <2>6, <2>7, GrownFront
  <2>8. CASE r # q
    BY <1>1, <2>1, <2>8 DEF OthersStay
  <2>9. QED
    BY <2>7, <2>8
<1>4. ASSUME NEW r \in Queues, PassStep(r)
      PROVE  (AtBlock(q)' <=> AtBlock(q)) /\ (AtTurn(q)' <=> AtTurn(q))
  BY <1>1, <1>4, PassShrinks DEF OthersStay
<1>5. QED
  BY <1>1, <1>2, <1>3, <1>4, PacketsKept

\* The place of a queue in line, when nothing that it depends on moves.
LEMMA LineKept ==
  ASSUME NEW q \in Queues, LineOf(q), ready_signal'[q] = ready_signal[q],
         block_signal'[q] = block_signal[q], q = dispatch_queue' <=> q = dispatch_queue,
         InLine(q)' <=> InLine(q), AtBlock(q)' <=> AtBlock(q), AtTurn(q)' <=> AtTurn(q),
         HasCurrent(q)' <=> HasCurrent(q)
  PROVE  LineOf(q)'
BY DEF LineOf

\* The packet behind the first: a turn's packets follow each other.
LEMMA NextFront ==
  ASSUME TypesInv, Next, NEW q \in Queues, Linked(q), PassStep(q)
  PROVE  /\ 1 \in DOMAIN hw[q] /\ Head(hw[q]) = hw[q][1]
         /\ AtBlock(q)' <=> hw[q][1][1] = "ready"
         /\ AtTurn(q)' <=> hw[q][1][1] = "block"
<1>0. QueueTypes' /\ Shrinks(q) /\ Head(hw[q]) = hw[q][1] /\ 1 \in DOMAIN hw[q]
  BY QueueTypesStep, PassShrinks
<1>1. ASSUME 1 \in DOMAIN hw'[q]
      PROVE  /\ 2 \in DOMAIN hw[q] /\ hw'[q][1] = hw[q][2]
             /\ AtTurn(q)' <=> IsTurn(q, hw[q][2])
  <2>1. 1 + 1 \in DOMAIN hw[q] /\ hw'[q][1] = hw[q][1 + 1]
    BY <1>0, <1>1, ShrunkPlaces
  <2>2. PICK o \in DOMAIN hw[q] : o = 2 /\ hw'[q][1] = hw[q][o]
    BY <2>1
  <2>3. PICK p : p = hw[q][o] /\ p = hw'[q][1]
    BY <2>2
  <2>4. IsTurn(q, p)' <=> IsTurn(q, p)
    BY <2>3, SameTurn
  <2>5. QED
    BY <1>1, <2>2, <2>3, <2>4 DEF AtTurn, IsTurn
<1>2. LinkedAt(q, 1)
  BY <1>0, LinkedSplit
<1>3. ASSUME hw[q][1][1] = "ready" PROVE AtBlock(q)'
  <2>1. 1 + 1 \in DOMAIN hw[q] /\ hw[q][1 + 1][1] = "block"
    BY <1>2, <1>3 DEF LinkedAt
  <2>2. PICK o \in DOMAIN hw[q] : o = 2 /\ hw[q][o][1] = "block"
    BY <2>1
  <2>3. o # 1 /\ o - 1 = 1
    BY <2>2
  <2>4. 1 \in DOMAIN hw'[q] /\ hw'[q][1] = hw[q][o]
    BY <1>0, <2>3, ShrunkPlaces
  <2>5. QED
    BY <2>2, <2>4 DEF AtBlock
<1>4. ASSUME hw[q][1][1] = "block" PROVE AtTurn(q)'
  <2>1. 1 + 1 \in DOMAIN hw[q] /\ IsTurn(q, hw[q][1 + 1])
    BY <1>2, <1>4 DEF LinkedAt
  <2>2. PICK o \in DOMAIN hw[q] : o = 2 /\ IsTurn(q, hw[q][o])
    BY <2>1
  <2>3. o # 1 /\ o - 1 = 1
    BY <2>2
  <2>4. 1 \in DOMAIN hw'[q] /\ hw'[q][1] = hw[q][o]
    BY <1>0, <2>3, ShrunkPlaces
  <2>5. IsTurn(q, hw[q][2])
    BY <2>2
  <2>6. QED
    BY <1>1, <2>4, <2>5
<1>5. ASSUME 2 \in DOMAIN hw[q]
      PROVE  /\ hw[q][2][1] = "block" => hw[q][1][1] = "ready"
             /\ IsTurn(q, hw[q][2]) => hw[q][1][1] = "block"
  <2>1. LinkedAt(q, 2)
    BY <1>5, LinkedSplit
  <2>2. 2 > 1 /\ 2 - 1 = 1
    OBVIOUS
  <2>3. QED
    BY <2>1, <2>2 DEF LinkedAt
<1>6. AtBlock(q)' => hw[q][1][1] = "ready"
  BY <1>1, <1>5 DEF AtBlock
<1>7. AtTurn(q)' => hw[q][1][1] = "block"
  <2>1. AtTurn(q)' => 1 \in DOMAIN hw'[q]
    BY DEF AtTurn
  <2>2. QED
    BY <1>1, <1>5, <2>1
<1>8. QED
  BY <1>0, <1>3, <1>4, <1>6, <1>7

\* The queues that a packet's passing leaves alone.
LEMMA PassOthers ==
  ASSUME TypesInv, LinkInv, LineInv, Next, Calm', NEW r \in Queues, PassStep(r),
         NEW q \in Queues, q # r
  PROVE  LineOf(q)'
<1>1. ready_signal'[q] = ready_signal[q] /\ block_signal'[q] = block_signal[q]
  <2>1. \/ UNCHANGED signalVars
        \/ ready_signal' = [ready_signal EXCEPT ![r] = -1] /\ UNCHANGED block_signal
        \/ block_signal' = [block_signal EXCEPT ![r] = -1] /\ UNCHANGED ready_signal
    BY Zenon DEF PassStep, PassBarrier, PassReady, PassBlock, Launch
  <2>2. /\ ready_signal \in [Queues -> {-1, 0, 1}] /\ block_signal \in [Queues -> {-1, 0, 1}]
    BY DEF TypesInv, StateTypes
  <2>3. QED
    BY <2>1, <2>2 DEF signalVars
<1>2. UNCHANGED <<dispatch_queue, dispatch_ready>>
  BY Zenon DEF PassStep, PassBarrier, PassReady, PassBlock, Launch, serializerVars
<1>3. ASSUME PassStep(q) PROVE FALSE
  BY <1>3, PassShrinks DEF OthersStay, Shrinks
<1>4. (AtBlock(q)' <=> AtBlock(q)) /\ (AtTurn(q)' <=> AtTurn(q))
  BY <1>3, FrontKept
<1>5. ASSUME NEW k \in Kernels, k[1] = q PROVE Current(k)' <=> Current(k)
  <2>1. \A s \in Queues : Launch(s) => k # <<s, Head(hw[s])[2]>>
    <3>1. ASSUME NEW s \in Queues, Launch(s), k = <<s, Head(hw[s])[2]>> PROVE FALSE
      BY <1>3, <1>5, <3>1 DEF PassStep
    <3>2. QED
      BY <3>1
  <2>2. \A c \in Contexts : ~KernelCompletion(k, c)
    <3>1. UNCHANGED hw => FALSE
      BY PassShrinks DEF Shrinks
    <3>2. QED
      BY <3>1, Zenon DEF KernelCompletion
  <2>3. QED
    BY <2>1, <2>2, CurrentKept
<1>6. HasCurrent(q)' <=> HasCurrent(q)
  BY <1>5 DEF HasCurrent
<1>7. InLine(q)' <=> InLine(q)
  BY <1>2 DEF InLine
<1>8. QED
  BY <1>1, <1>2, <1>4, <1>6, <1>7, LineKept DEF LineInv

\* The queue whose first packet passes.
LEMMA PassLine ==
  ASSUME TypesInv, LinkInv, LineInv, Next, Calm', NEW q \in Queues,
         PassBarrier(q) \/ PassReady(q) \/ PassBlock(q)
  PROVE  LineOf(q)' /\ \A k \in Kernels : Current(k)' <=> Current(k)
<1>0. /\ PassStep(q) /\ Linked(q) /\ LineOf(q)
      /\ ready_signal \in [Queues -> {-1, 0, 1}] /\ block_signal \in [Queues -> {-1, 0, 1}]
  BY DEF PassStep, LinkInv, LineInv, TypesInv, StateTypes
<1>1. /\ 1 \in DOMAIN hw[q] /\ Head(hw[q]) = hw[q][1]
      /\ AtBlock(q)' <=> hw[q][1][1] = "ready"
      /\ AtTurn(q)' <=> hw[q][1][1] = "block"
  BY <1>0, NextFront
<1>2. /\ AtBlock(q) <=> hw[q][1][1] = "block"
      /\ hw[q][1][1] # "kernel" => ~AtTurn(q)
  BY <1>1 DEF AtBlock, AtTurn, IsTurn
<1>3. UNCHANGED kernels
  BY OthersKeepKernels DEF OtherStep
<1>4. \A k \in Kernels : Current(k)' <=> Current(k)
  BY <1>3 DEF Current, Serial, Pending
<1>5. HasCurrent(q)' <=> HasCurrent(q)
  BY <1>4 DEF HasCurrent
<1>6. UNCHANGED <<dispatch_queue, dispatch_ready>>
  BY Zenon DEF PassBarrier, PassReady, PassBlock, serializerVars
<1>7. InLine(q)' <=> InLine(q)
  BY <1>6 DEF InLine
<1>8. CASE PassBarrier(q)
  <2>1. hw[q][1][1] = "barrier" /\ UNCHANGED signalVars
    BY <1>1, <1>8 DEF PassBarrier, HeadIs
  <2>2. (AtBlock(q)' <=> AtBlock(q)) /\ (AtTurn(q)' <=> AtTurn(q))
    BY <1>1, <1>2, <2>1
  <2>3. QED
    BY <1>0, <1>4, <1>5, <1>6, <1>7, <2>1, <2>2, LineKept DEF signalVars
<1>9. CASE PassReady(q)
  <2>1. /\ hw[q][1][1] = "ready" /\ ready_signal[q] = 0 /\ UNCHANGED block_signal
        /\ ready_signal'[q] = -1
    BY <1>0, <1>1, <1>9 DEF PassReady, HeadIs
  <2>2. q # dispatch_queue /\ ~InLine(q) /\ block_signal[q] = 1 /\ ~HasCurrent(q)
    BY <1>0, <2>1 DEF LineOf
  <2>3. AtBlock(q)' /\ ~AtTurn(q)'
    BY <1>1, <2>1
  <2>4. QED
    BY <1>4, <1>5, <1>6, <1>7, <2>1, <2>2, <2>3 DEF LineOf
<1>10. CASE PassBlock(q)
  <2>1. /\ hw[q][1][1] = "block" /\ block_signal[q] = 0 /\ UNCHANGED ready_signal
        /\ block_signal'[q] = -1
    BY <1>0, <1>1, <1>10 DEF PassBlock, HeadIs
  <2>2. q = dispatch_queue /\ ~InLine(q) /\ ready_signal[q] = 1 /\ ~HasCurrent(q)
    BY <1>0, <2>1 DEF LineOf
  <2>3. ~AtBlock(q)' /\ AtTurn(q)'
    BY <1>1, <2>1
  <2>4. QED
    BY <1>4, <1>5, <1>6, <1>7, <2>1, <2>2, <2>3 DEF LineOf
<1>11. QED
  BY <1>8, <1>9, <1>10

\* A kernel that is launched is current when it had a turn, and then it is the only one.
LEMMA LaunchLine ==
  ASSUME TypesInv, LinkInv, LineInv, Next, Calm', NEW q \in Queues, Launch(q)
  PROVE  /\ LineOf(q)'
         /\ \A k, j \in Kernels : k[1] = q /\ j[1] = q /\ Current(k)' /\ Current(j)' => k = j
<1>0. /\ PassStep(q) /\ Linked(q) /\ LineOf(q)
  BY DEF PassStep, LinkInv, LineInv
<1>1. /\ 1 \in DOMAIN hw[q] /\ Head(hw[q]) = hw[q][1] /\ hw[q][1][1] = "kernel"
      /\ ~AtBlock(q)' /\ ~AtTurn(q)' /\ ~AtBlock(q)
  <2>1. /\ 1 \in DOMAIN hw[q] /\ Head(hw[q]) = hw[q][1]
        /\ AtBlock(q)' <=> hw[q][1][1] = "ready"
        /\ AtTurn(q)' <=> hw[q][1][1] = "block"
    BY <1>0, NextFront
  <2>2. hw[q][1][1] = "kernel"
    BY <2>1 DEF Launch, HeadIs
  <2>3. QED
    BY <2>1, <2>2 DEF AtBlock
<1>2. PICK k \in Kernels :
           /\ k = <<q, Head(hw[q])[2]>> /\ k[1] = q
           /\ Same(k) /\ From(k, "queued", "running") /\ UNCHANGED Asked(k)
  BY LaunchEffect
<1>3. AtTurn(q) <=> kernels[k].turns > 0
  BY <1>1, <1>2 DEF AtTurn, IsTurn
<1>4. ASSUME NEW j \in Kernels, j # k PROVE Current(j)' <=> Current(j)
  BY <1>2, <1>4 DEF Same, Current, Serial, Pending
<1>5. ~Current(k)
  BY <1>2 DEF Current, From, Launched
<1>6. Current(k)' <=> AtTurn(q)
  <2>1. Sane(kernels[k])
    BY DEF TypesInv, KernelTypes
  <2>2. kernels[k].turns > 0 => kernels[k].todo # {}
    BY <1>2, <2>1 DEF Sane, From
  <2>3. /\ kernels'[k].turns = kernels[k].turns /\ kernels'[k].todo = kernels[k].todo
        /\ kernels'[k].at = "running"
    BY <1>2 DEF Asked, From
  <2>4. QED
    BY <1>3, <2>2, <2>3 DEF Current, Serial, Pending, Launched
<1>7. UNCHANGED <<ready_signal, block_signal, dispatch_queue, dispatch_ready>>
  BY Zenon DEF Launch, serializerVars, signalVars
<1>8. InLine(q)' <=> InLine(q)
  BY <1>7 DEF InLine
<1>9. HasCurrent(q)' <=> AtTurn(q) \/ HasCurrent(q)
  BY <1>2, <1>4, <1>5, <1>6 DEF HasCurrent
<1>10. LineOf(q)'
  BY <1>0, <1>1, <1>7, <1>8, <1>9 DEF LineOf
<1>11. ASSUME NEW i \in Kernels, NEW j \in Kernels, i[1] = q, j[1] = q, Current(i)', Current(j)'
       PROVE  i = j
  <2>1. CASE AtTurn(q)
    <3>1. ~HasCurrent(q)
      BY <1>0, <2>1 DEF LineOf
    <3>2. i = k /\ j = k
      BY <1>4, <1>11, <3>1 DEF HasCurrent
    <3>3. QED
      BY <3>2
  <2>2. CASE ~AtTurn(q)
    <3>1. i # k /\ j # k
      BY <1>6, <1>11, <2>2
    <3>2. Current(i) /\ Current(j)
      BY <1>4, <1>11, <3>1
    <3>3. QED
      BY <1>11, <3>2 DEF LineInv
  <2>3. QED
    BY <2>1, <2>2
<1>12. QED
  BY <1>10, <1>11

\* Each queue is in line once.
LineOnce == \A i, j \in DOMAIN dispatch_ready : dispatch_ready[i] = dispatch_ready[j] => i = j
\* Each queue has one kernel with the turn.
CurrentOnce == \A k, j \in Kernels : k[1] = j[1] /\ Current(k) /\ Current(j) => k = j
\* The parts of LineInv, in this state and the next.
LEMMA LineSplit == /\ LineInv <=> LineOnce /\ CurrentOnce /\ \A q \in Queues : LineOf(q)
                   /\ LineInv' <=> LineOnce' /\ CurrentOnce' /\ \A q \in Queues : LineOf(q)'
BY DEF LineInv, LineOnce, CurrentOnce

\* A queue that is ready gets the turn or a place in line.
LEMMA ReadyLine ==
  ASSUME TypesInv, LineInv, NEW r \in Queues, QueueReady(r)
  PROVE  LineInv'
<1>0. /\ ready_signal \in [Queues -> {-1, 0, 1}] /\ block_signal \in [Queues -> {-1, 0, 1}]
      /\ dispatch_ready \in Seq(Queues) /\ NoQueue \notin Queues
  <2>1. dispatch_ready \in Seq(Queues)
    BY TypesOK DEF TypeOK
  <2>2. NoQueue \notin Queues
    BY SerializerAssumption
  <2>3. QED
    BY <2>1, <2>2 DEF TypesInv, StateTypes
<1>1. UNCHANGED <<hw, kernels>>
  BY Zenon DEF QueueReady
<1>2. \A k \in Kernels : Current(k)' <=> Current(k)
  BY <1>1 DEF Current, Serial, Pending
<1>3. CurrentOnce'
  BY <1>2, LineSplit DEF CurrentOnce
<1>4. ASSUME NEW q \in Queues
      PROVE  /\ HasCurrent(q)' <=> HasCurrent(q)
             /\ AtBlock(q)' <=> AtBlock(q)
             /\ AtTurn(q)' <=> AtTurn(q)
  <2>1. HasCurrent(q)' <=> HasCurrent(q)
    BY <1>2 DEF HasCurrent
  <2>2. QED
    BY <1>1, <2>1 DEF AtBlock, AtTurn, IsTurn
<1>5. /\ ready_signal[r] = -1 /\ r # dispatch_queue /\ ~InLine(r) /\ block_signal[r] = 1
      /\ AtBlock(r) /\ ~AtTurn(r) /\ ~HasCurrent(r)
  <2>1. ready_signal[r] = -1 /\ LineOf(r)
    BY LineSplit DEF QueueReady
  <2>2. r # dispatch_queue /\ ~InLine(r) /\ block_signal[r] = 1
    BY <2>1 DEF LineOf
  <2>3. QED
    BY <2>1, <2>2 DEF LineOf
<1>6. ready_signal'[r] = 1 /\ \A q \in Queues \ {r} : ready_signal'[q] = ready_signal[q]
  BY <1>0 DEF QueueReady
<1>7. CASE dispatch_queue = NoQueue
  <2>1. /\ dispatch_queue' = r /\ UNCHANGED dispatch_ready
        /\ block_signal'[r] = 0 /\ \A q \in Queues \ {r} : block_signal'[q] = block_signal[q]
    BY <1>0, <1>7 DEF QueueReady
  <2>2. \A q \in Queues : InLine(q)' <=> InLine(q)
    BY <2>1 DEF InLine
  <2>3. LineOf(r)'
    BY <1>4, <1>5, <1>6, <2>1, <2>2 DEF LineOf
  <2>4. ASSUME NEW q \in Queues, q # r PROVE LineOf(q)'
    <3>1. q # dispatch_queue /\ q # dispatch_queue'
      BY <1>0, <1>7, <2>1, <2>4
    <3>2. QED
      BY <1>4, <1>6, <2>1, <2>2, <2>4, <3>1, LineKept, LineSplit
  <2>5. LineOnce'
    BY <2>1, LineSplit DEF LineOnce
  <2>6. QED
    BY <1>3, <2>3, <2>4, <2>5, LineSplit
<1>8. CASE dispatch_queue # NoQueue
  <2>1. dispatch_ready' = Append(dispatch_ready, r) /\ UNCHANGED <<block_signal, dispatch_queue>>
    BY <1>8 DEF QueueReady
  <2>2. PICK n \in Nat : n = Len(dispatch_ready) /\ DOMAIN dispatch_ready = 1 .. n
    BY <1>0
  <2>3. /\ DOMAIN dispatch_ready' = 1 .. n + 1 /\ dispatch_ready'[n + 1] = r
        /\ \A i \in 1 .. n : dispatch_ready'[i] = dispatch_ready[i]
    BY <1>0, <2>1, <2>2
  <2>4. \A q \in Queues : InLine(q)' <=> InLine(q) \/ q = r
    BY <2>2, <2>3 DEF InLine
  <2>5. LineOf(r)'
    BY <1>4, <1>5, <1>6, <2>1, <2>4 DEF LineOf
  <2>6. ASSUME NEW q \in Queues, q # r PROVE LineOf(q)'
    BY <1>4, <1>6, <2>1, <2>4, <2>6, LineKept, LineSplit
  <2>7. LineOnce'
    <3>1. \A i, j \in 1 .. n : dispatch_ready[i] = dispatch_ready[j] => i = j
      BY <2>2, LineSplit DEF LineOnce
    <3>2. \A i \in 1 .. n : dispatch_ready[i] # r
      BY <1>5, <2>2 DEF InLine
    <3>3. ASSUME NEW i \in 1 .. n + 1, NEW j \in 1 .. n + 1, dispatch_ready'[i] = dispatch_ready'[j]
          PROVE  i = j
      <4>1. i \in 1 .. n \/ i = n + 1
        OBVIOUS
      <4>2. j \in 1 .. n \/ j = n + 1
        OBVIOUS
      <4>3. QED
        BY <2>3, <3>1, <3>2, <3>3, <4>1, <4>2
    <3>4. QED
      BY <2>3, <3>3 DEF LineOnce
  <2>8. QED
    BY <1>3, <2>5, <2>6, <2>7, LineSplit
<1>9. QED
  BY <1>7, <1>8

\* What a completion finds, and what becomes of the kernel.
LEMMA CompletionTurn ==
  ASSUME TypesInv, StructInv, CountInv, LiftInv, ModeInv, LineInv, NEW k \in Kernels, NEW c \in Contexts,
         KernelCompletion(k, c)
  PROVE  /\ \A j \in Kernels : j # k => (Current(j)' <=> Current(j))
         /\ ~Current(k)' /\ k[1] \in Queues
         /\ \/ ~Current(k) /\ UNCHANGED <<dispatch_queue, dispatch_ready, signalVars, aborted>>
            \/ /\ Current(k) /\ PassTurn(k[1]) /\ UNCHANGED aborted
               /\ k[1] = dispatch_queue /\ block_signal[k[1]] = -1
<1>0. k[1] \in Queues /\ LineOf(k[1])
  BY KernelOf, LineSplit
<1>1. /\ Same(k) /\ kernels[k].at = "handled" /\ c \in kernels[k].todo
      /\ kernels'[k].todo = kernels[k].todo \ {c} /\ kernels'[k].turns = kernels[k].turns
  BY CompletionEffect DEF From
<1>2. ~held /\ Pending(k) /\ kernels[k].at \in Launched
  BY <1>1 DEF KernelCompletion, Pending, Launched
<1>3. ASSUME NEW j \in Kernels, j # k PROVE Current(j)' <=> Current(j)
  BY <1>1, <1>3 DEF Same, Current, Serial, Pending
<1>4. Current(k) <=> Serial(k)
  BY <1>2 DEF Current
<1>5. ~Current(k)'
  <2>1. Serial(k) => \E b \in Contexts : kernels[k].todo = {b}
    BY <1>2 DEF ModeInv
  <2>2. Serial(k)' <=> Serial(k)
    BY <1>1 DEF Serial
  <2>3. QED
    BY <1>1, <2>1, <2>2 DEF Current, Pending
<1>6. CASE Serial(k)
  <2>1. DispatchState(Clear(barriers), k[1]) = "enabled"
    BY <1>2, <1>6, ModeFound
  <2>2. HasCurrent(k[1])
    BY <1>4, <1>6 DEF HasCurrent
  <2>3. block_signal[k[1]] = -1 /\ k[1] = dispatch_queue
    BY <1>0, <2>2 DEF LineOf
  <2>4. dispatch_queue # NoQueue
    BY <1>0, <2>3, SerializerAssumption
  <2>5. PassTurn(k[1]) /\ UNCHANGED aborted
    BY <2>1, <2>4 DEF KernelCompletion
  <2>6. QED
    BY <1>0, <1>3, <1>4, <1>5, <1>6, <2>3, <2>5
<1>7. CASE ~Serial(k)
  <2>1. DispatchState(Clear(barriers), k[1]) = "disabled"
    BY <1>2, <1>7, ModeFound
  <2>2. UNCHANGED <<dispatch_queue, dispatch_ready, signalVars, aborted>>
    BY <2>1 DEF KernelCompletion
  <2>3. QED
    BY <1>0, <1>3, <1>4, <1>5, <1>7, <2>2
<1>8. QED
  BY <1>6, <1>7

\* The turn passes to the first in line.
LEMMA CompletionLine ==
  ASSUME TypesInv, StructInv, CountInv, LiftInv, ModeInv, LineInv, NEW k \in Kernels, NEW c \in Contexts,
         KernelCompletion(k, c)
  PROVE  LineInv'
<1>0. /\ ready_signal \in [Queues -> {-1, 0, 1}] /\ block_signal \in [Queues -> {-1, 0, 1}]
      /\ dispatch_ready \in Seq(Queues) /\ NoQueue \notin Queues
  <2>1. dispatch_ready \in Seq(Queues)
    BY TypesOK DEF TypeOK
  <2>2. NoQueue \notin Queues
    BY SerializerAssumption
  <2>3. QED
    BY <2>1, <2>2 DEF TypesInv, StateTypes
<1> DEFINE r == k[1]
<1>1. /\ \A j \in Kernels : j # k => (Current(j)' <=> Current(j))
      /\ ~Current(k)' /\ r \in Queues
      /\ \/ ~Current(k) /\ UNCHANGED <<dispatch_queue, dispatch_ready, signalVars, aborted>>
         \/ /\ Current(k) /\ PassTurn(r) /\ UNCHANGED aborted
            /\ r = dispatch_queue /\ block_signal[r] = -1
  BY CompletionTurn
<1>2. CurrentOnce'
  BY <1>1, LineSplit DEF CurrentOnce
<1>3. UNCHANGED hw
  BY Zenon DEF KernelCompletion
<1>4. \A j \in Kernels : kernels'[j].turns = kernels[j].turns
  BY CompletionEffect DEF Same
<1>5. ASSUME NEW q \in Queues PROVE (AtBlock(q)' <=> AtBlock(q)) /\ (AtTurn(q)' <=> AtTurn(q))
  <2>1. ASSUME 1 \in DOMAIN hw[q], hw[q][1][1] = "kernel"
        PROVE  kernels'[<<q, hw[q][1][2]>>].turns = kernels[<<q, hw[q][1][2]>>].turns
    BY <1>4, <2>1, PacketKernel
  <2>2. QED
    BY <1>3, <2>1 DEF AtBlock, AtTurn, IsTurn
<1>6. ASSUME NEW q \in Queues, q # r PROVE HasCurrent(q)' <=> HasCurrent(q)
  BY <1>1, <1>6 DEF HasCurrent
<1>7. \A q \in Queues : LineOf(q)
  BY LineSplit
<1>8. CASE ~Current(k) /\ UNCHANGED <<dispatch_queue, dispatch_ready, signalVars, aborted>>
  <2>1. ASSUME NEW q \in Queues PROVE LineOf(q)'
    <3>1. HasCurrent(q)' <=> HasCurrent(q)
      BY <1>1, <1>8 DEF HasCurrent
    <3>2. InLine(q)' <=> InLine(q)
      BY <1>8 DEF InLine
    <3>3. QED
      BY <1>5, <1>7, <1>8, <3>1, <3>2, LineKept DEF signalVars
  <2>2. LineOnce'
    BY <1>8, LineSplit DEF LineOnce
  <2>3. QED
    BY <1>2, <2>1, <2>2, LineSplit
<1>9. CASE /\ Current(k) /\ PassTurn(r) /\ UNCHANGED aborted
           /\ r = dispatch_queue /\ block_signal[r] = -1
  <2>0. ~HasCurrent(r)'
    BY <1>1, <1>9, LineSplit DEF HasCurrent, CurrentOnce
  <2>1. HasCurrent(r)
    BY <1>9 DEF HasCurrent
  <2>2. ~AtTurn(r) /\ ~AtBlock(r) /\ ~InLine(r)
    BY <1>1, <1>7, <1>9, <2>1 DEF LineOf
  <2>3. ready_signal'[r] = 0 /\ \A q \in Queues \ {r} : ready_signal'[q] = ready_signal[q]
    BY <1>0, <1>1, <1>9 DEF PassTurn
  <2>4. CASE dispatch_ready = << >>
    <3>1. /\ dispatch_queue' = NoQueue /\ UNCHANGED dispatch_ready
          /\ block_signal'[r] = 1 /\ \A q \in Queues \ {r} : block_signal'[q] = block_signal[q]
      BY <1>0, <1>1, <1>9, <2>4 DEF PassTurn
    <3>2. \A q \in Queues : InLine(q)' <=> InLine(q)
      BY <3>1 DEF InLine
    <3>3. r # dispatch_queue'
      BY <1>0, <1>1, <3>1
    <3>4. ~AtTurn(r)' /\ ~AtBlock(r)' /\ ~InLine(r)'
      BY <1>1, <1>5, <2>2, <3>2
    <3>5. LineOf(r)'
      BY <2>0, <2>3, <3>1, <3>3, <3>4 DEF LineOf
    <3>6. ASSUME NEW q \in Queues, q # r PROVE LineOf(q)'
      <4>1. q # dispatch_queue /\ q # dispatch_queue'
        BY <1>0, <1>9, <3>1, <3>6
      <4>2. QED
        BY <1>5, <1>6, <1>7, <2>3, <3>1, <3>2, <3>6, <4>1, LineKept
    <3>7. LineOnce'
      BY <3>1, LineSplit DEF LineOnce
    <3>8. QED
      BY <1>2, <3>5, <3>6, <3>7, LineSplit
  <2>5. CASE dispatch_ready # << >>
    <3>1. PICK n \in Nat \ {0} : n = Len(dispatch_ready) /\ DOMAIN dispatch_ready = 1 .. n
      BY <1>0, <2>5
    <3>2. PICK h \in Queues : h = Head(dispatch_ready) /\ h = dispatch_ready[1]
      BY <1>0, <2>5
    <3>3. InLine(h) /\ h # r
      <4>1. 1 \in DOMAIN dispatch_ready
        BY <3>1
      <4>2. InLine(h)
        BY <3>2, <4>1 DEF InLine
      <4>3. QED
        BY <2>2, <4>2
    <3>4. /\ dispatch_queue' = h /\ dispatch_ready' = Tail(dispatch_ready)
          /\ block_signal' = [block_signal EXCEPT ![r] = 1, ![h] = 0]
      BY <1>9, <2>5, <3>2 DEF PassTurn
    <3>5. /\ block_signal'[r] = 1 /\ block_signal'[h] = 0
          /\ \A q \in Queues \ {r, h} : block_signal'[q] = block_signal[q]
      BY <1>0, <1>1, <3>3, <3>4
    <3>6. /\ DOMAIN dispatch_ready' = 1 .. n - 1
          /\ \A i \in 1 .. n - 1 : dispatch_ready'[i] = dispatch_ready[i + 1] /\ i + 1 \in 1 .. n
      BY <1>0, <2>5, <3>1, <3>4
    <3>7. \A i, j \in 1 .. n : dispatch_ready[i] = dispatch_ready[j] => i = j
      BY <3>1, LineSplit DEF LineOnce
    <3>8. LineOnce'
      <4>1. ASSUME NEW i \in 1 .. n - 1, NEW j \in 1 .. n - 1, dispatch_ready'[i] = dispatch_ready'[j]
            PROVE  i = j
        <5>1. i + 1 = j + 1
          BY <3>6, <3>7, <4>1
        <5>2. QED
          BY <5>1
      <4>2. QED
        BY <3>6, <4>1 DEF LineOnce
    <3>9. ~InLine(h)'
      <4>1. ASSUME NEW i \in 1 .. n - 1, dispatch_ready'[i] = h PROVE FALSE
        <5>1. i + 1 \in 1 .. n /\ dispatch_ready[i + 1] = dispatch_ready[1] /\ 1 \in 1 .. n
          BY <3>1, <3>2, <3>6, <4>1
        <5>2. i + 1 = 1
          BY <3>7, <5>1
        <5>3. QED
          BY <5>2
      <4>2. QED
        BY <3>6, <4>1 DEF InLine
    <3>10. ASSUME NEW q \in Queues, q # h PROVE InLine(q)' <=> InLine(q)
      <4>1. ASSUME InLine(q)' PROVE InLine(q)
        BY <3>1, <3>6, <4>1 DEF InLine
      <4>2. ASSUME NEW i \in 1 .. n, dispatch_ready[i] = q PROVE InLine(q)'
        <5>1. i # 1
          BY <3>2, <3>10, <4>2
        <5>2. i - 1 \in 1 .. n - 1 /\ i - 1 + 1 = i
          BY <5>1
        <5>3. dispatch_ready'[i - 1] = q /\ i - 1 \in DOMAIN dispatch_ready'
          BY <3>6, <4>2, <5>2
        <5>4. QED
          BY <5>3 DEF InLine
      <4>3. InLine(q) => InLine(q)'
        BY <3>1, <4>2 DEF InLine
      <4>4. QED
        BY <4>1, <4>3
    <3>11. LineOf(r)'
      <4>1. r # dispatch_queue' /\ ~InLine(r)' /\ ~AtTurn(r)' /\ ~AtBlock(r)'
        BY <1>1, <1>5, <2>2, <3>3, <3>4, <3>10
      <4>2. QED
        BY <2>0, <2>3, <3>5, <4>1 DEF LineOf
    <3>12. LineOf(h)'
      <4>1. h # dispatch_queue /\ ready_signal[h] = 1 /\ block_signal[h] = 1
        BY <1>7, <1>9, <3>3 DEF LineOf
      <4>2. ~AtTurn(h) /\ ~HasCurrent(h) /\ AtBlock(h)
        <5>1. LineOf(h)
          BY <1>7
        <5>2. QED
          BY <4>1, <5>1 DEF LineOf
      <4>3. ~AtTurn(h)' /\ ~HasCurrent(h)' /\ AtBlock(h)' /\ ready_signal'[h] = 1
        BY <1>5, <1>6, <2>3, <3>3, <4>1, <4>2
      <4>4. QED
        BY <3>4, <3>5, <3>9, <4>3 DEF LineOf
    <3>13. ASSUME NEW q \in Queues, q # r, q # h PROVE LineOf(q)'
      <4>1. q # dispatch_queue /\ q # dispatch_queue'
        BY <1>9, <3>4, <3>13
      <4>2. block_signal'[q] = block_signal[q] /\ ready_signal'[q] = ready_signal[q]
        BY <2>3, <3>5, <3>13
      <4>3. QED
        BY <1>5, <1>6, <1>7, <3>10, <3>13, <4>1, <4>2, LineKept
    <3>14. QED
      BY <1>2, <3>8, <3>11, <3>12, <3>13, LineSplit
  <2>6. QED
    BY <2>4, <2>5
<1>10. QED
  BY <1>1, <1>8, <1>9

\* The other actions leave the line as it is.
LEMMA RestKeepsLine ==
  ASSUME Next
  PROVE  \/ UNCHANGED <<dispatch_queue, dispatch_ready, ready_signal, block_signal, aborted>>
         \/ \E q \in Queues : PassStep(q) \/ QueueReady(q)
         \/ \E k \in Kernels, c \in Contexts : KernelCompletion(k, c)
<1> USE DEF serializerVars, signalVars
<1>1. ASSUME NEW q \in Queues,
             \/ WriteDirectly(q) \/ InterceptBegin(q) \/ Destroy(q) \/ AddSerialization(q) \/ Submit(q)
             \/ \E c \in Contexts : AskContext(q, c)
      PROVE  UNCHANGED <<dispatch_queue, dispatch_ready, ready_signal, block_signal, aborted>>
  BY <1>1, Zenon DEF WriteDirectly, InterceptBegin, Destroy, AddSerialization, Submit, AskContext
<1>2. ASSUME NEW k \in Kernels, Complete(k) \/ AsyncComplete(k)
      PROVE  UNCHANGED <<dispatch_queue, dispatch_ready, ready_signal, block_signal, aborted>>
  BY <1>2, Zenon DEF Complete, AsyncComplete
<1>3. ToolStep => UNCHANGED <<dispatch_queue, dispatch_ready, ready_signal, block_signal, aborted>>
  BY ToolKeeps
<1>4. QED
  BY <1>1, <1>2, <1>3, Steps, Zenon DEF PassStep

\* The line: who has the turn, who waits for it and whose kernel runs agree.
LEMMA LineStep ==
  ASSUME TypesInv, StructInv, CountInv, LiftInv, ModeInv, LinkInv, LineInv, Next, Calm'
  PROVE  LineInv'
<1>1. ASSUME NEW q \in Queues, QueueReady(q) PROVE LineInv'
  BY <1>1, ReadyLine
<1>2. ASSUME NEW k \in Kernels, NEW c \in Contexts, KernelCompletion(k, c) PROVE LineInv'
  BY <1>2, CompletionLine
<1>3. ASSUME NEW r \in Queues, PassStep(r) PROVE LineInv'
  <2>1. UNCHANGED <<dispatch_queue, dispatch_ready>>
    BY <1>3, Zenon DEF PassStep, PassBarrier, PassReady, PassBlock, Launch, serializerVars
  <2>2. LineOnce'
    BY <2>1, LineSplit DEF LineOnce
  <2>3. \A q \in Queues : q # r => LineOf(q)'
    BY <1>3, PassOthers
  <2>4. CASE ~Launch(r)
    <3>1. PassBarrier(r) \/ PassReady(r) \/ PassBlock(r)
      BY <1>3, <2>4 DEF PassStep
    <3>2. LineOf(r)' /\ \A k \in Kernels : Current(k)' <=> Current(k)
      BY <3>1, PassLine
    <3>3. CurrentOnce'
      BY <3>2, LineSplit DEF CurrentOnce
    <3>4. QED
      BY <2>2, <2>3, <3>2, <3>3, LineSplit
  <2>5. CASE Launch(r)
    <3>1. /\ LineOf(r)'
          /\ \A k, j \in Kernels : k[1] = r /\ j[1] = r /\ Current(k)' /\ Current(j)' => k = j
      BY <2>5, LaunchLine
    <3>2. PICK l \in Kernels : l[1] = r /\ Same(l)
      BY <2>5, LaunchEffect
    <3>3. ASSUME NEW k \in Kernels, k[1] # r PROVE Current(k)' <=> Current(k)
      BY <3>2, <3>3 DEF Same, Current, Serial, Pending
    <3>4. CurrentOnce'
      BY <3>1, <3>3, LineSplit DEF CurrentOnce
    <3>5. QED
      BY <2>2, <2>3, <3>1, <3>4, LineSplit
  <2>6. QED
    BY <2>4, <2>5
<1>4. ASSUME UNCHANGED <<dispatch_queue, dispatch_ready, ready_signal, block_signal, aborted>>,
             \A q \in Queues : ~PassStep(q),
             \A k \in Kernels, c \in Contexts : ~KernelCompletion(k, c)
      PROVE  LineInv'
  <2>1. \A k \in Kernels : Current(k)' <=> Current(k)
    BY <1>4, CurrentKept DEF PassStep
  <2>2. CurrentOnce' /\ LineOnce'
    BY <1>4, <2>1, LineSplit DEF CurrentOnce, LineOnce
  <2>3. ASSUME NEW q \in Queues PROVE LineOf(q)'
    <3>1. HasCurrent(q)' <=> HasCurrent(q)
      BY <2>1 DEF HasCurrent
    <3>2. InLine(q)' <=> InLine(q)
      BY <1>4 DEF InLine
    <3>3. (AtBlock(q)' <=> AtBlock(q)) /\ (AtTurn(q)' <=> AtTurn(q))
      BY <1>4, FrontKept
    <3>4. QED
      BY <1>4, <3>1, <3>2, <3>3, LineKept, LineSplit
  <2>4. QED
    BY <2>2, <2>3, LineSplit
<1>5. QED
  BY <1>1, <1>2, <1>3, <1>4, RestKeepsLine

\* The CHECK does not fail while every count is right.
LEMMA NoAbort ==
  ASSUME TypesInv, StructInv, CountInv, LiftInv, ModeInv, LineInv, Next, aborted = FALSE
  PROVE  aborted' = FALSE
<1>1. ASSUME NEW q \in Queues, PassStep(q) \/ QueueReady(q) PROVE UNCHANGED aborted
  BY <1>1, Zenon DEF PassStep, PassBarrier, PassReady, PassBlock, Launch, QueueReady
<1>2. ASSUME NEW k \in Kernels, NEW c \in Contexts, KernelCompletion(k, c) PROVE UNCHANGED aborted
  BY <1>2, CompletionTurn
<1>3. QED
  BY <1>1, <1>2, RestKeepsLine

-----------------------------------------------------------------------------
\* The invariant: what holds whatever the barriers count, and the rest while every count
\* is right and no kernel has two turns.
SerializerInv == TypesInv /\ StructInv /\ (Calm => RightInv)

\* Initially nothing is to count and nobody has the turn.
LEMMA RightInit == Init => RightInv
<1> SUFFICES ASSUME Init PROVE RightInv
  OBVIOUS
<1>1. /\ barriers = << >> /\ lifted = {} /\ \A q \in Queues : hw[q] = << >>
      /\ \A k \in Kernels : kernels[k].todo = {} /\ kernels[k].turns = 0
      /\ \A q \in Queues : pc[q] = "idle" /\ before[q] = << >>
      /\ \A q \in Queues : ready_signal[q] = 0 /\ block_signal[q] = 1
      /\ dispatch_queue = NoQueue /\ dispatch_ready = << >> /\ aborted = FALSE
  BY DEF Init, NoKernel
<1>2. DOMAIN barriers = {} /\ DOMAIN dispatch_ready = {} /\ \A q \in Queues : DOMAIN hw[q] = {}
  BY <1>1
<1>3. CountInv /\ LiftInv /\ ModeInv
  BY <1>1, <1>2 DEF CountInv, LiftInv, ModeInv, Pending
<1>4. AheadInv
  BY <1>1, <1>2 DEF AheadInv, Pending
<1>5. LinkInv
  BY <1>1, <1>2 DEF LinkInv, Linked, Packing
<1>6. ASSUME NEW q \in Queues PROVE LineOf(q)
  <2>1. ~HasCurrent(q) /\ ~AtBlock(q) /\ ~AtTurn(q) /\ ~InLine(q) /\ q # dispatch_queue
    BY <1>1, <1>2, SerializerAssumption DEF HasCurrent, Current, Pending, AtBlock, AtTurn, InLine
  <2>2. QED
    BY <1>1, <2>1 DEF LineOf
<1>7. LineInv
  BY <1>1, <1>2, <1>6 DEF LineInv, Current, Pending
<1>8. QED
  BY <1>1, <1>3, <1>4, <1>5, <1>7 DEF RightInv

\* Nothing of it changes in a step that changes nothing.
LEMMA RightKept ==
  ASSUME RightInv, UNCHANGED vars
  PROVE  RightInv'
<1>1. UNCHANGED <<serializerVars, held, hw, kernels, threadVars, toolVars, signalVars, aborted>>
  BY DEF vars
<1>2. /\ UNCHANGED <<status, barriers, lifted, dispatch_queue, dispatch_ready, held, hw, kernels>>
      /\ UNCHANGED <<pc, written, before, cpc, to_count, counting, ready_signal, block_signal, aborted>>
  BY <1>1 DEF serializerVars, threadVars, toolVars, signalVars
<1>3. \A q, id : Regs(q, id)' = Regs(q, id)
  BY <1>2 DEF Regs
<1>4. CountInv'
  <2>1. ToCount' = ToCount
    BY <1>2 DEF ToCount
  <2>2. ASSUME NEW i \in DOMAIN barriers, NEW q \in Queues, Counts(i, q) PROVE Counts(i, q)'
    BY <1>2, <1>3, <2>2, CountsKept
  <2>3. QED
    BY <1>2, <2>1, <2>2 DEF CountInv, RightInv
<1>5. LastId' = LastId
  BY <1>2 DEF LastId
<1>6. LiftInv' /\ ModeInv'
  <2>1. LiftInv'
    BY <1>2 DEF LiftInv, RightInv, Pending
  <2>2. ToCount' = ToCount
    BY <1>2 DEF ToCount
  <2>3. ModeInv'
    BY <1>2, <1>5, <2>2 DEF ModeInv, RightInv, Pending, Serial
  <2>4. QED
    BY <2>1, <2>3
<1>7. AheadInv'
  BY <1>2 DEF AheadInv, RightInv, Pending, Passed, Barred
<1>8. LinkInv'
  <2>1. SUFFICES ASSUME NEW q \in Queues PROVE Linked(q)' /\ (pc[q] \in Packing => Prepared(q))'
    BY DEF LinkInv
  <2>2. Linked(q) /\ (pc[q] \in Packing => Prepared(q))
    BY DEF RightInv, LinkInv
  <2>3. \A p : IsTurn(q, p)' = IsTurn(q, p)
    BY <1>2 DEF IsTurn
  <2>4. Linked(q)'
    BY <1>2, <2>2, <2>3 DEF Linked
  <2>5. Plain(q)' = Plain(q)
    BY <1>2 DEF Plain
  <2>6. (pc[q] \in Packing => Prepared(q))'
    BY <1>2, <2>2, <2>5 DEF Prepared
  <2>7. QED
    BY <2>4, <2>6
<1>9. LineInv'
  BY <1>2 DEF LineInv, RightInv, LineOf, InLine, AtBlock, AtTurn, IsTurn, HasCurrent, Current, Serial, Pending
<1>10. QED
  BY <1>2, <1>4, <1>6, <1>7, <1>8, <1>9 DEF RightInv

\* The invariant is inductive.
LEMMA SerializerStep ==
  ASSUME SerializerInv, [Next]_vars
  PROVE  SerializerInv'
<1>1. TypesInv' /\ StructInv'
  BY TypesStep, StructStep DEF SerializerInv
<1>2. ASSUME Next, Calm' PROVE RightInv'
  <2>1. RightInv /\ TypesInv /\ StructInv
    BY <1>2, CalmBefore DEF SerializerInv
  <2>2. CountInv' /\ LiftInv' /\ ModeInv'
    BY <1>2, <2>1, CountStep, LiftStep, ModeStep DEF RightInv
  <2>3. AheadInv' /\ LinkInv'
    BY <1>2, <2>1, AheadStep, LinkStep DEF RightInv
  <2>4. LineInv' /\ aborted' = FALSE
    BY <1>2, <2>1, LineStep, NoAbort DEF RightInv
  <2>5. QED
    BY <2>2, <2>3, <2>4 DEF RightInv
<1>3. ASSUME UNCHANGED vars, Calm' PROVE RightInv'
  <2>1. Calm
    BY <1>3 DEF Calm, Doubled, vars
  <2>2. QED
    BY <1>3, <2>1, RightKept DEF SerializerInv
<1>4. QED
  BY <1>1, <1>2, <1>3 DEF SerializerInv

\* The invariant holds in every state.
THEOREM SerializerInvariant == Spec => []SerializerInv
<1>1. Init => SerializerInv
  BY TypesInit, StructInit, RightInit DEF SerializerInv
<1>2. SerializerInv /\ [Next]_vars => SerializerInv'
  BY SerializerStep
<1>3. QED
  BY <1>1, <1>2, PTL DEF Spec

\* Two kernels that are launched and have still to register were dispatched after the
\* same barrier, so in one mode.
LEMMA OneMode ==
  ASSUME TypesInv, StructInv, LiftInv, ModeInv, NEW k \in Kernels, NEW j \in Kernels,
         Pending(k), Pending(j), kernels[k].at \in Launched, kernels[j].at \in Launched
  PROVE  Serial(k) <=> Serial(j)
<1>0. kernels[k].epoch \in Nat /\ kernels[j].epoch \in Nat /\ LastId \in Nat
  BY ListTypes DEF TypesInv, KernelTypes, KernelRecord
<1>1. kernels[k].epoch <= kernels[j].epoch
  BY <1>0 DEF LiftInv
<1>2. kernels[j].epoch <= kernels[k].epoch
  BY <1>0 DEF LiftInv
<1>3. PICK e \in Nat : e = kernels[k].epoch /\ e = kernels[j].epoch
  BY <1>0, <1>1, <1>2
<1>4. CASE e = LastId
  BY <1>3, <1>4 DEF ModeInv
<1>5. CASE e < LastId
  <2>1. e + 1 \in 1 .. LastId
    BY <1>0, <1>5
  <2>2. e + 1 \notin lifted
    <3>1. e + 1 \in lifted => e >= e + 1
      BY <1>3 DEF LiftInv
    <3>2. QED
      BY <3>1
  <2>3. PICK i \in DOMAIN barriers : barriers[i].id = e + 1
    BY <2>1, <2>2 DEF StructInv, IdInv, Ids
  <2>4. QED
    BY <1>3, <2>3 DEF ModeInv
<1>6. e <= LastId
  BY <1>3 DEF StructInv, EpochInv
<1>7. QED
  BY <1>0, <1>4, <1>5, <1>6

\* Serialization isolates: while a kernel that was given a turn runs, no other kernel
\* that has still to register runs, as long as every barrier counts right and one context
\* counts.
THEOREM SerializedRunAlone == Spec => []SerializedAlone
<1>1. SerializerInv => SerializedAlone
  <2>1. SUFFICES ASSUME SerializerInv, ~Harmed, NEW k \in Running, NEW j \in Running,
                        Serial(k), kernels[j].todo # {}
                 PROVE  k = j
    BY DEF SerializedAlone
  <2>2. TypesInv /\ StructInv /\ LiftInv /\ ModeInv /\ LineInv
    BY <2>1 DEF SerializerInv, RightInv, Calm, Harmed
  <2>3. /\ k \in Kernels /\ j \in Kernels
        /\ kernels[k].at = "running" /\ kernels[j].at = "running"
    BY DEF Running
  <2>4. Pending(k)
    <3>1. Sane(kernels[k])
      BY <2>2, <2>3 DEF TypesInv, KernelTypes
    <3>2. QED
      BY <2>1, <2>3, <3>1 DEF Sane, Serial, Pending
  <2>5. Pending(j)
    BY <2>1 DEF Pending
  <2>6. kernels[k].at \in Launched /\ kernels[j].at \in Launched
    BY <2>3 DEF Launched
  <2>7. Current(k) /\ Current(j)
    BY <2>1, <2>2, <2>3, <2>4, <2>5, <2>6, OneMode DEF Current
  <2>8. ASSUME NEW l \in Kernels, Current(l) PROVE l[1] = dispatch_queue
    <3>1. l[1] \in Queues /\ HasCurrent(l[1])
      BY <2>8, KernelOf DEF HasCurrent
    <3>2. LineOf(l[1])
      BY <2>2, <3>1, LineSplit
    <3>3. block_signal[l[1]] = -1
      BY <3>1, <3>2 DEF LineOf
    <3>4. QED
      BY <3>2, <3>3 DEF LineOf
  <2>9. QED
    BY <2>2, <2>3, <2>7, <2>8, LineSplit DEF CurrentOnce
<1>2. QED
  BY <1>1, SerializerInvariant, PTL

\* kernel_completion_signal's CHECK that some queue has the turn fails only after a barrier
\* counted wrong or two contexts counted.
THEOREM SerializerCheckHolds == Spec => []CheckHolds
<1>1. SerializerInv => CheckHolds
  BY DEF SerializerInv, RightInv, Calm, CheckHolds
<1>2. QED
  BY <1>1, SerializerInvariant, PTL

\* The serializer keeps nothing of a queue that is gone, although nobody tells it so.
THEOREM DestroyedQueuesForgotten == Spec => []DestroyedQueuesUnused
<1>1. SerializerInv => DestroyedQueuesUnused
  <2>1. SUFFICES ASSUME SerializerInv, ~Harmed, NEW q \in Queues \ alive
                 PROVE  /\ dispatch_queue # q /\ q \notin Range(dispatch_ready) /\ ready_signal[q] = 0
                        /\ \A i \in DOMAIN barriers : ~Waits(barriers[i], q)
    BY DEF DestroyedQueuesUnused
  <2>2. TypesInv /\ StructInv /\ CountInv /\ LineOf(q)
    BY <2>1, LineSplit DEF SerializerInv, RightInv, Calm, Harmed
  <2>3. Emptied(q)
    BY <2>2 DEF StructInv, GoneInv
  <2>4. ~AtBlock(q) /\ ~AtTurn(q)
    BY <2>3 DEF Emptied, AtBlock, AtTurn
  <2>5. ~HasCurrent(q)
    BY <2>3 DEF Emptied, HasCurrent, Current, Pending
  <2>6. block_signal[q] # -1
    BY <2>2, <2>4, <2>5 DEF LineOf
  <2>7. ready_signal[q] = 0
    BY <2>2, <2>4, <2>6 DEF LineOf
  <2>8. dispatch_queue # q /\ ~InLine(q)
    BY <2>2, <2>7 DEF LineOf
  <2>9. q \notin Range(dispatch_ready)
    BY <2>8 DEF InLine, Range
  <2>10. ASSUME NEW i \in DOMAIN barriers PROVE ~Waits(barriers[i], q)
    <3>1. CASE barriers[i].id \in lifted
      BY <2>2, <3>1 DEF StructInv, IdInv, Waits
    <3>2. CASE barriers[i].id \notin lifted
      <4>1. q \notin ToCount
        BY <2>2 DEF StructInv, HeldInv, ToCount
      <4>2. Counts(i, q)
        BY <2>2, <3>2, <4>1 DEF CountInv
      <4>3. Regs(q, barriers[i].id) = {}
        BY <2>2, <2>3, IdleRegs
      <4>4. QED
        BY <4>2, <4>3 DEF Counts
    <3>3. QED
      BY <3>1, <3>2
  <2>11. QED
    BY <2>7, <2>8, <2>9, <2>10
<1>2. QED
  BY <1>1, SerializerInvariant, PTL
=============================================================================
