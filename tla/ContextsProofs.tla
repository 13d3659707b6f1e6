--------------------------- MODULE ContextsProofs ---------------------------
(***************************************************************************)
(* Theorems about Contexts, for any number of contexts and threads: its    *)
(* types, that the count of active contexts covers the array, that until   *)
(* two starts overlap the array implements ActiveSet, which harm each      *)
(* overlap of start_context, stop_context and finalize can do, and that a  *)
(* lookup finds what is active all along.                                  *)
(***************************************************************************)
EXTENDS Contexts, TLAPS, FiniteSetTheorems, SequenceTheorems, WellFoundedInduction

Pointer == ContextIds \cup {NoContext}

\* What a thread knows inside a call: the slot it looks at or claimed exists,
\* and it has a context.
StepInv ==
  \A t \in Threads :
    /\ pc[t] \in {"visit", "deactivate"} => slot[t] # 0 /\ last[t] <= Len(active)
    /\ pc[t] = "publish" => slot[t] \in Slots
    /\ \/ op[t] = "start"
       \/ pc[t] \in {"claim", "publish", "undo", "services", "stop", "decrement", "off"}
       => ctx[t] \in ContextIds

TypeInv == TypeOK /\ StepInv

LEMMA TypeInit == Init => TypeInv
  <1>. SUFFICES ASSUME Init PROVE TypeInv
    OBVIOUS
  <1>1. << >> \in Seq(ContextIds) /\ << >> \in Seq(Pointer)
    OBVIOUS
  <1>2. TypeOK BY <1>1, Zenon DEF Init, TypeOK, Steps, Pointer
  <1>3. StepInv BY DEF Init, StepInv
  <1>. QED BY <1>2, <1>3 DEF TypeInv

(***************************************************************************)
(* The steps that leave the array alone.                                   *)
(***************************************************************************)
LEMMA NoteTypes ==
  ASSUME TypeOK, NoteChange
  PROVE  throughout' \in [Threads -> SUBSET ContextIds] /\ flickered' \in [Threads -> BOOLEAN]
  BY DEF TypeOK, NoteChange

LEMMA ActiveType ==
  ASSUME TypeOK
  PROVE  Active \subseteq ContextIds
  BY DEF TypeOK, Active, Occupied, Slots

LEMMA IterateTypes ==
  ASSUME TypeInv, NEW t \in Threads, Iterate(t)
  PROVE  TypeInv'
  <1>. USE DEF TypeInv
  <1>1. CASE ReadCount(t)
    BY <1>1, ActiveType DEF ReadCount, Goto, arrayVars, callVars, TypeOK, StepInv, Steps, Slots
  <1>2. CASE BeginScan(t)
    BY <1>2 DEF BeginScan, Goto, arrayVars, callVars, TypeOK, StepInv, Steps, Slots
  <1>3. CASE VisitSlot(t)
    <2>1. slot[t] \in Slots /\ active[slot[t]] \in ContextIds \cup {NoContext}
      BY <1>3 DEF VisitSlot, TypeOK, StepInv, Slots
    <2>2. data' \in [Threads -> Seq(ContextIds)]
      BY <1>3, <2>1 DEF VisitSlot, TypeOK
    <2>3. slot' \in [Threads -> Nat] /\ pc' \in [Threads -> Steps]
      BY <1>3 DEF VisitSlot, TypeOK, Steps
    <2>4. TypeOK'
      BY <1>3, <2>2, <2>3 DEF VisitSlot, arrayVars, callVars, TypeOK
    <2>5. StepInv'
      BY <1>3 DEF VisitSlot, arrayVars, callVars, TypeOK, StepInv, Slots
    <2>. QED BY <2>4, <2>5
  <1>4. CASE EndScan(t)
    BY <1>4 DEF EndScan, Goto, arrayVars, callVars, readVars, TypeOK, StepInv, Steps, Slots
  <1>5. CASE Recheck(t)
    BY <1>5 DEF Recheck, Goto, arrayVars, callVars, readVars, TypeOK, StepInv, Steps, Slots
  <1>. QED BY <1>1, <1>2, <1>3, <1>4, <1>5 DEF Iterate

LEMMA CallTypes ==
  ASSUME TypeInv, NEW t \in Threads, Call(t) \/ ReadCall(t) \/ ReadReturns(t)
  PROVE  TypeInv'
  <1>. USE DEF TypeInv
  <1>1. CASE ReadCall(t)
    BY <1>1 DEF ReadCall, Goto, Return, arrayVars, callVars, readVars, TypeOK, StepInv, Steps, Slots
  <1>2. CASE ReadReturns(t)
    BY <1>2 DEF ReadReturns, Goto, Return, arrayVars, callVars, readVars, TypeOK, StepInv, Steps, Slots
  <1>3. ASSUME NEW c \in ContextIds, StartCall(t, c) PROVE TypeInv'
    <2>1. overlap' \subseteq {"start", "stop", "finalize"}
      <3>1. overlap' = overlap \cup {k \in {"start", "stop"} : \E u \in Threads : Disturbs(u, k, c)}
        BY <1>3, Zenon DEF StartCall
      <3>. QED BY <3>1 DEF TypeOK
    <2>2. TypeOK'
      <3>1. pc' \in [Threads -> Steps] BY <1>3 DEF StartCall, Goto, TypeOK, Steps
      <3>2. calls' \in [Threads -> Nat] /\ ctx' \in [Threads -> ContextIds \cup {NoContext}]
            /\ op' \in [Threads -> {"none", "read", "start", "stop", "finalize"}]
        <4>1. /\ calls' = [calls EXCEPT ![t] = @ + 1] /\ op' = [op EXCEPT ![t] = "start"]
              /\ ctx' = [ctx EXCEPT ![t] = c]
          BY <1>3, Zenon DEF StartCall
        <4>. QED BY <4>1 DEF TypeOK
      <3>3. UNCHANGED <<arrayVars, to_stop, readVars, result, throughout, flickered>>
        BY <1>3, Zenon DEF StartCall
      <3>. HIDE DEF Steps
      <3>. QED BY <2>1, <3>1, <3>2, <3>3 DEF arrayVars, readVars, TypeOK
    <2>3. StepInv' BY <1>3 DEF StartCall, Goto, arrayVars, readVars, TypeOK, StepInv, Slots
    <2>. QED BY <2>2, <2>3
  <1>4. ASSUME NEW c \in ContextIds, StopCall(t, c) PROVE TypeInv'
    <2>1. overlap' \subseteq {"start", "stop", "finalize"}
      <3>1. overlap' = overlap \cup
                        {k \in {"stop"} : \E u \in Threads : InCall(u, "start") /\ ctx[u] = c}
        BY <1>4, Zenon DEF StopCall
      <3>. QED BY <3>1 DEF TypeOK
    <2>2. TypeOK'
      <3>1. pc' \in [Threads -> Steps] BY <1>4 DEF StopCall, Goto, TypeOK, Steps
      <3>2. calls' \in [Threads -> Nat] /\ ctx' \in [Threads -> ContextIds \cup {NoContext}]
            /\ op' \in [Threads -> {"none", "read", "start", "stop", "finalize"}]
        <4>1. /\ calls' = [calls EXCEPT ![t] = @ + 1] /\ op' = [op EXCEPT ![t] = "stop"]
              /\ ctx' = [ctx EXCEPT ![t] = c]
          BY <1>4, Zenon DEF StopCall
        <4>. QED BY <4>1 DEF TypeOK
      <3>3. UNCHANGED <<arrayVars, to_stop, readVars, result, throughout, flickered>>
        BY <1>4, Zenon DEF StopCall
      <3>. QED BY <2>1, <3>1, <3>2, <3>3 DEF arrayVars, readVars, TypeOK
    <2>3. StepInv' BY <1>4 DEF StopCall, Goto, arrayVars, readVars, TypeOK, StepInv, Slots
    <2>. QED BY <2>2, <2>3
  <1>. QED BY <1>1, <1>2, <1>3, <1>4 DEF Call

(***************************************************************************)
(* start_context.                                                          *)
(***************************************************************************)
LEMMA StartTypes ==
  ASSUME TypeInv, NEW t \in Threads, StartSteps(t), ~NotStarted(t)
  PROVE  TypeInv'
  <1>. USE DEF TypeInv
  <1>1. CASE AlreadyActive(t)
    BY <1>1 DEF AlreadyActive, Goto, Return, arrayVars, callVars, readVars, TypeOK, StepInv, Steps, Slots
  <1>2. CASE RefuseConflict(t)
    BY <1>2 DEF RefuseConflict, Goto, Return, arrayVars, callVars, readVars, TypeOK, StepInv, Steps, Slots
  <1>3. CASE NoneActive(t)
    BY <1>3 DEF NoneActive, Goto, Return, arrayVars, callVars, readVars, TypeOK, StepInv, Steps, Slots
  <1>4. CASE FoundWhileSearching(t)
    BY <1>4 DEF FoundWhileSearching, Goto, Return, arrayVars, callVars, readVars, TypeOK, StepInv, Steps, Slots
  <1>5. CASE ClaimSlot(t)
    <2>1. /\ active' \in Seq(Pointer) /\ slot' \in [Threads -> Nat]
          /\ slot'[t] \in DOMAIN active' /\ Len(active) <= Len(active')
      <3>1. CASE active' = Append(active, NoContext) /\ slot' = [slot EXCEPT ![t] = Len(active) + 1]
        BY <3>1 DEF TypeOK, Pointer
      <3>2. CASE (\E i \in Free : slot' = [slot EXCEPT ![t] = i]) /\ UNCHANGED active
        BY <3>2 DEF TypeOK, Pointer, Free, Slots
      <3>. QED BY <1>5, <3>1, <3>2 DEF ClaimSlot, TakeSlot
    <2>2. throughout' \in [Threads -> SUBSET ContextIds] /\ flickered' \in [Threads -> BOOLEAN]
      BY <1>5, NoteTypes DEF ClaimSlot
    <2>3. \A u \in Threads : u # t => slot'[u] = slot[u]
      BY <1>5 DEF ClaimSlot, TakeSlot, TypeOK
    <2>4. TypeOK'
      <3>1. num_active' \in Nat /\ pc' \in [Threads -> Steps]
        BY <1>5 DEF ClaimSlot, Goto, TypeOK, Steps
      <3>. QED BY <1>5, <2>1, <2>2, <3>1 DEF ClaimSlot, callVars, TypeOK, Pointer
    <2>5. StepInv'
      BY <1>5, <2>1, <2>3 DEF ClaimSlot, Goto, callVars, TypeOK, StepInv, Slots
    <2>. QED BY <2>4, <2>5
  <1>6. CASE Publish(t)
    <2>1. active' \in Seq(Pointer) /\ Len(active') = Len(active)
      BY <1>6, ExceptSeq DEF Publish, Goto, TypeOK, StepInv, Slots, Pointer
    <2>. QED BY <1>6, <2>1 DEF Publish, Goto, callVars, readVars, TypeOK, StepInv, Steps, Slots,
                               Pointer
  <1>7. CASE PublishFails(t)
    BY <1>7 DEF PublishFails, Goto, Return, arrayVars, callVars, readVars, TypeOK, StepInv, Steps, Slots
  <1>8. CASE StartServices(t)
    BY <1>8 DEF StartServices, Goto, Return, arrayVars, callVars, readVars, TypeOK, StepInv, Steps, Slots
  <1>. QED BY <1>1, <1>2, <1>3, <1>4, <1>5, <1>6, <1>7, <1>8, IterateTypes DEF StartSteps

(***************************************************************************)
(* stop_context, but for the count, and registration::finalize.            *)
(***************************************************************************)
LEMMA StopTypes ==
  ASSUME TypeInv, NEW t \in Threads, StopClears(t) \/ StopNotFound(t) \/ StopServices(t)
  PROVE  TypeInv'
  <1>. USE DEF TypeInv
  <1>1. CASE StopClears(t)
    <2>1. active' \in Seq(Pointer) /\ Len(active') = Len(active)
      BY <1>1, ExceptSeq DEF StopClears, TypeOK, Slots, IsFirst, Pointer
    <2>2. throughout' \in [Threads -> SUBSET ContextIds] /\ flickered' \in [Threads -> BOOLEAN]
      BY <1>1, NoteTypes DEF StopClears
    <2>. QED BY <1>1, <2>1, <2>2 DEF StopClears, Goto, callVars, readVars, TypeOK, StepInv, Steps,
                                    Slots, Pointer
  <1>2. CASE StopNotFound(t)
    BY <1>2 DEF StopNotFound, Goto, Return, arrayVars, callVars, readVars, TypeOK, StepInv, Steps, Slots, AfterStop, Finalizing
  <1>3. CASE StopServices(t)
    BY <1>3 DEF StopServices, Goto, Return, arrayVars, callVars, readVars, TypeOK, StepInv, Steps, Slots, AfterStop, Finalizing
  <1>. QED BY <1>1, <1>2, <1>3

LEMMA FinalizeTypes ==
  ASSUME TypeInv, NEW t \in Threads,
         \/ FinalizeBegin(t) \/ StopClientContext(t) \/ DeactivateBegin(t)
         \/ DeactivateSlot(t) \/ FinalizeEnd(t)
  PROVE  TypeInv'
  <1>. USE DEF TypeInv
  <1>1. CASE FinalizeBegin(t)
    BY <1>1 DEF FinalizeBegin, Goto, Return, arrayVars, callVars, readVars, TypeOK, StepInv, Steps, Slots
  <1>2. CASE StopClientContext(t)
    BY <1>2 DEF StopClientContext, Goto, Return, arrayVars, callVars, readVars, TypeOK, StepInv, Steps, Slots
  <1>3. CASE DeactivateBegin(t)
    BY <1>3 DEF DeactivateBegin, Goto, Return, arrayVars, callVars, readVars, TypeOK, StepInv, Steps, Slots
  <1>4. CASE DeactivateSlot(t)
    <2>1. active' \in Seq(Pointer) /\ Len(active') = Len(active)
      BY <1>4, ExceptSeq DEF DeactivateSlot, TypeOK, StepInv, Slots, Pointer
    <2>2. throughout' \in [Threads -> SUBSET ContextIds] /\ flickered' \in [Threads -> BOOLEAN]
      BY <1>4, NoteTypes DEF DeactivateSlot
    <2>3. slot' \in [Threads -> Nat] /\ slot'[t] # 0 /\ \A u \in Threads \ {t} : slot'[u] = slot[u]
      BY <1>4 DEF DeactivateSlot, TypeOK
    <2>4. TypeOK'
      BY <1>4, <2>1, <2>2, <2>3 DEF DeactivateSlot, callVars, TypeOK, Pointer
    <2>5. StepInv'
      BY <1>4, <2>1, <2>3 DEF DeactivateSlot, callVars, TypeOK, StepInv, Slots
    <2>. QED BY <2>4, <2>5
  <1>5. CASE FinalizeEnd(t)
    BY <1>5 DEF FinalizeEnd, Goto, Return, arrayVars, callVars, readVars, TypeOK, StepInv, Steps, Slots
  <1>. QED BY <1>1, <1>2, <1>3, <1>4, <1>5

(***************************************************************************)
(* The count.  A thread is pending from when it counts its context until   *)
(* the context is in the array, and from when it takes its context out of  *)
(* the array until the count follows.                                      *)
(***************************************************************************)
PendingSteps == {"publish", "undo", "decrement"}

Inv == TypeInv /\ CountCoversSlots

LEMMA OccupiedFinite ==
  ASSUME NEW s \in Seq(Pointer)
  PROVE  IsFiniteSet({i \in DOMAIN s : s[i] # NoContext})
  <1>1. DOMAIN s = 1 .. Len(s) /\ Len(s) \in Int
    OBVIOUS
  <1>2. IsFiniteSet(1 .. Len(s)) BY <1>1, FS_Interval
  <1>. QED BY <1>1, <1>2, FS_Subset

LEMMA Sizes ==
  ASSUME TypeOK
  PROVE  /\ IsFiniteSet(Occupied) /\ Cardinality(Occupied) \in Nat
         /\ IsFiniteSet(Pending) /\ Cardinality(Pending) \in Nat
  <1>1. IsFiniteSet(Occupied) BY OccupiedFinite DEF TypeOK, Pointer, Occupied, Slots
  <1>2. IsFiniteSet(Pending) BY FS_Subset, ContextsAssumption DEF Pending
  <1>. QED BY <1>1, <1>2, FS_CardinalityType

LEMMA PendingMoves ==
  ASSUME TypeOK, NEW t \in Threads, NEW s, pc' = [pc EXCEPT ![t] = s]
  PROVE  Pending' = IF s \in PendingSteps THEN Pending \cup {t} ELSE Pending \ {t}
  BY DEF TypeOK, Pending, PendingSteps

\* A counted thread: there is one context more in the count than in the array.
LEMMA CountPositive ==
  ASSUME Inv, NEW t \in Threads, pc[t] \in PendingSteps
  PROVE  num_active > 0
  <1>1. t \in Pending BY DEF Pending, PendingSteps
  <1>2. Cardinality(Pending) # 0 BY <1>1, Sizes, FS_EmptySet DEF Inv, TypeInv
  <1>. QED BY <1>2, Sizes DEF Inv, TypeInv, TypeOK, CountCoversSlots

LEMMA CountTypes ==
  ASSUME Inv, NEW t \in Threads, NotStarted(t) \/ StopCounts(t)
  PROVE  TypeInv'
  <1>1. num_active - 1 \in Nat
    BY CountPositive DEF NotStarted, StopCounts, Goto, Return, PendingSteps, Inv, TypeInv, TypeOK
  <1>2. throughout' \in [Threads -> SUBSET ContextIds] /\ flickered' \in [Threads -> BOOLEAN]
    BY NoteTypes DEF NotStarted, StopCounts, Inv, TypeInv
  <1>3. CASE NotStarted(t)
    BY <1>1, <1>2, <1>3 DEF NotStarted, Return, Goto, callVars, readVars, Inv, TypeInv, TypeOK,
                            StepInv, Steps, Slots
  <1>4. CASE StopCounts(t)
    BY <1>1, <1>2, <1>4 DEF StopCounts, Goto, callVars, readVars, Inv, TypeInv, TypeOK,
                            StepInv, Steps, Slots
  <1>. QED BY <1>3, <1>4

\* Steps that neither touch the array and the count nor change who is pending.
Quiet == UNCHANGED <<active, num_active, Pending>>

LEMMA QuietIterate ==
  ASSUME TypeOK, NEW t \in Threads, Read(t) \/ Iterate(t)
  PROVE  Quiet
  <1>. USE DEF TypeOK, Pending, Quiet, arrayVars, Goto, Return
  <1>1. CASE ReadCount(t) BY <1>1 DEF ReadCount
  <1>2. CASE BeginScan(t) BY <1>2 DEF BeginScan
  <1>3. CASE VisitSlot(t) BY <1>3 DEF VisitSlot
  <1>4. CASE EndScan(t) BY <1>4 DEF EndScan
  <1>5. CASE Recheck(t) BY <1>5 DEF Recheck
  <1>6. CASE ReadCall(t) BY <1>6 DEF ReadCall
  <1>7. CASE ReadReturns(t) BY <1>7 DEF ReadReturns
  <1>. QED BY <1>1, <1>2, <1>3, <1>4, <1>5, <1>6, <1>7 DEF Iterate, Read

LEMMA QuietStart ==
  ASSUME TypeOK, NEW t \in Threads,
         \/ AlreadyActive(t) \/ RefuseConflict(t) \/ NoneActive(t) \/ FoundWhileSearching(t)
         \/ PublishFails(t) \/ StartServices(t) \/ Call(t)
  PROVE  Quiet
  <1>. USE DEF TypeOK, Pending, Quiet, arrayVars, Goto, Return
  <1>1. CASE AlreadyActive(t) BY <1>1 DEF AlreadyActive
  <1>2. CASE RefuseConflict(t) BY <1>2 DEF RefuseConflict
  <1>3. CASE NoneActive(t) BY <1>3 DEF NoneActive
  <1>4. CASE FoundWhileSearching(t) BY <1>4 DEF FoundWhileSearching
  <1>5. CASE PublishFails(t) BY <1>5 DEF PublishFails
  <1>6. CASE StartServices(t) BY <1>6 DEF StartServices
  <1>7. CASE Call(t)
    <2>1. UNCHANGED <<active, num_active, contexts_mutex>> /\ pc[t] = "idle"
          /\ \E s \in {"count", "stop"} : pc' = [pc EXCEPT ![t] = s]
      BY <1>7 DEF Call, StartCall, StopCall
    <2>. QED BY <2>1
  <1>. QED BY <1>1, <1>2, <1>3, <1>4, <1>5, <1>6, <1>7

LEMMA QuietStop ==
  ASSUME TypeOK, NEW t \in Threads,
         \/ StopNotFound(t) \/ StopServices(t) \/ FinalizeBegin(t) \/ StopClientContext(t)
         \/ DeactivateBegin(t) \/ FinalizeEnd(t)
  PROVE  Quiet
  <1>. USE DEF TypeOK, Pending, Quiet, arrayVars, Goto, Return, AfterStop
  <1>1. CASE StopNotFound(t) BY <1>1 DEF StopNotFound
  <1>2. CASE StopServices(t) BY <1>2 DEF StopServices
  <1>3. CASE FinalizeBegin(t) BY <1>3 DEF FinalizeBegin
  <1>4. CASE StopClientContext(t) BY <1>4 DEF StopClientContext
  <1>5. CASE DeactivateBegin(t) BY <1>5 DEF DeactivateBegin
  <1>6. CASE FinalizeEnd(t) BY <1>6 DEF FinalizeEnd
  <1>. QED BY <1>1, <1>2, <1>3, <1>4, <1>5, <1>6

LEMMA QuietCount ==
  ASSUME CountCoversSlots, Quiet
  PROVE  CountCoversSlots'
  <1>1. Occupied' = Occupied BY DEF Quiet, Occupied, Slots
  <1>. QED BY <1>1 DEF Quiet, CountCoversSlots

LEMMA StartCounts ==
  ASSUME Inv, NEW t \in Threads, ClaimSlot(t) \/ Publish(t) \/ NotStarted(t)
  PROVE  CountCoversSlots'
  <1>. USE DEF Inv, TypeInv, CountCoversSlots
  <1>1. CASE ClaimSlot(t)
    <2>1. Occupied' = Occupied
      <3>1. CASE active' = Append(active, NoContext)
        <4>1. DOMAIN active' = DOMAIN active \cup {Len(active) + 1}
          BY <3>1 DEF TypeOK
        <4>2. \A i \in DOMAIN active : active'[i] = active[i]
          BY <3>1 DEF TypeOK
        <4>3. active'[Len(active) + 1] = NoContext
          BY <3>1 DEF TypeOK
        <4>. QED BY <4>1, <4>2, <4>3 DEF Occupied, Slots
      <3>2. CASE UNCHANGED active
        BY <3>2 DEF Occupied, Slots
      <3>. QED BY <1>1, <3>1, <3>2 DEF ClaimSlot, TakeSlot
    <2>2. Pending' = Pending \cup {t} /\ t \notin Pending
      BY <1>1, PendingMoves DEF ClaimSlot, Goto, PendingSteps, Pending
    <2>3. Cardinality(Pending') = Cardinality(Pending) + 1
      BY <2>2, Sizes, FS_AddElement
    <2>. QED BY <1>1, <2>1, <2>3, Sizes DEF ClaimSlot, TypeOK
  <1>2. CASE Publish(t)
    <2>1. Occupied' = Occupied \cup {slot[t]} /\ slot[t] \notin Occupied
      <3>1. slot[t] \in Slots /\ ctx[t] # NoContext
        BY <1>2, ContextsAssumption DEF Publish, Goto, StepInv
      <3>. QED BY <1>2, <3>1 DEF Publish, TypeOK, Occupied, Slots
    <2>2. Pending' = Pending \ {t} /\ t \in Pending
      BY <1>2, PendingMoves DEF Publish, Goto, PendingSteps, Pending
    <2>3. Cardinality(Occupied') = Cardinality(Occupied) + 1
      BY <2>1, Sizes, FS_AddElement
    <2>4. Cardinality(Pending') = Cardinality(Pending) - 1
      BY <2>2, Sizes, FS_RemoveElement
    <2>. QED BY <1>2, <2>3, <2>4, Sizes DEF Publish, TypeOK
  <1>3. CASE NotStarted(t)
    <2>1. Occupied' = Occupied
      BY <1>3 DEF NotStarted, Occupied, Slots
    <2>2. Pending' = Pending \ {t} /\ t \in Pending
      BY <1>3, PendingMoves DEF NotStarted, Return, Goto, PendingSteps, Pending
    <2>3. Cardinality(Pending') = Cardinality(Pending) - 1
      BY <2>2, Sizes, FS_RemoveElement
    <2>4. num_active' = num_active - 1 BY <1>3, Zenon DEF NotStarted
    <2>5. num_active \in Nat BY DEF TypeOK
    <2>. QED BY <2>1, <2>3, <2>4, <2>5, Sizes
  <1>. QED BY <1>1, <1>2, <1>3

LEMMA StopCountsToo ==
  ASSUME Inv, NEW t \in Threads, StopClears(t) \/ StopCounts(t) \/ DeactivateSlot(t)
  PROVE  CountCoversSlots'
  <1>. USE DEF Inv, TypeInv, CountCoversSlots
  <1>1. CASE StopClears(t)
    <2>1. PICK i \in Slots : active[i] = ctx[t] /\ active' = [active EXCEPT ![i] = NoContext]
      BY <1>1 DEF StopClears, IsFirst
    <2>2. Occupied' = Occupied \ {i} /\ i \in Occupied
      <3>1. ctx[t] # NoContext BY <1>1, ContextsAssumption DEF StopClears, Goto, StepInv
      <3>. QED BY <2>1, <3>1 DEF TypeOK, Occupied, Slots
    <2>3. Pending' = Pending \cup {t} /\ t \notin Pending
      BY <1>1, PendingMoves DEF StopClears, Goto, PendingSteps, Pending
    <2>4. Cardinality(Occupied') = Cardinality(Occupied) - 1
      BY <2>2, Sizes, FS_RemoveElement
    <2>5. Cardinality(Pending') = Cardinality(Pending) + 1
      BY <2>3, Sizes, FS_AddElement
    <2>. QED BY <1>1, <2>4, <2>5, Sizes DEF StopClears, TypeOK
  <1>2. CASE StopCounts(t)
    <2>1. Occupied' = Occupied
      BY <1>2 DEF StopCounts, Occupied, Slots
    <2>2. Pending' = Pending \ {t} /\ t \in Pending
      BY <1>2, PendingMoves DEF StopCounts, Goto, PendingSteps, Pending
    <2>3. Cardinality(Pending') = Cardinality(Pending) - 1
      BY <2>2, Sizes, FS_RemoveElement
    <2>4. num_active' = num_active - 1
      BY <1>2, CountPositive DEF StopCounts, Goto, PendingSteps
    <2>. QED BY <2>1, <2>3, <2>4, Sizes DEF TypeOK
  <1>3. CASE DeactivateSlot(t)
    <2>1. Occupied' \subseteq Occupied
      BY <1>3 DEF DeactivateSlot, TypeOK, Occupied, Slots
    <2>2. Pending' = Pending
      BY <1>3 DEF DeactivateSlot, Pending
    <2>3. Cardinality(Occupied') <= Cardinality(Occupied) /\ Cardinality(Occupied') \in Nat
      BY <2>1, Sizes, FS_Subset, FS_CardinalityType
    <2>4. num_active' = num_active BY <1>3 DEF DeactivateSlot
    <2>. QED BY <2>2, <2>3, <2>4, Sizes DEF TypeOK
  <1>. QED BY <1>1, <1>2, <1>3

(***************************************************************************)
(* The theorems.                                                           *)
(***************************************************************************)
LEMMA InvInit == Init => Inv
  <1>. SUFFICES ASSUME Init PROVE CountCoversSlots
    BY TypeInit DEF Inv
  <1>1. Occupied = {} /\ Pending = {} BY DEF Init, Occupied, Slots, Pending
  <1>. QED BY <1>1, FS_EmptySet DEF Init, CountCoversSlots

LEMMA InvNext == Inv /\ [Next]_vars => Inv'
  <1>. SUFFICES ASSUME Inv, [Next]_vars PROVE Inv'
    OBVIOUS
  <1>0. TypeInv /\ TypeOK /\ CountCoversSlots BY DEF Inv, TypeInv
  <1>1. ASSUME NEW t \in Threads, Read(t) PROVE Inv'
    <2>1. TypeInv' BY <1>0, <1>1, IterateTypes, CallTypes DEF Read
    <2>. QED BY <1>0, <1>1, <2>1, QuietIterate, QuietCount DEF Inv
  <1>2. ASSUME NEW t \in Threads, Call(t) PROVE Inv'
    <2>1. TypeInv' BY <1>0, <1>2, CallTypes
    <2>. QED BY <1>0, <1>2, <2>1, QuietStart, QuietCount DEF Inv
  <1>3. ASSUME NEW t \in Threads, StartSteps(t) PROVE Inv'
    <2>1. TypeInv' BY <1>0, <1>3, StartTypes, CountTypes
    <2>2. CountCoversSlots'
      BY <1>0, <1>3, StartCounts, QuietIterate, QuietStart, QuietCount DEF StartSteps
    <2>. QED BY <2>1, <2>2 DEF Inv
  <1>4. ASSUME NEW t \in Threads, StopSteps(t) PROVE Inv'
    <2>1. TypeInv' BY <1>0, <1>4, StopTypes, CountTypes DEF StopSteps
    <2>2. CountCoversSlots' BY <1>0, <1>4, StopCountsToo, QuietStop, QuietCount DEF StopSteps
    <2>. QED BY <2>1, <2>2 DEF Inv
  <1>5. ASSUME NEW t \in Threads, FinalizeBegin(t) \/ FinalizeSteps(t) PROVE Inv'
    <2>1. CASE StopSteps(t) BY <1>4, <2>1
    <2>2. CASE ~StopSteps(t)
      <3>1. TypeInv' BY <1>0, <1>5, <2>2, FinalizeTypes DEF FinalizeSteps
      <3>2. CountCoversSlots'
        BY <1>0, <1>5, <2>2, StopCountsToo, QuietStop, QuietCount DEF FinalizeSteps
      <3>. QED BY <3>1, <3>2 DEF Inv
    <2>. QED BY <2>1, <2>2
  <1>6. CASE UNCHANGED vars
    <2>1. TypeInv'
      BY <1>0, <1>6 DEF TypeInv, TypeOK, StepInv, Slots, vars, arrayVars, callVars, readVars
    <2>2. Quiet BY <1>6 DEF Quiet, Pending, vars, arrayVars
    <2>. QED BY <1>0, <2>1, <2>2, QuietCount DEF Inv
  <1>. QED BY <1>1, <1>2, <1>3, <1>4, <1>5, <1>6 DEF Next, Finished, Threads

\* Every reachable state is well typed; in particular num_active, from which
\* start_context and stop_context subtract, is never negative.
THEOREM TypeCorrect == Spec => []TypeOK
  <1>1. Inv => TypeOK BY DEF Inv, TypeInv
  <1>. QED BY <1>1, InvInit, InvNext, PTL DEF Spec

\* num_active is never below the number of occupied slots and of threads that
\* are between the count and the array: get_active_contexts, which stops when it
\* has found num_active contexts, is never cut short by a count too low.
THEOREM CountCovers == Spec => []CountCoversSlots
  <1>1. Inv => CountCoversSlots BY DEF Inv
  <1>. QED BY <1>1, InvInit, InvNext, PTL DEF Spec

(***************************************************************************)
(* A start that no other start overlaps.  While it looks for conflicts     *)
(* nobody else fills a slot, so what the array holds only shrinks, and the *)
(* count it read covers the slots ahead of it: its lookup misses nothing,  *)
(* and no conflict appears before it publishes.                            *)
(***************************************************************************)
Ahead(t) == {i \in Occupied : i >= slot[t]}

LookInv(t) ==
  /\ pc[t] = "begin" => data[t] = << >> /\ Cardinality(Occupied) <= num_ctx[t]
  /\ pc[t] = "visit" => last[t] = Len(active)
  /\ pc[t] \in {"visit", "recheck"} =>
       /\ Len(data[t]) + Cardinality(Ahead(t)) <= num_ctx[t]
       /\ \A i \in Occupied \ Ahead(t) : active[i] \in Found(t)
  /\ pc[t] = "recheck" => Len(data[t]) = num_ctx[t]
  /\ pc[t] = "found" => Active \subseteq Found(t)
  /\ pc[t] \in {"claim", "publish"} => \A d \in Active : d # ctx[t] /\ ~Conflict(ctx[t], d)

LEMMA AheadFinite ==
  ASSUME TypeOK, NEW t
  PROVE  IsFiniteSet(Ahead(t)) /\ Cardinality(Ahead(t)) \in Nat
  BY Sizes, FS_Subset, FS_CardinalityType DEF Ahead

\* The array loses contexts and keeps its slots.
Shrinks ==
  /\ Slots' = Slots /\ Len(active') = Len(active)
  /\ \A i \in Slots : active'[i] \in {active[i], NoContext}

LEMMA ShrinksOff ==
  ASSUME Shrinks
  PROVE  /\ Occupied' \subseteq Occupied /\ \A i \in Occupied' : active'[i] = active[i]
         /\ Active' \subseteq Active
  BY DEF Shrinks, Occupied, Active

LEMMA SameShrinks == UNCHANGED active => Shrinks
  BY DEF Shrinks, Slots

LEMMA OthersShrink ==
  ASSUME TypeInv, NEW t \in Threads, StopSteps(t) \/ FinalizeBegin(t) \/ FinalizeSteps(t)
  PROVE  Shrinks
  <1>0. active \in Seq(Pointer) BY DEF TypeInv, TypeOK, Pointer
  <1>1. CASE StopClears(t)
    <2>1. PICK i \in Slots : active' = [active EXCEPT ![i] = NoContext]
      BY <1>1 DEF StopClears, IsFirst
    <2>2. active' \in Seq(Pointer) /\ Len(active') = Len(active)
      BY <1>0, <2>1, ExceptSeq DEF Slots, Pointer
    <2>. QED BY <1>0, <2>1, <2>2 DEF Shrinks, Slots
  <1>2. CASE DeactivateSlot(t)
    <2>1. slot[t] \in Slots /\ active' = [active EXCEPT ![slot[t]] = NoContext]
      BY <1>0, <1>2 DEF DeactivateSlot, TypeInv, TypeOK, StepInv, Slots
    <2>2. active' \in Seq(Pointer) /\ Len(active') = Len(active)
      BY <1>0, <2>1, ExceptSeq DEF Slots, Pointer
    <2>. QED BY <1>0, <2>1, <2>2 DEF Shrinks, Slots
  <1>3. CASE ~StopClears(t) /\ ~DeactivateSlot(t)
    <2>1. UNCHANGED active
      BY <1>3 DEF StopSteps, StopNotFound, StopCounts, StopServices, FinalizeBegin,
                  FinalizeSteps, StopClientContext, DeactivateBegin, FinalizeEnd, arrayVars
    <2>. QED BY <2>1, SameShrinks
  <1>. QED BY <1>1, <1>2, <1>3

\* A step of another thread, or one of the caller's own that leaves its lookup alone.
LEMMA LookKept ==
  ASSUME TypeOK, NEW t \in Threads, LookInv(t), Shrinks,
         UNCHANGED <<pc[t], data[t], num_ctx[t], slot[t], last[t], ctx[t]>>
  PROVE  LookInv(t)'
  <1>1. Occupied' \subseteq Occupied /\ Active' \subseteq Active
        /\ \A i \in Occupied' : active'[i] = active[i]
    BY ShrinksOff
  <1>2. Ahead(t)' \subseteq Ahead(t) /\ Occupied' \ Ahead(t)' \subseteq Occupied \ Ahead(t)
    BY <1>1 DEF Ahead
  <1>3. Cardinality(Occupied') \in Nat /\ Cardinality(Occupied') <= Cardinality(Occupied)
    BY <1>1, Sizes, FS_Subset, FS_CardinalityType
  <1>4. Cardinality(Ahead(t)') \in Nat /\ Cardinality(Ahead(t)') <= Cardinality(Ahead(t))
    BY <1>2, AheadFinite, FS_Subset, FS_CardinalityType
  <1>5. Found(t)' = Found(t) BY DEF Found
  <1>6. num_ctx[t] \in Nat /\ Len(data[t]) \in Nat /\ Cardinality(Occupied) \in Nat
        /\ Cardinality(Ahead(t)) \in Nat
    <2>1. data[t] \in Seq(ContextIds) BY DEF TypeOK, Threads
    <2>. QED BY <2>1, Sizes, AheadFinite DEF TypeOK, Threads
  <1>. QED BY <1>1, <1>2, <1>3, <1>4, <1>5, <1>6 DEF LookInv, Shrinks

\* A step that takes the caller out of its lookup, or leaves it outside one.
LookSteps == {"begin", "visit", "recheck", "found", "claim", "publish"}

LEMMA NotLooking ==
  ASSUME NEW t, pc[t] \notin LookSteps
  PROVE  LookInv(t)
  BY DEF LookInv, LookSteps

LEMMA LookAhead ==
  ASSUME Inv, NEW t \in Threads, LookInv(t), VisitSlot(t)
  PROVE  LookInv(t)'
  <1>0. /\ TypeOK /\ LookInv(t) /\ t \in Threads /\ slot[t] \in Nat /\ slot[t] # 0
        /\ data[t] \in Seq(ContextIds) /\ num_ctx[t] \in Nat /\ active \in Seq(Pointer)
        /\ active' = active /\ last' = last /\ num_ctx' = num_ctx
    BY DEF Inv, TypeInv, TypeOK, StepInv, VisitSlot, arrayVars, Pointer
  <1>1. /\ pc[t] = "visit" /\ slot[t] <= Len(active) /\ slot'[t] = slot[t] + 1
        /\ pc'[t] = (IF Len(data'[t]) = num_ctx[t] THEN "recheck" ELSE "visit")
    BY <1>0 DEF VisitSlot, LookInv, TypeOK
  <1>2. slot[t] \in Slots /\ Slots \subseteq Nat BY <1>0, <1>1 DEF Slots
  <1>3. Occupied' = Occupied /\ Occupied \subseteq Slots BY <1>0 DEF Occupied, Slots
  <1>4. Ahead(t)' = Ahead(t) \ {slot[t]}
    <2>1. Occupied \subseteq Nat BY <1>2, <1>3
    <2>2. ASSUME NEW i \in Occupied
          PROVE  i >= slot[t] + 1 <=> i >= slot[t] /\ i # slot[t]
      <3>1. i \in Nat /\ slot[t] \in Nat BY <1>0, <2>1
      <3>2. \A n, m \in Nat : n >= m + 1 <=> n >= m /\ n # m OBVIOUS
      <3>. QED BY <3>1, <3>2
    <2>. QED BY <1>1, <1>3, <2>2 DEF Ahead
  <1>5. Cardinality(Ahead(t)) \in Nat /\ IsFiniteSet(Ahead(t)) BY <1>0, AheadFinite
  <1>6. CASE active[slot[t]] = NoContext
    <2>1. slot[t] \notin Ahead(t) BY <1>6 DEF Ahead, Occupied
    <2>2. Ahead(t)' = Ahead(t) BY <1>4, <2>1
    <2>3. data'[t] = data[t] BY <1>0, <1>6 DEF VisitSlot, TypeOK
    <2>4. Found(t)' = Found(t) BY <2>3 DEF Found
    <2>. QED BY <1>0, <1>1, <1>3, <2>2, <2>3, <2>4 DEF LookInv
  <1>7. CASE active[slot[t]] # NoContext
    <2>1. slot[t] \in Ahead(t) BY <1>0, <1>2, <1>7 DEF Ahead, Occupied
    <2>2. Cardinality(Ahead(t)') = Cardinality(Ahead(t)) - 1
      BY <1>4, <1>5, <2>1, FS_RemoveElement
    <2>3. data'[t] = Append(data[t], active[slot[t]]) BY <1>0, <1>7 DEF VisitSlot, TypeOK
    <2>4. active[slot[t]] \in ContextIds BY <1>0, <1>2, <1>7 DEF Slots, Pointer
    <2>5. Found(t)' = Found(t) \cup {active[slot[t]]}
      <3>. DEFINE n == Len(data[t])
      <3>1. n \in Nat /\ DOMAIN data[t] = 1 .. n BY <1>0
      <3>2. /\ DOMAIN data'[t] = DOMAIN data[t] \cup {n + 1}
            /\ data'[t][n + 1] = active[slot[t]]
            /\ \A i \in DOMAIN data[t] : data'[t][i] = data[t][i]
        BY <1>0, <2>3, <2>4, <3>1
      <3>. HIDE DEF n
      <3>. QED BY <3>2 DEF Found
    <2>6. Len(data'[t]) = Len(data[t]) + 1 /\ Len(data[t]) \in Nat BY <1>0, <2>3, <2>4
    <2>7. Occupied' \ Ahead(t)' \subseteq (Occupied \ Ahead(t)) \cup {slot[t]}
      BY <1>3, <1>4
    <2>. QED BY <1>0, <1>1, <1>3, <1>5, <2>2, <2>5, <2>6, <2>7 DEF LookInv
  <1>. QED BY <1>6, <1>7

LEMMA Looks ==
  ASSUME Inv, NEW t \in Threads, LookInv(t), Iterate(t)
  PROVE  LookInv(t)'
  <1>0. /\ TypeOK /\ CountCoversSlots /\ LookInv(t) /\ t \in Threads
        /\ data[t] \in Seq(ContextIds) /\ num_ctx[t] \in Nat /\ active \in Seq(Pointer)
    BY DEF Inv, TypeInv, TypeOK, Pointer
  <1>1. /\ Occupied \subseteq Nat \ {0} /\ \A i \in Occupied : i <= Len(active)
        /\ Cardinality(Occupied) \in Nat /\ num_active \in Nat
        /\ Cardinality(Occupied) <= num_active
    <2>1. Len(active) \in Nat /\ DOMAIN active = 1 .. Len(active) BY <1>0
    <2>2. Occupied \subseteq Nat \ {0} /\ \A i \in Occupied : i <= Len(active)
      BY <2>1 DEF Occupied, Slots
    <2>3. Cardinality(Occupied) \in Nat /\ Cardinality(Pending) \in Nat /\ num_active \in Nat
      BY <1>0, Sizes DEF TypeOK
    <2>. QED BY <1>0, <2>2, <2>3 DEF CountCoversSlots
  <1>2. CASE ReadCount(t)
    <2>1. /\ Occupied' = Occupied /\ Active' = Active /\ data'[t] = << >>
          /\ num_ctx'[t] = num_active
          /\ pc'[t] = (IF num_active <= 0 THEN "found" ELSE "begin")
      BY <1>0, <1>2 DEF ReadCount, Goto, arrayVars, Occupied, Active, Slots, TypeOK
    <2>2. num_active <= 0 => Occupied = {}
      BY <1>0, <1>1, Sizes, FS_EmptySet
    <2>3. num_active <= 0 => Active = {} BY <2>2 DEF Active
    <2>. QED BY <1>1, <2>1, <2>3 DEF LookInv
  <1>3. CASE BeginScan(t)
    <2>1. /\ Occupied' = Occupied /\ data'[t] = << >> /\ num_ctx'[t] = num_ctx[t]
          /\ pc'[t] = "visit" /\ slot'[t] = 1 /\ last'[t] = Len(active')
          /\ Cardinality(Occupied) <= num_ctx[t]
      BY <1>0, <1>3 DEF BeginScan, Goto, arrayVars, Occupied, Slots, TypeOK, LookInv
    <2>2. Ahead(t)' = Occupied
      <3>1. \A i \in Occupied : i >= 1 BY <1>1
      <3>. QED BY <2>1, <3>1 DEF Ahead
    <2>. QED BY <1>0, <1>1, <2>1, <2>2 DEF LookInv
  <1>4. CASE VisitSlot(t) BY <1>4, LookAhead
  <1>5. ASSUME pc'[t] = "found", pc[t] \in {"visit", "recheck"}, UNCHANGED <<active, data>>,
               Ahead(t) = {}
        PROVE  LookInv(t)'
    <2>1. Active' = Active /\ Found(t)' = Found(t)
      BY <1>5 DEF Active, Occupied, Slots, Found
    <2>2. Active \subseteq Found(t) BY <1>0, <1>5 DEF LookInv, Active
    <2>. QED BY <1>5, <2>1, <2>2 DEF LookInv
  <1>6. CASE EndScan(t)
    <2>1. slot[t] > Len(active) /\ slot[t] \in Nat /\ Len(active) \in Nat
      BY <1>0, <1>6 DEF EndScan, Goto, LookInv, TypeOK
    <2>2. Ahead(t) = {}
      <3>1. \A i \in Occupied : ~(i >= slot[t]) BY <1>1, <2>1
      <3>. QED BY <3>1 DEF Ahead
    <2>. QED BY <1>0, <1>5, <1>6, <2>2 DEF EndScan, Goto, arrayVars, readVars, TypeOK
  <1>7. CASE Recheck(t)
    <2>1. Cardinality(Ahead(t)) <= 0
      BY <1>0, <1>7, AheadFinite DEF Recheck, Goto, LookInv
    <2>2. Ahead(t) = {} BY <1>0, <2>1, AheadFinite, FS_EmptySet
    <2>3. CASE pc'[t] = "found"
      BY <1>0, <1>5, <1>7, <2>2, <2>3 DEF Recheck, Goto, arrayVars, readVars, TypeOK
    <2>4. CASE pc'[t] = "count"
      <3>1. (pc[t] \notin LookSteps => LookInv(t))' BY NotLooking, PTL
      <3>2. pc'[t] \notin LookSteps' BY <2>4 DEF LookSteps
      <3>. QED BY <3>1, <3>2
    <2>. QED BY <1>0, <1>7, <2>3, <2>4 DEF Recheck, Goto, TypeOK
  <1>. QED BY <1>2, <1>3, <1>4, <1>6, <1>7 DEF Iterate

\* The array holds the same contexts in the same slots.
SameSlots == Occupied' = Occupied /\ \A i \in Occupied : active'[i] = active[i]

LEMMA SlotsSame == UNCHANGED active => SameSlots
  BY DEF SameSlots, Occupied, Slots

LEMMA ClaimSame ==
  ASSUME TypeOK, NEW t \in Threads, ClaimSlot(t)
  PROVE  SameSlots /\ slot'[t] \in Slots' /\ active'[slot'[t]] = NoContext
  <1>1. CASE active' = Append(active, NoContext) /\ slot' = [slot EXCEPT ![t] = Len(active) + 1]
    <2>1. DOMAIN active' = DOMAIN active \cup {Len(active) + 1} BY <1>1 DEF TypeOK
    <2>2. \A i \in DOMAIN active : active'[i] = active[i] BY <1>1 DEF TypeOK
    <2>3. active'[Len(active) + 1] = NoContext BY <1>1 DEF TypeOK
    <2>4. Occupied' = Occupied BY <2>1, <2>2, <2>3 DEF Occupied, Slots
    <2>5. slot'[t] = Len(active) + 1 BY <1>1 DEF TypeOK
    <2>. QED BY <2>1, <2>2, <2>3, <2>4, <2>5 DEF SameSlots, Occupied, Slots
  <1>2. CASE (\E i \in Free : slot' = [slot EXCEPT ![t] = i]) /\ UNCHANGED active
    <2>1. SameSlots BY <1>2, SlotsSame
    <2>2. PICK i \in Slots \ Occupied : slot' = [slot EXCEPT ![t] = i] BY <1>2 DEF Free
    <2>3. slot'[t] = i BY <2>2 DEF TypeOK
    <2>. QED BY <1>2, <2>1, <2>2, <2>3 DEF Occupied, Slots
  <1>. QED BY <1>1, <1>2 DEF ClaimSlot, TakeSlot

LEMMA PublishAdds ==
  ASSUME TypeInv, NEW t \in Threads, Publish(t)
  PROVE  /\ Active' = Active \cup {ctx[t]} /\ ctx[t] \in ContextIds
         /\ Occupied' = Occupied \cup {slot[t]} /\ slot[t] \notin Occupied
         /\ active'[slot[t]] = ctx[t] /\ \A i \in Occupied : active'[i] = active[i]
  <1>1. /\ slot[t] \in Slots /\ ctx[t] \in ContextIds /\ active[slot[t]] = NoContext
        /\ active' = [active EXCEPT ![slot[t]] = ctx[t]]
    BY DEF Publish, Goto, TypeInv, StepInv
  <1>2. ctx[t] # NoContext BY <1>1, ContextsAssumption
  <1>3. /\ DOMAIN active' = DOMAIN active /\ active'[slot[t]] = ctx[t]
        /\ \A i \in DOMAIN active : i # slot[t] => active'[i] = active[i]
    BY <1>1 DEF Slots
  <1>4. Occupied' = Occupied \cup {slot[t]} /\ slot[t] \notin Occupied
    BY <1>1, <1>2, <1>3 DEF Occupied, Slots
  <1>5. \A i \in Occupied : active'[i] = active[i] BY <1>3, <1>4 DEF Occupied, Slots
  <1>6. Active' = Active \cup {ctx[t]} BY <1>3, <1>4, <1>5 DEF Active
  <1>. QED BY <1>1, <1>3, <1>4, <1>5, <1>6

\* The caller's own steps inside start_context, and its calls.
LEMMA CallerLooks ==
  ASSUME Inv, NEW t \in Threads, LookInv(t), StartSteps(t) \/ Call(t), ~Iterate(t)
  PROVE  LookInv(t)'
  <1>0. TypeOK
    BY DEF Inv, TypeInv
  <1>1. CASE pc'[t] \notin LookSteps
    <2>1. (pc[t] \notin LookSteps => LookInv(t))' BY NotLooking, PTL
    <2>. QED BY <1>1, <2>1 DEF LookSteps
  <1>2. CASE NoneActive(t)
    <2>1. pc[t] = "found" /\ pc'[t] = "claim" /\ UNCHANGED <<active, ctx>> /\ Matters(t) = {}
      BY <1>0, <1>2 DEF NoneActive, Goto, arrayVars, callVars, TypeOK
    <2>2. Active' = Active /\ Active \subseteq Found(t)
      BY <1>0, <2>1 DEF LookInv, Active, Occupied, Slots
    <2>3. \A d \in Found(t) : d # ctx[t] /\ ~Conflict(ctx[t], d) BY <2>1 DEF Matters, Found
    <2>. QED BY <2>1, <2>2, <2>3 DEF LookInv, Conflict
  <1>3. CASE ClaimSlot(t)
    <2>1. pc[t] = "claim" /\ pc'[t] = "publish" /\ UNCHANGED ctx
      BY <1>0, <1>3 DEF ClaimSlot, Goto, callVars, TypeOK
    <2>2. Active' = Active BY <1>0, <1>3, ClaimSame DEF SameSlots, Active
    <2>. QED BY <1>0, <2>1, <2>2 DEF LookInv, Conflict
  <1>4. CASE ~NoneActive(t) /\ ~ClaimSlot(t)
    <2>1. pc'[t] \in {"idle", "count", "services", "undo", "stop"}
      BY <1>0, <1>4 DEF StartSteps, AlreadyActive, RefuseConflict, FoundWhileSearching, Publish,
                        PublishFails, NotStarted, StartServices, Call, StartCall, StopCall,
                        Return, Goto, TypeOK
    <2>. QED BY <1>1, <2>1 DEF LookSteps
  <1>. QED BY <1>2, <1>3, <1>4

LEMMA StopNotLooking ==
  ASSUME TypeOK, NEW t \in Threads, StopSteps(t) \/ FinalizeBegin(t) \/ FinalizeSteps(t)
  PROVE  LookInv(t)'
  <1>1. pc'[t] \notin LookSteps
    BY DEF StopSteps, StopClears, StopNotFound, StopCounts, StopServices, FinalizeBegin,
           FinalizeSteps, StopClientContext, DeactivateBegin, DeactivateSlot, FinalizeEnd,
           Goto, AfterStop, LookSteps, TypeOK
  <1>2. (pc[t] \notin LookSteps => LookInv(t))' BY NotLooking, PTL
  <1>. QED BY <1>1, <1>2 DEF LookSteps

LEMMA OthersKeep ==
  ASSUME TypeOK, NEW u \in Threads, NEW t \in Threads, t # u,
         \/ Read(u) \/ Iterate(u) \/ StopSteps(u) \/ FinalizeBegin(u) \/ FinalizeSteps(u)
  PROVE  UNCHANGED <<pc[t], data[t], num_ctx[t], slot[t], last[t], ctx[t]>>
  <1>. USE DEF TypeOK, Goto, Return, callVars, readVars
  <1>1. CASE Read(u) \/ Iterate(u)
    BY <1>1 DEF Read, Iterate, ReadCall, ReadReturns, ReadCount, BeginScan, VisitSlot, EndScan,
                Recheck
  <1>2. CASE StopSteps(u)
    BY <1>2 DEF StopSteps, StopClears, StopNotFound, StopCounts, StopServices
  <1>3. CASE FinalizeBegin(u) \/ FinalizeSteps(u)
    BY <1>2, <1>3 DEF FinalizeBegin, FinalizeSteps, StopClientContext, DeactivateBegin,
                      DeactivateSlot, FinalizeEnd
  <1>. QED BY <1>1, <1>2, <1>3

LEMMA ReadKeeps ==
  ASSUME NEW t, Read(t) \/ Iterate(t)
  PROVE  UNCHANGED active
  BY DEF Read, Iterate, ReadCall, ReadReturns, ReadCount, BeginScan, VisitSlot, EndScan, Recheck,
         arrayVars

(***************************************************************************)
(* Overlaps, in three parts that each have their own: what only another    *)
(* start can spoil (ApartInv), what only finalization can spoil (EndInv),  *)
(* and the services, which need both and that nobody stops a context that  *)
(* is being started (ServeInv).  Stops may overlap one another, readers    *)
(* and finalization, and starts of other contexts.                         *)
(***************************************************************************)
BusySteps == {"services", "decrement", "off"}

\* What each thread does follows from where it is.
OpInv ==
  /\ \A t \in Threads :
       /\ pc[t] \in {"claim", "publish", "undo", "services"} => op[t] = "start"
       /\ pc[t] \in {"count", "begin", "visit", "recheck", "found"} => op[t] \in {"start", "read"}
       /\ pc[t] \in {"stop", "decrement", "off"} => op[t] \in {"stop", "finalize"}
       /\ pc[t] \in {"next", "deactivate", "finalized"} => op[t] = "finalize"
       /\ op[t] = "finalize" => fini_status # 0 /\ pc[t] \notin {"idle"} \cup LookSteps
       /\ pc[t] \in {"deactivate", "finalized"} => to_stop = {}
  /\ \A t, u \in Threads : op[t] = "finalize" /\ op[u] = "finalize" => t = u
  /\ fini_status = 0 => to_stop = ContextIds
  /\ fini_status = 1 => \E t \in Threads : pc[t] = "finalized"

\* What a thread inside start_context relies on.
StartParts(t) ==
  /\ op[t] = "start" => LookInv(t)
  /\ pc[t] = "publish" => active[slot[t]] = NoContext
  /\ pc[t] # "undo" /\ result[t] # "not_started"

OneStarts == \A t, u \in Threads : InCall(t, "start") /\ InCall(u, "start") => t = u

ApartInv == OneStarts /\ Once /\ NoConflicts /\ \A t \in Threads : StartParts(t)

\* While deactivate_client_contexts runs, the slots it has passed are empty and no slot
\* comes after the last one it will clear.
EndInv ==
  /\ \A t \in Threads : InCall(t, "start") => fini_status = 0
  /\ \A t \in Threads :
       /\ pc[t] = "deactivate" => \A i \in Occupied : slot[t] <= i /\ i <= last[t]
       /\ pc[t] = "finalized" => Occupied = {}

\* What finalization has yet to stop.
ToFinalize == to_stop \cup {ctx[t] : t \in {u \in Threads : op[u] = "finalize" /\ pc[u] = "stop"}}

StopsApart ==
  \A t, u \in Threads : InCall(t, "start") /\ InCall(u, "stop") => ctx[t] # ctx[u]

ServeInv ==
  /\ StopsApart
  /\ \A t \in Threads : pc[t] = "services" => ctx[t] \in Active
  /\ \A t \in Threads : pc[t] \in {"decrement", "off"} => ctx[t] \notin Active
  /\ ServicesFollow
  /\ fini_status # 0 => Active \subseteq ToFinalize

SoloInv ==
  /\ Inv /\ OpInv
  /\ "start" \notin overlap => ApartInv
  /\ "finalize" \notin overlap => EndInv
  /\ overlap = {} => ServeInv

\* A step of one thread that leaves finalization alone.
LEMMA OpMoves ==
  ASSUME OpInv, NEW t \in Threads, UNCHANGED <<fini_status, to_stop>>,
         \A u \in Threads : u # t => pc'[u] = pc[u] /\ op'[u] = op[u],
         op'[t] = "finalize" => op[t] = "finalize", pc[t] # "finalized",
         \/ pc'[t] \in {"claim", "publish", "undo", "services"} /\ op'[t] = "start"
         \/ pc'[t] \in {"count", "begin", "visit", "recheck", "found"} /\ op'[t] \in {"start", "read"}
         \/ pc'[t] \in {"stop", "decrement", "off"} /\ op'[t] \in {"stop", "finalize"}
         \/ pc'[t] = "next" /\ op'[t] = "finalize"
         \/ pc'[t] = "idle" /\ op'[t] # "finalize"
  PROVE  OpInv'
  BY DEF OpInv, LookSteps

LEMMA OpRead ==
  ASSUME TypeOK, OpInv, NEW t \in Threads, Read(t) \/ Iterate(t)
  PROVE  OpInv'
  <1>1. /\ UNCHANGED <<fini_status, to_stop>> /\ op[t] # "finalize" /\ op'[t] # "finalize"
        /\ pc[t] # "finalized"
        /\ \A u \in Threads : u # t => pc'[u] = pc[u] /\ op'[u] = op[u]
        /\ \/ /\ pc'[t] \in {"count", "begin", "visit", "recheck", "found"}
              /\ op'[t] \in {"start", "read"}
           \/ pc'[t] = "idle"
    <2>. USE DEF TypeOK, Goto, Return, arrayVars, callVars, Steps, LookSteps
    <2>1. CASE Iterate(t)
      BY <2>1 DEF Iterate, ReadCount, BeginScan, VisitSlot, EndScan, Recheck, OpInv
    <2>2. CASE ReadCall(t) BY <2>2 DEF ReadCall, OpInv
    <2>3. CASE ReadReturns(t) BY <2>3 DEF ReadReturns, OpInv
    <2>. QED BY <2>1, <2>2, <2>3 DEF Read
  <1>. QED BY <1>1, OpMoves

LEMMA OpCall ==
  ASSUME TypeOK, OpInv, NEW t \in Threads, Call(t)
  PROVE  OpInv'
  <1>1. /\ UNCHANGED <<fini_status, to_stop>> /\ op[t] # "finalize" /\ op'[t] # "finalize"
        /\ pc[t] # "finalized"
        /\ \A u \in Threads : u # t => pc'[u] = pc[u] /\ op'[u] = op[u]
        /\ \/ pc'[t] = "count" /\ op'[t] = "start"
           \/ pc'[t] = "stop" /\ op'[t] = "stop"
    BY DEF Call, StartCall, StopCall, TypeOK, Goto, arrayVars, OpInv
  <1>. QED BY <1>1, OpMoves

LEMMA OpStart ==
  ASSUME TypeOK, OpInv, NEW t \in Threads, StartSteps(t), ~Iterate(t)
  PROVE  OpInv'
  <1>1. /\ UNCHANGED <<fini_status, to_stop, op>> /\ op[t] = "start" /\ pc[t] # "finalized"
        /\ \A u \in Threads : u # t => pc'[u] = pc[u]
        /\ pc'[t] \in {"claim", "publish", "undo", "services", "idle"}
    <2>. USE DEF TypeOK, Goto, Return, arrayVars, callVars, OpInv
    <2>1. CASE AlreadyActive(t) BY <2>1 DEF AlreadyActive
    <2>2. CASE RefuseConflict(t) BY <2>2 DEF RefuseConflict
    <2>3. CASE NoneActive(t) BY <2>3 DEF NoneActive
    <2>4. CASE FoundWhileSearching(t) BY <2>4 DEF FoundWhileSearching
    <2>5. CASE ClaimSlot(t) BY <2>5 DEF ClaimSlot
    <2>6. CASE Publish(t) BY <2>6 DEF Publish
    <2>7. CASE PublishFails(t) BY <2>7 DEF PublishFails
    <2>8. CASE NotStarted(t) BY <2>8 DEF NotStarted
    <2>9. CASE StartServices(t) BY <2>9 DEF StartServices
    <2>. QED BY <2>1, <2>2, <2>3, <2>4, <2>5, <2>6, <2>7, <2>8, <2>9 DEF StartSteps
  <1>. QED BY <1>1, OpMoves

LEMMA OpStop ==
  ASSUME TypeOK, OpInv, NEW t \in Threads, StopSteps(t)
  PROVE  OpInv'
  <1>1. /\ UNCHANGED <<fini_status, to_stop, op>> /\ op[t] \in {"stop", "finalize"}
        /\ pc[t] # "finalized"
        /\ \A u \in Threads : u # t => pc'[u] = pc[u]
        /\ \/ pc'[t] \in {"decrement", "off"}
           \/ pc'[t] = "next" /\ op[t] = "finalize"
           \/ pc'[t] = "idle" /\ op[t] = "stop"
    <2>. USE DEF TypeOK, Goto, Return, arrayVars, callVars, OpInv, AfterStop, Finalizing
    <2>1. CASE StopClears(t) BY <2>1 DEF StopClears
    <2>2. CASE StopNotFound(t) BY <2>2 DEF StopNotFound
    <2>3. CASE StopCounts(t) BY <2>3 DEF StopCounts
    <2>4. CASE StopServices(t) BY <2>4 DEF StopServices
    <2>. QED BY <2>1, <2>2, <2>3, <2>4 DEF StopSteps
  <1>. QED BY <1>1, OpMoves

LEMMA OpFinalize ==
  ASSUME TypeOK, OpInv, NEW t \in Threads, FinalizeBegin(t) \/ FinalizeSteps(t), ~StopSteps(t)
  PROVE  OpInv'
  <1>. USE DEF TypeOK, Goto, Return, arrayVars, callVars, OpInv, LookSteps
  <1>1. CASE FinalizeBegin(t) BY <1>1 DEF FinalizeBegin
  <1>2. CASE StopClientContext(t) BY <1>2 DEF StopClientContext
  <1>3. CASE DeactivateBegin(t) BY <1>3 DEF DeactivateBegin
  <1>4. CASE DeactivateSlot(t) BY <1>4 DEF DeactivateSlot
  <1>5. CASE FinalizeEnd(t) BY <1>5 DEF FinalizeEnd
  <1>. QED BY <1>1, <1>2, <1>3, <1>4, <1>5 DEF FinalizeSteps

(***************************************************************************)
(* What a step leaves alone.                                               *)
(***************************************************************************)
OthersSame(t) == \A u \in Threads : u # t => UNCHANGED <<pc[u], op[u], ctx[u], result[u]>>

LEMMA StepsLocal ==
  ASSUME TypeOK, NEW t \in Threads,
         \/ Read(t) \/ Call(t) \/ StartSteps(t) \/ StopSteps(t)
         \/ FinalizeBegin(t) \/ FinalizeSteps(t)
  PROVE  OthersSame(t)
  <1>. USE DEF TypeOK, Goto, Return, callVars, OthersSame
  <1>1. CASE Read(t) \/ Iterate(t)
    BY <1>1 DEF Read, Iterate, ReadCall, ReadReturns, ReadCount, BeginScan, VisitSlot, EndScan,
                Recheck
  <1>2. CASE Call(t) BY <1>2 DEF Call, StartCall, StopCall
  <1>3. CASE StartSteps(t)
    BY <1>1, <1>3 DEF StartSteps, AlreadyActive, RefuseConflict, NoneActive, FoundWhileSearching,
                      ClaimSlot, Publish, PublishFails, NotStarted, StartServices
  <1>4. CASE StopSteps(t)
    BY <1>4 DEF StopSteps, StopClears, StopNotFound, StopCounts, StopServices
  <1>5. CASE FinalizeBegin(t) \/ FinalizeSteps(t)
    BY <1>4, <1>5 DEF FinalizeBegin, FinalizeSteps, StopClientContext, DeactivateBegin,
                      DeactivateSlot, FinalizeEnd
  <1>. QED BY <1>1, <1>2, <1>3, <1>4, <1>5

\* The kinds that a start has overlapped only become more.
LEMMA OverlapGrows ==
  ASSUME [Next]_vars
  PROVE  overlap \subseteq overlap'
  <1>. USE DEF Return, Goto
  <1>1. ASSUME NEW t \in Threads, Read(t) \/ Iterate(t) PROVE overlap' = overlap
    BY <1>1 DEF Read, Iterate, ReadCall, ReadReturns, ReadCount, BeginScan, VisitSlot, EndScan,
                Recheck
  <1>2. ASSUME NEW t \in Threads, Call(t) PROVE overlap \subseteq overlap'
    BY <1>2 DEF Call, StartCall, StopCall
  <1>3. ASSUME NEW t \in Threads, StartSteps(t), ~Iterate(t) PROVE overlap' = overlap
    BY <1>3 DEF StartSteps, AlreadyActive, RefuseConflict, NoneActive, FoundWhileSearching,
                ClaimSlot, Publish, PublishFails, NotStarted, StartServices
  <1>4. ASSUME NEW t \in Threads, StopSteps(t) PROVE overlap' = overlap
    BY <1>4 DEF StopSteps, StopClears, StopNotFound, StopCounts, StopServices
  <1>5. ASSUME NEW t \in Threads, FinalizeBegin(t) \/ FinalizeSteps(t), ~StopSteps(t)
        PROVE  overlap \subseteq overlap'
    BY <1>5 DEF FinalizeBegin, FinalizeSteps, StopClientContext, DeactivateBegin, DeactivateSlot,
                FinalizeEnd
  <1>6. CASE UNCHANGED vars BY <1>6 DEF vars
  <1>. QED BY <1>1, <1>2, <1>3, <1>4, <1>5, <1>6 DEF Next, Finished, Threads

\* A thread inside start_context after a step was so before, about the same context, or
\* has just called.
LEMMA StartsStay ==
  ASSUME TypeOK, OpInv, NEW t \in Threads,
         \/ Read(t) \/ StartSteps(t) \/ StopSteps(t) \/ FinalizeBegin(t) \/ FinalizeSteps(t)
         \/ \E c \in ContextIds : StopCall(t, c)
  PROVE  \A u \in Threads : InCall(u, "start")' => InCall(u, "start") /\ ctx'[u] = ctx[u]
  <1>1. OthersSame(t) BY StepsLocal DEF Call
  <1>2. InCall(t, "start")' => InCall(t, "start") /\ ctx'[t] = ctx[t]
    <2>. USE DEF TypeOK, Goto, Return, callVars, InCall, OpInv
    <2>1. CASE Read(t) \/ Iterate(t)
      BY <2>1 DEF Read, Iterate, ReadCall, ReadReturns, ReadCount, BeginScan, VisitSlot, EndScan,
                  Recheck
    <2>2. CASE StartSteps(t) /\ ~Iterate(t)
      BY <2>2 DEF StartSteps, AlreadyActive, RefuseConflict, NoneActive, FoundWhileSearching,
                  ClaimSlot, Publish, PublishFails, NotStarted, StartServices
    <2>3. CASE StopSteps(t)
      BY <2>3 DEF StopSteps, StopClears, StopNotFound, StopCounts, StopServices
    <2>4. CASE (FinalizeBegin(t) \/ FinalizeSteps(t)) /\ ~StopSteps(t)
      BY <2>4 DEF FinalizeBegin, FinalizeSteps, StopClientContext, DeactivateBegin,
                  DeactivateSlot, FinalizeEnd
    <2>5. ASSUME NEW c \in ContextIds, StopCall(t, c) PROVE op'[t] = "stop"
      BY <2>5 DEF StopCall
    <2>. QED BY <2>1, <2>2, <2>3, <2>4, <2>5
  <1>. QED BY <1>1, <1>2 DEF InCall, OthersSame

(***************************************************************************)
(* Starts that do not overlap one another.                                 *)
(***************************************************************************)
\* A step that fills no slot.
LEMMA ApartShrinks ==
  ASSUME TypeInv, ApartInv, NEW t \in Threads, OthersSame(t), Shrinks, StartParts(t)',
         \A u \in Threads : u # t => UNCHANGED <<data[u], num_ctx[u], slot[u], last[u]>>,
         \A u \in Threads : InCall(u, "start")' => InCall(u, "start")
  PROVE  ApartInv'
  <1>0. TypeOK BY DEF TypeInv
  <1>1. OneStarts' BY DEF ApartInv, OneStarts
  <1>2. Once' /\ NoConflicts' BY ShrinksOff DEF ApartInv, Once, NoConflicts, Conflict
  <1>3. ASSUME NEW u \in Threads, u # t PROVE StartParts(u)'
    <2>1. StartParts(u) BY DEF ApartInv
    <2>2. UNCHANGED <<pc[u], op[u], ctx[u], result[u], slot[u], data[u], num_ctx[u], last[u]>>
      BY <1>3 DEF OthersSame
    <2>3. op'[u] = "start" => LookInv(u)' BY <1>0, <2>1, <2>2, LookKept DEF StartParts
    <2>4. pc'[u] = "publish" => active'[slot'[u]] = NoContext
      BY <2>1, <2>2 DEF TypeInv, StepInv, Shrinks, StartParts
    <2>. QED BY <2>1, <2>2, <2>3, <2>4 DEF StartParts
  <1>. QED BY <1>1, <1>2, <1>3 DEF ApartInv

\* Another thread's start is not under way when t is inside one.
LEMMA OthersRest ==
  ASSUME OpInv, ApartInv, NEW t \in Threads, InCall(t, "start"), OthersSame(t)
  PROVE  \A u \in Threads : u # t => ~InCall(u, "start")' /\ StartParts(u)'
  <1>. TAKE u \in Threads
  <1>. HAVE u # t
  <1>1. UNCHANGED <<pc[u], op[u], result[u]>> BY DEF OthersSame
  <1>2. pc[u] = "idle" \/ op[u] # "start" BY DEF ApartInv, OneStarts, InCall
  <1>3. pc[u] \notin {"claim", "publish", "undo", "services"} BY <1>2 DEF OpInv
  <1>4. op[u] = "start" => pc'[u] \notin LookSteps BY <1>1, <1>2 DEF LookSteps
  <1>5. op'[u] = "start" => LookInv(u)' BY <1>1, <1>4 DEF LookInv, LookSteps
  <1>6. result'[u] # "not_started" BY <1>1 DEF ApartInv, StartParts
  <1>. QED BY <1>1, <1>2, <1>3, <1>5, <1>6 DEF StartParts, InCall

\* Readers, and the lookup of a start.
LEMMA ApartRead ==
  ASSUME Inv, OpInv, ApartInv, NEW t \in Threads, Read(t) \/ Iterate(t)
  PROVE  ApartInv'
  <1>0. TypeOK /\ TypeInv /\ StartParts(t) /\ OthersSame(t) BY StepsLocal DEF Inv, TypeInv, ApartInv, StartSteps
  <1>1. Shrinks BY ReadKeeps, SameShrinks
  <1>2. \A u \in Threads : InCall(u, "start")' => InCall(u, "start")
    BY <1>0, StartsStay DEF StartSteps
  <1>3. /\ pc'[t] \in {"count", "begin", "visit", "recheck", "found", "idle"}
        /\ result'[t] # "not_started"
        /\ op'[t] = "read" \/ (Iterate(t) /\ op'[t] = op[t])
    <2>. USE <1>0 DEF TypeOK, Goto, Return, callVars, StartParts
    <2>1. CASE ReadCall(t) BY <2>1 DEF ReadCall
    <2>2. CASE ReadReturns(t) BY <2>2 DEF ReadReturns
    <2>3. CASE Iterate(t)
      BY <2>3 DEF Iterate, ReadCount, BeginScan, VisitSlot, EndScan, Recheck
    <2>. QED BY <2>1, <2>2, <2>3 DEF Read
  <1>4. StartParts(t)' BY <1>0, <1>3, Looks DEF StartParts
  <1>. QED BY <1>0, <1>1, <1>2, <1>4, OthersKeep, ApartShrinks

\* A call that no start overlaps begins its lookup, or waits for the lock, with nothing
\* found.
LEMMA ApartCall ==
  ASSUME Inv, OpInv, ApartInv, NEW t \in Threads, Call(t), "start" \notin overlap'
  PROVE  ApartInv'
  <1>0. TypeOK /\ TypeInv /\ StartParts(t) /\ OthersSame(t)
    BY StepsLocal DEF Inv, TypeInv, ApartInv
  <1>1. UNCHANGED <<active, readVars, result>> /\ pc'[t] \in {"count", "stop"}
    BY <1>0 DEF Call, StartCall, StopCall, Goto, TypeOK, arrayVars
  <1>2. Shrinks BY <1>1, SameShrinks
  <1>3. StartParts(t)' BY <1>0, <1>1 DEF StartParts, LookInv
  <1>4. CASE \E c \in ContextIds : StopCall(t, c)
    <2>1. \A u \in Threads : InCall(u, "start")' => InCall(u, "start") BY <1>0, <1>4, StartsStay
    <2>. QED BY <1>0, <1>1, <1>2, <1>3, <2>1, ApartShrinks DEF readVars
  <1>5. ASSUME NEW c \in ContextIds, StartCall(t, c) PROVE ApartInv'
    <2>1. \A u \in Threads : ~InCall(u, "start")
      <3>. SUFFICES ASSUME NEW u \in Threads, InCall(u, "start") PROVE FALSE
        OBVIOUS
      <3>1. Disturbs(u, "start", c) BY DEF Disturbs
      <3>2. overlap' = overlap \cup {k \in {"start", "stop"} : \E v \in Threads : Disturbs(v, k, c)}
        BY <1>5 DEF StartCall
      <3>. QED BY <3>1, <3>2
    <2>2. OneStarts' BY <1>0, <2>1 DEF OneStarts, InCall, OthersSame
    <2>3. Once' /\ NoConflicts' BY <1>2, ShrinksOff DEF ApartInv, Once, NoConflicts, Conflict
    <2>4. ASSUME NEW u \in Threads, u # t PROVE StartParts(u)'
      <3>1. StartParts(u) BY DEF ApartInv
      <3>2. UNCHANGED <<pc[u], op[u], ctx[u], result[u], slot[u], data[u], num_ctx[u], last[u]>>
        BY <1>0, <1>1, <2>4 DEF OthersSame, readVars
      <3>3. op'[u] = "start" => LookInv(u)' BY <1>0, <1>2, <3>1, <3>2, LookKept DEF StartParts
      <3>. QED BY <1>1, <3>1, <3>2, <3>3 DEF StartParts
    <2>. QED BY <1>3, <2>2, <2>3, <2>4 DEF ApartInv
  <1>. QED BY <1>4, <1>5 DEF Call

\* The start that is alone with stops, finalization and readers.
LEMMA ApartStart ==
  ASSUME Inv, OpInv, ApartInv, NEW t \in Threads, StartSteps(t), ~Iterate(t)
  PROVE  ApartInv'
  <1>0. TypeOK /\ TypeInv /\ StartParts(t) /\ OthersSame(t) BY StepsLocal DEF Inv, TypeInv, ApartInv
  <1>1. op[t] = "start" /\ pc[t] # "idle" /\ op' = op
    BY DEF StartSteps, AlreadyActive, RefuseConflict, NoneActive, FoundWhileSearching, ClaimSlot,
           Publish, PublishFails, NotStarted, StartServices, Return, Goto, callVars, OpInv
  <1>2. InCall(t, "start") /\ LookInv(t) BY <1>0, <1>1 DEF InCall, StartParts
  <1>3. \A u \in Threads : u # t => ~InCall(u, "start")' /\ StartParts(u)'
    BY <1>0, <1>2, OthersRest
  <1>4. OneStarts' BY <1>3 DEF OneStarts
  <1>5. LookInv(t)' BY <1>2, CallerLooks
  <1>6. SUFFICES /\ Once' /\ NoConflicts'
                 /\ pc'[t] = "publish" => active'[slot'[t]] = NoContext
                 /\ pc'[t] # "undo" /\ result'[t] # "not_started"
    BY <1>3, <1>4, <1>5 DEF ApartInv, StartParts
  <1>7. SameSlots => Once' /\ NoConflicts'
    BY DEF SameSlots, ApartInv, Once, NoConflicts, Conflict, Active
  <1>8. CASE \/ AlreadyActive(t) \/ RefuseConflict(t) \/ NoneActive(t) \/ FoundWhileSearching(t)
             \/ StartServices(t)
    <2>1. UNCHANGED active /\ pc'[t] \in {"idle", "claim"} /\ result'[t] # "not_started"
      BY <1>0, <1>8 DEF AlreadyActive, RefuseConflict, NoneActive, FoundWhileSearching, StartServices,
                        Return, Goto, TypeOK, arrayVars, StartParts
    <2>. QED BY <1>7, <2>1, SlotsSame
  <1>9. CASE ClaimSlot(t)
    <2>1. pc'[t] = "publish" /\ result' = result BY <1>0, <1>9 DEF ClaimSlot, Goto, TypeOK
    <2>2. SameSlots /\ active'[slot'[t]] = NoContext BY <1>0, <1>9, ClaimSame
    <2>. QED BY <1>0, <1>7, <2>1, <2>2 DEF StartParts
  <1>10. CASE Publish(t)
    <2>1. result' = result /\ pc[t] = "publish" /\ pc'[t] = "services"
      BY <1>0, <1>10 DEF Publish, Goto, TypeOK
    <2>2. /\ Active' = Active \cup {ctx[t]}
          /\ Occupied' = Occupied \cup {slot[t]} /\ slot[t] \notin Occupied
          /\ active'[slot[t]] = ctx[t] /\ \A i \in Occupied : active'[i] = active[i]
      BY <1>0, <1>10, PublishAdds
    <2>3. \A d \in Active : d # ctx[t] /\ ~Conflict(ctx[t], d) BY <1>2, <2>1 DEF LookInv
    <2>4. Once'
      <3>1. \A i \in Occupied : active[i] \in Active BY DEF Active
      <3>. QED BY <2>2, <2>3, <3>1 DEF ApartInv, Once
    <2>5. NoConflicts' BY <2>2, <2>3 DEF ApartInv, NoConflicts, Conflict
    <2>. QED BY <1>0, <2>1, <2>4, <2>5 DEF StartParts
  <1>11. ~PublishFails(t) /\ ~NotStarted(t)
    BY <1>0 DEF PublishFails, NotStarted, Return, Goto, StartParts
  <1>. QED BY <1>8, <1>9, <1>10, <1>11 DEF StartSteps

\* A stop and finalization only empty slots, which harms no start that is under way.
LEMMA ApartStop ==
  ASSUME Inv, OpInv, ApartInv, NEW t \in Threads,
         StopSteps(t) \/ FinalizeBegin(t) \/ FinalizeSteps(t)
  PROVE  ApartInv'
  <1>0. TypeOK /\ TypeInv /\ StartParts(t) /\ OthersSame(t) BY StepsLocal DEF Inv, TypeInv, ApartInv
  <1>1. pc'[t] \notin {"publish", "undo"} /\ result'[t] # "not_started"
    BY <1>0 DEF StopSteps, StopClears, StopNotFound, StopCounts, StopServices, FinalizeBegin,
           FinalizeSteps, StopClientContext, DeactivateBegin, DeactivateSlot, FinalizeEnd,
           Goto, AfterStop, TypeOK, StartParts
  <1>2. StartParts(t)' BY <1>0, <1>1, StopNotLooking DEF StartParts
  <1>3. Shrinks BY <1>0, OthersShrink
  <1>4. \A u \in Threads : InCall(u, "start")' => InCall(u, "start") BY <1>0, StartsStay
  <1>. QED BY <1>0, <1>2, <1>3, <1>4, OthersKeep, ApartShrinks

\* Without overlapping starts, whatever stops and finalizes.
LEMMA ApartNext ==
  ASSUME Inv, OpInv, ApartInv, [Next]_vars, "start" \notin overlap'
  PROVE  ApartInv'
  <1>1. CASE UNCHANGED vars
    <2>. USE <1>1 DEF vars, arrayVars, callVars, readVars
    <2>1. Active' = Active /\ Occupied' = Occupied BY DEF Active, Occupied, Slots
    <2>2. OneStarts' /\ Once' /\ NoConflicts'
      BY <2>1 DEF ApartInv, OneStarts, InCall, Once, NoConflicts, Conflict
    <2>3. ASSUME NEW t \in Threads PROVE StartParts(t)'
      <3>1. LookInv(t) => LookInv(t)' BY SameShrinks, LookKept DEF Inv, TypeInv
      <3>. QED BY <3>1 DEF ApartInv, StartParts
    <2>. QED BY <2>2, <2>3 DEF ApartInv
  <1>. QED BY <1>1, ApartRead, ApartCall, ApartStart, ApartStop DEF Next, Finished, Threads

(***************************************************************************)
(* Finalization that no start overlaps.                                    *)
(***************************************************************************)
LEMMA EndNext ==
  ASSUME Inv, OpInv, EndInv, [Next]_vars, "finalize" \notin overlap'
  PROVE  EndInv'
  <1>0. TypeOK /\ TypeInv BY DEF Inv, TypeInv
  <1>1. ASSUME NEW t \in Threads, NEW c \in ContextIds, StartCall(t, c) PROVE EndInv'
    <2>1. fini_status = 0 /\ fini_status' = 0 BY <1>1 DEF StartCall, arrayVars
    <2>2. \A u \in Threads : pc[u] \notin {"deactivate", "finalized"} BY <2>1 DEF OpInv
    <2>3. \A u \in Threads : pc'[u] \in {pc[u], "count"} BY <1>0, <1>1 DEF StartCall, Goto, TypeOK
    <2>. QED BY <2>1, <2>2, <2>3 DEF EndInv
  <1>2. ASSUME NEW t \in Threads,
               \/ Read(t) \/ StartSteps(t) \/ StopSteps(t) \/ FinalizeBegin(t) \/ FinalizeSteps(t)
               \/ \E c \in ContextIds : StopCall(t, c)
        PROVE  \A u \in Threads : InCall(u, "start")' => fini_status' = 0
    <2>. SUFFICES ASSUME NEW u \in Threads, InCall(u, "start")' PROVE fini_status' = 0
      OBVIOUS
    <2>1. InCall(u, "start") /\ fini_status = 0 BY <1>0, <1>2, StartsStay DEF EndInv
    <2>2. ~FinalizeBegin(t)
      <3>1. FinalizeBegin(t) =>
              overlap' = overlap \cup {k \in {"finalize"} : \E v \in Threads : InCall(v, "start")}
        BY DEF FinalizeBegin
      <3>. QED BY <2>1, <3>1
    <2>3. ~FinalizeEnd(t) BY <2>1 DEF FinalizeEnd, Goto, OpInv
    <2>. QED BY <1>2, <2>1, <2>2, <2>3
         DEF Read, Iterate, ReadCall, ReadReturns, ReadCount, BeginScan, VisitSlot, EndScan, Recheck,
             StartSteps, AlreadyActive, RefuseConflict, NoneActive, FoundWhileSearching, ClaimSlot,
             Publish, PublishFails, NotStarted, StartServices, StopSteps, StopClears, StopNotFound,
             StopCounts, StopServices, FinalizeSteps, StopClientContext, DeactivateBegin,
             DeactivateSlot, StopCall, arrayVars
  <1>3. ASSUME NEW t \in Threads, NEW u \in Threads, u # t,
               \/ Read(t) \/ StartSteps(t) \/ StopSteps(t) \/ FinalizeBegin(t) \/ FinalizeSteps(t)
               \/ \E c \in ContextIds : StopCall(t, c)
        PROVE  /\ pc'[u] = "deactivate" => \A i \in Occupied' : slot'[u] <= i /\ i <= last'[u]
               /\ pc'[u] = "finalized" => Occupied' = {}
    <2>1. pc'[u] = pc[u] BY <1>0, <1>2, <1>3, StepsLocal DEF OthersSame, Call
    <2>. SUFFICES ASSUME pc[u] \in {"deactivate", "finalized"}
                  PROVE  Occupied' \subseteq Occupied /\ slot'[u] = slot[u] /\ last'[u] = last[u]
      BY <2>1 DEF EndInv
    <2>2. fini_status # 0 BY DEF OpInv
    <2>3. CASE Read(t) \/ Iterate(t) \/ StopSteps(t) \/ FinalizeBegin(t) \/ FinalizeSteps(t)
      <3>1. Shrinks BY <1>0, <2>3, ReadKeeps, SameShrinks, OthersShrink
      <3>. QED BY <1>0, <1>3, <2>3, <3>1, OthersKeep, ShrinksOff
    <2>4. CASE \E c \in ContextIds : StopCall(t, c)
      BY <2>4 DEF StopCall, arrayVars, readVars, Occupied, Slots
    <2>5. CASE StartSteps(t) /\ ~Iterate(t)
      <3>1. op[t] = "start" /\ pc[t] # "idle"
        BY <2>5 DEF StartSteps, AlreadyActive, RefuseConflict, NoneActive, FoundWhileSearching,
               ClaimSlot, Publish, PublishFails, NotStarted, StartServices, Return, Goto, OpInv
      <3>. QED BY <2>2, <3>1 DEF EndInv, InCall
    <2>. QED BY <1>3, <2>3, <2>4, <2>5
  <1>4. ASSUME NEW t \in Threads,
               \/ Read(t) \/ StartSteps(t) \/ StopSteps(t) \/ FinalizeBegin(t) \/ FinalizeSteps(t)
               \/ \E c \in ContextIds : StopCall(t, c)
        PROVE  /\ pc'[t] = "deactivate" => \A i \in Occupied' : slot'[t] <= i /\ i <= last'[t]
               /\ pc'[t] = "finalized" => Occupied' = {}
    <2>1. CASE DeactivateBegin(t)
      <3>1. /\ Occupied' = Occupied /\ pc'[t] = "deactivate"
            /\ slot'[t] = 1 /\ last'[t] = Len(active)
        BY <1>0, <2>1 DEF DeactivateBegin, Goto, TypeOK, arrayVars, Occupied, Slots
      <3>2. \A i \in Occupied : 1 <= i /\ i <= Len(active) BY <1>0 DEF TypeOK, Occupied, Slots
      <3>. QED BY <3>1, <3>2
    <2>2. CASE DeactivateSlot(t)
      <3>1. /\ pc[t] = "deactivate" /\ pc'[t] = "deactivate" /\ last'[t] = last[t]
            /\ slot'[t] = slot[t] + 1 /\ slot[t] \in Nat /\ slot[t] \in Slots
            /\ active' = [active EXCEPT ![slot[t]] = NoContext]
        BY <1>0, <2>2 DEF DeactivateSlot, TypeOK, TypeInv, StepInv, Slots
      <3>2. Occupied' \subseteq Occupied \ {slot[t]} BY <3>1 DEF Occupied, Slots
      <3>3. \A i \in Occupied : slot[t] <= i /\ i <= last[t] /\ i \in Nat
        BY <1>0, <3>1 DEF EndInv, TypeOK, Occupied, Slots
      <3>. QED BY <3>1, <3>2, <3>3
    <2>3. CASE FinalizeEnd(t)
      <3>1. /\ pc[t] = "deactivate" /\ pc'[t] = "finalized" /\ slot[t] > last[t]
            /\ active' = active /\ slot[t] \in Nat /\ last[t] \in Nat
        BY <1>0, <2>3 DEF FinalizeEnd, Goto, TypeOK
      <3>2. \A i \in Occupied : slot[t] <= i /\ i <= last[t] /\ i \in Nat
        BY <1>0, <3>1 DEF EndInv, TypeOK, Occupied, Slots
      <3>3. Occupied = {} BY <3>1, <3>2
      <3>. QED BY <3>1, <3>3 DEF Occupied, Slots
    <2>4. CASE ~DeactivateBegin(t) /\ ~DeactivateSlot(t) /\ ~FinalizeEnd(t)
      <3>1. pc'[t] \notin {"deactivate", "finalized"}
        BY <1>0, <1>4, <2>4
           DEF Read, Iterate, ReadCall, ReadReturns, ReadCount, BeginScan, VisitSlot, EndScan, Recheck,
               StartSteps, AlreadyActive, RefuseConflict, NoneActive, FoundWhileSearching, ClaimSlot,
               Publish, PublishFails, NotStarted, StartServices, StopSteps, StopClears, StopNotFound,
               StopCounts, StopServices, FinalizeBegin, FinalizeSteps, StopClientContext, AfterStop,
               StopCall, Return, Goto, TypeOK
      <3>. QED BY <3>1
    <2>. QED BY <2>1, <2>2, <2>3, <2>4
  <1>5. CASE UNCHANGED vars
    BY <1>5 DEF vars, arrayVars, callVars, readVars, EndInv, InCall, Occupied, Slots
  <1>6. ASSUME NEW t \in Threads,
               \/ Read(t) \/ StartSteps(t) \/ StopSteps(t) \/ FinalizeBegin(t) \/ FinalizeSteps(t)
               \/ \E c \in ContextIds : StopCall(t, c)
        PROVE  EndInv'
    BY <1>2, <1>3, <1>4, <1>6 DEF EndInv
  <1>. QED BY <1>1, <1>5, <1>6 DEF Next, Finished, Threads, Call

(***************************************************************************)
(* Services, when nothing disturbs a start.                                *)
(***************************************************************************)
\* A step of t that neither moves the array nor a service, nor leaves a stop of an
\* active context.
LEMMA ServeKept ==
  ASSUME TypeOK, ServeInv, NEW t \in Threads, OthersSame(t), SameSlots,
         UNCHANGED <<enabled, fini_status, to_stop>>, StopsApart',
         pc[t] \notin BusySteps, pc'[t] \notin BusySteps,
         pc[t] = "stop" => ctx[t] \notin Active
  PROVE  ServeInv'
  <1>1. Active' = Active BY DEF SameSlots, Active
  <1>2. \A u \in Threads : pc'[u] \in {"decrement", "off"} => ctx'[u] \notin Active'
    BY <1>1 DEF ServeInv, OthersSame, BusySteps
  <1>3. \A u \in Threads : pc'[u] = "services" => ctx'[u] \in Active'
    BY <1>1 DEF ServeInv, OthersSame, BusySteps
  <1>4. \A c : Busy(c)' <=> Busy(c) BY DEF Busy, OthersSame, BusySteps
  <1>5. ServicesFollow' BY <1>1, <1>4 DEF ServeInv, ServicesFollow
  <1>6. Active \cap ToFinalize \subseteq ToFinalize'
    <2>. SUFFICES ASSUME NEW c \in Active, c \in ToFinalize, c \notin to_stop
                  PROVE  c \in ToFinalize'
      BY DEF ToFinalize
    <2>1. PICK u \in Threads : op[u] = "finalize" /\ pc[u] = "stop" /\ ctx[u] = c
      BY DEF ToFinalize
    <2>2. u # t BY <2>1
    <2>. QED BY <2>1, <2>2 DEF OthersSame, ToFinalize
  <1>7. fini_status' # 0 => Active' \subseteq ToFinalize' BY <1>1, <1>6 DEF ServeInv
  <1>. QED BY <1>2, <1>3, <1>5, <1>7 DEF ServeInv

\* A context that is being started is being stopped by nobody.
LEMMA StopsApartNext ==
  ASSUME TypeOK, OpInv, StopsApart, [Next]_vars, overlap' = {}
  PROVE  StopsApart'
  <1>1. ASSUME NEW t \in Threads, NEW c \in ContextIds, StartCall(t, c) PROVE StopsApart'
    <2>1. \A u \in Threads : InCall(u, "stop") => ctx[u] # c
      <3>. SUFFICES ASSUME NEW u \in Threads, InCall(u, "stop"), ctx[u] = c PROVE FALSE
        OBVIOUS
      <3>1. Disturbs(u, "stop", c) BY DEF Disturbs
      <3>2. overlap' = overlap \cup {k \in {"start", "stop"} : \E v \in Threads : Disturbs(v, k, c)}
        BY <1>1 DEF StartCall
      <3>. QED BY <3>1, <3>2
    <2>2. OthersSame(t) BY <1>1, StepsLocal DEF Call
    <2>3. op'[t] = "start" /\ ctx'[t] = c BY <1>1 DEF StartCall, TypeOK
    <2>. QED BY <2>1, <2>2, <2>3 DEF StopsApart, InCall, OthersSame
  <1>2. ASSUME NEW t \in Threads, NEW c \in ContextIds, StopCall(t, c) PROVE StopsApart'
    <2>1. \A u \in Threads : InCall(u, "start") => ctx[u] # c
      <3>. SUFFICES ASSUME NEW u \in Threads, InCall(u, "start"), ctx[u] = c PROVE FALSE
        OBVIOUS
      <3>1. overlap' = overlap \cup
                         {k \in {"stop"} : \E v \in Threads : InCall(v, "start") /\ ctx[v] = c}
        BY <1>2 DEF StopCall
      <3>. QED BY <3>1
    <2>2. OthersSame(t) BY <1>2, StepsLocal DEF Call
    <2>3. op'[t] = "stop" /\ ctx'[t] = c BY <1>2 DEF StopCall, TypeOK
    <2>. QED BY <2>1, <2>2, <2>3 DEF StopsApart, InCall, OthersSame
  <1>3. ASSUME NEW t \in Threads,
               Read(t) \/ StartSteps(t) \/ StopSteps(t) \/ FinalizeBegin(t) \/ FinalizeSteps(t)
        PROVE  StopsApart'
    <2>1. \A u \in Threads : InCall(u, "start")' => InCall(u, "start") /\ ctx'[u] = ctx[u]
      BY <1>3, StartsStay
    <2>2. OthersSame(t) BY <1>3, StepsLocal
    <2>3. InCall(t, "stop")' => InCall(t, "stop") /\ ctx'[t] = ctx[t]
      <3>. USE DEF TypeOK, Goto, Return, callVars, InCall, OpInv
      <3>1. CASE Read(t) \/ Iterate(t)
        BY <3>1 DEF Read, Iterate, ReadCall, ReadReturns, ReadCount, BeginScan, VisitSlot, EndScan,
                    Recheck
      <3>2. CASE StartSteps(t) /\ ~Iterate(t)
        BY <3>2 DEF StartSteps, AlreadyActive, RefuseConflict, NoneActive, FoundWhileSearching,
                    ClaimSlot, Publish, PublishFails, NotStarted, StartServices
      <3>3. CASE StopSteps(t)
        BY <3>3 DEF StopSteps, StopClears, StopNotFound, StopCounts, StopServices
      <3>4. CASE (FinalizeBegin(t) \/ FinalizeSteps(t)) /\ ~StopSteps(t)
        BY <3>4 DEF FinalizeBegin, FinalizeSteps, StopClientContext, DeactivateBegin,
                    DeactivateSlot, FinalizeEnd
      <3>. QED BY <1>3, <3>1, <3>2, <3>3, <3>4
    <2>. QED BY <2>1, <2>2, <2>3 DEF StopsApart, InCall, OthersSame
  <1>4. CASE UNCHANGED vars BY <1>4 DEF vars, callVars, StopsApart, InCall
  <1>. QED BY <1>1, <1>2, <1>3, <1>4 DEF Next, Finished, Threads, Call

\* Threads that look up or begin a call leave slots and services alone.
LEMMA ServeLook ==
  ASSUME TypeOK, ServeInv, NEW t \in Threads, Read(t) \/ Iterate(t) \/ Call(t), StopsApart'
  PROVE  ServeInv'
  <1>1. OthersSame(t) BY StepsLocal DEF StartSteps
  <1>2. /\ UNCHANGED <<active, enabled, fini_status, to_stop>>
        /\ pc[t] \notin BusySteps \cup {"stop"} /\ pc'[t] \notin BusySteps
    <2>. USE DEF TypeOK, Goto, Return, arrayVars, callVars, BusySteps
    <2>1. CASE Read(t) \/ Iterate(t)
      BY <2>1 DEF Read, Iterate, ReadCall, ReadReturns, ReadCount, BeginScan, VisitSlot, EndScan,
                  Recheck
    <2>2. CASE Call(t) BY <2>2 DEF Call, StartCall, StopCall
    <2>. QED BY <2>1, <2>2
  <1>. QED BY <1>1, <1>2, SlotsSame, ServeKept

\* A start that is apart from the stops of its context switches services on in an
\* active context.
LEMMA ServeStart ==
  ASSUME TypeInv, OpInv, EndInv, ServeInv, NEW t \in Threads, StartSteps(t), ~Iterate(t),
         StopsApart'
  PROVE  ServeInv'
  <1>0. TypeOK /\ OthersSame(t) BY StepsLocal DEF TypeInv
  <1>1. CASE \/ AlreadyActive(t) \/ RefuseConflict(t) \/ NoneActive(t) \/ FoundWhileSearching(t)
             \/ ClaimSlot(t) \/ PublishFails(t) \/ NotStarted(t)
    <2>1. /\ UNCHANGED <<enabled, fini_status, to_stop>>
          /\ pc[t] \notin BusySteps \cup {"stop"} /\ pc'[t] \notin BusySteps
      BY <1>0, <1>1 DEF AlreadyActive, RefuseConflict, NoneActive, FoundWhileSearching, ClaimSlot,
                        PublishFails, NotStarted, Return, Goto, TypeOK, arrayVars, callVars, BusySteps
    <2>2. ClaimSlot(t) \/ UNCHANGED active
      BY <1>1 DEF AlreadyActive, RefuseConflict, NoneActive, FoundWhileSearching, PublishFails,
                  NotStarted, arrayVars
    <2>3. SameSlots BY <1>0, <2>2, ClaimSame, SlotsSame
    <2>. QED BY <1>0, <2>1, <2>3, ServeKept
  <1>2. CASE Publish(t)
    <2>1. /\ UNCHANGED <<enabled, fini_status, to_stop, ctx, op>>
          /\ pc[t] = "publish" /\ pc'[t] = "services"
      BY <1>0, <1>2 DEF Publish, Goto, TypeOK, callVars
    <2>2. Active' = Active \cup {ctx[t]} BY <1>2, PublishAdds
    <2>3. InCall(t, "start") /\ fini_status = 0
      BY <2>1 DEF OpInv, InCall, EndInv
    <2>4. ServicesFollow'
      <3>. SUFFICES ASSUME NEW c \in Counting, ~Busy(c)' PROVE c \in enabled' <=> c \in Active'
        BY DEF ServicesFollow
      <3>1. c # ctx[t] BY <2>1 DEF Busy
      <3>2. ~Busy(c) BY <2>1, <3>1, <1>0 DEF Busy, OthersSame
      <3>. QED BY <2>1, <2>2, <3>1, <3>2 DEF ServeInv, ServicesFollow
    <2>5. ASSUME NEW u \in Threads, pc'[u] \in {"decrement", "off"} PROVE ctx'[u] \notin Active'
      <3>1. u # t /\ pc[u] \in {"decrement", "off"} BY <1>0, <2>1, <2>5 DEF OthersSame
      <3>2. op[u] # "finalize" BY <2>3 DEF OpInv
      <3>3. InCall(u, "stop") BY <3>1, <3>2 DEF OpInv, InCall
      <3>4. ctx[u] # ctx[t] BY <2>3, <3>3 DEF ServeInv, StopsApart
      <3>. QED BY <2>1, <2>2, <3>1, <3>4 DEF ServeInv
    <2>6. \A u \in Threads : pc'[u] = "services" => ctx'[u] \in Active'
      BY <1>0, <2>1, <2>2 DEF ServeInv, OthersSame
    <2>. QED BY <2>1, <2>3, <2>4, <2>5, <2>6 DEF ServeInv
  <1>3. CASE StartServices(t)
    <2>1. /\ UNCHANGED <<active, fini_status, to_stop, ctx, op>> /\ pc[t] = "services"
          /\ pc'[t] = "idle" /\ ctx[t] \in Active
          /\ enabled' = enabled \cup ({ctx[t]} \cap Counting)
      BY <1>0, <1>3 DEF StartServices, Return, Goto, TypeOK, callVars, ServeInv
    <2>2. Active' = Active BY <2>1 DEF Active, Occupied, Slots
    <2>3. ServicesFollow'
      <3>. SUFFICES ASSUME NEW c \in Counting, ~Busy(c)' PROVE c \in enabled' <=> c \in Active'
        BY DEF ServicesFollow
      <3>1. CASE c = ctx[t] BY <2>1, <2>2, <3>1
      <3>2. CASE c # ctx[t]
        <4>1. ~Busy(c) BY <1>0, <2>1, <3>2 DEF Busy, OthersSame
        <4>. QED BY <2>1, <2>2, <3>2, <4>1 DEF ServeInv, ServicesFollow
      <3>. QED BY <3>1, <3>2
    <2>4. /\ \A u \in Threads : pc'[u] \in {"decrement", "off"} => ctx'[u] \notin Active'
          /\ \A u \in Threads : pc'[u] = "services" => ctx'[u] \in Active'
      BY <1>0, <2>1, <2>2 DEF ServeInv, OthersSame
    <2>5. fini_status' = 0
      <3>1. InCall(t, "start") BY <2>1 DEF OpInv, InCall
      <3>. QED BY <2>1, <3>1 DEF EndInv
    <2>. QED BY <2>3, <2>4, <2>5 DEF ServeInv
  <1>. QED BY <1>1, <1>2, <1>3 DEF StartSteps

\* A stop switches services off after it has emptied the only slot of its context.
LEMMA ServeStop ==
  ASSUME TypeInv, OpInv, ApartInv, EndInv, ServeInv, NEW t \in Threads, StopSteps(t), StopsApart'
  PROVE  ServeInv'
  <1>0. TypeOK /\ OthersSame(t) BY StepsLocal DEF TypeInv
  <1>1. /\ pc[t] \in {"stop", "decrement", "off"} /\ pc'[t] \in {"decrement", "off", "next", "idle"}
        /\ UNCHANGED <<fini_status, to_stop, op, ctx>>
    BY <1>0 DEF StopSteps, StopClears, StopNotFound, StopCounts, StopServices, AfterStop, Goto,
                TypeOK, arrayVars, callVars
  <1>2. CASE StopClears(t)
    <2>1. PICK i \in Slots : active[i] = ctx[t] /\ active' = [active EXCEPT ![i] = NoContext]
      BY <1>2 DEF StopClears, IsFirst
    <2>2. /\ enabled' = enabled /\ pc[t] = "stop" /\ pc'[t] = "decrement"
          /\ ctx[t] # NoContext
      BY <1>0, <1>2, ContextsAssumption DEF StopClears, Goto, TypeOK, TypeInv, StepInv
    <2>3. /\ Occupied' = Occupied \ {i} /\ i \in Occupied
          /\ \A j \in Occupied' : active'[j] = active[j]
      BY <1>0, <2>1, <2>2 DEF TypeOK, Occupied, Slots
    <2>4. Active' = Active \ {ctx[t]}
      <3>1. \A j \in Occupied : active[j] = ctx[t] <=> j = i
        BY <2>1, <2>3 DEF ApartInv, Once
      <3>. QED BY <2>1, <2>3, <3>1 DEF Active
    <2>5. ServicesFollow'
      <3>. SUFFICES ASSUME NEW c \in Counting, ~Busy(c)' PROVE c \in enabled' <=> c \in Active'
        BY DEF ServicesFollow
      <3>1. c # ctx[t] BY <1>1, <2>2 DEF Busy
      <3>2. ~Busy(c) BY <1>0, <1>1, <2>2, <3>1 DEF Busy, OthersSame
      <3>. QED BY <2>2, <2>4, <3>1, <3>2 DEF ServeInv, ServicesFollow
    <2>6. \A u \in Threads : pc'[u] \in {"decrement", "off"} => ctx'[u] \notin Active'
      BY <1>0, <1>1, <2>4 DEF ServeInv, OthersSame
    <2>7. ASSUME NEW u \in Threads, pc'[u] = "services" PROVE ctx'[u] \in Active'
      <3>1. u # t /\ pc[u] = "services" BY <1>0, <2>2, <2>7 DEF OthersSame
      <3>2. InCall(u, "start") BY <3>1 DEF OpInv, InCall
      <3>3. op[t] # "finalize" BY <3>2 DEF EndInv, OpInv
      <3>4. InCall(t, "stop") BY <2>2, <3>3 DEF OpInv, InCall
      <3>5. ctx[u] # ctx[t] BY <3>2, <3>4 DEF ServeInv, StopsApart
      <3>. QED BY <1>1, <2>4, <3>1, <3>5 DEF ServeInv
    <2>8. Active' \cap ToFinalize \subseteq ToFinalize'
      BY <1>0, <1>1, <2>4 DEF ToFinalize, OthersSame
    <2>. QED BY <1>1, <2>4, <2>5, <2>6, <2>7, <2>8 DEF ServeInv
  <1>3. CASE StopNotFound(t)
    <2>1. /\ UNCHANGED <<active, enabled>> /\ ctx[t] \notin Active /\ pc'[t] \in {"idle", "next"}
          /\ pc[t] = "stop"
      BY <1>0, <1>3 DEF StopNotFound, Goto, AfterStop, TypeOK, arrayVars
    <2>. QED BY <1>0, <1>1, <2>1, SlotsSame, ServeKept DEF BusySteps
  <1>4. ASSUME UNCHANGED active, pc[t] \in {"decrement", "off"}, pc'[t] \in {"off", "idle", "next"}
        PROVE  /\ Active' = Active
               /\ \A u \in Threads : pc'[u] \in {"decrement", "off"} => ctx'[u] \notin Active'
               /\ \A u \in Threads : pc'[u] = "services" => ctx'[u] \in Active'
               /\ fini_status' # 0 => Active' \subseteq ToFinalize'
    <2>1. Active' = Active BY <1>4 DEF Active, Occupied, Slots
    <2>2. /\ \A u \in Threads : pc'[u] \in {"decrement", "off"} => ctx'[u] \notin Active'
          /\ \A u \in Threads : pc'[u] = "services" => ctx'[u] \in Active'
      BY <1>0, <1>1, <1>4, <2>1 DEF ServeInv, OthersSame
    <2>3. ToFinalize \subseteq ToFinalize' BY <1>0, <1>1, <1>4 DEF ToFinalize, OthersSame
    <2>. QED BY <1>1, <2>1, <2>2, <2>3 DEF ServeInv
  <1>5. CASE StopCounts(t)
    <2>1. UNCHANGED <<active, enabled>> /\ pc[t] = "decrement" /\ pc'[t] = "off"
      BY <1>0, <1>5 DEF StopCounts, Goto, TypeOK
    <2>2. \A c : Busy(c)' <=> Busy(c) BY <1>0, <1>1, <2>1 DEF Busy, OthersSame
    <2>3. ServicesFollow' BY <1>4, <2>1, <2>2 DEF ServeInv, ServicesFollow
    <2>. QED BY <1>4, <2>1, <2>3 DEF ServeInv
  <1>6. CASE StopServices(t)
    <2>1. /\ active' = active /\ enabled' = enabled \ {ctx[t]} /\ pc[t] = "off"
          /\ pc'[t] \in {"idle", "next"} /\ ctx[t] \notin Active
      BY <1>0, <1>6 DEF StopServices, Goto, AfterStop, TypeOK, ServeInv
    <2>2. Active' = Active BY <1>4, <2>1
    <2>3. ServicesFollow'
      <3>. SUFFICES ASSUME NEW c \in Counting, ~Busy(c)' PROVE c \in enabled' <=> c \in Active'
        BY DEF ServicesFollow
      <3>1. CASE c = ctx[t] BY <2>1, <2>2, <3>1
      <3>2. CASE c # ctx[t]
        <4>1. ~Busy(c) BY <1>0, <1>1, <2>1, <3>2 DEF Busy, OthersSame
        <4>. QED BY <2>1, <2>2, <3>2, <4>1 DEF ServeInv, ServicesFollow
      <3>. QED BY <3>1, <3>2
    <2>. QED BY <1>4, <2>1, <2>3 DEF ServeInv
  <1>. QED BY <1>2, <1>3, <1>5, <1>6 DEF StopSteps

\* By the time finalize empties the array, its stops have emptied it.
LEMMA Stopped ==
  ASSUME OpInv, ServeInv, NEW t \in Threads, pc[t] \in {"deactivate", "finalized"}
  PROVE  Active = {}
  <1>1. op[t] = "finalize" /\ to_stop = {} /\ fini_status # 0 BY DEF OpInv
  <1>2. \A u \in Threads : op[u] = "finalize" => u = t BY <1>1 DEF OpInv
  <1>3. ToFinalize = {} BY <1>1, <1>2 DEF ToFinalize
  <1>. QED BY <1>1, <1>3 DEF ServeInv

\* Finalization stops each context before it is over, so that deactivation finds
\* nothing.
LEMMA ServeFinalize ==
  ASSUME TypeInv, OpInv, ServeInv, NEW t \in Threads, FinalizeBegin(t) \/ FinalizeSteps(t),
         ~StopSteps(t), StopsApart'
  PROVE  ServeInv'
  <1>0. TypeOK /\ OthersSame(t) BY StepsLocal DEF TypeInv
  <1>1. /\ pc[t] \in {"idle", "next", "deactivate"}
        /\ pc'[t] \in {"next", "stop", "deactivate", "finalized"}
        /\ op'[t] = "finalize" /\ UNCHANGED enabled
    <2>1. CASE FinalizeBegin(t) BY <1>0, <2>1 DEF FinalizeBegin, Goto, TypeOK
    <2>2. CASE ~FinalizeBegin(t)
      <3>1. /\ pc[t] \in {"next", "deactivate"} /\ pc'[t] \in {"stop", "deactivate", "finalized"}
            /\ op' = op /\ UNCHANGED enabled
        BY <1>0, <2>2 DEF FinalizeSteps, StopClientContext, DeactivateBegin, DeactivateSlot,
                          FinalizeEnd, Goto, TypeOK, arrayVars, callVars
      <3>. QED BY <3>1 DEF OpInv
    <2>. QED BY <2>1, <2>2
  <1>2. \A c : Busy(c)' <=> Busy(c) BY <1>0, <1>1 DEF Busy, OthersSame
  <1>3. ASSUME SameSlots, fini_status' # 0 => Active \subseteq ToFinalize' PROVE ServeInv'
    <2>1. Active' = Active BY <1>3 DEF SameSlots, Active
    <2>2. ServicesFollow' BY <1>1, <1>2, <2>1 DEF ServeInv, ServicesFollow
    <2>3. /\ \A u \in Threads : pc'[u] \in {"decrement", "off"} => ctx'[u] \notin Active'
          /\ \A u \in Threads : pc'[u] = "services" => ctx'[u] \in Active'
      BY <1>0, <1>1, <2>1 DEF ServeInv, OthersSame
    <2>. QED BY <1>3, <2>1, <2>2, <2>3 DEF ServeInv
  <1>4. CASE FinalizeBegin(t)
    <2>1. active' = active /\ to_stop' = ContextIds
      BY <1>4 DEF FinalizeBegin, OpInv
    <2>2. Active \subseteq ToFinalize' BY <1>0, <2>1, ActiveType DEF ToFinalize
    <2>. QED BY <1>3, <2>1, <2>2, SlotsSame
  <1>5. CASE StopClientContext(t)
    <2>1. /\ active' = active /\ fini_status' = fini_status /\ pc[t] = "next" /\ pc'[t] = "stop"
          /\ to_stop' \cup {ctx'[t]} = to_stop
      BY <1>0, <1>5 DEF StopClientContext, Goto, TypeOK, arrayVars
    <2>2. ToFinalize \subseteq ToFinalize'
      <3>1. ctx'[t] \in ToFinalize' BY <1>1, <2>1 DEF ToFinalize
      <3>2. to_stop' \subseteq ToFinalize' BY DEF ToFinalize
      <3>3. ASSUME NEW u \in Threads, op[u] = "finalize", pc[u] = "stop" PROVE ctx[u] \in ToFinalize'
        <4>1. u # t BY <2>1, <3>3
        <4>. QED BY <1>0, <3>3, <4>1 DEF OthersSame, ToFinalize
      <3>. QED BY <2>1, <3>1, <3>2, <3>3 DEF ToFinalize
    <2>. QED BY <1>3, <2>1, <2>2, SlotsSame DEF ServeInv
  <1>6. CASE DeactivateBegin(t)
    <2>1. UNCHANGED <<active, fini_status, to_stop>> /\ pc[t] = "next" /\ pc'[t] = "deactivate"
      BY <1>0, <1>6 DEF DeactivateBegin, Goto, TypeOK, arrayVars, callVars
    <2>. QED BY <1>0, <1>1, <2>1, SlotsSame, ServeKept DEF BusySteps
  <1>7. CASE DeactivateSlot(t)
    <2>1. Active = {} BY <1>7, Stopped DEF DeactivateSlot
    <2>2. Occupied = {} BY <2>1 DEF Active
    <2>3. Shrinks BY <1>7, OthersShrink DEF FinalizeSteps
    <2>4. Occupied' = {} BY <2>2, <2>3, ShrinksOff
    <2>. QED BY <1>3, <2>1, <2>2, <2>4 DEF SameSlots
  <1>8. CASE FinalizeEnd(t)
    <2>1. active' = active BY <1>8 DEF FinalizeEnd
    <2>2. Active = {} BY <1>8, Stopped DEF FinalizeEnd, Goto
    <2>. QED BY <1>3, <2>1, <2>2, SlotsSame
  <1>. QED BY <1>4, <1>5, <1>6, <1>7, <1>8 DEF FinalizeSteps

\* The steps above are all there are: while no call has overlapped a start, services
\* follow the array.
LEMMA ServeNext ==
  ASSUME Inv, OpInv, ApartInv, EndInv, ServeInv, [Next]_vars, overlap' = {}
  PROVE  ServeInv'
  <1>0. TypeOK /\ TypeInv BY DEF Inv, TypeInv
  <1>1. StopsApart' BY <1>0, StopsApartNext DEF ServeInv
  <1>2. CASE UNCHANGED vars
    <2>. USE <1>2 DEF vars, arrayVars, callVars
    <2>1. Active' = Active /\ ToFinalize' = ToFinalize BY DEF Active, Occupied, Slots, ToFinalize
    <2>. QED BY <1>1, <2>1 DEF ServeInv, ServicesFollow, Busy
  <1>. QED BY <1>0, <1>1, <1>2, ServeLook, ServeStart, ServeStop, ServeFinalize
       DEF Next, Finished, Threads

(***************************************************************************)
(* The three parts together.                                               *)
(***************************************************************************)
\* What a thread does stays in step with where it is, whoever moves.
LEMMA OpNext ==
  ASSUME TypeOK, OpInv, [Next]_vars
  PROVE  OpInv'
  <1>1. CASE UNCHANGED vars BY <1>1 DEF vars, arrayVars, callVars, OpInv
  <1>. QED BY <1>1, OpRead, OpCall, OpStart, OpStop, OpFinalize DEF Next, Finished, Threads

LEMMA SoloNext == SoloInv /\ [Next]_vars => SoloInv'
  <1>. SUFFICES ASSUME SoloInv, [Next]_vars PROVE SoloInv'
    OBVIOUS
  <1>0. Inv /\ Inv' /\ TypeOK /\ OpInv BY InvNext DEF SoloInv, Inv, TypeInv
  <1>1. OpInv' BY <1>0, OpNext
  <1>2. overlap \subseteq overlap' BY OverlapGrows
  <1>3. "start" \notin overlap' => ApartInv' BY <1>0, <1>2, ApartNext DEF SoloInv
  <1>4. "finalize" \notin overlap' => EndInv' BY <1>0, <1>2, EndNext DEF SoloInv
  <1>5. overlap' = {} => ServeInv'
    <2>. SUFFICES ASSUME overlap' = {} PROVE ServeInv'
      OBVIOUS
    <2>1. ApartInv /\ EndInv /\ ServeInv BY <1>2 DEF SoloInv
    <2>. QED BY <1>0, <2>1, ServeNext
  <1>. QED BY <1>0, <1>1, <1>3, <1>4, <1>5 DEF SoloInv

LEMMA SoloInit == Init => SoloInv
  <1>. SUFFICES ASSUME Init PROVE SoloInv
    OBVIOUS
  <1>1. /\ \A t \in Threads : pc[t] = "idle" /\ op[t] = "none" /\ result[t] = "none"
        /\ Active = {} /\ Occupied = {} /\ enabled = {} /\ fini_status = 0
        /\ to_stop = ContextIds
    BY DEF Init, Active, Occupied, Slots
  <1>2. OpInv BY <1>1 DEF OpInv
  <1>3. ApartInv BY <1>1 DEF ApartInv, OneStarts, InCall, Once, NoConflicts, StartParts
  <1>4. EndInv BY <1>1 DEF EndInv, InCall
  <1>5. ServeInv BY <1>1 DEF ServeInv, StopsApart, InCall, ServicesFollow
  <1>. QED BY <1>2, <1>3, <1>4, <1>5, InvInit DEF SoloInv

\* What overlapping calls can harm, and nothing else.  Unless starts overlap, a context
\* has one slot, contexts that conflict are never active together and no start loses its
\* slot, whatever is stopped, looked up and finalized meanwhile; unless a start overlaps
\* finalization, this leaves nothing active; and services follow the contexts unless a
\* start overlaps one of these or a stop of its own context (context.cpp's start_context,
\* stop_context and deactivate_client_contexts).
THEOREM OverlapsAlone == Spec => []OnlyOverlapsHarm
  <1>1. SoloInv => OnlyOverlapsHarm
    <2>. SUFFICES ASSUME SoloInv PROVE OnlyOverlapsHarm
      OBVIOUS
    <2>1. "start" \notin overlap =>
            Once /\ NoConflicts /\ \A t \in Threads : result[t] # "not_started"
      BY DEF SoloInv, ApartInv, StartParts
    <2>2. ASSUME "finalize" \notin overlap, fini_status = 1 PROVE Active = {}
      <3>1. EndInv /\ OpInv BY <2>2 DEF SoloInv
      <3>2. PICK t \in Threads : pc[t] = "finalized" BY <2>2, <3>1 DEF OpInv
      <3>3. Occupied = {} BY <3>1, <3>2 DEF EndInv
      <3>. QED BY <3>3 DEF Active
    <2>3. overlap = {} => ServicesFollow BY DEF SoloInv, ServeInv
    <2>. QED BY <2>1, <2>2, <2>3 DEF OnlyOverlapsHarm
  <1>. QED BY <1>1, SoloInit, SoloNext, PTL DEF Spec

(***************************************************************************)
(* The array as a set.                                                     *)
(***************************************************************************)
\* What a step may do to the set of active contexts.
LEMMA ArrayMoves ==
  ASSUME Inv, OpInv, ApartInv, [Next]_vars
  PROVE  \/ Active' \subseteq Active
         \/ \E c \in ContextIds : /\ Active' = Active \cup {c}
                                  /\ \A d \in Active : ~Conflict(c, d)
  <1>0. TypeInv /\ TypeOK BY DEF Inv, TypeInv
  <1>1. CASE UNCHANGED active BY <1>1 DEF Active, Occupied, Slots
  <1>2. ASSUME NEW t \in Threads, StopSteps(t) \/ FinalizeBegin(t) \/ FinalizeSteps(t)
        PROVE  Active' \subseteq Active
    BY <1>0, <1>2, OthersShrink, ShrinksOff
  <1>3. ASSUME NEW t \in Threads, ClaimSlot(t) PROVE Active' \subseteq Active
    BY <1>0, <1>3, ClaimSame DEF SameSlots, Active
  <1>4. ASSUME NEW t \in Callers, Publish(t)
        PROVE  \E c \in ContextIds : /\ Active' = Active \cup {c}
                                     /\ \A d \in Active : ~Conflict(c, d)
    <2>1. pc[t] = "publish" /\ op[t] = "start" /\ t \in Threads
      BY <1>4 DEF Publish, Goto, OpInv, Threads
    <2>2. \A d \in Active : ~Conflict(ctx[t], d) BY <2>1 DEF ApartInv, StartParts, LookInv
    <2>. QED BY <1>0, <1>4, <2>2, PublishAdds DEF Threads
  <1>5. ASSUME NEW t \in Callers, Call(t) \/ StartSteps(t), ~ClaimSlot(t), ~Publish(t)
        PROVE  UNCHANGED active
    BY <1>5, ReadKeeps
    DEF StartSteps, AlreadyActive, RefuseConflict, NoneActive, FoundWhileSearching, PublishFails,
        NotStarted, StartServices, Call, StartCall, StopCall, arrayVars
  <1>6. CASE UNCHANGED vars BY <1>1, <1>6 DEF vars, arrayVars
  <1>7. ASSUME NEW t \in Callers, Call(t) \/ StartSteps(t)
        PROVE  UNCHANGED active \/ ClaimSlot(t) \/ Publish(t)
    BY <1>5, <1>7
  <1>. QED BY <1>1, <1>2, <1>3, <1>4, <1>6, <1>7, ReadKeeps DEF Next, Finished, Threads

\* Until starts overlap, the array is the set that start_context and stop_context
\* promise: a context joins it alone and conflicts with none that is in it.
THEOREM ArrayIsSet == Spec => ImplementsActiveSet
  <1>1. Init => Set!SetInit
    BY DEF Init, Set!SetInit, SetOfActive, Active, Occupied, Slots
  <1>2. SoloInv /\ [Next]_vars => [Set!SetNext]_SetOfActive
    <2>. SUFFICES ASSUME SoloInv, [Next]_vars PROVE Set!SetNext \/ UNCHANGED SetOfActive
      OBVIOUS
    <2>1. CASE SetOfActive' \subseteq SetOfActive
      <3>1. SetOfActive' = SetOfActive \ (SetOfActive \ SetOfActive') BY <2>1
      <3>2. Set!TurnOff BY <3>1 DEF Set!TurnOff
      <3>. QED BY <3>2 DEF Set!SetNext
    <2>2. CASE "start" \in overlap'
      <3>1. SetOfActive' = {} BY <2>2 DEF SetOfActive
      <3>. QED BY <2>1, <3>1
    <2>3. CASE "start" \notin overlap'
      <3>1. "start" \notin overlap /\ SetOfActive = Active /\ SetOfActive' = Active'
        BY <2>3, OverlapGrows DEF SetOfActive
      <3>2. ASSUME NEW c \in ContextIds, Active' = Active \cup {c},
                   \A d \in Active : ~Conflict(c, d)
            PROVE  Set!SetNext \/ UNCHANGED SetOfActive
        <4>1. CASE c \in Active BY <3>1, <3>2, <4>1
        <4>2. CASE c \notin Active
          <5>1. c \in Counting => Active \cap Counting = {} BY <3>2, <4>2 DEF Conflict
          <5>2. Set!TurnOn(c) BY <3>1, <3>2, <5>1 DEF Set!TurnOn
          <5>. QED BY <3>1, <4>2, <5>2 DEF Set!SetNext
        <4>. QED BY <4>1, <4>2
      <3>. QED BY <2>1, <3>1, <3>2, ArrayMoves DEF SoloInv
    <2>. QED BY <2>2, <2>3
  <1>. QED BY <1>1, <1>2, SoloInit, SoloNext, PTL DEF Spec, ImplementsActiveSet, Set!SetSpec

(***************************************************************************)
(* One thread that starts and stops contexts: its starts overlap no other. *)
(***************************************************************************)
OneCaller == \A t, u \in Callers : t = u

CallerInv == "start" \notin overlap /\ \A t \in Threads : op[t] = "start" => t \in Callers

LEMMA CallerNext ==
  ASSUME OneCaller, TypeOK, OpInv, CallerInv, [Next]_vars
  PROVE  CallerInv'
  <1>1. ASSUME NEW t \in Callers, NEW c \in ContextIds, StartCall(t, c) PROVE CallerInv'
    <2>1. t \in Threads /\ pc[t] = "idle" BY <1>1 DEF Threads, StartCall, Goto
    <2>2. ~\E u \in Threads : Disturbs(u, "start", c)
      BY <2>1 DEF Disturbs, InCall, CallerInv, OneCaller
    <2>3. overlap' = overlap \cup {k \in {"start", "stop"} : \E u \in Threads : Disturbs(u, k, c)}
      BY <1>1 DEF StartCall
    <2>4. op' = [op EXCEPT ![t] = "start"] BY <1>1 DEF StartCall
    <2>. QED BY <2>1, <2>2, <2>3, <2>4 DEF CallerInv, TypeOK
  <1>2. ASSUME NEW t \in Threads,
               \/ Read(t) \/ StartSteps(t) \/ StopSteps(t) \/ FinalizeBegin(t) \/ FinalizeSteps(t)
               \/ \E c \in ContextIds : StopCall(t, c)
        PROVE  CallerInv'
    <2>1. \A u \in Threads : op'[u] = "start" => op[u] = "start"
      <3>1. op' = op \/ \E k \in {"read", "stop", "finalize"} : op' = [op EXCEPT ![t] = k]
        BY <1>2 DEF Read, Iterate, ReadCall, ReadReturns, ReadCount, BeginScan, VisitSlot, EndScan,
             Recheck, StartSteps, AlreadyActive, RefuseConflict, NoneActive, FoundWhileSearching,
             ClaimSlot, Publish, PublishFails, NotStarted, StartServices, StopSteps, StopClears,
             StopNotFound, StopCounts, StopServices, FinalizeBegin, FinalizeSteps,
             StopClientContext, DeactivateBegin, DeactivateSlot, FinalizeEnd, StopCall, callVars
      <3>. QED BY <3>1 DEF TypeOK
    <2>2. "start" \in overlap' => "start" \in overlap
      BY <1>2 DEF Read, Iterate, ReadCall, ReadReturns, ReadCount, BeginScan, VisitSlot, EndScan,
             Recheck, StartSteps, AlreadyActive, RefuseConflict, NoneActive, FoundWhileSearching,
             ClaimSlot, Publish, PublishFails, NotStarted, StartServices, StopSteps, StopClears,
             StopNotFound, StopCounts, StopServices, FinalizeBegin, FinalizeSteps,
             StopClientContext, DeactivateBegin, DeactivateSlot, FinalizeEnd, StopCall
    <2>. QED BY <2>1, <2>2 DEF CallerInv
  <1>3. CASE UNCHANGED vars BY <1>3 DEF vars, callVars, CallerInv
  <1>. QED BY <1>1, <1>2, <1>3 DEF Next, Finished, Threads, Call

\* Then, beside any number of threads that look up and one that finalizes, two
\* conflicting contexts are never active at once: what start_context found before it
\* took the lock still holds when it publishes.
THEOREM OneCallerExcludes ==
  ASSUME OneCaller
  PROVE  Spec => []ConflictsExcluded
  <1>. DEFINE I == SoloInv /\ CallerInv
  <1>1. Init => I BY SoloInit DEF Init, CallerInv
  <1>2. I /\ [Next]_vars => I' BY SoloNext, CallerNext DEF SoloInv, Inv, TypeInv
  <1>3. I => ConflictsExcluded BY DEF ConflictsExcluded, SoloInv, CallerInv, ApartInv
  <1>. QED BY <1>1, <1>2, <1>3, PTL DEF Spec

(***************************************************************************)
(* Lookups.  A reader that is not disturbed by the count misses no context *)
(* that is active all along, whatever starts and stops while it looks.     *)
(***************************************************************************)
\* A nonempty set of numbers has a least one.
LEMMA LeastOf ==
  ASSUME NEW S, S \subseteq Nat, S # {}
  PROVE  \E m \in S : \A n \in S : m <= n
  <1>. DEFINE R == {ss \in Nat \X Nat : ss[1] < ss[2]}
  <1>1. IsWellFoundedOn(R, Nat)
    BY NatLessThanWellFounded DEF OpToRel
  <1>2. PICK m \in S : \A n \in S : <<n, m>> \notin R
    BY <1>1, WFMin
  <1>3. ASSUME NEW n \in S PROVE m <= n
    <2>1. <<n, m>> \notin R /\ n \in Nat /\ m \in Nat BY <1>2
    <2>2. ~(n < m) BY <2>1
    <2>. QED BY <2>1, <2>2
  <1>. QED BY <1>3

\* Before finalization, and as long as no slot has the index that stands for "none
\* found" (which no empty slot may have without being overlooked).
Fits == fini_status = 0 /\ NoneFound \notin Slots

\* The count is what the reader read, and has been all along.
Steady(t) == ~flickered[t] /\ num_active = num_ctx[t]

\* Threads that may yet fill a slot.
Publishing == {u \in Threads : pc[u] = "publish"}

\* A context that was active all along and is not found yet is ahead, and no farther
\* than the lookup goes; while the count is steady, what is found, what is ahead and what
\* may yet come are no more than the count, so when the lookup stops for having found
\* that many nothing is ahead.
ScanInv(t) ==
  /\ pc[t] = "begin" =>
       /\ data[t] = << >>
       /\ Steady(t) => Cardinality(Occupied) + Cardinality(Publishing) <= num_ctx[t]
  /\ pc[t] = "visit" =>
       /\ \A c \in throughout[t] \ Found(t) : \E i \in Ahead(t) : active[i] = c
       /\ \A i \in Occupied : i > last[t] => active[i] \notin throughout[t]
       /\ \A u \in Publishing : slot[u] > last[t] => ctx[u] \notin throughout[t]
       /\ Steady(t) => Len(data[t]) + Cardinality(Ahead(t)) + Cardinality(Publishing) <= num_ctx[t]
  /\ pc[t] = "recheck" /\ Steady(t) => throughout[t] \subseteq Found(t)
  /\ pc[t] = "found" /\ ~flickered[t] => throughout[t] \subseteq Found(t)

StillActive == \A t \in Threads : throughout[t] \subseteq Active
LookupInv == SoloInv /\ StillActive /\ (Fits => \A t \in Threads : ScanInv(t))

\* Numbers and sets that the count is compared with.
LEMMA PublishingFinite ==
  ASSUME TypeOK
  PROVE  IsFiniteSet(Publishing) /\ Cardinality(Publishing) \in Nat
  <1>1. IsFiniteSet(Publishing) BY FS_Subset, ContextsAssumption DEF Publishing
  <1>. QED BY <1>1, FS_CardinalityType

\* A reader sees the count change and come back.
LEMMA SteadyBefore ==
  ASSUME TypeOK, NEW t \in Threads, NoteChange, num_ctx'[t] = num_ctx[t]
  PROVE  /\ flickered[t] => flickered'[t]
         /\ throughout'[t] = throughout[t] \cap Active'
         /\ Reading(t) /\ Steady(t)' => Steady(t) /\ num_active' = num_active
  <1>1. /\ throughout'[t] = throughout[t] \cap Active'
        /\ flickered'[t] = (flickered[t] \/ (Reading(t) /\ num_active' # num_active
                                               /\ num_active' = num_ctx[t]))
    BY DEF NoteChange
  <1>. QED BY <1>1 DEF Steady

\* The steps that touch the array.
LEMMA ArraySteps ==
  ASSUME [Next]_vars
  PROVE  \/ UNCHANGED active
         \/ \E u \in Threads : ClaimSlot(u) \/ Publish(u) \/ StopClears(u) \/ DeactivateSlot(u)
  <1>1. ASSUME NEW u \in Threads, Call(u) PROVE UNCHANGED active
    BY <1>1 DEF Call, StartCall, StopCall, arrayVars
  <1>2. ASSUME NEW u \in Threads, StartSteps(u) PROVE
          UNCHANGED active \/ ClaimSlot(u) \/ Publish(u)
    <2>1. CASE Iterate(u) BY <2>1, ReadKeeps
    <2>2. CASE ~Iterate(u)
      BY <1>2, <2>2 DEF StartSteps, AlreadyActive, RefuseConflict, NoneActive, FoundWhileSearching,
                        PublishFails, NotStarted, StartServices, arrayVars
    <2>. QED BY <2>1, <2>2
  <1>3. ASSUME NEW u \in Threads, StopSteps(u) PROVE UNCHANGED active \/ StopClears(u)
    BY <1>3 DEF StopSteps, StopNotFound, StopCounts, StopServices, arrayVars
  <1>4. ASSUME NEW u \in Threads, FinalizeBegin(u) \/ FinalizeSteps(u)
        PROVE  UNCHANGED active \/ StopClears(u) \/ DeactivateSlot(u)
    BY <1>3, <1>4 DEF FinalizeBegin, FinalizeSteps, StopClientContext, DeactivateBegin, FinalizeEnd,
                      arrayVars
  <1>5. CASE UNCHANGED vars BY <1>5 DEF vars, arrayVars
  <1>. QED BY <1>1, <1>2, <1>3, <1>4, <1>5, ReadKeeps DEF Next, Finished, Threads

\* The slots do not go away.
LEMMA SlotsGrow ==
  ASSUME TypeInv, [Next]_vars
  PROVE  Slots \subseteq Slots'
  <1>1. CASE UNCHANGED active BY <1>1 DEF Slots
  <1>2. ASSUME NEW u \in Threads, ClaimSlot(u) PROVE Slots \subseteq Slots'
    <2>1. active' = Append(active, NoContext) \/ UNCHANGED active BY <1>2 DEF ClaimSlot, TakeSlot
    <2>2. active \in Seq(Pointer) BY DEF TypeInv, TypeOK, Pointer
    <2>. QED BY <2>1, <2>2 DEF Slots
  <1>3. ASSUME NEW u \in Threads, Publish(u) PROVE Slots \subseteq Slots'
    BY <1>3 DEF Publish, Slots
  <1>4. ASSUME NEW u \in Threads, StopClears(u) PROVE Slots \subseteq Slots'
    BY <1>4 DEF StopClears, Slots
  <1>5. ASSUME NEW u \in Threads, DeactivateSlot(u) PROVE Slots \subseteq Slots'
    BY <1>5 DEF DeactivateSlot, Slots
  <1>. QED BY <1>1, <1>2, <1>3, <1>4, <1>5, ArraySteps

\* Neither the slots nor finalization go away.
LEMMA FitsBefore ==
  ASSUME Inv, [Next]_vars, Fits'
  PROVE  Fits
  <1>0. TypeOK /\ TypeInv /\ TypeInv' BY InvNext DEF Inv, TypeInv
  <1>1. fini_status' = 0 => fini_status = 0
    BY DEF Next, Finished, vars, arrayVars, Read, Iterate, ReadCall, ReadReturns, ReadCount, BeginScan,
           VisitSlot, EndScan, Recheck, Call, StartCall, StopCall, StartSteps, AlreadyActive,
           RefuseConflict, NoneActive, FoundWhileSearching, ClaimSlot, Publish, PublishFails,
           NotStarted, StartServices, StopSteps, StopClears, StopNotFound, StopCounts,
           StopServices, FinalizeBegin, FinalizeSteps, StopClientContext, DeactivateBegin,
           DeactivateSlot, FinalizeEnd
  <1>2. Slots \subseteq Slots' BY <1>0, SlotsGrow
  <1>. QED BY <1>1, <1>2 DEF Fits, NoneFound

\* Whoever claims a slot has looked at all slots before it.
LEMMA ClaimFirst ==
  ASSUME TypeOK, NEW u \in Threads, ClaimSlot(u), NoneFound \notin Slots
  PROVE  /\ slot'[u] \in Nat /\ \A v \in Threads : v # u => slot'[v] = slot[v]
         /\ \A j \in Occupied : j < slot'[u] => active[j] # ctx[u]
  <1>0. active \in Seq(Pointer) /\ Slots = 1 .. Len(active) /\ Len(active) \in Nat
    BY DEF TypeOK, Pointer, Slots
  <1>1. \A j \in Searched : active[j] # ctx[u] BY DEF ClaimSlot
  <1>2. CASE Free = {} /\ slot' = [slot EXCEPT ![u] = Len(active) + 1]
    <2>1. Slots \ Occupied = {}
      <3>. SUFFICES ASSUME Slots \ Occupied # {} PROVE FALSE
        OBVIOUS
      <3>1. Slots \ Occupied \subseteq Nat BY <1>0
      <3>2. PICK m \in Slots \ Occupied : \A n \in Slots \ Occupied : m <= n
        BY <3>1, LeastOf
      <3>3. m \in Free BY <3>2 DEF Free, IsFirst
      <3>. QED BY <1>2, <3>3
    <2>2. \A j \in Slots : active[j] # NoContext BY <2>1 DEF Occupied
    <2>3. Searched = Slots BY <2>2 DEF Searched
    <2>4. \A j \in Occupied : active[j] # ctx[u] BY <1>1, <2>3 DEF Occupied
    <2>. QED BY <1>0, <1>2, <2>4 DEF TypeOK
  <1>3. ASSUME NEW i \in Free, slot' = [slot EXCEPT ![u] = i]
        PROVE  /\ slot'[u] \in Nat /\ \A v \in Threads : v # u => slot'[v] = slot[v]
               /\ \A j \in Occupied : j < slot'[u] => active[j] # ctx[u]
    <2>1. slot'[u] = i /\ i \in Nat /\ \A v \in Threads : v # u => slot'[v] = slot[v]
      BY <1>0, <1>3 DEF TypeOK, Free
    <2>2. ASSUME NEW j \in Occupied, j < i PROVE j \in Searched
      <3>1. j \in Slots /\ j \in Nat BY <1>0 DEF Occupied
      <3>2. ASSUME NEW h \in Slots, h < j PROVE active[h] # NoContext
        <4>1. h \in Nat /\ h < i BY <1>0, <2>1, <2>2, <3>1, <3>2
        <4>2. h \notin Slots \ Occupied
          <5>1. \A n \in Slots \ Occupied : i <= n BY DEF Free, IsFirst
          <5>2. ~(i <= h) BY <2>1, <4>1
          <5>. QED BY <5>1, <5>2
        <4>. QED BY <4>2 DEF Occupied
      <3>. QED BY <3>1, <3>2 DEF Searched
    <2>. QED BY <1>1, <2>1, <2>2
  <1>. QED BY <1>2, <1>3 DEF ClaimSlot, TakeSlot

\* The reader itself stays where it is.
Waits(t) == UNCHANGED <<pc[t], data[t], num_ctx[t], slot[t], last[t]>>

\* A step that leaves the array alone and after which no more threads fill slots.
LEMMA ScanStill ==
  ASSUME TypeOK, NEW t \in Threads, ScanInv(t), Waits(t), UNCHANGED active,
         throughout'[t] \subseteq throughout[t], flickered[t] => flickered'[t],
         Reading(t) /\ Steady(t)' => Steady(t),
         \A u \in Threads : pc'[u] = "publish" =>
           pc[u] = "publish" /\ slot'[u] = slot[u] /\ ctx'[u] = ctx[u]
  PROVE  ScanInv(t)'
  <1>1. /\ Occupied' = Occupied /\ Ahead(t)' = Ahead(t) /\ Found(t)' = Found(t)
    BY DEF Occupied, Slots, Ahead, Found, Waits
  <1>2. Publishing' \subseteq Publishing BY DEF Publishing
  <1>3. /\ Cardinality(Publishing') \in Nat /\ Cardinality(Publishing) \in Nat
        /\ Cardinality(Publishing') <= Cardinality(Publishing)
    BY <1>2, PublishingFinite, FS_Subset, FS_CardinalityType
  <1>4. /\ Cardinality(Occupied) \in Nat /\ Cardinality(Ahead(t)) \in Nat
        /\ num_ctx[t] \in Nat /\ Len(data[t]) \in Nat
    <2>1. data[t] \in Seq(ContextIds) BY DEF TypeOK
    <2>. QED BY <2>1, Sizes, AheadFinite DEF TypeOK
  <1>5. (pc[t] = "begin" =>
           /\ data[t] = << >>
           /\ Steady(t) => Cardinality(Occupied) + Cardinality(Publishing) <= num_ctx[t])'
    BY <1>1, <1>3, <1>4 DEF ScanInv, Waits, Reading
  <1>6. ASSUME pc'[t] = "visit"
        PROVE  /\ \A c \in throughout'[t] \ Found(t)' : \E i \in Ahead(t)' : active'[i] = c
               /\ \A i \in Occupied' : i > last'[t] => active'[i] \notin throughout'[t]
               /\ \A u \in Publishing' : slot'[u] > last'[t] => ctx'[u] \notin throughout'[t]
               /\ Steady(t)' => Len(data'[t]) + Cardinality(Ahead(t)') + Cardinality(Publishing')
                                  <= num_ctx'[t]
    <2>1. pc[t] = "visit" BY <1>6 DEF Waits
    <2>2. \A u \in Publishing' : u \in Publishing /\ slot'[u] = slot[u] /\ ctx'[u] = ctx[u]
      BY DEF Publishing
    <2>3. Steady(t)' => Len(data[t]) + Cardinality(Ahead(t)) + Cardinality(Publishing) <= num_ctx[t]
      BY <2>1 DEF ScanInv, Reading
    <2>4. Steady(t)' => Len(data'[t]) + Cardinality(Ahead(t)') + Cardinality(Publishing')
                                  <= num_ctx'[t]
      BY <1>1, <1>3, <1>4, <2>3 DEF Waits
    <2>. QED BY <1>1, <2>1, <2>2, <2>4 DEF ScanInv, Waits
  <1>7. (pc[t] = "recheck" /\ Steady(t) => throughout[t] \subseteq Found(t))'
    BY <1>1 DEF ScanInv, Waits, Reading
  <1>8. (pc[t] = "found" /\ ~flickered[t] => throughout[t] \subseteq Found(t))'
    BY <1>1 DEF ScanInv, Waits
  <1>. QED BY <1>5, <1>6, <1>7, <1>8 DEF ScanInv

\* Another thread claims a slot: the count goes up, and its context, if it is active
\* already, is so in a slot behind the one it claims.
LEMMA ScanClaim ==
  ASSUME TypeInv, NEW t \in Threads, NEW u \in Threads, u # t, ScanInv(t), StillActive, Waits(t),
         ClaimSlot(u), NoneFound \notin Slots
  PROVE  ScanInv(t)'
  <1>0. TypeOK /\ NoteChange /\ num_active' = num_active + 1 /\ num_active \in Nat
    BY DEF TypeInv, TypeOK, ClaimSlot
  <1>1. SameSlots BY <1>0, ClaimSame
  <1>2. Occupied' = Occupied /\ Active' = Active /\ \A i \in Occupied : active'[i] = active[i]
    BY <1>1 DEF SameSlots, Active
  <1>3. ~Steady(t)' \/ ~Reading(t) BY <1>0, SteadyBefore DEF Waits
  <1>4. throughout'[t] = throughout[t] /\ (flickered[t] => flickered'[t])
    <2>1. throughout'[t] = throughout[t] \cap Active BY <1>0, <1>2, SteadyBefore DEF Waits
    <2>. QED BY <1>0, <2>1, SteadyBefore DEF StillActive, Waits
  <1>5. Ahead(t)' = Ahead(t) /\ Found(t)' = Found(t) /\ Ahead(t) \subseteq Occupied
    BY <1>2 DEF Ahead, Found, Waits
  <1>6. \A v \in Publishing' : v = u \/ (v \in Publishing /\ slot'[v] = slot[v])
    <2>1. \A v \in Threads : v # u => slot'[v] = slot[v] BY <1>0, ClaimFirst
    <2>2. \A v \in Threads : v # u => pc'[v] = pc[v] BY <1>0 DEF ClaimSlot, Goto, TypeOK
    <2>. QED BY <2>1, <2>2 DEF Publishing
  <1>7. ctx' = ctx BY DEF ClaimSlot, callVars
  <1>8. CASE pc[t] = "visit"
    <2>1. last[t] \in Nat /\ slot'[u] \in Nat /\ Occupied \subseteq Nat
      <3>1. last[t] \in Nat /\ active \in Seq(Pointer) BY <1>0 DEF TypeOK, Pointer
      <3>2. slot'[u] \in Nat BY <1>0, ClaimFirst
      <3>. QED BY <3>1, <3>2 DEF Occupied, Slots
    <2>2. ASSUME slot'[u] > last[t], ctx[u] \in throughout[t] PROVE FALSE
      <3>1. PICK j \in Occupied : active[j] = ctx[u] BY <2>2 DEF StillActive, Active
      <3>2. ~(j > last[t]) BY <1>8, <2>2, <3>1 DEF ScanInv
      <3>3. j < slot'[u] BY <2>1, <2>2, <3>1, <3>2
      <3>. QED BY <1>0, <3>1, <3>3, ClaimFirst
    <2>3. \A v \in Publishing' : slot'[v] > last[t] => ctx[v] \notin throughout[t]
      BY <1>6, <1>8, <2>2 DEF ScanInv
    <2>4. pc'[t] = "visit" /\ last'[t] = last[t] BY <1>8 DEF Waits
    <2>5. ~Steady(t)' BY <1>3, <1>8 DEF Reading
    <2>. QED BY <1>2, <1>4, <1>5, <1>7, <1>8, <2>3, <2>4, <2>5 DEF ScanInv
  <1>9. CASE pc[t] # "visit"
    BY <1>3, <1>4, <1>5, <1>9 DEF ScanInv, Waits, Reading
  <1>. QED BY <1>8, <1>9

\* Another thread fills its slot: one context more in the array, one to come less.
LEMMA ScanPublish ==
  ASSUME TypeInv, NEW t \in Threads, NEW u \in Threads, u # t, ScanInv(t), Waits(t), Publish(u)
  PROVE  ScanInv(t)'
  <1>0. TypeOK BY DEF TypeInv
  <1>1. /\ Occupied' = Occupied \cup {slot[u]} /\ slot[u] \notin Occupied
        /\ active'[slot[u]] = ctx[u] /\ \A i \in Occupied : active'[i] = active[i]
    BY PublishAdds
  <1>2. /\ pc[u] = "publish" /\ Len(active') = Len(active)
        /\ UNCHANGED <<num_active, throughout, flickered, slot, ctx>>
    <2>1. slot[u] \in Slots BY DEF Publish, Goto, TypeInv, StepInv
    <2>2. Len(active') = Len(active)
      BY <1>0, <2>1, ExceptSeq DEF Publish, TypeOK, Slots
    <2>. QED BY <2>2 DEF Publish, Goto, callVars, readVars
  <1>3. Publishing' = Publishing \ {u} /\ u \in Publishing
    BY <1>0, <1>2 DEF Publish, Goto, Publishing, TypeOK
  <1>4. /\ Cardinality(Publishing') = Cardinality(Publishing) - 1
        /\ Cardinality(Publishing) \in Nat /\ Cardinality(Publishing') \in Nat
    BY <1>0, <1>3, PublishingFinite, FS_RemoveElement, FS_CardinalityType
  <1>5. Cardinality(Occupied') = Cardinality(Occupied) + 1 /\ Cardinality(Occupied) \in Nat
    BY <1>0, <1>1, Sizes, FS_AddElement
  <1>6. /\ Ahead(t) \subseteq Ahead(t)' /\ Ahead(t)' \subseteq Ahead(t) \cup {slot[u]}
        /\ \A i \in Ahead(t) : active'[i] = active[i]
    BY <1>1, <1>2 DEF Ahead
  <1>7. /\ Cardinality(Ahead(t)') \in Nat /\ Cardinality(Ahead(t)) \in Nat
        /\ Cardinality(Ahead(t)') <= Cardinality(Ahead(t)) + 1
    <2>1. IsFiniteSet(Ahead(t)) /\ Cardinality(Ahead(t)) \in Nat BY <1>0, AheadFinite
    <2>2. slot[u] \notin Ahead(t) BY <1>1 DEF Ahead
    <2>3. Ahead(t)' = Ahead(t) \/ Ahead(t)' = Ahead(t) \cup {slot[u]} BY <1>6
    <2>. QED BY <2>1, <2>2, <2>3, FS_AddElement, FS_CardinalityType
  <1>8. Found(t)' = Found(t) /\ (Steady(t)' => Steady(t)) BY <1>2 DEF Found, Waits, Steady
  <1>9. num_ctx[t] \in Nat /\ Len(data[t]) \in Nat
    <2>1. data[t] \in Seq(ContextIds) BY <1>0 DEF TypeOK
    <2>. QED BY <1>0, <2>1 DEF TypeOK
  <1>10. CASE pc[t] = "begin"
    <2>1. Steady(t)' => Cardinality(Occupied') + Cardinality(Publishing') <= num_ctx[t]
      BY <1>4, <1>5, <1>8, <1>9, <1>10 DEF ScanInv
    <2>. QED BY <1>10, <2>1 DEF ScanInv, Waits
  <1>11. CASE pc[t] = "visit"
    <2>1. \A c \in throughout[t] \ Found(t) : \E i \in Ahead(t)' : active'[i] = c
      BY <1>6, <1>11 DEF ScanInv
    <2>2. \A i \in Occupied' : i > last[t] => active'[i] \notin throughout[t]
      BY <1>1, <1>3, <1>11 DEF ScanInv
    <2>3. \A v \in Publishing' : slot[v] > last[t] => ctx[v] \notin throughout[t]
      BY <1>3, <1>11 DEF ScanInv
    <2>4. Steady(t)' => Len(data[t]) + Cardinality(Ahead(t)') + Cardinality(Publishing') <= num_ctx[t]
      BY <1>4, <1>7, <1>8, <1>9, <1>11 DEF ScanInv
    <2>. QED BY <1>2, <1>8, <1>11, <2>1, <2>2, <2>3, <2>4 DEF ScanInv, Waits
  <1>12. CASE pc[t] \notin {"begin", "visit"}
    BY <1>2, <1>8, <1>12 DEF ScanInv, Waits
  <1>. QED BY <1>10, <1>11, <1>12

\* Another thread takes a context out of its first slot: the context is active no more,
\* or is so in a slot that is farther.
LEMMA ScanClear ==
  ASSUME TypeInv, NEW t \in Threads, NEW u \in Threads, u # t, ScanInv(t), Waits(t), StopClears(u)
  PROVE  ScanInv(t)'
  <1>0. TypeOK /\ NoteChange /\ num_active' = num_active /\ active \in Seq(Pointer)
    BY DEF TypeInv, TypeOK, StopClears, Pointer
  <1>1. PICK h \in Slots : /\ active[h] = ctx[u] /\ active' = [active EXCEPT ![h] = NoContext]
                           /\ \A i \in Slots : active[i] = ctx[u] => h <= i
    BY DEF StopClears, IsFirst
  <1>2. ctx[u] \in ContextIds /\ ctx[u] # NoContext
    BY ContextsAssumption DEF TypeInv, StepInv, StopClears, Goto
  <1>3. Slots' = Slots /\ Slots \subseteq Nat BY <1>0, <1>1 DEF Slots
  <1>4. /\ Occupied' = Occupied \ {h} /\ h \in Occupied
        /\ \A i \in Occupied' : active'[i] = active[i]
    BY <1>0, <1>1, <1>2, <1>3 DEF Occupied, Slots
  <1>5. /\ Publishing' = Publishing /\ UNCHANGED <<slot, ctx>>
    BY <1>0 DEF StopClears, Goto, Publishing, TypeOK, callVars, readVars
  <1>6. throughout'[t] = throughout[t] \cap Active' /\ (flickered[t] => flickered'[t])
        /\ (Reading(t) /\ Steady(t)' => Steady(t))
    BY <1>0, SteadyBefore DEF Waits
  <1>7. Ahead(t)' \subseteq Ahead(t) /\ Found(t)' = Found(t) BY <1>4, <1>5 DEF Ahead, Found, Waits
  <1>8. /\ Cardinality(Occupied') \in Nat /\ Cardinality(Occupied) \in Nat
        /\ Cardinality(Occupied') <= Cardinality(Occupied)
        /\ Cardinality(Ahead(t)') \in Nat /\ Cardinality(Ahead(t)) \in Nat
        /\ Cardinality(Ahead(t)') <= Cardinality(Ahead(t)) /\ Cardinality(Publishing) \in Nat
    BY <1>0, <1>4, <1>7, Sizes, AheadFinite, PublishingFinite, FS_Subset, FS_CardinalityType
  <1>9. num_ctx[t] \in Nat /\ Len(data[t]) \in Nat
    <2>1. data[t] \in Seq(ContextIds) BY <1>0 DEF TypeOK
    <2>. QED BY <1>0, <2>1 DEF TypeOK
  <1>10. CASE pc[t] = "begin"
    <2>1. Steady(t)' => Cardinality(Occupied') + Cardinality(Publishing') <= num_ctx[t]
      BY <1>5, <1>6, <1>8, <1>9, <1>10 DEF ScanInv, Reading
    <2>. QED BY <1>10, <2>1 DEF ScanInv, Waits
  <1>11. CASE pc[t] = "visit"
    <2>1. ASSUME NEW c \in throughout'[t] \ Found(t) PROVE \E i \in Ahead(t)' : active'[i] = c
      <3>1. PICK i \in Ahead(t) : active[i] = c BY <1>6, <1>11, <2>1 DEF ScanInv
      <3>2. CASE i # h
        <4>1. i \in Ahead(t)' BY <1>4, <1>5, <3>2 DEF Ahead
        <4>. QED BY <1>4, <3>1, <4>1 DEF Ahead
      <3>3. CASE i = h
        <4>1. c \in Active' BY <1>6, <2>1
        <4>2. PICK j \in Occupied' : active'[j] = c BY <4>1 DEF Active
        <4>3. active[j] = ctx[u] /\ j \in Slots BY <1>1, <1>4, <3>1, <3>3, <4>2 DEF Occupied
        <4>4. h <= j BY <1>1, <4>3
        <4>5. j >= slot[t]
          <5>1. h >= slot[t] BY <3>3 DEF Ahead
          <5>2. h \in Nat /\ j \in Nat /\ slot[t] \in Nat BY <1>0, <1>3, <4>3 DEF TypeOK
          <5>. QED BY <4>4, <5>1, <5>2
        <4>. QED BY <1>5, <4>2, <4>5 DEF Ahead
      <3>. QED BY <3>2, <3>3
    <2>2. \A i \in Occupied' : i > last[t] => active'[i] \notin throughout'[t]
      BY <1>4, <1>6, <1>11 DEF ScanInv
    <2>3. \A v \in Publishing' : slot[v] > last[t] => ctx[v] \notin throughout'[t]
      BY <1>5, <1>6, <1>11 DEF ScanInv
    <2>4. Steady(t)' => Len(data[t]) + Cardinality(Ahead(t)') + Cardinality(Publishing') <= num_ctx[t]
      BY <1>5, <1>6, <1>8, <1>9, <1>11 DEF ScanInv, Reading
    <2>. QED BY <1>5, <1>7, <1>11, <2>1, <2>2, <2>3, <2>4 DEF ScanInv, Waits
  <1>12. CASE pc[t] \notin {"begin", "visit"}
    BY <1>6, <1>7, <1>12 DEF ScanInv, Waits, Reading
  <1>. QED BY <1>10, <1>11, <1>12

\* The lookup's own steps.
LEMMA ScanOwn ==
  ASSUME Inv, NEW t \in Threads, ScanInv(t), StillActive, Iterate(t)
  PROVE  ScanInv(t)' /\ StillActive'
  <1>0. /\ TypeOK /\ CountCoversSlots /\ data[t] \in Seq(ContextIds) /\ Len(data[t]) \in Nat
        /\ num_ctx[t] \in Nat /\ active \in Seq(Pointer) /\ num_active \in Nat
        /\ slot[t] \in Nat /\ last[t] \in Nat
    BY DEF Inv, TypeInv, TypeOK, Pointer
  <1>1. /\ UNCHANGED <<active, num_active, ctx>> /\ Occupied' = Occupied /\ Active' = Active
        /\ Slots' = Slots
    <2>1. UNCHANGED <<active, num_active, ctx>>
      BY DEF Iterate, ReadCount, BeginScan, VisitSlot, EndScan, Recheck, arrayVars, callVars
    <2>. QED BY <2>1 DEF Occupied, Slots, Active
  <1>2. /\ Occupied \subseteq Nat \ {0} /\ \A i \in Occupied : i <= Len(active)
        /\ Cardinality(Occupied) \in Nat /\ Cardinality(Publishing) \in Nat /\ Len(active) \in Nat
    <2>1. Len(active) \in Nat /\ DOMAIN active = 1 .. Len(active) BY <1>0
    <2>2. Occupied \subseteq Nat \ {0} /\ \A i \in Occupied : i <= Len(active)
      BY <2>1 DEF Occupied, Slots
    <2>. QED BY <1>0, <2>1, <2>2, Sizes, PublishingFinite
  <1>3. CASE ReadCount(t)
    <2>1. /\ throughout' = [throughout EXCEPT ![t] = Active] /\ data'[t] = << >>
          /\ num_ctx'[t] = num_active /\ pc'[t] = (IF num_active <= 0 THEN "found" ELSE "begin")
          /\ \A u \in Threads : u # t => pc'[u] = pc[u]
      BY <1>0, <1>3 DEF ReadCount, Goto, TypeOK
    <2>2. StillActive' BY <1>0, <1>1, <2>1 DEF StillActive, TypeOK
    <2>3. Cardinality(Occupied) + Cardinality(Publishing) <= num_active
      <3>1. Publishing \subseteq Pending BY DEF Publishing, Pending
      <3>2. Cardinality(Publishing) <= Cardinality(Pending) /\ Cardinality(Pending) \in Nat
        BY <1>0, <3>1, Sizes, FS_Subset
      <3>. QED BY <1>0, <1>2, <3>2 DEF CountCoversSlots
    <2>4. Publishing' = Publishing
      BY <1>0, <1>3, <2>1 DEF Publishing, ReadCount, Goto
    <2>5. num_active <= 0 => Active = {}
      <3>1. num_active <= 0 => Cardinality(Occupied) = 0 BY <1>0, <1>2, <2>3
      <3>2. num_active <= 0 => Occupied = {} BY <1>0, <3>1, Sizes, FS_EmptySet
      <3>. QED BY <3>2 DEF Active
    <2>6. throughout'[t] = Active BY <1>0, <2>1 DEF TypeOK
    <2>7. ScanInv(t)' BY <1>1, <2>1, <2>3, <2>4, <2>5, <2>6 DEF ScanInv
    <2>. QED BY <2>2, <2>7
  <1>4. CASE BeginScan(t)
    <2>1. /\ data'[t] = << >> /\ num_ctx'[t] = num_ctx[t] /\ pc[t] = "begin" /\ pc'[t] = "visit"
          /\ slot'[t] = 1 /\ last'[t] = Len(active) /\ UNCHANGED <<throughout, flickered>>
          /\ pc' = [pc EXCEPT ![t] = "visit"] /\ \A u \in Threads : u # t => slot'[u] = slot[u]
      BY <1>0, <1>4 DEF BeginScan, Goto, TypeOK, ScanInv
    <2>2. Ahead(t)' = Occupied
      <3>1. \A i \in Occupied : i >= 1 BY <1>2
      <3>. QED BY <1>1, <2>1, <3>1 DEF Ahead
    <2>3. Publishing' = Publishing /\ t \notin Publishing BY <1>0, <2>1 DEF Publishing, TypeOK
    <2>4. \A u \in Publishing' : slot'[u] \in Nat /\ slot'[u] <= Len(active)
      <3>1. \A u \in Publishing : slot[u] \in 1 .. Len(active)
        BY <1>0 DEF Publishing, Inv, TypeInv, StepInv, Slots
      <3>2. \A u \in Publishing : u \in Threads /\ u # t BY <2>3 DEF Publishing
      <3>. QED BY <1>2, <2>1, <2>3, <3>1, <3>2
    <2>5. \A c \in throughout[t] : \E i \in Occupied : active[i] = c BY DEF StillActive, Active
    <2>6. \A i \in Occupied' : ~(i > last'[t])
      <3>1. ASSUME NEW i \in Occupied PROVE ~(i > Len(active))
        <4>1. i \in Nat /\ Len(active) \in Nat /\ i <= Len(active) BY <1>2
        <4>. QED BY <4>1
      <3>. QED BY <1>1, <2>1, <3>1
    <2>7. \A u \in Publishing' : ~(slot'[u] > last'[t]) BY <1>2, <2>1, <2>4
    <2>8. Steady(t)' => Len(data'[t]) + Cardinality(Ahead(t)') + Cardinality(Publishing') <= num_ctx'[t]
      <3>1. Steady(t)' => Cardinality(Occupied) + Cardinality(Publishing) <= num_ctx[t]
        BY <1>1, <2>1 DEF ScanInv, Steady
      <3>2. Len(data'[t]) = 0 BY <2>1
      <3>. QED BY <1>2, <2>1, <2>2, <2>3, <3>1, <3>2
    <2>9. ScanInv(t)' BY <1>1, <2>1, <2>2, <2>5, <2>6, <2>7, <2>8 DEF ScanInv
    <2>. QED BY <1>1, <2>1, <2>9 DEF StillActive
  <1>5. CASE EndScan(t) \/ Recheck(t)
    <2>1. /\ UNCHANGED <<data, num_ctx, throughout, flickered, slot>> /\ pc'[t] \in {"found", "count"}
          /\ \/ pc[t] = "visit" /\ slot[t] > last[t]
             \/ pc[t] = "recheck" /\ (pc'[t] = "found" => num_active = num_ctx[t])
      BY <1>0, <1>5 DEF EndScan, Recheck, Goto, readVars, TypeOK
    <2>2. StillActive' BY <1>1, <2>1 DEF StillActive
    <2>3. ASSUME pc'[t] = "found", ~flickered[t] PROVE throughout[t] \subseteq Found(t)
      <3>1. CASE pc[t] = "recheck" BY <2>1, <2>3, <3>1 DEF ScanInv, Steady
      <3>2. CASE pc[t] = "visit" /\ slot[t] > last[t]
        <4>1. ASSUME NEW c \in throughout[t] \ Found(t) PROVE FALSE
          <5>1. PICK i \in Ahead(t) : active[i] = c BY <3>2, <4>1 DEF ScanInv
          <5>2. i \in Occupied /\ i >= slot[t] /\ i \in Nat BY <1>2 DEF Ahead
          <5>3. i > last[t] BY <1>0, <3>2, <5>2
          <5>. QED BY <3>2, <4>1, <5>1, <5>2, <5>3 DEF ScanInv
        <4>. QED BY <4>1
      <3>. QED BY <2>1, <3>1, <3>2
    <2>4. Found(t)' = Found(t) BY <2>1 DEF Found
    <2>. QED BY <2>1, <2>2, <2>3, <2>4 DEF ScanInv
  <1>6. CASE VisitSlot(t)
    <2>1. /\ pc[t] = "visit" /\ slot[t] <= last[t] /\ slot'[t] = slot[t] + 1
          /\ UNCHANGED <<num_ctx, last, throughout, flickered>>
          /\ pc'[t] = (IF Len(data'[t]) = num_ctx[t] THEN "recheck" ELSE "visit")
          /\ \A u \in Threads : u # t => pc'[u] = pc[u] /\ slot'[u] = slot[u]
      BY <1>0, <1>6 DEF VisitSlot, TypeOK
    <2>2. slot[t] \in Slots /\ Slots \subseteq Nat /\ slot[t] # 0
      <3>1. slot[t] # 0 /\ last[t] <= Len(active) BY <2>1 DEF Inv, TypeInv, StepInv
      <3>. QED BY <1>0, <1>2, <2>1, <3>1 DEF Slots
    <2>3. Publishing' = Publishing /\ t \notin Publishing BY <2>1 DEF Publishing
    <2>4. Ahead(t)' = Ahead(t) \ {slot[t]}
      <3>1. ASSUME NEW i \in Occupied
            PROVE  i >= slot[t] + 1 <=> i >= slot[t] /\ i # slot[t]
        <4>1. i \in Nat /\ slot[t] \in Nat BY <1>0, <1>2
        <4>2. \A n, m \in Nat : n >= m + 1 <=> n >= m /\ n # m OBVIOUS
        <4>. QED BY <4>1, <4>2
      <3>. QED BY <1>1, <2>1, <3>1 DEF Ahead
    <2>5. /\ Cardinality(Ahead(t)) \in Nat /\ IsFiniteSet(Ahead(t))
          /\ Cardinality(Ahead(t)') \in Nat /\ IsFiniteSet(Ahead(t)')
      BY <1>0, <2>4, AheadFinite, FS_Subset, FS_CardinalityType
    <2>6. /\ active[slot[t]] # NoContext => Found(t)' = Found(t) \cup {active[slot[t]]}
          /\ active[slot[t]] = NoContext => Found(t)' = Found(t)
          /\ Len(data'[t]) \in Nat
          /\ Len(data'[t]) + Cardinality(Ahead(t)') <= Len(data[t]) + Cardinality(Ahead(t))
      <3>1. CASE active[slot[t]] = NoContext
        <4>1. slot[t] \notin Ahead(t) BY <3>1 DEF Ahead, Occupied
        <4>2. Ahead(t)' = Ahead(t) BY <2>4, <4>1
        <4>3. data'[t] = data[t] BY <1>0, <1>6, <3>1 DEF VisitSlot, TypeOK
        <4>. QED BY <1>0, <2>5, <3>1, <4>2, <4>3 DEF Found
      <3>2. CASE active[slot[t]] # NoContext
        <4>1. slot[t] \in Ahead(t) BY <1>0, <2>2, <3>2 DEF Ahead, Occupied
        <4>2. Cardinality(Ahead(t)') = Cardinality(Ahead(t)) - 1
          BY <2>4, <2>5, <4>1, FS_RemoveElement
        <4>3. data'[t] = Append(data[t], active[slot[t]]) BY <1>0, <1>6, <3>2 DEF VisitSlot, TypeOK
        <4>4. active[slot[t]] \in ContextIds BY <1>0, <2>2, <3>2 DEF Slots, Pointer
        <4>5. Found(t)' = Found(t) \cup {active[slot[t]]}
          <5>. DEFINE n == Len(data[t])
          <5>1. n \in Nat /\ DOMAIN data[t] = 1 .. n BY <1>0
          <5>2. /\ DOMAIN data'[t] = DOMAIN data[t] \cup {n + 1}
                /\ data'[t][n + 1] = active[slot[t]]
                /\ \A i \in DOMAIN data[t] : data'[t][i] = data[t][i]
            BY <1>0, <4>3, <4>4, <5>1
          <5>. HIDE DEF n
          <5>. QED BY <5>2 DEF Found
        <4>6. Len(data'[t]) = Len(data[t]) + 1 BY <1>0, <4>3, <4>4
        <4>. QED BY <1>0, <2>5, <3>2, <4>2, <4>5, <4>6
      <3>. QED BY <3>1, <3>2
    <2>7. ASSUME NEW c \in throughout[t] \ Found(t)' PROVE \E i \in Ahead(t)' : active[i] = c
      <3>1. c \notin Found(t) BY <2>6, <2>7
      <3>2. PICK i \in Ahead(t) : active[i] = c BY <2>1, <2>7, <3>1 DEF ScanInv
      <3>3. i # slot[t]
        <4>1. active[i] # NoContext BY DEF Ahead, Occupied
        <4>. QED BY <2>6, <2>7, <3>2, <4>1
      <3>. QED BY <2>4, <3>2, <3>3
    <2>8. Steady(t)' => Len(data'[t]) + Cardinality(Ahead(t)') + Cardinality(Publishing') <= num_ctx[t]
      <3>1. Steady(t)' => Len(data[t]) + Cardinality(Ahead(t)) + Cardinality(Publishing) <= num_ctx[t]
        BY <1>1, <2>1 DEF ScanInv, Steady
      <3>2. PICK a \in Nat, b \in Nat, l \in Nat, m \in Nat, p \in Nat, n \in Nat :
              /\ a = Cardinality(Ahead(t)) /\ b = Cardinality(Ahead(t)') /\ l = Len(data'[t])
              /\ m = Len(data[t]) /\ p = Cardinality(Publishing) /\ n = num_ctx[t]
        BY <1>0, <1>2, <2>5, <2>6
      <3>3. l + b <= m + a BY <2>6, <3>2
      <3>4. Steady(t)' => m + a + p <= n BY <3>1, <3>2
      <3>5. Steady(t)' => l + b + p <= n BY <3>3, <3>4
      <3>. QED BY <2>3, <3>2, <3>5
    <2>9. StillActive' BY <1>1, <2>1 DEF StillActive
    <2>10. CASE pc'[t] = "visit"
      <3>1. \A u \in Publishing' : slot'[u] > last[t] => ctx[u] \notin throughout[t]
        BY <2>1, <2>3 DEF ScanInv, Publishing
      <3>2. \A i \in Occupied : i > last[t] => active[i] \notin throughout[t]
        BY <2>1 DEF ScanInv
      <3>. QED BY <1>1, <2>1, <2>7, <2>8, <2>9, <2>10, <3>1, <3>2 DEF ScanInv
    <2>11. CASE pc'[t] = "recheck"
      <3>1. Len(data'[t]) = num_ctx[t] BY <2>1, <2>11
      <3>2. Steady(t)' => Cardinality(Ahead(t)') = 0 BY <1>0, <1>2, <2>3, <2>5, <2>8, <3>1
      <3>3. Steady(t)' => Ahead(t)' = {} BY <2>5, <3>2, FS_EmptySet
      <3>4. Steady(t)' => throughout[t] \subseteq Found(t)' BY <2>7, <3>3
      <3>. QED BY <2>1, <2>9, <2>11, <3>4 DEF ScanInv
    <2>. QED BY <2>1, <2>10, <2>11
  <1>. QED BY <1>3, <1>4, <1>5, <1>6 DEF Iterate

\* What a step of another thread leaves alone.
LEMMA ScanWaits ==
  ASSUME TypeOK, NEW t \in Threads, NEW u \in Threads, u # t,
         \/ Read(u) \/ Call(u) \/ StartSteps(u) \/ StopSteps(u) \/ FinalizeBegin(u) \/ FinalizeSteps(u)
  PROVE  Waits(t)
  <1>1. CASE Read(u) \/ StopSteps(u) \/ FinalizeBegin(u) \/ FinalizeSteps(u) \/ Iterate(u)
    BY <1>1, OthersKeep DEF Waits
  <1>2. CASE Call(u)
    BY <1>2 DEF Call, StartCall, StopCall, Goto, readVars, TypeOK, Waits
  <1>3. CASE ClaimSlot(u)
    <2>1. slot'[t] = slot[t]
      BY <1>3 DEF ClaimSlot, TakeSlot, TypeOK
    <2>. QED BY <1>3, <2>1 DEF ClaimSlot, Goto, TypeOK, Waits
  <1>4. CASE StartSteps(u) /\ ~ClaimSlot(u) /\ ~Iterate(u)
    BY <1>4 DEF StartSteps, AlreadyActive, RefuseConflict, NoneActive, FoundWhileSearching, Publish,
                PublishFails, NotStarted, StartServices, Return, Goto, readVars, TypeOK, Waits
  <1>. QED BY <1>1, <1>2, <1>3, <1>4

\* Steps that leave the array alone, other than those of the lookup itself.
StillSteps(u) ==
  \/ Call(u) \/ ReadCall(u) \/ ReadReturns(u) \/ AlreadyActive(u) \/ RefuseConflict(u)
  \/ NoneActive(u) \/ FoundWhileSearching(u) \/ PublishFails(u) \/ NotStarted(u)
  \/ StartServices(u) \/ StopNotFound(u) \/ StopCounts(u) \/ StopServices(u)
  \/ FinalizeBegin(u) \/ StopClientContext(u) \/ DeactivateBegin(u) \/ FinalizeEnd(u)

\* Those steps start no publication, and to another thread's lookup they do no more than
\* note a change of the count.
LEMMA StillEffect ==
  ASSUME TypeInv, StillActive, NEW u \in Threads, StillSteps(u) \/ Iterate(u)
  PROVE  /\ UNCHANGED active
         /\ \A v \in Threads : pc'[v] = "publish" =>
              pc[v] = "publish" /\ slot'[v] = slot[v] /\ ctx'[v] = ctx[v]
         /\ \A t \in Threads : (t # u \/ ~Iterate(u)) =>
              /\ throughout'[t] \subseteq throughout[t] /\ (flickered[t] => flickered'[t])
              /\ num_ctx'[t] = num_ctx[t] /\ (Reading(t) /\ Steady(t)' => Steady(t))
  <1>0. TypeOK BY DEF TypeInv
  <1>1. UNCHANGED active
    <2>1. CASE Iterate(u) BY <2>1, ReadKeeps
    <2>2. CASE StillSteps(u)
      BY <2>2 DEF StillSteps, Call, StartCall, StopCall, ReadCall, ReadReturns, AlreadyActive,
                  RefuseConflict, NoneActive, FoundWhileSearching, PublishFails, NotStarted,
                  StartServices, StopNotFound, StopCounts, StopServices, FinalizeBegin,
                  StopClientContext, DeactivateBegin, FinalizeEnd, arrayVars
    <2>. QED BY <2>1, <2>2
  <1>2. ASSUME NEW v \in Threads, pc'[v] = "publish"
        PROVE  pc[v] = "publish" /\ slot'[v] = slot[v] /\ ctx'[v] = ctx[v]
    <2>1. CASE v # u
      <3>1. pc'[v] = pc[v] /\ slot'[v] = slot[v] /\ ctx'[v] = ctx[v]
        <4>1. CASE Iterate(u) BY <1>0, <2>1, <4>1, OthersKeep
        <4>2. CASE Call(u)
          BY <1>0, <2>1, <4>2 DEF Call, StartCall, StopCall, Goto, readVars, TypeOK
        <4>3. CASE StillSteps(u) /\ ~Call(u)
          BY <1>0, <2>1, <4>3 DEF StillSteps, ReadCall, ReadReturns, AlreadyActive, RefuseConflict,
                  NoneActive, FoundWhileSearching, PublishFails, NotStarted,
                  StartServices, StopNotFound, StopCounts, StopServices, FinalizeBegin,
                  StopClientContext, DeactivateBegin, FinalizeEnd, callVars, readVars, Goto, Return, TypeOK
        <4>. QED BY <4>1, <4>2, <4>3
      <3>. QED BY <1>2, <3>1
    <2>2. CASE v = u
      BY <1>0, <1>2, <2>2 DEF StillSteps, Call, StartCall, StopCall, ReadCall, ReadReturns,
                  AlreadyActive, RefuseConflict,
                  NoneActive, FoundWhileSearching, PublishFails, NotStarted,
                  StartServices, StopNotFound, StopCounts, StopServices, FinalizeBegin,
                  StopClientContext, DeactivateBegin, FinalizeEnd, Goto, Return, AfterStop, TypeOK,
                  Iterate, ReadCount, BeginScan, VisitSlot, EndScan, Recheck
    <2>. QED BY <2>1, <2>2
  <1>3. ASSUME NEW t \in Threads, t # u \/ ~Iterate(u)
        PROVE  /\ throughout'[t] \subseteq throughout[t] /\ (flickered[t] => flickered'[t])
               /\ num_ctx'[t] = num_ctx[t] /\ (Reading(t) /\ Steady(t)' => Steady(t))
    <2>1. CASE Iterate(u)
      <3>1. /\ throughout'[t] = throughout[t] /\ flickered'[t] = flickered[t]
            /\ num_ctx'[t] = num_ctx[t] /\ num_active' = num_active
        BY <1>0, <1>3, <2>1 DEF Iterate, ReadCount, BeginScan, VisitSlot, EndScan, Recheck,
                                arrayVars, readVars, TypeOK
      <3>. QED BY <3>1 DEF Steady
    <2>2. CASE NotStarted(u) \/ StopCounts(u)
      <3>1. NoteChange /\ num_ctx' = num_ctx BY <2>2 DEF NotStarted, StopCounts, readVars
      <3>. QED BY <1>0, <3>1, SteadyBefore
    <2>3. CASE Call(u)
      <3>1. UNCHANGED <<throughout, flickered, num_ctx, num_active>>
        BY <2>3 DEF Call, StartCall, StopCall, arrayVars, readVars
      <3>. QED BY <3>1 DEF Steady
    <2>4. CASE StillSteps(u) /\ ~Call(u) /\ ~NotStarted(u) /\ ~StopCounts(u)
      <3>1. UNCHANGED <<throughout, flickered, num_ctx, num_active>>
        BY <2>4 DEF StillSteps, ReadCall, ReadReturns, AlreadyActive, RefuseConflict,
                  NoneActive, FoundWhileSearching, PublishFails,
                  StartServices, StopNotFound, StopServices, FinalizeBegin,
                  StopClientContext, DeactivateBegin, FinalizeEnd, arrayVars, readVars
      <3>. QED BY <3>1 DEF Steady
    <2>. QED BY <2>1, <2>2, <2>3, <2>4
  <1>. QED BY <1>1, <1>2, <1>3

\* Every step is one of the lookup, one that leaves the array alone, or one of four.
LEMMA StepKinds ==
  ASSUME NEW u, \/ Read(u) \/ Call(u) \/ StartSteps(u) \/ StopSteps(u) \/ FinalizeBegin(u)
                \/ FinalizeSteps(u)
  PROVE  StillSteps(u) \/ Iterate(u) \/ ClaimSlot(u) \/ Publish(u) \/ StopClears(u) \/ DeactivateSlot(u)
  BY DEF Read, StartSteps, StopSteps, FinalizeSteps, StillSteps

\* The same of a step of the system.
LEMMA NextKinds ==
  ASSUME [Next]_vars
  PROVE  \/ UNCHANGED vars
         \/ \E u \in Threads :
              StillSteps(u) \/ Iterate(u) \/ ClaimSlot(u) \/ Publish(u) \/ StopClears(u)
              \/ DeactivateSlot(u)
  <1>1. \A u : Read(u) \/ Call(u) \/ StartSteps(u) \/ StopSteps(u) \/ FinalizeBegin(u)
               \/ FinalizeSteps(u) =>
          StillSteps(u) \/ Iterate(u) \/ ClaimSlot(u) \/ Publish(u) \/ StopClears(u)
          \/ DeactivateSlot(u)
    BY StepKinds
  <1>. QED BY <1>1 DEF Next, Finished, Threads

\* What was active all along is active.
LEMMA StillActiveStep ==
  ASSUME Inv, StillActive, [Next]_vars
  PROVE  StillActive'
  <1>0. TypeOK /\ TypeInv BY DEF Inv, TypeInv
  <1>1. ASSUME UNCHANGED active, \A t \in Threads : throughout'[t] \subseteq throughout[t] \cup Active
        PROVE  StillActive'
    <2>1. Active' = Active BY <1>1 DEF Active, Occupied, Slots
    <2>. QED BY <1>1, <2>1 DEF StillActive
  <1>2. ASSUME NoteChange PROVE StillActive'
    BY <1>2 DEF NoteChange, StillActive
  <1>3. ASSUME NEW u \in Threads, Iterate(u) PROVE StillActive'
    <2>1. \A t \in Threads : throughout'[t] \subseteq throughout[t] \cup Active
      BY <1>0, <1>3 DEF Iterate, ReadCount, BeginScan, VisitSlot, EndScan, Recheck, TypeOK
    <2>. QED BY <1>1, <1>3, <2>1, ReadKeeps
  <1>4. ASSUME NEW u \in Threads, StillSteps(u) PROVE StillActive'
    <2>1. CASE Iterate(u) BY <1>3, <2>1
    <2>2. CASE ~Iterate(u)
      <3>1. UNCHANGED active /\ \A t \in Threads : throughout'[t] \subseteq throughout[t]
        BY <1>0, <1>4, <2>2, StillEffect
      <3>. QED BY <1>1, <3>1
    <2>. QED BY <2>1, <2>2
  <1>5. ASSUME NEW u \in Threads, ClaimSlot(u) \/ StopClears(u) \/ DeactivateSlot(u)
        PROVE  StillActive'
    <2>1. NoteChange BY <1>5 DEF ClaimSlot, StopClears, DeactivateSlot
    <2>. QED BY <1>2, <2>1
  <1>6. ASSUME NEW u \in Threads, Publish(u) PROVE StillActive'
    <2>1. Active \subseteq Active' BY <1>0, <1>6, PublishAdds
    <2>2. throughout' = throughout BY <1>6 DEF Publish
    <2>. QED BY <2>1, <2>2 DEF StillActive
  <1>7. CASE UNCHANGED vars
    BY <1>1, <1>7 DEF vars, arrayVars
  <1>. QED BY <1>3, <1>4, <1>5, <1>6, <1>7, NextKinds

\* A step of another thread leaves a lookup sound.
LEMMA ScanOthers ==
  ASSUME LookupInv, Fits, NEW t \in Threads, NEW u \in Threads, u # t,
         StillSteps(u) \/ Iterate(u) \/ ClaimSlot(u) \/ Publish(u) \/ StopClears(u) \/ DeactivateSlot(u),
         Waits(t)
  PROVE  ScanInv(t)'
  <1>0. /\ TypeOK /\ TypeInv /\ ScanInv(t) /\ StillActive /\ OpInv /\ NoneFound \notin Slots
        /\ fini_status = 0
    BY DEF LookupInv, SoloInv, Inv, TypeInv, Fits
  <1>1. CASE StillSteps(u) \/ Iterate(u)
    <2>1. /\ UNCHANGED active
          /\ \A v \in Threads : pc'[v] = "publish" =>
               pc[v] = "publish" /\ slot'[v] = slot[v] /\ ctx'[v] = ctx[v]
          /\ throughout'[t] \subseteq throughout[t] /\ (flickered[t] => flickered'[t])
          /\ (Reading(t) /\ Steady(t)' => Steady(t))
      BY <1>0, <1>1, StillEffect
    <2>. QED BY <1>0, <2>1, ScanStill
  <1>2. CASE ClaimSlot(u) BY <1>0, <1>2, ScanClaim
  <1>3. CASE Publish(u) BY <1>0, <1>3, ScanPublish
  <1>4. CASE StopClears(u) BY <1>0, <1>4, ScanClear
  <1>5. CASE DeactivateSlot(u) BY <1>0, <1>5 DEF DeactivateSlot, OpInv
  <1>. QED BY <1>1, <1>2, <1>3, <1>4, <1>5

\* A thread that leaves its lookup has none to be sound.
LEMMA ScanOver ==
  ASSUME TypeOK, NEW t \in Threads,
         StillSteps(t) \/ ClaimSlot(t) \/ Publish(t) \/ StopClears(t) \/ DeactivateSlot(t)
  PROVE  ScanInv(t)'
  <1>1. pc'[t] \notin {"begin", "visit", "recheck", "found"}
    BY DEF StillSteps, Call, StartCall, StopCall, ReadCall, ReadReturns, AlreadyActive, RefuseConflict,
           NoneActive, FoundWhileSearching, PublishFails, NotStarted, StartServices, StopNotFound,
           StopCounts, StopServices, FinalizeBegin, StopClientContext, DeactivateBegin, FinalizeEnd,
           ClaimSlot, Publish, StopClears, DeactivateSlot, Goto, Return, AfterStop, TypeOK
  <1>. QED BY <1>1 DEF ScanInv

\* The invariant of lookups is inductive.
LEMMA LookupNext == LookupInv /\ [Next]_vars => LookupInv'
  <1>. SUFFICES ASSUME LookupInv, [Next]_vars PROVE LookupInv'
    OBVIOUS
  <1>0. Inv /\ TypeOK /\ TypeInv /\ StillActive BY DEF LookupInv, SoloInv, Inv, TypeInv
  <1>1. SoloInv' BY SoloNext DEF LookupInv
  <1>2. StillActive' BY <1>0, StillActiveStep
  <1>3. ASSUME Fits', NEW t \in Threads PROVE ScanInv(t)'
    <2>1. Fits /\ ScanInv(t) BY <1>0, <1>3, FitsBefore DEF LookupInv
    <2>2. CASE UNCHANGED vars
      <3>1. /\ Waits(t) /\ UNCHANGED <<active, pc, slot, ctx, throughout, flickered>>
            /\ (Steady(t)' => Steady(t))
        BY <2>2 DEF vars, arrayVars, callVars, readVars, Waits, Steady
      <3>. QED BY <1>0, <2>1, <3>1, ScanStill
    <2>3. ASSUME NEW u \in Threads, u # t,
                 \/ Read(u) \/ Call(u) \/ StartSteps(u) \/ StopSteps(u) \/ FinalizeBegin(u)
                 \/ FinalizeSteps(u)
          PROVE  ScanInv(t)'
      <3>1. Waits(t) BY <1>0, <2>3, ScanWaits
      <3>2. StillSteps(u) \/ Iterate(u) \/ ClaimSlot(u) \/ Publish(u) \/ StopClears(u) \/ DeactivateSlot(u)
        BY <2>3, StepKinds
      <3>. QED BY <2>1, <2>3, <3>1, <3>2, ScanOthers
    <2>4. ASSUME \/ Read(t) \/ Call(t) \/ StartSteps(t) \/ StopSteps(t) \/ FinalizeBegin(t)
                 \/ FinalizeSteps(t)
          PROVE  ScanInv(t)'
      <3>1. CASE Iterate(t) BY <1>0, <2>1, <3>1, ScanOwn
      <3>2. CASE ~Iterate(t) BY <1>0, <2>4, <3>2, StepKinds, ScanOver
      <3>. QED BY <3>1, <3>2
    <2>. QED BY <2>2, <2>3, <2>4 DEF Next, Finished, Threads
  <1>. QED BY <1>1, <1>2, <1>3 DEF LookupInv

\* Initially nobody looks up.
LEMMA LookupInit == Init => LookupInv
  <1>. SUFFICES ASSUME Init PROVE LookupInv
    OBVIOUS
  <1>1. \A t \in Threads : pc[t] = "idle" /\ throughout[t] = {} BY DEF Init
  <1>. QED BY <1>1, SoloInit DEF LookupInv, StillActive, ScanInv

\* get_active_contexts, before finalization and while no slot has the index that stands
\* for "none found": a lookup finds every context that was active from its start to its
\* end, unless the count left the value it read and came back to it.  For any number of
\* threads that start, stop and look up.
THEOREM LookupsFindAll == Spec => [](Fits => LookupsComplete)
  <1>1. LookupInv => (Fits => LookupsComplete)
    BY DEF LookupInv, ScanInv, LookupsComplete
  <1>. QED BY <1>1, LookupInit, LookupNext, PTL DEF Spec
=============================================================================
