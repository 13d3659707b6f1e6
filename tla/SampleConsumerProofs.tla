------------------------ MODULE SampleConsumerProofs ------------------------
(***************************************************************************)
(* Theorems about SampleConsumer, for any number of completion handlers    *)
(* and controllers and any size of the ring: its types and bounds, that    *)
(* only a start during a wait of exit terminates the program, that         *)
(* stopping loses no sample, and that the ring is a queue: the samples are *)
(* consumed in the order in which they were published.                     *)
(***************************************************************************)
EXTENDS SampleConsumer, TLAPS, SequenceTheorems

\* What a thread is at, and what it holds there.
CallInv ==
  /\ \A t \in Threads : pc[t] \in {"publish", "consume", "join"} => mut = t
  /\ \A t \in Adders : pc[t] \notin {"wait", "join"}
  /\ \A t \in Adders : pc[t] = "consume" => calls[t] \in 1 .. MaxSamples
  /\ \A t, u \in Exiting : t = u

\* A slot is free while it is filled; the consumer thread takes filled ones only.
RingInv ==
  /\ \A t \in Threads : pc[t] = "publish" => write_ptr < read_ptr + SIZE
  /\ consumer \in {"take", "advance"} => read_ptr < write_ptr

\* How the flags follow the life of the consumer thread.
Gone == {"none", "ended"}
LifeInv ==
  /\ joinable => consumer # "none"
  /\ ~joinable => consumer \in Gone
  /\ exited <=> consumer \in Gone
  /\ valid => joinable /\ ~exited
  /\ joinable /\ ~valid => \E t \in Controllers : pc[t] \in {"wait", "join"}

Inv == TypeOK /\ CallInv /\ RingInv /\ LifeInv /\ OnlyOverlapTerminates

LEMMA InvInit == Init => Inv
  <1>. SUFFICES ASSUME Init PROVE Inv
    OBVIOUS
  <1>1. write_ptr \in read_ptr .. read_ptr + SIZE /\ read_ptr \in Nat
    BY ConsumerAssumption DEF Init
  <1>2. buffer \in [0 .. SIZE - 1 -> Samples \cup {NoSample}]
        /\ consumed \in [Samples \cup {NoSample} -> Nat]
    BY DEF Init
  <1>3. TypeOK BY <1>1, <1>2 DEF Init, TypeOK, Steps, ConsumerSteps
  <1>4. CallInv /\ RingInv /\ LifeInv /\ OnlyOverlapTerminates
    BY DEF Init, CallInv, RingInv, LifeInv, OnlyOverlapTerminates, Exiting, Gone, Threads
  <1>. QED BY <1>3, <1>4 DEF Inv

LEMMA SlotInRing ==
  ASSUME NEW p \in Nat
  PROVE  Slot(p) \in 0 .. SIZE - 1
  BY ConsumerAssumption DEF Slot

(***************************************************************************)
(* add                                                                     *)
(***************************************************************************)
LEMMA AddKeepsInv ==
  ASSUME Inv, ~aborted, NEW t \in Adders, Add(t)
  PROVE  Inv'
  <1>. USE ConsumerAssumption DEF Inv
  <1>0. t \in Threads /\ ~(t \in Controllers) BY DEF Threads
  <1>1. CASE AddStores(t)
    <2>1. calls' \in [Threads -> Nat] /\ <<t, calls'[t]>> \in Samples
      BY <1>0, <1>1 DEF AddStores, Call, TypeOK, Samples
    <2>2. buffer' \in [0 .. SIZE - 1 -> Samples \cup {NoSample}]
      BY <1>1, <2>1 DEF AddStores, TypeOK
    <2>3. pc' = [pc EXCEPT ![t] = "publish"] /\ pc[t] = "idle" /\ mut = NoThread /\ mut' = t
      BY <1>1 DEF AddStores, Goto, Lock
    <2>4. TypeOK'
      BY <1>0, <1>1, <2>1, <2>2, <2>3 DEF AddStores, TypeOK, Steps, stateVars, threadVars
    <2>5. CallInv'
      BY <1>0, <1>1, <2>3 DEF AddStores, Call, TypeOK, CallInv, Exiting, Threads
    <2>6. RingInv'
      BY <1>0, <1>1, <2>3 DEF AddStores, CannotStore, TypeOK, RingInv, CallInv, threadVars
    <2>7. LifeInv'
      BY <1>0, <1>1, <2>3 DEF AddStores, TypeOK, LifeInv, stateVars, threadVars
    <2>. QED BY <1>1, <2>4, <2>5, <2>6, <2>7 DEF AddStores, OnlyOverlapTerminates
  <1>2. CASE AddPublishes(t)
    <2>1. pc' = [pc EXCEPT ![t] = "idle"] /\ pc[t] = "publish" /\ mut = t /\ mut' = NoThread
      BY <1>0, <1>2 DEF AddPublishes, Goto, Unlock, CallInv
    <2>2. TypeOK'
      BY <1>0, <1>2, <2>1 DEF AddPublishes, TypeOK, RingInv, Steps, stateVars, threadVars
    <2>3. CallInv'
      BY <1>0, <1>2, <2>1 DEF AddPublishes, TypeOK, CallInv, Exiting, Threads
    <2>4. RingInv'
      BY <1>0, <1>2, <2>1 DEF AddPublishes, TypeOK, RingInv, CallInv, threadVars
    <2>5. LifeInv'
      BY <1>0, <1>2, <2>1 DEF AddPublishes, TypeOK, LifeInv, stateVars, threadVars
    <2>. QED BY <1>2, <2>2, <2>3, <2>4, <2>5 DEF AddPublishes, OnlyOverlapTerminates
  <1>3. CASE AddDirectly(t)
    <2>1. pc' = [pc EXCEPT ![t] = "consume"] /\ pc[t] = "idle" /\ mut = NoThread /\ mut' = t
      BY <1>3 DEF AddDirectly, Goto, Lock
    <2>2. TypeOK'
      BY <1>0, <1>3, <2>1 DEF AddDirectly, Call, TypeOK, Steps, ringVars, stateVars, threadVars
    <2>3. CallInv'
      BY <1>0, <1>3, <2>1 DEF AddDirectly, Call, TypeOK, CallInv, Exiting, Threads
    <2>4. RingInv'
      BY <1>0, <1>3, <2>1 DEF AddDirectly, TypeOK, RingInv, ringVars, threadVars
    <2>5. LifeInv'
      BY <1>0, <1>3, <2>1 DEF AddDirectly, TypeOK, LifeInv, stateVars, threadVars
    <2>. QED BY <1>3, <2>2, <2>3, <2>4, <2>5 DEF AddDirectly, OnlyOverlapTerminates
  <1>4. CASE AddConsumes(t)
    <2>1. pc' = [pc EXCEPT ![t] = "idle"] /\ pc[t] = "consume" /\ mut = t /\ mut' = NoThread
      BY <1>0, <1>4 DEF AddConsumes, Goto, Unlock, CallInv
    <2>2. Current(t) \in Samples
      BY <2>1 DEF Current, CallInv, Samples
    <2>3. TypeOK'
      BY <1>0, <1>4, <2>1, <2>2
         DEF AddConsumes, Count, TypeOK, Steps, ringVars, stateVars, threadVars
    <2>4. CallInv'
      BY <1>0, <1>4, <2>1 DEF AddConsumes, TypeOK, CallInv, Exiting, Threads
    <2>5. RingInv'
      BY <1>0, <1>4, <2>1 DEF AddConsumes, TypeOK, RingInv, ringVars, threadVars
    <2>6. LifeInv'
      BY <1>0, <1>4, <2>1 DEF AddConsumes, TypeOK, LifeInv, stateVars, threadVars
    <2>. QED BY <1>4, <2>3, <2>4, <2>5, <2>6 DEF AddConsumes, OnlyOverlapTerminates
  <1>. QED BY <1>1, <1>2, <1>3, <1>4 DEF Add

(***************************************************************************)
(* start and exit                                                          *)
(***************************************************************************)
LEMMA StartKeepsInv ==
  ASSUME Inv, ~aborted, NEW t \in Controllers, Start(t)
  PROVE  Inv'
  <1>. USE ConsumerAssumption DEF Inv
  <1>0. t \in Threads /\ t \notin Adders /\ pc' = pc /\ mut' = mut /\ mut = NoThread
    BY DEF Threads, Start, StartFindsValid, StartSpawns, StartTerminates
  <1>1. calls' \in [Threads -> Nat] /\ \A u \in Adders : calls'[u] = calls[u]
    BY <1>0 DEF Start, StartFindsValid, StartSpawns, StartTerminates, Call, TypeOK, Threads
  <1>2. CallInv'
    BY <1>0, <1>1 DEF CallInv, Exiting
  <1>3. CASE StartFindsValid(t)
    <2>1. TypeOK' /\ RingInv' /\ LifeInv' /\ OnlyOverlapTerminates'
      BY <1>0, <1>1, <1>3 DEF StartFindsValid, TypeOK, RingInv, LifeInv, OnlyOverlapTerminates,
         ringVars, stateVars, threadVars
    <2>. QED BY <1>2, <2>1
  <1>4. CASE StartSpawns(t)
    <2>1. TypeOK'
      BY <1>0, <1>1, <1>4 DEF StartSpawns, TypeOK, ConsumerSteps, ringVars
    <2>2. RingInv' /\ LifeInv' /\ OnlyOverlapTerminates'
      BY <1>0, <1>4 DEF StartSpawns, RingInv, LifeInv, Gone, OnlyOverlapTerminates, ringVars
    <2>. QED BY <1>2, <2>1, <2>2
  <1>5. CASE StartTerminates(t)
    <2>1. PICK u \in Controllers : pc[u] \in {"wait", "join"}
      BY <1>5 DEF StartTerminates, LifeInv
    <2>2. pc[u] # "join"
      BY <1>0, <2>1 DEF CallInv, Threads
    <2>3. OnlyOverlapTerminates'
      BY <1>0, <2>1, <2>2 DEF OnlyOverlapTerminates
    <2>4. TypeOK' /\ RingInv' /\ LifeInv'
      BY <1>0, <1>1, <1>5 DEF StartTerminates, TypeOK, RingInv, LifeInv,
         ringVars, stateVars, threadVars
    <2>. QED BY <1>2, <2>3, <2>4
  <1>. QED BY <1>3, <1>4, <1>5 DEF Start

LEMMA ExitCallKeepsInv ==
  ASSUME Inv, ~aborted, NEW t \in Controllers, ExitCall(t)
  PROVE  Inv'
  <1>. USE ConsumerAssumption DEF Inv
  <1>. DEFINE next == IF exited THEN "join" ELSE "wait"
  <1>1. t \in Threads /\ t \notin Adders /\ pc[t] = "idle" /\ pc' = [pc EXCEPT ![t] = next]
        /\ mut = NoThread /\ mut' = (IF exited THEN t ELSE NoThread) /\ ~valid'
    BY DEF Threads, ExitCall, Goto
  <1>2. calls' \in [Threads -> Nat] /\ \A u \in Adders : calls'[u] = calls[u]
    BY <1>1 DEF ExitCall, Call, TypeOK, Threads
  <1>3. TypeOK'
    BY <1>1, <1>2 DEF ExitCall, TypeOK, Steps, ringVars, threadVars
  <1>4. CallInv'
    <2>1. \A u \in Threads : u # t => pc'[u] = pc[u] /\ pc[u] \notin {"publish", "consume", "join"}
      BY <1>1 DEF TypeOK, CallInv
    <2>2. pc'[t] = next BY <1>1 DEF TypeOK
    <2>3. Exiting' = {t}
      BY <1>1, <2>1, <2>2 DEF ExitCall, Exiting, Threads
    <2>4. \A u \in Adders : pc'[u] = pc[u] BY <1>1, <2>1 DEF Threads
    <2>. QED BY <1>1, <1>2, <2>1, <2>2, <2>3, <2>4 DEF CallInv
  <1>5. RingInv'
    BY <1>1 DEF ExitCall, TypeOK, RingInv, ringVars, threadVars
  <1>6. LifeInv'
    BY <1>1 DEF ExitCall, TypeOK, LifeInv, threadVars
  <1>. QED BY <1>3, <1>4, <1>5, <1>6 DEF ExitCall, OnlyOverlapTerminates

LEMMA ExitKeepsInv ==
  ASSUME Inv, ~aborted, NEW t \in Controllers, Exit(t)
  PROVE  Inv'
  <1>. USE ConsumerAssumption DEF Inv
  <1>0. t \in Threads /\ t \notin Adders BY DEF Threads
  <1>1. CASE ExitWakes(t)
    <2>1. pc' = [pc EXCEPT ![t] = "join"] /\ pc[t] = "wait" /\ mut = NoThread /\ mut' = t
      BY <1>1 DEF ExitWakes, Goto, Lock
    <2>2. TypeOK'
      BY <1>0, <1>1, <2>1 DEF ExitWakes, TypeOK, Steps, ringVars, stateVars, threadVars
    <2>3. CallInv'
      BY <1>0, <1>1, <2>1 DEF ExitWakes, TypeOK, CallInv, Exiting, Threads
    <2>4. RingInv' /\ LifeInv'
      BY <1>0, <1>1, <2>1 DEF ExitWakes, TypeOK, RingInv, LifeInv, ringVars, stateVars, threadVars
    <2>. QED BY <1>1, <2>2, <2>3, <2>4 DEF ExitWakes, OnlyOverlapTerminates
  <1>2. CASE ExitJoins(t)
    <2>1. pc' = [pc EXCEPT ![t] = "idle"] /\ pc[t] = "join" /\ mut = t /\ mut' = NoThread
      BY <1>0, <1>2 DEF ExitJoins, Goto, Unlock, CallInv
    <2>2. TypeOK'
      BY <1>0, <1>2, <2>1 DEF ExitJoins, TypeOK, Steps, ringVars, threadVars
    <2>3. CallInv'
      BY <1>0, <1>2, <2>1 DEF ExitJoins, TypeOK, CallInv, Exiting, Threads
    <2>4. RingInv'
      BY <1>0, <1>2, <2>1 DEF ExitJoins, TypeOK, RingInv, ringVars, threadVars
    <2>5. LifeInv'
      BY <1>2 DEF ExitJoins, LifeInv, Gone, threadVars
    <2>. QED BY <1>2, <2>2, <2>3, <2>4, <2>5 DEF ExitJoins, OnlyOverlapTerminates
  <1>. QED BY <1>1, <1>2 DEF Exit

(***************************************************************************)
(* consumer_loop                                                           *)
(***************************************************************************)
LEMMA ConsumerKeepsInv ==
  ASSUME Inv, ~aborted, Consumer
  PROVE  Inv'
  <1>. USE ConsumerAssumption DEF Inv
  <1>0. UNCHANGED <<pc, calls, mut, aborted, write_ptr, valid, joinable>>
    BY DEF Consumer, LookForSample, WaitForSample, WaitEnds, TakeSample, Advance, ConsumeSample,
       ringVars, stateVars
  <1>1. CallInv' /\ OnlyOverlapTerminates'
    BY <1>0 DEF CallInv, OnlyOverlapTerminates, Exiting
  <1>2. CASE LookForSample
    <2>1. consumer = "loop" /\ consumer' = (IF Empty THEN "wait" ELSE "take")
      BY <1>2 DEF LookForSample, ConsumerGoto
    <2>2. TypeOK' /\ RingInv' /\ LifeInv'
      BY <1>0, <1>2, <2>1 DEF LookForSample, Empty, TypeOK, ConsumerSteps, RingInv, LifeInv, Gone,
         ringVars, stateVars
    <2>. QED BY <1>1, <2>2
  <1>3. CASE WaitForSample
    <2>1. TypeOK' /\ RingInv' /\ LifeInv'
      BY <1>0, <1>3 DEF WaitForSample, ConsumerGoto, TypeOK, ConsumerSteps, RingInv, LifeInv, Gone,
         ringVars, stateVars
    <2>. QED BY <1>1, <2>1
  <1>4. CASE WaitEnds
    <2>1. TypeOK' /\ RingInv' /\ LifeInv'
      BY <1>0, <1>4 DEF WaitEnds, ConsumerGoto, TypeOK, ConsumerSteps, RingInv, LifeInv, Gone,
         ringVars
    <2>. QED BY <1>1, <2>1
  <1>5. CASE TakeSample
    <2>1. Slot(read_ptr) \in 0 .. SIZE - 1 BY SlotInRing DEF TypeOK
    <2>2. retrieved' \in Samples \cup {NoSample}
          /\ buffer' \in [0 .. SIZE - 1 -> Samples \cup {NoSample}]
      BY <1>5, <2>1 DEF TakeSample, TypeOK
    <2>3. TypeOK' /\ RingInv' /\ LifeInv'
      BY <1>0, <1>5, <2>2 DEF TakeSample, ConsumerGoto, TypeOK, ConsumerSteps, RingInv, LifeInv,
         Gone, stateVars
    <2>. QED BY <1>1, <2>3
  <1>6. CASE Advance
    <2>1. TypeOK' /\ RingInv' /\ LifeInv'
      BY <1>0, <1>6 DEF Advance, ConsumerGoto, TypeOK, ConsumerSteps, RingInv, LifeInv, Gone,
         stateVars
    <2>. QED BY <1>1, <2>1
  <1>7. CASE ConsumeSample
    <2>1. consumed' \in [Samples \cup {NoSample} -> Nat]
      BY <1>7 DEF ConsumeSample, Count, TypeOK
    <2>2. TypeOK' /\ RingInv' /\ LifeInv'
      BY <1>0, <1>7, <2>1 DEF ConsumeSample, ConsumerGoto, TypeOK, ConsumerSteps, RingInv, LifeInv,
         Gone, ringVars, stateVars
    <2>. QED BY <1>1, <2>2
  <1>. QED BY <1>2, <1>3, <1>4, <1>5, <1>6, <1>7 DEF Consumer

(***************************************************************************)
(* The theorems                                                            *)
(***************************************************************************)
LEMMA InvNext == Inv /\ [Next]_vars => Inv'
  <1>. SUFFICES ASSUME Inv, [Next]_vars PROVE Inv'
    OBVIOUS
  <1>1. CASE UNCHANGED vars
    BY <1>1 DEF Inv, vars, ringVars, stateVars, threadVars, TypeOK, CallInv, RingInv, LifeInv,
       OnlyOverlapTerminates, Exiting
  <1>2. CASE Next
    BY <1>1, <1>2, AddKeepsInv, StartKeepsInv, ExitCallKeepsInv, ExitKeepsInv, ConsumerKeepsInv
       DEF Next, Finished
  <1>. QED BY <1>1, <1>2

LEMMA InvHolds == Spec => []Inv
  BY InvInit, InvNext, PTL DEF Spec

\* The variables keep their types, and the pointers their distance: whatever the
\* number of handlers, write_ptr is never behind read_ptr nor more than the ring
\* ahead of it, although the consumer thread moves read_ptr without the mutex.
THEOREM TypeCorrect == Spec => []TypeOK
  <1>1. Inv => TypeOK BY DEF Inv
  <1>. QED BY <1>1, InvHolds, PTL

\* The consumer thread can be started again after every exit: only a start that
\* finds another thread waiting inside exit assigns to a joinable std::thread.
THEOREM Restartable == Spec => []OnlyOverlapTerminates
  <1>1. Inv => OnlyOverlapTerminates BY DEF Inv
  <1>. QED BY <1>1, InvHolds, PTL

(***************************************************************************)
(* Where every sample is.  Filled are the positions of the ring that hold  *)
(* one; a sample whose add has begun is consumed, or in the hands of its   *)
(* handler or of the consumer thread, or at one of these positions.        *)
(***************************************************************************)
First == IF consumer = "advance" THEN read_ptr + 1 ELSE read_ptr
Publishing == \E t \in Threads : pc[t] = "publish"
Filled == First .. (IF Publishing THEN write_ptr ELSE write_ptr - 1)
At(p) == buffer[Slot(p)]
Begun(s) == s[2] <= calls[s[1]]
Direct(s) == pc[s[1]] = "consume" /\ calls[s[1]] = s[2]
Waiting(s) == s \in Samples /\ Begun(s) /\ ~Direct(s) /\ consumed[s] = 0

FlagInv ==
  /\ retrieved = NoSample <=> consumer \notin {"advance", "consume"}
  /\ exited => read_ptr = write_ptr /\ ~Publishing

PlaceInv ==
  /\ \A p \in Filled : Waiting(At(p)) /\ At(p) # retrieved
  /\ retrieved # NoSample => Waiting(retrieved)
  /\ \A p, q \in Filled : At(p) = At(q) => p = q
  /\ \A s \in Samples : Begun(s) =>
       consumed[s] = 1 \/ Direct(s) \/ s = retrieved \/ \E p \in Filled : At(p) = s
  /\ \A s \in Samples : ~Begun(s) \/ Direct(s) => consumed[s] = 0

DrainInv == Inv /\ FlagInv /\ PlaceInv

LEMMA SlotsDiffer ==
  ASSUME NEW p \in Nat, NEW q \in Nat, p < q, q < p + SIZE
  PROVE  Slot(p) # Slot(q)
  <1>1. SIZE \in Nat /\ SIZE > 0 BY ConsumerAssumption
  <1>2. p = SIZE * (p \div SIZE) + Slot(p) /\ q = SIZE * (q \div SIZE) + Slot(q)
        /\ p \div SIZE \in Int /\ q \div SIZE \in Int
    BY <1>1 DEF Slot
  <1>. DEFINE k == (q \div SIZE) - (p \div SIZE)
  <1>3. k \in Int BY <1>2
  <1>4. SUFFICES ASSUME Slot(p) = Slot(q) PROVE FALSE
    OBVIOUS
  <1>5. Slot(p) \in 0 .. SIZE - 1 BY SlotInRing
  <1>6. q - p = SIZE * k BY <1>1, <1>2, <1>4, <1>5, SMTT(30)
  <1>. HIDE DEF k
  <1>7. k <= 0 \/ k >= 1 BY <1>3
  <1>8. k >= 1 => SIZE * k >= SIZE BY <1>1, <1>3
  <1>9. k <= 0 => SIZE * k <= 0 BY <1>1, <1>3
  <1>. QED BY <1>1, <1>3, <1>6, <1>7, <1>8, <1>9

\* The positions lie within one ring of read_ptr.
LEMMA FilledInRing ==
  ASSUME Inv, NEW p \in Filled
  PROVE  p \in Nat /\ read_ptr <= p /\ p < read_ptr + SIZE /\ p <= write_ptr
  BY ConsumerAssumption DEF Inv, TypeOK, RingInv, Filled, First, Publishing

LEMMA PlacesKept ==
  ASSUME PlaceInv, Filled' = Filled, \A p \in Filled : At(p)' = At(p),
         retrieved' = retrieved, consumed' = consumed,
         \A s \in Samples : (Begun(s)' <=> Begun(s)) /\ (Direct(s)' <=> Direct(s))
  PROVE  PlaceInv'
  <1>1. \A s : Waiting(s) => Waiting(s)' BY DEF Waiting
  <1>2. \A p \in Filled' : Waiting(At(p))' /\ At(p)' # retrieved'
    <2>. SUFFICES ASSUME NEW p \in Filled PROVE Waiting(At(p))' /\ At(p)' # retrieved'
      OBVIOUS
    <2>1. Waiting(At(p)) /\ At(p) # retrieved /\ At(p)' = At(p) BY DEF PlaceInv
    <2>. QED BY <2>1 DEF Waiting
  <1>3. retrieved' # NoSample => Waiting(retrieved)' BY DEF PlaceInv, Waiting
  <1>4. \A p, q \in Filled' : At(p)' = At(q)' => p = q BY DEF PlaceInv
  <1>5. \A s \in Samples : Begun(s)' =>
          consumed'[s] = 1 \/ Direct(s)' \/ s = retrieved' \/ \E p \in Filled' : At(p)' = s
    BY DEF PlaceInv
  <1>6. \A s \in Samples : ~Begun(s)' \/ Direct(s)' => consumed'[s] = 0
    BY DEF PlaceInv
  <1>. QED BY <1>2, <1>3, <1>4, <1>5, <1>6 DEF PlaceInv

LEMMA DrainInit == Init => DrainInv
  <1>. SUFFICES ASSUME Init PROVE DrainInv
    OBVIOUS
  <1>1. Filled = {} BY DEF Init, Filled, First, Publishing
  <1>2. \A s \in Samples : ~Begun(s) BY DEF Init, Begun, Samples, Threads
  <1>3. PlaceInv BY <1>1, <1>2 DEF Init, PlaceInv
  <1>4. FlagInv BY DEF Init, FlagInv, Publishing
  <1>. QED BY <1>3, <1>4, InvInit DEF DrainInv

LEMMA AddDrains ==
  ASSUME DrainInv, ~aborted, NEW t \in Adders, Add(t)
  PROVE  FlagInv' /\ PlaceInv'
  <1>. USE ConsumerAssumption DEF DrainInv
  <1>0. t \in Threads /\ Inv /\ Inv' BY AddKeepsInv DEF Threads
  <1>1. CASE AddStores(t)
    <2>0. PICK new : new = <<t, calls[t] + 1>> OBVIOUS
    <2>1. pc' = [pc EXCEPT ![t] = "publish"] /\ pc[t] = "idle" /\ mut = NoThread
          /\ calls[t] < MaxSamples /\ calls' = [calls EXCEPT ![t] = calls[t] + 1]
          /\ buffer' = [buffer EXCEPT ![Slot(write_ptr)] = new]
          /\ write_ptr < read_ptr + SIZE /\ valid
          /\ UNCHANGED <<write_ptr, read_ptr, exited, consumer, retrieved, consumed>>
      BY <1>0, <1>1, <2>0 DEF AddStores, Goto, Lock, Call, CannotStore, stateVars, threadVars, Inv, TypeOK
    <2>2. ~Publishing /\ Publishing'
      BY <1>0, <2>1 DEF Publishing, Inv, CallInv, TypeOK
    <2>3. Filled' = Filled \cup {write_ptr} /\ write_ptr \notin Filled
      BY <1>0, <2>1, <2>2 DEF Filled, First, Inv, TypeOK, RingInv
    <2>4. new \in Samples /\ ~Begun(new) /\ Begun(new)' /\ ~Direct(new)'
      <3>1. new[1] = t /\ new[2] = calls[t] + 1 /\ calls[t] \in Nat /\ calls'[t] = calls[t] + 1
            /\ pc'[t] = "publish"
        BY <1>0, <2>0, <2>1 DEF Inv, TypeOK
      <3>2. new \in Samples BY <2>0, <2>1, <3>1 DEF Samples
      <3>. QED BY <3>1, <3>2 DEF Begun, Direct
    <2>5. \A s \in Samples : s # new => (Begun(s)' <=> Begun(s))
      BY <1>0, <2>0, <2>1 DEF Samples, Begun, Inv, TypeOK, Threads
    <2>6. \A s \in Samples : Direct(s)' <=> Direct(s)
      BY <1>0, <2>0, <2>1 DEF Samples, Direct, Inv, TypeOK, Threads
    <2>7. \A p \in Filled : At(p)' = At(p)
      <3>. SUFFICES ASSUME NEW p \in Filled PROVE At(p)' = At(p)
        OBVIOUS
      <3>1. p \in Nat /\ p < write_ptr /\ write_ptr < p + SIZE /\ write_ptr \in Nat
        BY <1>0, <2>1, <2>3, FilledInRing DEF Inv, TypeOK
      <3>2. Slot(p) # Slot(write_ptr) BY <3>1, SlotsDiffer
      <3>. QED BY <2>1, <3>2 DEF At, Slot
    <2>8. At(write_ptr)' = new
      BY <1>0, <2>1, SlotInRing DEF At, Slot, Inv, TypeOK
    <2>9. consumed[new] = 0 /\ ~Waiting(new) /\ new # NoSample /\ new # retrieved
      BY <2>4 DEF PlaceInv, Waiting
    <2>10. \A s \in Samples : Waiting(s) => Waiting(s)'
      BY <2>1, <2>5, <2>6, <2>9 DEF Waiting
    <2>11. Waiting(new)'
      BY <2>1, <2>4, <2>9 DEF Waiting
    <2>12. \A p \in Filled : Waiting(At(p)) /\ At(p) \in Samples /\ At(p) # new
      BY <2>9 DEF PlaceInv, Waiting
    <2>13. \A p \in Filled' : Waiting(At(p))' /\ At(p)' # retrieved'
      <3>. SUFFICES ASSUME NEW p \in Filled' PROVE Waiting(At(p))' /\ At(p)' # retrieved'
        OBVIOUS
      <3>1. CASE p = write_ptr BY <3>1, <2>1, <2>8, <2>9, <2>11 DEF Waiting
      <3>2. CASE p \in Filled
        <4>1. Waiting(At(p))' BY <3>2, <2>7, <2>10, <2>12 DEF Waiting
        <4>. QED BY <4>1, <3>2, <2>1, <2>7 DEF PlaceInv
      <3>. QED BY <2>3, <3>1, <3>2
    <2>14. retrieved' # NoSample => Waiting(retrieved)'
      BY <2>1, <2>10 DEF PlaceInv, Waiting
    <2>15. \A p, q \in Filled' : At(p)' = At(q)' => p = q
      <3>1. \A p \in Filled : At(p)' # At(write_ptr)'
        BY <2>7, <2>8, <2>12
      <3>2. \A p, q \in Filled : At(p)' = At(q)' => p = q
        BY <2>7 DEF PlaceInv
      <3>3. \A p : p = write_ptr => At(p)' = At(write_ptr)'
        BY <2>1 DEF At
      <3>4. \A p \in Filled' : p \in Filled \/ p = write_ptr BY <2>3
      <3>. SUFFICES ASSUME NEW p \in Filled', NEW q \in Filled', At(p)' = At(q)' PROVE p = q
        OBVIOUS
      <3>5. CASE p = write_ptr
        <4>1. q \notin Filled BY <3>1, <3>3, <3>5
        <4>. QED BY <3>4, <3>5, <4>1
      <3>6. CASE q = write_ptr
        <4>1. p \notin Filled BY <3>1, <3>3, <3>6
        <4>. QED BY <3>4, <3>6, <4>1
      <3>7. CASE p \in Filled /\ q \in Filled
        BY <3>2, <3>7
      <3>. QED BY <3>4, <3>5, <3>6, <3>7
    <2>16. \A s \in Samples : Begun(s)' =>
             consumed'[s] = 1 \/ Direct(s)' \/ s = retrieved' \/ \E p \in Filled' : At(p)' = s
      BY <2>1, <2>3, <2>5, <2>6, <2>7, <2>8 DEF PlaceInv
    <2>17. \A s \in Samples : ~Begun(s)' \/ Direct(s)' => consumed'[s] = 0
      BY <2>1, <2>4, <2>5, <2>6 DEF PlaceInv
    <2>18. PlaceInv' BY <2>13, <2>14, <2>15, <2>16, <2>17 DEF PlaceInv
    <2>19. FlagInv' BY <1>0, <2>1 DEF FlagInv, Inv, LifeInv
    <2>. QED BY <2>18, <2>19
  <1>2. CASE AddPublishes(t)
    <2>1. pc' = [pc EXCEPT ![t] = "idle"] /\ pc[t] = "publish" /\ mut = t
          /\ write_ptr' = write_ptr + 1
          /\ UNCHANGED <<buffer, read_ptr, calls, exited, consumer, retrieved, consumed>>
      BY <1>0, <1>2 DEF AddPublishes, Goto, stateVars, threadVars, Inv, CallInv
    <2>2. Publishing /\ ~Publishing'
      BY <1>0, <2>1 DEF Publishing, Inv, CallInv, TypeOK
    <2>3. Filled' = Filled
      BY <1>0, <2>1, <2>2 DEF Filled, First, Inv, TypeOK
    <2>4. \A s \in Samples : (Begun(s)' <=> Begun(s)) /\ (Direct(s)' <=> Direct(s))
      BY <1>0, <2>1 DEF Samples, Begun, Direct, Inv, TypeOK, Threads
    <2>5. \A p \in Filled : At(p)' = At(p) BY <2>1 DEF At, Slot
    <2>6. PlaceInv' BY <2>1, <2>3, <2>4, <2>5, PlacesKept
    <2>7. FlagInv' BY <2>1, <2>2 DEF FlagInv
    <2>. QED BY <2>6, <2>7
  <1>3. CASE AddDirectly(t)
    <2>0. PICK new : new = <<t, calls[t] + 1>> OBVIOUS
    <2>1. pc' = [pc EXCEPT ![t] = "consume"] /\ pc[t] = "idle"
          /\ calls[t] < MaxSamples /\ calls' = [calls EXCEPT ![t] = calls[t] + 1]
          /\ UNCHANGED <<buffer, write_ptr, read_ptr, exited, consumer, retrieved, consumed>>
      BY <1>0, <1>3 DEF AddDirectly, Goto, Call, ringVars, stateVars, threadVars, Inv, TypeOK
    <2>2. Publishing' <=> Publishing
      BY <1>0, <2>1 DEF Publishing, Inv, TypeOK
    <2>3. Filled' = Filled /\ \A p \in Filled : At(p)' = At(p)
      BY <2>1, <2>2 DEF Filled, First, At, Slot
    <2>4. new \in Samples /\ ~Begun(new) /\ Begun(new)' /\ Direct(new)'
      <3>1. new[1] = t /\ new[2] = calls[t] + 1 /\ calls[t] \in Nat /\ calls'[t] = calls[t] + 1
            /\ pc'[t] = "consume"
        BY <1>0, <2>0, <2>1 DEF Inv, TypeOK
      <3>2. new \in Samples BY <2>0, <2>1, <3>1 DEF Samples
      <3>. QED BY <3>1, <3>2 DEF Begun, Direct
    <2>5. \A s \in Samples : s # new => (Begun(s)' <=> Begun(s)) /\ (Direct(s)' <=> Direct(s))
      BY <1>0, <2>0, <2>1 DEF Samples, Begun, Direct, Inv, TypeOK, Threads
    <2>6. consumed[new] = 0 /\ ~Waiting(new) /\ new # NoSample
      BY <2>4 DEF PlaceInv, Waiting
    <2>7. \A s \in Samples : Waiting(s) => Waiting(s)'
      BY <2>1, <2>5, <2>6 DEF Waiting
    <2>8. \A p \in Filled' : Waiting(At(p))' /\ At(p)' # retrieved'
      <3>. SUFFICES ASSUME NEW p \in Filled PROVE Waiting(At(p))' /\ At(p)' # retrieved'
        BY <2>3
      <3>1. Waiting(At(p)) /\ At(p) # retrieved /\ At(p) \in Samples BY DEF PlaceInv, Waiting
      <3>. QED BY <2>1, <2>3, <2>7, <3>1 DEF Waiting
    <2>9. retrieved' # NoSample => Waiting(retrieved)'
      BY <2>1, <2>7 DEF PlaceInv, Waiting
    <2>10. \A p, q \in Filled' : At(p)' = At(q)' => p = q
      BY <2>3 DEF PlaceInv
    <2>11. \A s \in Samples : Begun(s)' =>
             consumed'[s] = 1 \/ Direct(s)' \/ s = retrieved' \/ \E p \in Filled' : At(p)' = s
      BY <2>1, <2>3, <2>4, <2>5 DEF PlaceInv
    <2>12. \A s \in Samples : ~Begun(s)' \/ Direct(s)' => consumed'[s] = 0
      BY <2>1, <2>5, <2>6 DEF PlaceInv
    <2>13. PlaceInv' BY <2>8, <2>9, <2>10, <2>11, <2>12 DEF PlaceInv
    <2>14. FlagInv' BY <2>1, <2>2 DEF FlagInv
    <2>. QED BY <2>13, <2>14
  <1>4. CASE AddConsumes(t)
    <2>0. PICK own : own = <<t, calls[t]>> OBVIOUS
    <2>1. pc' = [pc EXCEPT ![t] = "idle"] /\ pc[t] = "consume"
          /\ consumed' = [consumed EXCEPT ![own] = consumed[own] + 1]
          /\ UNCHANGED <<buffer, write_ptr, read_ptr, calls, exited, consumer, retrieved>>
      BY <1>0, <1>4, <2>0
         DEF AddConsumes, Goto, Count, Current, ringVars, stateVars, threadVars, Inv, TypeOK
    <2>2. Publishing' <=> Publishing
      BY <1>0, <2>1 DEF Publishing, Inv, TypeOK
    <2>3. Filled' = Filled /\ \A p \in Filled : At(p)' = At(p)
      BY <2>1, <2>2 DEF Filled, First, At, Slot
    <2>4. own \in Samples /\ Begun(own) /\ Begun(own)' /\ Direct(own) /\ ~Direct(own)'
      BY <1>0, <2>0, <2>1 DEF Current, Samples, Begun, Direct, Inv, TypeOK, CallInv
    <2>5. \A s \in Samples : s # own => (Direct(s)' <=> Direct(s))
      BY <1>0, <2>0, <2>1 DEF Current, Samples, Direct, Inv, TypeOK, Threads
    <2>6. \A s \in Samples : Begun(s)' <=> Begun(s)
      BY <2>1 DEF Begun
    <2>7. consumed[own] = 0 /\ ~Waiting(own) BY <2>4 DEF PlaceInv, Waiting
    <2>8. consumed'[own] = 1 /\ \A s \in Samples : s # own => consumed'[s] = consumed[s]
      BY <1>0, <2>1, <2>4, <2>7 DEF Inv, TypeOK
    <2>9. \A s \in Samples : Waiting(s) => Waiting(s)'
      BY <2>5, <2>6, <2>7, <2>8 DEF Waiting
    <2>10. \A p \in Filled' : Waiting(At(p))' /\ At(p)' # retrieved'
      <3>. SUFFICES ASSUME NEW p \in Filled PROVE Waiting(At(p))' /\ At(p)' # retrieved'
        BY <2>3
      <3>1. Waiting(At(p)) /\ At(p) # retrieved /\ At(p) \in Samples BY DEF PlaceInv, Waiting
      <3>. QED BY <2>1, <2>3, <2>9, <3>1 DEF Waiting
    <2>11. retrieved' # NoSample => Waiting(retrieved)'
      BY <2>1, <2>9 DEF PlaceInv, Waiting
    <2>12. \A p, q \in Filled' : At(p)' = At(q)' => p = q
      BY <2>3 DEF PlaceInv
    <2>13. \A s \in Samples : Begun(s)' =>
             consumed'[s] = 1 \/ Direct(s)' \/ s = retrieved' \/ \E p \in Filled' : At(p)' = s
      BY <2>1, <2>3, <2>5, <2>6, <2>8 DEF PlaceInv
    <2>14. \A s \in Samples : ~Begun(s)' \/ Direct(s)' => consumed'[s] = 0
      BY <2>4, <2>5, <2>6, <2>8 DEF PlaceInv
    <2>15. PlaceInv' BY <2>10, <2>11, <2>12, <2>13, <2>14 DEF PlaceInv
    <2>16. FlagInv' BY <2>1, <2>2 DEF FlagInv
    <2>. QED BY <2>15, <2>16
  <1>. QED BY <1>1, <1>2, <1>3, <1>4 DEF Add

LEMMA ControlDrains ==
  ASSUME DrainInv, NEW t \in Controllers,
         Start(t) \/ ExitCall(t) \/ Exit(t)
  PROVE  FlagInv' /\ PlaceInv'
  <1>. USE ConsumerAssumption DEF DrainInv
  <1>0. t \in Threads /\ t \notin Adders BY DEF Threads
  <1>1. UNCHANGED <<buffer, write_ptr, read_ptr, retrieved, consumed>>
    BY DEF Start, StartFindsValid, StartSpawns, StartTerminates, ExitCall, Exit, ExitWakes,
       ExitJoins, ringVars, threadVars
  <1>2. \A u \in Adders : pc'[u] = pc[u] /\ calls'[u] = calls[u]
    BY <1>0 DEF Start, StartFindsValid, StartSpawns, StartTerminates, ExitCall, Exit, ExitWakes,
       ExitJoins, Goto, Call, Inv, TypeOK, Threads
  <1>3. pc[t] # "publish" /\ pc'[t] # "publish" /\ \A u \in Threads : u # t => pc'[u] = pc[u]
    BY <1>0 DEF Start, StartFindsValid, StartSpawns, StartTerminates, ExitCall, Exit, ExitWakes,
       ExitJoins, Goto, Inv, TypeOK
  <1>4. Publishing' <=> Publishing BY <1>3 DEF Publishing
  <1>5. First' = First /\ (consumer' \in {"advance", "consume"} <=> consumer \in {"advance", "consume"})
        /\ (exited' => exited)
    BY <1>1 DEF Start, StartFindsValid, StartSpawns, StartTerminates, ExitCall, Exit, ExitWakes,
       ExitJoins, stateVars, threadVars, First, Inv, LifeInv, Gone
  <1>6. Filled' = Filled /\ \A p \in Filled : At(p)' = At(p)
    BY <1>1, <1>4, <1>5 DEF Filled, At, Slot
  <1>7. \A s \in Samples : (Begun(s)' <=> Begun(s)) /\ (Direct(s)' <=> Direct(s))
    BY <1>2 DEF Samples, Begun, Direct
  <1>8. PlaceInv' BY <1>1, <1>6, <1>7, PlacesKept
  <1>9. FlagInv' BY <1>1, <1>4, <1>5 DEF FlagInv
  <1>. QED BY <1>8, <1>9

LEMMA ConsumerDrains ==
  ASSUME DrainInv, ~aborted, Consumer
  PROVE  FlagInv' /\ PlaceInv'
  <1>. USE ConsumerAssumption DEF DrainInv
  <1>0. UNCHANGED <<pc, calls, write_ptr, mut>> /\ Inv /\ Inv'
    BY ConsumerKeepsInv
       DEF Consumer, LookForSample, WaitForSample, WaitEnds, TakeSample, Advance, ConsumeSample,
       ringVars, stateVars
  <1>1. Publishing' <=> Publishing BY <1>0 DEF Publishing
  <1>2. \A s \in Samples : (Begun(s)' <=> Begun(s)) /\ (Direct(s)' <=> Direct(s))
    BY <1>0 DEF Begun, Direct
  <1>3. CASE LookForSample \/ WaitForSample \/ WaitEnds \/ Advance
    <2>1. UNCHANGED <<buffer, retrieved, consumed>> /\ First' = First
          /\ (consumer' \in {"advance", "consume"} <=> consumer \in {"advance", "consume"})
      BY <1>0, <1>3 DEF LookForSample, WaitForSample, WaitEnds, Advance, ConsumerGoto, First,
         ringVars, Inv, TypeOK
    <2>2. Filled' = Filled /\ \A p \in Filled : At(p)' = At(p)
      BY <1>0, <1>1, <2>1 DEF Filled, At, Slot
    <2>3. PlaceInv' BY <1>2, <2>1, <2>2, PlacesKept
    <2>4. exited' => read_ptr' = write_ptr' /\ ~Publishing'
      <3>1. CASE LookForSample \/ WaitForSample
        BY <1>0, <1>1, <3>1 DEF LookForSample, WaitForSample, FlagInv, ringVars, stateVars
      <3>2. CASE WaitEnds
        <4>1. ~Publishing BY <3>2 DEF WaitEnds, Publishing, Inv, CallInv
        <4>. QED BY <1>0, <1>1, <3>2, <4>1 DEF WaitEnds, Empty, ringVars
      <3>3. CASE Advance
        BY <3>3 DEF Advance, ConsumerGoto, stateVars, Inv, LifeInv, Gone
      <3>. QED BY <1>3, <3>1, <3>2, <3>3
    <2>. QED BY <2>1, <2>3, <2>4 DEF FlagInv
  <1>4. CASE TakeSample
    <2>1. consumer = "take" /\ consumer' = "advance" /\ retrieved = NoSample
          /\ retrieved' = At(read_ptr) /\ buffer' = [buffer EXCEPT ![Slot(read_ptr)] = NoSample]
          /\ UNCHANGED <<read_ptr, exited, consumed>>
      BY <1>4 DEF TakeSample, ConsumerGoto, stateVars, At, FlagInv
    <2>2. read_ptr \in Filled /\ Filled' = Filled \ {read_ptr}
      BY <1>0, <1>1, <2>1 DEF Filled, First, Inv, TypeOK, RingInv
    <2>3. \A p \in Filled' : At(p)' = At(p)
      <3>. SUFFICES ASSUME NEW p \in Filled, p # read_ptr PROVE At(p)' = At(p)
        BY <2>2
      <3>1. p \in Nat /\ read_ptr < p /\ p < read_ptr + SIZE /\ read_ptr \in Nat
        BY <1>0, FilledInRing DEF Inv, TypeOK
      <3>2. Slot(read_ptr) # Slot(p) BY <3>1, SlotsDiffer
      <3>. QED BY <2>1, <3>2 DEF At, Slot
    <2>4. \A s \in Samples : Waiting(s) => Waiting(s)'
      BY <1>2, <2>1 DEF Waiting
    <2>5. Waiting(At(read_ptr)) /\ At(read_ptr) \in Samples
      BY <2>2 DEF PlaceInv, Waiting
    <2>6. Waiting(retrieved)' /\ retrieved' # NoSample
      BY <2>1, <2>4, <2>5 DEF Waiting
    <2>7. \A p \in Filled' : At(p) # At(read_ptr)
      BY <2>2 DEF PlaceInv
    <2>8. \A p \in Filled' : Waiting(At(p))' /\ At(p)' # retrieved'
      <3>. SUFFICES ASSUME NEW p \in Filled, p # read_ptr
                    PROVE  Waiting(At(p))' /\ At(p)' # retrieved'
        BY <2>2
      <3>1. Waiting(At(p)) /\ At(p) \in Samples BY DEF PlaceInv, Waiting
      <3>2. At(p)' = At(p) BY <2>2, <2>3
      <3>. QED BY <2>1, <2>2, <2>4, <2>7, <3>1, <3>2 DEF Waiting
    <2>9. \A p, q \in Filled' : At(p)' = At(q)' => p = q
      BY <2>2, <2>3 DEF PlaceInv
    <2>10. \A s \in Samples : Begun(s)' =>
             consumed'[s] = 1 \/ Direct(s)' \/ s = retrieved' \/ \E p \in Filled' : At(p)' = s
      BY <1>2, <2>1, <2>2, <2>3 DEF PlaceInv
    <2>11. \A s \in Samples : ~Begun(s)' \/ Direct(s)' => consumed'[s] = 0
      BY <1>2, <2>1 DEF PlaceInv
    <2>12. PlaceInv' BY <2>6, <2>8, <2>9, <2>10, <2>11 DEF PlaceInv
    <2>13. FlagInv' BY <1>0, <1>1, <2>1, <2>6 DEF FlagInv
    <2>. QED BY <2>12, <2>13
  <1>5. CASE ConsumeSample
    <2>0. PICK r : r = retrieved OBVIOUS
    <2>1. consumer = "consume" /\ consumer' = "loop" /\ retrieved' = NoSample
          /\ consumed' = [consumed EXCEPT ![r] = consumed[r] + 1]
          /\ UNCHANGED <<buffer, read_ptr, exited>>
      BY <1>5, <2>0 DEF ConsumeSample, ConsumerGoto, Count, ringVars, stateVars
    <2>2. Waiting(r) /\ r \in Samples BY <2>0, <2>1 DEF FlagInv, PlaceInv, Waiting
    <2>3. consumed'[r] = 1 /\ \A s \in Samples : s # r => consumed'[s] = consumed[s]
      BY <1>0, <2>1, <2>2 DEF Inv, TypeOK, Waiting
    <2>4. Filled' = Filled /\ \A p \in Filled : At(p)' = At(p)
      BY <1>0, <1>1, <2>1 DEF Filled, First, At, Slot
    <2>5. \A s \in Samples : Waiting(s) /\ s # r => Waiting(s)'
      BY <1>2, <2>3 DEF Waiting
    <2>6. \A p \in Filled' : Waiting(At(p))' /\ At(p)' # retrieved'
      <3>. SUFFICES ASSUME NEW p \in Filled PROVE Waiting(At(p))' /\ At(p)' # retrieved'
        BY <2>4
      <3>1. Waiting(At(p)) /\ At(p) \in Samples /\ At(p) # r /\ At(p)' = At(p)
        BY <2>0, <2>4 DEF PlaceInv, Waiting
      <3>. QED BY <2>1, <2>5, <3>1 DEF Waiting
    <2>7. \A p, q \in Filled' : At(p)' = At(q)' => p = q
      BY <2>4 DEF PlaceInv
    <2>8. \A s \in Samples : Begun(s)' =>
            consumed'[s] = 1 \/ Direct(s)' \/ s = retrieved' \/ \E p \in Filled' : At(p)' = s
      BY <1>2, <2>0, <2>3, <2>4 DEF PlaceInv
    <2>9. \A s \in Samples : ~Begun(s)' \/ Direct(s)' => consumed'[s] = 0
      BY <1>2, <2>2, <2>3 DEF PlaceInv, Waiting
    <2>10. PlaceInv' BY <2>1, <2>6, <2>7, <2>8, <2>9 DEF PlaceInv
    <2>11. FlagInv' BY <1>0, <1>1, <2>1 DEF FlagInv
    <2>. QED BY <2>10, <2>11
  <1>. QED BY <1>3, <1>4, <1>5 DEF Consumer

LEMMA DrainNext == DrainInv /\ [Next]_vars => DrainInv'
  <1>. SUFFICES ASSUME DrainInv, [Next]_vars PROVE DrainInv'
    OBVIOUS
  <1>1. Inv' BY InvNext DEF DrainInv
  <1>2. CASE UNCHANGED vars
    <2>1. FlagInv'
      BY <1>2 DEF vars, ringVars, stateVars, threadVars, DrainInv, FlagInv, Publishing
    <2>2. Filled' = Filled /\ (\A p \in Filled : At(p)' = At(p))
          /\ \A s \in Samples : (Begun(s)' <=> Begun(s)) /\ (Direct(s)' <=> Direct(s))
      BY <1>2 DEF vars, ringVars, threadVars, Filled, First, Publishing, At, Slot, Begun, Direct
    <2>3. PlaceInv' BY <1>2, <2>2, PlacesKept DEF DrainInv, vars, threadVars
    <2>. QED BY <1>1, <2>1, <2>3 DEF DrainInv
  <1>3. CASE Next
    BY <1>1, <1>2, <1>3, AddDrains, ControlDrains, ConsumerDrains DEF Next, Finished, DrainInv
  <1>. QED BY <1>2, <1>3

\* Stopping loses no sample: whenever exit may return, the consumer thread is gone
\* and every sample whose add returned has been consumed exactly once, however many
\* handlers add and whichever thread consumed it.
THEOREM StopDrains == Spec => []ExitDrains
  <1>1. DrainInv => ExitDrains
    <2>. SUFFICES ASSUME DrainInv, exited
                  PROVE  ~valid /\ consumer \in {"none", "ended"} /\ \A s \in Added : consumed[s] = 1
      BY DEF ExitDrains
    <2>1. ~valid /\ consumer \in {"none", "ended"} BY DEF DrainInv, Inv, LifeInv, Gone
    <2>2. retrieved = NoSample /\ Filled = {}
      BY <2>1, ConsumerAssumption DEF DrainInv, Inv, TypeOK, FlagInv, Filled, First
    <2>3. \A s \in Added : s \in Samples /\ Begun(s) /\ ~Direct(s)
      BY DEF Added, Samples, Threads, Begun, Direct, DrainInv, Inv, TypeOK
    <2>4. \A s \in Samples : s # NoSample BY ConsumerAssumption
    <2>. QED BY <2>1, <2>2, <2>3, <2>4 DEF DrainInv, PlaceInv
  <1>. QED BY <1>1, DrainInit, DrainNext, PTL DEF Spec

(***************************************************************************)
(* The ring as a queue.  Its oldest entry is the sample that the consumer  *)
(* thread holds; the others are in the slots up to write_ptr.              *)
(***************************************************************************)
RingStart == IF retrieved = NoSample THEN First ELSE First - 1
Entry(p) == IF p < First THEN retrieved ELSE At(p)
RingEntry(i) == Entry(RingStart + i - 1)
Positions == RingStart .. write_ptr - 1

LEMMA FunctionIsSeq ==
  ASSUME NEW S, NEW n \in Nat, NEW f \in [1 .. n -> S]
  PROVE  f \in Seq(S) /\ Len(f) = n
  OBVIOUS

LEMMA Entries ==
  DrainInv => /\ RingStart \in Int /\ RingStart <= write_ptr /\ write_ptr \in Int
              /\ Ring \in Seq(Samples) /\ Len(Ring) = write_ptr - RingStart
              /\ \A i \in 1 .. Len(Ring) : Ring[i] = RingEntry(i)
              /\ \A p \in Positions : Waiting(Entry(p))
  <1>. SUFFICES ASSUME DrainInv
                PROVE  /\ RingStart \in Int /\ RingStart <= write_ptr /\ write_ptr \in Int
                       /\ Ring \in Seq(Samples) /\ Len(Ring) = write_ptr - RingStart
                       /\ \A i \in 1 .. Len(Ring) : Ring[i] = RingEntry(i)
                       /\ \A p \in Positions : Waiting(Entry(p))
    OBVIOUS
  <1>1. write_ptr \in Nat /\ First \in Nat /\ First <= write_ptr
    BY DEF DrainInv, Inv, TypeOK, RingInv, First
  <1>2. \A p \in First .. write_ptr - 1 : At(p) \in Samples /\ Waiting(At(p))
    BY <1>1 DEF DrainInv, PlaceInv, Waiting, Filled
  <1>3. retrieved # NoSample => retrieved \in Samples /\ Waiting(retrieved)
    BY DEF DrainInv, PlaceInv, Waiting
  <1>. DEFINE n == write_ptr - First
              stored == [i \in 1 .. n |-> At(First + i - 1)]
  <1>4. n \in Nat /\ write_ptr = First + n BY <1>1
  <1>5. stored \in [1 .. n -> Samples] BY <1>1, <1>2, <1>4
  <1>6. stored \in Seq(Samples) /\ Len(stored) = n
    <2>. HIDE DEF stored, n
    <2>. QED BY <1>4, <1>5, FunctionIsSeq
  <1>7. Ring = IF retrieved = NoSample THEN stored ELSE <<retrieved>> \o stored
    BY DEF Ring, First, At
  <1>8. \A i \in 1 .. n : stored[i] = At(First + i - 1) OBVIOUS
  <1>9. \A p \in Positions : Waiting(Entry(p))
    BY <1>1, <1>2, <1>3 DEF Positions, RingStart, Entry
  <1>. HIDE DEF stored, n
  <1>10. CASE retrieved = NoSample
    <2>1. RingStart = First /\ Ring = stored BY <1>7, <1>10 DEF RingStart
    <2>2. ASSUME NEW i \in 1 .. n PROVE RingEntry(i) = At(First + i - 1)
      <3>1. ~(First + i - 1 < First) BY <1>1, <1>4
      <3>. QED BY <2>1, <3>1 DEF Entry, RingEntry
    <2>3. Len(Ring) = n /\ Ring \in Seq(Samples) BY <1>6, <2>1
    <2>4. n = write_ptr - RingStart /\ RingStart \in Int /\ RingStart <= write_ptr
      BY <1>1, <1>4, <2>1
    <2>5. \A i \in 1 .. n : Ring[i] = RingEntry(i) BY <1>8, <2>1, <2>2
    <2>. QED BY <1>1, <1>9, <2>3, <2>4, <2>5
  <1>11. CASE retrieved # NoSample
    <2>1. RingStart = First - 1 /\ Ring = <<retrieved>> \o stored BY <1>7, <1>11 DEF RingStart
    <2>2. /\ Ring \in Seq(Samples) /\ Len(Ring) = n + 1 /\ Ring[1] = retrieved
          /\ \A i \in 2 .. n + 1 : Ring[i] = stored[i - 1]
      BY <1>3, <1>4, <1>6, <1>11, <2>1
    <2>3. \A i \in 1 .. n + 1 : Ring[i] = RingEntry(i)
      <3>. SUFFICES ASSUME NEW i \in 1 .. n + 1 PROVE Ring[i] = RingEntry(i)
        OBVIOUS
      <3>1. CASE i = 1 BY <1>1, <2>1, <2>2, <3>1 DEF Entry, RingEntry
      <3>2. CASE i \in 2 .. n + 1
        <4>1. i - 1 \in 1 .. n /\ RingStart + i - 1 = First + (i - 1) - 1 BY <1>1, <1>4, <2>1, <3>2
        <4>2. First + (i - 1) - 1 >= First BY <1>1, <1>4, <3>2
        <4>. QED BY <1>1, <1>8, <2>2, <3>2, <4>1, <4>2 DEF Entry, RingEntry
      <3>. QED BY <1>4, <3>1, <3>2
    <2>4. Len(Ring) = n + 1
      <3>1. <<retrieved>> \in Seq(Samples) /\ Len(<<retrieved>>) = 1 BY <1>3, <1>11
      <3>. QED BY <1>6, <1>4, <2>1, <3>1, ConcatProperties
    <2>5. n + 1 = write_ptr - RingStart /\ RingStart \in Int /\ RingStart <= write_ptr
      BY <1>1, <1>4, <2>1
    <2>. QED BY <1>1, <1>9, <2>2, <2>3, <2>4, <2>5
  <1>. QED BY <1>10, <1>11

LEMMA EntriesNext ==
  DrainInv' => /\ Ring' \in Seq(Samples) /\ Len(Ring') = write_ptr' - RingStart'
               /\ \A i \in 1 .. Len(Ring') : Ring'[i] = RingEntry(i)'
  <1>1. (DrainInv => /\ Ring \in Seq(Samples) /\ Len(Ring) = write_ptr - RingStart
                     /\ \A i \in 1 .. Len(Ring) : Ring[i] = RingEntry(i))'
    BY Entries, PTL
  <1>. QED BY <1>1

LEMMA RingKept ==
  ASSUME DrainInv, DrainInv', UNCHANGED <<RingStart, write_ptr>>,
         \A p \in Positions : Entry(p)' = Entry(p)
  PROVE  Ring' = Ring
  <1>1. Len(Ring') = Len(Ring) BY Entries, EntriesNext
  <1>2. ASSUME NEW i \in 1 .. Len(Ring) PROVE Ring'[i] = Ring[i]
    <2>1. RingStart + i - 1 \in Positions BY Entries DEF Positions
    <2>2. RingEntry(i)' = RingEntry(i) BY <2>1 DEF RingEntry, Entry, At
    <2>. QED BY <1>1, <2>2, Entries, EntriesNext
  <1>. QED BY <1>1, <1>2, Entries, EntriesNext, SeqEqual

\* A step that leaves the ring and the sample in hand alone.
LEMMA RingUntouched ==
  ASSUME DrainInv, DrainInv', UNCHANGED ringVars, retrieved' = retrieved,
         consumer = "advance" <=> consumer' = "advance"
  PROVE  Ring' = Ring
  <1>1. First' = First BY DEF First, ringVars
  <1>2. UNCHANGED <<RingStart, write_ptr>> /\ \A p : Entry(p)' = Entry(p)
    BY <1>1 DEF RingStart, Entry, At, Slot, ringVars
  <1>. QED BY <1>2, RingKept

QueueStep == Queue!QueueNext \/ (Ring' = Ring /\ consumed' = consumed)

LEMMA QueuedWait ==
  ASSUME DrainInv
  PROVE  \A s \in Queue!Queued : Waiting(s)
  <1>. SUFFICES ASSUME NEW i \in DOMAIN Ring PROVE Waiting(Ring[i])
    BY DEF Queue!Queued
  <1>1. i \in 1 .. Len(Ring) /\ Ring[i] = RingEntry(i) BY Entries
  <1>2. RingStart + i - 1 \in Positions BY <1>1, Entries DEF Positions
  <1>. QED BY <1>1, <1>2, Entries DEF RingEntry

\* Consuming a sample that waits counts it once.
LEMMA CountsOnce ==
  ASSUME DrainInv, NEW s \in Samples, consumed[s] = 0, Count(s)
  PROVE  [x \in Samples |-> consumed'[x]] = [[x \in Samples |-> consumed[x]] EXCEPT ![s] = 1]
  <1>1. \A x \in Samples : consumed'[x] = IF x = s THEN 1 ELSE consumed[x]
    BY DEF Count, DrainInv, Inv, TypeOK
  <1>. QED BY <1>1

LEMMA AddQueues ==
  ASSUME DrainInv, DrainInv', ~aborted, NEW t \in Adders, Add(t)
  PROVE  QueueStep
  <1>0. /\ TypeOK /\ RingInv /\ t \in Threads /\ write_ptr \in Nat /\ read_ptr \in Nat
        /\ First \in {read_ptr, read_ptr + 1} /\ RingStart \in Int
    BY Entries DEF DrainInv, Inv, Threads, TypeOK, First
  <1>1. CASE AddStores(t)
    <2>1. /\ UNCHANGED <<write_ptr, read_ptr, consumer, retrieved, consumed>>
          /\ write_ptr < read_ptr + SIZE
      BY <1>0, <1>1, ConsumerAssumption DEF AddStores, CannotStore, threadVars, TypeOK
    <2>2. ASSUME NEW p \in Nat, Slot(p) # Slot(write_ptr) PROVE At(p)' = At(p)
      BY <1>0, <1>1, <2>2, SlotInRing DEF AddStores, TypeOK, At, Slot
    <2>3. First' = First /\ RingStart' = RingStart BY <2>1 DEF First, RingStart
    <2>4. ASSUME NEW p \in Positions PROVE Entry(p)' = Entry(p)
      <3>1. CASE p < First BY <2>1, <2>3, <3>1 DEF Entry
      <3>2. CASE ~(p < First)
        <4>1. p \in Nat /\ p < write_ptr /\ write_ptr < p + SIZE
          BY <1>0, <2>1, <3>2, ConsumerAssumption DEF Positions
        <4>2. Slot(p) # Slot(write_ptr) BY <1>0, <4>1, SlotsDiffer
        <4>. QED BY <2>2, <2>3, <3>2, <4>1, <4>2 DEF Entry
      <3>. QED BY <3>1, <3>2
    <2>. QED BY <2>1, <2>3, <2>4, RingKept DEF QueueStep
  <1>2. CASE AddPublishes(t)
    <2>1. /\ UNCHANGED <<read_ptr, buffer, consumer, retrieved, consumed>>
          /\ write_ptr' = write_ptr + 1 /\ pc[t] = "publish" /\ write_ptr < read_ptr + SIZE
      BY <1>0, <1>2 DEF AddPublishes, Goto, threadVars, RingInv
    <2>2. First' = First /\ RingStart' = RingStart /\ \A p : Entry(p)' = Entry(p)
      BY <2>1 DEF First, RingStart, Entry, At, Slot
    <2>3. First <= write_ptr BY <1>0 DEF First, RingInv, TypeOK
    <2>4. write_ptr \in Filled /\ \A p \in First .. write_ptr - 1 : p \in Filled
      BY <1>0, <2>1, <2>3 DEF Filled, Publishing
    <2>. DEFINE s == At(write_ptr)
    <2>5. Waiting(s) /\ s \in Samples /\ s # retrieved /\ consumed[s] = 0
          /\ \A p \in First .. write_ptr - 1 : At(p) # s
      BY <1>0, <2>4 DEF DrainInv, PlaceInv, Waiting
    <2>6. s = Entry(write_ptr) BY <1>0, <2>3 DEF Entry
    <2>. HIDE DEF s
    <2>7. \A p \in Positions : Entry(p) # s BY <1>0, <2>5 DEF Positions, Entry
    <2>8. s \notin Queue!Queued
      <3>. SUFFICES ASSUME NEW i \in DOMAIN Ring PROVE Ring[i] # s
        BY DEF Queue!Queued
      <3>1. i \in 1 .. Len(Ring) /\ Ring[i] = RingEntry(i) BY Entries
      <3>2. RingStart + i - 1 \in Positions BY <3>1, Entries DEF Positions
      <3>. QED BY <2>7, <3>1, <3>2 DEF RingEntry
    <2>9. Len(Ring) < SIZE + 1
      <3>1. RingStart >= read_ptr - 1 BY <1>0 DEF RingStart
      <3>. QED BY <1>0, <2>1, <3>1, Entries, ConsumerAssumption
    <2>10. Ring' = Append(Ring, s)
      <3>1. Append(Ring, s) \in Seq(Samples) /\ Len(Append(Ring, s)) = Len(Ring) + 1
        BY <2>5, Entries
      <3>2. Len(Ring') = Len(Ring) + 1 /\ Len(Ring) \in Nat BY <1>0, <2>1, <2>2, Entries, EntriesNext
      <3>3. ASSUME NEW i \in 1 .. Len(Ring) + 1 PROVE Ring'[i] = Append(Ring, s)[i]
        <4>1. Ring'[i] = RingEntry(i) BY <2>2, <3>2, <3>3, EntriesNext DEF RingEntry
        <4>2. CASE i = Len(Ring) + 1
          <5>1. RingStart + i - 1 = write_ptr BY <1>0, <4>2, Entries
          <5>. QED BY <2>5, <2>6, <4>1, <4>2, <5>1, Entries DEF RingEntry
        <4>3. CASE i \in 1 .. Len(Ring) BY <2>5, <4>1, <4>3, Entries
        <4>. QED BY <3>2, <4>2, <4>3
      <3>. QED BY <3>1, <3>2, <3>3, EntriesNext, SeqEqual
    <2>11. Queue!Put(s)
      BY <2>1, <2>5, <2>8, <2>9, <2>10 DEF Queue!Put
    <2>. QED BY <2>5, <2>11 DEF QueueStep, Queue!QueueNext
  <1>3. CASE AddDirectly(t)
    <2>1. Ring' = Ring /\ consumed' = consumed
      BY <1>3, RingUntouched DEF AddDirectly, threadVars
    <2>. QED BY <2>1 DEF QueueStep
  <1>4. CASE AddConsumes(t)
    <2>1. /\ Ring' = Ring /\ pc[t] = "consume" /\ Count(Current(t))
      BY <1>4, RingUntouched DEF AddConsumes, threadVars, Goto
    <2>2. Current(t) \in Samples /\ Direct(Current(t))
      BY <2>1 DEF Current, Samples, Direct, DrainInv, Inv, CallInv
    <2>3. PICK s \in Samples : s = Current(t) BY <2>2
    <2>4. consumed[s] = 0 /\ s \notin Queue!Queued
      BY <2>2, <2>3, QueuedWait DEF DrainInv, PlaceInv, Waiting
    <2>5. Count(s) BY <2>1, <2>3 DEF Count
    <2>6. Queue!Consume(s)
      BY <2>1, <2>4, <2>5, CountsOnce DEF Queue!Consume
    <2>. QED BY <2>6 DEF QueueStep, Queue!QueueNext
  <1>. QED BY <1>1, <1>2, <1>3, <1>4 DEF Add

LEMMA ConsumerQueues ==
  ASSUME DrainInv, DrainInv', ~aborted, Consumer
  PROVE  QueueStep
  <1>0. /\ TypeOK /\ write_ptr \in Nat /\ read_ptr \in Nat
    BY DEF DrainInv, Inv, TypeOK
  <1>1. CASE LookForSample \/ WaitForSample \/ WaitEnds
    <2>1. Ring' = Ring /\ consumed' = consumed
      BY <1>1, RingUntouched DEF LookForSample, WaitForSample, WaitEnds, ConsumerGoto
    <2>. QED BY <2>1 DEF QueueStep
  <1>2. CASE TakeSample
    <2>1. /\ UNCHANGED <<write_ptr, read_ptr, consumed>> /\ consumer = "take"
          /\ consumer' = "advance" /\ retrieved' = At(read_ptr)
          /\ \A p : Slot(p) # Slot(read_ptr) => At(p)' = At(p)
      BY <1>0, <1>2 DEF TakeSample, ConsumerGoto, TypeOK, At, Slot
    <2>2. retrieved = NoSample /\ retrieved' # NoSample
      BY <2>1 DEF DrainInv, FlagInv
    <2>3. First = read_ptr /\ First' = read_ptr + 1 /\ RingStart = read_ptr /\ RingStart' = read_ptr
      BY <1>0, <2>1, <2>2 DEF First, RingStart
    <2>4. ASSUME NEW p \in Positions PROVE Entry(p)' = Entry(p)
      <3>1. p \in Nat /\ read_ptr <= p /\ p < write_ptr /\ write_ptr <= read_ptr + SIZE
        BY <1>0, <2>3 DEF Positions, TypeOK
      <3>2. CASE p = read_ptr BY <1>0, <2>1, <2>3, <3>2 DEF Entry
      <3>3. CASE p > read_ptr
        <4>1. Slot(p) # Slot(read_ptr) BY <1>0, <3>1, <3>3, ConsumerAssumption, SlotsDiffer
        <4>2. ~(p < First) /\ ~(p < First') BY <1>0, <2>3, <3>1, <3>3
        <4>. QED BY <2>1, <4>1, <4>2 DEF Entry
      <3>. QED BY <1>0, <3>1, <3>2, <3>3
    <2>. QED BY <2>1, <2>3, <2>4, RingKept DEF QueueStep
  <1>3. CASE Advance
    <2>1. /\ UNCHANGED <<write_ptr, buffer, retrieved, consumed>> /\ consumer = "advance"
          /\ consumer' = "consume" /\ read_ptr' = read_ptr + 1
      BY <1>3 DEF Advance, ConsumerGoto
    <2>2. First' = First BY <2>1 DEF First
    <2>3. RingStart' = RingStart /\ \A p : Entry(p)' = Entry(p)
      BY <2>1, <2>2 DEF RingStart, Entry, At, Slot
    <2>. QED BY <2>1, <2>3, RingKept DEF QueueStep
  <1>4. CASE ConsumeSample
    <2>1. /\ UNCHANGED ringVars /\ consumer = "consume" /\ consumer' = "loop"
          /\ retrieved' = NoSample /\ Count(retrieved)
      BY <1>4 DEF ConsumeSample, ConsumerGoto
    <2>2. retrieved # NoSample BY <2>1 DEF DrainInv, FlagInv
    <2>3. retrieved \in Samples /\ consumed[retrieved] = 0
      BY <2>2 DEF DrainInv, PlaceInv, Waiting
    <2>4. /\ First = read_ptr /\ First' = read_ptr /\ RingStart = read_ptr - 1
          /\ RingStart' = read_ptr /\ write_ptr' = write_ptr
      BY <2>1, <2>2 DEF First, RingStart, ringVars
    <2>5. Len(Ring) \in Nat \ {0} /\ Len(Ring') = Len(Ring) - 1
      BY <1>0, <2>4, Entries, EntriesNext DEF TypeOK
    <2>6. Ring # << >> /\ Head(Ring) = retrieved
      <3>1. Ring[1] = RingEntry(1) BY <2>5, Entries
      <3>2. RingEntry(1) = retrieved BY <1>0, <2>4 DEF RingEntry, Entry
      <3>. QED BY <2>5, <3>1, <3>2, Entries
    <2>7. Ring' = Tail(Ring)
      <3>1. Tail(Ring) \in Seq(Samples) /\ Len(Tail(Ring)) = Len(Ring) - 1
            /\ \A i \in 1 .. Len(Ring) - 1 : Tail(Ring)[i] = Ring[i + 1]
        BY <2>6, Entries, HeadTailProperties
      <3>2. ASSUME NEW i \in 1 .. Len(Ring) - 1 PROVE Ring'[i] = Tail(Ring)[i]
        <4>1. Ring'[i] = RingEntry(i)' BY <2>5, EntriesNext
        <4>2. i + 1 \in 1 .. Len(Ring) /\ i \in Int BY <2>5
        <4>3. Tail(Ring)[i] = RingEntry(i + 1) BY <3>1, <4>2, Entries
        <4>4. RingStart + (i + 1) - 1 = RingStart' + i - 1 /\ ~(RingStart' + i - 1 < First)
              /\ ~(RingStart' + i - 1 < First')
          BY <1>0, <2>4, <4>2
        <4>5. \A p : At(p)' = At(p) BY <2>1 DEF At, Slot, ringVars
        <4>. QED BY <4>1, <4>3, <4>4, <4>5 DEF RingEntry, Entry, At
      <3>. QED BY <2>5, <3>1, <3>2, EntriesNext, SeqEqual
    <2>8. PICK s \in Samples : s = retrieved BY <2>3
    <2>9. Count(s) BY <2>1, <2>8 DEF Count
    <2>10. Queue!Consume(s)
      BY <2>3, <2>6, <2>7, <2>8, <2>9, CountsOnce DEF Queue!Consume
    <2>. QED BY <2>10 DEF QueueStep, Queue!QueueNext
  <1>. QED BY <1>1, <1>2, <1>3, <1>4 DEF Consumer

LEMMA ControlKeepsQueue ==
  ASSUME DrainInv, DrainInv', ~aborted, NEW t \in Controllers, Start(t) \/ ExitCall(t) \/ Exit(t)
  PROVE  QueueStep
  <1>1. UNCHANGED <<ringVars, retrieved, consumed>> /\ (consumer = "advance" <=> consumer' = "advance")
    <2>1. CASE StartSpawns(t)
      <3>1. consumer # "advance" BY <2>1 DEF StartSpawns, DrainInv, Inv, LifeInv, Gone
      <3>. QED BY <2>1, <3>1 DEF StartSpawns
    <2>2. CASE ~StartSpawns(t)
      BY <2>2 DEF Start, StartFindsValid, StartTerminates, ExitCall, Exit, ExitWakes, ExitJoins,
                  threadVars
    <2>. QED BY <2>1, <2>2
  <1>. QED BY <1>1, RingUntouched DEF QueueStep

\* The ring, the sample in hand and the samples that handlers consume themselves make
\* a queue: each sample is consumed once, those of the ring in the order of their
\* publication, and no more than SIZE and one are in it (sample_consumer.hpp).
THEOREM ConsumerIsQueue == Spec => ImplementsSampleQueue
  <1>1. Init => Queue!QueueInit
    <2>. SUFFICES ASSUME Init PROVE Queue!QueueInit
      OBVIOUS
    <2>1. DrainInv BY DrainInit
    <2>2. RingStart = 0 /\ write_ptr = 0 BY DEF Init, RingStart, First
    <2>3. Len(Ring) = 0 /\ Ring \in Seq(Samples) BY <2>1, <2>2, Entries
    <2>4. Ring = << >> BY <2>3
    <2>. QED BY <2>4 DEF Init, Queue!QueueInit
  <1>2. DrainInv /\ [Next]_vars
          => [Queue!QueueNext]_<<Ring, [s \in Samples |-> consumed[s]]>>
    <2>. SUFFICES ASSUME DrainInv, [Next]_vars PROVE QueueStep
      BY DEF QueueStep
    <2>1. DrainInv' BY DrainNext
    <2>2. CASE UNCHANGED vars
      BY <2>1, <2>2, RingUntouched DEF vars, ringVars, threadVars, QueueStep
    <2>3. CASE Next
      BY <2>1, <2>2, <2>3, AddQueues, ConsumerQueues, ControlKeepsQueue DEF Next, Finished
    <2>. QED BY <2>2, <2>3
  <1>. QED
    BY <1>1, <1>2, DrainInit, DrainNext, PTL DEF Spec, ImplementsSampleQueue, Queue!QueueSpec
=============================================================================
