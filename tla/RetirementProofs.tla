-------------------------- MODULE RetirementProofs --------------------------
(***************************************************************************)
(* Nothing is heard of a correlation id after its retirement, for any      *)
(* number of threads, ids, kernels and copies.  CorrelationIdsProofs shows *)
(* that an id that has a holder has a count; here, that a retired id has   *)
(* none, and that every step that reports an id belongs to a holder of it. *)
(* For PC samples the holder is the marker of the kernel that was sampled: *)
(* two deliveries, or an explicit flush, pass before it is let go.         *)
(***************************************************************************)
EXTENDS CorrelationIdsProofs

\* A retired id has no count left.
RetiredInv ==
  /\ retired \subseteq Made
  /\ \A i \in retired : refs[i] = 0

\* The stack of a thread holds the ids of the calls it is in; a thread that constructed
\* an id for its work is in none.
StackInv ==
  \A t \in Threads :
    IF work[t].own
    THEN calls[t] = << >> /\ Len(stack[t]) = 1
    ELSE Len(stack[t]) = Len(calls[t]) /\ \A d \in DOMAIN calls[t] : stack[t][d] = calls[t][d].id

Filling == rocr.halves[rocr.filling]

\* Kernels whose marker is not among the waiting yet.
Live(k) ==
  \/ kern[k].at \in {"running", "complete", "abandoned"}
  \/ kern[k].at = "handled" /\ Handling("dispatched")

\* Kernels that may have samples in the buffer that is being filled, and in the one that
\* is being delivered.
ToFill(k) ==
  Live(k) \/ k \in q1 \/ (k \in q2 /\ cb.at # "ready") \/ (k \in flush.taken /\ flush.at = "taken")
ToDeliver(k) ==
  Live(k) \/ k \in q1 \cup q2 \cup cb.q3 \/ (k \in flush.taken /\ flush.at # "flushed")

\* What is sampled was sampled in a kernel that is still waited for.
DeliveryInv ==
  /\ rocr = [halves |-> rocr.halves, filling |-> rocr.filling]
  /\ rocr.filling \in {1, 2} /\ DOMAIN rocr.halves = {1, 2} /\ rocr.halves[3 - rocr.filling] = {}
  /\ \A i \in Filling : \E k \in Kernels : config.sampled /\ kern[k].id = i /\ ToFill(k)
  /\ \A i \in cb.samples : \E k \in Kernels : config.sampled /\ kern[k].id = i /\ ToDeliver(k)
  /\ cb.at \in {"idle", "copied"} => cb.samples = {}

LastInv == late = {} /\ RetiredInv /\ StackInv /\ DeliveryInv

-----------------------------------------------------------------------------
\* Who holds an id keeps it from retirement.
Counts == HolderInv /\ RefsCountHolders /\ RetiredInv

LEMMA Held ==
  ASSUME Counts, NEW i \in Ids,
         \/ CallsOf(i) # {} \/ Owners(i) # {} \/ KernelsOf(i) # {} \/ MarkersOf(i) # {}
         \/ CopiesOf(i) # {}
  PROVE  refs[i] > 0 /\ i \notin retired
<1>1. /\ IsFiniteSet(CallsOf(i)) /\ IsFiniteSet(Owners(i)) /\ IsFiniteSet(KernelsOf(i))
      /\ IsFiniteSet(MarkersOf(i)) /\ IsFiniteSet(CopiesOf(i))
  BY HolderFrames, Frames
<1>2. \/ Cardinality(CallsOf(i)) # 0 \/ Cardinality(Owners(i)) # 0
      \/ Cardinality(KernelsOf(i)) # 0 \/ Cardinality(MarkersOf(i)) # 0
      \/ Cardinality(CopiesOf(i)) # 0
  BY <1>1, FS_EmptySet
<1>3. refs[i] > 0
  BY <1>2, HolderNumbers DEF Counts, RefsCountHolders
<1>4. QED
  BY <1>3 DEF Counts, RetiredInv

LEMMA CallHolds ==
  ASSUME Counts, NEW t \in Threads, calls[t] # << >>
  PROVE  /\ Last(calls[t]).id \in Made /\ Last(calls[t]).id \in Ids
         /\ Last(calls[t]).id \notin retired /\ refs[Last(calls[t]).id] > 0
<1>1. /\ Top(t) \in DOMAIN calls[t] /\ Top(t) \in 1 .. MaxDepth
      /\ Last(calls[t]) = calls[t][Top(t)]
      /\ Last(calls[t]).id \in Ids /\ Last(calls[t]).id \in Made
  BY TopCall DEF Counts, HolderInv
<1>2. <<t, Top(t)>> \in CallsOf(Last(calls[t]).id)
  BY <1>1 DEF CallsOf
<1>3. QED
  BY <1>1, <1>2, Held

LEMMA KernelHolds ==
  ASSUME Counts, NEW k \in Kernels,
         kern[k].at \notin {"none", "gone"} \/ (config.sampled /\ kern[k].id # 0 /\ Marked(k))
  PROVE  kern[k].id \in Made /\ kern[k].id \in Ids /\ kern[k].id \notin retired /\ refs[kern[k].id] > 0
<1>1. kern[k].id \in Made /\ kern[k].id \in Ids
  BY UsesHaveIds DEF Counts, HolderInv, UseInv
<1>2. k \in KernelsOf(kern[k].id) \/ k \in MarkersOf(kern[k].id)
  BY DEF KernelsOf, MarkersOf
<1>3. QED
  BY <1>1, <1>2, Held

LEMMA CopyHolds ==
  ASSUME Counts, NEW c \in Copies, copy[c].at \notin {"none", "gone"}
  PROVE  copy[c].id \in Made /\ copy[c].id \in Ids /\ copy[c].id \notin retired
<1>1. copy[c].id \in Made /\ copy[c].id \in Ids
  BY UsesHaveIds DEF Counts, HolderInv, UseInv
<1>2. c \in CopiesOf(copy[c].id)
  BY DEF CopiesOf
<1>3. QED
  BY <1>1, <1>2, Held

LEMMA OwnerHolds ==
  ASSUME Counts, NEW t \in Threads, work[t].own
  PROVE  /\ IdOf(work[t]) \in Made /\ IdOf(work[t]) \in Ids /\ IdOf(work[t]) \notin retired
<1>1. \/ work[t].kind = "kernel" /\ work[t].n \in Kernels /\ kern[work[t].n].at = "begun"
      \/ work[t].kind = "copy" /\ work[t].n \in Copies /\ copy[work[t].n].id # 0
  BY DEF Counts, HolderInv, WorkInv
<1>2. IdOf(work[t]) \in Made /\ IdOf(work[t]) \in Ids
  BY <1>1, UsesHaveIds DEF Counts, HolderInv, UseInv, IdOf
<1>3. t \in Owners(IdOf(work[t]))
  BY DEF Owners
<1>4. QED
  BY <1>2, <1>3, Held

-----------------------------------------------------------------------------
\* What each operation on counts does to the retired.
LEMMA KeepRetired ==
  ASSUME RetiredInv, UNCHANGED <<retired, refs, constructed>>
  PROVE  RetiredInv'
BY DEF RetiredInv, Made

LEMMA DropRetires ==
  ASSUME Counts, NEW i \in Made, i \in Ids, i \notin retired, Drop(i), UNCHANGED constructed
  PROVE  RetiredInv'
<1>1. refs' = [refs EXCEPT ![i] = @ - 1] /\ retired' = IF refs[i] = 1 THEN retired \cup {i} ELSE retired
  BY DEF Drop
<1>2. refs \in [Ids -> Int]
  BY DEF Counts, HolderInv, CallsInv
<1>3. ASSUME NEW j \in retired'
      PROVE  j \in Made' /\ refs'[j] = 0
  <2>1. CASE j = i
    BY <1>1, <1>2, <1>3, <2>1 DEF Made
  <2>2. CASE j # i
    BY <1>1, <1>2, <1>3, <2>2 DEF Counts, RetiredInv, Made
  <2>3. QED
    BY <2>1, <2>2
<1>4. QED
  BY <1>3 DEF RetiredInv

LEMMA GainRetires ==
  ASSUME Counts, NEW i \in Ids, i \notin retired, refs' = [refs EXCEPT ![i] = @ + 1],
         UNCHANGED <<retired, constructed>>
  PROVE  RetiredInv'
<1>1. refs \in [Ids -> Int]
  BY DEF Counts, HolderInv, CallsInv
<1>2. QED
  BY <1>1 DEF Counts, RetiredInv, Made

LEMMA ConstructRetires ==
  ASSUME Counts, NEW t \in Threads, NEW n \in Int, Construct(t, n)
  PROVE  RetiredInv'
<1>1. /\ constructed' = constructed + 1 /\ constructed' \in Ids /\ Made \subseteq Made'
      /\ refs' = [refs EXCEPT ![constructed'] = n] /\ UNCHANGED retired
  BY ConstructCalls DEF Counts, HolderInv, Construct
<1>2. constructed \in Nat /\ refs \in [Ids -> Int]
  BY DEF Counts, HolderInv, CallsInv
<1>3. constructed' \notin Made
  BY <1>1, <1>2 DEF Made
<1>4. QED
  BY <1>1, <1>2, <1>3 DEF Counts, RetiredInv

\* The latest id of a thread that starts something is that of a call it is in.
LEMMA TakeIdRetires ==
  ASSUME Counts, StackInv, NEW t \in Threads, ~work[t].own, TakeId(t)
  PROVE  RetiredInv'
<1>1. CASE Own(t)
  BY <1>1, ConstructRetires DEF TakeId
<1>2. CASE ~Own(t)
  <2>1. /\ refs' = [refs EXCEPT ![Last(stack[t])] = @ + 1]
        /\ UNCHANGED <<retired, constructed>>
    BY <1>2 DEF TakeId
  <2>2. /\ Len(stack[t]) = Len(calls[t]) /\ \A d \in DOMAIN calls[t] : stack[t][d] = calls[t][d].id
        /\ stack[t] \in Seq(Made) /\ calls[t] \in Seq(Call) /\ stack[t] # << >>
    BY <1>2 DEF StackInv, Counts, HolderInv, CallsInv, Own
  <2>3. calls[t] # << >> /\ Last(stack[t]) = stack[t][Len(calls[t])]
    BY <2>2 DEF Last
  <2>4. Last(stack[t]) = Last(calls[t]).id
    BY <2>2, <2>3, TopCall DEF Top, Counts, HolderInv
  <2>5. QED
    BY <2>1, <2>3, <2>4, CallHolds, GainRetires
<1>3. QED
  BY <1>1, <1>2

LEMMA FinishRetires ==
  ASSUME Counts, NEW t \in Threads, Finish(t, IdOf(work[t])), UNCHANGED constructed
  PROVE  RetiredInv'
<1>1. CASE work[t].own
  BY <1>1, OwnerHolds, DropRetires DEF Finish
<1>2. CASE ~work[t].own
  BY <1>2, KeepRetired DEF Finish, Counts
<1>3. QED
  BY <1>1, <1>2

-----------------------------------------------------------------------------
\* What each step does to the stacks.
LEMMA KeepStacks ==
  ASSUME StackInv, UNCHANGED <<stack, calls>>, \A t \in Threads : work'[t].own = work[t].own
  PROVE  StackInv'
BY DEF StackInv

LEMMA CallsGoOnStacks ==
  ASSUME HolderInv, StackInv, NEW t \in Threads, calls[t] # << >>, NEW a \in {"exec", "exit"},
         calls' = [calls EXCEPT ![t][Top(t)].at = a], UNCHANGED <<stack, work>>
  PROVE  StackInv'
<1>1. \A u \in Threads :
        /\ Len(calls'[u]) = Len(calls[u]) /\ DOMAIN calls'[u] = DOMAIN calls[u]
        /\ \A d \in DOMAIN calls[u] :
             calls'[u][d] = IF u = t /\ d = Top(t) THEN [id |-> calls[u][d].id, at |-> a]
                            ELSE calls[u][d]
  <2>1. CASE a = "exec"
    BY <2>1, CallGoesOn DEF HolderInv
  <2>2. CASE a = "exit"
    BY <2>2, CallGoesOn DEF HolderInv
  <2>3. QED
    BY <2>1, <2>2
<1>2. ASSUME NEW u \in Threads, NEW d \in DOMAIN calls[u]
      PROVE  calls'[u][d].id = calls[u][d].id
  <2>1. CASE u = t /\ d = Top(t)
    <3>1. calls'[u][d] = [id |-> calls[u][d].id, at |-> a]
      BY <1>1, <2>1
    <3>2. QED
      BY <3>1
  <2>2. CASE ~(u = t /\ d = Top(t))
    BY <1>1, <2>2
  <2>3. QED
    BY <2>1, <2>2
<1>3. \A u \in Threads : calls'[u] = << >> <=> calls[u] = << >>
  <2>1. \A u \in Threads : calls[u] \in Seq(Call) /\ calls'[u] \in Seq(Call)
    <3>1. a \in {"enter", "exec", "exit"} /\ CallsInv
      BY DEF HolderInv
    <3>2. calls' \in [Threads -> Seq(Call)]
      BY <3>1, CallGoesOn
    <3>3. QED
      BY <3>1, <3>2 DEF CallsInv
  <2>2. QED
    BY <1>1, <2>1
<1>4. QED
  BY <1>1, <1>2, <1>3 DEF StackInv

LEMMA ApiEnterStacks ==
  ASSUME HolderInv, StackInv, NEW t \in Threads, ~work[t].own, Construct(t, 2),
         Len(calls[t]) < config.depth, UNCHANGED work,
         calls' = [calls EXCEPT ![t] = Append(@, [id |-> constructed', at |-> "enter"])]
  PROVE  StackInv'
<1> DEFINE n == constructed'
<1>1. stack' = [stack EXCEPT ![t] = Append(@, n)] /\ n \in Made' /\ Made \subseteq Made'
  BY ConstructCalls DEF Construct, HolderInv, CallsInv, Made
<1>2. /\ DOMAIN calls'[t] = DOMAIN calls[t] \cup {Len(calls[t]) + 1}
      /\ \A d \in DOMAIN calls[t] : calls'[t][d] = calls[t][d]
      /\ calls'[t][Len(calls[t]) + 1] = [id |-> n, at |-> "enter"]
      /\ calls' \in [Threads -> Seq(Call')]
  BY CallBegins DEF HolderInv
<1>3. \A u \in Threads : u # t => stack'[u] = stack[u] /\ calls'[u] = calls[u]
  BY <1>1 DEF HolderInv, CallsInv
<1> HIDE DEF n
<1>4. /\ Len(stack[t]) = Len(calls[t]) /\ stack[t] \in Seq(Made) /\ calls[t] \in Seq(Call)
      /\ \A d \in DOMAIN calls[t] : stack[t][d] = calls[t][d].id
  BY DEF StackInv, HolderInv, CallsInv
<1>5. stack[t] \in Seq(Made') /\ stack'[t] = Append(stack[t], n)
  BY <1>1, <1>4, SeqGrows DEF HolderInv, CallsInv
<1>6. /\ Len(stack'[t]) = Len(stack[t]) + 1 /\ stack'[t][Len(stack[t]) + 1] = n
      /\ \A d \in 1 .. Len(stack[t]) : stack'[t][d] = stack[t][d]
  BY <1>1, <1>5
<1>7. DOMAIN calls[t] = 1 .. Len(calls[t]) /\ Len(calls[t]) \in Nat
  BY <1>4
<1>8. \A d \in DOMAIN calls'[t] : stack'[t][d] = calls'[t][d].id
  BY <1>2, <1>4, <1>6, <1>7
<1>9. Len(calls'[t]) = Len(calls[t]) + 1
  <2>1. DOMAIN calls'[t] = 1 .. Len(calls'[t]) /\ Len(calls'[t]) \in Nat
    BY <1>2
  <2>2. 1 .. Len(calls'[t]) = 1 .. Len(calls[t]) + 1
    BY <1>2, <1>7, <2>1
  <2>3. QED
    BY <1>7, <2>1, <2>2
<1>10. QED
  BY <1>3, <1>4, <1>6, <1>8, <1>9 DEF StackInv

LEMMA ApiLeaveStacks ==
  ASSUME HolderInv, StackInv, NEW t \in Threads, ~work[t].own, calls[t] # << >>, Pop(t),
         calls' = [calls EXCEPT ![t] = Front(@)], UNCHANGED work
  PROVE  StackInv'
<1>1. /\ Len(stack[t]) = Len(calls[t]) /\ stack[t] \in Seq(Made) /\ calls[t] \in Seq(Call)
      /\ \A d \in DOMAIN calls[t] : stack[t][d] = calls[t][d].id
  BY DEF StackInv, HolderInv, CallsInv
<1>2. stack[t] # << >>
  BY <1>1
<1>3. /\ \A u \in Threads : stack'[u] = IF u = t THEN Front(stack[t]) ELSE stack[u]
      /\ \A u \in Threads : calls'[u] = IF u = t THEN Front(calls[t]) ELSE calls[u]
  BY DEF Pop, HolderInv, CallsInv
<1>4. /\ Len(Front(calls[t])) = Len(calls[t]) - 1 /\ DOMAIN Front(calls[t]) = 1 .. Len(calls[t]) - 1
      /\ \A d \in 1 .. Len(calls[t]) - 1 : Front(calls[t])[d] = calls[t][d]
  BY <1>1, SeqFront
<1>5. /\ Len(Front(stack[t])) = Len(stack[t]) - 1
      /\ \A d \in 1 .. Len(stack[t]) - 1 : Front(stack[t])[d] = stack[t][d]
  BY <1>1, <1>2, SeqFront
<1>6. \A d \in 1 .. Len(calls[t]) - 1 : d \in DOMAIN calls[t]
  BY <1>1
<1>7. /\ Len(stack'[t]) = Len(calls'[t])
      /\ \A d \in DOMAIN calls'[t] : stack'[t][d] = calls'[t][d].id
  BY <1>1, <1>3, <1>4, <1>5, <1>6
<1>8. \A u \in Threads : u # t => stack'[u] = stack[u] /\ calls'[u] = calls[u]
  BY <1>3
<1>9. QED
  BY <1>7, <1>8 DEF StackInv

LEMMA BeginStacks ==
  ASSUME HolderInv, StackInv, NEW t \in Threads, ~work[t].own, TakeId(t), UNCHANGED calls,
         work'[t].own = Own(t), \A u \in Threads : u # t => work'[u] = work[u]
  PROVE  StackInv'
<1>1. /\ Len(stack[t]) = Len(calls[t]) /\ stack \in [Threads -> Seq(Made)] /\ calls[t] \in Seq(Call)
  BY DEF StackInv, HolderInv, CallsInv
<1>2. CASE Own(t)
  <2>1. stack' = [stack EXCEPT ![t] = Append(@, constructed')] /\ stack[t] = << >>
    BY <1>2 DEF TakeId, Construct, Own
  <2>2. Len(stack'[t]) = 1 /\ calls[t] = << >>
    BY <1>1, <2>1
  <2>3. \A u \in Threads : u # t => stack'[u] = stack[u]
    BY <1>1, <2>1
  <2>4. work'[t].own
    BY <1>2 DEF Own
  <2>5. QED
    BY <2>2, <2>3, <2>4 DEF StackInv
<1>3. CASE ~Own(t)
  <2>1. UNCHANGED stack
    BY <1>3 DEF TakeId
  <2>2. \A u \in Threads : work'[u].own = work[u].own
    BY <1>3 DEF Own, HolderInv, WorkInv
  <2>3. QED
    BY <2>1, <2>2, KeepStacks
<1>4. QED
  BY <1>2, <1>3

LEMMA FinishStacks ==
  ASSUME HolderInv, StackInv, NEW t \in Threads, NEW i, Finish(t, i), UNCHANGED calls
  PROVE  StackInv'
<1>1. work' = [work EXCEPT ![t] = NoWork]
  BY DEF Finish
<1>2. work'[t].own = FALSE /\ \A u \in Threads : u # t => work'[u] = work[u]
  BY <1>1 DEF HolderInv, WorkInv, NoWork
<1>3. CASE work[t].own
  <2>1. stack' = [stack EXCEPT ![t] = Front(@)] /\ stack \in [Threads -> Seq(Made)]
    BY <1>3 DEF Finish, Pop, HolderInv, CallsInv
  <2>2. calls[t] = << >> /\ Len(stack[t]) = 1
    BY <1>3, Zenon DEF StackInv
  <2>3. stack[t] \in Seq(Made) /\ stack[t] # << >>
    <3>1. stack[t] \in Seq(Made)
      BY <2>1
    <3>2. Len(<< >>) # 1
      OBVIOUS
    <3>3. QED
      BY <2>2, <3>1, <3>2, Zenon
  <2>4. Len(Front(stack[t])) = 0
    BY <2>1, <2>2, <2>3, SeqFront
  <2>5. stack'[t] = Front(stack[t]) /\ \A u \in Threads : u # t => stack'[u] = stack[u]
    BY <2>1
  <2>6. Len(calls[t]) = 0 /\ DOMAIN calls[t] = {}
    BY <2>2
  <2>7. QED
    BY <1>2, <2>4, <2>5, <2>6 DEF StackInv
<1>4. CASE ~work[t].own
  <2>1. UNCHANGED stack
    BY <1>4 DEF Finish
  <2>2. \A u \in Threads : work'[u].own = work[u].own
    BY <1>2, <1>4 DEF HolderInv, WorkInv
  <2>3. QED
    BY <2>1, <2>2, KeepStacks
<1>5. QED
  BY <1>3, <1>4

-----------------------------------------------------------------------------
\* Deliveries: what the steps of threads, kernels and handlers leave alone.
LEMMA KeepDelivery ==
  ASSUME DeliveryInv, UNCHANGED <<config, rocr, q1, q2, cb, flush>>,
         \A k \in Kernels : Live(k) \/ k \in Waiting => kern'[k].id = kern[k].id,
         \A k \in Kernels : Live(k) => Live(k)'
  PROVE  DeliveryInv'
<1>1. \A k \in Kernels : ToFill(k) \/ ToDeliver(k) => kern'[k].id = kern[k].id
  BY DEF ToFill, ToDeliver, Waiting
<1>2. \A k \in Kernels : (ToFill(k) => ToFill(k)') /\ (ToDeliver(k) => ToDeliver(k)')
  BY DEF ToFill, ToDeliver
<1>3. Filling' = Filling
  BY DEF Filling
<1>4. \A i \in Filling' : \E k \in Kernels : config'.sampled /\ kern'[k].id = i /\ ToFill(k)'
  BY <1>1, <1>2, <1>3 DEF DeliveryInv
<1>5. \A i \in cb'.samples : \E k \in Kernels : config'.sampled /\ kern'[k].id = i /\ ToDeliver(k)'
  BY <1>1, <1>2 DEF DeliveryInv
<1>6. QED
  BY <1>4, <1>5 DEF DeliveryInv

LEMMA StillDelivery ==
  ASSUME DeliveryInv, UNCHANGED <<config, rocr, q1, q2, cb, flush, kern>>,
         handler.at = "dispatched" => handler'.at = "dispatched"
  PROVE  DeliveryInv'
<1>1. \A k \in Kernels : Live(k) => Live(k)'
  BY DEF Live, Handling
<1>2. QED
  BY <1>1, KeepDelivery

LEMMA SampleDelivery ==
  ASSUME HolderInv, DeliveryInv, NEW k \in Kernels, Sample(k)
  PROVE  DeliveryInv'
<1> DEFINE i == kern[k].id
<1>1. /\ config.sampled /\ kern[k].at = "running"
      /\ rocr' = [rocr EXCEPT !.halves[rocr.filling] = @ \cup {i}]
      /\ UNCHANGED <<config, q1, q2, cb, flush, kern, handler>>
  BY DEF Sample
<1>2. /\ rocr'.filling = rocr.filling /\ DOMAIN rocr'.halves = {1, 2}
      /\ rocr'.halves = [rocr.halves EXCEPT ![rocr.filling] = @ \cup {i}]
      /\ rocr' = [halves |-> rocr'.halves, filling |-> rocr'.filling]
  BY <1>1 DEF DeliveryInv
<1>3. Filling' = Filling \cup {i} /\ rocr'.halves[3 - rocr.filling] = {}
  BY <1>2 DEF DeliveryInv, Filling
<1>4. \A j \in Kernels : (ToFill(j)' <=> ToFill(j)) /\ (ToDeliver(j)' <=> ToDeliver(j))
  BY <1>1 DEF ToFill, ToDeliver, Live, Handling
<1>5. ToFill(k)
  BY <1>1 DEF ToFill, Live
<1> HIDE DEF i
<1>6. \A j \in Filling' : \E g \in Kernels : config'.sampled /\ kern'[g].id = j /\ ToFill(g)'
  BY <1>1, <1>3, <1>4, <1>5 DEF DeliveryInv, i
<1>7. \A j \in cb'.samples : \E g \in Kernels : config'.sampled /\ kern'[g].id = j /\ ToDeliver(g)'
  BY <1>1, <1>4 DEF DeliveryInv
<1>8. QED
  BY <1>1, <1>2, <1>3, <1>6, <1>7 DEF DeliveryInv

\* A buffer is taken: all that was sampled is delivered next.
LEMMA FlipDelivery ==
  ASSUME HolderInv, DeliveryInv, NEW left, Flip(left), UNCHANGED <<config, q1, q2, kern, handler>>,
         cb.at \in {"idle", "copied"}, cb.q3 = {}, flush' = [at |-> flush'.at, taken |-> flush.taken],
         flush'.at = flush.at \/ (flush.at = "taken" /\ flush'.at = "flushing")
  PROVE  DeliveryInv'
<1>1. /\ cb' = [at |-> "ready", left |-> left, samples |-> Filling, q3 |-> {}]
      /\ rocr' = [halves |-> [rocr.halves EXCEPT ![rocr.filling] = {}], filling |-> 3 - rocr.filling]
  BY DEF Flip, Filling
<1>2. /\ rocr'.halves = [rocr.halves EXCEPT ![rocr.filling] = {}] /\ rocr'.filling = 3 - rocr.filling
      /\ rocr' = [halves |-> rocr'.halves, filling |-> rocr'.filling]
  BY <1>1
<1>3. rocr'.filling \in {1, 2} /\ DOMAIN rocr'.halves = {1, 2} /\ 3 - rocr'.filling = rocr.filling
  BY <1>2 DEF DeliveryInv
<1>4. rocr'.halves[3 - rocr'.filling] = {} /\ Filling' = {}
  BY <1>2, <1>3 DEF DeliveryInv, Filling
<1>5. flush'.taken = flush.taken /\ cb'.q3 = {} /\ cb'.samples = Filling /\ cb'.at = "ready"
  BY <1>1
<1>6. \A k \in Kernels : ToFill(k) => ToDeliver(k)'
  BY <1>5 DEF ToFill, ToDeliver, Live, Handling
<1>7. \A i \in cb'.samples : \E k \in Kernels : config'.sampled /\ kern'[k].id = i /\ ToDeliver(k)'
  BY <1>5, <1>6 DEF DeliveryInv
<1>8. QED
  BY <1>2, <1>3, <1>4, <1>5, <1>7 DEF DeliveryInv

\* Steps after which every kernel may still have what it may have had.
LEMMA PlacesDelivery ==
  ASSUME DeliveryInv, UNCHANGED <<config, rocr, kern>>,
         \A k \in Kernels : (ToFill(k) => ToFill(k)') /\ (ToDeliver(k) => ToDeliver(k)' \/ cb'.samples = {}),
         cb'.samples = cb.samples \/ cb'.samples = {},
         cb'.at \in {"idle", "copied"} => cb'.samples = {}
  PROVE  DeliveryInv'
<1>1. Filling' = Filling
  BY DEF Filling
<1>2. \A i \in Filling' : \E k \in Kernels : config'.sampled /\ kern'[k].id = i /\ ToFill(k)'
  BY <1>1 DEF DeliveryInv
<1>3. \A i \in cb'.samples : \E k \in Kernels : config'.sampled /\ kern'[k].id = i /\ ToDeliver(k)'
  BY DEF DeliveryInv
<1>4. QED
  BY <1>2, <1>3 DEF DeliveryInv

LEMMA HandleSampledDelivery ==
  ASSUME HolderInv, DeliveryInv, HandleSampled
  PROVE  DeliveryInv'
<1>1. /\ handler.at = "dispatched" /\ handler' = [handler EXCEPT !.at = "sampled"]
      /\ q1' = IF config.sampled THEN q1 \cup {handler.n} ELSE q1
      /\ UNCHANGED <<config, rocr, kern, q2, cb, flush>>
  BY DEF HandleSampled, Handling, HandlerGo
<1>2. \A k \in Kernels : kern[k].at = "handled" => k = handler.n
  BY DEF HolderInv, UseInv
<1>3. CASE config.sampled
  <2>1. q1' = q1 \cup {handler.n}
    BY <1>1, <1>3
  <2>2. ASSUME NEW k \in Kernels
        PROVE  (ToFill(k) => ToFill(k)') /\ (ToDeliver(k) => ToDeliver(k)')
    BY <1>1, <1>2, <2>1 DEF ToFill, ToDeliver, Live
  <2>3. QED
    BY <1>1, <2>2, PlacesDelivery DEF DeliveryInv
<1>4. CASE ~config.sampled
  <2>1. Filling = {} /\ cb.samples = {}
    BY <1>4 DEF DeliveryInv
  <2>2. Filling' = {} /\ cb'.samples = {}
    BY <1>1, <2>1 DEF Filling
  <2>3. QED
    BY <1>1, <2>2 DEF DeliveryInv
<1>5. QED
  BY <1>3, <1>4

LEMMA CallbackDelivery ==
  ASSUME HolderInv, DeliveryInv, Watermark \/ Move \/ Deliver \/ Delivered
  PROVE  DeliveryInv'
<1>1. UNCHANGED <<config, q1, kern, handler>> \/ Move
  BY DEF Watermark, Deliver, Delivered
<1>2. /\ cb = [at |-> cb.at, left |-> cb.left, samples |-> cb.samples, q3 |-> cb.q3]
      /\ flush = [at |-> flush.at, taken |-> flush.taken]
      /\ cb.at \in {"idle", "ready"} => cb.q3 = {}
  BY DEF HolderInv, SampleInv, Shapes
<1>3. CASE Watermark
  <2>1. Flip(0) /\ cb.at = "idle" /\ UNCHANGED <<config, q1, q2, kern, handler, flush>>
    BY <1>3 DEF Watermark
  <2>2. cb.q3 = {} /\ flush' = [at |-> flush'.at, taken |-> flush.taken]
    BY <1>2, <2>1
  <2>3. QED
    BY <2>1, <2>2, FlipDelivery
<1>4. CASE Move
  <2>1. /\ cb.at = "ready" /\ q2' = q1 /\ q1' = {}
        /\ cb' = [at |-> "moved", left |-> cb.left, samples |-> cb.samples, q3 |-> q2]
        /\ UNCHANGED <<config, rocr, kern, handler, flush>>
    BY <1>2, <1>4 DEF Move
  <2>2. cb'.at = "moved" /\ cb'.samples = cb.samples /\ cb'.q3 = q2 /\ cb.q3 = {}
    BY <1>2, <2>1
  <2>3. ASSUME NEW k \in Kernels
        PROVE  (ToFill(k) => ToFill(k)') /\ (ToDeliver(k) => ToDeliver(k)')
    BY <2>1, <2>2 DEF ToFill, ToDeliver, Live, Handling
  <2>4. QED
    BY <2>1, <2>2, <2>3, PlacesDelivery
<1>5. CASE Deliver
  <2>1. /\ cb.at = "moved"
        /\ cb' = [at |-> "copied", left |-> cb.left, samples |-> {}, q3 |-> cb.q3]
        /\ UNCHANGED <<config, rocr, kern, handler, flush, q1, q2>>
    BY <1>2, <1>5 DEF Deliver
  <2>2. cb'.at = "copied" /\ cb'.samples = {} /\ cb'.q3 = cb.q3
    BY <2>1
  <2>3. ASSUME NEW k \in Kernels
        PROVE  ToFill(k) => ToFill(k)'
    BY <2>1, <2>2 DEF ToFill, Live, Handling
  <2>4. QED
    BY <2>1, <2>2, <2>3, PlacesDelivery
<1>6. CASE Delivered /\ cb.left > 0
  <2>1. Flip(cb.left - 1) /\ cb.at = "copied" /\ cb.q3 = {}
        /\ UNCHANGED <<config, q1, q2, kern, handler, flush>>
    BY <1>6 DEF Delivered
  <2>2. flush' = [at |-> flush'.at, taken |-> flush.taken]
    BY <1>2, <2>1
  <2>3. QED
    BY <2>1, <2>2, FlipDelivery
<1>7. CASE Delivered /\ ~(cb.left > 0)
  <2>1. /\ cb.at = "copied" /\ cb.q3 = {}
        /\ cb' = [at |-> "idle", left |-> cb.left, samples |-> cb.samples, q3 |-> cb.q3]
        /\ UNCHANGED <<config, rocr, kern, handler, q1, q2>>
    BY <1>2, <1>7 DEF Delivered
  <2>2. /\ flush'.taken = flush.taken
        /\ flush.at = "taken" => flush'.at = "taken"
    BY <1>2, <1>7 DEF Delivered
  <2>3. cb'.at = "idle" /\ cb'.samples = {} /\ cb'.q3 = cb.q3
    BY <2>1 DEF DeliveryInv
  <2>4. ASSUME NEW k \in Kernels
        PROVE  ToFill(k) => ToFill(k)'
    BY <2>1, <2>2, <2>3 DEF ToFill, Live, Handling
  <2>5. QED
    BY <2>1, <2>3, <2>4, PlacesDelivery
<1>8. QED
  BY <1>3, <1>4, <1>5, <1>6, <1>7

LEMMA FlushDelivery ==
  ASSUME HolderInv, DeliveryInv, FlushTake \/ FlushBegin \/ FlushEnd
  PROVE  DeliveryInv'
<1>1. /\ cb = [at |-> cb.at, left |-> cb.left, samples |-> cb.samples, q3 |-> cb.q3]
      /\ flush = [at |-> flush.at, taken |-> flush.taken]
      /\ cb.at \in {"idle", "ready"} => cb.q3 = {}
      /\ flush.at = "idle" => flush.taken = {}
  BY DEF HolderInv, SampleInv, Shapes
<1>2. CASE FlushTake
  <2>1. /\ flush.at = "idle" /\ q1' = {} /\ q2' = {}
        /\ flush' = [at |-> "taken", taken |-> q1 \cup q2]
        /\ UNCHANGED <<config, rocr, kern, handler, cb>>
    BY <1>2 DEF FlushTake
  <2>2. flush'.at = "taken" /\ flush'.taken = q1 \cup q2 /\ flush.taken = {}
    BY <1>1, <2>1
  <2>3. ASSUME NEW k \in Kernels
        PROVE  (ToFill(k) => ToFill(k)') /\ (ToDeliver(k) => ToDeliver(k)')
    BY <2>1, <2>2 DEF ToFill, ToDeliver, Live, Handling
  <2>4. QED
    BY <2>1, <2>3, PlacesDelivery DEF DeliveryInv
<1>3. CASE FlushBegin
  <2>1. /\ flush.at = "taken" /\ cb.at = "idle" /\ Flip(1)
        /\ flush' = [at |-> "flushing", taken |-> flush.taken]
        /\ UNCHANGED <<config, q1, q2, kern, handler>>
    BY <1>1, <1>3 DEF FlushBegin
  <2>2. flush'.at = "flushing" /\ flush' = [at |-> flush'.at, taken |-> flush.taken] /\ cb.q3 = {}
    BY <1>1, <2>1
  <2>3. QED
    BY <2>1, <2>2, FlipDelivery
<1>4. CASE FlushEnd
  <2>1. /\ flush.taken = {} /\ flush' = [at |-> "idle", taken |-> flush.taken]
        /\ UNCHANGED <<config, rocr, q1, q2, kern, handler, cb>>
    BY <1>1, <1>4 DEF FlushEnd
  <2>2. flush'.taken = {}
    BY <2>1
  <2>3. ASSUME NEW k \in Kernels
        PROVE  (ToFill(k) => ToFill(k)') /\ (ToDeliver(k) => ToDeliver(k)')
    BY <2>1, <2>2 DEF ToFill, ToDeliver, Live, Handling
  <2>4. QED
    BY <2>1, <2>3, PlacesDelivery DEF DeliveryInv
<1>5. QED
  BY <1>2, <1>3, <1>4

\* A marker is let go when nothing of its kernel is left to deliver.
LEMMA RetireDelivery ==
  ASSUME HolderInv, DeliveryInv, RetireImplicit \/ RetireExplicit
  PROVE  DeliveryInv'
<1>1. /\ cb = [at |-> cb.at, left |-> cb.left, samples |-> cb.samples, q3 |-> cb.q3]
      /\ flush = [at |-> flush.at, taken |-> flush.taken]
  BY DEF HolderInv, SampleInv, Shapes
<1>2. UNCHANGED <<config, rocr, kern, handler, q1, q2>>
  BY DEF RetireImplicit, RetireExplicit
<1>3. CASE RetireImplicit
  <2>1. PICK g \in cb.q3 :
          cb' = [at |-> cb.at, left |-> cb.left, samples |-> cb.samples, q3 |-> cb.q3 \ {g}]
    BY <1>1, <1>3 DEF RetireImplicit
  <2>2. cb'.at = cb.at /\ cb'.samples = cb.samples /\ cb.samples = {} /\ UNCHANGED flush
    BY <1>3, <2>1 DEF RetireImplicit, DeliveryInv
  <2>3. ASSUME NEW k \in Kernels
        PROVE  ToFill(k) => ToFill(k)'
    BY <1>2, <2>2 DEF ToFill, Live, Handling
  <2>4. QED
    BY <1>2, <2>2, <2>3, PlacesDelivery
<1>4. CASE RetireExplicit
  <2>1. PICK g \in flush.taken : flush' = [at |-> flush.at, taken |-> flush.taken \ {g}]
    BY <1>1, <1>4 DEF RetireExplicit
  <2>2. flush.at = "flushed" /\ flush'.at = flush.at /\ UNCHANGED cb
    BY <1>4, <2>1 DEF RetireExplicit
  <2>3. ASSUME NEW k \in Kernels
        PROVE  (ToFill(k) => ToFill(k)') /\ (ToDeliver(k) => ToDeliver(k)')
    BY <1>2, <2>2 DEF ToFill, ToDeliver, Live, Handling
  <2>4. QED
    BY <1>2, <2>2, <2>3, PlacesDelivery DEF DeliveryInv
<1>5. QED
  BY <1>3, <1>4

-----------------------------------------------------------------------------
\* The steps.
Everything == HolderInv /\ RefsCountHolders /\ LastInv

LEMMA ReportsNothingLate ==
  ASSUME LastInv, NEW is, is \cap retired = {}, Report(is)
  PROVE  late' = {}
BY DEF LastInv, Report

LEMMA ApiLast ==
  ASSUME Everything, NEW t \in Threads, ApiEnter(t) \/ ApiInvoke(t) \/ ApiRecord(t) \/ ApiLeave(t)
  PROVE  LastInv'
<1>1. Counts /\ StackInv /\ DeliveryInv /\ late = {}
  BY DEF Everything, LastInv, Counts
<1>2. ~work[t].own
  BY DEF ApiEnter, ApiInvoke, ApiRecord, ApiLeave, CanCall, NoWork
<1>3. DeliveryInv'
  <2>1. UNCHANGED <<config, rocr, q1, q2, cb, flush, kern, handler>>
    BY DEF ApiEnter, ApiInvoke, ApiRecord, ApiLeave, samplingVars
  <2>2. QED
    BY <1>1, <2>1, StillDelivery
<1>4. CASE ApiEnter(t)
  <2>1. RetiredInv'
    BY <1>1, <1>4, ConstructRetires DEF ApiEnter
  <2>2. StackInv'
    BY <1>1, <1>2, <1>4, ApiEnterStacks DEF ApiEnter, Counts
  <2>3. QED
    BY <1>1, <1>3, <1>4, <2>1, <2>2 DEF ApiEnter, LastInv
<1>5. CASE ApiInvoke(t)
  <2>1. /\ calls[t] # << >> /\ Drop(Last(calls[t]).id) /\ Report({Last(calls[t]).id})
        /\ calls' = [calls EXCEPT ![t][Top(t)].at = "exec"]
        /\ UNCHANGED <<constructed, stack, work>>
    BY <1>5 DEF ApiInvoke
  <2>2. late' = {} /\ RetiredInv'
    BY <1>1, <2>1, CallHolds, DropRetires, ReportsNothingLate DEF Everything
  <2>3. StackInv'
    BY <1>1, <2>1, CallsGoOnStacks DEF Counts
  <2>4. QED
    BY <1>3, <2>2, <2>3 DEF LastInv
<1>6. CASE ApiRecord(t)
  <2>1. /\ calls[t] # << >> /\ Report({Last(calls[t]).id})
        /\ calls' = [calls EXCEPT ![t][Top(t)].at = "exit"]
        /\ UNCHANGED <<constructed, refs, retired, stack, work>>
    BY <1>6 DEF ApiRecord, idVars
  <2>2. late' = {} /\ RetiredInv'
    BY <1>1, <2>1, CallHolds, KeepRetired, ReportsNothingLate DEF Everything, Counts
  <2>3. StackInv'
    BY <1>1, <2>1, CallsGoOnStacks DEF Counts
  <2>4. QED
    BY <1>3, <2>2, <2>3 DEF LastInv
<1>7. CASE ApiLeave(t)
  <2>1. /\ calls[t] # << >> /\ Drop(Last(calls[t]).id) /\ Pop(t)
        /\ calls' = [calls EXCEPT ![t] = Front(@)]
        /\ UNCHANGED <<constructed, work, late>>
    BY <1>7 DEF ApiLeave
  <2>2. RetiredInv'
    BY <1>1, <2>1, CallHolds, DropRetires
  <2>3. StackInv'
    BY <1>1, <1>2, <2>1, ApiLeaveStacks DEF Counts
  <2>4. QED
    BY <1>1, <1>3, <2>1, <2>2, <2>3 DEF LastInv
<1>8. QED
  BY <1>4, <1>5, <1>6, <1>7

LEMMA BeginLast ==
  ASSUME Everything, NEW t \in Threads, KernelBegin(t) \/ CopyBegin(t)
  PROVE  LastInv'
<1>1. Counts /\ StackInv /\ DeliveryInv /\ late = {}
  BY DEF Everything, LastInv, Counts
<1>2. /\ TakeId(t) /\ ~work[t].own
      /\ UNCHANGED <<calls, config, rocr, q1, q2, cb, flush, handler, late>>
  BY DEF KernelBegin, CopyBegin, CanCall, NoWork, samplingVars
<1>3. RetiredInv'
  BY <1>1, <1>2, TakeIdRetires
<1>4. StackInv'
  <2>1. PICK kind, n : Begin(t, kind, n)
    BY DEF KernelBegin, CopyBegin
  <2>2. work' = [work EXCEPT ![t] = [kind |-> kind, n |-> n, at |-> "begun", own |-> Own(t)]]
    BY <2>1 DEF Begin
  <2>3. work'[t].own = Own(t) /\ \A u \in Threads : u # t => work'[u] = work[u]
    BY <1>1, <2>2 DEF Counts, HolderInv, WorkInv
  <2>4. QED
    BY <1>1, <1>2, <2>3, BeginStacks DEF Counts
<1>5. DeliveryInv'
  <2>1. CASE KernelBegin(t)
    <3>1. PICK g \in Kernels :
            /\ kern[g].at = "none"
            /\ \A j \in Kernels : j # g => kern'[j] = kern[j]
      BY <1>1, <2>1 DEF KernelBegin, Next1, Counts, HolderInv, UseInv
    <3>2. ~Live(g) /\ g \notin Waiting
      BY <1>1, <3>1 DEF Live, Counts, HolderInv, SampleInv
    <3>3. \A j \in Kernels : Live(j) \/ j \in Waiting => kern'[j] = kern[j]
      BY <3>1, <3>2
    <3>4. \A j \in Kernels : Live(j) => Live(j)'
      BY <1>2, <3>3 DEF Live, Handling
    <3>5. QED
      BY <1>1, <1>2, <3>3, <3>4, KeepDelivery
  <2>2. CASE CopyBegin(t)
    BY <1>1, <1>2, <2>2, StillDelivery DEF CopyBegin
  <2>3. QED
    BY <2>1, <2>2
<1>6. QED
  BY <1>1, <1>2, <1>3, <1>4, <1>5 DEF LastInv

LEMMA WorkLast ==
  ASSUME Everything, NEW t \in Threads,
         \/ KernelStart(t) \/ KernelMark(t)
         \/ CopyCreate(t) \/ CopyCount(t) \/ CopySignal(t) \/ CopyInvoke(t)
  PROVE  LastInv'
<1>1. Counts /\ StackInv /\ DeliveryInv /\ late = {}
  BY DEF Everything, LastInv, Counts
<1>2. UNCHANGED <<constructed, stack, calls, retired, config, rocr, q1, q2, cb, flush, kern, handler>>
  BY DEF KernelStart, KernelMark, CopyCreate, CopyCount, CopySignal, CopyInvoke, idVars, samplingVars
<1>3. /\ work[t].kind = "kernel" => work[t].n \in Kernels /\ kern[work[t].n].at = "begun"
      /\ work[t].kind = "copy" /\ work[t].at # "invoked" =>
           work[t].n \in Copies /\ copy[work[t].n].at = "begun"
  BY <1>1 DEF Counts, HolderInv, WorkInv
<1>4. late' = {}
  <2>1. CASE KernelStart(t)
    <3>1. kern[work[t].n].id \notin retired
      BY <1>1, <1>3, <2>1, KernelHolds DEF KernelStart, At
    <3>2. QED
      BY <1>1, <2>1, <3>1, ReportsNothingLate DEF KernelStart, Everything
  <2>2. CASE CopyCreate(t)
    <3>1. copy[work[t].n].id \notin retired
      BY <1>1, <1>3, <2>2, CopyHolds DEF CopyCreate, At
    <3>2. QED
      BY <1>1, <2>2, <3>1, ReportsNothingLate DEF CopyCreate, Everything
  <2>3. CASE KernelMark(t) \/ CopyCount(t) \/ CopySignal(t) \/ CopyInvoke(t)
    BY <1>1, <2>3 DEF KernelMark, CopyCount, CopySignal, CopyInvoke
  <2>4. QED
    BY <2>1, <2>2, <2>3
<1>5. RetiredInv'
  <2>1. CASE KernelMark(t) /\ config.sampled
    <3>1. refs' = [refs EXCEPT ![kern[work[t].n].id] = @ + 1] /\ work[t].kind = "kernel"
      BY <2>1 DEF KernelMark, At
    <3>2. kern[work[t].n].id \in Ids /\ kern[work[t].n].id \notin retired
      BY <1>1, <1>3, <3>1, KernelHolds
    <3>3. QED
      BY <1>1, <1>2, <3>1, <3>2, GainRetires
  <2>2. CASE ~(KernelMark(t) /\ config.sampled)
    <3>1. UNCHANGED refs
      BY <2>2 DEF KernelStart, KernelMark, CopyCreate, CopyCount, CopySignal, CopyInvoke, idVars
    <3>2. QED
      BY <1>1, <1>2, <3>1, KeepRetired DEF Counts
  <2>3. QED
    BY <2>1, <2>2
<1>6. StackInv'
  <2>1. PICK a : Go(t, a)
    BY DEF KernelStart, KernelMark, CopyCreate, CopyCount, CopySignal, CopyInvoke
  <2>2. \A u \in Threads : work'[u].own = work[u].own
    BY <1>1, <2>1 DEF Go, Counts, HolderInv, WorkInv
  <2>3. QED
    BY <1>1, <1>2, <2>2, KeepStacks
<1>7. DeliveryInv'
  BY <1>1, <1>2, StillDelivery
<1>8. QED
  BY <1>4, <1>5, <1>6, <1>7 DEF LastInv

LEMMA DoneLast ==
  ASSUME Everything, NEW t \in Threads, KernelWrite(t) \/ CopyReturn(t)
  PROVE  LastInv'
<1>1. Counts /\ StackInv /\ DeliveryInv /\ late = {}
  BY DEF Everything, LastInv, Counts
<1>2. /\ Finish(t, IdOf(work[t]))
      /\ UNCHANGED <<constructed, calls, config, rocr, q1, q2, cb, flush, handler>>
  BY DEF KernelWrite, CopyReturn, At, IdOf, samplingVars
<1>3. RetiredInv'
  BY <1>1, <1>2, FinishRetires
<1>4. StackInv'
  BY <1>1, <1>2, FinishStacks DEF Counts
<1>5. CASE KernelWrite(t)
  <2>1. PICK g \in Kernels : g = work[t].n /\ kern[g].at = "begun"
    BY <1>1, <1>5 DEF KernelWrite, At, Counts, HolderInv, WorkInv
  <2>2. late' = {}
    <3>1. kern[g].id \notin retired
      BY <1>1, <2>1, KernelHolds
    <3>2. QED
      BY <1>1, <1>5, <2>1, <3>1, ReportsNothingLate DEF KernelWrite, Everything
  <2>3. /\ kern'[g].at = "running" /\ kern'[g].id = kern[g].id
        /\ \A j \in Kernels : j # g => kern'[j] = kern[j]
    BY <1>1, <1>5, <2>1 DEF KernelWrite, Counts, HolderInv, UseInv
  <2>4. \A j \in Kernels : Live(j) => Live(j)'
    BY <1>2, <2>3 DEF Live, Handling
  <2>5. DeliveryInv'
    BY <1>1, <1>2, <2>3, <2>4, KeepDelivery
  <2>6. QED
    BY <1>3, <1>4, <2>2, <2>5 DEF LastInv
<1>6. CASE CopyReturn(t)
  <2>1. UNCHANGED <<kern, late>>
    BY <1>6 DEF CopyReturn
  <2>2. DeliveryInv'
    BY <1>1, <1>2, <2>1, StillDelivery
  <2>3. QED
    BY <1>1, <1>3, <1>4, <2>1, <2>2 DEF LastInv
<1>7. QED
  BY <1>5, <1>6

LEMMA KernelStepLast ==
  ASSUME Everything, NEW k \in Kernels, KernelEnds(k) \/ HandleKernel(k)
  PROVE  LastInv'
<1>1. Counts /\ StackInv /\ DeliveryInv /\ late = {}
  BY DEF Everything, LastInv, Counts
<1>2. /\ UNCHANGED <<constructed, refs, retired, stack, calls, work, config, rocr, q1, q2, cb, flush>>
      /\ kern[k].at \in {"running", "complete"}
  BY DEF KernelEnds, HandleKernel, idVars, samplingVars
<1>3. RetiredInv' /\ StackInv'
  BY <1>1, <1>2, KeepRetired, KeepStacks DEF Counts
<1>4. late' = {}
  <2>1. kern[k].id \notin retired
    BY <1>1, <1>2, KernelHolds
  <2>2. UNCHANGED late \/ Report({kern[k].id})
    BY DEF KernelEnds, HandleKernel
  <2>3. QED
    BY <1>1, <2>1, <2>2, ReportsNothingLate DEF Everything
<1>5. DeliveryInv'
  <2>1. \/ kern' = [kern EXCEPT ![k].at = "complete"] /\ UNCHANGED handler
        \/ kern' = [kern EXCEPT ![k].at = "abandoned"] /\ UNCHANGED handler
        \/ /\ kern' = [kern EXCEPT ![k].at = "handled"]
           /\ handler = Idle /\ handler' = [at |-> "dispatched", n |-> k]
    BY DEF KernelEnds, HandleKernel
  <2>2. /\ kern'[k].at \in {"complete", "abandoned", "handled"} /\ kern'[k].id = kern[k].id
        /\ \A j \in Kernels : j # k => kern'[j] = kern[j]
        /\ kern'[k].at = "handled" => handler'.at = "dispatched" /\ handler = Idle
        /\ kern'[k].at # "handled" => UNCHANGED handler
    BY <1>1, <2>1 DEF Counts, HolderInv, UseInv
  <2>3. \A j \in Kernels : Live(j) => Live(j)'
    BY <2>2 DEF Live, Handling, Idle
  <2>4. QED
    BY <1>1, <1>2, <2>2, <2>3, KeepDelivery
<1>6. QED
  BY <1>3, <1>4, <1>5 DEF LastInv

LEMMA CopyStepLast ==
  ASSUME Everything,
         \/ \E c \in Copies : CopyEnds(c) \/ HandleCopy(c)
         \/ HandleCopyCount \/ HandleCopySignal
  PROVE  LastInv'
<1>1. Counts /\ StackInv /\ DeliveryInv /\ late = {}
  BY DEF Everything, LastInv, Counts
<1>2. UNCHANGED <<constructed, refs, retired, stack, calls, work, config, rocr, q1, q2, cb, flush, kern>>
  BY DEF CopyEnds, HandleCopy, HandleCopyCount, HandleCopySignal, idVars, samplingVars
<1>3. RetiredInv' /\ StackInv'
  BY <1>1, <1>2, KeepRetired, KeepStacks DEF Counts
<1>4. late' = {}
  <2>1. UNCHANGED late \/ \E c \in Copies : copy[c].at = "complete" /\ Report({copy[c].id})
    BY DEF CopyEnds, HandleCopy, HandleCopyCount, HandleCopySignal
  <2>2. ASSUME NEW c \in Copies, copy[c].at = "complete", Report({copy[c].id})
        PROVE  late' = {}
    <3>1. copy[c].id \notin retired
      BY <1>1, <2>2, CopyHolds
    <3>2. QED
      BY <2>2, <3>1, ReportsNothingLate DEF Everything
  <2>3. QED
    BY <1>1, <2>1, <2>2
<1>5. handler.at = "dispatched" => handler'.at = "dispatched"
  <2>1. CASE \E c \in Copies : CopyEnds(c) \/ HandleCopy(c)
    BY <2>1 DEF CopyEnds, HandleCopy, Idle
  <2>2. CASE HandleCopyCount \/ HandleCopySignal
    BY <2>2 DEF HandleCopyCount, HandleCopySignal, Handling
  <2>3. QED
    BY <2>1, <2>2
<1>6. DeliveryInv'
  BY <1>1, <1>2, <1>5, StillDelivery
<1>7. QED
  BY <1>3, <1>4, <1>6 DEF LastInv

LEMMA HandlerEndLast ==
  ASSUME Everything, HandleSampled \/ HandleKernelEnd \/ HandleCopyEnd
  PROVE  LastInv'
<1>1. Counts /\ StackInv /\ DeliveryInv /\ late = {}
  BY DEF Everything, LastInv, Counts
<1>2. UNCHANGED <<constructed, stack, calls, work, config, rocr, q2, cb, flush, late>>
  BY DEF HandleSampled, HandleKernelEnd, HandleCopyEnd, idVars, samplingVars
<1>3. StackInv' /\ late' = {}
  BY <1>1, <1>2, KeepStacks
<1>4. CASE HandleSampled
  <2>1. RetiredInv'
    BY <1>1, <1>4, KeepRetired DEF HandleSampled, idVars, Counts
  <2>2. DeliveryInv'
    BY <1>1, <1>4, HandleSampledDelivery DEF Counts
  <2>3. QED
    BY <1>3, <2>1, <2>2 DEF LastInv
<1>5. CASE HandleKernelEnd
  <2>1. PICK g \in Kernels : g = handler.n /\ kern[g].at = "handled"
    BY <1>1, <1>5 DEF HandleKernelEnd, Handling, Counts, HolderInv, UseInv
  <2>2. /\ handler.at = "sampled" /\ Drop(kern[g].id) /\ kern' = [kern EXCEPT ![g].at = "gone"]
        /\ UNCHANGED q1
    BY <1>5, <2>1 DEF HandleKernelEnd, Handling, samplingVars
  <2>3. RetiredInv'
    BY <1>1, <1>2, <2>1, <2>2, KernelHolds, DropRetires
  <2>4. /\ kern'[g].id = kern[g].id
        /\ \A j \in Kernels : j # g => kern'[j] = kern[j]
    BY <1>1, <2>2 DEF Counts, HolderInv, UseInv
  <2>5. \A j \in Kernels : Live(j) => Live(j)'
    BY <2>1, <2>2, <2>4 DEF Live, Handling
  <2>6. DeliveryInv'
    BY <1>1, <1>2, <2>2, <2>4, <2>5, KeepDelivery
  <2>7. QED
    BY <1>3, <2>3, <2>6 DEF LastInv
<1>6. CASE HandleCopyEnd
  <2>1. PICK g \in Copies : g = handler.n /\ copy[g].at = "handled"
    BY <1>1, <1>6 DEF HandleCopyEnd, Handling, Counts, HolderInv, UseInv
  <2>2. handler.at = "ended" /\ Drop(copy[g].id) /\ UNCHANGED <<kern, q1>>
    BY <1>6, <2>1 DEF HandleCopyEnd, Handling, samplingVars
  <2>3. RetiredInv'
    BY <1>1, <1>2, <2>1, <2>2, CopyHolds, DropRetires
  <2>4. DeliveryInv'
    BY <1>1, <1>2, <2>2, StillDelivery
  <2>5. QED
    BY <1>3, <2>3, <2>4 DEF LastInv
<1>7. QED
  BY <1>4, <1>5, <1>6

LEMMA PlacesLast ==
  ASSUME Everything,
         \/ Watermark \/ Move \/ Deliver \/ Delivered \/ FlushTake \/ FlushBegin \/ FlushEnd
  PROVE  LastInv'
<1>1. Counts /\ StackInv /\ DeliveryInv /\ late = {}
  BY DEF Everything, LastInv, Counts
<1>2. UNCHANGED <<constructed, refs, retired, stack, calls, work>>
  BY DEF Watermark, Move, Deliver, Delivered, FlushTake, FlushBegin, FlushEnd, idVars
<1>3. RetiredInv' /\ StackInv'
  BY <1>1, <1>2, KeepRetired, KeepStacks DEF Counts
<1>4. DeliveryInv'
  BY <1>1, CallbackDelivery, FlushDelivery DEF Counts
<1>5. late' = {}
  <2>1. CASE Deliver
    <3>1. Report(cb.samples)
      BY <2>1 DEF Deliver
    <3>2. ASSUME NEW i \in cb.samples
          PROVE  i \notin retired
      <4>1. PICK k \in Kernels : config.sampled /\ kern[k].id = i /\ ToDeliver(k)
        BY <1>1 DEF DeliveryInv
      <4>2. Marked(k)
        BY <4>1 DEF ToDeliver, Live, Marked, Waiting
      <4>3. kern[k].id # 0
        BY <1>1, <4>1 DEF ToDeliver, Live, Waiting, Counts, HolderInv, UseInv, SampleInv
      <4>4. QED
        BY <1>1, <4>1, <4>2, <4>3, KernelHolds
    <3>3. QED
      BY <3>1, <3>2, ReportsNothingLate DEF Everything
  <2>2. CASE ~Deliver
    BY <1>1, <2>2 DEF Watermark, Move, Delivered, FlushTake, FlushBegin, FlushEnd
  <2>3. QED
    BY <2>1, <2>2
<1>6. QED
  BY <1>3, <1>4, <1>5 DEF LastInv

LEMMA RetireLast ==
  ASSUME Everything, RetireImplicit \/ RetireExplicit
  PROVE  LastInv'
<1>1. Counts /\ StackInv /\ DeliveryInv /\ late = {}
  BY DEF Everything, LastInv, Counts
<1>2. UNCHANGED <<constructed, stack, calls, work, late>>
  BY DEF RetireImplicit, RetireExplicit
<1>3. StackInv' /\ late' = {}
  BY <1>1, <1>2, KeepStacks
<1>4. DeliveryInv'
  BY <1>1, RetireDelivery DEF Counts
<1>5. PICK g \in cb.q3 \cup flush.taken : Drop(kern[g].id)
  BY DEF RetireImplicit, RetireExplicit
<1>6. g \in Kernels /\ config.sampled /\ kern[g].id # 0 /\ Marked(g)
  BY <1>1 DEF Counts, HolderInv, SampleInv, Waiting, Marked
<1>7. RetiredInv'
  BY <1>1, <1>2, <1>5, <1>6, KernelHolds, DropRetires
<1>8. QED
  BY <1>3, <1>4, <1>7 DEF LastInv

LEMMA ElsewhereLast ==
  ASSUME Everything, Elsewhere
  PROVE  LastInv'
<1>1. Counts /\ StackInv /\ DeliveryInv /\ late = {}
  BY DEF Everything, LastInv, Counts
<1>2. UNCHANGED <<constructed, refs, retired, stack, calls, work, late>>
  BY DEF Elsewhere, vars, idVars, Sample, FinalizeBegin, Finalizer, SyncBegin, SyncEnd, SyncTimeout,
         Destroy, QueuesSynced, Same
<1>3. RetiredInv' /\ StackInv' /\ late' = {}
  BY <1>1, <1>2, KeepRetired, KeepStacks DEF Counts
<1>4. CASE \E k \in Kernels : Sample(k)
  BY <1>1, <1>3, <1>4, SampleDelivery DEF Counts, LastInv
<1>5. CASE ~\E k \in Kernels : Sample(k)
  <2>1. UNCHANGED <<config, rocr, q1, q2, cb, flush, kern, handler>>
    BY <1>5 DEF Elsewhere, vars, samplingVars, FinalizeBegin, Finalizer, SyncBegin, SyncEnd,
                SyncTimeout, Destroy, QueuesSynced, Same
  <2>2. QED
    BY <1>1, <1>3, <2>1, StillDelivery DEF LastInv
<1>6. QED
  BY <1>4, <1>5

LEMMA StepLast ==
  ASSUME Everything, [Next]_vars
  PROVE  LastInv'
<1>1. ASSUME NEW t \in Threads,
             ApiEnter(t) \/ KernelBegin(t) \/ CopyBegin(t) \/ ApiRecord(t) \/ Thread(t)
      PROVE  LastInv'
  BY <1>1, ApiLast, BeginLast, WorkLast, DoneLast DEF Thread
<1>2. ASSUME Handler \/ (\E k \in Kernels : KernelEnds(k)) \/ \E c \in Copies : CopyEnds(c)
      PROVE  LastInv'
  BY <1>2, KernelStepLast, CopyStepLast, HandlerEndLast DEF Handler
<1>3. ASSUME Watermark \/ Callback \/ FlushTake \/ Flush
      PROVE  LastInv'
  BY <1>3, PlacesLast, RetireLast DEF Callback, Flush
<1>4. QED
  BY <1>1, <1>2, <1>3, ElsewhereLast DEF Next, Elsewhere

LEMMA InitLast ==
  ASSUME Init
  PROVE  LastInv
<1>1. late = {} /\ RetiredInv
  BY DEF Init, RetiredInv
<1>2. StackInv
  <2>1. \A t \in Threads : stack[t] = << >> /\ calls[t] = << >> /\ ~work[t].own
    BY DEF Init, NoWork
  <2>2. Len(<< >>) = 0 /\ DOMAIN << >> = {}
    OBVIOUS
  <2>3. QED
    BY <2>1, <2>2 DEF StackInv
<1>3. DeliveryInv
  <2>1. /\ rocr = [halves |-> << {}, {} >>, filling |-> 1]
        /\ cb = [at |-> "idle", left |-> 0, samples |-> {}, q3 |-> {}]
    BY DEF Init
  <2>2. rocr.halves = << {}, {} >> /\ rocr.filling = 1 /\ cb.samples = {}
    BY <2>1
  <2>3. DOMAIN rocr.halves = {1, 2} /\ rocr.halves[1] = {} /\ rocr.halves[2] = {}
    BY <2>2
  <2>4. QED
    BY <2>1, <2>2, <2>3 DEF DeliveryInv, Filling
<1>4. QED
  BY <1>1, <1>2, <1>3 DEF LastInv

\* No callback, no record and no PC sample carries an id after its retirement
\* (correlation_id.cpp's sub_ref_count; cid_manager.cpp's two queues, which let a marker
\* go only when the samples of both buffers were delivered).
THEOREM NothingAfterRetirement == Spec => []RetirementIsLast
<1>1. Init => Everything
  BY InitCounts, InitLast DEF Everything
<1>2. Everything /\ [Next]_vars => Everything'
  BY StepInvariant, StepCounts, StepLast DEF Everything
<1>3. Everything => RetirementIsLast
  BY DEF Everything, LastInv, RetirementIsLast
<1>4. QED
  BY <1>1, <1>2, <1>3, PTL DEF Spec

-----------------------------------------------------------------------------
\* Types: the counts of ids, _active_kernels and the count of active_signals never fall
\* below zero, and every id that is held was constructed (correlation_id.cpp, queue.hpp,
\* async_copy.cpp).
THEOREM TypeCorrect == Spec => []TypeOK
<1>1. Init => Everything /\ TypesInv
  BY InitCounts, InitLast, InitTypes DEF Everything
<1>2. Everything /\ TypesInv /\ [Next]_vars => Everything' /\ TypesInv'
  BY StepInvariant, StepCounts, StepLast, StepTypes DEF Everything
<1>3. Everything /\ TypesInv => TypeOK
  <2>1. Everything => retired \subseteq Ids
    <3>1. HolderInv => Made \subseteq Ids
      BY CorrelationAssumption DEF HolderInv, CallsInv, Made, Ids
    <3>2. QED
      BY <3>1 DEF Everything, LastInv, RetiredInv
  <2>2. QED
    BY <2>1, TypesImplied DEF Everything
<1>4. QED
  BY <1>1, <1>2, <1>3, PTL DEF Spec
=============================================================================
