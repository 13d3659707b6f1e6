------------------------ MODULE CorrelationIdsProofs ------------------------
(***************************************************************************)
(* The count of a correlation id is the number of its holders, for any     *)
(* number of threads, ids, kernels and copies.  A count is taken by the    *)
(* step that makes the holder and given up by the one that unmakes it; the *)
(* strengthening says who may be what at the same time, so that no holder  *)
(* is made twice or unmade twice.                                          *)
(***************************************************************************)
EXTENDS CorrelationIds, FiniteSetTheorems, SequenceTheorems, TLAPS

Made == 1 .. constructed
Call == [id : Made, at : {"enter", "exec", "exit"}]

\* Ids are handed out in order, and calls, threads and their work refer to those handed out.
CallsInv ==
  /\ constructed \in Nat /\ constructed <= MaxIds
  /\ config \in Instances
  /\ refs \in [Ids -> Int]
  /\ stack \in [Threads -> Seq(Made)]
  /\ calls \in [Threads -> Seq(Call)]
  /\ \A t \in Threads : Len(calls[t]) <= MaxDepth

WorkAts == {"idle", "begun", "started", "marked", "created", "counted", "ready", "invoked"}

\* A kernel or a copy is started by one thread; a kernel is not written before that
\* thread is done, a copy not before it is ready.
WorkInv ==
  /\ work \in [Threads -> [kind : {"none", "kernel", "copy"}, n : Nat, at : WorkAts, own : BOOLEAN]]
  /\ \A t \in Threads :
       /\ work[t].kind = "none" => ~work[t].own
       /\ work[t].kind = "kernel" => work[t].n \in Kernels /\ kern[work[t].n].at = "begun"
       /\ work[t].kind = "copy" =>
            /\ work[t].n \in Copies /\ copy[work[t].n].at # "none" /\ copy[work[t].n].id # 0
            /\ work[t].at # "invoked" => copy[work[t].n].at = "begun"
       /\ \A u \in Threads :
            work[t].kind = work[u].kind /\ work[t].kind # "none" /\ work[t].n = work[u].n => t = u

UseAts == {"none", "begun", "running", "refused", "complete", "handled", "abandoned", "gone"}
HandlerAts == {"idle", "dispatched", "sampled", "copied", "uncounted", "ended"}

\* One handler runs at a time, and what it handles is still there.
UseInv ==
  /\ kern \in [Kernels -> [at : UseAts, id : 0 .. constructed]]
  /\ copy \in [Copies -> [at : UseAts, id : 0 .. constructed]]
  /\ \A k \in Kernels : kern[k].at \notin {"none", "gone"} => kern[k].id # 0
  /\ \A c \in Copies : copy[c].at \notin {"none", "gone"} => copy[c].id # 0
  /\ handler \in [at : HandlerAts, n : Nat]
  /\ handler.at \in {"dispatched", "sampled"} =>
       handler.n \in Kernels /\ kern[handler.n].at = "handled"
  /\ \A k \in Kernels :
       kern[k].at = "handled" => handler.n = k /\ handler.at \in {"dispatched", "sampled"}
  /\ handler.at \in {"copied", "uncounted", "ended"} =>
       handler.n \in Copies /\ copy[handler.n].at = "handled"

Shapes ==
  /\ cb = [at |-> cb.at, left |-> cb.left, samples |-> cb.samples, q3 |-> cb.q3]
  /\ flush = [at |-> flush.at, taken |-> flush.taken]

\* A kernel that awaits its samples is in one of the four places, each of them emptied
\* before it is used again.
SampleInv ==
  /\ q1 \subseteq Kernels /\ q2 \subseteq Kernels
  /\ Shapes
  /\ cb.q3 \subseteq Kernels /\ flush.taken \subseteq Kernels
  /\ q1 \cap q2 = {} /\ (q1 \cup q2) \cap (cb.q3 \cup flush.taken) = {}
  /\ cb.q3 \cap flush.taken = {}
  /\ \A k \in Waiting :
       /\ config.sampled /\ kern[k].id # 0
       /\ kern[k].at = "gone" \/ (kern[k].at = "handled" /\ handler.at = "sampled")
  /\ cb.at \in {"idle", "ready"} => cb.q3 = {}
  /\ flush.at = "idle" => flush.taken = {}

HolderInv == CallsInv /\ WorkInv /\ UseInv /\ SampleInv

-----------------------------------------------------------------------------
Counted == <<constructed, refs, stack, calls, config>>
Uses == <<work, kern, copy, handler>>
Sampled == <<q1, q2, cb, flush>>

LEMMA KeepCalls ==
  ASSUME CallsInv, UNCHANGED Counted
  PROVE  CallsInv'
BY DEF CallsInv, Counted, Made, Call

LEMMA KeepWork ==
  ASSUME WorkInv, UNCHANGED <<work, kern, copy>>
  PROVE  WorkInv'
BY DEF WorkInv

LEMMA KeepUses ==
  ASSUME UseInv, UNCHANGED <<kern, copy, handler, constructed>>
  PROVE  UseInv'
BY DEF UseInv

LEMMA KeepSamples ==
  ASSUME SampleInv, UNCHANGED <<Sampled, kern, handler, config>>
  PROVE  SampleInv'
BY DEF SampleInv, Shapes, Sampled, Waiting

\* Construct and TakeId hand out the next id, or count the latest of the thread.
LEMMA SeqGrows ==
  ASSUME NEW S, NEW T, S \subseteq T, NEW s \in Seq(S)
  PROVE  s \in Seq(T)
OBVIOUS

LEMMA ConstructCalls ==
  ASSUME CallsInv, NEW t \in Threads, NEW n \in Int, Construct(t, n)
  PROVE  /\ constructed' = constructed + 1 /\ constructed' \in Ids /\ Made \subseteq Made'
         /\ refs' \in [Ids -> Int] /\ stack' \in [Threads -> Seq(Made')]
         /\ Last(stack'[t]) = constructed'
         /\ refs' = [refs EXCEPT ![constructed'] = n]
<1>1. /\ constructed' = constructed + 1 /\ constructed' \in Ids /\ Made \subseteq Made'
      /\ constructed' \in Made' /\ refs' = [refs EXCEPT ![constructed'] = n]
  BY CorrelationAssumption DEF CallsInv, Construct, Ids, Made
<1>2. \A u \in Threads : stack[u] \in Seq(Made')
  BY <1>1, SeqGrows DEF CallsInv
<1>3. stack' = [stack EXCEPT ![t] = Append(@, constructed')]
  BY DEF Construct
<1>4. stack' \in [Threads -> Seq(Made')] /\ stack'[t] = Append(stack[t], constructed')
  BY <1>1, <1>2, <1>3 DEF CallsInv
<1>5. Last(stack'[t]) = constructed'
  BY <1>2, <1>4 DEF Last
<1>6. QED
  BY <1>1, <1>4, <1>5 DEF CallsInv

LEMMA TakeIdCalls ==
  ASSUME CallsInv, NEW t \in Threads, TakeId(t)
  PROVE  /\ constructed' \in Nat /\ constructed' <= MaxIds /\ constructed <= constructed'
         /\ Made \subseteq Made' /\ refs' \in [Ids -> Int] /\ stack' \in [Threads -> Seq(Made')]
         /\ Last(stack'[t]) \in Made'
<1>1. CASE Own(t)
  <2>1. Construct(t, 2)
    BY <1>1 DEF TakeId
  <2>2. /\ constructed' = constructed + 1 /\ constructed' \in Ids /\ Made \subseteq Made'
        /\ refs' \in [Ids -> Int] /\ stack' \in [Threads -> Seq(Made')]
        /\ Last(stack'[t]) = constructed'
    BY <2>1, ConstructCalls
  <2>3. constructed \in Nat
    BY DEF CallsInv
  <2>4. constructed' \in Made'
    BY <2>2, <2>3 DEF Made
  <2>5. QED
    BY <2>2, <2>3, <2>4, CorrelationAssumption DEF Ids
<1>2. CASE ~Own(t)
  <2>1. /\ UNCHANGED <<constructed, stack>>
        /\ refs' = [refs EXCEPT ![Last(stack[t])] = @ + 1]
    BY <1>2 DEF TakeId
  <2>2. Last(stack[t]) \in Made
    BY <1>2 DEF Own, Last, CallsInv
  <2>3. QED
    BY <2>1, <2>2, CorrelationAssumption DEF CallsInv, Ids, Made
<1>3. QED
  BY <1>1, <1>2

LEMMA FinishCalls ==
  ASSUME CallsInv, NEW t \in Threads, NEW i \in Ids, Finish(t, i)
  PROVE  refs' \in [Ids -> Int] /\ stack' \in [Threads -> Seq(Made)]
<1>1. \A s \in Seq(Made) : Front(s) \in Seq(Made)
  <2>1. ASSUME NEW s \in Seq(Made)
        PROVE  SubSeq(s, 1, Len(s) - 1) \in Seq(Made)
    OBVIOUS
  <2>2. QED
    BY <2>1 DEF Front
<1>2. CASE work[t].own
  <2>1. /\ refs' = [refs EXCEPT ![i] = @ - 1]
        /\ stack' = [stack EXCEPT ![t] = Front(@)]
    BY <1>2 DEF Finish, Drop, Pop
  <2>2. QED
    BY <1>1, <2>1 DEF CallsInv
<1>3. CASE ~work[t].own
  BY <1>3 DEF Finish, CallsInv
<1>4. QED
  BY <1>2, <1>3

-----------------------------------------------------------------------------
\* Calls of the traced API: the innermost call of a thread.
LEMMA SeqFront ==
  ASSUME NEW S, NEW s \in Seq(S), s # << >>
  PROVE  /\ Front(s) \in Seq(S) /\ Len(Front(s)) = Len(s) - 1
         /\ DOMAIN Front(s) = 1 .. Len(s) - 1
         /\ \A i \in 1 .. Len(s) - 1 : Front(s)[i] = s[i]
<1> DEFINE n == Len(s) - 1
<1>1. n \in Nat /\ 1 \in Int /\ \A i \in 1 .. n : s[i] \in S
  OBVIOUS
<1> HIDE DEF n
<1>2. /\ SubSeq(s, 1, n) \in Seq(S)
      /\ Len(SubSeq(s, 1, n)) = IF 1 <= n THEN n - 1 + 1 ELSE 0
      /\ \A i \in 1 .. n - 1 + 1 : SubSeq(s, 1, n)[i] = s[1 + i - 1]
  BY <1>1, SubSeqProperties
<1> DEFINE f == SubSeq(s, 1, n)
<1>3. Front(s) = f
  BY DEF Front, n
<1> HIDE DEF f
<1>4. f \in Seq(S) /\ Len(f) = n /\ \A i \in 1 .. n : f[i] = s[i]
  BY <1>1, <1>2 DEF f
<1>5. DOMAIN f = 1 .. n
  BY <1>4
<1>6. QED
  BY <1>3, <1>4, <1>5 DEF n

LEMMA SeqExcept ==
  ASSUME NEW S, NEW s \in Seq(S), NEW n \in DOMAIN s, NEW e \in S
  PROVE  /\ [s EXCEPT ![n] = e] \in Seq(S) /\ Len([s EXCEPT ![n] = e]) = Len(s)
         /\ DOMAIN [s EXCEPT ![n] = e] = DOMAIN s
         /\ \A i \in DOMAIN s : [s EXCEPT ![n] = e][i] = IF i = n THEN e ELSE s[i]
OBVIOUS

LEMMA TopCall ==
  ASSUME CallsInv, NEW t \in Threads, calls[t] # << >>
  PROVE  /\ Top(t) \in DOMAIN calls[t] /\ Top(t) \in 1 .. MaxDepth /\ Top(t) = Len(calls[t])
         /\ DOMAIN calls[t] = 1 .. Top(t) /\ calls[t] \in Seq(Call)
         /\ Last(calls[t]) = calls[t][Top(t)] /\ Last(calls[t]) \in Call
         /\ Last(calls[t]).id \in Ids /\ Last(calls[t]).id \in Made
<1>1. calls[t] \in Seq(Call) /\ Len(calls[t]) <= MaxDepth
  BY DEF CallsInv
<1>2. Len(calls[t]) \in Nat /\ Len(calls[t]) > 0 /\ DOMAIN calls[t] = 1 .. Len(calls[t])
  BY <1>1
<1>3. Last(calls[t]) = calls[t][Top(t)] /\ Last(calls[t]) \in Call
  BY <1>1, <1>2 DEF Last, Top
<1>4. Last(calls[t]).id \in Made
  BY <1>3 DEF Call
<1>5. Last(calls[t]).id \in Ids
  BY <1>4, CorrelationAssumption DEF Made, Ids, CallsInv
<1>6. QED
  BY <1>1, <1>2, <1>3, <1>4, <1>5, CorrelationAssumption DEF Top

\* It goes on.
LEMMA CallGoesOn ==
  ASSUME CallsInv, NEW t \in Threads, calls[t] # << >>, NEW a \in {"enter", "exec", "exit"},
         calls' = [calls EXCEPT ![t][Top(t)].at = a]
  PROVE  /\ calls' \in [Threads -> Seq(Call)]
         /\ \A u \in Threads :
              /\ Len(calls'[u]) = Len(calls[u]) /\ DOMAIN calls'[u] = DOMAIN calls[u]
              /\ \A d \in DOMAIN calls[u] :
                   calls'[u][d] = IF u = t /\ d = Top(t) THEN [id |-> calls[u][d].id, at |-> a]
                                  ELSE calls[u][d]
<1> DEFINE c == [id |-> calls[t][Top(t)].id, at |-> a]
<1>1. Top(t) \in DOMAIN calls[t] /\ calls[t] \in Seq(Call) /\ calls[t][Top(t)] \in Call
  BY TopCall
<1>2. c \in Call
  BY <1>1 DEF Call
<1>3. [calls[t][Top(t)] EXCEPT !.at = a] = c
  BY <1>1 DEF Call
<1>4. calls' = [calls EXCEPT ![t] = [calls[t] EXCEPT ![Top(t)] = [calls[t][Top(t)] EXCEPT !.at = a]]]
  OBVIOUS
<1>5. calls' = [calls EXCEPT ![t] = [calls[t] EXCEPT ![Top(t)] = c]]
  BY <1>3, <1>4
<1> HIDE DEF c
<1>6. /\ [calls[t] EXCEPT ![Top(t)] = c] \in Seq(Call)
      /\ Len([calls[t] EXCEPT ![Top(t)] = c]) = Len(calls[t])
      /\ DOMAIN [calls[t] EXCEPT ![Top(t)] = c] = DOMAIN calls[t]
      /\ \A d \in DOMAIN calls[t] :
           [calls[t] EXCEPT ![Top(t)] = c][d] = IF d = Top(t) THEN c ELSE calls[t][d]
  BY <1>1, <1>2, SeqExcept
<1> DEFINE s == [calls[t] EXCEPT ![Top(t)] = c]
<1> HIDE DEF s
<1>7. \A u \in Threads : calls'[u] = IF u = t THEN s ELSE calls[u]
  BY <1>5 DEF CallsInv, s
<1>8. calls' \in [Threads -> Seq(Call)]
  BY <1>5, <1>6 DEF CallsInv, s
<1>9. QED
  BY <1>6, <1>7, <1>8 DEF s, c

\* It returns.
LEMMA CallReturns ==
  ASSUME CallsInv, NEW t \in Threads, calls[t] # << >>, calls' = [calls EXCEPT ![t] = Front(@)]
  PROVE  /\ calls' \in [Threads -> Seq(Call)]
         /\ \A u \in Threads :
              /\ Len(calls'[u]) <= Len(calls[u])
              /\ DOMAIN calls'[u] = DOMAIN calls[u] \ (IF u = t THEN {Top(t)} ELSE {})
              /\ \A d \in DOMAIN calls'[u] : calls'[u][d] = calls[u][d]
<1> DEFINE f == Front(calls[t])
<1>1. /\ f \in Seq(Call) /\ Len(f) = Len(calls[t]) - 1
      /\ DOMAIN f = 1 .. Len(calls[t]) - 1
      /\ \A i \in 1 .. Len(calls[t]) - 1 : f[i] = calls[t][i]
  BY SeqFront DEF CallsInv
<1> HIDE DEF f
<1>2. calls' = [calls EXCEPT ![t] = f]
  BY DEF f
<1>3. \A u \in Threads : calls'[u] = IF u = t THEN f ELSE calls[u]
  BY <1>2 DEF CallsInv
<1>4. calls' \in [Threads -> Seq(Call)]
  BY <1>1, <1>2 DEF CallsInv
<1>5. Top(t) = Len(calls[t]) /\ DOMAIN calls[t] = 1 .. Top(t) /\ Top(t) \in Nat
  BY DEF Top, CallsInv
<1>6. DOMAIN f = DOMAIN calls[t] \ {Top(t)} /\ Len(f) <= Len(calls[t])
  BY <1>1, <1>5
<1>7. \A u \in Threads : Len(calls[u]) <= Len(calls[u])
  BY DEF CallsInv
<1>8. QED
  BY <1>1, <1>3, <1>4, <1>5, <1>6, <1>7

\* It begins.
LEMMA CallBegins ==
  ASSUME CallsInv, NEW t \in Threads, Construct(t, 2), Len(calls[t]) < config.depth,
         calls' = [calls EXCEPT ![t] = Append(@, [id |-> constructed', at |-> "enter"])]
  PROVE  /\ calls' \in [Threads -> Seq(Call')]
         /\ \A u \in Threads :
              /\ Len(calls'[u]) <= MaxDepth
              /\ DOMAIN calls'[u] = DOMAIN calls[u] \cup (IF u = t THEN {Len(calls[t]) + 1} ELSE {})
              /\ \A d \in DOMAIN calls[u] : calls'[u][d] = calls[u][d]
         /\ calls'[t][Len(calls[t]) + 1] = [id |-> constructed', at |-> "enter"]
         /\ Len(calls[t]) + 1 \in 1 .. MaxDepth /\ Len(calls[t]) + 1 \notin DOMAIN calls[t]
<1> DEFINE c == [id |-> constructed', at |-> "enter"]
           s == Append(calls[t], c)
<1>1. constructed' \in Made' /\ Made \subseteq Made'
  BY ConstructCalls DEF CallsInv, Made
<1>2. c \in Call' /\ Call \subseteq Call'
  BY <1>1 DEF Call
<1>3. \A u \in Threads : calls[u] \in Seq(Call')
  BY <1>2, SeqGrows DEF CallsInv
<1>4. config.depth \in Nat /\ config.depth <= MaxDepth
  BY CorrelationAssumption DEF CallsInv
<1> HIDE DEF c
<1>5. /\ s \in Seq(Call') /\ Len(s) = Len(calls[t]) + 1 /\ s[Len(calls[t]) + 1] = c
      /\ DOMAIN s = DOMAIN calls[t] \cup {Len(calls[t]) + 1}
      /\ \A d \in DOMAIN calls[t] : s[d] = calls[t][d]
  BY <1>2, <1>3
<1>6. calls' = [calls EXCEPT ![t] = s]
  BY DEF c
<1> HIDE DEF s
<1>7. \A u \in Threads : calls'[u] = IF u = t THEN s ELSE calls[u]
  BY <1>6 DEF CallsInv
<1>8. calls' \in [Threads -> Seq(Call')]
  BY <1>3, <1>5, <1>6 DEF CallsInv
<1>9. Len(calls[t]) \in Nat /\ DOMAIN calls[t] = 1 .. Len(calls[t])
  BY <1>3
<1>10. Len(calls[t]) + 1 \in 1 .. MaxDepth /\ Len(calls[t]) + 1 \notin DOMAIN calls[t]
  BY <1>4, <1>9, CorrelationAssumption
<1>11. \A u \in Threads : Len(calls'[u]) <= MaxDepth
  BY <1>5, <1>7, <1>10 DEF CallsInv
<1>12. QED
  BY <1>5, <1>7, <1>8, <1>10, <1>11 DEF c

LEMMA ApiInvariant ==
  ASSUME HolderInv, NEW t \in Threads,
         ApiEnter(t) \/ ApiInvoke(t) \/ ApiRecord(t) \/ ApiLeave(t)
  PROVE  HolderInv'
<1>1. UNCHANGED <<work, kern, copy, handler, Sampled, config>>
  BY DEF ApiEnter, ApiInvoke, ApiRecord, ApiLeave, samplingVars, Sampled
<1>0. CallsInv
  BY DEF HolderInv
<1>2. CallsInv' /\ constructed' \in Nat /\ constructed <= constructed'
  <2>1. CASE ApiEnter(t)
    <3>1. /\ Construct(t, 2) /\ Len(calls[t]) < config.depth
          /\ calls' = [calls EXCEPT ![t] = Append(@, [id |-> constructed', at |-> "enter"])]
      BY <2>1 DEF ApiEnter
    <3>2. calls' \in [Threads -> Seq(Call')] /\ \A u \in Threads : Len(calls'[u]) <= MaxDepth
      BY <1>0, <3>1, CallBegins
    <3>3. /\ constructed' = constructed + 1 /\ constructed' \in Ids
          /\ refs' \in [Ids -> Int] /\ stack' \in [Threads -> Seq(Made')]
      BY <1>0, <3>1, ConstructCalls
    <3>4. QED
      BY <1>0, <1>1, <3>2, <3>3, CorrelationAssumption DEF CallsInv, Ids
  <2>2. CASE ~ApiEnter(t)
    <3>1. calls[t] # << >> /\ UNCHANGED constructed
      BY <2>2 DEF ApiInvoke, ApiRecord, ApiLeave, idVars
    <3>2. Last(calls[t]).id \in Ids
      BY <1>0, <3>1, TopCall
    <3>3. refs' \in [Ids -> Int]
      BY <1>0, <2>2, <3>2 DEF ApiInvoke, ApiRecord, ApiLeave, Drop, idVars, CallsInv
    <3>4. stack' \in [Threads -> Seq(Made)]
      <4>1. \A s \in Seq(Made) : SubSeq(s, 1, Len(s) - 1) \in Seq(Made)
        OBVIOUS
      <4>2. QED
        BY <1>0, <2>2, <4>1 DEF ApiInvoke, ApiRecord, ApiLeave, Pop, Front, idVars, CallsInv
    <3>5. calls' \in [Threads -> Seq(Call)] /\ \A u \in Threads : Len(calls'[u]) <= Len(calls[u])
      <4>1. CASE ApiLeave(t)
        <5>1. calls' = [calls EXCEPT ![t] = Front(@)]
          BY <4>1 DEF ApiLeave
        <5>2. QED
          BY <1>0, <3>1, <5>1, CallReturns
      <4>2. CASE ApiInvoke(t) \/ ApiRecord(t)
        <5>1. PICK a \in {"enter", "exec", "exit"} : calls' = [calls EXCEPT ![t][Top(t)].at = a]
          BY <4>2 DEF ApiInvoke, ApiRecord
        <5>2. calls' \in [Threads -> Seq(Call)] /\ \A u \in Threads : Len(calls'[u]) = Len(calls[u])
          BY <1>0, <3>1, <5>1, CallGoesOn
        <5>3. \A u \in Threads : Len(calls[u]) \in Nat
          BY <1>0 DEF CallsInv
        <5>4. QED
          BY <5>2, <5>3
      <4>3. QED
        BY <2>2, <4>1, <4>2
    <3>6. \A u \in Threads : Len(calls'[u]) \in Nat /\ Len(calls[u]) \in Nat
      BY <1>0, <3>5 DEF CallsInv
    <3>7. \A u \in Threads : Len(calls'[u]) <= MaxDepth
      BY <1>0, <3>5, <3>6, CorrelationAssumption DEF CallsInv
    <3>8. Made' = Made /\ Call' = Call
      BY <3>1 DEF Made, Call
    <3>9. QED
      BY <1>0, <1>1, <3>1, <3>3, <3>4, <3>5, <3>7, <3>8 DEF CallsInv
  <2>3. QED
    BY <2>1, <2>2
<1>3. WorkInv' /\ SampleInv'
  BY <1>1, KeepWork, KeepSamples DEF HolderInv
<1>4. UseInv'
  BY <1>1, <1>2 DEF HolderInv, UseInv, CallsInv
<1>5. QED
  BY <1>2, <1>3, <1>4 DEF HolderInv

-----------------------------------------------------------------------------
\* Work that is under way has an id that was handed out.
LEMMA UsesHaveIds ==
  ASSUME HolderInv
  PROVE  /\ \A k \in Kernels : kern[k].id # 0 => kern[k].id \in Ids /\ kern[k].id \in Made
         /\ \A c \in Copies : copy[c].id # 0 => copy[c].id \in Ids /\ copy[c].id \in Made
         /\ \A k \in Kernels : kern[k].at \notin {"none", "gone"} => kern[k].id \in Ids
         /\ \A c \in Copies : copy[c].at \notin {"none", "gone"} => copy[c].id \in Ids
<1>1. constructed \in Nat /\ constructed <= MaxIds /\ MaxIds \in Nat
  BY CorrelationAssumption DEF HolderInv, CallsInv
<1>2. \A k \in Kernels : kern[k].id \in 0 .. constructed
  BY DEF HolderInv, UseInv
<1>3. \A c \in Copies : copy[c].id \in 0 .. constructed
  BY DEF HolderInv, UseInv
<1>4. \A i \in 0 .. constructed : i # 0 => i \in Ids /\ i \in Made
  BY <1>1 DEF Ids, Made
<1>5. QED
  BY <1>2, <1>3, <1>4 DEF HolderInv, UseInv

\* A kernel or a copy begins: its number was not in use.
LEMMA KernelBeginInvariant ==
  ASSUME HolderInv, NEW t \in Threads, KernelBegin(t)
  PROVE  HolderInv'
<1>1. /\ TakeId(t) /\ CanCall(t)
      /\ UNCHANGED <<calls, copy, handler, Sampled, config>>
  BY DEF KernelBegin, samplingVars, Sampled
<1>2. PICK k \in Kernels :
        /\ kern[k].at = "none"
        /\ kern' = [kern EXCEPT ![k] = [at |-> "begun", id |-> Last(stack'[t])]]
        /\ work' = [work EXCEPT ![t] = [kind |-> "kernel", n |-> k, at |-> "begun", own |-> Own(t)]]
  BY DEF KernelBegin, Next1, Begin, HolderInv, UseInv
<1>3. /\ constructed' \in Nat /\ constructed' <= MaxIds /\ constructed <= constructed'
      /\ Made \subseteq Made' /\ refs' \in [Ids -> Int] /\ stack' \in [Threads -> Seq(Made')]
      /\ Last(stack'[t]) \in Made'
  BY <1>1, TakeIdCalls DEF HolderInv
<1>4. CallsInv'
  <2>1. Call \subseteq Call'
    BY <1>3 DEF Call
  <2>2. \A u \in Threads : calls[u] \in Seq(Call')
    BY <2>1, SeqGrows DEF HolderInv, CallsInv
  <2>3. QED
    BY <1>1, <1>3, <2>2 DEF HolderInv, CallsInv
<1>5. Last(stack'[t]) \in 1 .. constructed' /\ constructed \in Nat
  BY <1>3 DEF Made, HolderInv, CallsInv
<1>6. UseInv'
  <2>1. /\ kern' \in [Kernels -> [at : UseAts, id : 0 .. constructed']]
        /\ copy' \in [Copies -> [at : UseAts, id : 0 .. constructed']]
    BY <1>1, <1>2, <1>3, <1>5 DEF HolderInv, UseInv, UseAts
  <2>2. QED
    BY <1>1, <1>2, <1>5, <2>1 DEF HolderInv, UseInv
<1>7. WorkInv'
  <2>1. work' \in [Threads -> [kind : {"none", "kernel", "copy"}, n : Nat, at : WorkAts, own : BOOLEAN]]
    BY <1>2 DEF HolderInv, WorkInv, WorkAts, Own, Kernels
  <2>2. \A u \in Threads : work[u].kind = "kernel" => work[u].n # k
    BY <1>2 DEF HolderInv, WorkInv
  <2>3. QED
    BY <1>1, <1>2, <2>1, <2>2 DEF HolderInv, WorkInv, UseInv
<1>8. SampleInv'
  <2>1. k \notin Waiting /\ Waiting' = Waiting
    BY <1>1, <1>2 DEF HolderInv, SampleInv, Waiting, Sampled
  <2>2. \A j \in Kernels : j # k => kern'[j] = kern[j]
    BY <1>2 DEF HolderInv, UseInv
  <2>3. QED
    BY <1>1, <2>1, <2>2 DEF HolderInv, SampleInv, Shapes, Waiting, Sampled
<1>9. QED
  BY <1>4, <1>6, <1>7, <1>8 DEF HolderInv

LEMMA CopyBeginInvariant ==
  ASSUME HolderInv, NEW t \in Threads, CopyBegin(t)
  PROVE  HolderInv'
<1>1. /\ TakeId(t) /\ CanCall(t)
      /\ UNCHANGED <<calls, kern, handler, Sampled, config>>
  BY DEF CopyBegin, samplingVars, Sampled
<1>2. PICK c \in Copies :
        /\ copy[c].at = "none"
        /\ copy' = [copy EXCEPT ![c] = [at |-> "begun", id |-> Last(stack'[t])]]
        /\ work' = [work EXCEPT ![t] = [kind |-> "copy", n |-> c, at |-> "begun", own |-> Own(t)]]
  BY DEF CopyBegin, Next1, Begin, HolderInv, UseInv
<1>3. /\ constructed' \in Nat /\ constructed' <= MaxIds /\ constructed <= constructed'
      /\ Made \subseteq Made' /\ refs' \in [Ids -> Int] /\ stack' \in [Threads -> Seq(Made')]
      /\ Last(stack'[t]) \in Made'
  BY <1>1, TakeIdCalls DEF HolderInv
<1>4. CallsInv'
  <2>1. Call \subseteq Call'
    BY <1>3 DEF Call
  <2>2. \A u \in Threads : calls[u] \in Seq(Call')
    BY <2>1, SeqGrows DEF HolderInv, CallsInv
  <2>3. QED
    BY <1>1, <1>3, <2>2 DEF HolderInv, CallsInv
<1>5. Last(stack'[t]) \in 1 .. constructed' /\ constructed \in Nat
  BY <1>3 DEF Made, HolderInv, CallsInv
<1>6. UseInv'
  <2>1. /\ kern' \in [Kernels -> [at : UseAts, id : 0 .. constructed']]
        /\ copy' \in [Copies -> [at : UseAts, id : 0 .. constructed']]
    BY <1>1, <1>2, <1>3, <1>5 DEF HolderInv, UseInv, UseAts
  <2>2. QED
    BY <1>1, <1>2, <1>5, <2>1 DEF HolderInv, UseInv
<1>7. WorkInv'
  <2>1. work' \in [Threads -> [kind : {"none", "kernel", "copy"}, n : Nat, at : WorkAts, own : BOOLEAN]]
    BY <1>2 DEF HolderInv, WorkInv, WorkAts, Own, Copies
  <2>2. \A u \in Threads : work[u].kind = "copy" => work[u].n # c
    BY <1>2 DEF HolderInv, WorkInv
  <2>3. /\ copy'[c].at = "begun" /\ copy'[c].id # 0
        /\ \A j \in Copies : j # c => copy'[j] = copy[j]
    BY <1>2, <1>5 DEF HolderInv, UseInv
  <2>4. \A u \in Threads :
          work'[u] = IF u = t THEN [kind |-> "copy", n |-> c, at |-> "begun", own |-> Own(t)]
                     ELSE work[u]
    BY <1>2 DEF HolderInv, WorkInv
  <2>5. QED
    BY <1>1, <2>1, <2>2, <2>3, <2>4 DEF HolderInv, WorkInv
<1>8. SampleInv'
  BY <1>1, KeepSamples DEF HolderInv
<1>9. QED
  BY <1>4, <1>6, <1>7, <1>8 DEF HolderInv

\* The thread goes on with it.
LEMMA WorkGoesOn ==
  ASSUME HolderInv, NEW t \in Threads,
         KernelStart(t) \/ KernelMark(t) \/ CopyCreate(t) \/ CopyCount(t) \/ CopySignal(t)
  PROVE  HolderInv'
<1>1. UNCHANGED <<constructed, stack, calls, config, kern, copy, handler, Sampled>>
  BY DEF KernelStart, KernelMark, CopyCreate, CopyCount, CopySignal, idVars, samplingVars, Sampled
<1>2. PICK a \in WorkAts \ {"invoked"} : work' = [work EXCEPT ![t].at = a]
  BY DEF KernelStart, KernelMark, CopyCreate, CopyCount, CopySignal, Go, WorkAts
<1>3. work[t].kind \in {"kernel", "copy"} /\ work[t].at # "invoked"
  BY DEF KernelStart, KernelMark, CopyCreate, CopyCount, CopySignal, At
<1>4. refs' \in [Ids -> Int]
  <2>1. CASE KernelMark(t)
    <3>1. work[t].n \in Kernels /\ kern[work[t].n].at = "begun"
      BY <2>1 DEF KernelMark, At, HolderInv, WorkInv
    <3>2. kern[work[t].n].id \in Ids
      BY <3>1, UsesHaveIds
    <3>3. QED
      BY <2>1, <3>2 DEF KernelMark, HolderInv, CallsInv
  <2>2. CASE ~KernelMark(t)
    BY <2>2 DEF KernelStart, CopyCreate, CopyCount, CopySignal, idVars, HolderInv, CallsInv
  <2>3. QED
    BY <2>1, <2>2
<1>5. CallsInv'
  BY <1>1, <1>4 DEF HolderInv, CallsInv, Made, Call
<1>6. WorkInv'
  BY <1>1, <1>2, <1>3 DEF HolderInv, WorkInv
<1>7. UseInv' /\ SampleInv'
  BY <1>1, KeepUses, KeepSamples DEF HolderInv
<1>8. QED
  BY <1>5, <1>6, <1>7 DEF HolderInv

\* It is written, or invoked, or the thread is done.
LEMMA KernelWriteInvariant ==
  ASSUME HolderInv, NEW t \in Threads, KernelWrite(t)
  PROVE  HolderInv'
<1> DEFINE k == work[t].n
<1>1. /\ work[t].kind = "kernel" /\ Finish(t, kern[k].id) /\ work' = [work EXCEPT ![t] = NoWork]
      /\ kern' = [kern EXCEPT ![k].at = "running"]
      /\ UNCHANGED <<constructed, calls, config, copy, handler, Sampled>>
  BY DEF KernelWrite, At, Finish, samplingVars, Sampled
<1>2. k \in Kernels /\ kern[k].at = "begun"
  BY <1>1 DEF HolderInv, WorkInv
<1>3. kern[k].id \in Ids
  BY <1>2, UsesHaveIds
<1> HIDE DEF k
<1>4. refs' \in [Ids -> Int] /\ stack' \in [Threads -> Seq(Made)]
  BY <1>1, <1>3, FinishCalls DEF HolderInv
<1>5. CallsInv'
  BY <1>1, <1>4 DEF HolderInv, CallsInv, Made, Call
<1>6. /\ kern' \in [Kernels -> [at : UseAts, id : 0 .. constructed]]
      /\ kern'[k].at = "running" /\ kern'[k].id = kern[k].id
      /\ \A j \in Kernels : j # k => kern'[j] = kern[j]
  BY <1>1, <1>2 DEF HolderInv, UseInv, UseAts
<1>7. UseInv'
  BY <1>1, <1>2, <1>6 DEF HolderInv, UseInv
<1>8. WorkInv'
  <2>1. work' \in [Threads -> [kind : {"none", "kernel", "copy"}, n : Nat, at : WorkAts, own : BOOLEAN]]
    BY <1>1 DEF HolderInv, WorkInv, NoWork, WorkAts
  <2>2. \A u \in Threads : work'[u] = IF u = t THEN NoWork ELSE work[u]
    BY <1>1 DEF HolderInv, WorkInv
  <2>3. \A u \in Threads : u # t /\ work[u].kind = "kernel" => work[u].n # k
    BY <1>1 DEF HolderInv, WorkInv, k
  <2>4. QED
    BY <1>1, <1>6, <2>1, <2>2, <2>3 DEF HolderInv, WorkInv, NoWork
<1>9. SampleInv'
  BY <1>1, <1>2, <1>6 DEF HolderInv, SampleInv, Shapes, Waiting, Sampled
<1>10. QED
  BY <1>5, <1>7, <1>8, <1>9 DEF HolderInv

LEMMA CopyInvokeInvariant ==
  ASSUME HolderInv, NEW t \in Threads, CopyInvoke(t)
  PROVE  HolderInv'
<1> DEFINE c == work[t].n
<1>1. PICK a \in {"running", "refused"} : copy' = [copy EXCEPT ![c].at = a]
  BY DEF CopyInvoke
<1>2. /\ work[t].kind = "copy" /\ work[t].at = "ready" /\ work' = [work EXCEPT ![t].at = "invoked"]
      /\ UNCHANGED <<Counted, kern, handler, Sampled>>
  BY DEF CopyInvoke, At, Go, idVars, Counted, samplingVars, Sampled
<1>3. c \in Copies /\ copy[c].at = "begun"
  BY <1>2 DEF HolderInv, WorkInv
<1>4. \A u \in Threads : u # t /\ work[u].kind = "copy" => work[u].n # c
  BY <1>2 DEF HolderInv, WorkInv
<1> HIDE DEF c
<1>5. CallsInv' /\ SampleInv'
  BY <1>2, KeepCalls, KeepSamples DEF HolderInv, Counted
<1>6. /\ copy' \in [Copies -> [at : UseAts, id : 0 .. constructed]]
      /\ copy'[c].at = a /\ copy'[c].id = copy[c].id
      /\ \A j \in Copies : j # c => copy'[j] = copy[j]
  BY <1>1, <1>3 DEF HolderInv, UseInv, UseAts
<1>7. UseInv'
  BY <1>2, <1>3, <1>6 DEF HolderInv, UseInv, Counted
<1>8. WorkInv'
  <2>1. work' \in [Threads -> [kind : {"none", "kernel", "copy"}, n : Nat, at : WorkAts, own : BOOLEAN]]
    BY <1>2 DEF HolderInv, WorkInv, WorkAts
  <2>2. /\ \A u \in Threads : u # t => work'[u] = work[u]
        /\ work'[t].kind = "copy" /\ work'[t].n = c /\ work'[t].at = "invoked"
    BY <1>2 DEF HolderInv, WorkInv, c
  <2>3. \A u \in Threads : work'[u].kind = work[u].kind /\ work'[u].n = work[u].n
    BY <1>2 DEF HolderInv, WorkInv
  <2>4. QED
    BY <1>2, <1>3, <1>4, <1>6, <2>1, <2>2, <2>3 DEF HolderInv, WorkInv
<1>9. QED
  BY <1>5, <1>7, <1>8 DEF HolderInv

LEMMA CopyReturnInvariant ==
  ASSUME HolderInv, NEW t \in Threads, CopyReturn(t)
  PROVE  HolderInv'
<1> DEFINE c == work[t].n
<1>1. /\ work[t].kind = "copy" /\ Finish(t, copy[c].id) /\ work' = [work EXCEPT ![t] = NoWork]
      /\ UNCHANGED <<constructed, calls, config, kern, copy, handler, Sampled>>
  BY DEF CopyReturn, At, Finish, samplingVars, Sampled
<1>2. CallsInv'
  <2>1. c \in Copies /\ copy[c].id # 0
    BY <1>1 DEF HolderInv, WorkInv
  <2>2. copy[c].id \in Ids
    BY <2>1, UsesHaveIds
  <2> HIDE DEF c
  <2>3. refs' \in [Ids -> Int] /\ stack' \in [Threads -> Seq(Made)]
    BY <1>1, <2>2, FinishCalls DEF HolderInv
  <2>4. QED
    BY <1>1, <2>3 DEF HolderInv, CallsInv, Made, Call
<1>3. WorkInv'
  <2>1. work' \in [Threads -> [kind : {"none", "kernel", "copy"}, n : Nat, at : WorkAts, own : BOOLEAN]]
    BY <1>1 DEF HolderInv, WorkInv, NoWork, WorkAts
  <2>2. \A u \in Threads : work'[u] = IF u = t THEN NoWork ELSE work[u]
    BY <1>1 DEF HolderInv, WorkInv
  <2>3. QED
    BY <1>1, <2>1, <2>2 DEF HolderInv, WorkInv, NoWork
<1>4. UseInv' /\ SampleInv'
  BY <1>1, KeepUses, KeepSamples DEF HolderInv
<1>5. QED
  BY <1>2, <1>3, <1>4 DEF HolderInv

-----------------------------------------------------------------------------
\* The hardware and the completion handlers.
LEMMA KernelStepInvariant ==
  ASSUME HolderInv, NEW k \in Kernels, KernelEnds(k) \/ HandleKernel(k)
  PROVE  HolderInv'
<1>1. UNCHANGED <<Counted, work, copy, Sampled>>
  BY DEF KernelEnds, HandleKernel, idVars, Counted, samplingVars, Sampled
<1>2. kern[k].at \in {"running", "complete"}
  BY DEF KernelEnds, HandleKernel
<1>3. \/ kern' = [kern EXCEPT ![k].at = "complete"] /\ UNCHANGED handler
      \/ kern' = [kern EXCEPT ![k].at = "abandoned"] /\ UNCHANGED handler
      \/ /\ kern' = [kern EXCEPT ![k].at = "handled"]
         /\ handler = Idle /\ handler' = [at |-> "dispatched", n |-> k]
  BY DEF KernelEnds, HandleKernel
<1>4. /\ kern' \in [Kernels -> [at : UseAts, id : 0 .. constructed]]
      /\ kern'[k].at \in {"complete", "abandoned", "handled"} /\ kern'[k].id = kern[k].id
      /\ \A j \in Kernels : j # k => kern'[j] = kern[j]
  BY <1>3 DEF HolderInv, UseInv, UseAts
<1>5. CallsInv'
  BY <1>1, KeepCalls DEF HolderInv, Counted
<1>6. WorkInv'
  BY <1>1, <1>2, <1>4 DEF HolderInv, WorkInv
<1>7. UseInv'
  <2>1. handler' \in [at : HandlerAts, n : Nat]
    BY <1>3 DEF HolderInv, UseInv, HandlerAts, Kernels
  <2>2. kern'[k].at = "handled" => handler = Idle /\ handler' = [at |-> "dispatched", n |-> k]
    BY <1>3 DEF HolderInv, UseInv
  <2>3. kern'[k].at # "handled" => UNCHANGED handler
    BY <1>3 DEF HolderInv, UseInv
  <2>4. constructed' = constructed
    BY <1>1 DEF Counted
  <2>5. CASE kern'[k].at = "handled"
    BY <1>1, <1>2, <1>4, <2>1, <2>2, <2>4, <2>5 DEF HolderInv, UseInv, Idle
  <2>6. CASE kern'[k].at # "handled"
    BY <1>1, <1>2, <1>4, <2>1, <2>3, <2>4, <2>6 DEF HolderInv, UseInv
  <2>7. QED
    BY <2>5, <2>6
<1>8. SampleInv'
  <2>1. k \notin Waiting /\ Waiting' = Waiting /\ Waiting \subseteq Kernels
    BY <1>1, <1>2 DEF HolderInv, SampleInv, Waiting, Sampled
  <2>2. handler'.at = handler.at \/ handler.at = "idle"
    BY <1>3 DEF Idle
  <2>3. \A j \in Waiting :
          config.sampled /\ kern'[j].id # 0
          /\ (kern'[j].at = "gone" \/ (kern'[j].at = "handled" /\ handler'.at = "sampled"))
    BY <1>4, <2>1, <2>2 DEF HolderInv, SampleInv
  <2>4. QED
    BY <1>1, <2>1, <2>3 DEF HolderInv, SampleInv, Shapes, Sampled, Counted
<1>9. QED
  BY <1>5, <1>6, <1>7, <1>8 DEF HolderInv

LEMMA CopyStepInvariant ==
  ASSUME HolderInv, NEW c \in Copies, CopyEnds(c) \/ HandleCopy(c)
  PROVE  HolderInv'
<1>1. UNCHANGED <<Counted, work, kern, Sampled>>
  BY DEF CopyEnds, HandleCopy, idVars, Counted, samplingVars, Sampled
<1>2. copy[c].at \in {"running", "complete"}
  BY DEF CopyEnds, HandleCopy
<1>3. \/ copy' = [copy EXCEPT ![c].at = "complete"] /\ UNCHANGED handler /\ copy[c].at = "running"
      \/ copy' = [copy EXCEPT ![c].at = "abandoned"] /\ UNCHANGED handler /\ handler = Idle
      \/ /\ copy' = [copy EXCEPT ![c].at = "handled"]
         /\ handler = Idle /\ handler' = [at |-> "copied", n |-> c]
  BY DEF CopyEnds, HandleCopy
<1>4. /\ copy' \in [Copies -> [at : UseAts, id : 0 .. constructed]]
      /\ copy'[c].at \in {"complete", "abandoned", "handled"} /\ copy'[c].id = copy[c].id
      /\ \A j \in Copies : j # c => copy'[j] = copy[j]
  BY <1>3 DEF HolderInv, UseInv, UseAts
<1>5. CallsInv'
  BY <1>1, KeepCalls DEF HolderInv, Counted
<1>6. WorkInv'
  BY <1>1, <1>2, <1>4 DEF HolderInv, WorkInv
<1>7. UseInv'
  <2>1. handler' \in [at : HandlerAts, n : Nat]
    BY <1>3 DEF HolderInv, UseInv, HandlerAts, Copies
  <2>2. copy'[c].at = "handled" => handler = Idle /\ handler' = [at |-> "copied", n |-> c]
    BY <1>3 DEF HolderInv, UseInv
  <2>3. copy'[c].at # "handled" => UNCHANGED handler
    BY <1>3 DEF HolderInv, UseInv
  <2>4. constructed' = constructed
    BY <1>1 DEF Counted
  <2>5. CASE copy'[c].at = "handled"
    BY <1>1, <1>2, <1>4, <2>1, <2>2, <2>4, <2>5 DEF HolderInv, UseInv, Idle
  <2>6. CASE copy'[c].at # "handled"
    BY <1>1, <1>2, <1>4, <2>1, <2>3, <2>4, <2>6 DEF HolderInv, UseInv
  <2>7. QED
    BY <2>5, <2>6
<1>8. SampleInv'
  <2>1. Waiting' = Waiting
    BY <1>1 DEF Waiting, Sampled
  <2>2. handler'.at = handler.at \/ handler.at = "idle"
    BY <1>3 DEF Idle
  <2>3. QED
    BY <1>1, <2>1, <2>2 DEF HolderInv, SampleInv, Shapes, Sampled, Counted
<1>9. QED
  BY <1>5, <1>6, <1>7, <1>8 DEF HolderInv

LEMMA HandleSampledInvariant ==
  ASSUME HolderInv, HandleSampled
  PROVE  HolderInv'
<1> DEFINE k == handler.n
<1>1. /\ handler.at = "dispatched" /\ handler' = [handler EXCEPT !.at = "sampled"]
      /\ q1' = IF config.sampled THEN q1 \cup {k} ELSE q1
      /\ UNCHANGED <<Counted, work, kern, copy, q2, cb, flush>>
  BY DEF HandleSampled, Handling, HandlerGo, idVars, Counted
<1>2. k \in Kernels /\ kern[k].at = "handled" /\ kern[k].id # 0
  BY <1>1 DEF HolderInv, UseInv
<1>3. k \notin Waiting
  BY <1>1, <1>2 DEF HolderInv, SampleInv
<1>4. handler' = [at |-> "sampled", n |-> k]
  BY <1>1 DEF HolderInv, UseInv
<1>5. CallsInv' /\ WorkInv'
  BY <1>1, KeepCalls, KeepWork DEF HolderInv, Counted
<1>6. UseInv'
  <2>1. handler' \in [at : HandlerAts, n : Nat]
    BY <1>2, <1>4 DEF HandlerAts, Kernels
  <2>2. QED
    BY <1>1, <1>2, <1>4, <2>1 DEF HolderInv, UseInv, Counted
<1>7. SampleInv'
  <2>1. Waiting' = IF config.sampled THEN Waiting \cup {k} ELSE Waiting
    BY <1>1 DEF Waiting
  <2>2. config' = config /\ handler'.at = "sampled"
    BY <1>1, <1>4 DEF Counted
  <2> HIDE DEF k
  <2>3. \A j \in Waiting' :
          /\ config'.sampled /\ kern'[j].id # 0
          /\ kern'[j].at = "gone" \/ (kern'[j].at = "handled" /\ handler'.at = "sampled")
    BY <1>1, <1>2, <2>1, <2>2 DEF HolderInv, SampleInv
  <2>4. QED
    BY <1>1, <1>2, <1>3, <2>3 DEF HolderInv, SampleInv, Shapes, Waiting
<1>8. QED
  BY <1>5, <1>6, <1>7 DEF HolderInv

LEMMA HandleKernelEndInvariant ==
  ASSUME HolderInv, HandleKernelEnd
  PROVE  HolderInv'
<1> DEFINE k == handler.n
<1>1. /\ handler.at = "sampled" /\ handler' = Idle /\ kern' = [kern EXCEPT ![k].at = "gone"]
      /\ refs' = [refs EXCEPT ![kern[k].id] = @ - 1]
      /\ UNCHANGED <<constructed, stack, calls, config, work, copy, Sampled>>
  BY DEF HandleKernelEnd, Handling, Drop, samplingVars, Sampled
<1>2. k \in Kernels /\ kern[k].at = "handled" /\ kern[k].id # 0
  BY <1>1 DEF HolderInv, UseInv
<1>3. kern[k].id \in Ids
  BY <1>2, UsesHaveIds
<1>4. \A j \in Kernels : kern[j].at = "handled" => j = k
  BY DEF HolderInv, UseInv
<1> HIDE DEF k
<1>5. CallsInv'
  <2>1. refs' \in [Ids -> Int]
    BY <1>1, <1>3 DEF HolderInv, CallsInv
  <2>2. Made' = Made /\ Call' = Call
    BY <1>1 DEF Made, Call
  <2>3. QED
    BY <1>1, <2>1, <2>2 DEF HolderInv, CallsInv
<1>6. /\ kern' \in [Kernels -> [at : UseAts, id : 0 .. constructed]]
      /\ kern'[k].at = "gone" /\ kern'[k].id = kern[k].id
      /\ \A j \in Kernels : j # k => kern'[j] = kern[j]
  BY <1>1, <1>2 DEF HolderInv, UseInv, UseAts
<1>7. WorkInv'
  BY <1>1, <1>2, <1>6 DEF HolderInv, WorkInv
<1>8. UseInv'
  BY <1>1, <1>2, <1>4, <1>6 DEF HolderInv, UseInv, Idle, HandlerAts
<1>9. SampleInv'
  <2>1. Waiting' = Waiting /\ Waiting \subseteq Kernels /\ config' = config
    BY <1>1 DEF HolderInv, SampleInv, Waiting, Sampled
  <2>2. \A j \in Waiting : kern'[j].at = "gone" /\ kern'[j].id # 0 /\ config.sampled
    BY <1>2, <1>4, <1>6, <2>1 DEF HolderInv, SampleInv
  <2>3. QED
    BY <1>1, <2>1, <2>2 DEF HolderInv, SampleInv, Shapes, Sampled
<1>10. QED
  BY <1>5, <1>7, <1>8, <1>9 DEF HolderInv

LEMMA HandleCopyInvariant ==
  ASSUME HolderInv, HandleCopyCount \/ HandleCopySignal
  PROVE  HolderInv'
<1>1. /\ handler.at \in {"copied", "uncounted"}
      /\ \E a \in {"uncounted", "ended"} : handler' = [handler EXCEPT !.at = a]
      /\ UNCHANGED <<Counted, work, kern, copy, Sampled>>
  BY DEF HandleCopyCount, HandleCopySignal, Handling, HandlerGo, idVars, Counted, samplingVars,
         Sampled
<1>2. CallsInv' /\ WorkInv'
  BY <1>1, KeepCalls, KeepWork DEF HolderInv, Counted
<1>3. UseInv'
  BY <1>1 DEF HolderInv, UseInv, HandlerAts, Counted
<1>4. SampleInv'
  <2>1. Waiting' = Waiting /\ handler.at # "sampled"
    BY <1>1 DEF Waiting, Sampled
  <2>2. QED
    BY <1>1, <2>1 DEF HolderInv, SampleInv, Shapes, Sampled, Counted
<1>5. QED
  BY <1>2, <1>3, <1>4 DEF HolderInv

LEMMA HandleCopyEndInvariant ==
  ASSUME HolderInv, HandleCopyEnd
  PROVE  HolderInv'
<1> DEFINE c == handler.n
<1>1. /\ handler.at = "ended" /\ handler' = Idle /\ copy' = [copy EXCEPT ![c].at = "gone"]
      /\ refs' = [refs EXCEPT ![copy[c].id] = @ - 1]
      /\ UNCHANGED <<constructed, stack, calls, config, work, kern, Sampled>>
  BY DEF HandleCopyEnd, Handling, Drop, samplingVars, Sampled
<1>2. c \in Copies /\ copy[c].at = "handled" /\ copy[c].id # 0
  BY <1>1 DEF HolderInv, UseInv
<1>3. copy[c].id \in Ids
  BY <1>2, UsesHaveIds
<1> HIDE DEF c
<1>5. CallsInv'
  <2>1. refs' \in [Ids -> Int]
    BY <1>1, <1>3 DEF HolderInv, CallsInv
  <2>2. Made' = Made /\ Call' = Call
    BY <1>1 DEF Made, Call
  <2>3. QED
    BY <1>1, <2>1, <2>2 DEF HolderInv, CallsInv
<1>6. /\ copy' \in [Copies -> [at : UseAts, id : 0 .. constructed]]
      /\ copy'[c].at = "gone" /\ copy'[c].id = copy[c].id
      /\ \A j \in Copies : j # c => copy'[j] = copy[j]
  BY <1>1, <1>2 DEF HolderInv, UseInv, UseAts
<1>7. WorkInv'
  BY <1>1, <1>2, <1>6 DEF HolderInv, WorkInv
<1>8. UseInv'
  BY <1>1, <1>2, <1>6 DEF HolderInv, UseInv, Idle, HandlerAts
<1>9. SampleInv'
  <2>1. Waiting' = Waiting /\ handler.at # "sampled"
    BY <1>1 DEF Waiting, Sampled
  <2>2. QED
    BY <1>1, <2>1 DEF HolderInv, SampleInv, Shapes, Sampled
<1>10. QED
  BY <1>5, <1>7, <1>8, <1>9 DEF HolderInv

-----------------------------------------------------------------------------
\* The places of the kernels that await their samples.
LEMMA PlacesInvariant ==
  ASSUME HolderInv,
         \/ Watermark \/ Move \/ Deliver \/ Delivered \/ FlushTake \/ FlushBegin \/ FlushEnd
  PROVE  HolderInv' /\ Waiting' = Waiting /\ UNCHANGED <<Counted, Uses>>
<1>1. UNCHANGED <<Counted, Uses>>
  BY DEF Watermark, Move, Deliver, Delivered, FlushTake, FlushBegin, FlushEnd, idVars, Counted, Uses
<1>2. CallsInv' /\ WorkInv' /\ UseInv'
  BY <1>1, KeepCalls, KeepWork, KeepUses DEF HolderInv, Counted, Uses
<1>3. SampleInv' /\ Waiting' = Waiting
  <2>1. CASE Watermark \/ FlushBegin
    BY <1>1, <2>1 DEF Watermark, FlushBegin, Flip, HolderInv, SampleInv, Shapes, Waiting, Counted, Uses
  <2>2. CASE Move
    <3>1. /\ cb.at = "ready" /\ cb' = [cb EXCEPT !.at = "moved", !.q3 = q2]
          /\ q2' = q1 /\ q1' = {} /\ flush' = flush /\ cb.q3 = {}
      BY <2>2 DEF Move, HolderInv, SampleInv, Shapes
    <3>2. cb' = [at |-> "moved", left |-> cb.left, samples |-> cb.samples, q3 |-> q2]
      BY <3>1 DEF HolderInv, SampleInv, Shapes
    <3>3. Waiting' = Waiting
      BY <3>1, <3>2 DEF Waiting
    <3>4. QED
      BY <1>1, <3>1, <3>2, <3>3 DEF HolderInv, SampleInv, Shapes, Counted, Uses
  <2>3. CASE Deliver
    <3>1. cb' = [at |-> "copied", left |-> cb.left, samples |-> {}, q3 |-> cb.q3]
      BY <2>3 DEF Deliver, HolderInv, SampleInv, Shapes
    <3>2. UNCHANGED <<q1, q2, flush>>
      BY <2>3 DEF Deliver
    <3>3. Waiting' = Waiting
      BY <3>1, <3>2 DEF Waiting
    <3>4. QED
      BY <1>1, <3>1, <3>2, <3>3 DEF HolderInv, SampleInv, Shapes, Counted, Uses
  <2>4. CASE Delivered
    <3>1. UNCHANGED <<q1, q2>> /\ cb.q3 = {}
      BY <2>4 DEF Delivered
    <3>2. /\ cb' = [at |-> cb'.at, left |-> cb'.left, samples |-> cb'.samples, q3 |-> {}]
          /\ flush' = [at |-> flush'.at, taken |-> flush.taken]
          /\ flush'.at = flush.at \/ (flush.at = "flushing" /\ flush'.at = "flushed")
      BY <2>4, <3>1 DEF Delivered, Flip, HolderInv, SampleInv, Shapes
    <3>3. Waiting' = Waiting
      BY <3>1, <3>2 DEF Waiting
    <3>4. QED
      BY <1>1, <3>1, <3>2, <3>3 DEF HolderInv, SampleInv, Shapes, Counted, Uses
  <2>5. CASE FlushTake
    <3>1. /\ flush' = [at |-> "taken", taken |-> q1 \cup q2] /\ q1' = {} /\ q2' = {} /\ cb' = cb
          /\ flush.taken = {}
      BY <2>5 DEF FlushTake, HolderInv, SampleInv, Shapes
    <3>2. Waiting' = Waiting
      BY <3>1 DEF Waiting
    <3>3. QED
      BY <1>1, <3>1, <3>2 DEF HolderInv, SampleInv, Shapes, Counted, Uses
  <2>6. CASE FlushEnd
    BY <1>1, <2>6 DEF FlushEnd, HolderInv, SampleInv, Shapes, Waiting, Counted, Uses
  <2>7. QED
    BY <2>1, <2>2, <2>3, <2>4, <2>5, <2>6
<1>4. QED
  BY <1>1, <1>2, <1>3 DEF HolderInv

\* A kernel leaves the place where it waited, and its marker's count goes.
Retires(g) ==
  /\ refs' = [refs EXCEPT ![kern[g].id] = @ - 1]
  /\ Waiting' = Waiting \ {g}
  /\ cb' = [cb EXCEPT !.q3 = @ \ {g}] /\ flush' = [flush EXCEPT !.taken = @ \ {g}]

LEMMA RetireTakes ==
  ASSUME HolderInv, RetireImplicit \/ RetireExplicit
  PROVE  \E g \in cb.q3 \cup flush.taken : Retires(g)
<1>1. CASE RetireImplicit
  <2>1. PICK g \in cb.q3 : /\ refs' = [refs EXCEPT ![kern[g].id] = @ - 1]
                           /\ cb' = [cb EXCEPT !.q3 = @ \ {g}]
    BY <1>1 DEF RetireImplicit, Drop
  <2>2. UNCHANGED <<q1, q2, flush>>
    BY <1>1 DEF RetireImplicit
  <2>3. cb'.q3 = cb.q3 \ {g}
    BY <2>1 DEF HolderInv, SampleInv, Shapes
  <2>4. g \notin q1 \cup q2 \cup flush.taken
    BY <2>1 DEF HolderInv, SampleInv, Shapes
  <2>5. flush' = [flush EXCEPT !.taken = @ \ {g}]
    <3>1. flush.taken \ {g} = flush.taken
      BY <2>4
    <3>2. QED
      BY <2>2, <3>1 DEF HolderInv, SampleInv, Shapes
  <2>6. Waiting' = Waiting \ {g}
    BY <2>2, <2>3, <2>4 DEF Waiting
  <2>7. QED
    BY <2>1, <2>5, <2>6 DEF Retires
<1>2. CASE RetireExplicit
  <2>1. PICK g \in flush.taken : /\ refs' = [refs EXCEPT ![kern[g].id] = @ - 1]
                                 /\ flush' = [flush EXCEPT !.taken = @ \ {g}]
    BY <1>2 DEF RetireExplicit, Drop
  <2>2. UNCHANGED <<q1, q2, cb>>
    BY <1>2 DEF RetireExplicit
  <2>3. flush'.taken = flush.taken \ {g}
    BY <2>1 DEF HolderInv, SampleInv, Shapes
  <2>4. g \notin q1 \cup q2 \cup cb.q3
    BY <2>1 DEF HolderInv, SampleInv, Shapes
  <2>5. cb' = [cb EXCEPT !.q3 = @ \ {g}]
    <3>1. cb.q3 \ {g} = cb.q3
      BY <2>4
    <3>2. QED
      BY <2>2, <3>1 DEF HolderInv, SampleInv, Shapes
  <2>6. Waiting' = Waiting \ {g}
    BY <2>2, <2>3, <2>4 DEF Waiting
  <2>7. QED
    BY <2>1, <2>5, <2>6 DEF Retires
<1>3. QED
  BY <1>1, <1>2

LEMMA RetireInvariant ==
  ASSUME HolderInv, RetireImplicit \/ RetireExplicit
  PROVE  HolderInv'
<1>1. PICK g \in cb.q3 \cup flush.taken :
        /\ refs' = [refs EXCEPT ![kern[g].id] = @ - 1]
        /\ Waiting' = Waiting \ {g}
        /\ cb' = [cb EXCEPT !.q3 = @ \ {g}] /\ flush' = [flush EXCEPT !.taken = @ \ {g}]
  BY RetireTakes DEF Retires
<1>2. UNCHANGED <<constructed, stack, calls, config, Uses, q1, q2>>
  BY DEF RetireImplicit, RetireExplicit, Uses
<1>3. g \in Waiting /\ g \in Kernels /\ kern[g].id # 0
  BY <1>1 DEF HolderInv, SampleInv, Shapes, Waiting
<1>4. kern[g].id \in Ids
  BY <1>3, UsesHaveIds
<1>5. CallsInv'
  <2>1. refs' \in [Ids -> Int]
    BY <1>1, <1>4 DEF HolderInv, CallsInv
  <2>2. Made' = Made /\ Call' = Call
    BY <1>2 DEF Made, Call
  <2>3. QED
    BY <1>2, <2>1, <2>2 DEF HolderInv, CallsInv
<1>6. WorkInv' /\ UseInv'
  BY <1>2, KeepWork, KeepUses DEF HolderInv, Uses
<1>7. SampleInv'
  <2>1. /\ cb' = [at |-> cb.at, left |-> cb.left, samples |-> cb.samples, q3 |-> cb.q3 \ {g}]
        /\ flush' = [at |-> flush.at, taken |-> flush.taken \ {g}]
    BY <1>1 DEF HolderInv, SampleInv, Shapes
  <2>2. \A j \in Waiting' :
          /\ config.sampled /\ kern[j].id # 0
          /\ kern[j].at = "gone" \/ (kern[j].at = "handled" /\ handler.at = "sampled")
    BY <1>1 DEF HolderInv, SampleInv, Shapes
  <2>3. /\ cb'.at = cb.at /\ cb'.left = cb.left /\ cb'.samples = cb.samples
        /\ cb'.q3 = cb.q3 \ {g}
        /\ flush'.at = flush.at /\ flush'.taken = flush.taken \ {g}
    BY <2>1
  <2>4. Shapes'
    BY <2>1, <2>3 DEF Shapes
  <2>5. UNCHANGED <<q1, q2, config, kern, handler>>
    BY <1>2 DEF Uses
  <2>6. /\ q1' \subseteq Kernels /\ q2' \subseteq Kernels
        /\ cb'.q3 \subseteq Kernels /\ flush'.taken \subseteq Kernels
        /\ q1' \cap q2' = {} /\ (q1' \cup q2') \cap (cb'.q3 \cup flush'.taken) = {}
        /\ cb'.q3 \cap flush'.taken = {}
    BY <2>3, <2>5 DEF HolderInv, SampleInv
  <2>7. /\ cb'.at \in {"idle", "ready"} => cb'.q3 = {}
        /\ flush'.at = "idle" => flush'.taken = {}
    BY <2>3 DEF HolderInv, SampleInv, Shapes
  <2>8. \A j \in Waiting' :
          /\ config'.sampled /\ kern'[j].id # 0
          /\ kern'[j].at = "gone" \/ (kern'[j].at = "handled" /\ handler'.at = "sampled")
    BY <2>2, <2>5
  <2>9. QED
    BY <2>4, <2>6, <2>7, <2>8 DEF SampleInv
<1>8. QED
  BY <1>5, <1>6, <1>7 DEF HolderInv

\* The trap handler and the finalizer touch nothing of this.
Elsewhere ==
  \/ UNCHANGED vars \/ \E k \in Kernels : Sample(k)
  \/ FinalizeBegin \/ Finalizer

LEMMA ElsewhereInvariant ==
  ASSUME HolderInv, Elsewhere
  PROVE  HolderInv' /\ UNCHANGED <<Counted, Uses, Sampled>>
<1>1. UNCHANGED <<Counted, Uses, Sampled>>
  BY DEF Elsewhere, vars, idVars, samplingVars, Sample, FinalizeBegin, Finalizer, SyncBegin, SyncEnd,
         SyncTimeout, Destroy, QueuesSynced, Same, Counted, Uses, Sampled
<1>2. QED
  BY <1>1, KeepCalls, KeepWork, KeepUses, KeepSamples DEF HolderInv, Counted, Uses

LEMMA StepInvariant ==
  ASSUME HolderInv, [Next]_vars
  PROVE  HolderInv'
<1>1. ASSUME NEW t \in Threads,
             ApiEnter(t) \/ KernelBegin(t) \/ CopyBegin(t) \/ ApiRecord(t) \/ Thread(t)
      PROVE  HolderInv'
  BY <1>1, ApiInvariant, KernelBeginInvariant, CopyBeginInvariant, WorkGoesOn, KernelWriteInvariant,
     CopyInvokeInvariant, CopyReturnInvariant DEF Thread
<1>2. ASSUME Handler \/ (\E k \in Kernels : KernelEnds(k)) \/ \E c \in Copies : CopyEnds(c)
      PROVE  HolderInv'
  BY <1>2, KernelStepInvariant, CopyStepInvariant, HandleSampledInvariant, HandleKernelEndInvariant,
     HandleCopyInvariant, HandleCopyEndInvariant DEF Handler
<1>3. ASSUME Watermark \/ Callback \/ FlushTake \/ Flush
      PROVE  HolderInv'
  BY <1>3, PlacesInvariant, RetireInvariant DEF Callback, Flush
<1>4. QED
  BY <1>1, <1>2, <1>3, ElsewhereInvariant DEF Next, Elsewhere

-----------------------------------------------------------------------------
\* The number of holders, kind by kind.
Frame(S) ==
  \/ S \subseteq Threads \X (1 .. MaxDepth) \/ S \subseteq Threads
  \/ S \subseteq Kernels \/ S \subseteq Copies

LEMMA Frames ==
  ASSUME NEW S, Frame(S)
  PROVE  IsFiniteSet(S) /\ Cardinality(S) \in Nat
<1>1. IsFiniteSet(1 .. MaxDepth) /\ IsFiniteSet(Kernels) /\ IsFiniteSet(Copies) /\ IsFiniteSet(Threads)
  BY CorrelationAssumption, FS_Interval DEF Kernels, Copies
<1>2. IsFiniteSet(Threads \X (1 .. MaxDepth))
  BY <1>1, FS_Product
<1>3. IsFiniteSet(S)
  BY <1>1, <1>2, FS_Subset DEF Frame
<1>4. QED
  BY <1>3, FS_CardinalityType

LEMMA OneMore ==
  ASSUME NEW S, NEW x, x \notin S, Frame(S)
  PROVE  Cardinality(S \cup {x}) = Cardinality(S) + 1
BY Frames, FS_AddElement

LEMMA OneLess ==
  ASSUME NEW S, NEW x, x \in S, Frame(S)
  PROVE  Cardinality(S \ {x}) = Cardinality(S) - 1
BY Frames, FS_RemoveElement

LEMMA HolderFrames ==
  \A i : /\ Frame(CallsOf(i)) /\ Frame(Entering(i)) /\ Frame(Owners(i))
         /\ Frame(KernelsOf(i)) /\ Frame(MarkersOf(i)) /\ Frame(CopiesOf(i))
BY DEF Frame, CallsOf, Entering, Owners, KernelsOf, MarkersOf, CopiesOf

LEMMA HolderNumbers ==
  \A i : /\ Cardinality(CallsOf(i)) \in Nat /\ Cardinality(Entering(i)) \in Nat
         /\ Cardinality(Owners(i)) \in Nat /\ Cardinality(KernelsOf(i)) \in Nat
         /\ Cardinality(MarkersOf(i)) \in Nat /\ Cardinality(CopiesOf(i)) \in Nat
BY HolderFrames, Frames

\* Nobody holds an id that was not handed out.
LEMMA NewIds ==
  ASSUME HolderInv, RefsCountHolders
  PROVE  \A i \in Ids : i > constructed => refs[i] = 0
<1> SUFFICES ASSUME NEW i \in Ids, i > constructed
             PROVE  refs[i] = 0
  OBVIOUS
<1>1. constructed \in Nat /\ i \in Int
  BY CorrelationAssumption DEF HolderInv, CallsInv, Ids
<1>2. CallsOf(i) = {} /\ Entering(i) = {}
  <2>1. ASSUME NEW u \in Threads, NEW d \in DOMAIN calls[u]
        PROVE  calls[u][d].id # i
    <3>1. calls[u] \in Seq(Call)
      BY DEF HolderInv, CallsInv
    <3>2. calls[u][d] \in Call
      BY <3>1
    <3>3. QED
      BY <1>1, <3>2 DEF Call, Made
  <2>2. QED
    BY <2>1 DEF CallsOf, Entering
<1>3. \A k \in Kernels : kern[k].id # i
  BY <1>1 DEF HolderInv, UseInv
<1>4. \A c \in Copies : copy[c].id # i
  BY <1>1 DEF HolderInv, UseInv
<1>5. Owners(i) = {}
  BY <1>3, <1>4 DEF Owners, IdOf, HolderInv, WorkInv
<1>6. KernelsOf(i) = {} /\ MarkersOf(i) = {} /\ CopiesOf(i) = {}
  BY <1>3, <1>4 DEF KernelsOf, MarkersOf, CopiesOf
<1>7. QED
  BY <1>2, <1>5, <1>6, FS_EmptySet DEF RefsCountHolders

\* What leaves each kind of holder alone.
SameIds ==
  /\ \A k \in Kernels : kern'[k].id = kern[k].id
  /\ \A c \in Copies : copy'[c].id = copy[c].id

LEMMA SameCalls ==
  ASSUME UNCHANGED calls
  PROVE  \A i : CallsOf(i)' = CallsOf(i) /\ Entering(i)' = Entering(i)
BY DEF CallsOf, Entering

LEMMA SameOwners ==
  ASSUME WorkInv, SameIds,
         \A t \in Threads : /\ work'[t].own = work[t].own /\ work'[t].kind = work[t].kind
                            /\ work'[t].n = work[t].n
  PROVE  \A i : Owners(i)' = Owners(i)
<1>1. \A t \in Threads : work[t].own =>
        \/ work[t].kind = "kernel" /\ work[t].n \in Kernels
        \/ work[t].kind = "copy" /\ work[t].n \in Copies
  BY DEF WorkInv
<1>2. QED
  BY <1>1 DEF SameIds, Owners, IdOf

LEMMA SameKernels ==
  ASSUME SameIds, \A k \in Kernels : kern'[k].at \in {"none", "gone"} <=> kern[k].at \in {"none", "gone"}
  PROVE  \A i : KernelsOf(i)' = KernelsOf(i)
BY DEF SameIds, KernelsOf

LEMMA SameCopies ==
  ASSUME SameIds, \A c \in Copies : copy'[c].at \in {"none", "gone"} <=> copy[c].at \in {"none", "gone"}
  PROVE  \A i : CopiesOf(i)' = CopiesOf(i)
BY DEF SameIds, CopiesOf

LEMMA SameMarkers ==
  ASSUME SameIds, UNCHANGED config,
         config.sampled => \A k \in Kernels : Marked(k)' <=> Marked(k)
  PROVE  \A i : MarkersOf(i)' = MarkersOf(i)
BY DEF SameIds, MarkersOf

LEMMA Balanced ==
  ASSUME RefsCountHolders, UNCHANGED refs,
         \A i : /\ CallsOf(i)' = CallsOf(i) /\ Entering(i)' = Entering(i) /\ Owners(i)' = Owners(i)
                /\ KernelsOf(i)' = KernelsOf(i) /\ MarkersOf(i)' = MarkersOf(i)
                /\ CopiesOf(i)' = CopiesOf(i)
  PROVE  RefsCountHolders'
BY DEF RefsCountHolders

-----------------------------------------------------------------------------
\* Steps that make and unmake no holder.
LEMMA PlacesCounts ==
  ASSUME HolderInv, RefsCountHolders, UNCHANGED <<Counted, Uses>>, Waiting' = Waiting
  PROVE  RefsCountHolders'
<1>1. SameIds
  BY DEF SameIds, Uses
<1>2. \A k \in Kernels : Marked(k)' <=> Marked(k)
  BY DEF Marked, At, Handling, Uses
<1>3. UNCHANGED <<refs, calls, config, work, kern, copy>>
  BY DEF Counted, Uses
<1>4. QED
  BY <1>1, <1>2, <1>3, Balanced, SameCalls, SameOwners, SameKernels, SameCopies, SameMarkers
     DEF HolderInv

LEMMA WorkCounts ==
  ASSUME HolderInv, RefsCountHolders, NEW t \in Threads,
         KernelStart(t) \/ CopyCreate(t) \/ CopyCount(t) \/ CopySignal(t) \/ CopyInvoke(t)
  PROVE  RefsCountHolders'
<1>1. /\ \E a \in WorkAts : a # "marked" /\ work' = [work EXCEPT ![t].at = a]
      /\ work[t].at # "marked" /\ UNCHANGED <<Counted, kern, handler, Sampled>>
  BY DEF KernelStart, CopyCreate, CopyCount, CopySignal, CopyInvoke, At, Go, WorkAts, idVars,
         samplingVars, Counted, Sampled
<1>2. /\ \A c \in Copies : copy'[c].id = copy[c].id
      /\ \A c \in Copies : copy'[c].at \in {"none", "gone"} <=> copy[c].at \in {"none", "gone"}
  <2>1. CASE CopyInvoke(t)
    <3>1. PICK a \in {"running", "refused"} : copy' = [copy EXCEPT ![work[t].n].at = a]
      BY <2>1 DEF CopyInvoke
    <3>2. work[t].n \in Copies /\ copy[work[t].n].at = "begun"
      BY <2>1 DEF CopyInvoke, At, HolderInv, WorkInv
    <3>3. QED
      BY <3>1, <3>2 DEF HolderInv, UseInv
  <2>2. CASE ~CopyInvoke(t)
    BY <2>2 DEF KernelStart, CopyCreate, CopyCount, CopySignal
  <2>3. QED
    BY <2>1, <2>2
<1>3. SameIds
  BY <1>1, <1>2 DEF SameIds
<1>4. \A u \in Threads : /\ work'[u].own = work[u].own /\ work'[u].kind = work[u].kind
                         /\ work'[u].n = work[u].n
                         /\ work'[u].at = "marked" <=> work[u].at = "marked"
  BY <1>1 DEF HolderInv, WorkInv
<1>5. \A k \in Kernels : Marked(k)' <=> Marked(k)
  BY <1>1, <1>4 DEF Marked, At, Handling, Waiting, Sampled
<1>6. UNCHANGED <<refs, calls, config, kern>>
  BY <1>1 DEF Counted
<1>7. QED
  BY <1>2, <1>3, <1>4, <1>5, <1>6, Balanced, SameCalls, SameOwners, SameKernels, SameCopies,
     SameMarkers DEF HolderInv

LEMMA KernelStepCounts ==
  ASSUME HolderInv, RefsCountHolders, NEW k \in Kernels, KernelEnds(k) \/ HandleKernel(k)
  PROVE  RefsCountHolders'
<1>1. UNCHANGED <<Counted, work, copy, Sampled>>
  BY DEF KernelEnds, HandleKernel, idVars, Counted, samplingVars, Sampled
<1>2. kern[k].at \in {"running", "complete"}
  BY DEF KernelEnds, HandleKernel
<1>3. \/ kern' = [kern EXCEPT ![k].at = "complete"] /\ UNCHANGED handler
      \/ kern' = [kern EXCEPT ![k].at = "abandoned"] /\ UNCHANGED handler
      \/ /\ kern' = [kern EXCEPT ![k].at = "handled"]
         /\ handler = Idle /\ handler' = [at |-> "dispatched", n |-> k]
  BY DEF KernelEnds, HandleKernel
<1>4. /\ kern'[k].at \in {"complete", "abandoned", "handled"} /\ kern'[k].id = kern[k].id
      /\ \A j \in Kernels : j # k => kern'[j] = kern[j]
      /\ kern'[k].at = "handled" => handler'.at = "dispatched" /\ handler = Idle
      /\ kern'[k].at # "handled" => UNCHANGED handler
  BY <1>3 DEF HolderInv, UseInv
<1>5. SameIds
  BY <1>1, <1>4 DEF SameIds
<1>6. \A j \in Kernels : kern'[j].at \in {"none", "gone"} <=> kern[j].at \in {"none", "gone"}
  BY <1>2, <1>4
<1>7. ASSUME NEW j \in Kernels
      PROVE  Marked(j)' <=> Marked(j)
  <2>1. Waiting' = Waiting /\ work' = work
    BY <1>1 DEF Waiting, Sampled
  <2>2. CASE j = k
    BY <1>2, <1>4, <2>1, <2>2 DEF Marked, Handling
  <2>3. CASE j # k
    <3>1. kern'[j] = kern[j]
      BY <1>4, <2>3
    <3>2. kern'[k].at = "handled" => kern[j].at # "handled"
      BY <1>4 DEF HolderInv, UseInv, Idle
    <3>3. QED
      BY <1>4, <2>1, <3>1, <3>2 DEF Marked, Handling, At
  <2>4. QED
    BY <2>2, <2>3
<1>8. UNCHANGED <<refs, calls, config, work, copy>>
  BY <1>1 DEF Counted
<1>9. QED
  BY <1>5, <1>6, <1>7, <1>8, Balanced, SameCalls, SameOwners, SameKernels, SameCopies,
     SameMarkers DEF HolderInv

LEMMA CopyStepCounts ==
  ASSUME HolderInv, RefsCountHolders,
         \/ \E c \in Copies : CopyEnds(c) \/ HandleCopy(c)
         \/ HandleCopyCount \/ HandleCopySignal
  PROVE  RefsCountHolders'
<1>1. UNCHANGED <<Counted, work, kern, Sampled>>
  BY DEF CopyEnds, HandleCopy, HandleCopyCount, HandleCopySignal, idVars, Counted, samplingVars,
         Sampled
<1>2. \/ UNCHANGED copy
      \/ \E c \in Copies, a \in {"complete", "handled", "abandoned"} :
           copy[c].at \in {"running", "complete"} /\ copy' = [copy EXCEPT ![c].at = a]
  BY DEF CopyEnds, HandleCopy, HandleCopyCount, HandleCopySignal
<1>3. /\ \A c \in Copies : copy'[c].id = copy[c].id
      /\ \A c \in Copies : copy'[c].at \in {"none", "gone"} <=> copy[c].at \in {"none", "gone"}
  BY <1>2 DEF HolderInv, UseInv
<1>4. handler.at = "dispatched" <=> handler'.at = "dispatched"
  <2>1. CASE \E c \in Copies : CopyEnds(c) \/ HandleCopy(c)
    BY <2>1 DEF CopyEnds, HandleCopy, Idle
  <2>2. CASE HandleCopyCount \/ HandleCopySignal
    <3>1. /\ handler.at \in {"copied", "uncounted"}
          /\ \E a \in {"uncounted", "ended"} : handler' = [handler EXCEPT !.at = a]
      BY <2>2 DEF HandleCopyCount, HandleCopySignal, Handling, HandlerGo
    <3>2. QED
      BY <3>1 DEF HolderInv, UseInv
  <2>3. QED
    BY <2>1, <2>2
<1>5. SameIds
  BY <1>1, <1>3 DEF SameIds
<1>6. \A k \in Kernels : Marked(k)' <=> Marked(k)
  BY <1>1, <1>4 DEF Marked, At, Handling, Waiting, Sampled
<1>7. UNCHANGED <<refs, calls, config, work, kern>>
  BY <1>1 DEF Counted
<1>8. QED
  BY <1>3, <1>5, <1>6, <1>7, Balanced, SameCalls, SameOwners, SameKernels, SameCopies,
     SameMarkers DEF HolderInv

\* The marker's count passes to the queue of the sampler.
LEMMA HandleSampledCounts ==
  ASSUME HolderInv, RefsCountHolders, HandleSampled
  PROVE  RefsCountHolders'
<1> DEFINE k == handler.n
<1>1. /\ handler.at = "dispatched" /\ handler' = [handler EXCEPT !.at = "sampled"]
      /\ q1' = IF config.sampled THEN q1 \cup {k} ELSE q1
      /\ UNCHANGED <<Counted, work, kern, copy, q2, cb, flush>>
  BY DEF HandleSampled, Handling, HandlerGo, idVars, Counted
<1>2. /\ k \in Kernels /\ kern[k].at = "handled"
      /\ \A j \in Kernels : kern[j].at = "handled" => j = k
      /\ handler'.at = "sampled"
  BY <1>1 DEF HolderInv, UseInv
<1> HIDE DEF k
<1>3. ASSUME config.sampled
      PROVE  \A j \in Kernels : Marked(j)' <=> Marked(j)
  <2>1. Waiting' = Waiting \cup {k}
    BY <1>1, <1>3 DEF Waiting
  <2>2. QED
    BY <1>1, <1>2, <2>1 DEF Marked, At, Handling
<1>4. SameIds
  BY <1>1 DEF SameIds
<1>5. UNCHANGED <<refs, calls, config, work, kern, copy>>
  BY <1>1 DEF Counted
<1>6. QED
  BY <1>3, <1>4, <1>5, Balanced, SameCalls, SameOwners, SameKernels, SameCopies, SameMarkers
     DEF HolderInv

-----------------------------------------------------------------------------
\* Steps that make or unmake a holder: calls.
LEMMA BesidesCalls ==
  ASSUME HolderInv, UNCHANGED <<config, Uses, Sampled>>
  PROVE  \A i : /\ Owners(i)' = Owners(i) /\ KernelsOf(i)' = KernelsOf(i)
                /\ MarkersOf(i)' = MarkersOf(i) /\ CopiesOf(i)' = CopiesOf(i)
<1>1. SameIds
  BY DEF SameIds, Uses
<1>2. \A k \in Kernels : Marked(k)' <=> Marked(k)
  BY DEF Marked, At, Handling, Waiting, Uses, Sampled
<1>3. UNCHANGED <<config, work, kern, copy>>
  BY DEF Uses
<1>4. QED
  BY <1>1, <1>2, <1>3, SameOwners, SameKernels, SameCopies, SameMarkers DEF HolderInv

LEMMA ApiEnterCounts ==
  ASSUME HolderInv, RefsCountHolders, NEW t \in Threads, ApiEnter(t)
  PROVE  RefsCountHolders'
<1> DEFINE n == constructed'
           p == <<t, Len(calls[t]) + 1>>
<1>1. /\ Construct(t, 2) /\ Len(calls[t]) < config.depth
      /\ calls' = [calls EXCEPT ![t] = Append(@, [id |-> constructed', at |-> "enter"])]
      /\ UNCHANGED <<config, Uses, Sampled>>
  BY DEF ApiEnter, samplingVars, Uses, Sampled
<1>2. n = constructed + 1 /\ n \in Ids /\ refs' = [refs EXCEPT ![n] = 2] /\ constructed \in Nat
  BY <1>1, ConstructCalls DEF HolderInv, CallsInv
<1>3. /\ \A u \in Threads :
           /\ DOMAIN calls'[u] = DOMAIN calls[u] \cup (IF u = t THEN {Len(calls[t]) + 1} ELSE {})
           /\ \A d \in DOMAIN calls[u] : calls'[u][d] = calls[u][d]
      /\ calls'[t][Len(calls[t]) + 1] = [id |-> n, at |-> "enter"]
      /\ Len(calls[t]) + 1 \in 1 .. MaxDepth /\ Len(calls[t]) + 1 \notin DOMAIN calls[t]
  BY <1>1, CallBegins DEF HolderInv
<1>4. \A i : /\ CallsOf(i)' = IF i = n THEN CallsOf(i) \cup {p} ELSE CallsOf(i)
             /\ Entering(i)' = IF i = n THEN Entering(i) \cup {p} ELSE Entering(i)
             /\ p \notin CallsOf(i)
             /\ p \notin Entering(i)
  BY <1>3 DEF CallsOf, Entering
<1>5. \A i : /\ Owners(i)' = Owners(i) /\ KernelsOf(i)' = KernelsOf(i)
             /\ MarkersOf(i)' = MarkersOf(i) /\ CopiesOf(i)' = CopiesOf(i)
  BY <1>1, BesidesCalls
<1>6. refs[n] = 0
  BY <1>2, NewIds
<1> HIDE DEF n, p
<1>7. ASSUME NEW i \in Ids
      PROVE  /\ Cardinality(CallsOf(i)') = Cardinality(CallsOf(i)) + (IF i = n THEN 1 ELSE 0)
             /\ Cardinality(Entering(i)') = Cardinality(Entering(i)) + (IF i = n THEN 1 ELSE 0)
  BY <1>4, OneMore, HolderFrames, HolderNumbers
<1>8. ASSUME NEW i \in Ids
      PROVE  refs'[i] = refs[i] + (IF i = n THEN 2 ELSE 0)
  BY <1>2, <1>6 DEF HolderInv, CallsInv
<1>9. QED
  BY <1>5, <1>7, <1>8, HolderNumbers DEF RefsCountHolders

LEMMA ApiInvokeCounts ==
  ASSUME HolderInv, RefsCountHolders, NEW t \in Threads, ApiInvoke(t)
  PROVE  RefsCountHolders'
<1> DEFINE n == Last(calls[t]).id
           p == <<t, Top(t)>>
<1>1. /\ calls[t] # << >> /\ Last(calls[t]).at = "enter"
      /\ calls' = [calls EXCEPT ![t][Top(t)].at = "exec"]
      /\ refs' = [refs EXCEPT ![n] = @ - 1]
      /\ UNCHANGED <<config, Uses, Sampled>>
  BY DEF ApiInvoke, Drop, samplingVars, Uses, Sampled
<1>2. /\ Top(t) \in DOMAIN calls[t] /\ Top(t) \in 1 .. MaxDepth
      /\ Last(calls[t]) = calls[t][Top(t)] /\ n \in Ids
  BY <1>1, TopCall DEF HolderInv
<1>3. \A u \in Threads :
        /\ DOMAIN calls'[u] = DOMAIN calls[u]
        /\ \A d \in DOMAIN calls[u] :
             /\ calls'[u][d].id = calls[u][d].id
             /\ calls'[u][d].at = IF u = t /\ d = Top(t) THEN "exec" ELSE calls[u][d].at
  <2>1. \A u \in Threads :
          /\ DOMAIN calls'[u] = DOMAIN calls[u]
          /\ \A d \in DOMAIN calls[u] :
               calls'[u][d] = IF u = t /\ d = Top(t) THEN [id |-> calls[u][d].id, at |-> "exec"]
                              ELSE calls[u][d]
    BY <1>1, CallGoesOn DEF HolderInv
  <2>2. ASSUME NEW u \in Threads, NEW d \in DOMAIN calls[u]
        PROVE  /\ calls'[u][d].id = calls[u][d].id
               /\ calls'[u][d].at = IF u = t /\ d = Top(t) THEN "exec" ELSE calls[u][d].at
    <3>1. CASE u = t /\ d = Top(t)
      <4>1. calls'[u][d] = [id |-> calls[u][d].id, at |-> "exec"]
        BY <2>1, <3>1
      <4>2. QED
        BY <3>1, <4>1
    <3>2. CASE ~(u = t /\ d = Top(t))
      <4>1. calls'[u][d] = calls[u][d]
        BY <2>1, <3>2
      <4>2. QED
        BY <3>2, <4>1
    <3>3. QED
      BY <3>1, <3>2
  <2>3. QED
    BY <2>1, <2>2
<1>4. \A i : CallsOf(i)' = CallsOf(i)
  BY <1>3 DEF CallsOf
<1>5. \A i : /\ Entering(i)' = IF i = n THEN Entering(i) \ {p} ELSE Entering(i)
             /\ i = n => p \in Entering(i)
  BY <1>1, <1>2, <1>3, <1>4 DEF CallsOf, Entering
<1>6. \A i : /\ Owners(i)' = Owners(i) /\ KernelsOf(i)' = KernelsOf(i)
             /\ MarkersOf(i)' = MarkersOf(i) /\ CopiesOf(i)' = CopiesOf(i)
  BY <1>1, BesidesCalls
<1> HIDE DEF n, p
<1>7. ASSUME NEW i \in Ids
      PROVE  Cardinality(Entering(i)') = Cardinality(Entering(i)) - (IF i = n THEN 1 ELSE 0)
  BY <1>5, OneLess, HolderFrames, HolderNumbers
<1>8. ASSUME NEW i \in Ids
      PROVE  refs'[i] = refs[i] - (IF i = n THEN 1 ELSE 0)
  BY <1>1, <1>2 DEF HolderInv, CallsInv
<1>9. QED
  BY <1>4, <1>6, <1>7, <1>8, HolderNumbers DEF RefsCountHolders

LEMMA ApiRecordCounts ==
  ASSUME HolderInv, RefsCountHolders, NEW t \in Threads, ApiRecord(t)
  PROVE  RefsCountHolders'
<1>1. /\ calls[t] # << >> /\ \A d \in DOMAIN calls[t] : calls[t][d].at = "exec"
      /\ calls' = [calls EXCEPT ![t][Top(t)].at = "exit"]
      /\ UNCHANGED <<refs, config, Uses, Sampled>>
  BY DEF ApiRecord, CanCall, idVars, samplingVars, Uses, Sampled
<1>2. Top(t) \in DOMAIN calls[t]
  BY <1>1, TopCall DEF HolderInv
<1>3. \A u \in Threads :
        /\ DOMAIN calls'[u] = DOMAIN calls[u]
        /\ \A d \in DOMAIN calls[u] :
             /\ calls'[u][d].id = calls[u][d].id
             /\ calls'[u][d].at = IF u = t /\ d = Top(t) THEN "exit" ELSE calls[u][d].at
  <2>1. \A u \in Threads :
          /\ DOMAIN calls'[u] = DOMAIN calls[u]
          /\ \A d \in DOMAIN calls[u] :
               calls'[u][d] = IF u = t /\ d = Top(t) THEN [id |-> calls[u][d].id, at |-> "exit"]
                              ELSE calls[u][d]
    BY <1>1, CallGoesOn DEF HolderInv
  <2>2. ASSUME NEW u \in Threads, NEW d \in DOMAIN calls[u]
        PROVE  /\ calls'[u][d].id = calls[u][d].id
               /\ calls'[u][d].at = IF u = t /\ d = Top(t) THEN "exit" ELSE calls[u][d].at
    <3>1. CASE u = t /\ d = Top(t)
      <4>1. calls'[u][d] = [id |-> calls[u][d].id, at |-> "exit"]
        BY <2>1, <3>1
      <4>2. QED
        BY <3>1, <4>1
    <3>2. CASE ~(u = t /\ d = Top(t))
      <4>1. calls'[u][d] = calls[u][d]
        BY <2>1, <3>2
      <4>2. QED
        BY <3>2, <4>1
    <3>3. QED
      BY <3>1, <3>2
  <2>3. QED
    BY <2>1, <2>2
<1>4. \A i : CallsOf(i)' = CallsOf(i)
  BY <1>3 DEF CallsOf
<1>5. \A i : Entering(i)' = Entering(i)
  BY <1>1, <1>2, <1>3, <1>4 DEF CallsOf, Entering
<1>6. QED
  BY <1>1, <1>4, <1>5, BesidesCalls, Balanced

LEMMA ApiLeaveCounts ==
  ASSUME HolderInv, RefsCountHolders, NEW t \in Threads, ApiLeave(t)
  PROVE  RefsCountHolders'
<1> DEFINE n == Last(calls[t]).id
           p == <<t, Top(t)>>
<1>1. /\ calls[t] # << >> /\ Last(calls[t]).at = "exit"
      /\ calls' = [calls EXCEPT ![t] = Front(@)]
      /\ refs' = [refs EXCEPT ![n] = @ - 1]
      /\ UNCHANGED <<config, Uses, Sampled>>
  BY DEF ApiLeave, Drop, samplingVars, Uses, Sampled
<1>2. /\ Top(t) \in DOMAIN calls[t] /\ Top(t) \in 1 .. MaxDepth
      /\ Last(calls[t]) = calls[t][Top(t)] /\ n \in Ids
  BY <1>1, TopCall DEF HolderInv
<1>3. \A u \in Threads :
        /\ DOMAIN calls'[u] = DOMAIN calls[u] \ (IF u = t THEN {Top(t)} ELSE {})
        /\ \A d \in DOMAIN calls'[u] : calls'[u][d] = calls[u][d]
  BY <1>1, CallReturns DEF HolderInv
<1>4. \A i : /\ CallsOf(i)' = IF i = n THEN CallsOf(i) \ {p} ELSE CallsOf(i)
             /\ i = n => p \in CallsOf(i)
  BY <1>2, <1>3 DEF CallsOf
<1>5. \A i : Entering(i)' = Entering(i)
  BY <1>1, <1>2, <1>3 DEF CallsOf, Entering
<1>6. \A i : /\ Owners(i)' = Owners(i) /\ KernelsOf(i)' = KernelsOf(i)
             /\ MarkersOf(i)' = MarkersOf(i) /\ CopiesOf(i)' = CopiesOf(i)
  BY <1>1, BesidesCalls
<1> HIDE DEF n, p
<1>7. ASSUME NEW i \in Ids
      PROVE  Cardinality(CallsOf(i)') = Cardinality(CallsOf(i)) - (IF i = n THEN 1 ELSE 0)
  BY <1>4, OneLess, HolderFrames, HolderNumbers
<1>8. ASSUME NEW i \in Ids
      PROVE  refs'[i] = refs[i] - (IF i = n THEN 1 ELSE 0)
  BY <1>1, <1>2 DEF HolderInv, CallsInv
<1>9. QED
  BY <1>5, <1>6, <1>7, <1>8, HolderNumbers DEF RefsCountHolders

-----------------------------------------------------------------------------
\* Kernels and copies, and the threads that start them.
LEMMA TakeIdCounts ==
  ASSUME HolderInv, RefsCountHolders, NEW t \in Threads, TakeId(t)
  PROVE  \A i \in Ids :
           refs'[i] = refs[i] + (IF i = Last(stack'[t]) THEN IF Own(t) THEN 2 ELSE 1 ELSE 0)
<1>1. CASE Own(t)
  <2>1. Construct(t, 2)
    BY <1>1 DEF TakeId
  <2>2. /\ constructed' = constructed + 1 /\ constructed' \in Ids /\ constructed \in Nat
        /\ Last(stack'[t]) = constructed' /\ refs' = [refs EXCEPT ![constructed'] = 2]
    BY <2>1, ConstructCalls DEF HolderInv, CallsInv
  <2>3. refs[constructed'] = 0
    BY <2>2, NewIds
  <2>4. \A i \in Ids : refs[i] \in Int /\ refs'[i] = IF i = constructed' THEN 2 ELSE refs[i]
    BY <2>2 DEF HolderInv, CallsInv
  <2>5. QED
    BY <1>1, <2>2, <2>3, <2>4
<1>2. CASE ~Own(t)
  <2>1. stack' = stack /\ refs' = [refs EXCEPT ![Last(stack[t])] = @ + 1]
    BY <1>2 DEF TakeId
  <2>2. \A i \in Ids : refs[i] \in Int /\ refs'[i] = IF i = Last(stack[t]) THEN refs[i] + 1 ELSE refs[i]
    BY <2>1 DEF HolderInv, CallsInv
  <2>3. QED
    BY <1>2, <2>1, <2>2
<1>3. QED
  BY <1>1, <1>2

LEMMA FinishCounts ==
  ASSUME HolderInv, NEW t \in Threads, NEW j \in Ids, Finish(t, j)
  PROVE  \A i \in Ids : refs'[i] = refs[i] - (IF i = j /\ work[t].own THEN 1 ELSE 0)
<1>1. refs' = IF work[t].own THEN [refs EXCEPT ![j] = @ - 1] ELSE refs
  BY DEF Finish, Drop
<1>2. QED
  BY <1>1 DEF HolderInv, CallsInv

LEMMA KernelBeginCounts ==
  ASSUME HolderInv, RefsCountHolders, NEW t \in Threads, KernelBegin(t)
  PROVE  RefsCountHolders'
<1> DEFINE n == Last(stack'[t])
<1>1. /\ TakeId(t) /\ work[t] = NoWork
      /\ UNCHANGED <<calls, copy, handler, Sampled, config>>
  BY DEF KernelBegin, CanCall, samplingVars, Sampled
<1>2. PICK g \in Kernels :
        /\ kern[g].at = "none"
        /\ kern' = [kern EXCEPT ![g] = [at |-> "begun", id |-> n]]
        /\ work' = [work EXCEPT ![t] = [kind |-> "kernel", n |-> g, at |-> "begun", own |-> Own(t)]]
  BY DEF KernelBegin, Next1, Begin, HolderInv, UseInv
<1>3. \A i \in Ids : refs'[i] = refs[i] + (IF i = n THEN IF Own(t) THEN 2 ELSE 1 ELSE 0)
  BY <1>1, TakeIdCounts
<1> HIDE DEF n
<1>4. /\ kern'[g].at = "begun" /\ kern'[g].id = n
      /\ \A j \in Kernels : j # g => kern'[j] = kern[j]
  BY <1>2 DEF HolderInv, UseInv
<1>5. /\ work'[t] = [kind |-> "kernel", n |-> g, at |-> "begun", own |-> Own(t)]
      /\ \A u \in Threads : u # t => work'[u] = work[u]
  BY <1>2 DEF HolderInv, WorkInv
<1>6. \A u \in Threads :
        work[u].kind = "kernel" => work[u].n \in Kernels /\ work[u].n # g
  BY <1>2 DEF HolderInv, WorkInv
<1>7. \A i : /\ CallsOf(i)' = CallsOf(i) /\ Entering(i)' = Entering(i)
             /\ CopiesOf(i)' = CopiesOf(i)
  BY <1>1, SameCalls DEF CopiesOf
<1>8. \A i : /\ Owners(i)' = IF i = n /\ Own(t) THEN Owners(i) \cup {t} ELSE Owners(i)
             /\ t \notin Owners(i)
  <2>1. \A u \in Threads : u # t => IdOf(work[u])' = IdOf(work[u])
    BY <1>1, <1>4, <1>5, <1>6 DEF IdOf
  <2>2. work'[t].own = Own(t) /\ IdOf(work[t])' = n /\ ~work[t].own
    BY <1>1, <1>4, <1>5 DEF IdOf, NoWork
  <2>3. QED
    BY <1>5, <2>1, <2>2 DEF Owners
<1>9. \A i : /\ KernelsOf(i)' = IF i = n THEN KernelsOf(i) \cup {g} ELSE KernelsOf(i)
             /\ g \notin KernelsOf(i)
  BY <1>2, <1>4 DEF KernelsOf
<1>10. \A i : MarkersOf(i)' = MarkersOf(i)
  <2>1. Waiting' = Waiting /\ g \notin Waiting
    BY <1>1, <1>2 DEF HolderInv, SampleInv, Waiting, Sampled
  <2>2. ~Marked(g)
    BY <1>2, <2>1 DEF Marked
  <2>3. ~Marked(g)'
    BY <1>4, <1>5, <1>6, <2>1 DEF Marked, At
  <2>4. \A j \in Kernels : j # g => Marked(j)' <=> Marked(j)
    BY <1>1, <1>4, <1>5, <2>1 DEF Marked, At, Handling, NoWork
  <2>5. QED
    BY <1>1, <1>4, <2>2, <2>3, <2>4 DEF MarkersOf
<1>11. ASSUME NEW i \in Ids
       PROVE  /\ Cardinality(Owners(i)') = Cardinality(Owners(i)) + (IF i = n /\ Own(t) THEN 1 ELSE 0)
              /\ Cardinality(KernelsOf(i)') = Cardinality(KernelsOf(i)) + (IF i = n THEN 1 ELSE 0)
  BY <1>8, <1>9, OneMore, HolderFrames, HolderNumbers
<1>12. \A i \in Ids : refs[i] \in Int
  BY DEF HolderInv, CallsInv
<1>13. QED
  BY <1>3, <1>7, <1>10, <1>11, <1>12, HolderNumbers DEF RefsCountHolders

LEMMA CopyBeginCounts ==
  ASSUME HolderInv, RefsCountHolders, NEW t \in Threads, CopyBegin(t)
  PROVE  RefsCountHolders'
<1> DEFINE n == Last(stack'[t])
<1>1. /\ TakeId(t) /\ work[t] = NoWork
      /\ UNCHANGED <<calls, kern, handler, Sampled, config>>
  BY DEF CopyBegin, CanCall, samplingVars, Sampled
<1>2. PICK g \in Copies :
        /\ copy[g].at = "none"
        /\ copy' = [copy EXCEPT ![g] = [at |-> "begun", id |-> n]]
        /\ work' = [work EXCEPT ![t] = [kind |-> "copy", n |-> g, at |-> "begun", own |-> Own(t)]]
  BY DEF CopyBegin, Next1, Begin, HolderInv, UseInv
<1>3. \A i \in Ids : refs'[i] = refs[i] + (IF i = n THEN IF Own(t) THEN 2 ELSE 1 ELSE 0)
  BY <1>1, TakeIdCounts
<1> HIDE DEF n
<1>4. /\ copy'[g].at = "begun" /\ copy'[g].id = n
      /\ \A j \in Copies : j # g => copy'[j] = copy[j]
  BY <1>2 DEF HolderInv, UseInv
<1>5. /\ work'[t] = [kind |-> "copy", n |-> g, at |-> "begun", own |-> Own(t)]
      /\ \A u \in Threads : u # t => work'[u] = work[u]
  BY <1>2 DEF HolderInv, WorkInv
<1>6. \A u \in Threads :
        work[u].kind = "copy" => work[u].n \in Copies /\ work[u].n # g
  BY <1>2 DEF HolderInv, WorkInv
<1>7. \A i : /\ CallsOf(i)' = CallsOf(i) /\ Entering(i)' = Entering(i)
             /\ KernelsOf(i)' = KernelsOf(i)
  BY <1>1, SameCalls DEF KernelsOf
<1>8. \A i : /\ Owners(i)' = IF i = n /\ Own(t) THEN Owners(i) \cup {t} ELSE Owners(i)
             /\ t \notin Owners(i)
  <2>1. \A u \in Threads : u # t /\ work[u].own => IdOf(work[u])' = IdOf(work[u])
    <3>1. ASSUME NEW u \in Threads, u # t, work[u].own
          PROVE  work[u].kind \in {"kernel", "copy"}
      BY <3>1 DEF HolderInv, WorkInv
    <3>2. QED
      BY <1>1, <1>4, <1>5, <1>6, <3>1 DEF IdOf
  <2>2. work'[t].own = Own(t) /\ IdOf(work[t])' = n /\ ~work[t].own
    BY <1>1, <1>4, <1>5 DEF IdOf, NoWork
  <2>3. QED
    BY <1>5, <2>1, <2>2 DEF Owners
<1>9. \A i : /\ CopiesOf(i)' = IF i = n THEN CopiesOf(i) \cup {g} ELSE CopiesOf(i)
             /\ g \notin CopiesOf(i)
  BY <1>2, <1>4 DEF CopiesOf
<1>10. \A i : MarkersOf(i)' = MarkersOf(i)
  <2>1. Waiting' = Waiting
    BY <1>1 DEF Waiting, Sampled
  <2>2. \A j \in Kernels : Marked(j)' <=> Marked(j)
    BY <1>1, <1>5, <2>1 DEF Marked, At, Handling, NoWork
  <2>3. QED
    BY <1>1, <2>2 DEF MarkersOf
<1>11. ASSUME NEW i \in Ids
       PROVE  /\ Cardinality(Owners(i)') = Cardinality(Owners(i)) + (IF i = n /\ Own(t) THEN 1 ELSE 0)
              /\ Cardinality(CopiesOf(i)') = Cardinality(CopiesOf(i)) + (IF i = n THEN 1 ELSE 0)
  BY <1>8, <1>9, OneMore, HolderFrames, HolderNumbers
<1>12. \A i \in Ids : refs[i] \in Int
  BY DEF HolderInv, CallsInv
<1>13. QED
  BY <1>3, <1>7, <1>10, <1>11, <1>12, HolderNumbers DEF RefsCountHolders

LEMMA KernelMarkCounts ==
  ASSUME HolderInv, RefsCountHolders, NEW t \in Threads, KernelMark(t)
  PROVE  RefsCountHolders'
<1>1. PICK g \in Kernels : g = work[t].n /\ kern[g].at = "begun"
  BY DEF KernelMark, At, HolderInv, WorkInv
<1> DEFINE n == kern[g].id
<1>2. /\ work[t].kind = "kernel" /\ work[t].at = "started"
      /\ work' = [work EXCEPT ![t].at = "marked"]
      /\ refs' = IF config.sampled THEN [refs EXCEPT ![n] = @ + 1] ELSE refs
      /\ UNCHANGED <<calls, config, kern, copy, handler, Sampled>>
  BY <1>1 DEF KernelMark, At, Go, samplingVars, Sampled
<1>3. n \in Ids
  BY <1>1, <1>2, UsesHaveIds DEF HolderInv
<1>4. \A u \in Threads :
        /\ work'[u].own = work[u].own /\ work'[u].kind = work[u].kind
        /\ work'[u].n = work[u].n
        /\ work'[u].at = IF u = t THEN "marked" ELSE work[u].at
  BY <1>1, <1>2 DEF HolderInv, WorkInv
<1>5. SameIds
  BY <1>1, <1>2 DEF SameIds
<1>6. \A i : /\ CallsOf(i)' = CallsOf(i) /\ Entering(i)' = Entering(i)
             /\ Owners(i)' = Owners(i) /\ KernelsOf(i)' = KernelsOf(i)
             /\ CopiesOf(i)' = CopiesOf(i)
  BY <1>1, <1>2, <1>4, <1>5, SameCalls, SameOwners, SameKernels, SameCopies DEF HolderInv
<1>7. Waiting' = Waiting /\ g \notin Waiting
  BY <1>1, <1>2 DEF HolderInv, SampleInv, Waiting, Sampled
<1>8. ~Marked(g) /\ Marked(g)'
  <2>1. \A u \in Threads : At(u, "kernel", "marked") => work[u].n # g
    BY <1>1, <1>2 DEF At, HolderInv, WorkInv
  <2>2. ~Marked(g)
    BY <1>1, <1>2, <1>7, <2>1 DEF Marked
  <2>3. Marked(g)'
    BY <1>1, <1>2, <1>4 DEF Marked, At
  <2>4. QED
    BY <2>2, <2>3
<1>9. \A j \in Kernels : j # g => (Marked(j)' <=> Marked(j))
  BY <1>1, <1>2, <1>4, <1>7 DEF Marked, At, Handling
<1>10. \A i : /\ MarkersOf(i)' = IF i = n /\ config.sampled THEN MarkersOf(i) \cup {g} ELSE MarkersOf(i)
              /\ g \notin MarkersOf(i)
  BY <1>1, <1>2, <1>8, <1>9 DEF MarkersOf
<1> HIDE DEF n
<1>11. ASSUME NEW i \in Ids
       PROVE  Cardinality(MarkersOf(i)')
                = Cardinality(MarkersOf(i)) + (IF i = n /\ config.sampled THEN 1 ELSE 0)
  BY <1>10, OneMore, HolderFrames, HolderNumbers
<1>12. \A i \in Ids : refs'[i] = refs[i] + (IF i = n /\ config.sampled THEN 1 ELSE 0)
  BY <1>1, <1>2, <1>3 DEF HolderInv, CallsInv
<1>13. QED
  BY <1>6, <1>11, <1>12, HolderNumbers DEF RefsCountHolders

\* What a thread that is done leaves behind.
LEMMA OwnerLeaves ==
  ASSUME HolderInv, NEW t \in Threads, SameIds, work' = [work EXCEPT ![t] = NoWork]
  PROVE  \A i : Owners(i)' = Owners(i) \ {t}
<1>1. work'[t] = NoWork /\ \A u \in Threads : u # t => work'[u] = work[u]
  BY DEF HolderInv, WorkInv
<1>2. ASSUME NEW u \in Threads, work[u].own
      PROVE  \/ work[u].kind = "kernel" /\ work[u].n \in Kernels
             \/ work[u].kind = "copy" /\ work[u].n \in Copies
  BY <1>1, <1>2 DEF HolderInv, WorkInv
<1>3. \A u \in Threads : u # t /\ work[u].own => IdOf(work[u])' = IdOf(work[u])
  BY <1>1, <1>2 DEF SameIds, IdOf
<1>4. ~work'[t].own
  BY <1>1, <1>2 DEF NoWork
<1>5. QED
  BY <1>1, <1>2, <1>3, <1>4 DEF Owners

LEMMA KernelWriteCounts ==
  ASSUME HolderInv, RefsCountHolders, NEW t \in Threads, KernelWrite(t)
  PROVE  RefsCountHolders'
<1>1. PICK g \in Kernels : g = work[t].n /\ kern[g].at = "begun"
  BY DEF KernelWrite, At, HolderInv, WorkInv
<1> DEFINE n == kern[g].id
<1>2. /\ work[t].kind = "kernel" /\ work[t].at = "marked"
      /\ Finish(t, n) /\ work' = [work EXCEPT ![t] = NoWork]
      /\ kern' = [kern EXCEPT ![g].at = "running"]
      /\ UNCHANGED <<calls, config, copy, handler, Sampled>>
  BY <1>1 DEF KernelWrite, Finish, At, samplingVars, Sampled
<1>3. n \in Ids
  BY <1>1, <1>2, UsesHaveIds DEF HolderInv
<1>4. /\ kern'[g].at = "running" /\ kern'[g].id = kern[g].id
      /\ \A j \in Kernels : j # g => kern'[j] = kern[j]
  BY <1>1, <1>2 DEF HolderInv, UseInv
<1>5. work'[t] = NoWork /\ \A u \in Threads : u # t => work'[u] = work[u]
  BY <1>1, <1>2 DEF HolderInv, WorkInv
<1>6. SameIds
  BY <1>1, <1>2, <1>4 DEF SameIds
<1>7. \A i : Owners(i)' = Owners(i) \ {t}
  BY <1>1, <1>2, <1>6, OwnerLeaves
<1>8. \A i : t \in Owners(i) <=> i = n /\ work[t].own
  BY <1>1, <1>2 DEF Owners, IdOf
<1>9. Waiting' = Waiting
  BY <1>1, <1>2 DEF Waiting, Sampled
<1>10. Marked(g) /\ Marked(g)'
  BY <1>1, <1>2, <1>4 DEF Marked, At
<1>11. \A j \in Kernels : j # g => (Marked(j)' <=> Marked(j))
  BY <1>1, <1>2, <1>4, <1>5, <1>9 DEF Marked, At, Handling, NoWork
<1>12. \A j \in Kernels : Marked(j)' <=> Marked(j)
  BY <1>10, <1>11
<1>13. \A j \in Kernels : kern'[j].at \in {"none", "gone"} <=> kern[j].at \in {"none", "gone"}
  BY <1>1, <1>2, <1>4
<1>14. \A i : /\ CallsOf(i)' = CallsOf(i) /\ Entering(i)' = Entering(i)
              /\ KernelsOf(i)' = KernelsOf(i) /\ MarkersOf(i)' = MarkersOf(i)
              /\ CopiesOf(i)' = CopiesOf(i)
  BY <1>1, <1>2, <1>6, <1>12, <1>13, SameCalls, SameKernels, SameCopies, SameMarkers
<1>15. \A i \in Ids : refs'[i] = refs[i] - (IF i = n /\ work[t].own THEN 1 ELSE 0)
  BY <1>1, <1>2, <1>3, FinishCounts
<1> HIDE DEF n
<1>16. ASSUME NEW i \in Ids
       PROVE  Cardinality(Owners(i)')
                = Cardinality(Owners(i)) - (IF i = n /\ work[t].own THEN 1 ELSE 0)
  <2>1. CASE t \in Owners(i)
    BY <1>7, <1>8, <2>1, OneLess, HolderFrames, HolderNumbers
  <2>2. CASE t \notin Owners(i)
    <3>1. Owners(i)' = Owners(i)
      BY <1>7, <2>2
    <3>2. QED
      BY <1>8, <2>2, <3>1, HolderNumbers
  <2>3. QED
    BY <2>1, <2>2
<1>17. \A i \in Ids : refs[i] \in Int
  BY DEF HolderInv, CallsInv
<1>18. QED
  BY <1>14, <1>15, <1>16, <1>17, HolderNumbers DEF RefsCountHolders

LEMMA CopyReturnCounts ==
  ASSUME HolderInv, RefsCountHolders, NEW t \in Threads, CopyReturn(t)
  PROVE  RefsCountHolders'
<1> DEFINE n == copy[work[t].n].id
<1>1. /\ work[t].kind = "copy" /\ work[t].at = "invoked"
      /\ Finish(t, n) /\ work' = [work EXCEPT ![t] = NoWork]
      /\ UNCHANGED <<calls, config, kern, copy, handler, Sampled>>
  BY DEF CopyReturn, Finish, At, samplingVars, Sampled
<1>2. n \in Ids
  <2>1. work[t].n \in Copies /\ n # 0
    BY <1>1 DEF HolderInv, WorkInv
  <2>2. n \in 0 .. constructed /\ constructed \in Nat /\ constructed <= MaxIds
    BY <2>1 DEF HolderInv, UseInv, CallsInv
  <2>3. QED
    BY <2>1, <2>2, CorrelationAssumption DEF Ids
<1>3. work'[t] = NoWork /\ \A u \in Threads : u # t => work'[u] = work[u]
  BY <1>1 DEF HolderInv, WorkInv
<1>4. SameIds
  BY <1>1 DEF SameIds
<1>5. \A i : Owners(i)' = Owners(i) \ {t}
  BY <1>1, <1>4, OwnerLeaves
<1>6. \A i : t \in Owners(i) <=> i = n /\ work[t].own
  BY <1>1 DEF Owners, IdOf
<1>7. \A j \in Kernels : Marked(j)' <=> Marked(j)
  BY <1>1, <1>3 DEF Marked, At, Handling, NoWork, Waiting, Sampled
<1>8. \A i : /\ CallsOf(i)' = CallsOf(i) /\ Entering(i)' = Entering(i)
             /\ KernelsOf(i)' = KernelsOf(i) /\ MarkersOf(i)' = MarkersOf(i)
             /\ CopiesOf(i)' = CopiesOf(i)
  BY <1>1, <1>4, <1>7, SameCalls, SameKernels, SameCopies, SameMarkers
<1>9. \A i \in Ids : refs'[i] = refs[i] - (IF i = n /\ work[t].own THEN 1 ELSE 0)
  BY <1>1, <1>2, FinishCounts
<1> HIDE DEF n
<1>10. ASSUME NEW i \in Ids
       PROVE  Cardinality(Owners(i)')
                = Cardinality(Owners(i)) - (IF i = n /\ work[t].own THEN 1 ELSE 0)
  <2>1. CASE t \in Owners(i)
    BY <1>5, <1>6, <2>1, OneLess, HolderFrames, HolderNumbers
  <2>2. CASE t \notin Owners(i)
    <3>1. Owners(i)' = Owners(i)
      BY <1>5, <2>2
    <3>2. QED
      BY <1>6, <2>2, <3>1, HolderNumbers
  <2>3. QED
    BY <2>1, <2>2
<1>11. \A i \in Ids : refs[i] \in Int
  BY DEF HolderInv, CallsInv
<1>12. QED
  BY <1>8, <1>9, <1>10, <1>11, HolderNumbers DEF RefsCountHolders

LEMMA HandleKernelEndCounts ==
  ASSUME HolderInv, RefsCountHolders, HandleKernelEnd
  PROVE  RefsCountHolders'
<1>1. PICK g \in Kernels : g = handler.n /\ kern[g].at = "handled"
  BY DEF HandleKernelEnd, Handling, HolderInv, UseInv
<1> DEFINE n == kern[g].id
<1>2. /\ handler.at = "sampled" /\ handler' = Idle /\ kern' = [kern EXCEPT ![g].at = "gone"]
      /\ refs' = [refs EXCEPT ![n] = @ - 1]
      /\ UNCHANGED <<calls, config, work, copy, Sampled>>
  BY <1>1 DEF HandleKernelEnd, Handling, Drop, samplingVars, Sampled
<1>3. n \in Ids
  BY <1>1, UsesHaveIds
<1>4. /\ kern'[g].at = "gone" /\ kern'[g].id = n
      /\ \A j \in Kernels : j # g => kern'[j] = kern[j]
  BY <1>2 DEF HolderInv, UseInv
<1>5. SameIds
  BY <1>2, <1>4 DEF SameIds
<1>6. \A j \in Kernels : Marked(j)' <=> Marked(j)
  <2>1. Waiting' = Waiting /\ work' = work
    BY <1>2 DEF Waiting, Sampled
  <2>2. Marked(g)' <=> Marked(g)
    BY <1>1, <1>2, <1>4, <2>1 DEF Marked, Handling, Idle
  <2>3. ASSUME NEW j \in Kernels, j # g
        PROVE  Marked(j)' <=> Marked(j)
    BY <1>2, <1>4, <2>1, <2>3 DEF Marked, At, Handling, Idle
  <2>4. QED
    BY <2>2, <2>3
<1>7. \A i : /\ CallsOf(i)' = CallsOf(i) /\ Entering(i)' = Entering(i)
             /\ Owners(i)' = Owners(i) /\ MarkersOf(i)' = MarkersOf(i)
             /\ CopiesOf(i)' = CopiesOf(i)
  BY <1>2, <1>5, <1>6, SameCalls, SameOwners, SameCopies, SameMarkers DEF HolderInv
<1>8. \A i : /\ KernelsOf(i)' = IF i = n THEN KernelsOf(i) \ {g} ELSE KernelsOf(i)
             /\ i = n => g \in KernelsOf(i)
  BY <1>1, <1>4 DEF KernelsOf
<1> HIDE DEF n
<1>9. ASSUME NEW i \in Ids
      PROVE  Cardinality(KernelsOf(i)') = Cardinality(KernelsOf(i)) - (IF i = n THEN 1 ELSE 0)
  BY <1>8, OneLess, HolderFrames, HolderNumbers
<1>10. \A i \in Ids : refs'[i] = refs[i] - (IF i = n THEN 1 ELSE 0)
  BY <1>2, <1>3 DEF HolderInv, CallsInv
<1>11. QED
  BY <1>7, <1>9, <1>10, HolderNumbers DEF RefsCountHolders

LEMMA HandleCopyEndCounts ==
  ASSUME HolderInv, RefsCountHolders, HandleCopyEnd
  PROVE  RefsCountHolders'
<1>1. PICK g \in Copies : g = handler.n /\ copy[g].at = "handled"
  BY DEF HandleCopyEnd, Handling, HolderInv, UseInv
<1> DEFINE n == copy[g].id
<1>2. /\ handler.at = "ended" /\ handler' = Idle /\ copy' = [copy EXCEPT ![g].at = "gone"]
      /\ refs' = [refs EXCEPT ![n] = @ - 1]
      /\ UNCHANGED <<calls, config, work, kern, Sampled>>
  BY <1>1 DEF HandleCopyEnd, Handling, Drop, samplingVars, Sampled
<1>3. n \in Ids
  BY <1>1, UsesHaveIds
<1>4. /\ copy'[g].at = "gone" /\ copy'[g].id = n
      /\ \A j \in Copies : j # g => copy'[j] = copy[j]
  BY <1>2 DEF HolderInv, UseInv
<1>5. SameIds
  BY <1>2, <1>4 DEF SameIds
<1>6. \A j \in Kernels : Marked(j)' <=> Marked(j)
  BY <1>2 DEF Marked, At, Handling, Idle, Waiting, Sampled
<1>7. \A i : /\ CallsOf(i)' = CallsOf(i) /\ Entering(i)' = Entering(i)
             /\ Owners(i)' = Owners(i) /\ KernelsOf(i)' = KernelsOf(i)
             /\ MarkersOf(i)' = MarkersOf(i)
  BY <1>2, <1>5, <1>6, SameCalls, SameOwners, SameKernels, SameMarkers DEF HolderInv
<1>8. \A i : /\ CopiesOf(i)' = IF i = n THEN CopiesOf(i) \ {g} ELSE CopiesOf(i)
             /\ i = n => g \in CopiesOf(i)
  BY <1>1, <1>4 DEF CopiesOf
<1> HIDE DEF n
<1>9. ASSUME NEW i \in Ids
      PROVE  Cardinality(CopiesOf(i)') = Cardinality(CopiesOf(i)) - (IF i = n THEN 1 ELSE 0)
  BY <1>8, OneLess, HolderFrames, HolderNumbers
<1>10. \A i \in Ids : refs'[i] = refs[i] - (IF i = n THEN 1 ELSE 0)
  BY <1>2, <1>3 DEF HolderInv, CallsInv
<1>11. QED
  BY <1>7, <1>9, <1>10, HolderNumbers DEF RefsCountHolders

LEMMA RetireCounts ==
  ASSUME HolderInv, RefsCountHolders, RetireImplicit \/ RetireExplicit
  PROVE  RefsCountHolders'
<1>1. PICK g \in cb.q3 \cup flush.taken : Retires(g)
  BY RetireTakes
<1> DEFINE n == kern[g].id
<1>2. /\ g \in Kernels /\ g \in Waiting /\ config.sampled /\ n # 0
      /\ kern[g].at = "gone" \/ (kern[g].at = "handled" /\ handler.at = "sampled")
  BY DEF HolderInv, SampleInv, Waiting
<1>3. UNCHANGED <<calls, config, Uses>>
  BY DEF RetireImplicit, RetireExplicit, Uses
<1>4. n \in Ids
  BY <1>2, UsesHaveIds
<1>5. SameIds
  BY <1>3 DEF SameIds, Uses
<1>6. Marked(g) /\ ~Marked(g)'
  BY <1>1, <1>2, <1>3 DEF Marked, Handling, Retires, Uses
<1>7. \A j \in Kernels : j # g => (Marked(j)' <=> Marked(j))
  BY <1>1, <1>3 DEF Marked, At, Handling, Retires, Uses
<1>8. \A i : /\ MarkersOf(i)' = IF i = n THEN MarkersOf(i) \ {g} ELSE MarkersOf(i)
             /\ i = n => g \in MarkersOf(i)
  BY <1>2, <1>3, <1>6, <1>7 DEF MarkersOf, Uses
<1>9. \A i : /\ CallsOf(i)' = CallsOf(i) /\ Entering(i)' = Entering(i)
             /\ Owners(i)' = Owners(i) /\ KernelsOf(i)' = KernelsOf(i)
             /\ CopiesOf(i)' = CopiesOf(i)
  BY <1>3, <1>5, SameCalls, SameOwners, SameKernels, SameCopies DEF HolderInv, Uses
<1> HIDE DEF n
<1>10. ASSUME NEW i \in Ids
       PROVE  Cardinality(MarkersOf(i)') = Cardinality(MarkersOf(i)) - (IF i = n THEN 1 ELSE 0)
  BY <1>8, OneLess, HolderFrames, HolderNumbers
<1>11. \A i \in Ids : refs'[i] = refs[i] - (IF i = n THEN 1 ELSE 0)
  BY <1>1, <1>4 DEF HolderInv, CallsInv, Retires, n
<1>12. QED
  BY <1>9, <1>10, <1>11, HolderNumbers DEF RefsCountHolders

-----------------------------------------------------------------------------
LEMMA StepCounts ==
  ASSUME HolderInv, RefsCountHolders, [Next]_vars
  PROVE  RefsCountHolders'
<1>1. ASSUME NEW t \in Threads,
             ApiEnter(t) \/ KernelBegin(t) \/ CopyBegin(t) \/ ApiRecord(t) \/ Thread(t)
      PROVE  RefsCountHolders'
  BY <1>1, ApiEnterCounts, ApiInvokeCounts, ApiRecordCounts, ApiLeaveCounts, KernelBeginCounts,
     CopyBeginCounts, WorkCounts, KernelMarkCounts, KernelWriteCounts, CopyReturnCounts DEF Thread
<1>2. ASSUME Handler \/ (\E k \in Kernels : KernelEnds(k)) \/ \E c \in Copies : CopyEnds(c)
      PROVE  RefsCountHolders'
  BY <1>2, KernelStepCounts, CopyStepCounts, HandleSampledCounts, HandleKernelEndCounts,
     HandleCopyEndCounts DEF Handler
<1>3. ASSUME Watermark \/ Callback \/ FlushTake \/ Flush
      PROVE  RefsCountHolders'
  BY <1>3, PlacesInvariant, PlacesCounts, RetireCounts DEF Callback, Flush
<1>4. ASSUME Elsewhere
      PROVE  RefsCountHolders'
  <2>1. UNCHANGED <<Counted, Uses, Sampled>>
    BY <1>4, ElsewhereInvariant
  <2>2. Waiting' = Waiting
    BY <2>1 DEF Waiting, Sampled
  <2>3. QED
    BY <2>1, <2>2, PlacesCounts
<1>5. QED
  BY <1>1, <1>2, <1>3, <1>4 DEF Next, Elsewhere

LEMMA InitCounts ==
  ASSUME Init
  PROVE  HolderInv /\ RefsCountHolders
<1>1. CallsInv
  <2>1. \A S : << >> \in Seq(S) /\ Len(<< >>) = 0
    OBVIOUS
  <2>2. QED
    BY <2>1, CorrelationAssumption DEF Init, CallsInv
<1>2. WorkInv
  BY DEF Init, WorkInv, NoWork, WorkAts
<1>3. \A k \in Kernels : kern[k].id = 0 /\ kern[k].at \in {"none", "gone"}
  BY DEF Init, NoUse
<1>4. \A c \in Copies : copy[c].id = 0 /\ copy[c].at \in {"none", "gone"}
  BY DEF Init, NoUse
<1>5. UseInv
  <2>1. /\ kern \in [Kernels -> [at : UseAts, id : 0 .. constructed]]
        /\ copy \in [Copies -> [at : UseAts, id : 0 .. constructed]]
    BY DEF Init, NoUse, UseAts
  <2>2. handler = Idle
    BY DEF Init
  <2>3. QED
    BY <1>3, <1>4, <2>1, <2>2 DEF UseInv, Idle, HandlerAts
<1>6. q1 = {} /\ q2 = {} /\ cb.q3 = {} /\ flush.taken = {} /\ Waiting = {}
  BY DEF Init, Waiting
<1>7. SampleInv
  BY <1>6 DEF Init, SampleInv, Shapes
<1>8. ASSUME NEW i \in Ids
      PROVE  /\ CallsOf(i) = {} /\ Entering(i) = {} /\ Owners(i) = {}
             /\ KernelsOf(i) = {} /\ MarkersOf(i) = {} /\ CopiesOf(i) = {}
  <2>1. CallsOf(i) = {} /\ Entering(i) = {}
    BY DEF Init, CallsOf, Entering
  <2>2. Owners(i) = {}
    BY DEF Init, Owners, NoWork
  <2>3. KernelsOf(i) = {} /\ CopiesOf(i) = {}
    BY <1>3, <1>4 DEF KernelsOf, CopiesOf
  <2>4. i # 0
    BY DEF Ids
  <2>5. MarkersOf(i) = {}
    BY <1>3, <2>4 DEF MarkersOf
  <2>6. QED
    BY <2>1, <2>2, <2>3, <2>5
<1>9. RefsCountHolders
  <2>1. \A i \in Ids : refs[i] = 0
    BY DEF Init
  <2>2. QED
    BY <1>8, <2>1, FS_EmptySet DEF RefsCountHolders
<1>10. QED
  BY <1>1, <1>2, <1>5, <1>7, <1>9 DEF HolderInv

\* The count of every correlation id is, at every moment, the number of those who still
\* need it: no holder is made or unmade without its count, and none twice
\* (correlation_id.cpp's add_ref_count and sub_ref_count and all who call them).
THEOREM RefsAreHolders == Spec => []RefsCountHolders
<1>1. Init => HolderInv /\ RefsCountHolders
  BY InitCounts
<1>2. HolderInv /\ RefsCountHolders /\ [Next]_vars => HolderInv' /\ RefsCountHolders'
  BY StepInvariant, StepCounts
<1>3. QED
  BY <1>1, <1>2, PTL DEF Spec

-----------------------------------------------------------------------------
\* Types: what the others of TypeOK need, and that _active_kernels is the number of
\* kernels from async_started to the end of their handler.
InFlight ==
  {k \in Kernels :
     \/ kern[k].at \in {"running", "complete", "handled", "abandoned"}
     \/ \E t \in Threads : work[t].kind = "kernel" /\ work[t].n = k
                           /\ work[t].at \in {"started", "marked"}}

TypesInv ==
  /\ active = Cardinality(InFlight)
  /\ count \in Nat
  /\ signal \in [alive : BOOLEAN, value : Int]
  /\ fini \in {-1, 0, 1}

LEMMA InFlightNumber == Cardinality(InFlight) \in Nat /\ Frame(InFlight)
BY Frames DEF Frame, InFlight

LEMMA SignalTypes ==
  ASSUME TypesInv, [Next]_vars
  PROVE  count' \in Nat /\ signal' \in [alive : BOOLEAN, value : Int] /\ fini' \in {-1, 0, 1}
<1>1. UNCHANGED <<signal, count, fini>> => count' \in Nat /\ signal' \in [alive : BOOLEAN, value : Int] /\ fini' \in {-1, 0, 1}
  BY DEF TypesInv
<1>2. ASSUME NEW t \in Threads, CopyCreate(t) \/ CopyCount(t) \/ CopySignal(t)
      PROVE  count' \in Nat /\ signal' \in [alive : BOOLEAN, value : Int] /\ fini' \in {-1, 0, 1}
  <2>1. CASE CopyCreate(t)
    <3>1. signal' \in {signal, Ready} /\ UNCHANGED <<count, fini>>
      BY <2>1 DEF CopyCreate, finiVars
    <3>2. Ready \in [alive : BOOLEAN, value : Int]
      BY DEF Ready
    <3>3. QED
      BY <3>1, <3>2 DEF TypesInv
  <2>2. CASE CopyCount(t)
    <3>1. count' \in {count, count + 1} /\ UNCHANGED <<signal, fini>>
      BY <2>2 DEF CopyCount, finiVars
    <3>2. QED
      BY <3>1 DEF TypesInv
  <2>3. CASE CopySignal(t)
    <3>1. /\ \E n \in {signal.value, signal.value + 1} : signal' = [signal EXCEPT !.value = n]
          /\ UNCHANGED <<count, fini>>
      BY <2>3 DEF CopySignal, finiVars
    <3>2. QED
      BY <3>1 DEF TypesInv
  <2>4. QED
    BY <1>2, <2>1, <2>2, <2>3
<1>3. ASSUME HandleCopyCount \/ HandleCopySignal
      PROVE  count' \in Nat /\ signal' \in [alive : BOOLEAN, value : Int] /\ fini' \in {-1, 0, 1}
  BY <1>3 DEF HandleCopyCount, HandleCopySignal, TypesInv, finiVars
<1>4. ASSUME FinalizeBegin \/ Finalizer
      PROVE  count' \in Nat /\ signal' \in [alive : BOOLEAN, value : Int] /\ fini' \in {-1, 0, 1}
  <2>1. CASE FinalizeBegin
    <3>1. fini' = -1 /\ UNCHANGED <<signal, count>>
      BY <2>1 DEF FinalizeBegin, Same, signalVars
    <3>2. QED
      BY <3>1 DEF TypesInv
  <2>2. CASE SyncBegin \/ SyncEnd \/ SyncTimeout
    <3>1. UNCHANGED <<signal, count, fini>>
      BY <2>2 DEF SyncBegin, SyncEnd, SyncTimeout, Same, signalVars
    <3>2. QED
      BY <1>1, <3>1
  <2>3. CASE Destroy
    <3>1. signal' = Dead /\ UNCHANGED <<count, fini>>
      BY <2>3 DEF Destroy, Same
    <3>2. QED
      BY <3>1 DEF Dead, TypesInv
  <2>4. CASE QueuesSynced
    <3>1. fini' \in {fini, 1} /\ UNCHANGED <<signal, count>>
      BY <2>4 DEF QueuesSynced, Same, signalVars
    <3>2. QED
      BY <3>1 DEF TypesInv
  <2>5. QED
    BY <1>4, <2>1, <2>2, <2>3, <2>4 DEF Finalizer
<1>5. ASSUME NEW t \in Threads,
             \/ ApiEnter(t) \/ KernelBegin(t) \/ CopyBegin(t) \/ ApiRecord(t) \/ ApiInvoke(t)
             \/ ApiLeave(t) \/ KernelStart(t) \/ KernelMark(t) \/ KernelWrite(t) \/ CopyInvoke(t)
             \/ CopyReturn(t)
      PROVE  UNCHANGED <<signal, count, fini>>
  BY <1>5 DEF ApiEnter, KernelBegin, CopyBegin, ApiRecord, ApiInvoke, ApiLeave, KernelStart,
              KernelMark, KernelWrite, CopyInvoke, CopyReturn, signalVars, finiVars
<1>6. ASSUME \/ \E k \in Kernels : KernelEnds(k) \/ Sample(k) \/ HandleKernel(k)
             \/ \E c \in Copies : CopyEnds(c) \/ HandleCopy(c)
             \/ HandleSampled \/ HandleKernelEnd \/ HandleCopyEnd
      PROVE  UNCHANGED <<signal, count, fini>>
  BY <1>6 DEF KernelEnds, Sample, HandleKernel, CopyEnds, HandleCopy, HandleSampled,
              HandleKernelEnd, HandleCopyEnd, signalVars, finiVars
<1>7. ASSUME Watermark \/ Callback \/ FlushTake \/ Flush \/ UNCHANGED vars
      PROVE  UNCHANGED <<signal, count, fini>>
  BY <1>7 DEF Watermark, Callback, Move, Deliver, RetireImplicit, Delivered, FlushTake, Flush,
              FlushBegin, RetireExplicit, FlushEnd, vars, signalVars, finiVars
<1>8. QED
  BY <1>1, <1>2, <1>3, <1>4, <1>5, <1>6, <1>7 DEF Next, Thread, Handler

\* Steps that leave the kernels in flight as they are.
LEMMA KeepInFlight ==
  ASSUME TypesInv, UNCHANGED active,
         \A k \in Kernels : (k \in InFlight') <=> (k \in InFlight)
  PROVE  active' = Cardinality(InFlight')
<1>1. InFlight' = InFlight
  BY DEF InFlight
<1>2. QED
  BY <1>1 DEF TypesInv

LEMMA KernelStartInFlight ==
  ASSUME HolderInv, TypesInv, NEW t \in Threads, KernelStart(t)
  PROVE  active' = Cardinality(InFlight')
<1>1. PICK g \in Kernels : g = work[t].n /\ kern[g].at = "begun"
  BY DEF KernelStart, At, HolderInv, WorkInv
<1>2. /\ work[t].kind = "kernel" /\ work[t].at = "begun" /\ active' = active + 1
      /\ work' = [work EXCEPT ![t].at = "started"] /\ UNCHANGED kern
  BY DEF KernelStart, At, Go
<1>3. \A u \in Threads :
        /\ work'[u].kind = work[u].kind /\ work'[u].n = work[u].n
        /\ work'[u].at = IF u = t THEN "started" ELSE work[u].at
  BY <1>2 DEF HolderInv, WorkInv
<1>4. \A u \in Threads : work[u].kind = "kernel" /\ work[u].n = g => u = t
  BY <1>1, <1>2 DEF HolderInv, WorkInv
<1>5. g \notin InFlight /\ InFlight' = InFlight \cup {g}
  BY <1>1, <1>2, <1>3, <1>4 DEF InFlight
<1>6. QED
  BY <1>2, <1>5, OneMore, InFlightNumber DEF TypesInv

LEMMA HandleKernelEndInFlight ==
  ASSUME HolderInv, TypesInv, HandleKernelEnd
  PROVE  active' = Cardinality(InFlight')
<1>1. PICK g \in Kernels : g = handler.n /\ kern[g].at = "handled"
  BY DEF HandleKernelEnd, Handling, HolderInv, UseInv
<1>2. active' = active - 1 /\ kern' = [kern EXCEPT ![g].at = "gone"] /\ UNCHANGED work
  BY <1>1 DEF HandleKernelEnd
<1>3. kern'[g].at = "gone" /\ \A j \in Kernels : j # g => kern'[j] = kern[j]
  BY <1>2 DEF HolderInv, UseInv
<1>4. \A u \in Threads : work[u].kind = "kernel" => work[u].n # g
  BY <1>1 DEF HolderInv, WorkInv
<1>5. g \in InFlight /\ InFlight' = InFlight \ {g}
  BY <1>1, <1>2, <1>3, <1>4 DEF InFlight
<1>6. QED
  BY <1>2, <1>5, OneLess, InFlightNumber DEF TypesInv

\* The steps that change a kernel or a thread's work, and those that change neither.
LEMMA OthersInFlight ==
  ASSUME HolderInv, TypesInv, NEW t \in Threads,
         \/ KernelBegin(t) \/ KernelMark(t) \/ KernelWrite(t)
         \/ CopyBegin(t) \/ CopyCreate(t) \/ CopyCount(t) \/ CopySignal(t) \/ CopyInvoke(t)
         \/ CopyReturn(t)
  PROVE  active' = Cardinality(InFlight')
<1>1. UNCHANGED active
  BY DEF KernelBegin, KernelMark, KernelWrite, CopyBegin, CopyCreate, CopyCount, CopySignal,
         CopyInvoke, CopyReturn
<1>2. work \in [Threads -> [kind : {"none", "kernel", "copy"}, n : Nat, at : WorkAts, own : BOOLEAN]]
  BY DEF HolderInv, WorkInv
<1>3. CASE KernelBegin(t)
  <2>1. PICK g \in Kernels :
          /\ kern[g].at = "none" /\ kern'[g].at = "begun"
          /\ \A j \in Kernels : j # g => kern'[j] = kern[j]
          /\ Begin(t, "kernel", g)
    BY <1>3 DEF KernelBegin, Next1, HolderInv, UseInv
  <2>2. /\ work[t].kind = "none" /\ work'[t].at = "begun"
        /\ \A u \in Threads : u # t => work'[u] = work[u]
    BY <1>2, <1>3, <2>1 DEF KernelBegin, CanCall, NoWork, Begin
  <2>3. \A k \in Kernels : (k \in InFlight') <=> (k \in InFlight)
    BY <2>1, <2>2 DEF InFlight
  <2>4. QED
    BY <1>1, <2>3, KeepInFlight
<1>4. CASE KernelWrite(t)
  <2>1. PICK g \in Kernels : g = work[t].n /\ kern[g].at = "begun"
    BY <1>4 DEF KernelWrite, At, HolderInv, WorkInv
  <2>2. /\ work[t].kind = "kernel" /\ work[t].at = "marked"
        /\ work' = [work EXCEPT ![t] = NoWork] /\ kern' = [kern EXCEPT ![g].at = "running"]
    BY <1>4, <2>1 DEF KernelWrite, Finish, At
  <2>3. /\ work'[t].kind = "none" /\ \A u \in Threads : u # t => work'[u] = work[u]
        /\ kern'[g].at = "running" /\ \A j \in Kernels : j # g => kern'[j] = kern[j]
    BY <1>2, <2>2 DEF NoWork, HolderInv, UseInv
  <2>4. \A k \in Kernels : (k \in InFlight') <=> (k \in InFlight)
    BY <2>1, <2>2, <2>3 DEF InFlight
  <2>5. QED
    BY <1>1, <2>4, KeepInFlight
<1>5. CASE KernelMark(t) \/ CopyCreate(t) \/ CopyCount(t) \/ CopySignal(t) \/ CopyInvoke(t)
  <2>1. PICK a : /\ work' = [work EXCEPT ![t].at = a]
                 /\ work[t].kind = "copy" \/ (work[t].at = "started" /\ a = "marked")
    BY <1>5 DEF KernelMark, CopyCreate, CopyCount, CopySignal, CopyInvoke, Go, At
  <2>2. /\ work'[t].kind = work[t].kind /\ work'[t].n = work[t].n /\ work'[t].at = a
        /\ \A u \in Threads : u # t => work'[u] = work[u]
    BY <1>2, <2>1
  <2>3. UNCHANGED kern
    BY <1>5 DEF KernelMark, CopyCreate, CopyCount, CopySignal, CopyInvoke
  <2>4. \A k \in Kernels : (k \in InFlight') <=> (k \in InFlight)
    BY <2>1, <2>2, <2>3 DEF InFlight
  <2>5. QED
    BY <1>1, <2>4, KeepInFlight
<1>6. CASE CopyBegin(t) \/ CopyReturn(t)
  <2>1. /\ work[t].kind \in {"none", "copy"} /\ UNCHANGED kern
        /\ \E w : w.kind \in {"none", "copy"} /\ work' = [work EXCEPT ![t] = w]
    BY <1>6 DEF CopyBegin, CopyReturn, CanCall, NoWork, Begin, Finish, At
  <2>2. work'[t].kind \in {"none", "copy"} /\ \A u \in Threads : u # t => work'[u] = work[u]
    BY <1>2, <2>1
  <2>3. \A k \in Kernels : (k \in InFlight') <=> (k \in InFlight)
    BY <2>1, <2>2 DEF InFlight
  <2>4. QED
    BY <1>1, <2>3, KeepInFlight
<1>7. QED
  BY <1>3, <1>4, <1>5, <1>6

LEMMA ElseInFlight ==
  ASSUME HolderInv, TypesInv,
         \/ \E t \in Threads : ApiEnter(t) \/ ApiInvoke(t) \/ ApiRecord(t) \/ ApiLeave(t)
         \/ \E k \in Kernels : KernelEnds(k) \/ HandleKernel(k)
         \/ \E c \in Copies : CopyEnds(c) \/ HandleCopy(c)
         \/ HandleSampled \/ HandleCopyCount \/ HandleCopySignal \/ HandleCopyEnd
         \/ Watermark \/ Callback \/ FlushTake \/ Flush \/ Elsewhere
  PROVE  active' = Cardinality(InFlight')
<1>1. CASE \E k \in Kernels : KernelEnds(k) \/ HandleKernel(k)
  <2>1. PICK g \in Kernels, a \in {"complete", "abandoned", "handled"} :
          kern[g].at \in {"running", "complete"} /\ kern' = [kern EXCEPT ![g].at = a]
    BY <1>1 DEF KernelEnds, HandleKernel
  <2>2. /\ kern'[g].at = a /\ \A j \in Kernels : j # g => kern'[j] = kern[j]
        /\ UNCHANGED <<work, active>>
    BY <1>1, <2>1 DEF KernelEnds, HandleKernel, HolderInv, UseInv
  <2>3. \A k \in Kernels : (k \in InFlight') <=> (k \in InFlight)
    BY <2>1, <2>2 DEF InFlight
  <2>4. QED
    BY <2>2, <2>3, KeepInFlight
<1>2. CASE ~\E k \in Kernels : KernelEnds(k) \/ HandleKernel(k)
  <2>1. UNCHANGED <<work, kern, active>>
    BY <1>2 DEF ApiEnter, ApiInvoke, ApiRecord, ApiLeave, CopyEnds, HandleCopy, HandleSampled,
         HandleCopyCount, HandleCopySignal, HandleCopyEnd, Watermark, Callback, Move, Deliver,
         RetireImplicit, Delivered, FlushTake, Flush, FlushBegin, RetireExplicit, FlushEnd,
         Elsewhere, vars, Sample, FinalizeBegin, Finalizer, SyncBegin, SyncEnd, SyncTimeout,
         Destroy, QueuesSynced, Same
  <2>2. \A k \in Kernels : (k \in InFlight') <=> (k \in InFlight)
    BY <2>1 DEF InFlight
  <2>3. QED
    BY <2>1, <2>2, KeepInFlight
<1>3. QED
  BY <1>1, <1>2

LEMMA StepTypes ==
  ASSUME HolderInv, TypesInv, [Next]_vars
  PROVE  TypesInv'
<1>1. active' = Cardinality(InFlight')
  BY KernelStartInFlight, HandleKernelEndInFlight, OthersInFlight, ElseInFlight
     DEF Next, Thread, Handler, Elsewhere
<1>2. QED
  BY <1>1, SignalTypes DEF TypesInv

LEMMA TypesImplied ==
  ASSUME HolderInv, RefsCountHolders, TypesInv, retired \subseteq Ids
  PROVE  TypeOK
<1>1. constructed \in 0 .. MaxIds /\ Made \subseteq Ids /\ MaxIds \in Nat
  BY CorrelationAssumption DEF HolderInv, CallsInv, Made, Ids
<1>2. refs \in [Ids -> Nat]
  <2>1. \A i \in Ids : refs[i] \in Nat
    BY HolderNumbers DEF RefsCountHolders
  <2>2. QED
    BY <2>1 DEF HolderInv, CallsInv
<1>3. \A t \in Threads : stack[t] \in Seq(Ids)
  BY <1>1, SeqGrows DEF HolderInv, CallsInv
<1>4. \A t \in Threads : work[t].kind \in {"none", "kernel", "copy"}
  BY DEF HolderInv, WorkInv
<1>5. \A k \in Kernels : kern[k].id \in 0 .. MaxIds
  <2>1. \A k \in Kernels : kern[k].id \in 0 .. constructed
    BY DEF HolderInv, UseInv
  <2>2. QED
    BY <1>1, <2>1
<1>6. \A c \in Copies : copy[c].id \in 0 .. MaxIds
  <2>1. \A c \in Copies : copy[c].id \in 0 .. constructed
    BY DEF HolderInv, UseInv
  <2>2. QED
    BY <1>1, <2>1
<1>7. Waiting \subseteq Kernels
  BY DEF HolderInv, SampleInv, Waiting
<1>8. active \in Nat /\ count \in Nat /\ signal.value \in Int /\ fini \in {-1, 0, 1}
  BY InFlightNumber DEF TypesInv
<1>9. QED
  BY <1>1, <1>2, <1>3, <1>4, <1>5, <1>6, <1>7, <1>8 DEF TypeOK

LEMMA InitTypes ==
  ASSUME Init
  PROVE  TypesInv
<1>1. InFlight = {}
  <2>1. \A k \in Kernels : kern[k].at \in {"none", "gone"}
    BY DEF Init, NoUse
  <2>2. QED
    BY <2>1 DEF Init, NoWork, InFlight
<1>2. active = 0 /\ count = 0 /\ signal = [alive |-> TRUE, value |-> 0] /\ fini = 0
  BY DEF Init, Ready
<1>3. QED
  BY <1>1, <1>2, FS_EmptySet DEF TypesInv
=============================================================================
