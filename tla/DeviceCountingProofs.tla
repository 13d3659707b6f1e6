------------------------ MODULE DeviceCountingProofs ------------------------
(***************************************************************************)
(* The status word is a lock: one call at a time is between its            *)
(* compare-exchange and the exchange that ends it, and the status is       *)
(* LOCKED for as long.  Hence the exchanges, which test nothing, never     *)
(* overwrite EXIT, and no packet is submitted after it.  From the same     *)
(* invariant, how the service follows its context (FollowInv) and how the  *)
(* device follows the service (CountInv).  Then the types (TypeInv), which *)
(* take a count of the packets still queued, and the samples (ReadInv): at *)
(* most one is in progress, and it is of the read that waits for it.       *)
(***************************************************************************)
EXTENDS DeviceCounting, FiniteSetTheorems, TLAPS

\* The places between the compare-exchange and the exchange.
Section == {"profile", "startWait", "startEnd", "read", "readFire", "readSubmit", "readBarrier",
            "readWait", "readEnd", "stopSubmit", "stopWait", "stopEnd"}

\* Whoever is in a section is alone, and the status says so.
Locked ==
  \A t \in Threads :
    at[t] \in Section => status = "locked" /\ \A u \in Threads : at[u] \in Section => u = t

AnyPacket == [kind : {"start", "stop", "read", "barrier"}, n : Int]

\* The strengthening.
LockInv ==
  /\ at \in [Threads -> Places]
  /\ queue \in Seq(AnyPacket)
  /\ num \in [Threads -> Int]
  /\ reads \in Int
  /\ Locked

\* The steps of a call that leave the status alone stay outside the section, or inside it.
LEMMA Moves ==
  ASSUME LockInv, NEW t \in Threads, NEW p \in Places,
         at' = [at EXCEPT ![t] = p], p \in Section => at[t] \in Section,
         status' = status
  PROVE  at' \in [Threads -> Places] /\ Locked'
BY DEF LockInv, Locked

\* A compare-exchange from a status that is not LOCKED enters it.
LEMMA Enters ==
  ASSUME LockInv, NEW t \in Threads, NEW p \in Section,
         at' = [at EXCEPT ![t] = p], status # "locked", status' = "locked"
  PROVE  at' \in [Threads -> Places] /\ Locked'
BY DEF LockInv, Locked, Section, Places

\* The exchange leaves it, whatever status it sets.
LEMMA Leaves ==
  ASSUME LockInv, NEW t \in Threads, at[t] \in Section, at' = [at EXCEPT ![t] = "idle"]
  PROVE  at' \in [Threads -> Places] /\ Locked'
<1>1. at' \in [Threads -> Places]
  BY DEF LockInv, Places
<1>2. \A u \in Threads : at'[u] \notin Section
  BY DEF LockInv, Locked, Section
<1>3. QED
  BY <1>1, <1>2 DEF Locked

\* Calls that begin, and what happens outside the section.
LEMMA OutsideSteps ==
  ASSUME LockInv, NEW t \in Threads,
         \/ StartBegin(t) \/ StopBegin(t) \/ Register(t) \/ FinalizeBegin(t)
         \/ StartSearch(t) \/ StartPublish(t) \/ RegisterStart(t) \/ StopClear(t)
  PROVE  LockInv' /\ status' = status /\ queue' = queue
<1>1. status' = status /\ queue' = queue /\ num' = num /\ reads' = reads
  BY DEF StartBegin, StopBegin, Register, FinalizeBegin, StartSearch, StartPublish, RegisterStart,
         StopClear, deviceVars, boundVars
<1>2. PICK p \in Places : at' = [at EXCEPT ![t] = p] /\ p \notin Section
  BY DEF StartBegin, StopBegin, Register, FinalizeBegin, StartSearch, StartPublish, RegisterStart,
         StopClear, Calls, Goes, Section, Places
<1>3. at' \in [Threads -> Places] /\ Locked'
  BY <1>1, <1>2, Moves
<1>4. QED
  BY <1>1, <1>3 DEF LockInv

\* The three compare-exchanges of start, read and stop.
LEMMA LockSteps ==
  ASSUME LockInv, NEW t \in Threads,
         StartLock(t) \/ StopLock(t) \/ \E m \in Modes : ReadLock(t, m)
  PROVE  LockInv' /\ (status = "exit" => status' = "exit") /\ queue' = queue
<1>1. queue' = queue
  BY DEF StartLock, StopLock, ReadLock, deviceVars
<1>2. num' \in [Threads -> Int] /\ reads' \in Int
  <2>1. CASE StartLock(t) \/ StopLock(t)
    BY <2>1 DEF StartLock, StopLock, boundVars, LockInv
  <2>2. ASSUME NEW m \in Modes, ReadLock(t, m)
        PROVE  num' \in [Threads -> Int] /\ reads' \in Int
    BY <2>2 DEF ReadLock, LockInv
  <2>3. QED
    BY <2>1, <2>2
<1>3. \/ /\ status \notin {"locked", "exit"} /\ status' = "locked"
         /\ \E p \in Section : at' = [at EXCEPT ![t] = p]
      \/ status' = status /\ at' = [at EXCEPT ![t] = "idle"]
  BY DEF StartLock, StopLock, ReadLock, Goes, Section
<1>4. at' \in [Threads -> Places] /\ Locked'
  <2>1. "idle" \notin Section /\ "idle" \in Places
    BY DEF Section, Places
  <2>2. QED
    BY <1>3, <2>1, Moves, Enters
<1>5. QED
  BY <1>1, <1>2, <1>3, <1>4 DEF LockInv

\* Inside the section the status stays; a packet may be submitted.
LEMMA InsideSteps ==
  ASSUME LockInv, NEW t \in Threads,
         \/ StartProfile(t) \/ StartWait(t) \/ ReadTurn(t) \/ ReadFire(t) \/ ReadSubmit(t)
         \/ ReadBarrier(t) \/ ReadWait(t) \/ StopSubmit(t) \/ StopWait(t)
  PROVE  LockInv' /\ status' = status /\ status = "locked"
<1>1. status' = status /\ num' = num /\ reads' = reads
  BY DEF StartProfile, StartWait, ReadTurn, ReadFire, ReadSubmit, ReadBarrier, ReadWait,
         StopSubmit, StopWait, boundVars
<1>2. at[t] \in Section
  BY DEF StartProfile, StartWait, ReadTurn, ReadFire, ReadSubmit, ReadBarrier, ReadWait,
         StopSubmit, StopWait, Goes, Section
<1>3. \E p \in Places : at' = [at EXCEPT ![t] = p]
  <2>1. CASE ReadTurn(t)
    <3>1. CASE packet = "none"
      BY <2>1, <3>1 DEF ReadTurn, Goes, Places
    <3>2. CASE packet # "none"
      BY <2>1, <3>2 DEF ReadTurn, Goes, Places
    <3>3. QED
      BY <3>1, <3>2
  <2>2. CASE ~ReadTurn(t)
    BY <2>2 DEF StartProfile, StartWait, ReadFire, ReadSubmit, ReadBarrier, ReadWait,
                StopSubmit, StopWait, Goes, Places
  <2>3. QED
    BY <2>1, <2>2
<1>4. queue' \in Seq(AnyPacket)
  <2>1. queue' = queue \/ \E p \in AnyPacket : queue' = Append(queue, p)
    <3>1. CASE StartProfile(t)
      BY <3>1 DEF StartProfile, AnyPacket
    <3>2. CASE ReadSubmit(t) \/ ReadBarrier(t)
      <4>1. num[t] \in Int
        BY DEF LockInv
      <4>2. QED
        BY <3>2, <4>1 DEF ReadSubmit, ReadBarrier, AnyPacket
    <3>3. CASE StopSubmit(t)
      BY <3>3 DEF StopSubmit, AnyPacket
    <3>4. CASE StartWait(t) \/ ReadTurn(t) \/ ReadFire(t) \/ ReadWait(t) \/ StopWait(t)
      BY <3>4 DEF StartWait, ReadTurn, ReadFire, ReadWait, StopWait, deviceVars
    <3>5. QED
      BY <3>1, <3>2, <3>3, <3>4
  <2>2. QED
    BY <2>1 DEF LockInv
<1>5. at' \in [Threads -> Places] /\ Locked'
  BY <1>1, <1>2, <1>3, Moves
<1>6. QED
  BY <1>1, <1>2, <1>4, <1>5 DEF LockInv, Locked

\* The exchanges at the ends of the three calls: the status was LOCKED.
LEMMA EndSteps ==
  ASSUME LockInv, NEW t \in Threads, StartEnd(t) \/ ReadEnd(t) \/ StopEnd(t)
  PROVE  LockInv' /\ status = "locked" /\ queue' = queue
<1>1. queue' = queue /\ num' \in [Threads -> Int] /\ reads' = reads
  BY DEF StartEnd, ReadEnd, StopEnd, deviceVars, boundVars, LockInv
<1>2. at[t] \in Section /\ at' = [at EXCEPT ![t] = "idle"]
  BY DEF StartEnd, ReadEnd, StopEnd, Goes, Section
<1>3. at' \in [Threads -> Places] /\ Locked'
  BY <1>2, Leaves
<1>4. status = "locked"
  BY <1>2 DEF LockInv, Locked
<1>5. QED
  BY <1>1, <1>3, <1>4 DEF LockInv

\* finalize: it waits until nobody is in a section.
LEMMA FinalizeStep ==
  ASSUME LockInv, NEW t \in Threads, FinalizeService(t)
  PROVE  LockInv' /\ status' = "exit" /\ queue' = queue
<1>1. status' = "exit" /\ queue' = queue /\ num' = num /\ reads' = reads
  BY DEF FinalizeService, deviceVars, boundVars
<1>2. at' = [at EXCEPT ![t] = "stop"] /\ status # "locked"
  BY DEF FinalizeService, Goes
<1>3. \A u \in Threads : at'[u] \notin Section
  BY <1>2 DEF LockInv, Locked, Section
<1>4. QED
  BY <1>1, <1>2, <1>3 DEF LockInv, Locked, Places

\* The device only takes packets; the handler touches neither queue nor status.
LEMMA DeviceSteps ==
  ASSUME LockInv, Process \/ Handler
  PROVE  LockInv' /\ status' = status /\ Len(queue') <= Len(queue)
<1>1. status' = status /\ at' = at /\ num' = num /\ reads' = reads
  BY DEF Process, Handler, HandlerDecode, HandlerRecord, HandlerEnd, boundVars
<1>2. queue' = queue \/ (queue # << >> /\ queue' = Tail(queue))
  BY DEF Process, Handler, HandlerDecode, HandlerRecord, HandlerEnd
<1>3. queue' \in Seq(AnyPacket) /\ Len(queue') <= Len(queue)
  <2>1. queue \in Seq(AnyPacket)
    BY DEF LockInv
  <2>2. QED
    BY <1>2, <2>1
<1>4. QED
  BY <1>1, <1>3 DEF LockInv, Locked

\* What every step does to the status and the queue.
LEMMA StepLocks ==
  ASSUME LockInv, [Next]_vars
  PROVE  /\ LockInv'
         /\ status = "exit" => status' = "exit" /\ Len(queue') <= Len(queue)
<1>0. Len(queue) <= Len(queue)
  BY DEF LockInv
<1>1. CASE UNCHANGED vars
  BY <1>0, <1>1 DEF vars, deviceVars, boundVars, LockInv, Locked
<1>2. ASSUME NEW t \in Threads,
             \/ StartBegin(t) \/ StopBegin(t) \/ Register(t) \/ FinalizeBegin(t) \/ Continues(t)
             \/ \E m \in Modes : ReadLock(t, m)
      PROVE  /\ LockInv'
             /\ status = "exit" => status' = "exit" /\ Len(queue') <= Len(queue)
  BY <1>0, <1>2, OutsideSteps, LockSteps, InsideSteps, EndSteps, FinalizeStep DEF Continues
<1>3. CASE Process \/ Handler
  BY <1>3, DeviceSteps
<1>4. QED
  BY <1>1, <1>2, <1>3 DEF Next

\* device_counting_service_finalize: EXIT stays, and nothing is submitted after it.
THEOREM CountingExitIsFinal == Spec => ExitIsFinal
<1>1. Init => LockInv
  BY DEF Init, LockInv, Locked, Section, Places
<1>2. LockInv /\ [Next]_vars => LockInv'
  BY StepLocks
<1>3. LockInv /\ [Next]_vars
        => [status = "exit" => status' = "exit" /\ Len(queue') <= Len(queue)]_vars
  BY StepLocks
<1>4. QED
  BY <1>1, <1>2, <1>3, PTL DEF Spec, ExitIsFinal

-----------------------------------------------------------------------------
\* The places of a stop that holds the mutex, and those of them inside the section.
StopSection == {"stopLock", "stopSubmit", "stopWait", "stopEnd"}
StopLate == {"stopSubmit", "stopWait", "stopEnd"}

\* How the service follows its context while no stop overlaps another call: a stop that
\* holds the mutex has cleared its context; a start on its way, and a service that is
\* on, have an active context; and a context that is active next to a disabled service
\* has a start on its way.
Follows ==
  /\ mutex # None => ~active
  /\ mutex = None => \A t \in Threads : at[t] = "lock" => active
  /\ mutex = None /\ status \in {"enabled", "locked"} => active
  /\ active /\ inited /\ status = "disabled" => \E t \in Threads : at[t] \in {"lock", "lookup"}
  /\ \A t \in Threads : at[t] \in StopLate => \A u \in Threads : at[u] # "lock"

\* The strengthening.
FollowInv ==
  /\ inited \in BOOLEAN /\ active \in BOOLEAN /\ overlapped \in BOOLEAN
  /\ status \in {"disabled", "locked", "enabled", "exit"}
  /\ mutex \in Threads \cup {None}
  /\ \A t \in Threads : mutex = t <=> at[t] \in StopSection
  /\ status \in {"enabled", "locked"} => inited
  /\ status = "locked" => \E t \in Threads : at[t] \in Section
  /\ ~overlapped /\ status # "exit" => Follows

followVars == <<status, inited, active, mutex, overlapped>>

\* A move that the invariant cannot tell.
LEMMA QuietMoves ==
  ASSUME LockInv, FollowInv, NEW t \in Threads, NEW p \in Places,
         at' = [at EXCEPT ![t] = p], UNCHANGED followVars,
         \A S \in {Section, StopSection, StopLate, {"lock"}, {"lookup"}} : p \in S <=> at[t] \in S
  PROVE  FollowInv'
<1>1. \A u \in Threads : at'[u] = IF u = t THEN p ELSE at[u]
  BY DEF LockInv
<1>2. /\ p \in Section <=> at[t] \in Section
      /\ p \in StopSection <=> at[t] \in StopSection
      /\ p \in StopLate <=> at[t] \in StopLate
      /\ p = "lock" <=> at[t] = "lock"
      /\ p = "lookup" <=> at[t] = "lookup"
  OBVIOUS
<1>3. \A u \in Threads : /\ at'[u] \in Section <=> at[u] \in Section
                         /\ at'[u] \in StopSection <=> at[u] \in StopSection
                         /\ at'[u] \in StopLate <=> at[u] \in StopLate
                         /\ at'[u] = "lock" <=> at[u] = "lock"
                         /\ at'[u] = "lookup" <=> at[u] = "lookup"
  BY <1>1, <1>2
<1>4. QED
  BY <1>3 DEF FollowInv, Follows, followVars

LEMMA QuietSteps ==
  ASSUME LockInv, FollowInv, NEW t \in Threads,
         \/ StartBegin(t) \/ StopBegin(t) \/ FinalizeBegin(t) \/ StartSearch(t)
         \/ StartProfile(t) \/ StartWait(t) \/ ReadTurn(t) \/ ReadFire(t) \/ ReadSubmit(t)
         \/ ReadBarrier(t) \/ ReadWait(t) \/ StopSubmit(t) \/ StopWait(t)
  PROVE  FollowInv'
<1>1. UNCHANGED followVars
  BY DEF StartBegin, StopBegin, FinalizeBegin, StartSearch, StartProfile, StartWait, ReadTurn,
         ReadFire, ReadSubmit, ReadBarrier, ReadWait, StopSubmit, StopWait, contextVars, followVars
<1>2. \E p \in Places :
        /\ at' = [at EXCEPT ![t] = p]
        /\ \/ at[t] \in {"idle", "start"} /\ p \in {"start", "stop", "exit", "found", "idle"}
           \/ at[t] \in Section \ StopLate /\ p \in Section \ StopLate
           \/ at[t] \in StopLate /\ p \in StopLate
  <2>1. CASE StartBegin(t) \/ StopBegin(t) \/ FinalizeBegin(t) \/ StartSearch(t)
    BY <2>1 DEF StartBegin, StopBegin, FinalizeBegin, StartSearch, Calls, Goes, Places
  <2>2. CASE StartProfile(t) \/ StartWait(t)
    BY <2>2 DEF StartProfile, StartWait, Goes, Places, Section, StopLate
  <2>3. CASE ReadTurn(t)
    BY <2>3 DEF ReadTurn, Goes, Places, Section, StopLate
  <2>4. CASE ReadFire(t) \/ ReadSubmit(t) \/ ReadBarrier(t) \/ ReadWait(t)
    BY <2>4 DEF ReadFire, ReadSubmit, ReadBarrier, ReadWait, Goes, Places, Section, StopLate
  <2>5. CASE StopSubmit(t) \/ StopWait(t)
    BY <2>5 DEF StopSubmit, StopWait, Goes, Places, Section, StopLate
  <2>6. QED
    BY <2>1, <2>2, <2>3, <2>4, <2>5
<1>3. PICK p \in Places :
        /\ at' = [at EXCEPT ![t] = p]
        /\ \/ at[t] \in {"idle", "start"} /\ p \in {"start", "stop", "exit", "found", "idle"}
           \/ at[t] \in Section \ StopLate /\ p \in Section \ StopLate
           \/ at[t] \in StopLate /\ p \in StopLate
  BY <1>2
<1>4. \A S \in {Section, StopSection, StopLate, {"lock"}, {"lookup"}} : p \in S <=> at[t] \in S
  BY <1>3 DEF Section, StopSection, StopLate
<1>5. QED
  BY <1>1, <1>3, <1>4, QuietMoves

\* Where every thread is after t moved.
LEMMA Moved ==
  ASSUME LockInv, NEW t \in Threads, NEW p, at' = [at EXCEPT ![t] = p]
  PROVE  \A u \in Threads : at'[u] = IF u = t THEN p ELSE at[u]
BY DEF LockInv

\* The slot is filled: unless during a stop, with a start on its way.
LEMMA PublishFollows ==
  ASSUME LockInv, FollowInv, NEW t \in Threads, StartPublish(t)
  PROVE  FollowInv'
<1> DEFINE p == IF active THEN "idle" ELSE "lock"
<1>1. /\ at[t] = "found" /\ at' = [at EXCEPT ![t] = p] /\ active' = TRUE
      /\ overlapped' = (overlapped \/ mutex # None)
      /\ status' = status /\ inited' = inited /\ mutex' = mutex
  BY DEF StartPublish, Goes, contextVars
<1>0. ~overlapped' => ~overlapped /\ mutex = None
  BY <1>1
<1>2. \A u \in Threads : at'[u] = IF u = t THEN p ELSE at[u]
  BY <1>1, Moved
<1>3. /\ inited' \in BOOLEAN /\ active' \in BOOLEAN /\ overlapped' \in BOOLEAN
      /\ status' \in {"disabled", "locked", "enabled", "exit"}
      /\ mutex' \in Threads \cup {None}
  BY <1>1, <1>2 DEF FollowInv
<1>4. \A u \in Threads : mutex' = u <=> at'[u] \in StopSection
  BY <1>1, <1>2 DEF FollowInv, StopSection
<1>5. status' \in {"enabled", "locked"} => inited'
  BY <1>1, <1>2 DEF FollowInv
<1>6. status' = "locked" => \E u \in Threads : at'[u] \in Section
  BY <1>1, <1>2 DEF FollowInv, Section
<1>7. ~overlapped' /\ status' # "exit" => Follows'
  <2> SUFFICES ASSUME ~overlapped', status' # "exit"
               PROVE  Follows'
    OBVIOUS
  <2>1. mutex' # None => ~active'
    BY <1>1, <1>2 DEF FollowInv, Follows, StopLate
  <2>2. mutex' = None => \A u \in Threads : at'[u] = "lock" => active'
    BY <1>1, <1>2 DEF FollowInv, Follows, StopLate
  <2>3. mutex' = None /\ status' \in {"enabled", "locked"} => active'
    BY <1>1, <1>2 DEF FollowInv, Follows, StopLate
  <2>4. active' /\ inited' /\ status' = "disabled"
          => \E u \in Threads : at'[u] \in {"lock", "lookup"}
    BY <1>1, <1>2 DEF FollowInv, Follows, StopLate
  <2>5. \A u \in Threads : at'[u] \in StopLate => \A v \in Threads : at'[v] # "lock"
    BY <1>1, <1>2, <1>0, CountingAssumption DEF FollowInv, Follows, StopLate, StopSection
  <2>6. QED
    BY <2>1, <2>2, <2>3, <2>4, <2>5 DEF Follows
<1>8. QED
  BY <1>3, <1>4, <1>5, <1>6, <1>7 DEF FollowInv

\* start_agent_ctx takes the status or has nothing to do.
LEMMA StartLockFollows ==
  ASSUME LockInv, FollowInv, NEW t \in Threads, StartLock(t)
  PROVE  FollowInv'
<1> DEFINE locks == inited /\ status = "disabled"
           p == IF locks THEN "profile" ELSE "idle"
<1>1. /\ at[t] = "lock" /\ at' = [at EXCEPT ![t] = p]
      /\ status' = IF locks THEN "locked" ELSE status
      /\ UNCHANGED <<inited, active, mutex, overlapped>>
  BY Zenon DEF StartLock, Goes, contextVars
<1>. HIDE DEF p
<1>2. \A u \in Threads : at'[u] = IF u = t THEN p ELSE at[u]
  BY <1>1, Moved
<1>. USE DEF p
<1>3. /\ inited' \in BOOLEAN /\ active' \in BOOLEAN /\ overlapped' \in BOOLEAN
      /\ status' \in {"disabled", "locked", "enabled", "exit"}
      /\ mutex' \in Threads \cup {None}
  BY <1>1, <1>2 DEF FollowInv
<1>4. \A u \in Threads : mutex' = u <=> at'[u] \in StopSection
  BY <1>1, <1>2 DEF FollowInv, StopSection
<1>5. status' \in {"enabled", "locked"} => inited'
  BY <1>1, <1>2 DEF FollowInv
<1>6. status' = "locked" => \E u \in Threads : at'[u] \in Section
  BY <1>1, <1>2 DEF FollowInv, Section
<1>7. ~overlapped' /\ status' # "exit" => Follows'
  <2> SUFFICES ASSUME ~overlapped', status' # "exit"
               PROVE  Follows'
    OBVIOUS
  <2>1. mutex' # None => ~active'
    BY <1>1, <1>2 DEF FollowInv, Follows, StopLate
  <2>2. mutex' = None => \A u \in Threads : at'[u] = "lock" => active'
    BY <1>1, <1>2 DEF FollowInv, Follows, StopLate
  <2>3. mutex' = None /\ status' \in {"enabled", "locked"} => active'
    BY <1>1, <1>2 DEF FollowInv, Follows, StopLate
  <2>4. active' /\ inited' /\ status' = "disabled"
          => \E u \in Threads : at'[u] \in {"lock", "lookup"}
    BY <1>1, <1>2 DEF FollowInv, Follows, StopLate
  <2>5. \A u \in Threads : at'[u] \in StopLate => \A v \in Threads : at'[v] # "lock"
    BY <1>1, <1>2 DEF FollowInv, Follows, StopLate
  <2>6. QED
    BY <2>1, <2>2, <2>3, <2>4, <2>5 DEF Follows
<1>8. QED
  BY <1>3, <1>4, <1>5, <1>6, <1>7 DEF FollowInv

\* The registration: from here on a start sees the runtime, and it sees the contexts.
LEMMA RegisterFollows ==
  ASSUME LockInv, FollowInv, NEW t \in Threads, Register(t)
  PROVE  FollowInv'
<1>1. /\ at[t] = "idle" /\ at' = [at EXCEPT ![t] = "lookup"] /\ inited' = TRUE
      /\ UNCHANGED <<status, active, mutex, overlapped>>
  BY DEF Register, Goes
<1>2. \A u \in Threads : at'[u] = IF u = t THEN "lookup" ELSE at[u]
  BY <1>1, Moved
<1>3. QED
  BY <1>1, <1>2 DEF FollowInv, Follows, Section, StopSection, StopLate

LEMMA RegisterStartFollows ==
  ASSUME LockInv, FollowInv, NEW t \in Threads, RegisterStart(t)
  PROVE  FollowInv'
<1> DEFINE p == IF active THEN "lock" ELSE "idle"
<1>1. /\ at[t] = "lookup" /\ at' = [at EXCEPT ![t] = p]
      /\ UNCHANGED <<status, inited, active, mutex, overlapped>>
  BY DEF RegisterStart, Goes, contextVars
<1>2. \A u \in Threads : at'[u] = IF u = t THEN p ELSE at[u]
  BY <1>1, Moved
<1>3. /\ inited' \in BOOLEAN /\ active' \in BOOLEAN /\ overlapped' \in BOOLEAN
      /\ status' \in {"disabled", "locked", "enabled", "exit"}
      /\ mutex' \in Threads \cup {None}
  BY <1>1, <1>2 DEF FollowInv
<1>4. \A u \in Threads : mutex' = u <=> at'[u] \in StopSection
  BY <1>1, <1>2 DEF FollowInv, StopSection
<1>5. status' \in {"enabled", "locked"} => inited'
  BY <1>1, <1>2 DEF FollowInv
<1>6. status' = "locked" => \E u \in Threads : at'[u] \in Section
  BY <1>1, <1>2 DEF FollowInv, Section
<1>7. ~overlapped' /\ status' # "exit" => Follows'
  <2> SUFFICES ASSUME ~overlapped', status' # "exit"
               PROVE  Follows'
    OBVIOUS
  <2>1. mutex' # None => ~active'
    BY <1>1, <1>2 DEF FollowInv, Follows, StopLate
  <2>2. mutex' = None => \A u \in Threads : at'[u] = "lock" => active'
    BY <1>1, <1>2 DEF FollowInv, Follows, StopLate
  <2>3. mutex' = None /\ status' \in {"enabled", "locked"} => active'
    BY <1>1, <1>2 DEF FollowInv, Follows, StopLate
  <2>4. active' /\ inited' /\ status' = "disabled"
          => \E u \in Threads : at'[u] \in {"lock", "lookup"}
    BY <1>1, <1>2 DEF FollowInv, Follows, StopLate
  <2>5. \A u \in Threads : at'[u] \in StopLate => \A v \in Threads : at'[v] # "lock"
    BY <1>1, <1>2, CountingAssumption DEF FollowInv, Follows, StopLate, StopSection
  <2>6. QED
    BY <2>1, <2>2, <2>3, <2>4, <2>5 DEF Follows
<1>8. QED
  BY <1>3, <1>4, <1>5, <1>6, <1>7 DEF FollowInv

\* A read takes the status of a service that is on.
LEMMA ReadLockFollows ==
  ASSUME LockInv, FollowInv, NEW t \in Threads, NEW m \in Modes, ReadLock(t, m)
  PROVE  FollowInv'
<1>1. /\ at[t] = "idle" /\ at' = [at EXCEPT ![t] = "read"]
      /\ inited /\ status = "enabled" /\ status' = "locked"
      /\ UNCHANGED <<inited, active, mutex, overlapped>>
  BY DEF ReadLock, Goes, contextVars
<1>2. \A u \in Threads : at'[u] = IF u = t THEN "read" ELSE at[u]
  BY <1>1, Moved
<1>3. QED
  BY <1>1, <1>2 DEF FollowInv, Follows, Section, StopSection, StopLate

\* A start or a read ends: the service is on.
LEMMA EndFollows ==
  ASSUME LockInv, FollowInv, NEW t \in Threads, StartEnd(t) \/ ReadEnd(t)
  PROVE  FollowInv'
<1>1. /\ at[t] \in {"startEnd", "readEnd"} /\ at' = [at EXCEPT ![t] = "idle"]
      /\ status' = "enabled" /\ UNCHANGED <<inited, active, mutex, overlapped>>
  BY DEF StartEnd, ReadEnd, Goes, contextVars
<1>2. \A u \in Threads : at'[u] = IF u = t THEN "idle" ELSE at[u]
  BY <1>1, Moved
<1>3. status = "locked"
  BY <1>1 DEF LockInv, Locked, Section
<1>4. QED
  BY <1>1, <1>2, <1>3 DEF FollowInv, Follows, Section, StopSection, StopLate

\* A stop clears the slot, with the mutex.
LEMMA StopClearFollows ==
  ASSUME LockInv, FollowInv, NEW t \in Threads, StopClear(t)
  PROVE  FollowInv'
<1> DEFINE p == IF active THEN "stopLock" ELSE "idle"
<1>1. /\ at[t] = "stop" /\ at' = [at EXCEPT ![t] = p]
      /\ mutex = None /\ mutex' = (IF active THEN t ELSE None) /\ active' = FALSE
      /\ UNCHANGED <<status, inited, overlapped>>
  BY DEF StopClear, Goes
<1>2. \A u \in Threads : at'[u] = IF u = t THEN p ELSE at[u]
  BY <1>1, Moved
<1>3. t # None
  BY CountingAssumption
<1>4. /\ inited' \in BOOLEAN /\ active' \in BOOLEAN /\ overlapped' \in BOOLEAN
      /\ status' \in {"disabled", "locked", "enabled", "exit"}
      /\ mutex' \in Threads \cup {None}
  BY <1>1, <1>2, <1>3 DEF FollowInv
<1>5. \A u \in Threads : mutex' = u <=> at'[u] \in StopSection
  BY <1>1, <1>2, <1>3, CountingAssumption DEF FollowInv, StopSection
<1>6. status' \in {"enabled", "locked"} => inited'
  BY <1>1, <1>2, <1>3 DEF FollowInv
<1>7. status' = "locked" => \E u \in Threads : at'[u] \in Section
  BY <1>1, <1>2, <1>3 DEF FollowInv, Section
<1>8. ~overlapped' /\ status' # "exit" => Follows'
  <2> SUFFICES ASSUME ~overlapped', status' # "exit"
               PROVE  Follows'
    OBVIOUS
  <2>1. mutex' # None => ~active'
    BY <1>1, <1>2, <1>3 DEF FollowInv, Follows, StopLate
  <2>2. mutex' = None => \A u \in Threads : at'[u] = "lock" => active'
    BY <1>1, <1>2, <1>3 DEF FollowInv, Follows, StopLate
  <2>3. mutex' = None /\ status' \in {"enabled", "locked"} => active'
    BY <1>1, <1>2, <1>3 DEF FollowInv, Follows, StopLate
  <2>4. active' /\ inited' /\ status' = "disabled"
          => \E u \in Threads : at'[u] \in {"lock", "lookup"}
    BY <1>1, <1>2, <1>3 DEF FollowInv, Follows, StopLate
  <2>5. \A u \in Threads : at'[u] \in StopLate => \A v \in Threads : at'[v] # "lock"
    BY <1>1, <1>2, <1>3 DEF FollowInv, Follows, StopLate
  <2>6. QED
    BY <2>1, <2>2, <2>3, <2>4, <2>5 DEF Follows
<1>9. QED
  BY <1>4, <1>5, <1>6, <1>7, <1>8 DEF FollowInv

\* Unless it overlaps another call, it finds the status free and no start on its way.
LEMMA StopLockFollows ==
  ASSUME LockInv, FollowInv, NEW t \in Threads, StopLock(t)
  PROVE  FollowInv'
<1> DEFINE locks == inited /\ status = "enabled"
           p == IF locks THEN "stopSubmit" ELSE "idle"
<1>1. /\ at[t] = "stopLock" /\ at' = [at EXCEPT ![t] = p]
      /\ status' = (IF locks THEN "locked" ELSE status)
      /\ mutex' = (IF locks THEN mutex ELSE None)
      /\ overlapped' = (overlapped \/ status = "locked" \/ \E u \in Threads : at[u] = "lock")
      /\ UNCHANGED <<inited, active>>
  BY Zenon DEF StopLock, Goes
<1>0. ~overlapped' => /\ ~overlapped /\ status # "locked"
                      /\ \A u \in Threads : at[u] # "lock"
  BY <1>1
<1>. HIDE DEF p
<1>2. \A u \in Threads : at'[u] = IF u = t THEN p ELSE at[u]
  BY <1>1, Moved
<1>. USE DEF p
<1>3. t # None /\ mutex = t
  BY <1>1, CountingAssumption DEF FollowInv, StopSection
<1>4. /\ inited' \in BOOLEAN /\ active' \in BOOLEAN /\ overlapped' \in BOOLEAN
      /\ status' \in {"disabled", "locked", "enabled", "exit"}
      /\ mutex' \in Threads \cup {None}
  BY <1>1, <1>2, <1>3 DEF FollowInv
<1>5. \A u \in Threads : mutex' = u <=> at'[u] \in StopSection
  BY <1>1, <1>2, <1>3, CountingAssumption DEF FollowInv, StopSection
<1>6. status' \in {"enabled", "locked"} => inited'
  BY <1>1, <1>2, <1>3 DEF FollowInv
<1>7. status' = "locked" => \E u \in Threads : at'[u] \in Section
  BY <1>1, <1>2, <1>3 DEF FollowInv, Section
<1>8. ~overlapped' /\ status' # "exit" => Follows'
  <2> SUFFICES ASSUME ~overlapped', status' # "exit"
               PROVE  Follows'
    OBVIOUS
  <2>1. mutex' # None => ~active'
    BY <1>1, <1>2, <1>3 DEF FollowInv, Follows, StopLate
  <2>2. mutex' = None => \A u \in Threads : at'[u] = "lock" => active'
    BY <1>1, <1>2, <1>3, <1>0 DEF FollowInv, Follows, StopLate
  <2>3. mutex' = None /\ status' \in {"enabled", "locked"} => active'
    BY <1>1, <1>2, <1>3 DEF FollowInv, Follows, StopLate
  <2>4. active' /\ inited' /\ status' = "disabled"
          => \E u \in Threads : at'[u] \in {"lock", "lookup"}
    BY <1>1, <1>2, <1>3 DEF FollowInv, Follows, StopLate
  <2>5. \A u \in Threads : at'[u] \in StopLate => \A v \in Threads : at'[v] # "lock"
    BY <1>1, <1>2, <1>3 DEF FollowInv, Follows, StopLate
  <2>6. QED
    BY <2>1, <2>2, <2>3, <2>4, <2>5 DEF Follows
<1>9. QED
  BY <1>4, <1>5, <1>6, <1>7, <1>8 DEF FollowInv

LEMMA StopEndFollows ==
  ASSUME LockInv, FollowInv, NEW t \in Threads, StopEnd(t)
  PROVE  FollowInv'
<1>1. /\ at[t] = "stopEnd" /\ at' = [at EXCEPT ![t] = "idle"]
      /\ status' = "disabled" /\ mutex' = None /\ UNCHANGED <<inited, active, overlapped>>
  BY DEF StopEnd, Goes
<1>2. \A u \in Threads : at'[u] = IF u = t THEN "idle" ELSE at[u]
  BY <1>1, Moved
<1>3. t # None /\ mutex = t /\ status = "locked"
  BY <1>1, CountingAssumption DEF FollowInv, StopSection, LockInv, Locked, Section
<1>4. /\ inited' \in BOOLEAN /\ active' \in BOOLEAN /\ overlapped' \in BOOLEAN
      /\ status' \in {"disabled", "locked", "enabled", "exit"}
      /\ mutex' \in Threads \cup {None}
  BY <1>1, <1>2, <1>3 DEF FollowInv
<1>5. \A u \in Threads : mutex' = u <=> at'[u] \in StopSection
  BY <1>1, <1>2, <1>3, CountingAssumption DEF FollowInv, StopSection
<1>6. status' \in {"enabled", "locked"} => inited'
  BY <1>1, <1>2, <1>3 DEF FollowInv
<1>7. status' = "locked" => \E u \in Threads : at'[u] \in Section
  BY <1>1, <1>2, <1>3 DEF FollowInv, Section
<1>8. ~overlapped' /\ status' # "exit" => Follows'
  <2> SUFFICES ASSUME ~overlapped', status' # "exit"
               PROVE  Follows'
    OBVIOUS
  <2>1. mutex' # None => ~active'
    BY <1>1, <1>2, <1>3 DEF FollowInv, Follows, StopLate
  <2>2. mutex' = None => \A u \in Threads : at'[u] = "lock" => active'
    BY <1>1, <1>2, <1>3 DEF FollowInv, Follows, StopLate
  <2>3. mutex' = None /\ status' \in {"enabled", "locked"} => active'
    BY <1>1, <1>2, <1>3 DEF FollowInv, Follows, StopLate
  <2>4. active' /\ inited' /\ status' = "disabled"
          => \E u \in Threads : at'[u] \in {"lock", "lookup"}
    BY <1>1, <1>2, <1>3 DEF FollowInv, Follows, StopLate
  <2>5. \A u \in Threads : at'[u] \in StopLate => \A v \in Threads : at'[v] # "lock"
    BY <1>1, <1>2, <1>3 DEF FollowInv, Follows, StopLate
  <2>6. QED
    BY <2>1, <2>2, <2>3, <2>4, <2>5 DEF Follows
<1>9. QED
  BY <1>4, <1>5, <1>6, <1>7, <1>8 DEF FollowInv

LEMMA FinalizeFollows ==
  ASSUME LockInv, FollowInv, NEW t \in Threads, FinalizeService(t)
  PROVE  FollowInv'
<1>1. /\ at[t] = "exit" /\ at' = [at EXCEPT ![t] = "stop"] /\ status' = "exit"
      /\ UNCHANGED <<inited, active, mutex, overlapped>>
  BY DEF FinalizeService, Goes, contextVars
<1>2. \A u \in Threads : at'[u] = IF u = t THEN "stop" ELSE at[u]
  BY <1>1, Moved
<1>3. /\ inited' \in BOOLEAN /\ active' \in BOOLEAN /\ overlapped' \in BOOLEAN
      /\ status' \in {"disabled", "locked", "enabled", "exit"}
      /\ mutex' \in Threads \cup {None}
  BY <1>1, <1>2 DEF FollowInv
<1>4. \A u \in Threads : mutex' = u <=> at'[u] \in StopSection
  BY <1>1, <1>2 DEF FollowInv, StopSection
<1>5. status' \in {"enabled", "locked"} => inited'
  BY <1>1, <1>2 DEF FollowInv
<1>6. status' = "locked" => \E u \in Threads : at'[u] \in Section
  BY <1>1, <1>2 DEF FollowInv, Section
<1>7. ~overlapped' /\ status' # "exit" => Follows'
  <2> SUFFICES ASSUME ~overlapped', status' # "exit"
               PROVE  Follows'
    OBVIOUS
  <2>1. mutex' # None => ~active'
    BY <1>1, <1>2 DEF FollowInv, Follows, StopLate
  <2>2. mutex' = None => \A u \in Threads : at'[u] = "lock" => active'
    BY <1>1, <1>2 DEF FollowInv, Follows, StopLate
  <2>3. mutex' = None /\ status' \in {"enabled", "locked"} => active'
    BY <1>1, <1>2 DEF FollowInv, Follows, StopLate
  <2>4. active' /\ inited' /\ status' = "disabled"
          => \E u \in Threads : at'[u] \in {"lock", "lookup"}
    BY <1>1, <1>2 DEF FollowInv, Follows, StopLate
  <2>5. \A u \in Threads : at'[u] \in StopLate => \A v \in Threads : at'[v] # "lock"
    BY <1>1, <1>2 DEF FollowInv, Follows, StopLate
  <2>6. QED
    BY <2>1, <2>2, <2>3, <2>4, <2>5 DEF Follows
<1>8. QED
  BY <1>3, <1>4, <1>5, <1>6, <1>7 DEF FollowInv

LEMMA StepFollows ==
  ASSUME LockInv, FollowInv, [Next]_vars
  PROVE  FollowInv'
<1>1. CASE UNCHANGED vars \/ Process \/ Handler
  <2>1. UNCHANGED <<followVars, at>>
    BY <1>1 DEF vars, contextVars, followVars, Process, Handler, HandlerDecode, HandlerRecord,
                HandlerEnd
  <2>2. QED
    BY <2>1 DEF FollowInv, Follows, followVars
<1>2. ASSUME NEW t \in Threads,
             \/ StartBegin(t) \/ StopBegin(t) \/ Register(t) \/ FinalizeBegin(t) \/ Continues(t)
             \/ \E m \in Modes : ReadLock(t, m)
      PROVE  FollowInv'
  BY <1>2, QuietSteps, PublishFollows, StartLockFollows, RegisterFollows, RegisterStartFollows,
     ReadLockFollows, EndFollows, StopClearFollows, StopLockFollows, StopEndFollows,
     FinalizeFollows DEF Continues
<1>3. QED
  BY <1>1, <1>2 DEF Next

-----------------------------------------------------------------------------
\* Whether the device counts once the packets of q are processed, if it counts now
\* as c says: as the last packet that starts or stops it says, if there is one.
Switches(p) == p.kind \in {"start", "stop"}

Counts(q, c, b) ==
  /\ \A i \in DOMAIN q :
       Switches(q[i]) /\ (\A j \in DOMAIN q : j > i => ~Switches(q[j]))
         => (q[i].kind = "start") = b
  /\ (\A i \in DOMAIN q : ~Switches(q[i])) => c = b

LEMMA NothingQueued ==
  ASSUME NEW c, NEW b, Counts(<< >>, c, b)
  PROVE  c = b
BY DEF Counts

LEMMA AppendSwitch ==
  ASSUME NEW q \in Seq(AnyPacket), NEW p \in AnyPacket, NEW c, Switches(p)
  PROVE  Counts(Append(q, p), c, p.kind = "start")
<1> DEFINE r == Append(q, p)
           n == Len(q) + 1
<1>1. DOMAIN r = 1 .. n /\ r[n] = p /\ n \in Nat
  OBVIOUS
<1>2. \A i \in DOMAIN r : i # n => n \in DOMAIN r /\ n > i /\ Switches(r[n])
  BY <1>1
<1> HIDE DEF r, n
<1>3. QED
  BY <1>1, <1>2 DEF Counts, r

LEMMA AppendOther ==
  ASSUME NEW q \in Seq(AnyPacket), NEW p \in AnyPacket, NEW c, NEW b, ~Switches(p),
         Counts(q, c, b)
  PROVE  Counts(Append(q, p), c, b)
<1> DEFINE r == Append(q, p)
           n == Len(q) + 1
<1>1. DOMAIN r = 1 .. n /\ r[n] = p /\ n \in Nat /\ DOMAIN q = 1 .. n - 1
  OBVIOUS
<1>2. \A i \in DOMAIN q : i \in DOMAIN r /\ r[i] = q[i]
  OBVIOUS
<1>3. \A i \in DOMAIN r : i \in DOMAIN q \/ i = n
  BY <1>1
<1> HIDE DEF r, n
<1>4. ASSUME NEW i \in DOMAIN r, Switches(r[i]), \A j \in DOMAIN r : j > i => ~Switches(r[j])
      PROVE  (r[i].kind = "start") = b
  <2>1. i \in DOMAIN q /\ r[i] = q[i]
    BY <1>1, <1>2, <1>3, <1>4
  <2>2. \A j \in DOMAIN q : j > i => ~Switches(q[j])
    BY <1>2, <1>4
  <2>3. QED
    BY <1>4, <2>1, <2>2 DEF Counts
<1>5. ASSUME \A i \in DOMAIN r : ~Switches(r[i])
      PROVE  c = b
  <2>1. \A i \in DOMAIN q : ~Switches(q[i])
    BY <1>2, <1>5
  <2>2. QED
    BY <2>1 DEF Counts
<1>6. Counts(r, c, b)
  BY <1>4, <1>5 DEF Counts
<1>7. QED
  BY <1>6 DEF r

LEMMA TailCounts ==
  ASSUME NEW q \in Seq(AnyPacket), q # << >>, NEW c, NEW b, Counts(q, c, b)
  PROVE  Counts(Tail(q), IF Switches(Head(q)) THEN Head(q).kind = "start" ELSE c, b)
<1> DEFINE r == Tail(q)
           n == Len(q)
           d == IF Switches(q[1]) THEN q[1].kind = "start" ELSE c
<1>1. DOMAIN q = 1 .. n /\ DOMAIN r = 1 .. n - 1 /\ n \in Nat /\ n >= 1 /\ Head(q) = q[1]
  OBVIOUS
<1>2. \A i \in 1 .. n - 1 : r[i] = q[i + 1]
  OBVIOUS
<1> HIDE DEF r, n
<1>3. ASSUME NEW i \in DOMAIN r, Switches(r[i]), \A j \in DOMAIN r : j > i => ~Switches(r[j])
      PROVE  (r[i].kind = "start") = b
  <2>1. i \in Int /\ i + 1 \in DOMAIN q /\ r[i] = q[i + 1]
    BY <1>1, <1>2
  <2>2. ASSUME NEW j \in DOMAIN q, j > i + 1
        PROVE  ~Switches(q[j])
    <3>1. j - 1 \in DOMAIN r /\ j - 1 > i /\ r[j - 1] = q[j]
      BY <1>1, <1>2, <2>1, <2>2
    <3>2. QED
      BY <1>3, <3>1
  <2>3. QED
    BY <1>3, <2>1, <2>2 DEF Counts
<1>4. ASSUME \A i \in DOMAIN r : ~Switches(r[i])
      PROVE  d = b
  <2>1. ASSUME NEW j \in DOMAIN q, j > 1
        PROVE  ~Switches(q[j])
    <3>1. j - 1 \in DOMAIN r /\ r[j - 1] = q[j]
      BY <1>1, <1>2, <2>1
    <3>2. QED
      BY <1>4, <3>1
  <2>2. CASE Switches(q[1])
    <3>1. 1 \in DOMAIN q
      BY <1>1
    <3>2. QED
      BY <2>1, <2>2, <3>1 DEF Counts
  <2>3. CASE ~Switches(q[1])
    <3>1. \A j \in DOMAIN q : ~Switches(q[j])
      BY <1>1, <2>1, <2>3
    <3>2. QED
      BY <2>3, <3>1 DEF Counts
  <2>4. QED
    BY <2>2, <2>3
<1>5. Counts(r, d, b)
  <2> HIDE DEF d
  <2>1. QED
    BY <1>3, <1>4 DEF Counts
<1>6. QED
  BY <1>1, <1>5 DEF r

-----------------------------------------------------------------------------
\* The places of a call that took over a service that is on, and leaves it on.
OnSection == {"startWait", "startEnd", "read", "readFire", "readSubmit", "readBarrier", "readWait",
              "readEnd", "stopSubmit"}

\* The service is on: enabled, or a call that holds the status finds it on.
On == status = "enabled" \/ \E t \in Threads : at[t] \in OnSection

\* Once its queue is empty, the device counts if the service is on for hardware counters.
CountInv ==
  /\ packet \in {"none", "constants", "hardware"}
  /\ counting \in BOOLEAN
  /\ status # "exit" => /\ On /\ packet = "hardware" => Counts(queue, counting, TRUE)
                        /\ ~(On /\ packet = "hardware") => Counts(queue, counting, FALSE)

\* Whoever is in a section says whether the service is on; otherwise the status does.
LEMMA Alone ==
  ASSUME LockInv, NEW t \in Threads, at[t] \in Section
  PROVE  On <=> at[t] \in OnSection
BY DEF LockInv, Locked, On, Section, OnSection

LEMMA AloneAfter ==
  ASSUME LockInv', NEW t \in Threads, at'[t] \in Section
  PROVE  On' <=> at'[t] \in OnSection
BY DEF LockInv, Locked, On, Section, OnSection

LEMMA Nobody ==
  ASSUME LockInv, status # "locked"
  PROVE  On <=> status = "enabled"
BY DEF LockInv, Locked, On, Section, OnSection

LEMMA NobodyAfter ==
  ASSUME LockInv', status' # "locked"
  PROVE  On' <=> status' = "enabled"
BY DEF LockInv, Locked, On, Section, OnSection

\* Steps that leave the queue, the packet and whether the service is on alone.
LEMMA SameCounts ==
  ASSUME CountInv, UNCHANGED <<packet, counting, queue>>, On' <=> On,
         status' # "exit" => status # "exit"
  PROVE  CountInv'
<1>1. status' # "exit" =>
        /\ On' /\ packet' = "hardware" => Counts(queue, counting, TRUE)
        /\ ~(On' /\ packet' = "hardware") => Counts(queue, counting, FALSE)
  BY DEF CountInv
<1>2. Counts(queue, counting, TRUE) => Counts(queue, counting, TRUE)'
  BY DEF Counts
<1>3. Counts(queue, counting, FALSE) => Counts(queue, counting, FALSE)'
  BY DEF Counts
<1>4. QED
  BY <1>1, <1>2, <1>3 DEF CountInv

LEMMA OutsideCounts ==
  ASSUME LockInv, CountInv, NEW t \in Threads,
         \/ StartBegin(t) \/ StopBegin(t) \/ Register(t) \/ FinalizeBegin(t)
         \/ StartSearch(t) \/ StartPublish(t) \/ RegisterStart(t) \/ StopClear(t)
  PROVE  CountInv'
<1>1. UNCHANGED <<status, packet, counting, queue>>
  BY DEF StartBegin, StopBegin, Register, FinalizeBegin, StartSearch, StartPublish, RegisterStart,
         StopClear, deviceVars, agentVars
<1>2. PICK p : at' = [at EXCEPT ![t] = p] /\ p \notin OnSection /\ at[t] \notin OnSection
  BY DEF StartBegin, StopBegin, Register, FinalizeBegin, StartSearch, StartPublish, RegisterStart,
         StopClear, Calls, Goes, OnSection
<1>3. On' <=> On
  BY <1>1, <1>2, Moved DEF On
<1>4. QED
  BY <1>1, <1>3, SameCounts

\* A call takes the status: the service is on afterwards as it was before.
LEMMA LockCounts ==
  ASSUME LockInv, LockInv', CountInv, NEW t \in Threads,
         StartLock(t) \/ StopLock(t) \/ \E m \in Modes : ReadLock(t, m)
  PROVE  CountInv'
<1>1. UNCHANGED <<packet, counting, queue>>
  BY DEF StartLock, StopLock, ReadLock, deviceVars, agentVars
<1>2. \/ /\ status = "disabled" /\ status' = "locked" /\ at' = [at EXCEPT ![t] = "profile"]
      \/ /\ status = "enabled" /\ status' = "locked"
         /\ \E p \in {"read", "stopSubmit"} : at' = [at EXCEPT ![t] = p]
      \/ status' = status /\ at' = [at EXCEPT ![t] = "idle"] /\ at[t] \in {"lock", "stopLock"}
  BY DEF StartLock, StopLock, ReadLock, Goes
<1>3. On' <=> On
  <2>1. CASE /\ status = "disabled" /\ status' = "locked"
             /\ at' = [at EXCEPT ![t] = "profile"]
    <3>1. at'[t] = "profile"
      BY <2>1 DEF LockInv
    <3>2. ~On' /\ ~On
      BY <2>1, <3>1, AloneAfter, Nobody DEF Section, OnSection
    <3>3. QED
      BY <3>2
  <2>2. CASE /\ status = "enabled" /\ status' = "locked"
             /\ \E p \in {"read", "stopSubmit"} : at' = [at EXCEPT ![t] = p]
    <3>1. at'[t] \in {"read", "stopSubmit"}
      BY <2>2, Moved
    <3>2. On' /\ On
      BY <2>2, <3>1 DEF On, OnSection
    <3>3. QED
      BY <3>2
  <2>3. CASE status' = status /\ at' = [at EXCEPT ![t] = "idle"] /\ at[t] \in {"lock", "stopLock"}
    BY <2>3, Moved DEF On, OnSection
  <2>4. QED
    BY <1>2, <2>1, <2>2, <2>3
<1>4. QED
  BY <1>1, <1>2, <1>3, SameCounts

\* The call goes on, or gives the status back.
LEMMA InsideCounts ==
  ASSUME LockInv, LockInv', CountInv, NEW t \in Threads,
         \/ StartWait(t) \/ ReadTurn(t) \/ ReadFire(t) \/ ReadWait(t) \/ StopWait(t)
         \/ StartEnd(t) \/ ReadEnd(t) \/ StopEnd(t)
  PROVE  CountInv'
<1>1. UNCHANGED <<packet, counting, queue>>
  BY DEF StartWait, ReadTurn, ReadFire, ReadWait, StopWait, StartEnd, ReadEnd, StopEnd,
         deviceVars, agentVars
<1>2. at[t] \in Section /\ status = "locked"
  BY DEF StartWait, ReadTurn, ReadFire, ReadWait, StopWait, StartEnd, ReadEnd, StopEnd, Goes,
         LockInv, Locked, Section
<1>3. On' <=> On
  <2>1. CASE StartWait(t) \/ ReadTurn(t) \/ ReadFire(t) \/ ReadWait(t)
    <3>1. at[t] \in OnSection
      BY <2>1 DEF StartWait, ReadTurn, ReadFire, ReadWait, Goes, OnSection
    <3>2. \E p \in OnSection : at' = [at EXCEPT ![t] = p]
      <4>1. CASE ReadTurn(t)
        BY <4>1 DEF ReadTurn, Goes, OnSection
      <4>2. CASE StartWait(t) \/ ReadFire(t) \/ ReadWait(t)
        BY <4>2 DEF StartWait, ReadFire, ReadWait, Goes, OnSection
      <4>3. QED
        BY <2>1, <4>1, <4>2
    <3>3. at'[t] \in OnSection
      BY <3>2, Moved
    <3>4. QED
      BY <3>1, <3>3 DEF On
  <2>2. CASE StopWait(t)
    <3>1. at[t] = "stopWait" /\ at' = [at EXCEPT ![t] = "stopEnd"]
      BY <2>2 DEF StopWait, Goes
    <3>2. at'[t] = "stopEnd"
      <4>1. \A u \in Threads : at'[u] = IF u = t THEN "stopEnd" ELSE at[u]
        BY <3>1, Moved
      <4>2. QED
        BY <4>1
    <3>3. QED
      BY <3>1, <3>2, Alone, AloneAfter DEF Section, OnSection
  <2>3. CASE StartEnd(t) \/ ReadEnd(t)
    BY <2>3 DEF StartEnd, ReadEnd, Goes, On, OnSection
  <2>4. CASE StopEnd(t)
    <3>1. at[t] = "stopEnd" /\ status' = "disabled"
      BY <2>4 DEF StopEnd, Goes
    <3>2. QED
      BY <3>1, Alone, NobodyAfter DEF Section, OnSection
  <2>5. QED
    BY <2>1, <2>2, <2>3, <2>4
<1>4. QED
  BY <1>1, <1>2, <1>3, SameCounts

\* The packet that starts the counters is what turns the service on for them.
LEMMA StartCounts ==
  ASSUME LockInv, LockInv', CountInv, NEW t \in Threads, StartProfile(t)
  PROVE  CountInv'
<1>1. PICK p \in Profiles :
        /\ at' = [at EXCEPT ![t] = IF p = "hardware" THEN "startWait" ELSE "startEnd"]
        /\ packet' = p
        /\ queue' = IF p = "hardware" THEN Append(queue, [kind |-> "start", n |-> 0]) ELSE queue
  BY DEF StartProfile, Goes
<1>2. at[t] = "profile" /\ status' = status /\ counting' = counting
  BY DEF StartProfile, Goes
<1>3. status # "exit" /\ ~On
  BY <1>2, Alone DEF LockInv, Locked, Section, OnSection
<1>4. packet' \in {"none", "constants", "hardware"} /\ counting' \in BOOLEAN
  BY <1>1, <1>2, CountingAssumption DEF CountInv
<1>5. CASE p = "hardware"
  <2>1. at'[t] = "startWait"
    BY <1>1, <1>5 DEF LockInv
  <2>2. On'
    BY <2>1 DEF On, OnSection
  <2> DEFINE s == [kind |-> "start", n |-> 0]
  <2>3. s \in AnyPacket /\ Switches(s) /\ (s.kind = "start") = TRUE
    BY DEF AnyPacket, Switches
  <2>4. queue' = Append(queue, s) /\ queue \in Seq(AnyPacket)
    BY <1>1, <1>5 DEF LockInv
  <2> HIDE DEF s
  <2>5. Counts(queue', counting', TRUE)
    BY <1>2, <2>3, <2>4, AppendSwitch
  <2>6. packet' = "hardware"
    BY <1>1, <1>5
  <2>7. QED
    BY <1>4, <2>2, <2>5, <2>6 DEF CountInv
<1>6. CASE p # "hardware"
  <2>1. Counts(queue, counting, FALSE) /\ queue' = queue /\ packet' # "hardware"
    BY <1>1, <1>3, <1>6 DEF CountInv
  <2>2. Counts(queue', counting', FALSE)
    BY <1>2, <2>1
  <2>3. QED
    BY <1>4, <2>1, <2>2 DEF CountInv
<1>7. QED
  BY <1>5, <1>6

\* The packets of a sample do not start or stop the counters.
LEMMA SubmitCounts ==
  ASSUME LockInv, LockInv', CountInv, NEW t \in Threads, ReadSubmit(t) \/ ReadBarrier(t)
  PROVE  CountInv'
<1>1. at[t] \in {"readSubmit", "readBarrier"} /\ UNCHANGED <<status, counting, packet>>
  BY DEF ReadSubmit, ReadBarrier, Goes, agentVars
<1>2. PICK p \in OnSection : at' = [at EXCEPT ![t] = p]
  BY DEF ReadSubmit, ReadBarrier, Goes, OnSection
<1>3. at'[t] \in OnSection /\ at[t] \in OnSection
  BY <1>1, <1>2, Moved DEF OnSection
<1>4. On' /\ On
  BY <1>3 DEF On
<1>5. PICK s \in AnyPacket : ~Switches(s) /\ queue' = Append(queue, s)
  <2>1. num[t] \in Int
    BY DEF LockInv
  <2>2. QED
    BY <2>1 DEF ReadSubmit, ReadBarrier, AnyPacket, Switches
<1>6. queue \in Seq(AnyPacket)
  BY DEF LockInv
<1>7. \A b \in BOOLEAN : Counts(queue, counting, b) => Counts(queue', counting', b)
  BY <1>1, <1>5, <1>6, AppendOther
<1>8. QED
  BY <1>1, <1>4, <1>7 DEF CountInv

\* The stop packet turns it off.
LEMMA StopCounts ==
  ASSUME LockInv, LockInv', CountInv, NEW t \in Threads, StopSubmit(t)
  PROVE  CountInv'
<1>1. /\ at[t] = "stopSubmit" /\ UNCHANGED <<status, counting, packet>>
      /\ at' = [at EXCEPT ![t] = IF packet = "none" THEN "stopEnd" ELSE "stopWait"]
      /\ queue' = IF packet = "hardware" THEN Append(queue, [kind |-> "stop", n |-> 0]) ELSE queue
  BY DEF StopSubmit, Goes, agentVars
<1>2. at'[t] \in {"stopEnd", "stopWait"}
  BY <1>1 DEF LockInv
<1>3. status # "exit" /\ On
  BY <1>1, Alone DEF LockInv, Locked, Section, OnSection
<1>4. ~On'
  BY <1>2, AloneAfter DEF Section, OnSection
<1>5. Counts(queue', counting', FALSE)
  <2>1. CASE packet = "hardware"
    <3> DEFINE s == [kind |-> "stop", n |-> 0]
    <3>1. s \in AnyPacket /\ Switches(s) /\ (s.kind = "start") = FALSE
      BY DEF AnyPacket, Switches
    <3>2. queue' = Append(queue, s) /\ queue \in Seq(AnyPacket)
      BY <1>1, <2>1 DEF LockInv
    <3> HIDE DEF s
    <3>3. QED
      BY <1>1, <3>1, <3>2, AppendSwitch
  <2>2. CASE packet # "hardware"
    <3>1. Counts(queue, counting, FALSE) /\ queue' = queue
      BY <1>1, <1>3, <2>2 DEF CountInv
    <3>2. QED
      BY <1>1, <3>1
  <2>3. QED
    BY <2>1, <2>2
<1>6. QED
  BY <1>1, <1>4, <1>5 DEF CountInv

\* The device processes a packet.
LEMMA ProcessCounts ==
  ASSUME LockInv, CountInv, Process
  PROVE  CountInv'
<1>1. /\ queue # << >> /\ queue' = Tail(queue) /\ queue \in Seq(AnyPacket)
      /\ counting' = CASE Head(queue).kind = "start" -> TRUE
                       [] Head(queue).kind = "stop" -> FALSE
                       [] OTHER -> counting
      /\ UNCHANGED <<status, at, packet>>
  BY DEF Process, LockInv
<1>2. Head(queue) \in AnyPacket
  BY <1>1
<1> DEFINE k == Head(queue).kind
           d == IF Switches(Head(queue)) THEN k = "start" ELSE counting
<1>3. counting' = d /\ counting' \in BOOLEAN
  <2>1. CASE k = "start"
    BY <1>1, <2>1 DEF Switches
  <2>2. CASE k = "stop"
    BY <1>1, <2>2 DEF Switches
  <2>3. CASE k \notin {"start", "stop"}
    BY <1>1, <2>3 DEF Switches, CountInv
  <2>4. QED
    BY <2>1, <2>2, <2>3
<1>4. \A b \in BOOLEAN : Counts(queue, counting, b) => Counts(queue', counting', b)
  <2> HIDE DEF d
  <2>1. \A b \in BOOLEAN : Counts(queue, counting, b) => Counts(Tail(queue), d, b)
    BY <1>1, TailCounts DEF d
  <2>2. QED
    BY <1>1, <1>3, <2>1
<1>5. On' <=> On
  BY <1>1 DEF On
<1>6. QED
  BY <1>1, <1>3, <1>4, <1>5 DEF CountInv

LEMMA StepCounts ==
  ASSUME LockInv, CountInv, [Next]_vars
  PROVE  CountInv'
<1>0. LockInv'
  BY StepLocks
<1>1. CASE UNCHANGED vars \/ Handler
  <2>1. UNCHANGED <<status, at, packet, counting, queue>>
    BY <1>1 DEF vars, agentVars, deviceVars, Handler, HandlerDecode, HandlerRecord, HandlerEnd
  <2>2. On' <=> On
    BY <2>1 DEF On
  <2>3. QED
    BY <2>1, <2>2, SameCounts
<1>2. ASSUME NEW t \in Threads,
             \/ StartBegin(t) \/ StopBegin(t) \/ Register(t) \/ FinalizeBegin(t) \/ Continues(t)
             \/ \E m \in Modes : ReadLock(t, m)
      PROVE  CountInv'
  <2>1. CASE FinalizeService(t)
    <3>1. status' = "exit" /\ UNCHANGED <<packet, counting, queue>>
      BY <2>1 DEF FinalizeService, agentVars, deviceVars
    <3>2. QED
      BY <3>1 DEF CountInv
  <2>2. CASE ~FinalizeService(t)
    BY <1>0, <1>2, <2>2, OutsideCounts, LockCounts, InsideCounts, StartCounts, SubmitCounts,
       StopCounts DEF Continues
  <2>3. QED
    BY <2>1, <2>2
<1>3. CASE Process
  BY <1>3, ProcessCounts
<1>4. QED
  BY <1>1, <1>2, <1>3 DEF Next

\* With nothing in progress, the service is enabled exactly if its context is active and
\* the runtime is there, and the device counts exactly if the service was started for
\* hardware counters, unless a stop ran next to another call.
THEOREM ServiceFollowsContext == Spec => []ServiceMatchesContext
<1> DEFINE IInv == LockInv /\ FollowInv /\ CountInv
<1>1. Init => IInv
  <2> SUFFICES ASSUME Init
               PROVE  IInv
    OBVIOUS
  <2>1. LockInv
    BY DEF Init, LockInv, Locked, Section, Places
  <2>2. FollowInv
    BY CountingAssumption DEF Init, FollowInv, Follows, Section, StopSection, StopLate
  <2>3. ~On /\ packet = "none" /\ queue = << >> /\ counting = FALSE
    BY DEF Init, On, OnSection
  <2>4. CountInv
    <3>1. Counts(<< >>, FALSE, FALSE)
      BY DEF Counts
    <3>2. QED
      BY <2>3, <3>1 DEF CountInv
  <2>5. QED
    BY <2>1, <2>2, <2>4
<1>2. IInv /\ [Next]_vars => IInv'
  BY StepLocks, StepFollows, StepCounts
<1>3. IInv => ServiceMatchesContext
  <2> SUFFICES ASSUME IInv, \A t \in Threads : at[t] = "idle", queue = << >>, ~overlapped,
                      status # "exit"
               PROVE  /\ (status = "enabled") <=> (active /\ inited)
                      /\ counting <=> (status = "enabled" /\ packet = "hardware")
    BY DEF ServiceMatchesContext
  <2>1. status # "locked" /\ mutex = None
    BY DEF FollowInv, Section, StopSection
  <2>2. (status = "enabled") <=> (active /\ inited)
    BY <2>1 DEF FollowInv, Follows
  <2>3. On <=> status = "enabled"
    BY <2>1, Nobody
  <2>4. On /\ packet = "hardware" => counting
    BY NothingQueued DEF CountInv
  <2>5. ~(On /\ packet = "hardware") => ~counting
    BY NothingQueued DEF CountInv
  <2>6. QED
    BY <2>2, <2>3, <2>4, <2>5
<1>4. QED
  BY <1>1, <1>2, <1>3, PTL DEF Spec

-----------------------------------------------------------------------------
\* What the proofs need to know of the packets in a queue: whether one of a kind is
\* there, whose samples are read, that nothing of a sample follows a barrier.
Has(q, k) == \E i \in DOMAIN q : q[i].kind = k
ReadsOf(q, n) == \A i \in DOMAIN q : q[i].kind = "read" => q[i].n = n
BarrierLast(q) ==
  \A i \in DOMAIN q : q[i].kind = "barrier" =>
    \A j \in DOMAIN q : j > i => q[j].kind \notin {"read", "barrier"}
OneStart(q) ==
  \A i, j \in DOMAIN q : q[i].kind = "start" /\ q[j].kind = "start" => i = j

\* The reads whose barrier packets are queued, in the order of their numbers up to m.
Barriers(q) == {q[i].n : i \in {j \in DOMAIN q : q[j].kind = "barrier"}}
Ordered(q, m) ==
  /\ \A i \in DOMAIN q : q[i].kind = "barrier" => q[i].n \in 1 .. m
  /\ \A i, j \in DOMAIN q :
       i < j /\ q[i].kind = "barrier" /\ q[j].kind = "barrier" => q[i].n < q[j].n

\* A packet is submitted.
LEMMA Submitted ==
  ASSUME NEW q \in Seq(AnyPacket), NEW p \in AnyPacket
  PROVE  LET r == Append(q, p) IN
         /\ \A k : Has(r, k) <=> Has(q, k) \/ p.kind = k
         /\ \A n : ReadsOf(r, n) <=> ReadsOf(q, n) /\ (p.kind = "read" => p.n = n)
         /\ BarrierLast(q) /\ (p.kind \in {"read", "barrier"} => ~Has(q, "barrier"))
              => BarrierLast(r)
         /\ OneStart(q) /\ (p.kind = "start" => ~Has(q, "start")) => OneStart(r)
<1> DEFINE r == Append(q, p)
           l == Len(q) + 1
<1>1. /\ DOMAIN r = DOMAIN q \cup {l} /\ DOMAIN q = 1 .. l - 1 /\ l \in Nat
      /\ \A i \in DOMAIN q : r[i] = q[i]
      /\ r[l] = p
  OBVIOUS
<1> HIDE DEF r, l
<1>2. l \notin DOMAIN q /\ l \in DOMAIN r /\ \A i \in DOMAIN q : i < l /\ ~(i > l) /\ ~(l < i)
  BY <1>1
<1>3. ASSUME NEW k PROVE Has(r, k) <=> Has(q, k) \/ p.kind = k
  BY <1>1, <1>2 DEF Has
<1>4. ASSUME NEW n PROVE ReadsOf(r, n) <=> ReadsOf(q, n) /\ (p.kind = "read" => p.n = n)
  BY <1>1, <1>2 DEF ReadsOf
<1>5. ASSUME BarrierLast(q), p.kind \in {"read", "barrier"} => ~Has(q, "barrier")
      PROVE  BarrierLast(r)
  <2> SUFFICES ASSUME NEW i \in DOMAIN r, r[i].kind = "barrier", NEW j \in DOMAIN r, j > i
               PROVE  r[j].kind \notin {"read", "barrier"}
    BY DEF BarrierLast
  <2>1. i \in DOMAIN q /\ q[i].kind = "barrier"
    BY <1>1, <1>2
  <2>2. CASE j \in DOMAIN q
    BY <1>1, <1>5, <2>1, <2>2 DEF BarrierLast
  <2>3. CASE j = l
    BY <1>1, <1>5, <2>1, <2>3 DEF Has
  <2>4. QED
    BY <1>1, <2>2, <2>3
<1>6. ASSUME OneStart(q), p.kind = "start" => ~Has(q, "start")
      PROVE  OneStart(r)
  BY <1>1, <1>2, <1>6 DEF OneStart, Has
<1>7. QED
  BY <1>3, <1>4, <1>5, <1>6 DEF r

\* A packet is processed.
LEMMA Processed ==
  ASSUME NEW q \in Seq(AnyPacket), q # << >>
  PROVE  /\ Head(q) \in AnyPacket /\ Tail(q) \in Seq(AnyPacket)
         /\ \A k : Has(q, k) <=> Has(Tail(q), k) \/ Head(q).kind = k
         /\ \A n : ReadsOf(q, n) <=> ReadsOf(Tail(q), n) /\ (Head(q).kind = "read" => Head(q).n = n)
         /\ BarrierLast(q) =>
              /\ BarrierLast(Tail(q))
              /\ Head(q).kind = "barrier" => ~Has(Tail(q), "read") /\ ~Has(Tail(q), "barrier")
         /\ OneStart(q) =>
              OneStart(Tail(q)) /\ (Head(q).kind = "start" => ~Has(Tail(q), "start"))
<1> DEFINE r == Tail(q)
           h == Head(q)
<1>1. /\ h \in AnyPacket /\ r \in Seq(AnyPacket) /\ 1 \in DOMAIN q /\ q[1] = h
      /\ \A i \in DOMAIN r : i \in Nat /\ i + 1 \in DOMAIN q /\ i + 1 # 1 /\ r[i] = q[i + 1]
      /\ \A i \in DOMAIN q : i = 1 \/ (i \in Nat /\ i > 1 /\ i - 1 \in DOMAIN r /\ r[i - 1] = q[i])
  OBVIOUS
<1> HIDE DEF r, h
<1>2. ASSUME NEW k PROVE Has(q, k) <=> Has(r, k) \/ h.kind = k
  BY <1>1 DEF Has
<1>3. ASSUME NEW n PROVE ReadsOf(q, n) <=> ReadsOf(r, n) /\ (h.kind = "read" => h.n = n)
  BY <1>1 DEF ReadsOf
<1>4. ASSUME BarrierLast(q)
      PROVE  BarrierLast(r) /\ (h.kind = "barrier" => ~Has(r, "read") /\ ~Has(r, "barrier"))
  <2>1. ASSUME NEW i \in DOMAIN r, r[i].kind = "barrier", NEW j \in DOMAIN r, j > i
        PROVE  r[j].kind \notin {"read", "barrier"}
    <3>1. i + 1 \in DOMAIN q /\ q[i + 1] = r[i] /\ j + 1 \in DOMAIN q /\ q[j + 1] = r[j]
      BY <1>1
    <3>2. i \in Nat /\ j \in Nat
      BY <1>1
    <3>3. j + 1 > i + 1
      BY <2>1, <3>2
    <3>4. q[i + 1].kind = "barrier"
      BY <2>1, <3>1
    <3>5. q[j + 1].kind \notin {"read", "barrier"}
      BY <1>4, <3>1, <3>3, <3>4 DEF BarrierLast
    <3>6. QED
      BY <3>1, <3>5
  <2>2. ASSUME h.kind = "barrier", NEW j \in DOMAIN r
        PROVE  r[j].kind \notin {"read", "barrier"}
    <3>1. j + 1 \in DOMAIN q /\ j + 1 > 1 /\ 1 \in DOMAIN q /\ q[1].kind = "barrier"
      BY <1>1, <2>2
    <3>2. q[j + 1].kind \notin {"read", "barrier"}
      BY <1>4, <3>1 DEF BarrierLast
    <3>3. QED
      BY <1>1, <3>2
  <2>3. QED
    BY <2>1, <2>2 DEF BarrierLast, Has
<1>5. ASSUME OneStart(q)
      PROVE  OneStart(r) /\ (h.kind = "start" => ~Has(r, "start"))
  <2>1. ASSUME NEW i \in DOMAIN r, NEW j \in DOMAIN r, r[i].kind = "start", r[j].kind = "start"
        PROVE  i = j
    <3>1. i + 1 \in DOMAIN q /\ q[i + 1] = r[i] /\ j + 1 \in DOMAIN q /\ q[j + 1] = r[j]
      BY <1>1
    <3>2. q[i + 1].kind = "start" /\ q[j + 1].kind = "start"
      BY <2>1, <3>1
    <3>3. i + 1 = j + 1
      BY <1>5, <3>1, <3>2 DEF OneStart
    <3>4. i \in Nat /\ j \in Nat
      BY <1>1
    <3>5. QED
      BY <3>3, <3>4
  <2>2. ASSUME h.kind = "start", NEW j \in DOMAIN r
        PROVE  r[j].kind # "start"
    BY <1>1, <1>5, <2>2 DEF OneStart
  <2>3. QED
    BY <2>1, <2>2 DEF OneStart, Has
<1>6. QED
  BY <1>1, <1>2, <1>3, <1>4, <1>5 DEF r, h

\* Ordered barriers are finitely many.
LEMMA BarriersFinite ==
  ASSUME NEW q, NEW m \in Nat, Ordered(q, m)
  PROVE  /\ IsFiniteSet(Barriers(q)) /\ Cardinality(Barriers(q)) \in Nat
         /\ Cardinality(Barriers(q)) <= m
<1>1. Barriers(q) \subseteq 1 .. m
  BY DEF Barriers, Ordered
<1>2. IsFiniteSet(1 .. m) /\ Cardinality(1 .. m) = m
  BY FS_Interval
<1>3. QED
  BY <1>1, <1>2, FS_Subset, FS_CardinalityType

\* The barrier of a new read is one more.
LEMMA BarrierSubmitted ==
  ASSUME NEW q \in Seq(AnyPacket), NEW p \in AnyPacket, NEW m \in Nat, NEW l \in Nat,
         Ordered(q, m), m <= l, p.kind = "barrier" => p.n > m /\ p.n <= l
  PROVE  /\ Ordered(Append(q, p), l)
         /\ Cardinality(Barriers(Append(q, p))) =
              Cardinality(Barriers(q)) + (IF p.kind = "barrier" THEN 1 ELSE 0)
<1> DEFINE r == Append(q, p)
           e == Len(q) + 1
<1>1. /\ DOMAIN r = DOMAIN q \cup {e} /\ DOMAIN q = 1 .. e - 1 /\ e \in Nat
      /\ \A i \in DOMAIN q : r[i] = q[i]
      /\ r[e] = p /\ p.n \in Int
  BY DEF AnyPacket
<1> HIDE DEF r, e
<1>2. e \notin DOMAIN q /\ e \in DOMAIN r /\ \A i \in DOMAIN q : i < e /\ ~(e < i)
  BY <1>1
<1>3. \A i \in DOMAIN r : r[i].kind = "barrier" => r[i].n \in 1 .. l
  BY <1>1, <1>2 DEF Ordered
<1>4. ASSUME NEW i \in DOMAIN r, NEW j \in DOMAIN r, i < j, r[i].kind = "barrier",
             r[j].kind = "barrier"
      PROVE  r[i].n < r[j].n
  <2>1. i \in DOMAIN q /\ r[i] = q[i] /\ q[i].n \in 1 .. m
    BY <1>1, <1>2, <1>4 DEF Ordered
  <2>2. CASE j \in DOMAIN q
    BY <1>1, <1>4, <2>1, <2>2 DEF Ordered
  <2>3. CASE j = e
    BY <1>1, <1>4, <2>1, <2>3
  <2>4. QED
    BY <1>1, <2>2, <2>3
<1>5. Cardinality(Barriers(r)) = Cardinality(Barriers(q)) + (IF p.kind = "barrier" THEN 1 ELSE 0)
  <2>1. IsFiniteSet(Barriers(q))
    BY BarriersFinite
  <2>2. CASE p.kind = "barrier"
    <3>1. Barriers(r) = Barriers(q) \cup {p.n}
      BY <1>1, <1>2, <2>2 DEF Barriers
    <3>2. p.n \notin Barriers(q)
      BY <1>1, <2>2 DEF Barriers, Ordered
    <3>3. QED
      BY <2>1, <2>2, <3>1, <3>2, FS_AddElement
  <2>3. CASE p.kind # "barrier"
    <3>1. Barriers(r) = Barriers(q)
      BY <1>1, <1>2, <2>3 DEF Barriers
    <3>2. Cardinality(Barriers(q)) \in Nat
      BY BarriersFinite
    <3>3. QED
      BY <2>3, <3>1, <3>2
  <2>4. QED
    BY <2>2, <2>3
<1>6. QED
  BY <1>3, <1>4, <1>5 DEF Ordered, r

\* The barrier that is processed is one less.
LEMMA BarrierProcessed ==
  ASSUME NEW q \in Seq(AnyPacket), q # << >>, NEW m \in Nat, Ordered(q, m)
  PROVE  /\ Ordered(Tail(q), m)
         /\ Cardinality(Barriers(Tail(q))) =
              Cardinality(Barriers(q)) - (IF Head(q).kind = "barrier" THEN 1 ELSE 0)
<1> DEFINE r == Tail(q)
           h == Head(q)
<1>1. /\ h \in AnyPacket /\ r \in Seq(AnyPacket) /\ 1 \in DOMAIN q /\ q[1] = h
      /\ \A i \in DOMAIN r : i \in Nat /\ i + 1 \in DOMAIN q /\ 1 < i + 1 /\ r[i] = q[i + 1]
      /\ \A i \in DOMAIN q : i = 1 \/ (i \in Nat /\ i > 1 /\ i - 1 \in DOMAIN r /\ r[i - 1] = q[i])
  OBVIOUS
<1> HIDE DEF r, h
<1>2. Ordered(r, m)
  <2>1. ASSUME NEW i \in DOMAIN r, NEW j \in DOMAIN r, i < j, r[i].kind = "barrier",
               r[j].kind = "barrier"
        PROVE  r[i].n < r[j].n
    <3>1. i + 1 < j + 1
      BY <1>1, <2>1
    <3>2. QED
      BY <1>1, <2>1, <3>1 DEF Ordered
  <2>2. \A i \in DOMAIN r : r[i].kind = "barrier" => r[i].n \in 1 .. m
    BY <1>1 DEF Ordered
  <2>3. QED
    BY <2>1, <2>2 DEF Ordered
<1>3. Cardinality(Barriers(r)) = Cardinality(Barriers(q)) - (IF h.kind = "barrier" THEN 1 ELSE 0)
  <2>1. IsFiniteSet(Barriers(q)) /\ Cardinality(Barriers(q)) \in Nat
    BY BarriersFinite
  <2>2. CASE h.kind = "barrier"
    <3>1. \A i \in DOMAIN q : q[i].kind = "barrier" /\ i # 1 => q[i].n > h.n /\ q[i].n # h.n
      BY <1>1, <2>2 DEF Ordered
    <3>2. Barriers(r) = Barriers(q) \ {h.n}
      <4>1. ASSUME NEW i \in DOMAIN r, r[i].kind = "barrier"
            PROVE  r[i].n \in Barriers(q) \ {h.n}
        <5>1. i + 1 \in DOMAIN q /\ q[i + 1] = r[i] /\ i + 1 # 1
          BY <1>1
        <5>2. q[i + 1].kind = "barrier"
          BY <4>1, <5>1
        <5>3. q[i + 1].n \in Barriers(q) /\ q[i + 1].n # h.n
          BY <3>1, <5>1, <5>2 DEF Barriers
        <5>4. QED
          BY <5>1, <5>3
      <4>2. Barriers(q) \ {h.n} \subseteq Barriers(r)
        BY <1>1 DEF Barriers
      <4>3. Barriers(r) \subseteq Barriers(q) \ {h.n}
        BY <4>1 DEF Barriers
      <4>4. QED
        BY <4>2, <4>3
    <3>3. h.n \in Barriers(q)
      BY <1>1, <2>2 DEF Barriers
    <3>4. QED
      BY <2>1, <2>2, <3>2, <3>3, FS_RemoveElement
  <2>3. CASE h.kind # "barrier"
    <3>1. ASSUME NEW i \in DOMAIN r, r[i].kind = "barrier"
          PROVE  r[i].n \in Barriers(q)
      <4>1. i + 1 \in DOMAIN q /\ q[i + 1] = r[i]
        BY <1>1
      <4>2. q[i + 1].kind = "barrier"
        BY <3>1, <4>1
      <4>3. q[i + 1].n \in Barriers(q)
        BY <4>1, <4>2 DEF Barriers
      <4>4. QED
        BY <4>1, <4>3
    <3>2. Barriers(q) \subseteq Barriers(r)
      BY <1>1, <2>3 DEF Barriers
    <3>3. Barriers(r) \subseteq Barriers(q)
      BY <3>1 DEF Barriers
    <3>4. Barriers(r) = Barriers(q)
      BY <3>2, <3>3
    <3>5. QED
      BY <2>1, <2>3, <3>4
  <2>4. QED
    BY <2>2, <2>3
<1>4. QED
  BY <1>2, <1>3 DEF r, h

-----------------------------------------------------------------------------
\* The places of a read, and those of a read whose sample is not in progress yet.
ReadSection == {"read", "readFire", "readSubmit", "readBarrier", "readWait", "readEnd"}
Early == {"read", "readFire", "readSubmit", "readBarrier"}

\* The reads that put their sample in progress or did without: the last one may be on
\* its way to.
Past == IF \E t \in Threads : at[t] \in Early THEN reads - 1 ELSE reads

\* Whoever reads has the last number given out.
ReaderInv ==
  \A t \in Threads : at[t] \in ReadSection =>
    num[t] = reads /\ reads \in Reads /\ mode[t] \in Modes

\* A start packet is queued only while its call waits for it.
StartInv ==
  /\ OneStart(queue)
  /\ Has(queue, "start") => start_signal = 1 /\ \E t \in Threads : at[t] = "startWait"

\* One barrier packet a read at most; the completion signal has yet to lose one for each.
BarrierInv ==
  /\ Ordered(queue, Past)
  /\ completion - Cardinality(Barriers(queue)) >= -Past

\* The signal and the handler are at rest until there is a sample with a user.
UserInv ==
  user = 0 => completion = 1 /\ ~Has(queue, "barrier") /\ handler.at = "idle"

\* What TypeOK needs to be inductive.
TypeInv == LockInv /\ TypeOK /\ ReaderInv /\ StartInv /\ BarrierInv /\ UserInv

\* Past counts the reads that are over, as numbers.
LEMMA PastType ==
  ASSUME TypeOK, ReaderInv
  PROVE  Past \in Nat /\ Past <= reads /\ reads \in Nat /\ reads <= MaxReads /\ MaxReads \in Nat
<1>1. reads \in Nat /\ reads <= MaxReads /\ MaxReads \in Nat
  BY CountingAssumption DEF TypeOK
<1>2. ASSUME NEW t \in Threads, at[t] \in Early PROVE reads >= 1
  BY <1>2 DEF ReaderInv, ReadSection, Early, Reads
<1>3. QED
  BY <1>1, <1>2 DEF Past

\* The thread that reads, when it has not begun its sample, is the only one.
LEMMA PastIs ==
  ASSUME LockInv, NEW t \in Threads, at[t] \in Section
  PROVE  Past = IF at[t] \in Early THEN reads - 1 ELSE reads
BY DEF LockInv, Locked, Past, Section, Early

\* A thread moves, not in a read: nobody reads who did not, and no number changes.
LEMMA PastKept ==
  ASSUME LockInv, ReaderInv, NEW t \in Threads, NEW p \in Places,
         at' = [at EXCEPT ![t] = p], p \notin ReadSection, at[t] \notin ReadSection,
         num' = num, reads' = reads, \A u \in Threads : u # t => mode'[u] = mode[u]
  PROVE  ReaderInv' /\ Past' = Past
<1>1. \A u \in Threads : at'[u] \in ReadSection => u # t /\ at'[u] = at[u]
  BY DEF LockInv
<1>2. ReaderInv'
  BY <1>1 DEF ReaderInv
<1>3. \A u \in Threads : at'[u] \in Early <=> at[u] \in Early
  BY DEF LockInv, Early, ReadSection
<1>4. QED
  BY <1>2, <1>3 DEF Past

\* What a step that leaves the packets alone says of them.
LEMMA QueueKept ==
  ASSUME TypeInv, UNCHANGED <<queue, completion, start_signal>>, Past' = Past,
         \A t \in Threads : at[t] = "startWait" => at'[t] = "startWait" \/ ~Has(queue, "start")
  PROVE  StartInv' /\ BarrierInv'
BY DEF TypeInv, StartInv, BarrierInv

\* The steps of start, stop, registration and finalization that submit nothing.
Control(t) ==
  \/ StartBegin(t) \/ StartSearch(t) \/ StartPublish(t) \/ StartLock(t) \/ StartWait(t)
  \/ StartEnd(t) \/ Register(t) \/ RegisterStart(t)
  \/ StopBegin(t) \/ StopClear(t) \/ StopLock(t) \/ StopWait(t) \/ StopEnd(t)
  \/ FinalizeBegin(t) \/ FinalizeService(t)

\* The steps of control move one thread outside the reads, and leave samples and packets alone.
LEMMA ControlMoves ==
  ASSUME LockInv, NEW t \in Threads, Control(t)
  PROVE  /\ UNCHANGED <<agentVars, deviceVars, sampleVars, reads, num>>
         /\ \E p \in Places : /\ at' = [at EXCEPT ![t] = p]
                              /\ p \notin ReadSection /\ at[t] \notin ReadSection
         /\ at[t] = "startWait" => start_signal = 0
         /\ mode' = mode \/ mode' = [mode EXCEPT ![t] = "final"]
<1> USE DEF Goes, Calls, boundVars, Places, ReadSection
<1>1. CASE StartBegin(t) \/ StartSearch(t) \/ StartPublish(t) \/ StartLock(t)
  BY <1>1 DEF StartBegin, StartSearch, StartPublish, StartLock
<1>2. CASE StartWait(t) \/ StartEnd(t) \/ Register(t) \/ RegisterStart(t)
  BY <1>2 DEF StartWait, StartEnd, Register, RegisterStart
<1>3. CASE StopBegin(t) \/ StopClear(t)
  BY <1>3 DEF StopBegin, StopClear
<1>4. CASE StopLock(t) \/ StopWait(t) \/ StopEnd(t)
  BY <1>4 DEF StopLock, StopWait, StopEnd
<1>5. CASE FinalizeBegin(t) \/ FinalizeService(t)
  BY <1>5 DEF FinalizeBegin, FinalizeService
<1>6. QED
  BY <1>1, <1>2, <1>3, <1>4, <1>5 DEF Control

\* The variables of control.
LEMMA ControlTypes ==
  ASSUME TypeInv, NEW t \in Threads, Control(t)
  PROVE  /\ status' \in {"disabled", "locked", "enabled", "exit"}
         /\ inited' \in BOOLEAN /\ active' \in BOOLEAN /\ mutex' \in Threads \cup {None}
         /\ fini' \in {0, -1, 1} /\ calls' \in 0 .. MaxCalls /\ overlapped' \in BOOLEAN
<1>0. /\ status \in {"disabled", "locked", "enabled", "exit"}
      /\ inited \in BOOLEAN /\ active \in BOOLEAN /\ mutex \in Threads \cup {None}
      /\ fini \in {0, -1, 1} /\ calls \in 0 .. MaxCalls /\ overlapped \in BOOLEAN
      /\ MaxCalls \in Nat
  BY CountingAssumption DEF TypeInv, TypeOK
<1> USE <1>0 DEF contextVars, boundVars, Calls
<1>1. CASE StartBegin(t) \/ StartSearch(t)
  BY <1>1 DEF StartBegin, StartSearch
<1>2. CASE StartPublish(t) \/ StartLock(t)
  BY <1>2 DEF StartPublish, StartLock
<1>3. CASE StartWait(t) \/ StartEnd(t) \/ Register(t) \/ RegisterStart(t)
  BY <1>3 DEF StartWait, StartEnd, Register, RegisterStart
<1>4. CASE StopBegin(t)
  BY <1>4 DEF StopBegin
<1>5. CASE StopClear(t) \/ StopLock(t) \/ StopWait(t) \/ StopEnd(t)
  <2>1. fini' \in {fini, Finalized(t)} /\ mutex' \in {mutex, t, None}
    BY <1>5, Zenon DEF StopClear, StopLock, StopWait, StopEnd
  <2>2. Finalized(t) \in {fini, 1}
    BY DEF Finalized
  <2>3. status' \in {status, "locked", "disabled"} /\ active' \in {active, FALSE}
    BY <1>5 DEF StopClear, StopLock, StopWait, StopEnd
  <2>4. inited' = inited /\ calls' = calls /\ overlapped' \in BOOLEAN
    BY <1>5 DEF StopClear, StopLock, StopWait, StopEnd
  <2>5. QED
    BY <2>1, <2>2, <2>3, <2>4
<1>6. CASE FinalizeBegin(t) \/ FinalizeService(t)
  BY <1>6 DEF FinalizeBegin, FinalizeService
<1>7. QED
  BY <1>1, <1>2, <1>3, <1>4, <1>5, <1>6 DEF Control

\* So control keeps the invariant.
LEMMA ControlStep ==
  ASSUME TypeInv, LockInv', NEW t \in Threads, Control(t)
  PROVE  TypeInv'
<1>1. /\ UNCHANGED <<agentVars, deviceVars, sampleVars, reads, num>>
      /\ \E p \in Places : /\ at' = [at EXCEPT ![t] = p]
                           /\ p \notin ReadSection /\ at[t] \notin ReadSection
      /\ at[t] = "startWait" => start_signal = 0
      /\ mode' = mode \/ mode' = [mode EXCEPT ![t] = "final"]
  BY ControlMoves DEF TypeInv
<1>2. /\ mode' \in [Threads -> Modes \cup {"none", "final"}]
      /\ \A u \in Threads : u # t => mode'[u] = mode[u]
  BY <1>1 DEF TypeInv, TypeOK
<1>3. ReaderInv' /\ Past' = Past
  BY <1>1, <1>2, PastKept DEF TypeInv
<1>4. at' \in [Threads -> Places]
  BY DEF LockInv
<1>5. TypeOK'
  BY <1>1, <1>2, <1>4, ControlTypes DEF TypeInv, TypeOK, agentVars, deviceVars, sampleVars
<1>6. \A u \in Threads : at[u] = "startWait" => at'[u] = "startWait" \/ ~Has(queue, "start")
  BY <1>1 DEF TypeInv, StartInv, LockInv
<1>7. StartInv' /\ BarrierInv'
  BY <1>1, <1>3, <1>6, QueueKept DEF agentVars, deviceVars
<1>8. UserInv'
  BY <1>1 DEF TypeInv, UserInv, agentVars, deviceVars
<1>9. QED
  BY <1>3, <1>5, <1>7, <1>8 DEF TypeInv

\* A start submits its packet, for hardware counters, while no other is queued.
LEMMA StartProfileStep ==
  ASSUME TypeInv, LockInv', NEW t \in Threads, StartProfile(t)
  PROVE  TypeInv'
<1>1. PICK p \in Profiles :
        /\ at' = [at EXCEPT ![t] = IF p = "hardware" THEN "startWait" ELSE "startEnd"]
        /\ packet' = p
        /\ data' = IF p = packet THEN data ELSE 0
        /\ start_signal' = IF p = "hardware" THEN 1 ELSE start_signal
        /\ queue' = IF p = "hardware" THEN Append(queue, [kind |-> "start", n |-> 0]) ELSE queue
  BY DEF StartProfile, Goes
<1>2. /\ at[t] = "profile"
      /\ UNCHANGED <<status, contextVars, mode, num, completion, user, cached, counting, handler,
                     sampleVars, fini, boundVars, overlapped>>
  BY DEF StartProfile, Goes
<1>3. p \in {"none", "constants", "hardware"}
  BY CountingAssumption
<1>4. ReaderInv' /\ Past' = Past
  <2>1. PICK e \in {"startWait", "startEnd"} : at' = [at EXCEPT ![t] = e]
    BY <1>1
  <2>2. e \in Places /\ e \notin ReadSection /\ at[t] \notin ReadSection
    BY <1>2, <2>1 DEF Places, ReadSection
  <2>3. QED
    BY <1>2, <2>1, <2>2, PastKept DEF TypeInv, boundVars
<1>5. ~Has(queue, "start")
  BY <1>2 DEF TypeInv, StartInv, LockInv, Locked, Section
<1>6. queue \in Seq(AnyPacket) /\ queue \in Seq(Packet)
  BY DEF TypeInv, LockInv, TypeOK
<1> DEFINE s == [kind |-> "start", n |-> 0]
<1>7. s \in AnyPacket /\ s \in Packet /\ s.kind = "start"
  BY CountingAssumption DEF AnyPacket, Packet
<1>8. queue' \in Seq(Packet)
  BY <1>1, <1>6, <1>7
<1>9. TypeOK'
  <2>1. at' \in [Threads -> Places]
    BY DEF LockInv
  <2>2. /\ packet' \in {"none", "constants", "hardware"} /\ data' \in 0 .. MaxReads
        /\ start_signal' \in 0 .. 1
    BY <1>1, <1>3, CountingAssumption DEF TypeInv, TypeOK
  <2>3. QED
    BY <1>2, <1>8, <2>1, <2>2 DEF TypeInv, TypeOK, contextVars, sampleVars, boundVars
<1> HIDE DEF s
<1>10. CASE p = "hardware"
  <2>1. queue' = Append(queue, s) /\ start_signal' = 1 /\ at'[t] = "startWait"
    BY <1>1, <1>10 DEF s, TypeInv, LockInv
  <2>2. StartInv'
    BY <1>5, <1>6, <1>7, <2>1, Submitted DEF TypeInv, StartInv
  <2>3. /\ Past \in Nat /\ Ordered(queue, Past)
    BY PastType DEF TypeInv, BarrierInv
  <2>4. /\ Ordered(queue', Past)
        /\ Cardinality(Barriers(queue')) = Cardinality(Barriers(queue)) + 0
    BY <1>6, <1>7, <2>1, <2>3, BarrierSubmitted
  <2>5. Cardinality(Barriers(queue)) \in Nat
    BY <2>3, BarriersFinite
  <2>6. BarrierInv'
    BY <1>2, <1>4, <2>4, <2>5 DEF TypeInv, BarrierInv
  <2>7. UserInv'
    BY <1>2, <1>6, <1>7, <2>1, Submitted DEF TypeInv, UserInv
  <2>8. QED
    BY <1>4, <1>9, <2>2, <2>6, <2>7 DEF TypeInv
<1>11. CASE p # "hardware"
  <2>1. queue' = queue /\ start_signal' = start_signal
    BY <1>1, <1>11
  <2>2. StartInv' /\ BarrierInv' /\ UserInv'
    BY <1>2, <1>4, <1>5, <2>1 DEF TypeInv, StartInv, BarrierInv, UserInv
  <2>3. QED
    BY <1>4, <1>9, <2>2 DEF TypeInv
<1>12. QED
  BY <1>10, <1>11

\* A stop submits its packet.
LEMMA StopSubmitStep ==
  ASSUME TypeInv, LockInv', NEW t \in Threads, StopSubmit(t)
  PROVE  TypeInv'
<1>1. /\ at[t] = "stopSubmit"
      /\ at' = [at EXCEPT ![t] = IF packet = "none" THEN "stopEnd" ELSE "stopWait"]
      /\ queue' = IF packet = "hardware" THEN Append(queue, [kind |-> "stop", n |-> 0]) ELSE queue
      /\ UNCHANGED <<status, contextVars, mode, num, agentVars, counting, handler, sampleVars, fini,
                     boundVars, overlapped>>
  BY DEF StopSubmit, Goes
<1>2. ReaderInv' /\ Past' = Past
  <2>1. PICK e \in {"stopEnd", "stopWait"} : at' = [at EXCEPT ![t] = e]
    BY <1>1
  <2>2. e \in Places /\ e \notin ReadSection /\ at[t] \notin ReadSection
    BY <1>1, <2>1 DEF Places, ReadSection
  <2>3. QED
    BY <1>1, <2>1, <2>2, PastKept DEF TypeInv, boundVars
<1>3. queue \in Seq(AnyPacket) /\ queue \in Seq(Packet)
  BY DEF TypeInv, LockInv, TypeOK
<1> DEFINE s == [kind |-> "stop", n |-> 0]
<1>4. s \in AnyPacket /\ s \in Packet /\ s.kind = "stop"
  BY CountingAssumption DEF AnyPacket, Packet
<1>5. queue' \in Seq(Packet)
  BY <1>1, <1>3, <1>4
<1>6. TypeOK'
  <2>1. at' \in [Threads -> Places]
    BY DEF LockInv
  <2>2. QED
    BY <1>1, <1>5, <2>1 DEF TypeInv, TypeOK, contextVars, agentVars, sampleVars, boundVars
<1>7. ~Has(queue, "start")
  BY <1>1 DEF TypeInv, StartInv, LockInv, Locked, Section
<1> HIDE DEF s
<1>8. CASE packet = "hardware"
  <2>1. queue' = Append(queue, s)
    BY <1>1, <1>8 DEF s
  <2>2. StartInv'
    BY <1>3, <1>4, <1>7, <2>1, Submitted DEF TypeInv, StartInv
  <2>3. /\ Past \in Nat /\ Ordered(queue, Past)
    BY PastType DEF TypeInv, BarrierInv
  <2>4. /\ Ordered(queue', Past)
        /\ Cardinality(Barriers(queue')) = Cardinality(Barriers(queue)) + 0
    BY <1>3, <1>4, <2>1, <2>3, BarrierSubmitted
  <2>5. Cardinality(Barriers(queue)) \in Nat
    BY <2>3, BarriersFinite
  <2>6. BarrierInv'
    BY <1>1, <1>2, <2>4, <2>5 DEF TypeInv, BarrierInv, agentVars
  <2>7. UserInv'
    BY <1>1, <1>3, <1>4, <2>1, Submitted DEF TypeInv, UserInv, agentVars
  <2>8. QED
    BY <1>2, <1>6, <2>2, <2>6, <2>7 DEF TypeInv
<1>9. CASE packet # "hardware"
  <2>1. queue' = queue
    BY <1>1, <1>9
  <2>2. StartInv' /\ BarrierInv' /\ UserInv'
    BY <1>1, <1>2, <1>7, <2>1 DEF TypeInv, StartInv, BarrierInv, UserInv, agentVars
  <2>3. QED
    BY <1>2, <1>6, <2>2 DEF TypeInv
<1>10. QED
  BY <1>8, <1>9

\* A read is given the next number.
LEMMA ReadLockStep ==
  ASSUME TypeInv, LockInv', NEW t \in Threads, NEW m \in Modes, ReadLock(t, m)
  PROVE  TypeInv'
<1>1. /\ at[t] = "idle" /\ at' = [at EXCEPT ![t] = "read"]
      /\ status = "enabled" /\ reads < MaxReads /\ status' = "locked"
      /\ reads' = reads + 1
      /\ num' = [num EXCEPT ![t] = reads'] /\ mode' = [mode EXCEPT ![t] = m]
      /\ UNCHANGED <<contextVars, agentVars, deviceVars, sampleVars, fini, calls, overlapped>>
  BY DEF ReadLock, Goes
<1>2. reads \in Nat /\ MaxReads \in Nat /\ reads' \in Reads /\ reads' \in 0 .. MaxReads
  BY <1>1, CountingAssumption DEF TypeInv, TypeOK, Reads
<1>3. /\ at'[t] = "read" /\ num'[t] = reads' /\ mode'[t] = m
      /\ \A u \in Threads : u # t => at'[u] = at[u]
  BY <1>1 DEF TypeInv, TypeOK
<1>4. \A u \in Threads : at[u] \notin Section
  BY <1>1 DEF TypeInv, LockInv, Locked
<1>5. ReaderInv'
  BY <1>1, <1>2, <1>3, <1>4 DEF ReaderInv, Section, ReadSection
<1>6. Past' = Past
  <2>1. Past = reads
    BY <1>4 DEF Past, Early, Section
  <2>2. Past' = reads' - 1
    BY <1>3 DEF Past, Early
  <2>3. QED
    BY <1>1, <1>2, <2>1, <2>2
<1>7. TypeOK'
  <2>1. /\ at' \in [Threads -> Places] /\ num' \in [Threads -> 0 .. MaxReads]
        /\ mode' \in [Threads -> Modes \cup {"none", "final"}]
    BY <1>1, <1>2 DEF TypeInv, TypeOK, LockInv
  <2>2. /\ UNCHANGED <<contextVars, agentVars, deviceVars, sampleVars, fini, calls, overlapped>>
        /\ status' \in {"disabled", "locked", "enabled", "exit"} /\ reads' \in 0 .. MaxReads
    BY <1>1, <1>2
  <2>3. QED
    BY <2>1, <2>2 DEF TypeInv, TypeOK, contextVars, agentVars, deviceVars, sampleVars
<1>8. StartInv' /\ BarrierInv'
  BY <1>1, <1>3, <1>6, QueueKept DEF agentVars, deviceVars
<1>9. UserInv'
  BY <1>1 DEF TypeInv, UserInv, agentVars, deviceVars
<1>10. QED
  BY <1>5, <1>7, <1>8, <1>9 DEF TypeInv

\* What the steps of a read do, but for its first and its packets.
LEMMA ReadMoves ==
  ASSUME TypeInv, NEW t \in Threads, NEW p \in Places, at[t] \in ReadSection,
         at' = [at EXCEPT ![t] = p], reads' = reads,
         \/ p \in ReadSection /\ num' = num /\ mode' = mode
         \/ /\ p = "idle" /\ num' = [num EXCEPT ![t] = 0]
            /\ mode' = [mode EXCEPT ![t] = "none"]
  PROVE  /\ ReaderInv' /\ Past' = (IF p \in Early THEN reads - 1 ELSE reads)
         /\ \A u \in Threads : at[u] # "startWait" /\ (u # t => at[u] \notin Section)
<1>1. \A u \in Threads : at'[u] = IF u = t THEN p ELSE at[u]
  BY DEF TypeInv, TypeOK
<1>2. \A u \in Threads : u # t => at[u] \notin Section
  BY DEF TypeInv, LockInv, Locked, ReadSection, Section
<1>3. ReaderInv'
  BY <1>1, <1>2 DEF TypeInv, ReaderInv, ReadSection, Section
<1>4. \A u \in Threads : at'[u] \in Early <=> u = t /\ p \in Early
  BY <1>1, <1>2 DEF Early, Section
<1>5. QED
  BY <1>2, <1>3, <1>4 DEF Past, ReadSection, Section

\* A read takes its turn.
LEMMA ReadTurnStep ==
  ASSUME TypeInv, LockInv', NEW t \in Threads, ReadTurn(t)
  PROVE  TypeInv'
<1>1. /\ at[t] = "read"
      /\ UNCHANGED <<status, contextVars, mode, num, packet, completion, start_signal, data, user,
                     deviceVars, out, recorded, left, fini, boundVars, overlapped>>
      /\ cached' \in {cached, num[t], 0} /\ begun' \in {begun, begun \cup {num[t]}}
      /\ doubled' \in BOOLEAN
  <2>1. /\ cached' \in {cached, num[t], 0} /\ begun' \in {begun, begun \cup {num[t]}}
    BY DEF ReadTurn
  <2>2. doubled \in BOOLEAN
    BY DEF TypeInv, TypeOK
  <2>3. QED
    BY <2>1, <2>2 DEF ReadTurn, Goes
<1>2. PICK p \in {"readEnd", "readFire", "readSubmit"} : at' = [at EXCEPT ![t] = p]
  <2>1. CASE packet = "none"
    BY <2>1 DEF ReadTurn, Goes
  <2>2. CASE packet # "none"
    BY <2>2 DEF ReadTurn, Goes
  <2>3. QED
    BY <2>1, <2>2
<1>3. p \in Places /\ p \in ReadSection /\ at[t] \in ReadSection /\ at[t] \in Early
      /\ at[t] \in Section
  BY <1>1, <1>2 DEF Places, ReadSection, Early, Section
<1>4. num[t] = reads /\ reads \in Reads
  BY <1>3 DEF TypeInv, ReaderInv
<1>5. /\ ReaderInv' /\ Past' = (IF p \in Early THEN reads - 1 ELSE reads)
      /\ \A u \in Threads : at[u] # "startWait"
  BY <1>1, <1>2, <1>3, ReadMoves DEF boundVars
<1>6. Past = reads - 1 /\ Past \in Nat /\ Past' \in Nat /\ Past <= Past' /\ reads \in Nat
  <2>1. Past = reads - 1
    BY <1>3, PastIs DEF TypeInv
  <2>2. Past \in Nat /\ reads \in Nat
    BY PastType DEF TypeInv
  <2>3. Past' \in {reads - 1, reads}
    BY <1>5
  <2>4. QED
    BY <2>1, <2>2, <2>3
<1>7. TypeOK'
  <2>1. at' \in [Threads -> Places]
    BY DEF LockInv
  <2>2. cached' \in 0 .. MaxReads /\ begun' \subseteq Reads
    BY <1>1, <1>4, CountingAssumption DEF TypeInv, TypeOK, Reads
  <2>3. QED
    BY <1>1, <2>1, <2>2 DEF TypeInv, TypeOK, contextVars, deviceVars, boundVars
<1>8. StartInv'
  BY <1>1, <1>5 DEF TypeInv, StartInv, deviceVars
<1>9. BarrierInv'
  <2>1. Ordered(queue, Past) /\ completion - Cardinality(Barriers(queue)) >= -Past
    BY DEF TypeInv, BarrierInv
  <2>2. Ordered(queue, Past')
    BY <1>6, <2>1 DEF Ordered
  <2>3. Cardinality(Barriers(queue)) \in Nat /\ completion \in Int
    BY <1>6, <2>1, BarriersFinite, CountingAssumption DEF TypeInv, TypeOK
  <2>4. completion - Cardinality(Barriers(queue)) >= -Past'
    BY <1>6, <2>1, <2>3
  <2>5. queue' = queue /\ completion' = completion
    BY <1>1 DEF deviceVars
  <2>6. QED
    BY <2>2, <2>4, <2>5 DEF BarrierInv
<1>10. UserInv'
  BY <1>1 DEF TypeInv, UserInv, deviceVars
<1>11. QED
  BY <1>5, <1>7, <1>8, <1>9, <1>10 DEF TypeInv

\* A sample of constants is complete at once; no read after it is past its own.
LEMMA ReadFireStep ==
  ASSUME TypeInv, LockInv', NEW t \in Threads, ReadFire(t)
  PROVE  TypeInv'
<1>1. /\ at[t] = "readFire" /\ user' = num[t] /\ completion' = -1
      /\ UNCHANGED <<status, contextVars, mode, num, packet, start_signal, data, cached,
                     deviceVars, sampleVars, fini, boundVars, overlapped>>
  BY DEF ReadFire, Goes
<1>2. PICK p \in {"readWait", "readEnd"} : at' = [at EXCEPT ![t] = p]
  BY DEF ReadFire, Goes
<1>3. p \in Places /\ p \in ReadSection /\ p \notin Early /\ at[t] \in ReadSection
      /\ at[t] \in Early /\ at[t] \in Section
  BY <1>1, <1>2 DEF Places, ReadSection, Early, Section
<1>4. num[t] = reads /\ reads \in Reads /\ reads \in Nat /\ reads >= 1 /\ reads <= MaxReads
  BY <1>3, CountingAssumption DEF TypeInv, ReaderInv, Reads
<1>5. /\ ReaderInv' /\ Past' = reads /\ Past = reads - 1
      /\ \A u \in Threads : at[u] # "startWait"
  BY <1>1, <1>2, <1>3, ReadMoves, PastIs DEF TypeInv, boundVars
<1>6. TypeOK'
  <2>1. at' \in [Threads -> Places]
    BY DEF LockInv
  <2>2. completion' \in -MaxReads .. 1 /\ user' \in 0 .. MaxReads
    BY <1>1, <1>4, CountingAssumption
  <2>3. QED
    BY <1>1, <2>1, <2>2 DEF TypeInv, TypeOK, contextVars, deviceVars, sampleVars, boundVars
<1>7. StartInv'
  BY <1>1, <1>5 DEF TypeInv, StartInv, deviceVars
<1>8. BarrierInv'
  <2>1. Ordered(queue, Past) /\ Past \in Nat
    BY PastType DEF TypeInv, BarrierInv
  <2>2. Ordered(queue, Past')
    BY <1>4, <1>5, <2>1 DEF Ordered
  <2>3. Cardinality(Barriers(queue)) \in Nat /\ Cardinality(Barriers(queue)) <= Past
    BY <2>1, BarriersFinite
  <2>4. -1 - Cardinality(Barriers(queue)) >= -reads
    BY <1>4, <1>5, <2>3
  <2>5. queue' = queue /\ completion' = -1
    BY <1>1 DEF deviceVars
  <2>6. QED
    BY <1>5, <2>2, <2>4, <2>5 DEF BarrierInv
<1>9. UserInv'
  BY <1>1, <1>4 DEF UserInv
<1>10. QED
  BY <1>5, <1>6, <1>7, <1>8, <1>9 DEF TypeInv

\* The packet that reads the counters.
LEMMA ReadSubmitStep ==
  ASSUME TypeInv, LockInv', NEW t \in Threads, ReadSubmit(t)
  PROVE  TypeInv'
<1> DEFINE s == [kind |-> "read", n |-> num[t]]
<1>1. /\ at[t] = "readSubmit" /\ at' = [at EXCEPT ![t] = "readBarrier"]
      /\ queue' = Append(queue, s)
      /\ UNCHANGED <<status, contextVars, mode, num, agentVars, counting, handler, sampleVars, fini,
                     boundVars, overlapped>>
  BY DEF ReadSubmit, Goes
<1>3. at[t] \in ReadSection /\ at[t] \in Early /\ at[t] \in Section
      /\ "readBarrier" \in Places /\ "readBarrier" \in ReadSection /\ "readBarrier" \in Early
  BY <1>1 DEF Places, ReadSection, Early, Section
<1>4. num[t] = reads /\ reads \in Reads
  BY <1>3 DEF TypeInv, ReaderInv
<1>5. /\ ReaderInv' /\ Past' = Past
      /\ \A u \in Threads : at[u] # "startWait"
  <2>1. num' = num /\ mode' = mode /\ reads' = reads
    BY <1>1 DEF boundVars
  <2>2. /\ ReaderInv' /\ Past' = reads - 1
        /\ \A u \in Threads : at[u] # "startWait"
    BY <1>1, <1>3, <2>1, ReadMoves
  <2>3. Past = reads - 1
    BY <1>3, PastIs DEF TypeInv
  <2>4. QED
    BY <2>2, <2>3
<1>6. queue \in Seq(AnyPacket) /\ queue \in Seq(Packet)
  BY DEF TypeInv, LockInv, TypeOK
<1>7. s \in AnyPacket /\ s \in Packet /\ s.kind = "read"
  BY <1>4, CountingAssumption DEF AnyPacket, Packet, Reads
<1> HIDE DEF s
<1>8. TypeOK'
  <2>1. at' \in [Threads -> Places]
    BY DEF LockInv
  <2>2. queue' \in Seq(Packet)
    BY <1>1, <1>6, <1>7
  <2>3. QED
    BY <1>1, <2>1, <2>2 DEF TypeInv, TypeOK, contextVars, agentVars, sampleVars, boundVars
<1>9. StartInv'
  <2>1. ~Has(queue, "start")
    BY <1>5 DEF TypeInv, StartInv
  <2>2. QED
    BY <1>1, <1>6, <1>7, <2>1, Submitted DEF TypeInv, StartInv
<1>10. BarrierInv'
  <2>1. /\ Past \in Nat /\ Ordered(queue, Past)
    BY PastType DEF TypeInv, BarrierInv
  <2>2. /\ Ordered(queue', Past)
        /\ Cardinality(Barriers(queue')) = Cardinality(Barriers(queue)) + 0
    BY <1>1, <1>6, <1>7, <2>1, BarrierSubmitted
  <2>3. Cardinality(Barriers(queue)) \in Nat
    BY <2>1, BarriersFinite
  <2>4. QED
    BY <1>1, <1>5, <2>2, <2>3 DEF TypeInv, BarrierInv, agentVars
<1>11. UserInv'
  BY <1>1, <1>6, <1>7, Submitted DEF TypeInv, UserInv, agentVars
<1>12. QED
  BY <1>5, <1>8, <1>9, <1>10, <1>11 DEF TypeInv

\* The packet that completes the sample: the signal has one more to lose, and this
\* read is past.
LEMMA ReadBarrierStep ==
  ASSUME TypeInv, LockInv', NEW t \in Threads, ReadBarrier(t)
  PROVE  TypeInv'
<1> DEFINE s == [kind |-> "barrier", n |-> num[t]]
<1>1. /\ at[t] = "readBarrier" /\ queue' = Append(queue, s) /\ completion' = 0 /\ user' = num[t]
      /\ UNCHANGED <<status, contextVars, mode, num, packet, start_signal, data, cached, counting,
                     handler, sampleVars, fini, boundVars, overlapped>>
  BY DEF ReadBarrier, Goes
<1>2. PICK p \in {"readWait", "readEnd"} : at' = [at EXCEPT ![t] = p]
  BY DEF ReadBarrier, Goes
<1>3. p \in Places /\ p \in ReadSection /\ p \notin Early /\ at[t] \in ReadSection
      /\ at[t] \in Early /\ at[t] \in Section
  BY <1>1, <1>2 DEF Places, ReadSection, Early, Section
<1>4. num[t] = reads /\ reads \in Reads /\ reads \in Nat /\ reads >= 1 /\ reads <= MaxReads
  BY <1>3, CountingAssumption DEF TypeInv, ReaderInv, Reads
<1>5. /\ ReaderInv' /\ Past' = reads /\ Past = reads - 1
      /\ \A u \in Threads : at[u] # "startWait"
  BY <1>1, <1>2, <1>3, ReadMoves, PastIs DEF TypeInv, boundVars
<1>6. queue \in Seq(AnyPacket) /\ queue \in Seq(Packet)
  BY DEF TypeInv, LockInv, TypeOK
<1>7. s \in AnyPacket /\ s \in Packet /\ s.kind = "barrier" /\ s.n = reads
  BY <1>4, CountingAssumption DEF AnyPacket, Packet, Reads
<1> HIDE DEF s
<1>8. TypeOK'
  <2>1. at' \in [Threads -> Places]
    BY DEF LockInv
  <2>2. queue' \in Seq(Packet)
    BY <1>1, <1>6, <1>7
  <2>3. completion' \in -MaxReads .. 1 /\ user' \in 0 .. MaxReads
    BY <1>1, <1>4, CountingAssumption
  <2>4. QED
    BY <1>1, <2>1, <2>2, <2>3 DEF TypeInv, TypeOK, contextVars, sampleVars, boundVars
<1>9. StartInv'
  <2>1. ~Has(queue, "start")
    BY <1>5 DEF TypeInv, StartInv
  <2>2. QED
    BY <1>1, <1>6, <1>7, <2>1, Submitted DEF TypeInv, StartInv
<1>10. BarrierInv'
  <2>1. Past \in Nat /\ Ordered(queue, Past)
    BY PastType DEF TypeInv, BarrierInv
  <2>2. Past <= reads /\ s.n > Past
    BY <1>4, <1>5, <1>7
  <2>3. /\ Ordered(queue', reads)
        /\ Cardinality(Barriers(queue')) = Cardinality(Barriers(queue)) + 1
    BY <1>1, <1>4, <1>6, <1>7, <2>1, <2>2, BarrierSubmitted
  <2>4. Cardinality(Barriers(queue)) \in Nat /\ Cardinality(Barriers(queue)) <= Past
    BY <2>1, BarriersFinite
  <2>5. 0 - Cardinality(Barriers(queue')) >= -reads
    BY <1>4, <1>5, <2>3, <2>4
  <2>6. QED
    BY <1>1, <1>5, <2>3, <2>5 DEF BarrierInv
<1>11. UserInv'
  BY <1>1, <1>4 DEF UserInv
<1>12. QED
  BY <1>5, <1>8, <1>9, <1>10, <1>11 DEF TypeInv

\* A read has its sample, or ends.
LEMMA ReadLastSteps ==
  ASSUME TypeInv, LockInv', NEW t \in Threads, ReadWait(t) \/ ReadEnd(t)
  PROVE  TypeInv'
<1>1. /\ at[t] \in {"readWait", "readEnd"} /\ cached' \in {cached, 0}
      /\ left' \in {left, left \cup {num[t]}} /\ status' \in {status, "enabled"}
      /\ UNCHANGED <<contextVars, packet, completion, start_signal, data, user, deviceVars, out,
                     begun, recorded, doubled, fini, boundVars, overlapped>>
  BY DEF ReadWait, ReadEnd, Goes, agentVars, sampleVars
<1>2. PICK p \in {"readEnd", "idle"} :
        /\ at' = [at EXCEPT ![t] = p]
        /\ \/ p = "readEnd" /\ num' = num /\ mode' = mode
           \/ p = "idle" /\ num' = [num EXCEPT ![t] = 0] /\ mode' = [mode EXCEPT ![t] = "none"]
  BY DEF ReadWait, ReadEnd, Goes
<1>3. p \in Places /\ p \notin Early /\ (p = "readEnd" => p \in ReadSection)
      /\ at[t] \in ReadSection /\ at[t] \notin Early /\ at[t] \in Section
  BY <1>1, <1>2 DEF Places, ReadSection, Early, Section
<1>4. num[t] \in Reads /\ MaxReads \in Nat
  BY <1>3, CountingAssumption DEF TypeInv, ReaderInv
<1>5. /\ ReaderInv' /\ Past' = Past
      /\ \A u \in Threads : at[u] # "startWait"
  BY <1>1, <1>2, <1>3, ReadMoves, PastIs DEF TypeInv, boundVars
<1>6. TypeOK'
  <2>1. /\ at' \in [Threads -> Places] /\ num' \in [Threads -> 0 .. MaxReads]
        /\ mode' \in [Threads -> Modes \cup {"none", "final"}]
    <3>1. at' \in [Threads -> Places]
      BY DEF LockInv
    <3>2. /\ num \in [Threads -> 0 .. MaxReads] /\ 0 \in 0 .. MaxReads
          /\ mode \in [Threads -> Modes \cup {"none", "final"}]
      BY <1>4 DEF TypeInv, TypeOK
    <3>3. num' = num \/ num' = [num EXCEPT ![t] = 0]
      BY <1>2
    <3>4. mode' = mode \/ mode' = [mode EXCEPT ![t] = "none"]
      BY <1>2
    <3>5. QED
      BY <3>1, <3>2, <3>3, <3>4
  <2>2. /\ cached' \in 0 .. MaxReads /\ left' \subseteq Reads
        /\ status' \in {"disabled", "locked", "enabled", "exit"}
    BY <1>1, <1>4 DEF TypeInv, TypeOK
  <2>3. QED
    BY <1>1, <2>1, <2>2 DEF TypeInv, TypeOK, contextVars, deviceVars, boundVars
<1>7. StartInv' /\ BarrierInv' /\ UserInv'
  BY <1>1, <1>5 DEF TypeInv, StartInv, BarrierInv, UserInv, deviceVars
<1>8. QED
  BY <1>5, <1>6, <1>7 DEF TypeInv

\* The device takes a packet: the signals lose what it carries.
LEMMA ProcessStep ==
  ASSUME TypeInv, LockInv', Process
  PROVE  TypeInv'
<1> DEFINE h == Head(queue)
<1>1. /\ queue # << >> /\ queue' = Tail(queue)
      /\ counting' \in {TRUE, FALSE, counting}
      /\ start_signal' = IF h.kind = "start" THEN start_signal - 1 ELSE start_signal
      /\ data' \in {h.n, data}
      /\ completion' = IF h.kind = "barrier" THEN completion - 1 ELSE completion
      /\ UNCHANGED <<status, contextVars, at, mode, num, packet, user, cached, handler, sampleVars,
                     fini, boundVars, overlapped>>
  BY DEF Process
<1>2. /\ queue \in Seq(AnyPacket) /\ queue' \in Seq(Packet) /\ h \in Packet
  BY <1>1 DEF TypeInv, LockInv, TypeOK
<1>3. h.n \in 0 .. MaxReads
  BY <1>2 DEF Packet
<1> HIDE DEF h
<1>4. ReaderInv' /\ Past' = Past
  BY <1>1 DEF TypeInv, ReaderInv, Past, boundVars
<1>5. StartInv' /\ start_signal' \in 0 .. 1
  <2>1. start_signal \in 0 .. 1
    BY DEF TypeInv, TypeOK
  <2>2. CASE h.kind = "start"
    BY <1>1, <1>2, <2>1, <2>2, Processed DEF TypeInv, StartInv, h
  <2>3. CASE h.kind # "start"
    BY <1>1, <1>2, <2>1, <2>3, Processed DEF TypeInv, StartInv, h
  <2>4. QED
    BY <2>2, <2>3
<1>6. BarrierInv' /\ completion' \in -MaxReads .. 1
  <2>1. /\ Past \in Nat /\ Past <= MaxReads /\ MaxReads \in Nat /\ Ordered(queue, Past)
        /\ completion - Cardinality(Barriers(queue)) >= -Past
        /\ completion \in Int /\ completion <= 1
    BY PastType DEF TypeInv, BarrierInv, TypeOK
  <2>2. /\ Ordered(queue', Past)
        /\ Cardinality(Barriers(queue')) =
             Cardinality(Barriers(queue)) - (IF h.kind = "barrier" THEN 1 ELSE 0)
    BY <1>1, <1>2, <2>1, BarrierProcessed DEF h
  <2>3. Cardinality(Barriers(queue)) \in Nat /\ Cardinality(Barriers(queue')) \in Nat
    BY <2>1, <2>2, BarriersFinite
  <2>4. completion' - Cardinality(Barriers(queue')) >= -Past
    BY <1>1, <2>1, <2>2, <2>3
  <2>5. completion' \in Int /\ completion' <= 1
    BY <1>1, <2>1
  <2>6. QED
    BY <1>4, <2>1, <2>2, <2>3, <2>4, <2>5 DEF BarrierInv
<1>7. UserInv'
  BY <1>1, <1>2, Processed DEF TypeInv, UserInv, h
<1>8. TypeOK'
  <2>1. data' \in 0 .. MaxReads /\ counting' \in BOOLEAN
    BY <1>1, <1>3 DEF TypeInv, TypeOK
  <2>2. QED
    BY <1>1, <1>2, <1>5, <1>6, <2>1 DEF TypeInv, TypeOK, contextVars, sampleVars, boundVars
<1>9. QED
  BY <1>4, <1>5, <1>6, <1>7, <1>8 DEF TypeInv

\* The handler decodes, records, and lets the next sample begin.
LEMMA HandlerStep ==
  ASSUME TypeInv, LockInv', Handler
  PROVE  TypeInv'
<1>1. UNCHANGED <<status, contextVars, at, mode, num, packet, start_signal, data, user, cached,
                  queue, counting, begun, doubled, left, fini, boundVars, overlapped>>
  BY DEF Handler, HandlerDecode, HandlerRecord, HandlerEnd, agentVars, sampleVars
<1>2. ReaderInv' /\ Past' = Past
  BY <1>1 DEF TypeInv, ReaderInv, Past, boundVars
<1>3. StartInv'
  BY <1>1 DEF TypeInv, StartInv
<1>4. /\ Past \in Nat /\ Ordered(queue, Past) /\ MaxReads \in Nat
      /\ Cardinality(Barriers(queue)) \in Nat /\ Cardinality(Barriers(queue)) <= Past
  <2>1. Past \in Nat /\ Ordered(queue, Past) /\ MaxReads \in Nat
    BY PastType DEF TypeInv, BarrierInv
  <2>2. QED
    BY <2>1, BarriersFinite
<1>5. CASE HandlerDecode
  <2>1. /\ completion < 0 /\ completion' = completion /\ out' = out /\ recorded' = recorded
        /\ handler' = [at |-> "decoded", data |-> data]
    BY <1>5 DEF HandlerDecode, agentVars, sampleVars
  <2>2. TypeOK'
    BY <1>1, <2>1 DEF TypeInv, TypeOK, contextVars, boundVars
  <2>3. BarrierInv'
    BY <1>1, <1>2, <2>1 DEF TypeInv, BarrierInv
  <2>4. UserInv'
    BY <1>1, <2>1 DEF TypeInv, UserInv
  <2>5. QED
    BY <1>2, <1>3, <2>2, <2>3, <2>4 DEF TypeInv
<1>6. CASE HandlerRecord
  <2>1. /\ handler.at = "decoded" /\ completion' = completion
        /\ handler' = [handler EXCEPT !.at = "recorded"]
        /\ out' = IF cached = 0 THEN out
                  ELSE [out EXCEPT ![cached] = Append(@, [data |-> handler.data, user |-> user])]
        /\ recorded' = recorded \cup {user}
    BY <1>6 DEF HandlerRecord, agentVars
  <2>2. user # 0 /\ user \in 0 .. MaxReads /\ cached \in 0 .. MaxReads
    BY <2>1 DEF TypeInv, UserInv, TypeOK
  <2>3. user \in Reads /\ (cached # 0 => cached \in Reads)
    BY <1>4, <2>2 DEF Reads
  <2>4. out' \in [Reads -> Seq(Record)]
    <3>1. out \in [Reads -> Seq(Record)] /\ [data |-> handler.data, user |-> user] \in Record
      BY <2>2 DEF TypeInv, TypeOK, Record
    <3>2. QED
      BY <2>1, <2>3, <3>1
  <2>5. /\ handler' \in [at : {"idle", "decoded", "recorded"}, data : 0 .. MaxReads]
        /\ recorded' \subseteq Reads
    BY <2>1, <2>3 DEF TypeInv, TypeOK
  <2>6. TypeOK'
    BY <1>1, <2>1, <2>4, <2>5 DEF TypeInv, TypeOK, contextVars, boundVars
  <2>7. BarrierInv'
    BY <1>1, <1>2, <2>1 DEF TypeInv, BarrierInv
  <2>8. UserInv'
    BY <1>1, <2>2 DEF UserInv
  <2>9. QED
    BY <1>2, <1>3, <2>6, <2>7, <2>8 DEF TypeInv
<1>7. CASE HandlerEnd
  <2>1. /\ handler' = [at |-> "idle", data |-> 0] /\ completion' = 1
        /\ out' = out /\ recorded' = recorded
    BY <1>7 DEF HandlerEnd, sampleVars
  <2>2. completion' \in -MaxReads .. 1
    BY <1>4, <2>1
  <2>3. TypeOK'
    BY <1>1, <1>4, <2>1, <2>2 DEF TypeInv, TypeOK, contextVars, boundVars
  <2>4. 1 - Cardinality(Barriers(queue)) >= -Past
    BY <1>4
  <2>5. BarrierInv'
    BY <1>1, <1>2, <1>4, <2>1, <2>4 DEF BarrierInv
  <2>6. UserInv'
    BY <1>1, <2>1 DEF TypeInv, UserInv
  <2>7. QED
    BY <1>2, <1>3, <2>3, <2>5, <2>6 DEF TypeInv
<1>8. QED
  BY <1>5, <1>6, <1>7 DEF Handler

\* Every step keeps it,
LEMMA TypeStep ==
  ASSUME TypeInv, [Next]_vars
  PROVE  TypeInv'
<1>0. LockInv'
  BY StepLocks DEF TypeInv
<1>1. CASE UNCHANGED vars
  <2>1. ReaderInv' /\ Past' = Past
    BY <1>1 DEF vars, TypeInv, ReaderInv, Past, boundVars
  <2>2. TypeOK'
    BY <1>1 DEF vars, TypeInv, TypeOK, contextVars, agentVars, deviceVars, sampleVars, boundVars
  <2>3. StartInv' /\ BarrierInv' /\ UserInv'
    BY <1>1, <2>1 DEF vars, TypeInv, StartInv, BarrierInv, UserInv, agentVars, deviceVars
  <2>4. QED
    BY <1>0, <2>1, <2>2, <2>3 DEF TypeInv
<1>2. ASSUME NEW t \in Threads,
             \/ StartBegin(t) \/ StopBegin(t) \/ Register(t) \/ FinalizeBegin(t) \/ Continues(t)
             \/ \E m \in Modes : ReadLock(t, m)
      PROVE  TypeInv'
  <2>1. CASE Control(t)
    BY <1>0, <2>1, ControlStep
  <2>2. CASE StartProfile(t) \/ StopSubmit(t) \/ \E m \in Modes : ReadLock(t, m)
    BY <1>0, <2>2, StartProfileStep, StopSubmitStep, ReadLockStep
  <2>3. CASE ReadTurn(t) \/ ReadFire(t) \/ ReadSubmit(t) \/ ReadBarrier(t) \/ ReadWait(t)
             \/ ReadEnd(t)
    BY <1>0, <2>3, ReadTurnStep, ReadFireStep, ReadSubmitStep, ReadBarrierStep, ReadLastSteps
  <2>4. QED
    BY <1>2, <2>1, <2>2, <2>3 DEF Continues, Control
<1>3. CASE Process \/ Handler
  BY <1>0, <1>3, ProcessStep, HandlerStep
<1>4. QED
  BY <1>1, <1>2, <1>3 DEF Next

\* and it holds at the start.
LEMMA TypeInit == Init => TypeInv
<1> SUFFICES ASSUME Init
             PROVE  TypeInv
  OBVIOUS
<1>1. LockInv
  BY DEF Init, LockInv, Locked, Section, Places
<1>2. TypeOK
  <2>1. /\ 1 \in -MaxReads .. 1 /\ 0 \in 0 .. MaxReads /\ 0 \in 0 .. MaxCalls
        /\ "idle" \in Places
    BY CountingAssumption DEF Places
  <2>2. /\ at \in [Threads -> Places] /\ mode \in [Threads -> Modes \cup {"none", "final"}]
        /\ num \in [Threads -> 0 .. MaxReads] /\ out \in [Reads -> Seq(Record)]
        /\ queue \in Seq(Packet)
        /\ handler \in [at : {"idle", "decoded", "recorded"}, data : 0 .. MaxReads]
    BY <2>1 DEF Init
  <2>3. /\ status \in {"disabled", "locked", "enabled", "exit"}
        /\ inited \in BOOLEAN /\ active \in BOOLEAN /\ mutex \in Threads \cup {None}
        /\ packet \in {"none", "constants", "hardware"}
        /\ counting \in BOOLEAN /\ fini \in {0, -1, 1}
        /\ doubled \in BOOLEAN /\ overlapped \in BOOLEAN
    BY DEF Init
  <2>4. /\ completion \in -MaxReads .. 1 /\ start_signal \in 0 .. 1
        /\ data \in 0 .. MaxReads /\ user \in 0 .. MaxReads /\ cached \in 0 .. MaxReads
        /\ calls \in 0 .. MaxCalls /\ reads \in 0 .. MaxReads
        /\ begun \subseteq Reads /\ recorded \subseteq Reads /\ left \subseteq Reads
    BY <2>1 DEF Init
  <2>5. QED
    BY <2>2, <2>3, <2>4 DEF TypeOK
<1>3. queue = << >> /\ ReaderInv /\ Past = 0 /\ completion = 1
  BY DEF Init, ReaderInv, ReadSection, Past, Early
<1>4. StartInv /\ UserInv
  BY <1>3 DEF Init, StartInv, UserInv, OneStart, Has
<1>5. BarrierInv
  <2>1. Barriers(queue) = {} /\ Ordered(queue, 0)
    BY <1>3 DEF Barriers, Ordered
  <2>2. Cardinality(Barriers(queue)) = 0
    BY <2>1, FS_EmptySet
  <2>3. QED
    BY <1>3, <2>1, <2>2 DEF BarrierInv
<1>6. QED
  BY <1>1, <1>2, <1>3, <1>4, <1>5 DEF TypeInv

\* Every variable keeps its type: among them the completion signal, which never loses
\* more than the reads given out can take, and the start signal, which is never taken
\* below zero by a packet that nobody waits for.
THEOREM CountingTypes == Spec => []TypeOK
<1>1. TypeInv /\ [Next]_vars => TypeInv'
  BY TypeStep
<1>2. TypeInv => TypeOK
  BY DEF TypeInv
<1>3. QED
  BY <1>1, <1>2, TypeInit, PTL DEF Spec

-----------------------------------------------------------------------------
\* Where the vector of a read that waits may be pointed to.
Sampling == {"readFire", "readSubmit", "readBarrier", "readWait"}

\* One sample at a time: while it is in progress its barrier, and before that its read
\* packet, are what the queue holds of samples; the handler runs when the signal says so.
SampleInv ==
  /\ completion \in {-1, 0, 1} /\ (completion # -1 => handler.at = "idle")
  /\ (completion = 0) <=> Has(queue, "barrier")
  /\ BarrierLast(queue)
  /\ Has(queue, "read") => completion = 0 \/ \E t \in Threads : at[t] = "readBarrier"
  /\ \A t \in Threads : at[t] \in {"readFire", "readSubmit", "readBarrier"} => completion = 1

\* What a sample for hardware counters holds is of the read that waits for it.
DataInv ==
  \A t \in Threads :
    /\ at[t] = "readFire" => packet = "constants"
    /\ at[t] \in {"readSubmit", "readBarrier"} => packet = "hardware"
    /\ at[t] = "readWait" => packet \in {"constants", "hardware"} /\ mode[t] # "async"
    /\ at[t] = "readWait" /\ completion # 1 => user = num[t]
    /\ at[t] \in {"readBarrier", "readWait"} /\ packet = "hardware" =>
         /\ ReadsOf(queue, num[t])
         /\ (at[t] = "readBarrier" \/ completion # 1) =>
              Has(queue, "read") \/ data = num[t]
         /\ handler.at # "idle" => handler.data = num[t]

\* cached_counters points to the vector of the read that waits for its sample, if to any
\* that was not left behind.
CachedInv ==
  /\ left \subseteq 1 .. reads
  /\ \A t \in Threads : at[t] \in ReadSection \ {"readEnd"} => reads \notin left
  /\ \/ cached \in {0} \cup left
     \/ cached = reads /\ \E t \in Threads : at[t] \in Sampling /\ mode[t] = "vector"
  /\ \A t \in Threads : at[t] \in Sampling /\ mode[t] = "vector" => cached = reads

\* The vector of a read is empty up to the record, and not empty after it.
Unrecorded(t) ==
  \/ at[t] \in Early
  \/ at[t] = "readWait" /\ completion # 1 /\ handler.at # "recorded"
Sampled(t) ==
  /\ mode[t] = "vector"
  /\ \/ at[t] = "readWait" /\ (completion = 1 \/ handler.at = "recorded")
     \/ at[t] = "readEnd" /\ packet # "none"
RecordInv ==
  /\ \A n \in Reads : n > reads => out[n] = << >>
  /\ \A t \in Threads : /\ Unrecorded(t) => out[reads] = << >>
                        /\ Sampled(t) => out[reads] # << >>

\* What a vector holds is the record of its read, unless it was left behind.
OwnInv ==
  \A n \in Reads \ left :
    /\ Len(out[n]) <= 1
    /\ \A i \in DOMAIN out[n] :
         /\ out[n][i].user = n
         /\ \/ out[n][i].data = n
            \/ packet = "constants" /\ n = reads /\ \E t \in Threads : at[t] = "readWait"

ReadInv == SampleInv /\ DataInv /\ CachedInv /\ RecordInv /\ OwnInv

\* Whoever is in the section is the only one who reads.
LEMMA OnlyReader ==
  ASSUME LockInv, NEW t \in Threads, at[t] \in Section
  PROVE  \A u \in Threads : u # t => at[u] \notin Section /\ at[u] \notin ReadSection
BY DEF LockInv, Locked, Section, ReadSection

\* A vector that is left alone holds what it held, unless a read of constants leaves it
\* behind.
LEMMA OwnKept ==
  ASSUME OwnInv, out' = out, left \subseteq left',
         packet = "constants" /\ (\E t \in Threads : at[t] = "readWait") =>
           \/ reads \in left'
           \/ packet' = "constants" /\ reads' = reads /\ \E t \in Threads : at'[t] = "readWait"
  PROVE  OwnInv'
<1> SUFFICES ASSUME NEW n \in Reads, n \notin left'
             PROVE  /\ Len(out[n]) <= 1
                    /\ \A i \in DOMAIN out[n] :
                         /\ out[n][i].user = n
                         /\ \/ out[n][i].data = n
                            \/ /\ packet' = "constants" /\ n = reads'
                               /\ \E t \in Threads : at'[t] = "readWait"
  BY DEF OwnInv
<1>1. n \in Reads \ left
  OBVIOUS
<1>2. Len(out[n]) <= 1
  BY <1>1 DEF OwnInv
<1>3. \A i \in DOMAIN out[n] :
        /\ out[n][i].user = n
        /\ \/ out[n][i].data = n
           \/ packet = "constants" /\ n = reads /\ \E t \in Threads : at[t] = "readWait"
  BY <1>1 DEF OwnInv
<1>4. packet = "constants" /\ n = reads /\ (\E t \in Threads : at[t] = "readWait") =>
        /\ packet' = "constants" /\ n = reads'
        /\ \E t \in Threads : at'[t] = "readWait"
  OBVIOUS
<1>5. QED
  BY <1>2, <1>3, <1>4

\* What the queue says of samples.
SameSamples ==
  /\ Has(queue', "read") <=> Has(queue, "read")
  /\ Has(queue', "barrier") <=> Has(queue, "barrier")
  /\ BarrierLast(queue) => BarrierLast(queue')
  /\ \A n : ReadsOf(queue, n) => ReadsOf(queue', n)

\* A packet that has nothing to do with samples is submitted, or none.
LEMMA OtherSubmitted ==
  ASSUME queue \in Seq(AnyPacket), NEW p \in AnyPacket, p.kind \notin {"read", "barrier"},
         queue' = queue \/ queue' = Append(queue, p)
  PROVE  SameSamples
<1>1. CASE queue' = queue
  BY <1>1 DEF SameSamples
<1>2. CASE queue' = Append(queue, p)
  <2>1. /\ Has(queue', "read") <=> Has(queue, "read")
        /\ Has(queue', "barrier") <=> Has(queue, "barrier")
    BY <1>2, Submitted
  <2>2. BarrierLast(queue) => BarrierLast(queue')
    BY <1>2, Submitted
  <2>3. \A n : ReadsOf(queue, n) => ReadsOf(queue', n)
    BY <1>2, Submitted
  <2>4. QED
    BY <2>1, <2>2, <2>3 DEF SameSamples
<1>3. QED
  BY <1>1, <1>2

\* Steps outside the reads, that neither submit, complete nor record a sample.
LEMMA NoSample ==
  ASSUME TypeInv, ReadInv, NEW t \in Threads, NEW p \in Places,
         at' = [at EXCEPT ![t] = p], p \notin ReadSection, at[t] \notin ReadSection,
         UNCHANGED <<completion, user, cached, handler, out, left, reads, num>>,
         \A u \in Threads : u # t => mode'[u] = mode[u],
         SameSamples, at[t] \in Section \/ UNCHANGED <<packet, data>>
  PROVE  ReadInv'
<1>1. \A u \in Threads : at'[u] = IF u = t THEN p ELSE at[u]
  BY DEF TypeInv, TypeOK
<1>2. \A u \in Threads : at'[u] \in ReadSection => u # t /\ at'[u] = at[u] /\ mode'[u] = mode[u]
  BY <1>1
<1>3. \A u \in Threads : at[u] \in ReadSection =>
        u # t /\ at'[u] = at[u] /\ UNCHANGED <<packet, data>>
  BY <1>1, OnlyReader DEF TypeInv
<1>4. SampleInv'
  <2>1. \A u \in Threads : at'[u] \in {"readFire", "readSubmit", "readBarrier"} => at'[u] = at[u]
    BY <1>2 DEF ReadSection
  <2>2. (\E u \in Threads : at[u] = "readBarrier") => \E u \in Threads : at'[u] = "readBarrier"
    BY <1>3 DEF ReadSection
  <2>3. QED
    BY <2>1, <2>2 DEF ReadInv, SampleInv, SameSamples
<1>5. DataInv'
  <2> SUFFICES ASSUME NEW u \in Threads, at'[u] \in ReadSection
               PROVE
    /\ at'[u] = "readFire" => packet' = "constants"
    /\ at'[u] \in {"readSubmit", "readBarrier"} => packet' = "hardware"
    /\ at'[u] = "readWait" => packet' \in {"constants", "hardware"} /\ mode'[u] # "async"
    /\ at'[u] = "readWait" /\ completion' # 1 => user' = num'[u]
    /\ at'[u] \in {"readBarrier", "readWait"} /\ packet' = "hardware" =>
         /\ ReadsOf(queue', num'[u])
         /\ (at'[u] = "readBarrier" \/ completion' # 1) =>
              Has(queue', "read") \/ data' = num'[u]
         /\ handler'.at # "idle" => handler'.data = num'[u]
    BY DEF DataInv, ReadSection
  <2>1. at'[u] = at[u] /\ mode'[u] = mode[u] /\ UNCHANGED <<packet, data>> /\ num'[u] = num[u]
    BY <1>2, <1>3
  <2>2. QED
    BY <2>1 DEF ReadInv, DataInv, SameSamples
<1>6. CachedInv'
  <2>1. \A u \in Threads : at'[u] \in ReadSection \ {"readEnd"} => at[u] \in ReadSection \ {"readEnd"}
    BY <1>2
  <2>2. \A u \in Threads : at'[u] \in Sampling <=> at[u] \in Sampling
    BY <1>1 DEF Sampling, ReadSection
  <2>3. \A u \in Threads : at[u] \in Sampling => mode'[u] = mode[u]
    BY <1>3 DEF Sampling, ReadSection
  <2>4. QED
    BY <2>1, <2>2, <2>3 DEF ReadInv, CachedInv
<1>7. RecordInv'
  <2>1. \A u \in Threads : Unrecorded(u)' => Unrecorded(u)
    BY <1>2 DEF Unrecorded, ReadSection, Early
  <2>2. \A u \in Threads : Sampled(u)' => Sampled(u)
    <3> SUFFICES ASSUME NEW u \in Threads, Sampled(u)' PROVE Sampled(u)
      OBVIOUS
    <3>1. at'[u] \in ReadSection
      BY DEF Sampled, ReadSection
    <3>2. at'[u] = at[u] /\ mode'[u] = mode[u] /\ packet' = packet
      BY <1>2, <1>3, <3>1
    <3>3. QED
      BY <3>2 DEF Sampled
  <2>3. QED
    BY <2>1, <2>2 DEF ReadInv, RecordInv
<1>8. OwnInv'
  <2>1. \A u \in Threads : at[u] = "readWait" => at'[u] = "readWait" /\ packet' = packet
    BY <1>3 DEF ReadSection
  <2>2. QED
    BY <2>1, OwnKept DEF ReadInv
<1>9. QED
  BY <1>4, <1>5, <1>6, <1>7, <1>8 DEF ReadInv

\* Starts and stops submit packets of their own kinds and leave the samples alone.
LEMMA NoSampleSteps ==
  ASSUME TypeInv, ReadInv, NEW t \in Threads, Control(t) \/ StartProfile(t) \/ StopSubmit(t)
  PROVE  ReadInv'
<1>0. queue \in Seq(AnyPacket)
  BY DEF TypeInv, LockInv
<1>1. CASE Control(t)
  <2>1. /\ UNCHANGED <<agentVars, deviceVars, sampleVars, reads, num>>
        /\ \E p \in Places : /\ at' = [at EXCEPT ![t] = p]
                             /\ p \notin ReadSection /\ at[t] \notin ReadSection
        /\ mode' = mode \/ mode' = [mode EXCEPT ![t] = "final"]
    BY <1>1, ControlMoves DEF TypeInv
  <2>2. \A u \in Threads : u # t => mode'[u] = mode[u]
    BY <2>1 DEF TypeInv, TypeOK
  <2>3. SameSamples
    BY <2>1 DEF SameSamples, deviceVars
  <2>4. QED
    BY <2>1, <2>2, <2>3, NoSample DEF agentVars, deviceVars, sampleVars
<1>2. CASE StartProfile(t)
  <2>1. /\ UNCHANGED <<mode, num, completion, user, cached, handler, out, left, reads>>
        /\ at[t] = "profile"
        /\ \E p \in {"startWait", "startEnd"} : at' = [at EXCEPT ![t] = p]
        /\ queue' \in {queue, Append(queue, [kind |-> "start", n |-> 0])}
    BY <1>2 DEF StartProfile, Goes, sampleVars, boundVars
  <2>2. PICK p \in {"startWait", "startEnd"} : at' = [at EXCEPT ![t] = p]
    BY <2>1
  <2>3. p \in Places /\ p \notin ReadSection /\ at[t] \notin ReadSection /\ at[t] \in Section
    BY <2>1, <2>2 DEF Places, ReadSection, Section
  <2>4. SameSamples
    <3> DEFINE s == [kind |-> "start", n |-> 0]
    <3>1. s \in AnyPacket /\ s.kind \notin {"read", "barrier"}
      BY DEF AnyPacket
    <3>2. queue' = queue \/ queue' = Append(queue, s)
      BY <2>1
    <3> HIDE DEF s
    <3>3. QED
      BY <1>0, <3>1, <3>2, OtherSubmitted
  <2>5. QED
    BY <2>1, <2>2, <2>3, <2>4, NoSample
<1>3. CASE StopSubmit(t)
  <2>1. /\ UNCHANGED <<mode, num, completion, user, cached, handler, out, left, reads>>
        /\ at[t] = "stopSubmit"
        /\ \E p \in {"stopWait", "stopEnd"} : at' = [at EXCEPT ![t] = p]
        /\ queue' \in {queue, Append(queue, [kind |-> "stop", n |-> 0])}
    BY <1>3 DEF StopSubmit, Goes, sampleVars, boundVars, agentVars
  <2>2. PICK p \in {"stopWait", "stopEnd"} : at' = [at EXCEPT ![t] = p]
    BY <2>1
  <2>3. p \in Places /\ p \notin ReadSection /\ at[t] \notin ReadSection /\ at[t] \in Section
    BY <2>1, <2>2 DEF Places, ReadSection, Section
  <2>4. SameSamples
    <3> DEFINE s == [kind |-> "stop", n |-> 0]
    <3>1. s \in AnyPacket /\ s.kind \notin {"read", "barrier"}
      BY DEF AnyPacket
    <3>2. queue' = queue \/ queue' = Append(queue, s)
      BY <2>1
    <3> HIDE DEF s
    <3>3. QED
      BY <1>0, <3>1, <3>2, OtherSubmitted
  <2>5. QED
    BY <2>1, <2>2, <2>3, <2>4, NoSample
<1>4. QED
  BY <1>1, <1>2, <1>3

\* A read takes a number that no vector has had.
LEMMA ReadLockReads ==
  ASSUME TypeInv, TypeInv', ReadInv, NEW t \in Threads, NEW m \in Modes, ReadLock(t, m)
  PROVE  ReadInv'
<1>1. /\ at[t] = "idle" /\ at' = [at EXCEPT ![t] = "read"] /\ status = "enabled"
      /\ reads' = reads + 1
      /\ UNCHANGED <<completion, user, cached, packet, data, queue, handler, out, left>>
  BY DEF ReadLock, Goes, agentVars, deviceVars, sampleVars
<1>2. \A u \in Threads : at'[u] = IF u = t THEN "read" ELSE at[u]
  BY <1>1 DEF TypeInv, TypeOK
<1>3. \A u \in Threads : at[u] \notin ReadSection
  BY <1>1 DEF TypeInv, LockInv, Locked, Section, ReadSection
<1>4. \A u \in Threads : at'[u] \in ReadSection => u = t /\ at'[u] = "read"
  BY <1>2, <1>3
<1>5. reads \in Nat /\ reads' \in Reads /\ reads' \notin left
  <2>1. reads \in Nat
    BY PastType DEF TypeInv
  <2>2. at'[t] \in ReadSection
    BY <1>2 DEF ReadSection
  <2>3. QED
    BY <1>1, <2>1, <2>2 DEF TypeInv, ReaderInv, ReadInv, CachedInv
<1>6. SampleInv'
  <2>1. \A u \in Threads : at'[u] \notin {"readFire", "readSubmit", "readBarrier"}
    BY <1>4 DEF ReadSection
  <2>2. Has(queue, "read") => completion = 0
    BY <1>3 DEF ReadInv, SampleInv, ReadSection
  <2>3. QED
    BY <1>1, <2>1, <2>2 DEF ReadInv, SampleInv
<1>7. DataInv'
  BY <1>4 DEF DataInv, ReadSection
<1>8. CachedInv'
  <2>1. left \subseteq 1 .. reads /\ cached \in {0} \cup left
    BY <1>3 DEF ReadInv, CachedInv, Sampling, ReadSection
  <2>2. left' \subseteq 1 .. reads' /\ cached' \in {0} \cup left'
    BY <1>1, <1>5, <2>1
  <2>3. \A u \in Threads : at'[u] \notin Sampling
    BY <1>4 DEF ReadSection, Sampling
  <2>4. QED
    BY <1>1, <1>5, <2>2, <2>3 DEF CachedInv
<1>9. RecordInv'
  <2>1. \A n \in Reads : n > reads' => n > reads
    BY <1>1, <1>5 DEF Reads
  <2>2. out[reads'] = << >>
    BY <1>1, <1>5 DEF ReadInv, RecordInv
  <2>3. \A u \in Threads : ~Sampled(u)'
    BY <1>4 DEF Sampled, ReadSection
  <2>4. QED
    BY <1>1, <2>1, <2>2, <2>3 DEF ReadInv, RecordInv
<1>10. OwnInv'
  BY <1>1, <1>3, OwnKept DEF ReadInv, ReadSection
<1>11. QED
  BY <1>6, <1>7, <1>8, <1>9, <1>10 DEF ReadInv

\* What a step of a read does to the other threads: nothing, and they do not read.
LEMMA ReaderMoves ==
  ASSUME TypeInv, NEW t \in Threads, NEW p, at[t] \in ReadSection, at' = [at EXCEPT ![t] = p]
  PROVE  /\ at'[t] = p /\ num[t] = reads /\ reads \in Reads
         /\ \A u \in Threads : u # t =>
              at'[u] = at[u] /\ at[u] \notin ReadSection /\ at'[u] \notin ReadSection
<1>1. \A u \in Threads : at'[u] = IF u = t THEN p ELSE at[u]
  BY DEF TypeInv, TypeOK
<1>2. at[t] \in Section
  BY DEF ReadSection, Section
<1>3. \A u \in Threads : u # t => at[u] \notin ReadSection
  BY <1>2, OnlyReader DEF TypeInv
<1>4. QED
  BY <1>1, <1>3 DEF TypeInv, ReaderInv

\* A sample begins, when none is in progress.
LEMMA ReadTurnReads ==
  ASSUME TypeInv, ReadInv, NEW t \in Threads, ReadTurn(t), ~doubled'
  PROVE  ReadInv'
<1>1. /\ at[t] = "read" /\ doubled' = (doubled \/ (packet # "none" /\ completion # 1))
      /\ UNCHANGED <<mode, num, packet, completion, data, user, queue, handler, out, left, reads>>
  BY DEF ReadTurn, Goes, deviceVars, boundVars
<1>2. cached' = IF packet = "none" \/ ~Waits(t) THEN cached
                ELSE IF mode[t] = "vector" THEN num[t] ELSE 0
  BY DEF ReadTurn
<1>3. PICK p \in {"readEnd", "readFire", "readSubmit"} :
        /\ at' = [at EXCEPT ![t] = p]
        /\ p = "readEnd" <=> packet = "none"
        /\ p = "readFire" <=> packet = "constants"
  <2>1. CASE packet = "none"
    BY <2>1 DEF ReadTurn, Goes
  <2>2. CASE packet = "constants"
    BY <2>2 DEF ReadTurn, Goes
  <2>3. CASE packet \notin {"none", "constants"}
    BY <2>3 DEF ReadTurn, Goes
  <2>4. QED
    BY <2>1, <2>2, <2>3
<1>4. at[t] \in ReadSection
  BY <1>1 DEF ReadSection
<1>5. /\ at'[t] = p /\ num[t] = reads /\ reads \in Reads
      /\ \A u \in Threads : u # t =>
           at'[u] = at[u] /\ at[u] \notin ReadSection /\ at'[u] \notin ReadSection
  BY <1>3, <1>4, ReaderMoves
<1>6. packet \in {"none", "constants", "hardware"}
  BY DEF TypeInv, TypeOK
<1>7. p # "readEnd" => completion = 1
  BY <1>1, <1>3
<1>8. cached \in {0} \cup left /\ reads \notin left /\ left \subseteq 1 .. reads
  <2>1. \A u \in Threads : at[u] \notin Sampling
    BY <1>1, <1>5 DEF Sampling, ReadSection
  <2>2. QED
    BY <1>1, <2>1 DEF ReadInv, CachedInv, ReadSection
<1>9. SampleInv'
  <2>1. \A u \in Threads : at[u] # "readBarrier" /\ at'[u] # "readBarrier"
    BY <1>1, <1>5 DEF ReadSection
  <2>2. \A u \in Threads : at'[u] \in {"readFire", "readSubmit"} => completion = 1
    BY <1>5, <1>7 DEF ReadSection
  <2>3. QED
    BY <1>1, <2>1, <2>2 DEF ReadInv, SampleInv
<1>10. DataInv'
  BY <1>3, <1>5, <1>6, <1>1 DEF DataInv, ReadSection
<1>11. CachedInv'
  <2>1. \A u \in Threads : at'[u] \in Sampling => u = t /\ p # "readEnd"
    BY <1>5 DEF Sampling, ReadSection
  <2>2. CASE packet = "none"
    <3>1. cached' = cached
      BY <1>2, <2>2
    <3>2. p = "readEnd"
      BY <1>3, <2>2
    <3>3. \A u \in Threads : at'[u] \notin Sampling
      BY <2>1, <3>2
    <3>4. QED
      BY <1>1, <1>8, <3>1, <3>3 DEF CachedInv
  <2>3. CASE packet # "none" /\ mode[t] = "vector"
    <3>1. cached' = reads /\ at'[t] \in Sampling
      BY <1>2, <1>3, <1>5, <2>3 DEF Waits, Sampling
    <3>2. QED
      BY <1>1, <1>8, <2>3, <3>1 DEF CachedInv
  <2>4. CASE packet # "none" /\ mode[t] # "vector"
    <3>1. cached' \in {cached, 0}
      BY <1>2, <2>4
    <3>2. \A u \in Threads : at'[u] \in Sampling => mode'[u] # "vector"
      BY <1>1, <2>1, <2>4
    <3>3. QED
      BY <1>1, <1>8, <3>1, <3>2 DEF CachedInv
  <2>5. QED
    BY <2>2, <2>3, <2>4
<1>12. RecordInv'
  <2>1. out[reads] = << >>
    BY <1>1 DEF ReadInv, RecordInv, Unrecorded, Early
  <2>2. \A u \in Threads : ~Sampled(u)'
    BY <1>1, <1>3, <1>5 DEF Sampled, ReadSection
  <2>3. QED
    BY <1>1, <2>1, <2>2 DEF ReadInv, RecordInv
<1>13. OwnInv'
  <2>1. \A u \in Threads : at[u] # "readWait"
    BY <1>1, <1>5 DEF ReadSection
  <2>2. QED
    BY <1>1, <2>1, OwnKept DEF ReadInv
<1>14. QED
  BY <1>9, <1>10, <1>11, <1>12, <1>13 DEF ReadInv

\* The sample of constants is complete at once.
LEMMA ReadFireReads ==
  ASSUME TypeInv, ReadInv, NEW t \in Threads, ReadFire(t)
  PROVE  ReadInv'
<1>1. /\ at[t] = "readFire" /\ user' = num[t] /\ completion' = -1
      /\ at' = [at EXCEPT ![t] = IF Waits(t) THEN "readWait" ELSE "readEnd"]
      /\ UNCHANGED <<mode, num, packet, data, cached, queue, handler, out, left, reads>>
  BY DEF ReadFire, Goes, deviceVars, sampleVars, boundVars
<1> DEFINE p == IF Waits(t) THEN "readWait" ELSE "readEnd"
<1>2. at[t] \in ReadSection
  BY <1>1 DEF ReadSection
<1>3. /\ at'[t] = p /\ num[t] = reads /\ reads \in Reads
      /\ \A u \in Threads : u # t =>
           at'[u] = at[u] /\ at[u] \notin ReadSection /\ at'[u] \notin ReadSection
  BY <1>1, <1>2, ReaderMoves
<1>4. /\ completion = 1 /\ handler.at = "idle" /\ packet = "constants"
      /\ ~Has(queue, "barrier") /\ ~Has(queue, "read")
  <2>1. completion = 1 /\ packet = "constants"
    BY <1>1 DEF ReadInv, SampleInv, DataInv
  <2>2. \A u \in Threads : at[u] # "readBarrier"
    BY <1>1, <1>3 DEF ReadSection
  <2>3. QED
    BY <2>1, <2>2 DEF ReadInv, SampleInv
<1>5. SampleInv'
  <2>1. \A u \in Threads : at'[u] \notin {"readFire", "readSubmit", "readBarrier"}
    BY <1>3 DEF ReadSection
  <2>2. QED
    BY <1>1, <1>4, <2>1 DEF ReadInv, SampleInv
<1>6. DataInv'
  BY <1>1, <1>3, <1>4 DEF DataInv, ReadSection, Waits
<1>7. CachedInv'
  <2>1. reads \notin left /\ (mode[t] = "vector" => cached = reads) /\ left \subseteq 1 .. reads
    BY <1>1 DEF ReadInv, CachedInv, ReadSection, Sampling
  <2>2. cached \in {0} \cup left \/ (cached = reads /\ mode[t] = "vector")
    BY <1>1, <1>3 DEF ReadInv, CachedInv, ReadSection, Sampling
  <2>3. /\ mode[t] = "vector" => at'[t] \in Sampling
        /\ \A u \in Threads : at'[u] \in Sampling => u = t
    BY <1>3 DEF Sampling, ReadSection, Waits
  <2>4. QED
    BY <1>1, <2>1, <2>2, <2>3 DEF CachedInv
<1>8. RecordInv'
  <2>1. out[reads] = << >>
    BY <1>1 DEF ReadInv, RecordInv, Unrecorded, Early
  <2>2. \A u \in Threads : ~Sampled(u)'
    BY <1>1, <1>3, <1>4 DEF Sampled, ReadSection, Waits
  <2>3. QED
    BY <1>1, <2>1, <2>2 DEF ReadInv, RecordInv
<1>9. OwnInv'
  <2>1. \A u \in Threads : at[u] # "readWait"
    BY <1>1, <1>3 DEF ReadSection
  <2>2. QED
    BY <1>1, <2>1, OwnKept DEF ReadInv
<1>10. QED
  BY <1>5, <1>6, <1>7, <1>8, <1>9 DEF ReadInv

\* The packet that reads the counters is the only one of a sample.
LEMMA ReadSubmitReads ==
  ASSUME TypeInv, ReadInv, NEW t \in Threads, ReadSubmit(t)
  PROVE  ReadInv'
<1> DEFINE s == [kind |-> "read", n |-> num[t]]
<1>1. /\ at[t] = "readSubmit" /\ at' = [at EXCEPT ![t] = "readBarrier"]
      /\ queue' = Append(queue, s)
      /\ UNCHANGED <<mode, num, packet, completion, data, user, cached, handler, out, left, reads>>
  BY DEF ReadSubmit, Goes, agentVars, sampleVars, boundVars
<1>2. at[t] \in ReadSection
  BY <1>1 DEF ReadSection
<1>3. /\ at'[t] = "readBarrier" /\ num[t] = reads /\ reads \in Reads
      /\ \A u \in Threads : u # t =>
           at'[u] = at[u] /\ at[u] \notin ReadSection /\ at'[u] \notin ReadSection
  BY <1>1, <1>2, ReaderMoves
<1>4. /\ completion = 1 /\ handler.at = "idle" /\ packet = "hardware"
      /\ ~Has(queue, "barrier") /\ ~Has(queue, "read")
  <2>1. completion = 1 /\ packet = "hardware"
    BY <1>1 DEF ReadInv, SampleInv, DataInv
  <2>2. \A u \in Threads : at[u] # "readBarrier"
    BY <1>1, <1>3 DEF ReadSection
  <2>3. QED
    BY <2>1, <2>2 DEF ReadInv, SampleInv
<1>5. s \in AnyPacket /\ s.kind = "read" /\ s.n = num[t] /\ queue \in Seq(AnyPacket)
  BY DEF AnyPacket, TypeInv, LockInv
<1> HIDE DEF s
<1>6. /\ Has(queue', "read") /\ ~Has(queue', "barrier")
      /\ BarrierLast(queue) => BarrierLast(queue')
  BY <1>1, <1>4, <1>5, Submitted
<1>7. ReadsOf(queue', num[t])
  <2>1. ReadsOf(queue, num[t])
    BY <1>4 DEF ReadsOf, Has
  <2>2. QED
    BY <1>1, <1>5, <2>1, Submitted
<1>8. SampleInv'
  BY <1>1, <1>3, <1>4, <1>6 DEF ReadInv, SampleInv, ReadSection
<1>9. DataInv'
  BY <1>1, <1>3, <1>4, <1>6, <1>7 DEF DataInv, ReadSection
<1>10. CachedInv'
  <2>1. \A u \in Threads : /\ at'[u] \in Sampling <=> at[u] \in Sampling
                           /\ at'[u] \in ReadSection \ {"readEnd"} => at[u] \in ReadSection \ {"readEnd"}
    BY <1>1, <1>3 DEF Sampling, ReadSection
  <2>2. QED
    BY <1>1, <2>1 DEF ReadInv, CachedInv
<1>11. RecordInv'
  <2>1. out[reads] = << >>
    BY <1>1 DEF ReadInv, RecordInv, Unrecorded, Early
  <2>2. \A u \in Threads : ~Sampled(u)'
    BY <1>3 DEF Sampled, ReadSection
  <2>3. QED
    BY <1>1, <2>1, <2>2 DEF ReadInv, RecordInv
<1>12. OwnInv'
  <2>1. \A u \in Threads : at[u] # "readWait"
    BY <1>1, <1>3 DEF ReadSection
  <2>2. QED
    BY <1>1, <2>1, OwnKept DEF ReadInv
<1>13. QED
  BY <1>8, <1>9, <1>10, <1>11, <1>12 DEF ReadInv

\* The barrier packet comes behind it: the sample is in progress.
LEMMA ReadBarrierReads ==
  ASSUME TypeInv, ReadInv, NEW t \in Threads, ReadBarrier(t)
  PROVE  ReadInv'
<1> DEFINE s == [kind |-> "barrier", n |-> num[t]]
           p == IF Waits(t) THEN "readWait" ELSE "readEnd"
<1>1. /\ at[t] = "readBarrier" /\ at' = [at EXCEPT ![t] = p]
      /\ queue' = Append(queue, s) /\ completion' = 0 /\ user' = num[t]
      /\ UNCHANGED <<mode, num, packet, data, cached, handler, out, left, reads>>
  BY DEF ReadBarrier, Goes, sampleVars, boundVars
<1>2. at[t] \in ReadSection
  BY <1>1 DEF ReadSection
<1>3. /\ at'[t] = p /\ num[t] = reads /\ reads \in Reads
      /\ \A u \in Threads : u # t =>
           at'[u] = at[u] /\ at[u] \notin ReadSection /\ at'[u] \notin ReadSection
  BY <1>1, <1>2, ReaderMoves
<1>4. /\ completion = 1 /\ handler.at = "idle" /\ packet = "hardware"
      /\ ~Has(queue, "barrier") /\ ReadsOf(queue, num[t])
      /\ Has(queue, "read") \/ data = num[t]
  BY <1>1 DEF ReadInv, SampleInv, DataInv
<1>5. s \in AnyPacket /\ s.kind = "barrier" /\ queue \in Seq(AnyPacket)
  BY <1>3, CountingAssumption DEF AnyPacket, TypeInv, LockInv, Reads
<1> HIDE DEF s
<1>6. /\ Has(queue', "barrier") /\ (Has(queue', "read") <=> Has(queue, "read"))
      /\ BarrierLast(queue) => BarrierLast(queue')
      /\ ReadsOf(queue', num[t])
  <2>1. Has(queue', "barrier") /\ (Has(queue', "read") <=> Has(queue, "read"))
    BY <1>1, <1>5, Submitted
  <2>2. BarrierLast(queue) => BarrierLast(queue')
    BY <1>1, <1>4, <1>5, Submitted
  <2>3. ReadsOf(queue', num[t])
    BY <1>1, <1>4, <1>5, Submitted
  <2>4. QED
    BY <2>1, <2>2, <2>3
<1>7. SampleInv'
  <2>1. \A u \in Threads : at'[u] \notin {"readFire", "readSubmit", "readBarrier"}
    BY <1>3 DEF ReadSection
  <2>2. QED
    BY <1>1, <1>4, <1>6, <2>1 DEF ReadInv, SampleInv
<1>8. DataInv'
  BY <1>1, <1>3, <1>4, <1>6 DEF DataInv, ReadSection, Waits
<1>9. CachedInv'
  <2>1. reads \notin left /\ (mode[t] = "vector" => cached = reads) /\ left \subseteq 1 .. reads
    BY <1>1 DEF ReadInv, CachedInv, ReadSection, Sampling
  <2>2. cached \in {0} \cup left \/ (cached = reads /\ mode[t] = "vector")
    BY <1>1, <1>3 DEF ReadInv, CachedInv, ReadSection, Sampling
  <2>3. /\ mode[t] = "vector" => at'[t] \in Sampling
        /\ \A u \in Threads : at'[u] \in Sampling => u = t
    BY <1>3 DEF Sampling, ReadSection, Waits
  <2>4. QED
    BY <1>1, <2>1, <2>2, <2>3 DEF CachedInv
<1>10. RecordInv'
  <2>1. out[reads] = << >>
    BY <1>1 DEF ReadInv, RecordInv, Unrecorded, Early
  <2>2. \A u \in Threads : ~Sampled(u)'
    BY <1>1, <1>3, <1>4 DEF Sampled, ReadSection, Waits
  <2>3. QED
    BY <1>1, <2>1, <2>2 DEF ReadInv, RecordInv
<1>11. OwnInv'
  <2>1. \A u \in Threads : at[u] # "readWait"
    BY <1>1, <1>3 DEF ReadSection
  <2>2. QED
    BY <1>1, <2>1, OwnKept DEF ReadInv
<1>12. QED
  BY <1>7, <1>8, <1>9, <1>10, <1>11 DEF ReadInv

\* A read that has its sample: a vector of hardware counters is let go of, one of
\* constants is left behind.
LEMMA ReadWaitReads ==
  ASSUME TypeInv, ReadInv, NEW t \in Threads, ReadWait(t)
  PROVE  ReadInv'
<1>1. /\ at[t] = "readWait" /\ at' = [at EXCEPT ![t] = "readEnd"] /\ completion = 1
      /\ cached' = (IF packet = "hardware" THEN 0 ELSE cached)
      /\ left' = (IF packet = "constants" THEN left \cup {num[t]} ELSE left)
      /\ UNCHANGED <<mode, num, packet, completion, data, user, queue, handler, out, reads>>
  BY DEF ReadWait, Goes, deviceVars, boundVars
<1>2. at[t] \in ReadSection
  BY <1>1 DEF ReadSection
<1>3. /\ at'[t] = "readEnd" /\ num[t] = reads /\ reads \in Reads
      /\ \A u \in Threads : u # t =>
           at'[u] = at[u] /\ at[u] \notin ReadSection /\ at'[u] \notin ReadSection
  BY <1>1, <1>2, ReaderMoves
<1>4. \A u \in Threads : at'[u] \in ReadSection => at'[u] = "readEnd"
  BY <1>3
<1>5. packet \in {"constants", "hardware"}
  BY <1>1 DEF ReadInv, DataInv
<1>6. SampleInv'
  <2>1. \A u \in Threads : /\ at'[u] \notin {"readFire", "readSubmit", "readBarrier"}
                           /\ at[u] # "readBarrier"
    BY <1>1, <1>3 DEF ReadSection
  <2>2. QED
    BY <1>1, <2>1 DEF ReadInv, SampleInv
<1>7. DataInv'
  BY <1>4 DEF DataInv, ReadSection
<1>8. CachedInv'
  <2>1. left \subseteq 1 .. reads /\ (cached \in {0} \cup left \/ cached = reads)
    BY DEF ReadInv, CachedInv
  <2>2. left' \subseteq 1 .. reads
    BY <1>1, <1>3, <2>1 DEF Reads
  <2>3. cached' \in {0} \cup left'
    <3>1. CASE packet = "hardware"
      BY <1>1, <3>1
    <3>2. CASE packet = "constants"
      BY <1>1, <1>3, <2>1, <3>2
    <3>3. QED
      BY <1>5, <3>1, <3>2
  <2>4. \A u \in Threads : at'[u] \notin Sampling /\ at'[u] \notin ReadSection \ {"readEnd"}
    BY <1>4 DEF Sampling, ReadSection
  <2>5. QED
    BY <1>1, <2>2, <2>3, <2>4 DEF CachedInv
<1>9. RecordInv'
  <2>1. \A u \in Threads : ~Unrecorded(u)'
    BY <1>4 DEF Unrecorded, Early, ReadSection
  <2>2. \A u \in Threads : Sampled(u)' => u = t /\ Sampled(t)
    BY <1>1, <1>3 DEF Sampled, ReadSection
  <2>3. QED
    BY <1>1, <2>1, <2>2 DEF ReadInv, RecordInv
<1>10. OwnInv'
  BY <1>1, <1>3, OwnKept DEF ReadInv
<1>11. QED
  BY <1>6, <1>7, <1>8, <1>9, <1>10 DEF ReadInv

\* A read ends: nobody waits for a sample.
LEMMA ReadEndReads ==
  ASSUME TypeInv, ReadInv, NEW t \in Threads, ReadEnd(t)
  PROVE  ReadInv'
<1>1. /\ at[t] = "readEnd" /\ at' = [at EXCEPT ![t] = "idle"]
      /\ UNCHANGED <<packet, completion, data, user, cached, queue, handler, out, left, reads>>
  BY DEF ReadEnd, Goes, agentVars, deviceVars, sampleVars, boundVars
<1>2. at[t] \in ReadSection
  BY <1>1 DEF ReadSection
<1>3. /\ at'[t] = "idle"
      /\ \A u \in Threads : u # t =>
           at'[u] = at[u] /\ at[u] \notin ReadSection /\ at'[u] \notin ReadSection
  BY <1>1, <1>2, ReaderMoves
<1>4. \A u \in Threads : at'[u] \notin ReadSection
  BY <1>3 DEF ReadSection
<1>5. SampleInv'
  <2>1. \A u \in Threads : /\ at'[u] \notin {"readFire", "readSubmit", "readBarrier"}
                           /\ at[u] # "readBarrier"
    BY <1>1, <1>3 DEF ReadSection
  <2>2. QED
    BY <1>1, <2>1 DEF ReadInv, SampleInv
<1>6. DataInv'
  BY <1>4 DEF DataInv, ReadSection
<1>7. CachedInv'
  <2>1. \A u \in Threads : at[u] \notin Sampling /\ at'[u] \notin Sampling
    BY <1>1, <1>3 DEF Sampling, ReadSection
  <2>2. QED
    BY <1>1, <1>4, <2>1 DEF ReadInv, CachedInv
<1>8. RecordInv'
  BY <1>1, <1>4 DEF ReadInv, RecordInv, Unrecorded, Sampled, Early, ReadSection
<1>9. OwnInv'
  <2>1. \A u \in Threads : at[u] # "readWait"
    BY <1>1, <1>3 DEF ReadSection
  <2>2. QED
    BY <1>1, <2>1, OwnKept DEF ReadInv
<1>10. QED
  BY <1>5, <1>6, <1>7, <1>8, <1>9 DEF ReadInv

\* The device takes a packet: a read brings the data of its sample, the barrier
\* completes it.
LEMMA ProcessReads ==
  ASSUME TypeInv, ReadInv, Process
  PROVE  ReadInv'
<1> DEFINE h == Head(queue)
<1>1. /\ queue # << >> /\ queue' = Tail(queue) /\ queue \in Seq(AnyPacket)
      /\ data' = (IF h.kind = "read" THEN h.n ELSE data)
      /\ completion' = (IF h.kind = "barrier" THEN completion - 1 ELSE completion)
      /\ UNCHANGED <<at, mode, num, packet, user, cached, handler, out, left, reads>>
  BY DEF Process, sampleVars, boundVars, TypeInv, LockInv
<1> HIDE DEF h
<1>2. /\ Has(queue, "barrier") <=> Has(queue', "barrier") \/ h.kind = "barrier"
      /\ Has(queue, "read") <=> Has(queue', "read") \/ h.kind = "read"
      /\ BarrierLast(queue')
      /\ h.kind = "barrier" => ~Has(queue', "read") /\ ~Has(queue', "barrier")
  <2>1. BarrierLast(queue)
    BY DEF ReadInv, SampleInv
  <2>2. QED
    BY <1>1, <2>1, Processed DEF h
<1>3. \A n : ReadsOf(queue, n) => ReadsOf(queue', n) /\ (h.kind = "read" => h.n = n)
  BY <1>1, Processed DEF h
<1>4. h.kind = "barrier" => completion = 0 /\ completion' = -1
  BY <1>1, <1>2 DEF ReadInv, SampleInv
<1>5. SampleInv'
  <2>1. CASE h.kind = "barrier"
    BY <1>1, <1>2, <1>4, <2>1 DEF ReadInv, SampleInv
  <2>2. CASE h.kind # "barrier"
    BY <1>1, <1>2, <2>2 DEF ReadInv, SampleInv
  <2>3. QED
    BY <2>1, <2>2
<1>6. (completion' # 1) <=> (completion # 1)
  BY <1>1, <1>4
<1>7. DataInv'
  <2> SUFFICES ASSUME NEW t \in Threads, at[t] \in {"readBarrier", "readWait"},
                      packet = "hardware"
               PROVE  /\ ReadsOf(queue', num[t])
                      /\ (at[t] = "readBarrier" \/ completion' # 1) =>
                           Has(queue', "read") \/ data' = num[t]
                      /\ handler.at # "idle" => handler.data = num[t]
    BY <1>1, <1>6 DEF ReadInv, DataInv
  <2>1. /\ ReadsOf(queue, num[t])
        /\ (at[t] = "readBarrier" \/ completion # 1) => Has(queue, "read") \/ data = num[t]
        /\ handler.at # "idle" => handler.data = num[t]
    BY DEF ReadInv, DataInv
  <2>2. ReadsOf(queue', num[t]) /\ (h.kind = "read" => data' = num[t])
    BY <1>1, <1>3, <2>1
  <2>3. h.kind # "read" => data' = data /\ (Has(queue, "read") <=> Has(queue', "read"))
    BY <1>1, <1>2
  <2>4. QED
    BY <1>6, <2>1, <2>2, <2>3
<1>8. CachedInv'
  BY <1>1 DEF ReadInv, CachedInv
<1>9. RecordInv'
  BY <1>1, <1>6 DEF ReadInv, RecordInv, Unrecorded, Sampled
<1>10. OwnInv'
  BY <1>1, OwnKept DEF ReadInv
<1>11. QED
  BY <1>5, <1>7, <1>8, <1>9, <1>10 DEF ReadInv

\* The handler takes the values of the sample that the signal reports.
LEMMA DecodeReads ==
  ASSUME TypeInv, ReadInv, HandlerDecode
  PROVE  ReadInv'
<1>1. /\ handler.at = "idle" /\ completion < 0 /\ handler' = [at |-> "decoded", data |-> data]
      /\ UNCHANGED <<at, mode, num, packet, completion, data, user, cached, queue, out, left, reads>>
  BY DEF HandlerDecode, agentVars, sampleVars, boundVars
<1>2. completion = -1
  BY <1>1 DEF ReadInv, SampleInv
<1>3. ~Has(queue, "read") /\ \A t \in Threads : at[t] \notin {"readFire", "readSubmit", "readBarrier"}
  BY <1>2 DEF ReadInv, SampleInv
<1>4. SampleInv'
  BY <1>1, <1>2 DEF ReadInv, SampleInv
<1>5. DataInv'
  BY <1>1, <1>2, <1>3 DEF ReadInv, DataInv
<1>6. CachedInv'
  BY <1>1 DEF ReadInv, CachedInv
<1>7. RecordInv'
  BY <1>1, <1>2 DEF ReadInv, RecordInv, Unrecorded, Sampled
<1>8. OwnInv'
  BY <1>1, OwnKept DEF ReadInv
<1>9. QED
  BY <1>4, <1>5, <1>6, <1>7, <1>8 DEF ReadInv

\* The record goes to the vector of the read that waits, or to one left behind.
LEMMA RecordReads ==
  ASSUME TypeInv, ReadInv, HandlerRecord
  PROVE  ReadInv'
<1> DEFINE r == [data |-> handler.data, user |-> user]
<1>1. /\ handler.at = "decoded" /\ handler' = [handler EXCEPT !.at = "recorded"]
      /\ out' = IF cached = 0 THEN out ELSE [out EXCEPT ![cached] = Append(@, r)]
      /\ UNCHANGED <<at, mode, num, packet, completion, data, user, cached, queue, left, reads>>
  BY DEF HandlerRecord, agentVars, sampleVars, boundVars
<1>2. /\ handler'.at = "recorded" /\ handler'.data = handler.data
  BY <1>1 DEF TypeInv, TypeOK
<1>3. completion = -1 /\ \A t \in Threads : at[t] \notin {"readFire", "readSubmit", "readBarrier"}
  BY <1>1 DEF ReadInv, SampleInv
<1>4. out \in [Reads -> Seq(Record)] /\ cached \in 0 .. MaxReads /\ reads \in Nat
      /\ reads <= MaxReads /\ MaxReads \in Nat
  BY PastType DEF TypeInv, TypeOK
<1>5. /\ \A n \in Reads : n # cached => out'[n] = out[n]
      /\ cached # 0 => cached \in Reads /\ out'[cached] = Append(out[cached], r)
  BY <1>1, <1>4 DEF Reads
<1>6. r.user = user /\ r.data = handler.data
  OBVIOUS
<1> HIDE DEF r
<1>7. left \subseteq 1 .. reads /\ \A t \in Threads : at[t] \in Early \cup {"readWait"} => reads \notin left
  BY DEF ReadInv, CachedInv, Early, ReadSection
<1>8. \/ cached \in {0} \cup left
      \/ cached = reads /\ \E t \in Threads : at[t] = "readWait" /\ mode[t] = "vector"
  BY <1>3 DEF ReadInv, CachedInv, Sampling
<1>9. SampleInv'
  BY <1>1, <1>2, <1>3 DEF ReadInv, SampleInv
<1>10. DataInv'
  BY <1>1, <1>2 DEF ReadInv, DataInv
<1>11. CachedInv'
  BY <1>1 DEF ReadInv, CachedInv
<1>12. RecordInv'
  <2>1. ASSUME NEW n \in Reads, n > reads PROVE out'[n] = << >>
    <3>1. n # cached
      BY <1>4, <1>7, <1>8, <2>1 DEF Reads
    <3>2. QED
      BY <1>5, <2>1, <3>1 DEF ReadInv, RecordInv
  <2>2. ASSUME NEW t \in Threads, Unrecorded(t)' PROVE out'[reads] = << >>
    <3>1. at[t] \in Early /\ at[t] = "read"
      BY <1>1, <1>2, <1>3, <2>2 DEF Unrecorded, Early
    <3>2. out[reads] = << >>
      BY <3>1 DEF ReadInv, RecordInv, Unrecorded
    <3>3. at[t] \in Section /\ at[t] \in ReadSection
      BY <3>1 DEF Section, ReadSection
    <3>4. \A u \in Threads : at[u] # "readWait"
      BY <3>1, <3>3, OnlyReader DEF TypeInv, ReadSection
    <3>5. reads \in Reads /\ reads # 0
      BY <3>3 DEF TypeInv, ReaderInv, Reads
    <3>6. reads # cached
      BY <1>7, <1>8, <3>1, <3>4, <3>5
    <3>7. QED
      BY <1>5, <3>2, <3>5, <3>6
  <2>3. ASSUME NEW t \in Threads, Sampled(t)' PROVE out'[reads] # << >>
    <3>1. at[t] \in {"readWait", "readEnd"} /\ mode[t] = "vector"
      BY <1>1, <2>3 DEF Sampled
    <3>2. reads \in Reads
      BY <3>1 DEF TypeInv, ReaderInv, ReadSection
    <3>3. out[reads] \in Seq(Record) /\ Append(out[reads], r) # << >>
      BY <1>4, <3>2
    <3>4. CASE at[t] = "readWait"
      <4>1. cached = reads
        BY <3>1, <3>4 DEF ReadInv, CachedInv, Sampling
      <4>2. reads # 0
        BY <3>2 DEF Reads
      <4>3. QED
        BY <1>5, <3>3, <4>1, <4>2
    <3>5. CASE at[t] = "readEnd"
      <4>1. out[reads] # << >>
        BY <1>1, <2>3, <3>5 DEF Sampled, ReadInv, RecordInv
      <4>2. out'[reads] = out[reads] \/ out'[reads] = Append(out[reads], r)
        BY <1>5, <3>2 DEF Reads
      <4>3. QED
        BY <3>3, <4>1, <4>2
    <3>6. QED
      BY <3>1, <3>4, <3>5
  <2>4. QED
    BY <1>1, <2>1, <2>2, <2>3 DEF RecordInv
<1>13. OwnInv'
  <2> SUFFICES ASSUME NEW n \in Reads \ left
               PROVE  /\ Len(out'[n]) <= 1
                      /\ \A i \in DOMAIN out'[n] :
                           /\ out'[n][i].user = n
                           /\ \/ out'[n][i].data = n
                              \/ /\ packet = "constants" /\ n = reads
                                 /\ \E t \in Threads : at[t] = "readWait"
    BY <1>1 DEF OwnInv
  <2>1. CASE n # cached
    BY <1>5, <2>1 DEF ReadInv, OwnInv
  <2>2. CASE n = cached
    <3>1. cached = reads /\ \E t \in Threads : at[t] = "readWait" /\ mode[t] = "vector"
      BY <1>8, <2>2 DEF Reads
    <3>2. PICK t \in Threads : at[t] = "readWait" /\ mode[t] = "vector"
      BY <3>1
    <3>3. out[n] = << >>
      BY <1>1, <1>3, <2>2, <3>1, <3>2 DEF ReadInv, RecordInv, Unrecorded
    <3>4. out'[n] = Append(<< >>, r)
      BY <1>5, <2>2, <3>3 DEF Reads
    <3>5. Len(out'[n]) = 1 /\ DOMAIN out'[n] = {1} /\ out'[n][1] = r
      BY <3>4
    <3>6. num[t] = reads
      BY <3>2 DEF TypeInv, ReaderInv, ReadSection
    <3>7. user = n
      BY <1>3, <2>2, <3>1, <3>2, <3>6 DEF ReadInv, DataInv
    <3>8. packet = "constants" \/ handler.data = n
      BY <1>1, <2>2, <3>1, <3>2, <3>6 DEF ReadInv, DataInv
    <3>9. n = reads /\ r.user = n
      BY <1>6, <2>2, <3>1, <3>7
    <3>10. \/ r.data = n
           \/ packet = "constants" /\ \E u \in Threads : at[u] = "readWait"
      BY <1>6, <3>2, <3>8
    <3>11. Len(out'[n]) <= 1 /\ \A i \in DOMAIN out'[n] : out'[n][i] = r
      BY <3>5
    <3>12. QED
      BY <3>9, <3>10, <3>11
  <2>3. QED
    BY <2>1, <2>2
<1>14. QED
  BY <1>9, <1>10, <1>11, <1>12, <1>13 DEF ReadInv

\* The next sample may begin: nothing of this one is queued.
LEMMA EndReads ==
  ASSUME TypeInv, ReadInv, HandlerEnd
  PROVE  ReadInv'
<1>1. /\ handler.at = "recorded" /\ handler' = [at |-> "idle", data |-> 0] /\ completion' = 1
      /\ UNCHANGED <<at, mode, num, packet, data, user, cached, queue, out, left, reads>>
  BY DEF HandlerEnd, sampleVars, boundVars
<1>2. completion = -1 /\ ~Has(queue, "read") /\ ~Has(queue, "barrier")
      /\ \A t \in Threads : at[t] \notin {"readFire", "readSubmit", "readBarrier"}
  BY <1>1 DEF ReadInv, SampleInv
<1>3. SampleInv'
  BY <1>1, <1>2 DEF ReadInv, SampleInv
<1>4. DataInv'
  BY <1>1, <1>2 DEF ReadInv, DataInv
<1>5. CachedInv'
  BY <1>1 DEF ReadInv, CachedInv
<1>6. RecordInv'
  BY <1>1, <1>2 DEF ReadInv, RecordInv, Unrecorded, Sampled
<1>7. OwnInv'
  BY <1>1, OwnKept DEF ReadInv
<1>8. QED
  BY <1>3, <1>4, <1>5, <1>6, <1>7 DEF ReadInv

\* Once a sample began during another one, that stays so.
LEMMA DoubledStays ==
  ASSUME [Next]_vars, TypeInv
  PROVE  doubled => doubled'
<1>1. CASE UNCHANGED vars
  BY <1>1 DEF vars, sampleVars
<1>2. ASSUME NEW t \in Threads, Control(t)
      PROVE  doubled' = doubled
  BY <1>2, ControlMoves DEF TypeInv, sampleVars
<1>3. ASSUME NEW t \in Threads,
             \/ StartProfile(t) \/ StopSubmit(t) \/ \E m \in Modes : ReadLock(t, m)
             \/ ReadFire(t) \/ ReadSubmit(t) \/ ReadBarrier(t) \/ ReadWait(t) \/ ReadEnd(t)
      PROVE  doubled' = doubled
  BY <1>3, Zenon DEF StartProfile, StopSubmit, ReadLock, ReadFire, ReadSubmit, ReadBarrier,
     ReadWait, ReadEnd, sampleVars
<1>4. ASSUME NEW t \in Threads, ReadTurn(t)
      PROVE  doubled => doubled'
  BY <1>4 DEF ReadTurn
<1>5. CASE Process \/ Handler
  BY <1>5, Zenon DEF Process, Handler, HandlerDecode, HandlerRecord, HandlerEnd, sampleVars
<1>6. QED
  BY <1>1, <1>2, <1>3, <1>4, <1>5 DEF Next, Continues, Control

\* Every step that excuses nothing keeps what is known of the samples,
LEMMA ReadStep ==
  ASSUME TypeInv, TypeInv', ReadInv, ~doubled', [Next]_vars
  PROVE  ReadInv'
<1>1. CASE UNCHANGED vars
  <2>1. UNCHANGED <<at, mode, num, packet, completion, data, user, cached, queue, handler, out,
                    left, reads>>
    BY <1>1 DEF vars, agentVars, deviceVars, sampleVars, boundVars
  <2>2. SampleInv' /\ DataInv' /\ CachedInv'
    BY <2>1 DEF ReadInv, SampleInv, DataInv, CachedInv
  <2>3. RecordInv' /\ OwnInv'
    BY <2>1 DEF ReadInv, RecordInv, OwnInv, Unrecorded, Sampled
  <2>4. QED
    BY <2>2, <2>3 DEF ReadInv
<1>2. ASSUME NEW t \in Threads,
             \/ StartBegin(t) \/ StopBegin(t) \/ Register(t) \/ FinalizeBegin(t) \/ Continues(t)
             \/ \E m \in Modes : ReadLock(t, m)
      PROVE  ReadInv'
  <2>1. CASE Control(t) \/ StartProfile(t) \/ StopSubmit(t)
    BY <2>1, NoSampleSteps
  <2>2. CASE ReadTurn(t) \/ ReadFire(t) \/ ReadSubmit(t) \/ ReadBarrier(t)
    BY <2>2, ReadTurnReads, ReadFireReads, ReadSubmitReads, ReadBarrierReads
  <2>3. CASE ReadWait(t) \/ ReadEnd(t) \/ \E m \in Modes : ReadLock(t, m)
    BY <2>3, ReadWaitReads, ReadEndReads, ReadLockReads
  <2>4. QED
    BY <1>2, <2>1, <2>2, <2>3 DEF Continues, Control
<1>3. CASE Process \/ Handler
  BY <1>3, ProcessReads, DecodeReads, RecordReads, EndReads DEF Handler
<1>4. QED
  BY <1>1, <1>2, <1>3 DEF Next

\* and it holds at the start.
LEMMA ReadInit == Init => ReadInv
<1> SUFFICES ASSUME Init
             PROVE  ReadInv
  OBVIOUS
<1>1. \A t \in Threads : at[t] = "idle"
  BY DEF Init
<1>2. ~Has(queue, "read") /\ ~Has(queue, "barrier") /\ BarrierLast(queue)
  BY DEF Init, Has, BarrierLast
<1>3. \A n \in Reads : out[n] = << >>
  BY DEF Init
<1>4. SampleInv /\ DataInv
  BY <1>1, <1>2 DEF Init, SampleInv, DataInv
<1>5. CachedInv
  BY <1>1 DEF Init, CachedInv, ReadSection, Sampling
<1>6. RecordInv /\ OwnInv
  BY <1>1, <1>3 DEF RecordInv, OwnInv, Unrecorded, Sampled, Early
<1>7. QED
  BY <1>4, <1>5, <1>6 DEF ReadInv

\* A read that waited for its sample returns its own record in its own vector and
\* nobody else's, and no later sample is written into the vector of a read that
\* returned; unless an ASYNC read began during another sample, or the read was for
\* constants only (cached_counters in read_agent_ctx and agent_async_handler).
THEOREM ReadersGetTheirSamples == Spec => []SamplesReachReaders
<1> DEFINE IInv == TypeInv /\ (~doubled => ReadInv)
<1>1. Init => IInv
  BY TypeInit, ReadInit
<1>2. IInv /\ [Next]_vars => IInv'
  <2> SUFFICES ASSUME IInv, [Next]_vars
               PROVE  IInv'
    OBVIOUS
  <2>1. TypeInv'
    BY TypeStep
  <2>2. ASSUME ~doubled' PROVE ReadInv'
    BY <2>1, <2>2, DoubledStays, ReadStep
  <2>3. QED
    BY <2>1, <2>2
<1>3. IInv => SamplesReachReaders
  <2> SUFFICES ASSUME TypeInv, ReadInv
               PROVE  SamplesReachReaders
    BY DEF SamplesReachReaders
  <2>1. ASSUME NEW t \in Threads, at[t] = "readEnd", mode[t] = "vector", packet # "none"
        PROVE  out[num[t]] # << >>
    <3>1. num[t] = reads
      BY <2>1 DEF TypeInv, ReaderInv, ReadSection
    <3>2. QED
      BY <2>1, <3>1 DEF ReadInv, RecordInv, Sampled
  <2>2. ASSUME NEW n \in Reads \ left
        PROVE  /\ Len(out[n]) <= 1
               /\ \A i \in DOMAIN out[n] :
                    out[n][i].user = n /\ (packet = "hardware" => out[n][i].data \in {0, n})
    BY DEF ReadInv, OwnInv
  <2>3. QED
    BY <2>1, <2>2 DEF SamplesReachReaders
<1>4. QED
  BY <1>1, <1>2, <1>3, PTL DEF Spec
=============================================================================
