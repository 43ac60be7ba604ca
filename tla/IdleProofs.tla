------------------------------ MODULE IdleProofs ------------------------------
(***************************************************************************)
(* Proofs about IOManager, for any threads, tasks and timers.                *)
(***************************************************************************)
EXTENDS IOManager, FiniteSetTheorems, TLAPS

-----------------------------------------------------------------------------
(* The inductive invariant.                                                 *)

\* The sets the three counters count; an event that has been triggered and not
\* yet been subtracted is counted by its thread.
Active == {c \in Tasks : st[c] = "running"}
Idlers == {t \in Threads : pc[t] \in InIdle}
Waiting == {c \in Tasks : st[c] = "event"}
Between == {t \in Threads : pc[t] = "triggered"}

Typed ==
  /\ st \in [Tasks -> {"new", "queued", "timer", "event", "running", "ended"}]
  /\ due \subseteq m_timers
  /\ ready \subseteq Waiting
  /\ pc \in [Threads -> InIdle \cup {"run", "busy", "empty", "exited"}]
  /\ cur \in [Threads -> Tasks \cup {NoTask}]
  /\ woke \in [Threads -> SUBSET (Tasks \cup {"pipe"})]

\* A thread that runs a task runs one that no other thread runs.
RunsOne ==
  \A t \in Threads : pc[t] = "busy" =>
    /\ cur[t] \in Active
    /\ \A u \in Threads : pc[u] = "busy" /\ cur[u] = cur[t] => u = t

\* A reported event is registered until it is triggered, and is reported to one
\* thread: idle triggers it once.
ReportedOnce ==
  \A c \in Tasks, t \in Threads : c \in woke[t] =>
    /\ c \in Waiting \ ready
    /\ \A u \in Threads : c \in woke[u] => u = t

IdleInv == Typed /\ RunsOne /\ ReportedOnce /\ CountsExact

-----------------------------------------------------------------------------
(* Counting.                                                                *)

\* A counter that is raised as an element enters its set.
LEMMA CardAdd ==
  ASSUME NEW S, IsFiniteSet(S), NEW x, x \notin S
  PROVE  Cardinality(S \cup {x}) = Cardinality(S) + 1
BY FS_AddElement

\* A counter that is lowered as an element leaves its set.
LEMMA CardDel ==
  ASSUME NEW S, IsFiniteSet(S), NEW x, x \in S
  PROVE  Cardinality(S \ {x}) = Cardinality(S) - 1
BY FS_RemoveElement

\* The counted sets are finite, as the tasks and threads are.
LEMMA CountedFinite ==
  /\ IsFiniteSet(Active) /\ IsFiniteSet(Idlers)
  /\ IsFiniteSet(Waiting) /\ IsFiniteSet(Between)
<1>1. /\ Active \subseteq Tasks /\ Waiting \subseteq Tasks
      /\ Idlers \subseteq Threads /\ Between \subseteq Threads
  BY DEF Active, Waiting, Idlers, Between
<1> QED
  BY <1>1, IdleAssumption, FS_Subset

\* The counters are natural numbers.
LEMMA CountedCards ==
  /\ Cardinality(Active) \in Nat /\ Cardinality(Idlers) \in Nat
  /\ Cardinality(Waiting) \in Nat /\ Cardinality(Between) \in Nat
BY CountedFinite, FS_CardinalityType

\* The counters in terms of the four sets.
LEMMA CountsAre ==
  CountsExact <=>
    /\ m_activeThreadCount = Cardinality(Active)
    /\ m_idleThreadCount = Cardinality(Idlers)
    /\ m_pendingEventCount = Cardinality(Waiting) + Cardinality(Between)
BY DEF CountsExact, Active, Idlers, Waiting, Between

\* The same after a step.
LEMMA CountsWillBe ==
  CountsExact' <=>
    /\ m_activeThreadCount' = Cardinality(Active')
    /\ m_idleThreadCount' = Cardinality(Idlers')
    /\ m_pendingEventCount' = Cardinality(Waiting') + Cardinality(Between')
BY DEF CountsExact, Active, Idlers, Waiting, Between

\* A step that changes none of the four sets nor a counter.
LEMMA SameCounts ==
  ASSUME CountsExact, UNCHANGED counts,
         Active' = Active, Idlers' = Idlers, Waiting' = Waiting, Between' = Between
  PROVE  CountsExact'
BY CountsAre, CountsWillBe DEF counts

-----------------------------------------------------------------------------
(* Steps that hand in tasks, and the outside.                               *)

\* Tasks that neither run nor wait for an event are queued.
LEMMA PushKeeps ==
  ASSUME IdleInv, NEW a, NEW new \in SUBSET Tasks, Push(a, new),
         \A c \in new : st[c] \in {"new", "timer"}
  PROVE  /\ st' \in [Tasks -> {"new", "queued", "timer", "event", "running", "ended"}]
         /\ Active' = Active /\ Waiting' = Waiting
         /\ m_timers' = m_timers \ new
BY DEF IdleInv, Typed, Push, Active, Waiting, m_timers

\* schedule: a new task enters the list.
LEMMA ScheduleKeeps ==
  ASSUME IdleInv, NEW a \in Actors, NEW c \in Tasks, schedule(a, c)
  PROVE  IdleInv'
<1>1. /\ st[c] = "new" /\ Push(a, {c})
      /\ UNCHANGED <<due, ready, pc, cur, woke, counts>>
  BY DEF schedule
<1>2. /\ st' \in [Tasks -> {"new", "queued", "timer", "event", "running", "ended"}]
      /\ Active' = Active /\ Waiting' = Waiting
      /\ m_timers' = m_timers \ {c}
  BY <1>1, PushKeeps
<1>3. Idlers' = Idlers /\ Between' = Between
  BY <1>1 DEF Idlers, Between
<1>4. CountsExact'
  BY <1>1, <1>2, <1>3, SameCounts DEF IdleInv
<1>5. Typed'
  <2>1. c \notin due
    BY <1>1 DEF IdleInv, Typed, m_timers
  <2> QED
    BY <1>1, <1>2, <2>1 DEF IdleInv, Typed
<1>6. RunsOne' /\ ReportedOnce'
  BY <1>1, <1>2 DEF IdleInv, RunsOne, ReportedOnce
<1> QED
  BY <1>4, <1>5, <1>6 DEF IdleInv

\* addTimer: a new task enters the timer set.
LEMMA AddTimerKeeps ==
  ASSUME IdleInv, NEW a \in Actors, NEW c \in Tasks, NEW at_front \in BOOLEAN,
         addTimer(a, c, at_front)
  PROVE  IdleInv'
<1>1. /\ st[c] = "new" /\ st' = [st EXCEPT ![c] = "timer"]
      /\ UNCHANGED <<due, ready, pc, cur, woke, counts>>
  BY DEF addTimer
<1>2. Active' = Active /\ Waiting' = Waiting /\ m_timers \subseteq m_timers'
  BY <1>1 DEF IdleInv, Typed, Active, Waiting, m_timers
<1>3. Idlers' = Idlers /\ Between' = Between
  BY <1>1 DEF Idlers, Between
<1>4. CountsExact'
  BY <1>1, <1>2, <1>3, SameCounts DEF IdleInv
<1>5. Typed'
  BY <1>1, <1>2 DEF IdleInv, Typed
<1>6. RunsOne' /\ ReportedOnce'
  BY <1>1, <1>2 DEF IdleInv, RunsOne, ReportedOnce
<1> QED
  BY <1>4, <1>5, <1>6 DEF IdleInv

\* addEvent: a new task is registered and counted.
LEMMA AddEventKeeps ==
  ASSUME IdleInv, NEW a \in Actors, NEW c \in Tasks, addEvent(a, c)
  PROVE  IdleInv'
<1>1. /\ st[c] = "new" /\ st' = [st EXCEPT ![c] = "event"]
      /\ m_pendingEventCount' = m_pendingEventCount + 1
      /\ UNCHANGED <<due, ready, pc, cur, woke, m_activeThreadCount, m_idleThreadCount>>
  BY DEF addEvent
<1>2. /\ Active' = Active /\ Waiting' = Waiting \cup {c} /\ c \notin Waiting
      /\ m_timers' = m_timers
  BY <1>1 DEF IdleInv, Typed, Active, Waiting, m_timers
<1>3. Idlers' = Idlers /\ Between' = Between
  BY <1>1 DEF Idlers, Between
<1>4. CountsExact'
  <2>1. Cardinality(Waiting') = Cardinality(Waiting) + 1
    BY <1>2, CardAdd, CountedFinite
  <2> QED
    BY <1>1, <1>2, <1>3, <2>1, CountsAre, CountsWillBe, CountedCards DEF IdleInv
<1>5. Typed'
  BY <1>1, <1>2 DEF IdleInv, Typed
<1>6. RunsOne' /\ ReportedOnce'
  BY <1>1, <1>2 DEF IdleInv, RunsOne, ReportedOnce
<1> QED
  BY <1>4, <1>5, <1>6 DEF IdleInv

\* tickle, stop, the clock and the peers leave tasks and threads where they are.
LEMMA OutsideKeeps ==
  ASSUME IdleInv,
         \/ \E a \in Actors : tickle(a)
         \/ stop
         \/ \E c \in Tasks : Expire(c) \/ Arrive(c)
  PROVE  IdleInv'
<1>1. /\ UNCHANGED <<st, pc, cur, woke, counts>>
      /\ due' \subseteq m_timers
      /\ \/ ready' = ready
         \/ \E c \in Waiting : /\ ready' = ready \cup {c}
                               /\ \A t \in Threads : c \notin woke[t]
  BY DEF tickle, stop, Expire, Arrive, IdleInv, Typed, m_timers, Waiting
<1>2. /\ Active' = Active /\ Waiting' = Waiting /\ m_timers' = m_timers
      /\ Idlers' = Idlers /\ Between' = Between
  BY <1>1 DEF Active, Waiting, m_timers, Idlers, Between
<1>3. CountsExact'
  BY <1>1, <1>2, SameCounts DEF IdleInv
<1>4. Typed'
  BY <1>1, <1>2 DEF IdleInv, Typed
<1>5. RunsOne' /\ ReportedOnce'
  BY <1>1, <1>2 DEF IdleInv, RunsOne, ReportedOnce
<1> QED
  BY <1>3, <1>4, <1>5 DEF IdleInv

-----------------------------------------------------------------------------
(* Steps of Scheduler::run.                                                 *)

\* run takes a task from the list and ++m_activeThreadCount.
LEMMA FetchKeeps ==
  ASSUME IdleInv, NEW t \in Threads, NEW c \in Tasks, Fetch(t, c)
  PROVE  IdleInv'
<1>1. /\ pc[t] = "run" /\ st[c] = "queued"
      /\ st' = [st EXCEPT ![c] = "running"]
      /\ cur' = [cur EXCEPT ![t] = c]
      /\ pc' = [pc EXCEPT ![t] = "busy"]
      /\ m_activeThreadCount' = m_activeThreadCount + 1
      /\ UNCHANGED <<due, ready, woke, m_idleThreadCount, m_pendingEventCount>>
  BY DEF Fetch, At, m_fibers
<1>2. /\ Active' = Active \cup {c} /\ c \notin Active
      /\ Waiting' = Waiting /\ m_timers' = m_timers
  BY <1>1 DEF IdleInv, Typed, Active, Waiting, m_timers
<1>3. Idlers' = Idlers /\ Between' = Between
  BY <1>1 DEF IdleInv, Typed, Idlers, Between, InIdle
<1>4. CountsExact'
  <2>1. Cardinality(Active') = Cardinality(Active) + 1
    BY <1>2, CardAdd, CountedFinite
  <2> QED
    BY <1>1, <1>2, <1>3, <2>1, CountsAre, CountsWillBe, CountedCards DEF IdleInv
<1>5. Typed'
  BY <1>1, <1>2 DEF IdleInv, Typed
<1>6. RunsOne'
  BY <1>1, <1>2 DEF IdleInv, Typed, RunsOne
<1>7. ReportedOnce'
  BY <1>1, <1>2 DEF IdleInv, ReportedOnce
<1> QED
  BY <1>4, <1>5, <1>6, <1>7 DEF IdleInv

\* The task ends and --m_activeThreadCount; no other thread runs it.
LEMMA FinishKeeps ==
  ASSUME IdleInv, NEW t \in Threads, Finish(t)
  PROVE  IdleInv'
<1> DEFINE c == cur[t]
<1>1. /\ pc[t] = "busy"
      /\ st' = [st EXCEPT ![c] = "ended"]
      /\ cur' = [cur EXCEPT ![t] = NoTask]
      /\ pc' = [pc EXCEPT ![t] = "run"]
      /\ m_activeThreadCount' = m_activeThreadCount - 1
      /\ UNCHANGED <<due, ready, woke, m_idleThreadCount, m_pendingEventCount>>
  BY DEF Finish, At
<1>2. c \in Active
  BY <1>1 DEF IdleInv, RunsOne
<1>3. Active' = Active \ {c} /\ Waiting' = Waiting /\ m_timers' = m_timers
  BY <1>1, <1>2 DEF IdleInv, Typed, Active, Waiting, m_timers
<1>4. Idlers' = Idlers /\ Between' = Between
  BY <1>1 DEF IdleInv, Typed, Idlers, Between, InIdle
<1>5. CountsExact'
  <2>1. Cardinality(Active') = Cardinality(Active) - 1
    BY <1>2, <1>3, CardDel, CountedFinite
  <2> QED
    BY <1>1, <1>3, <1>4, <2>1, CountsAre, CountsWillBe, CountedCards DEF IdleInv
<1>6. Typed'
  BY <1>1, <1>2, <1>3 DEF IdleInv, Typed, Active
<1>7. RunsOne'
  BY <1>1, <1>3 DEF IdleInv, Typed, RunsOne
<1>8. ReportedOnce'
  BY <1>1, <1>3 DEF IdleInv, ReportedOnce
<1> QED
  BY <1>5, <1>6, <1>7, <1>8 DEF IdleInv

-----------------------------------------------------------------------------
(* Steps of IOManager::idle.                                                *)

Counting(p) == p \in {"busy", "triggered"}

\* A thread moves on without entering or leaving a place that is counted.
LEMMA MoveKeeps ==
  ASSUME IdleInv, NEW t \in Threads,
         NEW p \in InIdle \cup {"run", "busy", "empty", "exited"},
         ~Counting(pc[t]), ~Counting(p), pc[t] \in InIdle <=> p \in InIdle,
         pc' = [pc EXCEPT ![t] = p],
         UNCHANGED <<st, due, ready, cur, counts>>,
         woke' \in [Threads -> SUBSET (Tasks \cup {"pipe"})],
         \A u \in Threads : woke'[u] \subseteq woke[u]
  PROVE  IdleInv'
<1>1. /\ Active' = Active /\ Waiting' = Waiting /\ m_timers' = m_timers
  BY DEF Active, Waiting, m_timers
<1>2. Idlers' = Idlers /\ Between' = Between
  BY DEF IdleInv, Typed, Idlers, Between, Counting
<1>3. CountsExact'
  BY <1>1, <1>2, SameCounts DEF IdleInv
<1>4. Typed'
  BY <1>1 DEF IdleInv, Typed
<1>5. RunsOne'
  BY <1>1 DEF IdleInv, Typed, RunsOne, Counting
<1>6. ReportedOnce'
  BY <1>1 DEF IdleInv, ReportedOnce
<1> QED
  BY <1>3, <1>4, <1>5, <1>6 DEF IdleInv

\* The steps of run and idle that only move a thread on.
LEMMA MovesKeep ==
  ASSUME IdleInv, NEW t \in Threads,
         FetchNothing(t) \/ AskTimers(t) \/ AskEvents(t) \/ WaitTimesOut(t)
           \/ DrainPipe(t) \/ (AskQueue(t) /\ ~stopping)
  PROVE  IdleInv'
<1> USE DEF InIdle, Counting, At
<1>1. pc \in [Threads -> InIdle \cup {"run", "busy", "empty", "exited"}]
      /\ woke \in [Threads -> SUBSET (Tasks \cup {"pipe"})]
  BY DEF IdleInv, Typed
<1>2. CASE FetchNothing(t)
  <2>1. PICK p \in {"exited", "empty"} : pc' = [pc EXCEPT ![t] = p]
    BY <1>2 DEF FetchNothing
  <2>2. pc[t] = "run" /\ UNCHANGED <<st, due, ready, cur, counts, woke>>
    BY <1>2 DEF FetchNothing
  <2> QED
    BY <1>1, <2>1, <2>2, MoveKeeps
<1>3. CASE AskTimers(t)
  <2>1. PICK p \in {"events", "wait"} : pc' = [pc EXCEPT ![t] = p]
    BY <1>3 DEF AskTimers
  <2>2. pc[t] = "timers" /\ UNCHANGED <<st, due, ready, cur, counts, woke>>
    BY <1>3 DEF AskTimers
  <2> QED
    BY <1>1, <2>1, <2>2, MoveKeeps
<1>4. CASE AskEvents(t)
  <2>1. PICK p \in {"queue", "wait"} : pc' = [pc EXCEPT ![t] = p]
    BY <1>4 DEF AskEvents
  <2>2. pc[t] = "events" /\ UNCHANGED <<st, due, ready, cur, counts, woke>>
    BY <1>4 DEF AskEvents
  <2> QED
    BY <1>1, <2>1, <2>2, MoveKeeps
<1>5. CASE WaitTimesOut(t)
  <2>1. /\ pc[t] = "wait" /\ pc' = [pc EXCEPT ![t] = "expired"]
        /\ UNCHANGED <<st, due, ready, cur, counts, woke>>
    BY <1>5 DEF WaitTimesOut
  <2> QED
    BY <1>1, <2>1, MoveKeeps
<1>6. CASE DrainPipe(t)
  <2>1. /\ pc[t] = "handle" /\ pc' = pc
        /\ woke' = [woke EXCEPT ![t] = @ \ {"pipe"}]
        /\ UNCHANGED <<st, due, ready, cur, counts>>
    BY <1>6 DEF DrainPipe
  <2>2. pc' = [pc EXCEPT ![t] = "handle"]
    BY <1>1, <2>1
  <2>3. /\ woke' \in [Threads -> SUBSET (Tasks \cup {"pipe"})]
        /\ \A u \in Threads : woke'[u] \subseteq woke[u]
    BY <1>1, <2>1
  <2> QED
    BY <2>1, <2>2, <2>3, MoveKeeps
<1>7. CASE AskQueue(t) /\ ~stopping
  <2>1. /\ pc[t] = "queue" /\ pc' = [pc EXCEPT ![t] = "wait"]
        /\ UNCHANGED <<st, due, ready, cur, counts, woke>>
    BY <1>7 DEF AskQueue, counts
  <2> QED
    BY <1>1, <2>1, MoveKeeps
<1> QED
  BY <1>2, <1>3, <1>4, <1>5, <1>6, <1>7

\* ++m_idleThreadCount before the idle fiber, --m_idleThreadCount after it.
LEMMA EnterLeaveKeep ==
  ASSUME IdleInv, NEW t \in Threads,
         EnterIdle(t) \/ LeaveIdle(t) \/ (AskQueue(t) /\ stopping)
  PROVE  IdleInv'
<1>1. UNCHANGED <<st, due, ready, cur, woke, m_activeThreadCount, m_pendingEventCount>>
  BY DEF EnterIdle, LeaveIdle, AskQueue
<1>2. Active' = Active /\ Waiting' = Waiting /\ m_timers' = m_timers
  BY <1>1 DEF Active, Waiting, m_timers
<1>3. pc \in [Threads -> InIdle \cup {"run", "busy", "empty", "exited"}]
  BY DEF IdleInv, Typed
<1>4. CASE EnterIdle(t)
  <2>1. /\ pc[t] = "empty" /\ pc' = [pc EXCEPT ![t] = "timers"]
        /\ m_idleThreadCount' = m_idleThreadCount + 1
    BY <1>4 DEF EnterIdle, At
  <2>2. Idlers' = Idlers \cup {t} /\ t \notin Idlers /\ Between' = Between
    BY <1>3, <2>1 DEF Idlers, Between, InIdle
  <2>3. Cardinality(Idlers') = Cardinality(Idlers) + 1
    BY <2>2, CardAdd, CountedFinite
  <2>4. CountsExact'
    BY <1>1, <1>2, <2>1, <2>2, <2>3, CountsAre, CountsWillBe, CountedCards DEF IdleInv
  <2>5. Typed'
    BY <1>1, <1>2, <1>3, <2>1 DEF IdleInv, Typed, InIdle
  <2>6. RunsOne' /\ ReportedOnce'
    BY <1>1, <1>2, <1>3, <2>1 DEF IdleInv, RunsOne, ReportedOnce
  <2> QED
    BY <2>4, <2>5, <2>6 DEF IdleInv
<1>5. CASE LeaveIdle(t) \/ (AskQueue(t) /\ stopping)
  <2>1. /\ pc[t] \in {"handle", "queue"} /\ pc' = [pc EXCEPT ![t] = "run"]
        /\ m_idleThreadCount' = m_idleThreadCount - 1
    BY <1>5 DEF LeaveIdle, AskQueue, At
  <2>2. Idlers' = Idlers \ {t} /\ t \in Idlers /\ Between' = Between
    BY <1>3, <2>1 DEF Idlers, Between, InIdle
  <2>3. Cardinality(Idlers') = Cardinality(Idlers) - 1
    BY <2>2, CardDel, CountedFinite
  <2>4. CountsExact'
    BY <1>1, <1>2, <2>1, <2>2, <2>3, CountsAre, CountsWillBe, CountedCards DEF IdleInv
  <2>5. Typed'
    BY <1>1, <1>2, <1>3, <2>1 DEF IdleInv, Typed
  <2>6. RunsOne' /\ ReportedOnce'
    BY <1>1, <1>2, <1>3, <2>1 DEF IdleInv, RunsOne, ReportedOnce
  <2> QED
    BY <2>4, <2>5, <2>6 DEF IdleInv
<1> QED
  BY <1>4, <1>5

\* epoll_wait moves the ready events into one thread's batch.
LEMMA WaitReturnsKeeps ==
  ASSUME IdleInv, NEW t \in Threads, WaitReturns(t)
  PROVE  IdleInv'
<1>1. /\ pc[t] = "wait" /\ pc' = [pc EXCEPT ![t] = "expired"]
      /\ woke' = [woke EXCEPT ![t] = Reported]
      /\ ready' = {}
      /\ UNCHANGED <<st, due, cur, counts>>
  BY DEF WaitReturns, At
<1>2. /\ Active' = Active /\ Waiting' = Waiting /\ m_timers' = m_timers
  BY <1>1 DEF Active, Waiting, m_timers
<1>3. /\ pc \in [Threads -> InIdle \cup {"run", "busy", "empty", "exited"}]
      /\ woke \in [Threads -> SUBSET (Tasks \cup {"pipe"})]
      /\ ready \subseteq Tasks
  BY DEF IdleInv, Typed, Waiting
<1>4. Idlers' = Idlers /\ Between' = Between
  BY <1>1, <1>3 DEF Idlers, Between, InIdle
<1>5. CountsExact'
  BY <1>1, <1>2, <1>4, SameCounts DEF IdleInv
<1>6. Reported \subseteq Tasks \cup {"pipe"}
  BY <1>3 DEF Reported
<1>7. Typed'
  BY <1>1, <1>2, <1>3, <1>6 DEF IdleInv, Typed, InIdle
<1>8. RunsOne'
  BY <1>1, <1>2, <1>3 DEF IdleInv, RunsOne
<1>9. ReportedOnce'
  <2>1. \A c \in Tasks : c \in Reported => c \in ready
    BY IdleAssumption DEF Reported
  <2>2. ready \subseteq Waiting
    BY DEF IdleInv, Typed
  <2> QED
    BY <1>1, <1>2, <1>3, <2>1, <2>2 DEF IdleInv, ReportedOnce
<1> QED
  BY <1>5, <1>7, <1>8, <1>9 DEF IdleInv

\* The callbacks of the expired timers enter the list.
LEMMA ScheduleExpiredKeeps ==
  ASSUME IdleInv, NEW t \in Threads, ScheduleExpired(t)
  PROVE  IdleInv'
<1>1. /\ pc[t] = "expired" /\ pc' = [pc EXCEPT ![t] = "handle"]
      /\ Push(t, due) /\ due' = {}
      /\ UNCHANGED <<ready, cur, woke, counts>>
  BY DEF ScheduleExpired, At
<1>2. due \in SUBSET Tasks /\ \A c \in due : st[c] \in {"new", "timer"}
  BY DEF IdleInv, Typed, m_timers
<1>3. /\ st' \in [Tasks -> {"new", "queued", "timer", "event", "running", "ended"}]
      /\ Active' = Active /\ Waiting' = Waiting
  BY <1>1, <1>2, PushKeeps
<1>4. pc \in [Threads -> InIdle \cup {"run", "busy", "empty", "exited"}]
  BY DEF IdleInv, Typed
<1>5. Idlers' = Idlers /\ Between' = Between
  BY <1>1, <1>4 DEF Idlers, Between, InIdle
<1>6. CountsExact'
  BY <1>1, <1>3, <1>5, SameCounts DEF IdleInv
<1>7. Typed'
  BY <1>1, <1>3, <1>4 DEF IdleInv, Typed, InIdle
<1>8. RunsOne' /\ ReportedOnce'
  BY <1>1, <1>3, <1>4 DEF IdleInv, RunsOne, ReportedOnce
<1> QED
  BY <1>6, <1>7, <1>8 DEF IdleInv

\* triggerEvent: the event is no longer registered, and still counted.
LEMMA TriggerEventKeeps ==
  ASSUME IdleInv, NEW t \in Threads, NEW c \in Tasks, TriggerEvent(t, c)
  PROVE  IdleInv'
<1>1. /\ pc[t] = "handle" /\ pc' = [pc EXCEPT ![t] = "triggered"]
      /\ c \in woke[t]
      /\ woke' = [woke EXCEPT ![t] = @ \ {c}]
      /\ st' = [d \in Tasks |-> IF d \in {c} THEN "queued" ELSE st[d]]
      /\ UNCHANGED <<due, ready, cur, counts>>
  BY DEF TriggerEvent, At, Push
<1>2. c \in Waiting /\ c \notin ready
  BY <1>1 DEF IdleInv, ReportedOnce
<1>3. /\ Active' = Active /\ Waiting' = Waiting \ {c} /\ m_timers' = m_timers
  BY <1>1, <1>2 DEF Active, Waiting, m_timers
<1>4. /\ pc \in [Threads -> InIdle \cup {"run", "busy", "empty", "exited"}]
      /\ woke \in [Threads -> SUBSET (Tasks \cup {"pipe"})]
  BY DEF IdleInv, Typed
<1>5. Idlers' = Idlers /\ Between' = Between \cup {t} /\ t \notin Between
  BY <1>1, <1>4 DEF Idlers, Between, InIdle
<1>6. CountsExact'
  <2>1. Cardinality(Waiting') = Cardinality(Waiting) - 1
    BY <1>2, <1>3, CardDel, CountedFinite
  <2>2. Cardinality(Between') = Cardinality(Between) + 1
    BY <1>5, CardAdd, CountedFinite
  <2> QED
    BY <1>1, <1>3, <1>5, <2>1, <2>2, CountsAre, CountsWillBe, CountedCards
       DEF IdleInv, counts
<1>7. Typed'
  <2>1. st' \in [Tasks -> {"new", "queued", "timer", "event", "running", "ended"}]
    BY <1>1 DEF IdleInv, Typed
  <2>2. woke' \in [Threads -> SUBSET (Tasks \cup {"pipe"})]
    BY <1>1, <1>4
  <2> QED
    BY <1>1, <1>2, <1>3, <1>4, <2>1, <2>2 DEF IdleInv, Typed, InIdle
<1>8. RunsOne'
  BY <1>1, <1>3, <1>4 DEF IdleInv, RunsOne
<1>9. ReportedOnce'
  BY <1>1, <1>3, <1>4 DEF IdleInv, ReportedOnce
<1> QED
  BY <1>6, <1>7, <1>8, <1>9 DEF IdleInv

\* --m_pendingEventCount
LEMMA TriggeredKeeps ==
  ASSUME IdleInv, NEW t \in Threads, Triggered(t)
  PROVE  IdleInv'
<1>1. /\ pc[t] = "triggered" /\ pc' = [pc EXCEPT ![t] = "handle"]
      /\ m_pendingEventCount' = m_pendingEventCount - 1
      /\ UNCHANGED <<st, due, ready, cur, woke, m_activeThreadCount, m_idleThreadCount>>
  BY DEF Triggered, At
<1>2. Active' = Active /\ Waiting' = Waiting /\ m_timers' = m_timers
  BY <1>1 DEF Active, Waiting, m_timers
<1>3. pc \in [Threads -> InIdle \cup {"run", "busy", "empty", "exited"}]
  BY DEF IdleInv, Typed
<1>4. Idlers' = Idlers /\ Between' = Between \ {t} /\ t \in Between
  BY <1>1, <1>3 DEF Idlers, Between, InIdle
<1>5. CountsExact'
  <2>1. Cardinality(Between') = Cardinality(Between) - 1
    BY <1>4, CardDel, CountedFinite
  <2> QED
    BY <1>1, <1>2, <1>4, <2>1, CountsAre, CountsWillBe, CountedCards DEF IdleInv
<1>6. Typed'
  BY <1>1, <1>2, <1>3 DEF IdleInv, Typed, InIdle
<1>7. RunsOne' /\ ReportedOnce'
  BY <1>1, <1>2, <1>3 DEF IdleInv, RunsOne, ReportedOnce
<1> QED
  BY <1>5, <1>6, <1>7 DEF IdleInv

-----------------------------------------------------------------------------

\* At the start every thread is in run and nothing is counted.
LEMMA IdleInit == Init => IdleInv
<1> SUFFICES ASSUME Init PROVE IdleInv
  OBVIOUS
<1>1. Active = {} /\ Idlers = {} /\ Waiting = {} /\ Between = {}
  BY DEF Init, Active, Idlers, Waiting, Between, InIdle
<1>2. CountsExact
  BY <1>1, CountsAre, FS_EmptySet DEF Init
<1>3. Typed
  BY DEF Init, Typed
<1>4. RunsOne /\ ReportedOnce
  BY DEF Init, RunsOne, ReportedOnce
<1> QED
  BY <1>2, <1>3, <1>4 DEF IdleInv

\* IdleInv is inductive: one lemma for each action above.
LEMMA IdleStep ==
  ASSUME IdleInv, [Next]_vars
  PROVE  IdleInv'
<1>1. CASE UNCHANGED vars
  BY <1>1 DEF vars, counts, IdleInv, Typed, RunsOne, ReportedOnce, CountsExact,
              Active, Waiting, m_timers
<1>2. ASSUME NEW a \in Actors, Calls(a) PROVE IdleInv'
  BY <1>2, ScheduleKeeps, AddTimerKeeps, AddEventKeeps DEF Calls
<1>3. CASE \/ \E a \in Actors : tickle(a)
           \/ stop
           \/ \E c \in Tasks : Expire(c) \/ Arrive(c)
  BY <1>3, OutsideKeeps
<1>4. ASSUME NEW t \in Threads, Run(t) PROVE IdleInv'
  BY <1>4, FetchKeeps, FinishKeeps, MovesKeep, EnterLeaveKeep DEF Run
<1>5. ASSUME NEW t \in Threads, Idle(t) PROVE IdleInv'
  BY <1>5, MovesKeep, EnterLeaveKeep, WaitReturnsKeeps, ScheduleExpiredKeeps,
     TriggerEventKeeps, TriggeredKeeps DEF Idle
<1> QED
  BY <1>1, <1>2, <1>3, <1>4, <1>5 DEF Next

\* For any threads, tasks and timers, the counters that stopping() and
\* hasIdleThreads() read count the tasks that run, the threads in idle(), and
\* the registered events, although each is changed apart from what it counts.
THEOREM IdleCountsExact == Spec => []CountsExact
<1>1. IdleInv => CountsExact
  BY DEF IdleInv
<1> QED
  BY IdleInit, IdleStep, <1>1, PTL DEF Spec

=============================================================================
