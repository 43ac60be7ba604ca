------------------------------- MODULE IOManager -------------------------------
(***************************************************************************)
(* The idle loop of IOManager (webserve/iomanager.cc) together with the part *)
(* of Scheduler::run that enters and leaves it: how a thread that found no   *)
(* work goes to sleep in epoll_wait, what wakes it, and when it exits.       *)
(*                                                                         *)
(* A task is a callback or fiber.  It waits in m_fibers ("queued"), in the   *)
(* timer set ("timer") or for an event ("event").  The details of the three  *)
(* are in Scheduler, TimerManager and FdEvents; here a timer only is due or  *)
(* not and an event ready or not.  Tasks are not pinned to threads.          *)
(***************************************************************************)
EXTENDS Integers, FiniteSets

CONSTANTS
  Threads,      \* the threads of the scheduler
  Client,       \* a thread that is not one of them
  Tasks,
  NoTask,
  Kinds,        \* how a task may hand in another: "queued", "timer", "event"
  ClientKinds,  \* how the client may hand in a task: "queued", "timer"
  Remaining,    \* what getNextTimer may answer while no timer is due, in ms
  MAX_TIMEOUT,  \* 3000
  IntMax,       \* 2^31 - 1
  MayStop       \* whether the client calls stop()

ASSUME IdleAssumption ==
  /\ Client \notin Threads
  /\ IsFiniteSet(Threads)
  /\ IsFiniteSet(Tasks)
  /\ NoTask \notin Tasks
  /\ "pipe" \notin Tasks
  /\ Kinds \subseteq {"queued", "timer", "event"}
  /\ ClientKinds \subseteq {"queued", "timer"}
  /\ Remaining \subseteq Nat \ {0}
  /\ IntMax \in Nat /\ MAX_TIMEOUT \in 0..IntMax
  /\ MayStop \in BOOLEAN

Actors == Threads \cup {Client}

VARIABLES
  st,                   \* "new", "queued", "timer", "event", "running", "ended"
  due,                  \* timers whose time has come
  ready,                \* events epoll has to report
  pc,                   \* where each thread is
  cur,                  \* the task a thread runs
  term,                 \* threads whose idle fiber has returned
  timeout,              \* next_timeout of each thread, 0 at the start of its loop
  woke,                 \* the events epoll_wait gave a thread, not yet handled
  edge,                 \* the pipe m_tickleFds has been written since epoll_wait
                        \* last reported it (EPOLLET)
  owed,                 \* calls of tickle() an actor has yet to make
  m_activeThreadCount,
  m_idleThreadCount,
  m_pendingEventCount,
  m_tickled,            \* of TimerManager
  m_stopping            \* and m_autoStop

counts == <<m_activeThreadCount, m_idleThreadCount, m_pendingEventCount>>
vars == <<st, due, ready, pc, cur, term, timeout, woke, edge, owed, counts,
          m_tickled, m_stopping>>

m_fibers == {c \in Tasks : st[c] = "queued"}
m_timers == {c \in Tasks : st[c] = "timer"}

Init ==
  /\ st = [c \in Tasks |-> "new"]
  /\ due = {}
  /\ ready = {}
  /\ pc = [t \in Threads |-> "run"]
  /\ cur = [t \in Threads |-> NoTask]
  /\ term = {}
  /\ timeout = [t \in Threads |-> 0]
  /\ woke = [t \in Threads |-> {}]
  /\ edge = FALSE
  /\ owed = [a \in Actors |-> 0]
  /\ m_activeThreadCount = 0
  /\ m_idleThreadCount = 0
  /\ m_pendingEventCount = 0
  /\ m_tickled = FALSE
  /\ m_stopping = FALSE

-----------------------------------------------------------------------------
(* Handing in work.                                                         *)

\* An actor makes the calls of tickle() it owes before it goes on.
Free(a) == owed[a] = 0

At(t, p) == pc[t] = p /\ Free(t)

\* Who may call schedule, addTimer and addEvent: a task, and the client until
\* it calls stop().
MayCall(a, kind) ==
  /\ Free(a)
  /\ \/ a \in Threads /\ pc[a] = "busy" /\ kind \in Kinds
     \/ a = Client /\ ~m_stopping /\ kind \in ClientKinds

\* schedule(begin, end) and schedule(fc): tickle() if the list was empty.
Push(a, new) ==
  /\ st' = [c \in Tasks |-> IF c \in new THEN "queued" ELSE st[c]]
  /\ owed' = [owed EXCEPT ![a] = @ + (IF m_fibers = {} /\ new # {} THEN 1 ELSE 0)]

schedule(a, c) ==
  /\ MayCall(a, "queued")
  /\ st[c] = "new"
  /\ Push(a, {c})
  /\ UNCHANGED <<due, ready, pc, cur, term, timeout, woke, edge, counts,
                 m_tickled, m_stopping>>

\* addTimer(ms, cb): a timer that becomes the first one is announced with
\* onTimerInsertedAtFront, once until the next getNextTimer.
addTimer(a, c, at_front) ==
  /\ MayCall(a, "timer")
  /\ st[c] = "new"
  /\ m_timers = {} => at_front
  /\ st' = [st EXCEPT ![c] = "timer"]
  /\ m_tickled' = (m_tickled \/ at_front)
  /\ owed' = [owed EXCEPT ![a] = @ + (IF at_front /\ ~m_tickled THEN 1 ELSE 0)]
  /\ UNCHANGED <<due, ready, pc, cur, term, timeout, woke, edge, counts,
                 m_stopping>>

\* addEvent(fd, event, cb), by a task.
addEvent(a, c) ==
  /\ MayCall(a, "event")
  /\ st[c] = "new"
  /\ st' = [st EXCEPT ![c] = "event"]
  /\ m_pendingEventCount' = m_pendingEventCount + 1
  /\ UNCHANGED <<due, ready, pc, cur, term, timeout, woke, edge, owed,
                 m_activeThreadCount, m_idleThreadCount, m_tickled, m_stopping>>

\* IOManager::tickle(): nothing is written while no thread counts as idle.
tickle(a) ==
  /\ owed[a] > 0
  /\ owed' = [owed EXCEPT ![a] = @ - 1]
  /\ edge' = (edge \/ m_idleThreadCount > 0)
  /\ UNCHANGED <<st, due, ready, pc, cur, term, timeout, woke, counts, m_tickled,
                 m_stopping>>

\* Scheduler::stop() as far as the threads see it: the flags, then one tickle()
\* for each thread.
stop ==
  /\ MayStop
  /\ ~m_stopping
  /\ Free(Client)
  /\ m_stopping' = TRUE
  /\ owed' = [owed EXCEPT ![Client] = Cardinality(Threads)]
  /\ UNCHANGED <<st, due, ready, pc, cur, term, timeout, woke, edge, counts,
                 m_tickled>>

-----------------------------------------------------------------------------
(* The outside: the clock and the peers.                                    *)

Expire(c) ==
  /\ st[c] = "timer"
  /\ due' = due \cup {c}
  /\ c \notin due
  /\ UNCHANGED <<st, ready, pc, cur, term, timeout, woke, edge, owed, counts,
                 m_tickled, m_stopping>>

Arrive(c) ==
  /\ st[c] = "event"
  /\ c \notin ready
  /\ \A t \in Threads : c \notin woke[t]
  /\ ready' = ready \cup {c}
  /\ UNCHANGED <<st, due, pc, cur, term, timeout, woke, edge, owed, counts,
                 m_tickled, m_stopping>>

-----------------------------------------------------------------------------
(* Scheduler::run.                                                          *)

\* A task is taken; tickle() if the list holds another.
Fetch(t, c) ==
  /\ At(t, "run")
  /\ c \in m_fibers
  /\ st' = [st EXCEPT ![c] = "running"]
  /\ cur' = [cur EXCEPT ![t] = c]
  /\ pc' = [pc EXCEPT ![t] = "busy"]
  /\ m_activeThreadCount' = m_activeThreadCount + 1
  /\ owed' = [owed EXCEPT ![t] = IF m_fibers = {c} THEN 0 ELSE 1]
  /\ UNCHANGED <<due, ready, term, timeout, woke, edge, m_idleThreadCount,
                 m_pendingEventCount, m_tickled, m_stopping>>

\* The task has ended.
Finish(t) ==
  /\ At(t, "busy")
  /\ st' = [st EXCEPT ![cur[t]] = "ended"]
  /\ cur' = [cur EXCEPT ![t] = NoTask]
  /\ pc' = [pc EXCEPT ![t] = "run"]
  /\ m_activeThreadCount' = m_activeThreadCount - 1
  /\ UNCHANGED <<due, ready, term, timeout, woke, edge, owed, m_idleThreadCount,
                 m_pendingEventCount, m_tickled, m_stopping>>

\* Nothing to take: on to the idle fiber, or out of the loop if that one has
\* returned.
FetchNothing(t) ==
  /\ At(t, "run")
  /\ m_fibers = {}
  /\ pc' = [pc EXCEPT ![t] = IF t \in term THEN "exited" ELSE "empty"]
  /\ UNCHANGED <<st, due, ready, cur, term, timeout, woke, edge, owed, counts,
                 m_tickled, m_stopping>>

\* ++m_idleThreadCount; idle_fiber->swapIn()
EnterIdle(t) ==
  /\ At(t, "empty")
  /\ pc' = [pc EXCEPT ![t] = "timers"]
  /\ m_idleThreadCount' = m_idleThreadCount + 1
  /\ UNCHANGED <<st, due, ready, cur, term, timeout, woke, edge, owed,
                 m_activeThreadCount, m_pendingEventCount, m_tickled, m_stopping>>

-----------------------------------------------------------------------------
(* IOManager::idle.                                                         *)

\* (int)n of an unsigned 64-bit n.
ToInt(n) == LET m == n % (2 * IntMax + 2)
            IN  IF m > IntMax THEN m - (2 * IntMax + 2) ELSE m

\* The argument epoll_wait gets when getNextTimer has answered n.
epoll_timeout(n) == IF ToInt(n) > MAX_TIMEOUT THEN MAX_TIMEOUT ELSE ToInt(n)

\* Mutant: the wait is unbounded when there is no timer.
AskTimersForever(t) ==
  /\ At(t, "timers")
  /\ m_tickled' = FALSE
  /\ IF m_timers = {}
     THEN /\ timeout' = [timeout EXCEPT ![t] = -1]
          /\ pc' = [pc EXCEPT ![t] = "events"]
     ELSE /\ \E n \in IF due # {} THEN {0} ELSE Remaining :
               timeout' = [timeout EXCEPT ![t] = epoll_timeout(n)]
          /\ pc' = [pc EXCEPT ![t] = "wait"]
  /\ UNCHANGED <<st, due, ready, cur, term, woke, edge, owed, counts, m_stopping>>

\* stopping(timeout), first part: getNextTimer().
AskTimers(t) ==
  /\ At(t, "timers")
  /\ m_tickled' = FALSE
  /\ IF m_timers = {}
     THEN /\ timeout' = [timeout EXCEPT ![t] = MAX_TIMEOUT]
          /\ pc' = [pc EXCEPT ![t] = "events"]
     ELSE /\ \E n \in IF due # {} THEN {0} ELSE Remaining :
               timeout' = [timeout EXCEPT ![t] = epoll_timeout(n)]
          /\ pc' = [pc EXCEPT ![t] = "wait"]
  /\ UNCHANGED <<st, due, ready, cur, term, woke, edge, owed, counts, m_stopping>>

\* stopping(timeout), second part: m_pendingEventCount == 0.
AskEvents(t) ==
  /\ At(t, "events")
  /\ pc' = [pc EXCEPT ![t] = IF m_pendingEventCount = 0 THEN "queue" ELSE "wait"]
  /\ UNCHANGED <<st, due, ready, cur, term, timeout, woke, edge, owed, counts,
                 m_tickled, m_stopping>>

\* Scheduler::stopping()
stopping == m_stopping /\ m_fibers = {} /\ m_activeThreadCount = 0

\* stopping(timeout), last part; if it holds the idle fiber returns.
AskQueue(t) ==
  /\ At(t, "queue")
  /\ IF stopping
     THEN /\ term' = term \cup {t}
          /\ pc' = [pc EXCEPT ![t] = "run"]
          /\ m_idleThreadCount' = m_idleThreadCount - 1
     ELSE /\ pc' = [pc EXCEPT ![t] = "wait"]
          /\ UNCHANGED <<term, m_idleThreadCount>>
  /\ UNCHANGED <<st, due, ready, cur, timeout, woke, edge, owed,
                 m_activeThreadCount, m_pendingEventCount, m_tickled, m_stopping>>

Reported == ready \cup (IF edge THEN {"pipe"} ELSE {})

\* epoll_wait returns events.
WaitReturns(t) ==
  /\ At(t, "wait")
  /\ Reported # {}
  /\ woke' = [woke EXCEPT ![t] = Reported]
  /\ ready' = {}
  /\ edge' = FALSE
  /\ pc' = [pc EXCEPT ![t] = "expired"]
  /\ timeout' = [timeout EXCEPT ![t] = 0]
  /\ UNCHANGED <<st, due, cur, term, owed, counts, m_tickled, m_stopping>>

\* epoll_wait returns 0; a negative argument means that it never does.
WaitTimesOut(t) ==
  /\ At(t, "wait")
  /\ Reported = {}
  /\ timeout[t] >= 0
  /\ pc' = [pc EXCEPT ![t] = "expired"]
  /\ timeout' = [timeout EXCEPT ![t] = 0]
  /\ UNCHANGED <<st, due, ready, cur, term, woke, edge, owed, counts,
                 m_tickled, m_stopping>>

\* Mutant: the expired callbacks are not scheduled.
ScheduleExpiredDrops(t) ==
  /\ At(t, "expired")
  /\ UNCHANGED <<st, owed>>
  /\ due' = {}
  /\ pc' = [pc EXCEPT ![t] = "handle"]
  /\ UNCHANGED <<ready, cur, term, timeout, woke, edge, counts, m_tickled,
                 m_stopping>>

\* listExpiredCb(cbs); schedule(cbs.begin(), cbs.end())
ScheduleExpired(t) ==
  /\ At(t, "expired")
  /\ Push(t, due)
  /\ due' = {}
  /\ pc' = [pc EXCEPT ![t] = "handle"]
  /\ UNCHANGED <<ready, cur, term, timeout, woke, edge, counts, m_tickled,
                 m_stopping>>

\* The pipe is read until it is empty.
DrainPipe(t) ==
  /\ At(t, "handle")
  /\ "pipe" \in woke[t]
  /\ woke' = [woke EXCEPT ![t] = @ \ {"pipe"}]
  /\ UNCHANGED <<st, due, ready, pc, cur, term, timeout, edge, owed, counts,
                 m_tickled, m_stopping>>

\* triggerEvent, with the call of schedule in it.
TriggerEvent(t, c) ==
  /\ At(t, "handle")
  /\ c \in woke[t]
  /\ woke' = [woke EXCEPT ![t] = @ \ {c}]
  /\ Push(t, {c})
  /\ pc' = [pc EXCEPT ![t] = "triggered"]
  /\ UNCHANGED <<due, ready, cur, term, timeout, edge, counts, m_tickled,
                 m_stopping>>

\* Mutant: the counter keeps its value.
TriggeredUncounted(t) ==
  /\ At(t, "triggered")
  /\ pc' = [pc EXCEPT ![t] = "handle"]
  /\ UNCHANGED <<st, due, ready, cur, term, timeout, woke, edge, owed, counts,
                 m_tickled, m_stopping>>

\* --m_pendingEventCount
Triggered(t) ==
  /\ At(t, "triggered")
  /\ pc' = [pc EXCEPT ![t] = "handle"]
  /\ m_pendingEventCount' = m_pendingEventCount - 1
  /\ UNCHANGED <<st, due, ready, cur, term, timeout, woke, edge, owed,
                 m_activeThreadCount, m_idleThreadCount, m_tickled, m_stopping>>

\* Mutant: the thread still counts as idle.
LeaveIdleCounted(t) ==
  /\ At(t, "handle")
  /\ woke[t] = {}
  /\ pc' = [pc EXCEPT ![t] = "run"]
  /\ UNCHANGED <<st, due, ready, cur, term, timeout, woke, edge, owed, counts,
                 m_tickled, m_stopping>>

\* swapOut, and --m_idleThreadCount in run.
LeaveIdle(t) ==
  /\ At(t, "handle")
  /\ woke[t] = {}
  /\ pc' = [pc EXCEPT ![t] = "run"]
  /\ m_idleThreadCount' = m_idleThreadCount - 1
  /\ UNCHANGED <<st, due, ready, cur, term, timeout, woke, edge, owed,
                 m_activeThreadCount, m_pendingEventCount, m_tickled, m_stopping>>

-----------------------------------------------------------------------------

Idle(t) ==
  \/ AskTimers(t)
  \/ AskEvents(t)
  \/ AskQueue(t)
  \/ WaitReturns(t)
  \/ WaitTimesOut(t)
  \/ ScheduleExpired(t)
  \/ DrainPipe(t)
  \/ \E c \in Tasks : TriggerEvent(t, c)
  \/ Triggered(t)
  \/ LeaveIdle(t)

Run(t) ==
  \/ \E c \in Tasks : Fetch(t, c)
  \/ Finish(t)
  \/ FetchNothing(t)
  \/ EnterIdle(t)

Calls(a) ==
  \E c \in Tasks :
    \/ schedule(a, c)
    \/ \E at_front \in BOOLEAN : addTimer(a, c, at_front)
    \/ addEvent(a, c)

Next ==
  \/ \E a \in Actors : Calls(a) \/ tickle(a)
  \/ stop
  \/ \E c \in Tasks : Expire(c) \/ Arrive(c)
  \/ \E t \in Threads : Run(t) \/ Idle(t)

Spec == Init /\ [][Next]_vars

\* A thread that can take a step takes one, every task ends, epoll_wait times
\* out and time passes; nothing says that a peer ever answers.
FairSpec ==
  /\ Spec
  /\ \A t \in Threads : WF_vars(Run(t) \/ Idle(t))
  /\ \A a \in Actors : WF_vars(tickle(a))
  /\ \A c \in Tasks : WF_vars(Expire(c))

-----------------------------------------------------------------------------
(* Properties.                                                              *)

InIdle == {"timers", "events", "queue", "wait", "expired", "handle", "triggered"}

\* The three counters that stopping() and hasIdleThreads() read are what they
\* count: the tasks that run, the threads inside idle(), and the registered
\* events, where one whose task is scheduled counts until the decrement.
CountsExact ==
  /\ m_activeThreadCount = Cardinality({c \in Tasks : st[c] = "running"})
  /\ m_idleThreadCount = Cardinality({t \in Threads : pc[t] \in InIdle})
  /\ m_pendingEventCount = Cardinality({c \in Tasks : st[c] = "event"})
                             + Cardinality({t \in Threads : pc[t] = "triggered"})

\* Every task in the list is run to its end, although the call of tickle() made
\* for it may have been skipped or answered by a thread that turned to another
\* task.
QueuedTasksEnd ==
  \A c \in Tasks : st[c] = "queued" ~> st[c] = "ended"

\* Every timer's callback is run, unless the threads exit after stop().
TimersFire ==
  \A c \in Tasks : st[c] = "timer" ~> \/ st[c] = "ended"
                                      \/ \A t \in Threads : pc[t] = "exited"

\* After stop() every thread exits, so that its join returns, unless an event
\* stays registered for ever.
ThreadsExit ==
  m_stopping ~> \/ \A t \in Threads : pc[t] = "exited"
                \/ \E c \in Tasks : st[c] = "event"

=============================================================================
