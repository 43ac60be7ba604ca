------------------------------ MODULE Scheduler ------------------------------
(***************************************************************************)
(* The coroutine scheduler (webserve/scheduler.{h,cc}) and the fibers it    *)
(* runs (webserve/fiber.{h,cc}).                                            *)
(*                                                                         *)
(* A pool of threads, each executing Scheduler::run, takes entries from one *)
(* queue under m_mutex.  An entry is a callback or a fiber, possibly pinned *)
(* to a thread.  A fiber runs on the thread that swapped it in until it     *)
(* ends, throws, or yields; the thread then looks at the fiber's m_state to *)
(* decide what to do with it.  The owner of the scheduler submits work,     *)
(* calls start() and finally stop(); with use_caller its own thread joins   *)
(* the pool inside stop().                                                  *)
(*                                                                         *)
(* The state of every fiber is written by the thread that runs it and read  *)
(* by the others without a lock, so a step of the model is one access to    *)
(* shared state: one critical section of m_mutex, one atomic counter, or    *)
(* one store or test of m_state.                                            *)
(***************************************************************************)
EXTENDS Integers, Sequences, FiniteSets

CONSTANTS
  Workers,       \* the threads of m_threads
  Caller,        \* the thread that owns the scheduler
  UseCaller,     \* the constructor's use_caller
  Tasks,         \* the callbacks that clients and fibers submit
  Fibers,        \* the Fiber objects that can be allocated
  AnyThread,     \* thread == -1: the entry is for every thread
  NoFiber, NoCb, \* null Fiber::ptr, empty std::function
  ClientPins,    \* the thread arguments of the owner's schedule calls
  BodyPins,      \* the thread arguments of schedule calls made in fibers
  SwitchTargets, \* the arguments of switchTo calls made in fibers
  MaxReady,      \* bound on YieldToReady calls
  MaxHold,       \* bound on the wake-ups fibers arrange before YieldToHold
  WaitsPerHold,  \* how many of them one YieldToHold may follow
  WakeFrom       \* how early an arranged wake-up may come: see MayWake

Threads == Workers \cup (IF UseCaller THEN {Caller} ELSE {})

ASSUME ThreadAssumption ==
  /\ UseCaller \in BOOLEAN
  /\ IsFiniteSet(Workers)
  /\ Caller \notin Workers
  /\ AnyThread \notin Workers \cup {Caller}
  /\ Threads # {}      \* SYLAR_ASSERT(threads > 0)
  /\ ClientPins \cup BodyPins \cup SwitchTargets \subseteq Threads \cup {AnyThread}

ASSUME TaskAssumption ==
  /\ NoFiber \notin Fibers
  /\ NoCb \notin Tasks
  /\ MaxReady \in Nat
  /\ MaxHold \in Nat
  /\ WaitsPerHold \in Nat
  /\ WakeFrom \in {"registered", "saved", "settled"}

VARIABLES
  m_fibers,             \* the queue of entries
  m_state,              \* Fiber::m_state; "NONE" before the allocation
  m_cb,                 \* Fiber::m_cb
  pc,                   \* where each thread is in run()
  ft,                   \* run()'s local entry
  cb_fiber,             \* run()'s local fiber for callbacks
  idle_fiber,           \* the state of run()'s idle fiber
  m_activeThreadCount,
  m_idleThreadCount,
  m_stopping,
  m_autoStop,
  owner,                \* where the owner is: open, or a stage of stop()
  submitted,            \* callbacks handed to schedule so far
  waits,                \* wake-ups arranged for each fiber, not yet fired
  readyCalls,           \* YieldToReady calls so far
  holdCalls,            \* wake-ups arranged so far
  failed                \* a SYLAR_ASSERT was reached and did not hold

fiberVars == <<m_state, m_cb>>
runVars   == <<pc, ft, cb_fiber, idle_fiber>>
countVars == <<m_activeThreadCount, m_idleThreadCount>>
stopVars  == <<m_stopping, m_autoStop, owner>>
workVars  == <<submitted, waits, readyCalls, holdCalls>>
vars == <<m_fibers, fiberVars, runVars, countVars, stopVars, workVars, failed>>

-----------------------------------------------------------------------------
(* FiberAndThread.                                                          *)

Entry == [fiber  : Fibers \cup {NoFiber},
          cb     : Tasks \cup {NoCb},
          thread : Threads \cup {AnyThread}]

NoEntry == [fiber |-> NoFiber, cb |-> NoCb, thread |-> AnyThread]
OfCb(c, thread)    == [fiber |-> NoFiber, cb |-> c, thread |-> thread]
OfFiber(f, thread) == [fiber |-> f, cb |-> NoCb, thread |-> thread]

\* m_fibers.erase(it)
Erase(s, i) == [j \in 1..(Len(s) - 1) |-> IF j < i THEN s[j] ELSE s[j + 1]]

FiberStates == {"NONE", "INIT", "READY", "EXEC", "HOLD", "TERM", "EXCEPT"}
Ended == {"TERM", "EXCEPT"}

\* The places of run(); between "dispatch" and "swapped" a thread is counted
\* active, between "idling" and "idled" idle.
ActivePlaces == {"dispatch", "exec", "hold", "swapout", "swapped"}
IdlePlaces   == {"idling", "idled"}
Places == ActivePlaces \cup IdlePlaces
            \cup {"new", "fetch", "settle", "empty", "exited"}

OwnerPlaces == {"open", "stopFlag", "stopProbe", "stopAll", "stopRoot", "call",
                "join", "stopped"}

\* The fiber a thread is running or has just run (t_fiber): a callback entry
\* is reset before its fiber is entered.
Cur(t) == IF ft[t].fiber # NoFiber THEN ft[t].fiber ELSE cb_fiber[t]

\* new Fiber(...): an object that was never allocated.
Fresh == CHOOSE f \in Fibers : m_state[f] = "NONE"
CanAllocate == \E f \in Fibers : m_state[f] = "NONE"

\* Scheduler::stopping(), one critical section.
stopping == /\ m_autoStop
            /\ m_stopping
            /\ m_fibers = <<>>
            /\ m_activeThreadCount = 0

Init ==
  /\ m_fibers = <<>>
  /\ m_state = [f \in Fibers |-> "NONE"]
  /\ m_cb = [f \in Fibers |-> NoCb]
  /\ pc = [t \in Threads |-> "new"]
  /\ ft = [t \in Threads |-> NoEntry]
  /\ cb_fiber = [t \in Threads |-> NoFiber]
  /\ idle_fiber = [t \in Threads |-> "INIT"]
  /\ m_activeThreadCount = 0
  /\ m_idleThreadCount = 0
  /\ m_stopping = TRUE
  /\ m_autoStop = FALSE
  /\ owner = "open"
  /\ submitted = {}
  /\ waits = [f \in Fibers |-> 0]
  /\ readyCalls = 0
  /\ holdCalls = 0
  /\ failed = FALSE

-----------------------------------------------------------------------------
(* The owner: schedule(), start(), stop().                                  *)

\* schedule(cb, thread): scheduleNoLock in one critical section.  The tickle
\* that follows only logs in this class; IOManager overrides it.
ScheduleCb(c, thread) ==
  /\ owner = "open"
  /\ c \notin submitted
  /\ m_fibers' = Append(m_fibers, OfCb(c, thread))
  /\ submitted' = submitted \cup {c}
  /\ UNCHANGED <<fiberVars, runVars, countVars, stopVars, waits, readyCalls,
                 holdCalls, failed>>

\* schedule(fiber, thread), for a fiber the owner has just made of c.
ScheduleFiber(c, thread) ==
  /\ owner = "open"
  /\ c \notin submitted
  /\ CanAllocate
  /\ m_state' = [m_state EXCEPT ![Fresh] = "INIT"]
  /\ m_cb' = [m_cb EXCEPT ![Fresh] = c]
  /\ m_fibers' = Append(m_fibers, OfFiber(Fresh, thread))
  /\ submitted' = submitted \cup {c}
  /\ UNCHANGED <<runVars, countVars, stopVars, waits, readyCalls, holdCalls,
                 failed>>

\* schedule(begin, end): several callbacks in one critical section.
ScheduleBatch(c, d) ==
  /\ owner = "open"
  /\ c # d
  /\ {c, d} \cap submitted = {}
  /\ m_fibers' = m_fibers \o <<OfCb(c, AnyThread), OfCb(d, AnyThread)>>
  /\ submitted' = submitted \cup {c, d}
  /\ UNCHANGED <<fiberVars, runVars, countVars, stopVars, waits, readyCalls,
                 holdCalls, failed>>

\* start(): spawns the pool; a second call returns at once.
start ==
  /\ owner = "open"
  /\ m_stopping
  /\ m_stopping' = FALSE
  /\ pc' = [t \in Threads |-> IF t \in Workers THEN "fetch" ELSE pc[t]]
  /\ UNCHANGED <<m_fibers, fiberVars, ft, cb_fiber, idle_fiber, countVars,
                 m_autoStop, owner, workVars, failed>>

\* stop(), first statement.
StopFlag ==
  /\ owner = "open"
  /\ m_autoStop' = TRUE
  /\ owner' = "stopFlag"
  /\ UNCHANGED <<m_fibers, fiberVars, runVars, countVars, m_stopping, workVars,
                 failed>>

\* stop(): the branch for a scheduler without pool threads; the root fiber is
\* still INIT, because only stop() enters it.
StopCallerOnly ==
  /\ owner = "stopFlag"
  /\ IF UseCaller /\ Workers = {}
       THEN m_stopping' = TRUE /\ owner' = "stopProbe"
       ELSE m_stopping' = m_stopping /\ owner' = "stopAll"
  /\ UNCHANGED <<m_fibers, fiberVars, runVars, countVars, m_autoStop, workVars,
                 failed>>

\* if(stopping()) return;
StopProbe ==
  /\ owner = "stopProbe"
  /\ owner' = IF stopping THEN "stopped" ELSE "stopAll"
  /\ UNCHANGED <<m_fibers, fiberVars, runVars, countVars, m_stopping,
                 m_autoStop, workVars, failed>>

\* Mutant: stop() does not set m_stopping.
StopAllForgetsFlag ==
  /\ owner = "stopAll"
  /\ owner' = IF UseCaller THEN "stopRoot" ELSE "join"
  /\ UNCHANGED <<m_fibers, fiberVars, runVars, countVars, m_stopping,
                 m_autoStop, workVars, failed>>

\* m_stopping = true and the tickles.
StopAll ==
  /\ owner = "stopAll"
  /\ m_stopping' = TRUE
  /\ owner' = IF UseCaller THEN "stopRoot" ELSE "join"
  /\ UNCHANGED <<m_fibers, fiberVars, runVars, countVars, m_autoStop, workVars,
                 failed>>

\* if(!stopping()) m_rootFiber->call(): the owner's thread enters run().
StopRoot ==
  /\ owner = "stopRoot"
  /\ IF stopping
       THEN owner' = "join" /\ pc' = pc
       ELSE owner' = "call" /\ pc' = [pc EXCEPT ![Caller] = "fetch"]
  /\ UNCHANGED <<m_fibers, fiberVars, ft, cb_fiber, idle_fiber, countVars,
                 m_stopping, m_autoStop, workVars, failed>>

\* run() has returned in the root fiber, which goes back() to stop().
RootBack ==
  /\ owner = "call"
  /\ pc[Caller] = "exited"
  /\ owner' = "join"
  /\ UNCHANGED <<m_fibers, fiberVars, runVars, countVars, m_stopping,
                 m_autoStop, workVars, failed>>

\* The threads of m_threads are joined; a pool that was never started has none.
Join ==
  /\ owner = "join"
  /\ \A t \in Workers : pc[t] \in {"new", "exited"}
  /\ owner' = "stopped"
  /\ UNCHANGED <<m_fibers, fiberVars, runVars, countVars, m_stopping,
                 m_autoStop, workVars, failed>>

-----------------------------------------------------------------------------
(* run(): taking an entry, or idling.                                       *)

\* The entries a thread does not pass over in its scan of the queue.
Eligible(e, t) ==
  /\ e.thread \in {AnyThread, t}
  /\ e.fiber # NoFiber => m_state[e.fiber] # "EXEC"

\* Mutant: the entry is handed out but stays in the queue.
FetchTaskKeepsEntry(t) ==
  /\ pc[t] = "fetch"
  /\ \E i \in 1..Len(m_fibers) :
       /\ Eligible(m_fibers[i], t)
       /\ \A j \in 1..(i - 1) : ~ Eligible(m_fibers[j], t)
       /\ ft' = [ft EXCEPT ![t] = m_fibers[i]]
  /\ m_activeThreadCount < 3
  /\ m_activeThreadCount' = m_activeThreadCount + 1
  /\ pc' = [pc EXCEPT ![t] = "dispatch"]
  /\ UNCHANGED <<m_fibers, fiberVars, cb_fiber, idle_fiber, m_idleThreadCount,
                 stopVars, workVars, failed>>

\* The scan, under m_mutex, finds an entry: it is erased and the thread
\* counted active before the lock is released.
FetchTask(t) ==
  /\ pc[t] = "fetch"
  /\ \E i \in 1..Len(m_fibers) :
       /\ Eligible(m_fibers[i], t)
       /\ \A j \in 1..(i - 1) : ~ Eligible(m_fibers[j], t)
       /\ ft' = [ft EXCEPT ![t] = m_fibers[i]]
       /\ m_fibers' = Erase(m_fibers, i)
  /\ m_activeThreadCount' = m_activeThreadCount + 1
  /\ pc' = [pc EXCEPT ![t] = "dispatch"]
  /\ UNCHANGED <<fiberVars, cb_fiber, idle_fiber, m_idleThreadCount, stopVars,
                 workVars, failed>>

\* The scan finds none.
FetchNothing(t) ==
  /\ pc[t] = "fetch"
  /\ \A i \in 1..Len(m_fibers) : ~ Eligible(m_fibers[i], t)
  /\ pc' = [pc EXCEPT ![t] = "empty"]
  /\ UNCHANGED <<m_fibers, fiberVars, ft, cb_fiber, idle_fiber, countVars,
                 stopVars, workVars, failed>>

\* ++m_idleThreadCount; idle_fiber->swapIn()
EnterIdle(t) ==
  /\ pc[t] = "empty"
  /\ idle_fiber[t] # "TERM"
  /\ m_idleThreadCount' = m_idleThreadCount + 1
  /\ pc' = [pc EXCEPT ![t] = "idling"]
  /\ UNCHANGED <<m_fibers, fiberVars, ft, cb_fiber, idle_fiber,
                 m_activeThreadCount, stopVars, workVars, failed>>

\* Scheduler::idle(): one turn of while(!stopping()) YieldToHold().
Idle(t) ==
  /\ pc[t] = "idling"
  /\ idle_fiber' = [idle_fiber EXCEPT ![t] = IF stopping THEN "TERM" ELSE "HOLD"]
  /\ pc' = [pc EXCEPT ![t] = "idled"]
  /\ UNCHANGED <<m_fibers, fiberVars, ft, cb_fiber, countVars, stopVars,
                 workVars, failed>>

\* --m_idleThreadCount and round the loop.
LeaveIdle(t) ==
  /\ pc[t] = "idled"
  /\ m_idleThreadCount' = m_idleThreadCount - 1
  /\ pc' = [pc EXCEPT ![t] = "fetch"]
  /\ UNCHANGED <<m_fibers, fiberVars, ft, cb_fiber, idle_fiber,
                 m_activeThreadCount, stopVars, workVars, failed>>

\* The idle fiber has ended: run() returns.
ExitRun(t) ==
  /\ pc[t] = "empty"
  /\ idle_fiber[t] = "TERM"
  /\ pc' = [pc EXCEPT ![t] = "exited"]
  /\ UNCHANGED <<m_fibers, fiberVars, ft, cb_fiber, idle_fiber, countVars,
                 stopVars, workVars, failed>>

-----------------------------------------------------------------------------
(* run(): entering a fiber.                                                 *)

\* A SYLAR_ASSERT that does not hold aborts the process; the model only
\* remembers it and goes on.
SYLAR_ASSERT(p) == failed' = (failed \/ ~ p)

\* ft.fiber->swapIn() for a fiber that has not ended.
SwapInFiber(t) ==
  LET f == ft[t].fiber IN
  /\ pc[t] = "dispatch"
  /\ f # NoFiber
  /\ m_state[f] \notin Ended
  /\ SYLAR_ASSERT(m_state[f] # "EXEC")
  /\ m_state' = [m_state EXCEPT ![f] = "EXEC"]
  /\ pc' = [pc EXCEPT ![t] = "exec"]
  /\ UNCHANGED <<m_fibers, m_cb, ft, cb_fiber, idle_fiber, countVars, stopVars,
                 workVars>>

\* A callback runs in cb_fiber, which is reset or, if there is none, made.
SwapInCb(t) ==
  LET f == IF cb_fiber[t] # NoFiber THEN cb_fiber[t] ELSE Fresh IN
  /\ pc[t] = "dispatch"
  /\ ft[t].fiber = NoFiber
  /\ ft[t].cb # NoCb
  /\ cb_fiber[t] = NoFiber => CanAllocate
  /\ SYLAR_ASSERT(cb_fiber[t] # NoFiber => m_state[f] \in Ended \cup {"INIT"})
  /\ m_state' = [m_state EXCEPT ![f] = "EXEC"]
  /\ m_cb' = [m_cb EXCEPT ![f] = ft[t].cb]
  /\ cb_fiber' = [cb_fiber EXCEPT ![t] = f]
  /\ ft' = [ft EXCEPT ![t] = NoEntry]
  /\ pc' = [pc EXCEPT ![t] = "exec"]
  /\ UNCHANGED <<m_fibers, idle_fiber, countVars, stopVars, workVars>>

\* Mutant: the fiber had ended and the thread stays counted.
SkipEndedStaysActive(t) ==
  /\ pc[t] = "dispatch"
  /\ ft[t].fiber # NoFiber
  /\ m_state[ft[t].fiber] \in Ended
  /\ ft' = [ft EXCEPT ![t] = NoEntry]
  /\ pc' = [pc EXCEPT ![t] = "fetch"]
  /\ UNCHANGED <<m_fibers, fiberVars, cb_fiber, idle_fiber, countVars,
                 stopVars, workVars, failed>>

\* if(is_active) { --m_activeThreadCount; continue; }: the fiber had ended.
SkipEnded(t) ==
  /\ pc[t] = "dispatch"
  /\ ft[t].fiber # NoFiber
  /\ m_state[ft[t].fiber] \in Ended
  /\ m_activeThreadCount' = m_activeThreadCount - 1
  /\ ft' = [ft EXCEPT ![t] = NoEntry]
  /\ pc' = [pc EXCEPT ![t] = "fetch"]
  /\ UNCHANGED <<m_fibers, fiberVars, cb_fiber, idle_fiber, m_idleThreadCount,
                 stopVars, workVars, failed>>

-----------------------------------------------------------------------------
(* What the code in a fiber may do.                                         *)

\* schedule(cb, thread) from a running fiber.
BodySchedule(t, c, thread) ==
  /\ pc[t] = "exec"
  /\ c \notin submitted
  /\ m_fibers' = Append(m_fibers, OfCb(c, thread))
  /\ submitted' = submitted \cup {c}
  /\ UNCHANGED <<fiberVars, runVars, countVars, stopVars, waits, readyCalls,
                 holdCalls, failed>>

\* Fiber::YieldToReady up to swapOut.
YieldToReady(t) ==
  /\ pc[t] = "exec"
  /\ readyCalls < MaxReady
  /\ SYLAR_ASSERT(m_state[Cur(t)] = "EXEC")
  /\ m_state' = [m_state EXCEPT ![Cur(t)] = "READY"]
  /\ readyCalls' = readyCalls + 1
  /\ pc' = [pc EXCEPT ![t] = "swapout"]
  /\ UNCHANGED <<m_fibers, m_cb, ft, cb_fiber, idle_fiber, countVars, stopVars,
                 submitted, waits, holdCalls>>

\* The fiber has its wake-up arranged (addEvent, addTimer, ...), which will
\* schedule it n times, and is about to call YieldToHold.
ArrangeWake(t, n) ==
  /\ pc[t] = "exec"
  /\ holdCalls + n <= MaxHold
  /\ waits' = [waits EXCEPT ![Cur(t)] = @ + n]
  /\ holdCalls' = holdCalls + n
  /\ pc' = [pc EXCEPT ![t] = "hold"]
  /\ UNCHANGED <<m_fibers, fiberVars, ft, cb_fiber, idle_fiber, countVars,
                 stopVars, submitted, readyCalls, failed>>

\* Scheduler::switchTo: stay, or schedule the fiber elsewhere and hold.
SwitchTo(t, thread) ==
  /\ pc[t] = "exec"
  /\ holdCalls < MaxHold
  /\ holdCalls' = holdCalls + 1
  /\ IF thread \in {AnyThread, t}
       THEN UNCHANGED <<m_fibers, pc>>
       ELSE /\ m_fibers' = Append(m_fibers, OfFiber(Cur(t), thread))
            /\ pc' = [pc EXCEPT ![t] = "hold"]
  /\ UNCHANGED <<fiberVars, ft, cb_fiber, idle_fiber, countVars, stopVars,
                 submitted, waits, readyCalls, failed>>

\* Fiber::YieldToHold up to swapOut: m_state changes before the context is
\* saved.
YieldToHold(t) ==
  /\ pc[t] = "hold"
  /\ SYLAR_ASSERT(m_state[Cur(t)] = "EXEC")
  /\ m_state' = [m_state EXCEPT ![Cur(t)] = "HOLD"]
  /\ pc' = [pc EXCEPT ![t] = "swapout"]
  /\ UNCHANGED <<m_fibers, m_cb, ft, cb_fiber, idle_fiber, countVars, stopVars,
                 workVars>>

\* Fiber::MainFunc: the callback returns (m_cb is dropped) or throws.
MainFuncReturn(t) ==
  /\ pc[t] = "exec"
  /\ m_state' = [m_state EXCEPT ![Cur(t)] = "TERM"]
  /\ m_cb' = [m_cb EXCEPT ![Cur(t)] = NoCb]
  /\ pc' = [pc EXCEPT ![t] = "swapout"]
  /\ UNCHANGED <<m_fibers, ft, cb_fiber, idle_fiber, countVars, stopVars,
                 workVars, failed>>

MainFuncThrow(t) ==
  /\ pc[t] = "exec"
  /\ m_state' = [m_state EXCEPT ![Cur(t)] = "EXCEPT"]
  /\ pc' = [pc EXCEPT ![t] = "swapout"]
  /\ UNCHANGED <<m_fibers, m_cb, ft, cb_fiber, idle_fiber, countVars, stopVars,
                 workVars, failed>>

\* Fiber::swapOut: swapcontext saves the fiber and resumes run().
SwapOut(t) ==
  /\ pc[t] = "swapout"
  /\ pc' = [pc EXCEPT ![t] = "swapped"]
  /\ UNCHANGED <<m_fibers, fiberVars, ft, cb_fiber, idle_fiber, countVars,
                 stopVars, workVars, failed>>

\* The places in which a thread executes on the stack of its fiber, and those
\* in which run() will still look at it.
OnStack == {"exec", "hold", "swapout"}
InHand  == OnStack \cup {"dispatch", "swapped", "settle"}

\* The code arranges a wake-up before YieldToHold, so nothing keeps it from
\* coming at once ("registered").  The other two values are assumptions on the
\* environment: not before swapcontext has saved the fiber, or not before
\* run() is done with it.
MayWake(f) ==
  CASE WakeFrom = "registered" -> TRUE
    [] WakeFrom = "saved"   -> \A t \in Threads : pc[t] \in OnStack => Cur(t) # f
    [] WakeFrom = "settled" -> \A t \in Threads : pc[t] \in InHand => Cur(t) # f

\* An arranged wake-up fires: schedule(fiber).
Wake(f) ==
  /\ waits[f] > 0
  /\ MayWake(f)
  /\ waits' = [waits EXCEPT ![f] = @ - 1]
  /\ m_fibers' = Append(m_fibers, OfFiber(f, AnyThread))
  /\ UNCHANGED <<fiberVars, runVars, countVars, stopVars, submitted,
                 readyCalls, holdCalls, failed>>

-----------------------------------------------------------------------------
(* run(): after the fiber.                                                  *)

\* --m_activeThreadCount, before the fiber's state is looked at.
Deactivate(t) ==
  /\ pc[t] = "swapped"
  /\ m_activeThreadCount' = m_activeThreadCount - 1
  /\ pc' = [pc EXCEPT ![t] = "settle"]
  /\ UNCHANGED <<m_fibers, fiberVars, ft, cb_fiber, idle_fiber,
                 m_idleThreadCount, stopVars, workVars, failed>>

\* ft.reset(), and cb_fiber.reset() when the fiber was a callback's.
LetGo(t) ==
  /\ ft' = [ft EXCEPT ![t] = NoEntry]
  /\ cb_fiber' = IF ft[t].fiber # NoFiber
                   THEN cb_fiber ELSE [cb_fiber EXCEPT ![t] = NoFiber]

\* Mutant: the callback's fiber is scheduled again and also kept in cb_fiber.
SettleReadyKeepsCbFiber(t) ==
  /\ pc[t] = "settle"
  /\ m_state[Cur(t)] = "READY"
  /\ m_fibers' = Append(m_fibers, OfFiber(Cur(t), AnyThread))
  /\ ft' = [ft EXCEPT ![t] = NoEntry]
  /\ pc' = [pc EXCEPT ![t] = "fetch"]
  /\ UNCHANGED <<fiberVars, cb_fiber, idle_fiber, countVars, stopVars, workVars,
                 failed>>

\* Mutant: a READY fiber is let go like one on hold.
SettleReadyDrops(t) ==
  /\ pc[t] = "settle"
  /\ m_state[Cur(t)] = "READY"
  /\ LetGo(t)
  /\ pc' = [pc EXCEPT ![t] = "fetch"]
  /\ UNCHANGED <<m_fibers, fiberVars, idle_fiber, countVars, stopVars, workVars,
                 failed>>

\* READY: schedule it again, for any thread.
SettleReady(t) ==
  /\ pc[t] = "settle"
  /\ m_state[Cur(t)] = "READY"
  /\ m_fibers' = Append(m_fibers, OfFiber(Cur(t), AnyThread))
  /\ LetGo(t)
  /\ pc' = [pc EXCEPT ![t] = "fetch"]
  /\ UNCHANGED <<fiberVars, idle_fiber, countVars, stopVars, workVars, failed>>

\* TERM or EXCEPT: a fiber is dropped, a callback's is reset for the next one.
SettleEnded(t) ==
  /\ pc[t] = "settle"
  /\ m_state[Cur(t)] \in Ended
  /\ IF ft[t].fiber # NoFiber
       THEN UNCHANGED fiberVars
       ELSE /\ m_state' = [m_state EXCEPT ![Cur(t)] = "INIT"]
            /\ m_cb' = [m_cb EXCEPT ![Cur(t)] = NoCb]
  /\ ft' = [ft EXCEPT ![t] = NoEntry]
  /\ pc' = [pc EXCEPT ![t] = "fetch"]
  /\ UNCHANGED <<m_fibers, cb_fiber, idle_fiber, countVars, stopVars, workVars,
                 failed>>

\* Anything else: m_state = HOLD.
SettleHold(t) ==
  /\ pc[t] = "settle"
  /\ m_state[Cur(t)] \notin Ended \cup {"READY"}
  /\ m_state' = [m_state EXCEPT ![Cur(t)] = "HOLD"]
  /\ LetGo(t)
  /\ pc' = [pc EXCEPT ![t] = "fetch"]
  /\ UNCHANGED <<m_fibers, m_cb, idle_fiber, countVars, stopVars, workVars,
                 failed>>

-----------------------------------------------------------------------------
Owner ==
  \/ \E c \in Tasks, thread \in ClientPins :
       ScheduleCb(c, thread) \/ ScheduleFiber(c, thread)
  \/ \E c, d \in Tasks : ScheduleBatch(c, d)
  \/ start
  \/ StopFlag

Stop == StopCallerOnly \/ StopProbe \/ StopAll \/ StopRoot \/ RootBack \/ Join

Body(t) ==
  \/ \E c \in Tasks, thread \in BodyPins : BodySchedule(t, c, thread)
  \/ YieldToReady(t)
  \/ \E n \in 1..WaitsPerHold : ArrangeWake(t, n)
  \/ \E thread \in SwitchTargets : SwitchTo(t, thread)
  \/ YieldToHold(t)
  \/ MainFuncReturn(t)
  \/ MainFuncThrow(t)

Run(t) ==
  \/ FetchTask(t) \/ FetchNothing(t)
  \/ EnterIdle(t) \/ Idle(t) \/ LeaveIdle(t) \/ ExitRun(t)
  \/ SwapInFiber(t) \/ SwapInCb(t) \/ SkipEnded(t)
  \/ Body(t)
  \/ SwapOut(t) \/ Deactivate(t)
  \/ SettleReady(t) \/ SettleEnded(t) \/ SettleHold(t)

\* Nothing is left to do.
Finished ==
  /\ owner = "stopped"
  /\ UNCHANGED vars

Next ==
  \/ Owner
  \/ Stop
  \/ \E t \in Threads : Run(t)
  \/ \E f \in Fibers : Wake(f)
  \/ Finished

Spec == Init /\ [][Next]_vars

\* The operating system runs every thread, and so stop(); the owner is free
\* not to call schedule, start or stop, and nobody promises a wake-up.
Fairness ==
  /\ WF_vars(Stop)
  /\ \A t \in Threads : WF_vars(Run(t))

FairSpec == Spec /\ Fairness

-----------------------------------------------------------------------------
(* Properties.                                                              *)

FiberTypes ==
  /\ m_fibers \in Seq(Entry)
  /\ m_state \in [Fibers -> FiberStates]
  /\ m_cb \in [Fibers -> Tasks \cup {NoCb}]

RunTypes ==
  /\ pc \in [Threads -> Places]
  /\ ft \in [Threads -> Entry]
  /\ cb_fiber \in [Threads -> Fibers \cup {NoFiber}]
  /\ idle_fiber \in [Threads -> {"INIT", "HOLD", "TERM"}]
  /\ owner \in OwnerPlaces

CountTypes ==
  /\ m_activeThreadCount \in Nat
  /\ m_idleThreadCount \in Nat

WorkTypes ==
  /\ submitted \in SUBSET Tasks
  /\ waits \in [Fibers -> Nat]
  /\ readyCalls \in Nat
  /\ holdCalls \in Nat

FlagTypes ==
  /\ m_stopping \in BOOLEAN
  /\ m_autoStop \in BOOLEAN
  /\ failed \in BOOLEAN

\* Every variable keeps to its type; the counters, size_t in the code, never go
\* below zero.
TypeOK == FiberTypes /\ RunTypes /\ CountTypes /\ WorkTypes /\ FlagTypes

\* The two atomic counters, which are unsigned and are raised and lowered at
\* different places of run(), always equal the number of threads between those
\* places: stopping() and tickle() decide by them.
CountsExact ==
  /\ m_activeThreadCount = Cardinality({t \in Threads : pc[t] \in ActivePlaces})
  /\ m_idleThreadCount = Cardinality({t \in Threads : pc[t] \in IdlePlaces})

\* No two threads execute on the stack of the same fiber.
SingleRunner ==
  \A t, u \in Threads :
    /\ t # u
    /\ pc[t] \in OnStack
    /\ pc[u] \in OnStack
    => Cur(t) # Cur(u)

\* No SYLAR_ASSERT of swapIn, reset, YieldToReady or YieldToHold ever fails.
NoAssertFailure == ~ failed

\* Where a callback is: not submitted, waiting for a thread, in a fiber that
\* has begun and not ended, or ended.
CbWaits(e, c) == \/ e.cb = c
                 \/ /\ e.fiber # NoFiber
                    /\ m_state[e.fiber] = "INIT"
                    /\ m_cb[e.fiber] = c

Status(c) ==
  CASE c \notin submitted -> "new"
    [] \/ \E i \in 1..Len(m_fibers) : CbWaits(m_fibers[i], c)
       \/ \E t \in Threads : CbWaits(ft[t], c) -> "queued"
    [] \E f \in Fibers : /\ m_cb[f] = c
                         /\ m_state[f] \in {"EXEC", "READY", "HOLD"} -> "running"
    [] OTHER -> "done"

Started == \A t \in Workers : pc[t] # "new"

Abs == INSTANCE TaskPool WITH
         status  <- [c \in Tasks |-> Status(c)],
         stopped <- owner = "stopped" /\ (UseCaller \/ Started)

\* The scheduler implements the task pool: a callback runs once, from
\* beginning to end, whatever threads carry it, and stop() returns only when
\* all of them are done.
RunsEachTaskOnce == Abs!Spec

\* A submitted callback is eventually over, once the pool runs.
EveryTaskEnds ==
  \A c \in Tasks : (c \in submitted /\ Started) ~> Status(c) = "done"

\* "停止调度时，各调度线程退出，调度器停止工作" (scheduler.h:17): stop() of a
\* started scheduler comes back, its threads having left run().
StopReturns == (owner = "stopFlag" /\ Started) ~> owner = "stopped"

=============================================================================
