--------------------------- MODULE SchedulerProofs ---------------------------
(***************************************************************************)
(* Theorems about Scheduler, for every number of threads, callbacks and     *)
(* fibers.                                                                  *)
(***************************************************************************)
EXTENDS Scheduler, FiniteSetTheorems, TLAPS

-----------------------------------------------------------------------------
(* Counting the threads in a set of places.                                 *)

In(places) == {t \in Threads : pc[t] \in places}

\* The pool and the caller's thread are finitely many.
LEMMA ThreadsFinite == IsFiniteSet(Threads)
BY ThreadAssumption, FS_EmptySet, FS_Singleton, FS_Union DEF Threads

\* A thread that enters a set of places adds one to their number.
LEMMA CountUp ==
  ASSUME pc \in [Threads -> Places], NEW t \in Threads, NEW p, NEW P,
         pc' = [pc EXCEPT ![t] = p], pc[t] \notin P, p \in P
  PROVE  /\ Cardinality(In(P)) \in Nat
         /\ Cardinality(In(P)') = Cardinality(In(P)) + 1
<1>1. IsFiniteSet(In(P))
  BY ThreadsFinite, FS_Subset DEF In
<1>2. In(P)' = In(P) \cup {t} /\ t \notin In(P)
  BY DEF In
<1>. QED  BY <1>1, <1>2, FS_AddElement, FS_CardinalityType

\* A thread that leaves it takes one away.
LEMMA CountDown ==
  ASSUME pc \in [Threads -> Places], NEW t \in Threads, NEW p, NEW P,
         pc' = [pc EXCEPT ![t] = p], pc[t] \in P, p \notin P
  PROVE  /\ Cardinality(In(P)) \in Nat \ {0}
         /\ Cardinality(In(P)') = Cardinality(In(P)) - 1
<1>1. IsFiniteSet(In(P))
  BY ThreadsFinite, FS_Subset DEF In
<1>2. In(P)' = In(P) \ {t} /\ t \in In(P)
  BY DEF In
<1>. QED  BY <1>1, <1>2, FS_RemoveElement, FS_CardinalityType, FS_EmptySet

\* A thread that moves inside or outside of it changes nothing.
LEMMA CountSame ==
  ASSUME pc \in [Threads -> Places], NEW t \in Threads, NEW p, NEW P,
         pc' = [pc EXCEPT ![t] = p], pc[t] \in P <=> p \in P
  PROVE  Cardinality(In(P)') = Cardinality(In(P))
<1>1. In(P)' = In(P)
  BY DEF In
<1>. QED  BY <1>1

\* A step that moves no thread changes no number.
LEMMA CountKeep ==
  ASSUME NEW P, pc' = pc
  PROVE  Cardinality(In(P)') = Cardinality(In(P))
<1>1. In(P)' = In(P)
  BY DEF In
<1>. QED  BY <1>1

\* start() makes every thread of the pool come to "fetch", so it must be clear
\* that none of them ran before; likewise for the caller in stop().
StartOrder ==
  /\ owner = "open" /\ m_stopping => \A t \in Threads : pc[t] = "new"
  /\ UseCaller /\ owner \notin {"call", "join", "stopped"} => pc[Caller] = "new"

\* CountsExact, in terms of In.
Counted ==
  /\ m_activeThreadCount = Cardinality(In(ActivePlaces))
  /\ m_idleThreadCount = Cardinality(In(IdlePlaces))

\* The inductive invariant for any pool and workload.
BaseInv == TypeOK /\ Counted /\ StartOrder

\* With use_caller the owner's thread is one of the threads.
LEMMA CallerIsThread == UseCaller => Caller \in Threads
BY DEF Threads

\* What schedule() puts in the queue, and an empty entry, are entries.
LEMMA EntryTypes ==
  /\ NoEntry \in Entry
  /\ \A c \in Tasks, p \in Threads \cup {AnyThread} : OfCb(c, p) \in Entry
  /\ \A f \in Fibers \cup {NoFiber}, p \in Threads \cup {AnyThread} :
       OfFiber(f, p) \in Entry
BY DEF NoEntry, OfCb, OfFiber, Entry

\* Erasing an element leaves a sequence of elements of the same type.
LEMMA EraseType ==
  ASSUME NEW S, NEW s \in Seq(S), NEW i \in 1..Len(s)
  PROVE  /\ Erase(s, i) \in Seq(S)
         /\ Len(Erase(s, i)) = Len(s) - 1
BY DEF Erase

\* An allocation yields a fiber that did not exist.
LEMMA FreshType ==
  CanAllocate => Fresh \in Fibers /\ m_state[Fresh] = "NONE"
BY DEF CanAllocate, Fresh

\* The fiber and the callback in a thread's hands are fibers and callbacks.
LEMMA CurType ==
  ASSUME RunTypes, NEW t \in Threads
  PROVE  /\ Cur(t) \in Fibers \cup {NoFiber}
         /\ ft[t].cb \in Tasks \cup {NoCb}
         /\ ft[t].fiber \in Fibers \cup {NoFiber}
BY DEF RunTypes, Cur, Entry

\* The constructor leaves a state in which nobody has run.
LEMMA BaseInit == Init => BaseInv
<1>. SUFFICES ASSUME Init PROVE BaseInv
  OBVIOUS
<1>1. TypeOK
  <2>1. FiberTypes /\ RunTypes /\ CountTypes /\ WorkTypes
    BY EntryTypes
    DEF Init, FiberTypes, RunTypes, CountTypes, WorkTypes, FiberStates, Places,
        OwnerPlaces
  <2>2. FlagTypes
    BY Zenon DEF Init, FlagTypes
  <2>. QED  BY <2>1, <2>2 DEF TypeOK
<1>2. In(ActivePlaces) = {} /\ In(IdlePlaces) = {}
  BY DEF Init, In, ActivePlaces, IdlePlaces
<1>3. Counted
  BY <1>2, FS_EmptySet DEF Init, Counted
<1>4. StartOrder
  BY CallerIsThread DEF Init, StartOrder
<1>. QED  BY <1>1, <1>3, <1>4 DEF BaseInv

\* Every step keeps the types of the queue, the fibers, the threads' locals
\* and the bounds.
LEMMA TypesStep ==
  ASSUME FiberTypes, RunTypes, WorkTypes, [Next]_vars
  PROVE  FiberTypes' /\ RunTypes' /\ WorkTypes'
<1>1. ASSUME NEW c \in Tasks, NEW p \in ClientPins, ScheduleCb(c, p)
      PROVE  FiberTypes' /\ RunTypes' /\ WorkTypes'
  BY <1>1, EntryTypes, ThreadAssumption DEF ScheduleCb, FiberTypes,
      RunTypes, WorkTypes, fiberVars, runVars, countVars, stopVars, workVars
<1>2. ASSUME NEW c \in Tasks, NEW p \in ClientPins, ScheduleFiber(c, p)
      PROVE  FiberTypes' /\ RunTypes' /\ WorkTypes'
  BY <1>2, EntryTypes, ThreadAssumption, FreshType DEF ScheduleFiber,
      FiberTypes, RunTypes, WorkTypes, fiberVars, runVars, countVars, stopVars,
      workVars, FiberStates
<1>3. ASSUME NEW c \in Tasks, NEW d \in Tasks, ScheduleBatch(c, d)
      PROVE  FiberTypes' /\ RunTypes' /\ WorkTypes'
  BY <1>3, EntryTypes, ThreadAssumption DEF ScheduleBatch, FiberTypes,
      RunTypes, WorkTypes, fiberVars, runVars, countVars, stopVars, workVars
<1>4. CASE start
  BY <1>4, EntryTypes DEF start, FiberTypes, RunTypes, WorkTypes, fiberVars,
      runVars, countVars, stopVars, workVars, Places, ActivePlaces, IdlePlaces
<1>5. CASE StopFlag
  BY <1>5, EntryTypes DEF StopFlag, FiberTypes, RunTypes, WorkTypes,
      fiberVars, runVars, countVars, stopVars, workVars, OwnerPlaces
<1>6. CASE StopCallerOnly
  BY <1>6, EntryTypes DEF StopCallerOnly, FiberTypes, RunTypes, WorkTypes,
      fiberVars, runVars, countVars, stopVars, workVars, OwnerPlaces
<1>7. CASE StopProbe
  BY <1>7, EntryTypes DEF StopProbe, FiberTypes, RunTypes, WorkTypes,
      fiberVars, runVars, countVars, stopVars, workVars, OwnerPlaces
<1>8. CASE StopAll
  BY <1>8, EntryTypes DEF StopAll, FiberTypes, RunTypes, WorkTypes,
      fiberVars, runVars, countVars, stopVars, workVars, OwnerPlaces
<1>9. CASE StopRoot
  BY <1>9, EntryTypes, CallerIsThread DEF StopRoot, FiberTypes, RunTypes,
      WorkTypes, fiberVars, runVars, countVars, stopVars, workVars, OwnerPlaces,
      Places, ActivePlaces, IdlePlaces
<1>10. CASE RootBack
  BY <1>10, EntryTypes DEF RootBack, FiberTypes, RunTypes, WorkTypes,
      fiberVars, runVars, countVars, stopVars, workVars, OwnerPlaces, Places,
      ActivePlaces, IdlePlaces
<1>11. CASE Join
  BY <1>11, EntryTypes DEF Join, FiberTypes, RunTypes, WorkTypes, fiberVars,
      runVars, countVars, stopVars, workVars, OwnerPlaces, Places, ActivePlaces,
      IdlePlaces
<1>12. ASSUME NEW t \in Threads, FetchTask(t)
       PROVE  FiberTypes' /\ RunTypes' /\ WorkTypes'
  <2>1. PICK i \in 1..Len(m_fibers) : /\ ft' = [ft EXCEPT ![t] = m_fibers[i]]
                                     /\ m_fibers' = Erase(m_fibers, i)
    BY <1>12 DEF FetchTask
  <2>2. m_fibers[i] \in Entry
    BY DEF FiberTypes
  <2>3. m_fibers' \in Seq(Entry)
    BY <2>1, EraseType DEF FiberTypes
  <2>. QED  BY <1>12, <2>1, <2>2, <2>3 DEF FetchTask, FiberTypes, RunTypes,
      WorkTypes, fiberVars, stopVars, workVars, Places, ActivePlaces
<1>13. ASSUME NEW t \in Threads, FetchNothing(t)
       PROVE  FiberTypes' /\ RunTypes' /\ WorkTypes'
  BY <1>13, EntryTypes DEF FetchNothing, FiberTypes, RunTypes, WorkTypes,
      fiberVars, runVars, countVars, stopVars, workVars, Places, ActivePlaces,
      IdlePlaces
<1>14. ASSUME NEW t \in Threads, EnterIdle(t)
       PROVE  FiberTypes' /\ RunTypes' /\ WorkTypes'
  BY <1>14, EntryTypes DEF EnterIdle, FiberTypes, RunTypes, WorkTypes,
      fiberVars, runVars, countVars, stopVars, workVars, Places, ActivePlaces,
      IdlePlaces
<1>15. ASSUME NEW t \in Threads, Idle(t)
       PROVE  FiberTypes' /\ RunTypes' /\ WorkTypes'
  BY <1>15, EntryTypes DEF Idle, FiberTypes, RunTypes, WorkTypes, fiberVars,
      runVars, countVars, stopVars, workVars, Places, ActivePlaces, IdlePlaces
<1>16. ASSUME NEW t \in Threads, LeaveIdle(t)
       PROVE  FiberTypes' /\ RunTypes' /\ WorkTypes'
  BY <1>16, EntryTypes DEF LeaveIdle, FiberTypes, RunTypes, WorkTypes,
      fiberVars, runVars, countVars, stopVars, workVars, Places, ActivePlaces,
      IdlePlaces
<1>17. ASSUME NEW t \in Threads, ExitRun(t)
       PROVE  FiberTypes' /\ RunTypes' /\ WorkTypes'
  BY <1>17, EntryTypes DEF ExitRun, FiberTypes, RunTypes, WorkTypes,
      fiberVars, runVars, countVars, stopVars, workVars, Places, ActivePlaces,
      IdlePlaces
<1>18. ASSUME NEW t \in Threads, SwapInFiber(t)
       PROVE  FiberTypes' /\ RunTypes' /\ WorkTypes'
  BY <1>18, EntryTypes DEF SwapInFiber, FiberTypes, RunTypes, WorkTypes,
      fiberVars, runVars, countVars, stopVars, workVars, Places, ActivePlaces,
      IdlePlaces, FiberStates
<1>19. ASSUME NEW t \in Threads, SwapInCb(t)
       PROVE  FiberTypes' /\ RunTypes' /\ WorkTypes'
  <2>. DEFINE f == IF cb_fiber[t] # NoFiber THEN cb_fiber[t] ELSE Fresh
  <2>1. f \in Fibers
    BY <1>19, FreshType DEF SwapInCb, RunTypes
  <2>2. ft[t].cb \in Tasks \cup {NoCb}
    BY CurType
  <2>3. /\ m_state' = [m_state EXCEPT ![f] = "EXEC"]
        /\ m_cb' = [m_cb EXCEPT ![f] = ft[t].cb]
        /\ cb_fiber' = [cb_fiber EXCEPT ![t] = f]
        /\ ft' = [ft EXCEPT ![t] = NoEntry]
        /\ pc' = [pc EXCEPT ![t] = "exec"]
        /\ UNCHANGED <<m_fibers, idle_fiber, stopVars, workVars>>
    BY <1>19 DEF SwapInCb
  <2>. HIDE DEF f
  <2>4. FiberTypes'
    BY <2>1, <2>2, <2>3 DEF FiberTypes, FiberStates
  <2>5. RunTypes' /\ WorkTypes'
    BY <2>1, <2>3, EntryTypes DEF RunTypes, WorkTypes, stopVars, workVars,
        Places, ActivePlaces
  <2>. QED  BY <2>4, <2>5
<1>20. ASSUME NEW t \in Threads, SkipEnded(t)
       PROVE  FiberTypes' /\ RunTypes' /\ WorkTypes'
  BY <1>20, EntryTypes DEF SkipEnded, FiberTypes, RunTypes, WorkTypes,
      fiberVars, runVars, countVars, stopVars, workVars, Places, ActivePlaces,
      IdlePlaces
<1>21. ASSUME NEW t \in Threads, NEW c \in Tasks, NEW p \in BodyPins,
              BodySchedule(t, c, p)
       PROVE  FiberTypes' /\ RunTypes' /\ WorkTypes'
  BY <1>21, EntryTypes, ThreadAssumption DEF BodySchedule, FiberTypes,
      RunTypes, WorkTypes, fiberVars, runVars, countVars, stopVars, workVars,
      Places, ActivePlaces, IdlePlaces
<1>22. ASSUME NEW t \in Threads, YieldToReady(t)
       PROVE  FiberTypes' /\ RunTypes' /\ WorkTypes'
  <2>1. FiberTypes' /\ RunTypes'
    BY <1>22 DEF YieldToReady, FiberTypes, RunTypes, FiberStates, stopVars,
        Places, ActivePlaces
  <2>2. WorkTypes'
    BY <1>22 DEF YieldToReady, WorkTypes
  <2>. QED  BY <2>1, <2>2
<1>23. ASSUME NEW t \in Threads, NEW n \in 1..WaitsPerHold, ArrangeWake(t, n)
       PROVE  FiberTypes' /\ RunTypes' /\ WorkTypes'
  <2>1. FiberTypes' /\ RunTypes'
    BY <1>23 DEF ArrangeWake, FiberTypes, RunTypes, fiberVars, stopVars,
        Places, ActivePlaces
  <2>2. n \in Nat
    BY TaskAssumption
  <2>3. WorkTypes'
    <3>1. waits' = [waits EXCEPT ![Cur(t)] = waits[Cur(t)] + n]
      BY <1>23 DEF ArrangeWake
    <3>2. \A f \in Fibers : waits'[f] = waits[f] \/ waits'[f] = waits[f] + n
      BY <3>1 DEF WorkTypes
    <3>a. \A f \in Fibers : waits'[f] \in Nat
      BY <2>2, <3>2 DEF WorkTypes
    <3>b. waits' = [f \in Fibers |-> waits'[f]]
      BY <3>1 DEF WorkTypes
    <3>3. waits' \in [Fibers -> Nat]
      BY <3>a, <3>b
    <3>. QED  BY <1>23, <2>2, <3>3 DEF ArrangeWake, WorkTypes
  <2>. QED  BY <2>1, <2>3
<1>24. ASSUME NEW t \in Threads, NEW p \in SwitchTargets, SwitchTo(t, p)
       PROVE  FiberTypes' /\ RunTypes' /\ WorkTypes'
  <2>1. OfFiber(Cur(t), p) \in Entry
    BY CurType, EntryTypes, ThreadAssumption
  <2>2. FiberTypes'
    <3>1. m_fibers' = m_fibers \/ m_fibers' = Append(m_fibers,
        OfFiber(Cur(t), p))
      BY <1>24 DEF SwitchTo
    <3>2. m_fibers' \in Seq(Entry)
      BY <2>1, <3>1 DEF FiberTypes
    <3>. QED  BY <1>24, <3>2 DEF SwitchTo, FiberTypes, fiberVars
  <2>3. RunTypes'
    BY <1>24 DEF SwitchTo, RunTypes, stopVars, Places, ActivePlaces
  <2>4. WorkTypes'
    BY <1>24 DEF SwitchTo, WorkTypes
  <2>. QED  BY <2>2, <2>3, <2>4
<1>25. ASSUME NEW t \in Threads, YieldToHold(t)
       PROVE  FiberTypes' /\ RunTypes' /\ WorkTypes'
  BY <1>25, EntryTypes DEF YieldToHold, FiberTypes, RunTypes, WorkTypes,
      fiberVars, runVars, countVars, stopVars, workVars, Places, ActivePlaces,
      IdlePlaces, FiberStates
<1>26. ASSUME NEW t \in Threads, MainFuncReturn(t)
       PROVE  FiberTypes' /\ RunTypes' /\ WorkTypes'
  BY <1>26, EntryTypes DEF MainFuncReturn, FiberTypes, RunTypes, WorkTypes,
      fiberVars, runVars, countVars, stopVars, workVars, Places, ActivePlaces,
      IdlePlaces, FiberStates
<1>27. ASSUME NEW t \in Threads, MainFuncThrow(t)
       PROVE  FiberTypes' /\ RunTypes' /\ WorkTypes'
  BY <1>27, EntryTypes DEF MainFuncThrow, FiberTypes, RunTypes, WorkTypes,
      fiberVars, runVars, countVars, stopVars, workVars, Places, ActivePlaces,
      IdlePlaces, FiberStates
<1>28. ASSUME NEW t \in Threads, SwapOut(t)
       PROVE  FiberTypes' /\ RunTypes' /\ WorkTypes'
  BY <1>28, EntryTypes DEF SwapOut, FiberTypes, RunTypes, WorkTypes,
      fiberVars, runVars, countVars, stopVars, workVars, Places, ActivePlaces,
      IdlePlaces
<1>29. ASSUME NEW t \in Threads, Deactivate(t)
       PROVE  FiberTypes' /\ RunTypes' /\ WorkTypes'
  BY <1>29, EntryTypes DEF Deactivate, FiberTypes, RunTypes, WorkTypes,
      fiberVars, runVars, countVars, stopVars, workVars, Places, ActivePlaces,
      IdlePlaces
<1>30. ASSUME NEW t \in Threads, SettleReady(t)
       PROVE  FiberTypes' /\ RunTypes' /\ WorkTypes'
  <2>1. OfFiber(Cur(t), AnyThread) \in Entry
    BY CurType, EntryTypes
  <2>2. FiberTypes'
    BY <1>30, <2>1 DEF SettleReady, FiberTypes, fiberVars
  <2>3. RunTypes' /\ WorkTypes'
    BY <1>30, EntryTypes DEF SettleReady, LetGo, RunTypes, WorkTypes,
        stopVars, workVars, Places
  <2>. QED  BY <2>2, <2>3
<1>31. ASSUME NEW t \in Threads, SettleEnded(t)
       PROVE  FiberTypes' /\ RunTypes' /\ WorkTypes'
  BY <1>31, EntryTypes DEF SettleEnded, FiberTypes, RunTypes, WorkTypes,
      fiberVars, runVars, countVars, stopVars, workVars, Places, ActivePlaces,
      IdlePlaces, FiberStates
<1>32. ASSUME NEW t \in Threads, SettleHold(t)
       PROVE  FiberTypes' /\ RunTypes' /\ WorkTypes'
  BY <1>32, EntryTypes DEF SettleHold, FiberTypes, RunTypes, WorkTypes,
      fiberVars, runVars, countVars, stopVars, workVars, Places, ActivePlaces,
      IdlePlaces, LetGo, FiberStates
<1>33. ASSUME NEW f \in Fibers, Wake(f)
       PROVE  FiberTypes' /\ RunTypes' /\ WorkTypes'
  BY <1>33, EntryTypes DEF Wake, FiberTypes, RunTypes, WorkTypes, fiberVars,
      runVars, countVars, stopVars, workVars, Places, ActivePlaces, IdlePlaces,
      Cur
<1>34. CASE Finished \/ UNCHANGED vars
  BY <1>34 DEF Finished, vars, fiberVars, runVars, countVars, stopVars,
      workVars, FiberTypes, RunTypes, WorkTypes
<1>. QED
  BY <1>1, <1>2, <1>3, <1>4, <1>5, <1>6, <1>7, <1>8, <1>9, <1>10, <1>11,
      <1>12, <1>13, <1>14, <1>15, <1>16, <1>17, <1>18, <1>19, <1>20, <1>21,
      <1>22, <1>23, <1>24, <1>25, <1>26, <1>27, <1>28, <1>29, <1>30, <1>31,
      <1>32, <1>33, <1>34 DEF Next, Owner, Stop, Run, Body

\* The flags stay flags.
LEMMA FlagsStep ==
  ASSUME FlagTypes, [Next]_vars
  PROVE  FlagTypes'
<1>1. ASSUME NEW c \in Tasks, NEW p \in ClientPins, ScheduleCb(c, p)
      PROVE  FlagTypes'
  BY <1>1, Zenon DEF ScheduleCb, stopVars, FlagTypes
<1>2. ASSUME NEW c \in Tasks, NEW p \in ClientPins, ScheduleFiber(c, p)
      PROVE  FlagTypes'
  BY <1>2, Zenon DEF ScheduleFiber, stopVars, FlagTypes
<1>3. ASSUME NEW c \in Tasks, NEW d \in Tasks, ScheduleBatch(c, d)
      PROVE  FlagTypes'
  BY <1>3, Zenon DEF ScheduleBatch, stopVars, FlagTypes
<1>4. CASE start
  BY <1>4, Zenon DEF start, stopVars, FlagTypes
<1>5. CASE StopFlag
  BY <1>5, Zenon DEF StopFlag, stopVars, FlagTypes
<1>6. CASE StopCallerOnly
  BY <1>6, Zenon DEF StopCallerOnly, stopVars, FlagTypes
<1>7. CASE StopProbe
  BY <1>7, Zenon DEF StopProbe, stopVars, FlagTypes
<1>8. CASE StopAll
  BY <1>8, Zenon DEF StopAll, stopVars, FlagTypes
<1>9. CASE StopRoot
  BY <1>9, Zenon DEF StopRoot, stopVars, FlagTypes
<1>10. CASE RootBack
  BY <1>10, Zenon DEF RootBack, stopVars, FlagTypes
<1>11. CASE Join
  BY <1>11, Zenon DEF Join, stopVars, FlagTypes
<1>12. ASSUME NEW t \in Threads, FetchTask(t)
       PROVE  FlagTypes'
  BY <1>12, Zenon DEF FetchTask, stopVars, FlagTypes
<1>13. ASSUME NEW t \in Threads, FetchNothing(t)
       PROVE  FlagTypes'
  BY <1>13, Zenon DEF FetchNothing, stopVars, FlagTypes
<1>14. ASSUME NEW t \in Threads, EnterIdle(t)
       PROVE  FlagTypes'
  BY <1>14, Zenon DEF EnterIdle, stopVars, FlagTypes
<1>15. ASSUME NEW t \in Threads, Idle(t)
       PROVE  FlagTypes'
  BY <1>15, Zenon DEF Idle, stopVars, FlagTypes
<1>16. ASSUME NEW t \in Threads, LeaveIdle(t)
       PROVE  FlagTypes'
  BY <1>16, Zenon DEF LeaveIdle, stopVars, FlagTypes
<1>17. ASSUME NEW t \in Threads, ExitRun(t)
       PROVE  FlagTypes'
  BY <1>17, Zenon DEF ExitRun, stopVars, FlagTypes
<1>18. ASSUME NEW t \in Threads, SwapInFiber(t)
       PROVE  FlagTypes'
  BY <1>18, Zenon DEF SwapInFiber, stopVars, FlagTypes, SYLAR_ASSERT
<1>19. ASSUME NEW t \in Threads, SwapInCb(t)
       PROVE  FlagTypes'
  BY <1>19, Zenon DEF SwapInCb, stopVars, FlagTypes, SYLAR_ASSERT
<1>20. ASSUME NEW t \in Threads, SkipEnded(t)
       PROVE  FlagTypes'
  BY <1>20, Zenon DEF SkipEnded, stopVars, FlagTypes
<1>21. ASSUME NEW t \in Threads, NEW c \in Tasks, NEW p \in BodyPins,
              BodySchedule(t, c, p)
       PROVE  FlagTypes'
  BY <1>21, Zenon DEF BodySchedule, stopVars, FlagTypes
<1>22. ASSUME NEW t \in Threads, YieldToReady(t)
       PROVE  FlagTypes'
  BY <1>22, Zenon DEF YieldToReady, stopVars, FlagTypes, SYLAR_ASSERT
<1>23. ASSUME NEW t \in Threads, NEW n \in 1..WaitsPerHold, ArrangeWake(t, n)
       PROVE  FlagTypes'
  BY <1>23, Zenon DEF ArrangeWake, stopVars, FlagTypes
<1>24. ASSUME NEW t \in Threads, NEW p \in SwitchTargets, SwitchTo(t, p)
       PROVE  FlagTypes'
  BY <1>24, Zenon DEF SwitchTo, stopVars, FlagTypes
<1>25. ASSUME NEW t \in Threads, YieldToHold(t)
       PROVE  FlagTypes'
  BY <1>25, Zenon DEF YieldToHold, stopVars, FlagTypes, SYLAR_ASSERT
<1>26. ASSUME NEW t \in Threads, MainFuncReturn(t)
       PROVE  FlagTypes'
  BY <1>26, Zenon DEF MainFuncReturn, stopVars, FlagTypes
<1>27. ASSUME NEW t \in Threads, MainFuncThrow(t)
       PROVE  FlagTypes'
  BY <1>27, Zenon DEF MainFuncThrow, stopVars, FlagTypes
<1>28. ASSUME NEW t \in Threads, SwapOut(t)
       PROVE  FlagTypes'
  BY <1>28, Zenon DEF SwapOut, stopVars, FlagTypes
<1>29. ASSUME NEW t \in Threads, Deactivate(t)
       PROVE  FlagTypes'
  BY <1>29, Zenon DEF Deactivate, stopVars, FlagTypes
<1>30. ASSUME NEW t \in Threads, SettleReady(t)
       PROVE  FlagTypes'
  BY <1>30, Zenon DEF SettleReady, stopVars, FlagTypes
<1>31. ASSUME NEW t \in Threads, SettleEnded(t)
       PROVE  FlagTypes'
  BY <1>31, Zenon DEF SettleEnded, stopVars, FlagTypes
<1>32. ASSUME NEW t \in Threads, SettleHold(t)
       PROVE  FlagTypes'
  BY <1>32, Zenon DEF SettleHold, stopVars, FlagTypes
<1>33. ASSUME NEW f \in Fibers, Wake(f)
       PROVE  FlagTypes'
  BY <1>33, Zenon DEF Wake, stopVars, FlagTypes
<1>34. CASE Finished \/ UNCHANGED vars
  BY <1>34, Zenon DEF Finished, vars, stopVars, FlagTypes
<1>. QED
  BY <1>1, <1>2, <1>3, <1>4, <1>5, <1>6, <1>7, <1>8, <1>9, <1>10, <1>11,
      <1>12, <1>13, <1>14, <1>15, <1>16, <1>17, <1>18, <1>19, <1>20, <1>21,
      <1>22, <1>23, <1>24, <1>25, <1>26, <1>27, <1>28, <1>29, <1>30, <1>31,
      <1>32, <1>33, <1>34 DEF Next, Owner, Stop, Run, Body

\* The counters follow the threads, and so stay natural numbers.
LEMMA CountsStep ==
  ASSUME RunTypes, CountTypes, Counted, StartOrder, [Next]_vars
  PROVE  CountTypes' /\ Counted'
<1>1. ASSUME NEW c \in Tasks, NEW p \in ClientPins, ScheduleCb(c, p)
      PROVE  CountTypes' /\ Counted'
  BY <1>1, CountKeep DEF ScheduleCb, runVars, countVars, Counted, CountTypes
<1>2. ASSUME NEW c \in Tasks, NEW p \in ClientPins, ScheduleFiber(c, p)
      PROVE  CountTypes' /\ Counted'
  BY <1>2, CountKeep DEF ScheduleFiber, runVars, countVars, Counted,
      CountTypes
<1>3. ASSUME NEW c \in Tasks, NEW d \in Tasks, ScheduleBatch(c, d)
      PROVE  CountTypes' /\ Counted'
  BY <1>3, CountKeep DEF ScheduleBatch, runVars, countVars, Counted,
      CountTypes
<1>4. CASE start
  <2>1. /\ Cardinality(In(ActivePlaces)') = Cardinality(In(ActivePlaces))
        /\ Cardinality(In(IdlePlaces)') = Cardinality(In(IdlePlaces))
    <3>1. \A t \in Threads : pc[t] = "new" /\ pc'[t] \in {"new", "fetch"}
      BY <1>4 DEF start, StartOrder
    <3>2. In(ActivePlaces)' = In(ActivePlaces) /\ In(IdlePlaces)' =
        In(IdlePlaces)
      BY <3>1 DEF In, ActivePlaces, IdlePlaces
    <3>. QED  BY <3>2
  <2>. QED  BY <1>4, <2>1 DEF start, countVars, Counted, CountTypes
<1>5. CASE StopFlag
  BY <1>5, CountKeep DEF StopFlag, runVars, countVars, Counted, CountTypes
<1>6. CASE StopCallerOnly
  BY <1>6, CountKeep DEF StopCallerOnly, runVars, countVars, Counted,
      CountTypes
<1>7. CASE StopProbe
  BY <1>7, CountKeep DEF StopProbe, runVars, countVars, Counted, CountTypes
<1>8. CASE StopAll
  BY <1>8, CountKeep DEF StopAll, runVars, countVars, Counted, CountTypes
<1>9. CASE StopRoot
  <2>1. /\ Cardinality(In(ActivePlaces)') = Cardinality(In(ActivePlaces))
        /\ Cardinality(In(IdlePlaces)') = Cardinality(In(IdlePlaces))
    <3>1. CASE pc' = pc
      BY <3>1, CountKeep
    <3>2. CASE UseCaller /\ pc' = [pc EXCEPT ![Caller] = "fetch"]
      <4>1. Caller \in Threads /\ pc[Caller] = "new"
        BY <1>9, <3>2, CallerIsThread DEF StopRoot, StartOrder
      <4>. QED  BY <3>2, <4>1, CountSame DEF RunTypes, ActivePlaces,
          IdlePlaces
    <3>3. CASE ~ UseCaller /\ pc' = [pc EXCEPT ![Caller] = "fetch"]
      <4>1. Caller \notin Threads
        BY <3>3, ThreadAssumption DEF Threads
      <4>2. pc' = pc
        BY <3>3, <4>1 DEF RunTypes
      <4>. QED  BY <4>2, CountKeep
    <3>. QED  BY <1>9, <3>1, <3>2, <3>3, ThreadAssumption DEF StopRoot
  <2>. QED  BY <1>9, <2>1 DEF StopRoot, countVars, Counted, CountTypes
<1>10. CASE RootBack
  BY <1>10, CountKeep DEF RootBack, runVars, countVars, Counted, CountTypes
<1>11. CASE Join
  BY <1>11, CountKeep DEF Join, runVars, countVars, Counted, CountTypes
<1>12. ASSUME NEW t \in Threads, FetchTask(t)
       PROVE  CountTypes' /\ Counted'
  <2>1. Cardinality(In(ActivePlaces)') = Cardinality(In(ActivePlaces)) + 1
    BY <1>12, CountUp, ZenonT(30) DEF FetchTask, RunTypes, ActivePlaces
  <2>2. Cardinality(In(IdlePlaces)') = Cardinality(In(IdlePlaces))
    BY <1>12, CountSame DEF FetchTask, RunTypes, IdlePlaces
  <2>. QED  BY <1>12, <2>1, <2>2 DEF FetchTask, countVars, Counted, CountTypes
<1>13. ASSUME NEW t \in Threads, FetchNothing(t)
       PROVE  CountTypes' /\ Counted'
  <2>1. Cardinality(In(ActivePlaces)') = Cardinality(In(ActivePlaces))
    BY <1>13, CountSame DEF FetchNothing, RunTypes, ActivePlaces
  <2>2. Cardinality(In(IdlePlaces)') = Cardinality(In(IdlePlaces))
    BY <1>13, CountSame DEF FetchNothing, RunTypes, IdlePlaces
  <2>. QED  BY <1>13, <2>1, <2>2 DEF FetchNothing, countVars, Counted,
      CountTypes
<1>14. ASSUME NEW t \in Threads, EnterIdle(t)
       PROVE  CountTypes' /\ Counted'
  <2>1. Cardinality(In(ActivePlaces)') = Cardinality(In(ActivePlaces))
    BY <1>14, CountSame DEF EnterIdle, RunTypes, ActivePlaces
  <2>2. Cardinality(In(IdlePlaces)') = Cardinality(In(IdlePlaces)) + 1
    BY <1>14, CountUp DEF EnterIdle, RunTypes, IdlePlaces
  <2>. QED  BY <1>14, <2>1, <2>2 DEF EnterIdle, countVars, Counted, CountTypes
<1>15. ASSUME NEW t \in Threads, Idle(t)
       PROVE  CountTypes' /\ Counted'
  <2>1. Cardinality(In(ActivePlaces)') = Cardinality(In(ActivePlaces))
    BY <1>15, CountSame DEF Idle, RunTypes, ActivePlaces
  <2>2. Cardinality(In(IdlePlaces)') = Cardinality(In(IdlePlaces))
    BY <1>15, CountSame DEF Idle, RunTypes, IdlePlaces
  <2>. QED  BY <1>15, <2>1, <2>2 DEF Idle, countVars, Counted, CountTypes
<1>16. ASSUME NEW t \in Threads, LeaveIdle(t)
       PROVE  CountTypes' /\ Counted'
  <2>1. /\ pc' = [pc EXCEPT ![t] = "fetch"]
        /\ pc[t] \in IdlePlaces \ ActivePlaces
        /\ "fetch" \notin IdlePlaces \cup ActivePlaces
    BY <1>16 DEF LeaveIdle, IdlePlaces, ActivePlaces
  <2>2. Cardinality(In(ActivePlaces)') = Cardinality(In(ActivePlaces))
    BY <2>1, CountSame DEF RunTypes
  <2>3. /\ Cardinality(In(IdlePlaces)') = Cardinality(In(IdlePlaces)) - 1
        /\ Cardinality(In(IdlePlaces)) \in Nat \ {0}
    BY <2>1, CountDown DEF RunTypes
  <2>. QED  BY <1>16, <2>2, <2>3 DEF LeaveIdle, Counted, CountTypes
<1>17. ASSUME NEW t \in Threads, ExitRun(t)
       PROVE  CountTypes' /\ Counted'
  <2>1. Cardinality(In(ActivePlaces)') = Cardinality(In(ActivePlaces))
    BY <1>17, CountSame DEF ExitRun, RunTypes, ActivePlaces
  <2>2. Cardinality(In(IdlePlaces)') = Cardinality(In(IdlePlaces))
    BY <1>17, CountSame DEF ExitRun, RunTypes, IdlePlaces
  <2>. QED  BY <1>17, <2>1, <2>2 DEF ExitRun, countVars, Counted, CountTypes
<1>18. ASSUME NEW t \in Threads, SwapInFiber(t)
       PROVE  CountTypes' /\ Counted'
  <2>1. Cardinality(In(ActivePlaces)') = Cardinality(In(ActivePlaces))
    BY <1>18, CountSame DEF SwapInFiber, RunTypes, ActivePlaces
  <2>2. Cardinality(In(IdlePlaces)') = Cardinality(In(IdlePlaces))
    BY <1>18, CountSame DEF SwapInFiber, RunTypes, IdlePlaces
  <2>. QED  BY <1>18, <2>1, <2>2 DEF SwapInFiber, countVars, Counted,
      CountTypes
<1>19. ASSUME NEW t \in Threads, SwapInCb(t)
       PROVE  CountTypes' /\ Counted'
  <2>1. Cardinality(In(ActivePlaces)') = Cardinality(In(ActivePlaces))
    BY <1>19, CountSame DEF SwapInCb, RunTypes, ActivePlaces
  <2>2. Cardinality(In(IdlePlaces)') = Cardinality(In(IdlePlaces))
    BY <1>19, CountSame DEF SwapInCb, RunTypes, IdlePlaces
  <2>. QED  BY <1>19, <2>1, <2>2 DEF SwapInCb, countVars, Counted, CountTypes
<1>20. ASSUME NEW t \in Threads, SkipEnded(t)
       PROVE  CountTypes' /\ Counted'
  <2>1. /\ Cardinality(In(ActivePlaces)') = Cardinality(In(ActivePlaces)) - 1
        /\ Cardinality(In(ActivePlaces)) \in Nat \ {0}
    BY <1>20, CountDown DEF SkipEnded, RunTypes, ActivePlaces
  <2>2. Cardinality(In(IdlePlaces)') = Cardinality(In(IdlePlaces))
    BY <1>20, CountSame DEF SkipEnded, RunTypes, IdlePlaces
  <2>. QED  BY <1>20, <2>1, <2>2 DEF SkipEnded, countVars, Counted, CountTypes
<1>21. ASSUME NEW t \in Threads, NEW c \in Tasks, NEW p \in BodyPins,
              BodySchedule(t, c, p)
       PROVE  CountTypes' /\ Counted'
  BY <1>21, CountKeep DEF BodySchedule, runVars, countVars, Counted,
      CountTypes
<1>22. ASSUME NEW t \in Threads, YieldToReady(t)
       PROVE  CountTypes' /\ Counted'
  <2>1. Cardinality(In(ActivePlaces)') = Cardinality(In(ActivePlaces))
    BY <1>22, CountSame DEF YieldToReady, RunTypes, ActivePlaces
  <2>2. Cardinality(In(IdlePlaces)') = Cardinality(In(IdlePlaces))
    BY <1>22, CountSame DEF YieldToReady, RunTypes, IdlePlaces
  <2>. QED  BY <1>22, <2>1, <2>2 DEF YieldToReady, countVars, Counted,
      CountTypes
<1>23. ASSUME NEW t \in Threads, NEW n \in 1..WaitsPerHold, ArrangeWake(t, n)
       PROVE  CountTypes' /\ Counted'
  <2>1. Cardinality(In(ActivePlaces)') = Cardinality(In(ActivePlaces))
    BY <1>23, CountSame DEF ArrangeWake, RunTypes, ActivePlaces
  <2>2. Cardinality(In(IdlePlaces)') = Cardinality(In(IdlePlaces))
    BY <1>23, CountSame DEF ArrangeWake, RunTypes, IdlePlaces
  <2>. QED  BY <1>23, <2>1, <2>2 DEF ArrangeWake, countVars, Counted,
      CountTypes
<1>24. ASSUME NEW t \in Threads, NEW p \in SwitchTargets, SwitchTo(t, p)
       PROVE  CountTypes' /\ Counted'
  <2>1. pc' = pc \/ pc' = [pc EXCEPT ![t] = "hold"]
    BY <1>24 DEF SwitchTo
  <2>2. pc[t] = "exec"
    BY <1>24 DEF SwitchTo
  <2>3. Cardinality(In(ActivePlaces)') = Cardinality(In(ActivePlaces))
    BY <2>1, <2>2, CountSame, CountKeep DEF RunTypes, ActivePlaces
  <2>4. Cardinality(In(IdlePlaces)') = Cardinality(In(IdlePlaces))
    BY <2>1, <2>2, CountSame, CountKeep DEF RunTypes, IdlePlaces
  <2>. QED  BY <1>24, <2>3, <2>4 DEF SwitchTo, countVars, Counted, CountTypes
<1>25. ASSUME NEW t \in Threads, YieldToHold(t)
       PROVE  CountTypes' /\ Counted'
  <2>1. Cardinality(In(ActivePlaces)') = Cardinality(In(ActivePlaces))
    BY <1>25, CountSame DEF YieldToHold, RunTypes, ActivePlaces
  <2>2. Cardinality(In(IdlePlaces)') = Cardinality(In(IdlePlaces))
    BY <1>25, CountSame DEF YieldToHold, RunTypes, IdlePlaces
  <2>. QED  BY <1>25, <2>1, <2>2 DEF YieldToHold, countVars, Counted,
      CountTypes
<1>26. ASSUME NEW t \in Threads, MainFuncReturn(t)
       PROVE  CountTypes' /\ Counted'
  <2>1. Cardinality(In(ActivePlaces)') = Cardinality(In(ActivePlaces))
    BY <1>26, CountSame DEF MainFuncReturn, RunTypes, ActivePlaces
  <2>2. Cardinality(In(IdlePlaces)') = Cardinality(In(IdlePlaces))
    BY <1>26, CountSame DEF MainFuncReturn, RunTypes, IdlePlaces
  <2>. QED  BY <1>26, <2>1, <2>2 DEF MainFuncReturn, countVars, Counted,
      CountTypes
<1>27. ASSUME NEW t \in Threads, MainFuncThrow(t)
       PROVE  CountTypes' /\ Counted'
  <2>1. Cardinality(In(ActivePlaces)') = Cardinality(In(ActivePlaces))
    BY <1>27, CountSame DEF MainFuncThrow, RunTypes, ActivePlaces
  <2>2. Cardinality(In(IdlePlaces)') = Cardinality(In(IdlePlaces))
    BY <1>27, CountSame DEF MainFuncThrow, RunTypes, IdlePlaces
  <2>. QED  BY <1>27, <2>1, <2>2 DEF MainFuncThrow, countVars, Counted,
      CountTypes
<1>28. ASSUME NEW t \in Threads, SwapOut(t)
       PROVE  CountTypes' /\ Counted'
  <2>1. Cardinality(In(ActivePlaces)') = Cardinality(In(ActivePlaces))
    BY <1>28, CountSame DEF SwapOut, RunTypes, ActivePlaces
  <2>2. Cardinality(In(IdlePlaces)') = Cardinality(In(IdlePlaces))
    BY <1>28, CountSame DEF SwapOut, RunTypes, IdlePlaces
  <2>. QED  BY <1>28, <2>1, <2>2 DEF SwapOut, countVars, Counted, CountTypes
<1>29. ASSUME NEW t \in Threads, Deactivate(t)
       PROVE  CountTypes' /\ Counted'
  <2>1. /\ Cardinality(In(ActivePlaces)') = Cardinality(In(ActivePlaces)) - 1
        /\ Cardinality(In(ActivePlaces)) \in Nat \ {0}
    BY <1>29, CountDown DEF Deactivate, RunTypes, ActivePlaces
  <2>2. Cardinality(In(IdlePlaces)') = Cardinality(In(IdlePlaces))
    BY <1>29, CountSame DEF Deactivate, RunTypes, IdlePlaces
  <2>. QED  BY <1>29, <2>1, <2>2 DEF Deactivate, countVars, Counted,
      CountTypes
<1>30. ASSUME NEW t \in Threads, SettleReady(t)
       PROVE  CountTypes' /\ Counted'
  <2>1. Cardinality(In(ActivePlaces)') = Cardinality(In(ActivePlaces))
    BY <1>30, CountSame DEF SettleReady, RunTypes, ActivePlaces
  <2>2. Cardinality(In(IdlePlaces)') = Cardinality(In(IdlePlaces))
    BY <1>30, CountSame DEF SettleReady, RunTypes, IdlePlaces
  <2>. QED  BY <1>30, <2>1, <2>2 DEF SettleReady, countVars, Counted,
      CountTypes
<1>31. ASSUME NEW t \in Threads, SettleEnded(t)
       PROVE  CountTypes' /\ Counted'
  <2>1. Cardinality(In(ActivePlaces)') = Cardinality(In(ActivePlaces))
    BY <1>31, CountSame DEF SettleEnded, RunTypes, ActivePlaces
  <2>2. Cardinality(In(IdlePlaces)') = Cardinality(In(IdlePlaces))
    BY <1>31, CountSame DEF SettleEnded, RunTypes, IdlePlaces
  <2>. QED  BY <1>31, <2>1, <2>2 DEF SettleEnded, countVars, Counted,
      CountTypes
<1>32. ASSUME NEW t \in Threads, SettleHold(t)
       PROVE  CountTypes' /\ Counted'
  <2>1. Cardinality(In(ActivePlaces)') = Cardinality(In(ActivePlaces))
    BY <1>32, CountSame DEF SettleHold, RunTypes, ActivePlaces
  <2>2. Cardinality(In(IdlePlaces)') = Cardinality(In(IdlePlaces))
    BY <1>32, CountSame DEF SettleHold, RunTypes, IdlePlaces
  <2>. QED  BY <1>32, <2>1, <2>2 DEF SettleHold, countVars, Counted,
      CountTypes
<1>33. ASSUME NEW f \in Fibers, Wake(f)
       PROVE  CountTypes' /\ Counted'
  BY <1>33, CountKeep DEF Wake, runVars, countVars, Counted, CountTypes
<1>34. CASE Finished \/ UNCHANGED vars
  BY <1>34, CountKeep DEF Finished, vars, runVars, countVars, Counted,
      CountTypes
<1>. QED
  BY <1>1, <1>2, <1>3, <1>4, <1>5, <1>6, <1>7, <1>8, <1>9, <1>10, <1>11,
      <1>12, <1>13, <1>14, <1>15, <1>16, <1>17, <1>18, <1>19, <1>20, <1>21,
      <1>22, <1>23, <1>24, <1>25, <1>26, <1>27, <1>28, <1>29, <1>30, <1>31,
      <1>32, <1>33, <1>34 DEF Next, Owner, Stop, Run, Body

\* A thread that has not been started is moved by start() and stop() only.
LEMMA StartStep ==
  ASSUME RunTypes, StartOrder, [Next]_vars
  PROVE  StartOrder'
<1>1. ASSUME NEW c \in Tasks, NEW p \in ClientPins, ScheduleCb(c, p)
      PROVE  StartOrder'
  BY <1>1, CallerIsThread, ThreadAssumption DEF ScheduleCb, runVars,
      stopVars, StartOrder, RunTypes
<1>2. ASSUME NEW c \in Tasks, NEW p \in ClientPins, ScheduleFiber(c, p)
      PROVE  StartOrder'
  BY <1>2, CallerIsThread, ThreadAssumption DEF ScheduleFiber, runVars,
      stopVars, StartOrder, RunTypes
<1>3. ASSUME NEW c \in Tasks, NEW d \in Tasks, ScheduleBatch(c, d)
      PROVE  StartOrder'
  BY <1>3, CallerIsThread, ThreadAssumption DEF ScheduleBatch, runVars,
      stopVars, StartOrder, RunTypes
<1>4. CASE start
  BY <1>4, CallerIsThread, ThreadAssumption DEF start, runVars, stopVars,
      StartOrder, RunTypes
<1>5. CASE StopFlag
  BY <1>5, CallerIsThread, ThreadAssumption DEF StopFlag, runVars, stopVars,
      StartOrder, RunTypes
<1>6. CASE StopCallerOnly
  BY <1>6, CallerIsThread, ThreadAssumption DEF StopCallerOnly, runVars,
      stopVars, StartOrder, RunTypes
<1>7. CASE StopProbe
  BY <1>7, CallerIsThread, ThreadAssumption DEF StopProbe, runVars,
      stopVars, StartOrder, RunTypes
<1>8. CASE StopAll
  BY <1>8, CallerIsThread, ThreadAssumption DEF StopAll, runVars, stopVars,
      StartOrder, RunTypes
<1>9. CASE StopRoot
  BY <1>9, CallerIsThread, ThreadAssumption DEF StopRoot, runVars, stopVars,
      StartOrder, RunTypes
<1>10. CASE RootBack
  BY <1>10, CallerIsThread, ThreadAssumption DEF RootBack, runVars,
      stopVars, StartOrder, RunTypes
<1>11. CASE Join
  BY <1>11, CallerIsThread, ThreadAssumption DEF Join, runVars, stopVars,
      StartOrder, RunTypes
<1>12. ASSUME NEW t \in Threads, FetchTask(t)
       PROVE  StartOrder'
  BY <1>12, CallerIsThread, ThreadAssumption DEF FetchTask, runVars,
      stopVars, StartOrder, RunTypes
<1>13. ASSUME NEW t \in Threads, FetchNothing(t)
       PROVE  StartOrder'
  BY <1>13, CallerIsThread, ThreadAssumption DEF FetchNothing, runVars,
      stopVars, StartOrder, RunTypes
<1>14. ASSUME NEW t \in Threads, EnterIdle(t)
       PROVE  StartOrder'
  BY <1>14, CallerIsThread, ThreadAssumption DEF EnterIdle, runVars,
      stopVars, StartOrder, RunTypes
<1>15. ASSUME NEW t \in Threads, Idle(t)
       PROVE  StartOrder'
  BY <1>15, CallerIsThread, ThreadAssumption DEF Idle, runVars, stopVars,
      StartOrder, RunTypes
<1>16. ASSUME NEW t \in Threads, LeaveIdle(t)
       PROVE  StartOrder'
  BY <1>16, CallerIsThread, ThreadAssumption DEF LeaveIdle, runVars,
      stopVars, StartOrder, RunTypes
<1>17. ASSUME NEW t \in Threads, ExitRun(t)
       PROVE  StartOrder'
  BY <1>17, CallerIsThread, ThreadAssumption DEF ExitRun, runVars, stopVars,
      StartOrder, RunTypes
<1>18. ASSUME NEW t \in Threads, SwapInFiber(t)
       PROVE  StartOrder'
  BY <1>18, CallerIsThread, ThreadAssumption DEF SwapInFiber, runVars,
      stopVars, StartOrder, RunTypes
<1>19. ASSUME NEW t \in Threads, SwapInCb(t)
       PROVE  StartOrder'
  BY <1>19, CallerIsThread, ThreadAssumption DEF SwapInCb, runVars,
      stopVars, StartOrder, RunTypes
<1>20. ASSUME NEW t \in Threads, SkipEnded(t)
       PROVE  StartOrder'
  BY <1>20, CallerIsThread, ThreadAssumption DEF SkipEnded, runVars,
      stopVars, StartOrder, RunTypes
<1>21. ASSUME NEW t \in Threads, NEW c \in Tasks, NEW p \in BodyPins,
              BodySchedule(t, c, p)
       PROVE  StartOrder'
  BY <1>21, CallerIsThread, ThreadAssumption DEF BodySchedule, runVars,
      stopVars, StartOrder, RunTypes
<1>22. ASSUME NEW t \in Threads, YieldToReady(t)
       PROVE  StartOrder'
  BY <1>22, CallerIsThread, ThreadAssumption DEF YieldToReady, runVars,
      stopVars, StartOrder, RunTypes
<1>23. ASSUME NEW t \in Threads, NEW n \in 1..WaitsPerHold, ArrangeWake(t, n)
       PROVE  StartOrder'
  BY <1>23, CallerIsThread, ThreadAssumption DEF ArrangeWake, runVars,
      stopVars, StartOrder, RunTypes
<1>24. ASSUME NEW t \in Threads, NEW p \in SwitchTargets, SwitchTo(t, p)
       PROVE  StartOrder'
  BY <1>24, CallerIsThread, ThreadAssumption DEF SwitchTo, runVars,
      stopVars, StartOrder, RunTypes
<1>25. ASSUME NEW t \in Threads, YieldToHold(t)
       PROVE  StartOrder'
  BY <1>25, CallerIsThread, ThreadAssumption DEF YieldToHold, runVars,
      stopVars, StartOrder, RunTypes
<1>26. ASSUME NEW t \in Threads, MainFuncReturn(t)
       PROVE  StartOrder'
  BY <1>26, CallerIsThread, ThreadAssumption DEF MainFuncReturn, runVars,
      stopVars, StartOrder, RunTypes
<1>27. ASSUME NEW t \in Threads, MainFuncThrow(t)
       PROVE  StartOrder'
  BY <1>27, CallerIsThread, ThreadAssumption DEF MainFuncThrow, runVars,
      stopVars, StartOrder, RunTypes
<1>28. ASSUME NEW t \in Threads, SwapOut(t)
       PROVE  StartOrder'
  BY <1>28, CallerIsThread, ThreadAssumption DEF SwapOut, runVars, stopVars,
      StartOrder, RunTypes
<1>29. ASSUME NEW t \in Threads, Deactivate(t)
       PROVE  StartOrder'
  BY <1>29, CallerIsThread, ThreadAssumption DEF Deactivate, runVars,
      stopVars, StartOrder, RunTypes
<1>30. ASSUME NEW t \in Threads, SettleReady(t)
       PROVE  StartOrder'
  BY <1>30, CallerIsThread, ThreadAssumption DEF SettleReady, runVars,
      stopVars, StartOrder, RunTypes
<1>31. ASSUME NEW t \in Threads, SettleEnded(t)
       PROVE  StartOrder'
  BY <1>31, CallerIsThread, ThreadAssumption DEF SettleEnded, runVars,
      stopVars, StartOrder, RunTypes
<1>32. ASSUME NEW t \in Threads, SettleHold(t)
       PROVE  StartOrder'
  BY <1>32, CallerIsThread, ThreadAssumption DEF SettleHold, runVars,
      stopVars, StartOrder, RunTypes
<1>33. ASSUME NEW f \in Fibers, Wake(f)
       PROVE  StartOrder'
  BY <1>33, CallerIsThread, ThreadAssumption DEF Wake, runVars, stopVars,
      StartOrder, RunTypes
<1>34. CASE Finished \/ UNCHANGED vars
  BY <1>34 DEF Finished, vars, runVars, stopVars, StartOrder
<1>. QED
  BY <1>1, <1>2, <1>3, <1>4, <1>5, <1>6, <1>7, <1>8, <1>9, <1>10, <1>11,
      <1>12, <1>13, <1>14, <1>15, <1>16, <1>17, <1>18, <1>19, <1>20, <1>21,
      <1>22, <1>23, <1>24, <1>25, <1>26, <1>27, <1>28, <1>29, <1>30, <1>31,
      <1>32, <1>33, <1>34 DEF Next, Owner, Stop, Run, Body

\* Every step keeps types, counters and the order of start() and stop().
LEMMA BaseStep == BaseInv /\ [Next]_vars => BaseInv'
<1>. SUFFICES ASSUME BaseInv, [Next]_vars PROVE BaseInv'
  OBVIOUS
<1>1. FiberTypes' /\ RunTypes' /\ WorkTypes'
  BY TypesStep DEF BaseInv, TypeOK
<1>2. FlagTypes'
  BY FlagsStep DEF BaseInv, TypeOK
<1>3. CountTypes' /\ Counted'
  BY CountsStep DEF BaseInv, TypeOK
<1>4. StartOrder'
  BY StartStep DEF BaseInv, TypeOK
<1>. QED  BY <1>1, <1>2, <1>3, <1>4 DEF BaseInv, TypeOK

\* So they hold throughout.
LEMMA BaseInvariant == Spec => []BaseInv
BY BaseInit, BaseStep, PTL DEF Spec

\* The types hold in every behaviour; the decrements of the two size_t counters
\* (scheduler.cc:226, 245, 260, 270) never wrap below zero.
THEOREM TypeCorrect == Spec => []TypeOK
<1>1. BaseInv => TypeOK
  BY DEF BaseInv
<1>. QED  BY BaseInvariant, <1>1, PTL

\* m_activeThreadCount and m_idleThreadCount count exactly the threads that are
\* running an entry and those that are in idle(), for any pool and workload.
THEOREM CountersAreExact == Spec => []CountsExact
<1>1. BaseInv => CountsExact
  BY DEF BaseInv, Counted, CountsExact, In
<1>. QED  BY BaseInvariant, <1>1, PTL

-----------------------------------------------------------------------------
(* One thread per fiber.                                                    *)

\* What the code needs from whoever wakes fibers: a wake-up comes after run()
\* is done with the fiber, one per YieldToHold, and switchTo is not used to
\* change threads.
Disciplined ==
  /\ WakeFrom = "settled"
  /\ WaitsPerHold \in {0, 1}
  /\ SwitchTargets \subseteq {AnyThread}

Runnable == {"INIT", "READY", "HOLD"}
Carrying == OnStack \cup {"swapped", "settle"}
Running  == {"exec", "hold"}

\* A fiber is in the queue once, in no thread's hands, and can be entered.
QueueOwns ==
  /\ \A i, j \in 1..Len(m_fibers) :
       m_fibers[i].fiber = m_fibers[j].fiber /\ m_fibers[i].fiber # NoFiber
         => i = j
  /\ \A i \in 1..Len(m_fibers) : m_fibers[i].fiber # NoFiber =>
       /\ m_state[m_fibers[i].fiber] \in Runnable
       /\ waits[m_fibers[i].fiber] = 0
       /\ \A t \in Threads : /\ ft[t].fiber # m_fibers[i].fiber
                             /\ cb_fiber[t] # m_fibers[i].fiber

\* No two of the threads' references are to the same fiber.
ThreadsOwn ==
  /\ \A t, u \in Threads :
       ft[t].fiber = ft[u].fiber /\ ft[t].fiber # NoFiber => t = u
  /\ \A t, u \in Threads :
       cb_fiber[t] = cb_fiber[u] /\ cb_fiber[t] # NoFiber => t = u
  /\ \A t, u \in Threads : ft[t].fiber # NoFiber => ft[t].fiber # cb_fiber[u]

\* What a thread knows of the fibers it refers to, by its place in run().
PlaceOf(t) ==
  /\ pc[t] \notin InHand => ft[t].fiber = NoFiber
  /\ pc[t] = "dispatch" /\ ft[t].fiber # NoFiber =>
       m_state[ft[t].fiber] \in Runnable /\ waits[ft[t].fiber] = 0
  /\ pc[t] \in Carrying => Cur(t) # NoFiber
  /\ pc[t] \in Running => m_state[Cur(t)] = "EXEC"
  /\ pc[t] = "exec" => waits[Cur(t)] = 0
  /\ pc[t] \in {"swapout", "swapped", "settle"} =>
       /\ m_state[Cur(t)] \in {"READY", "HOLD", "TERM", "EXCEPT"}
       /\ m_state[Cur(t)] # "HOLD" => waits[Cur(t)] = 0
  /\ cb_fiber[t] # NoFiber /\ (pc[t] \notin Carrying \/ ft[t].fiber # NoFiber) =>
       m_state[cb_fiber[t]] = "INIT" /\ waits[cb_fiber[t]] = 0

\* A fiber with a wake-up to come has been entered, and one that is executing
\* is executed by a thread.
FibersOwned ==
  \A f \in Fibers :
    /\ waits[f] \in {0, 1}
    /\ waits[f] = 1 => m_state[f] \in {"EXEC", "HOLD"}
    /\ m_state[f] = "EXEC" => \E t \in Threads : pc[t] \in Running /\ Cur(t) = f

\* The inductive invariant for a disciplined workload.
Ownership ==
  /\ QueueOwns
  /\ ThreadsOwn
  /\ \A t \in Threads : PlaceOf(t)
  /\ FibersOwned
  /\ NoAssertFailure

\* The elements of a queue after push_back.
LEMMA AppendProperties ==
  ASSUME NEW S, NEW s \in Seq(S), NEW e \in S
  PROVE  /\ Append(s, e) \in Seq(S)
         /\ Len(Append(s, e)) = Len(s) + 1
         /\ \A i \in 1..(Len(s) + 1) :
              Append(s, e)[i] = IF i <= Len(s) THEN s[i] ELSE e
OBVIOUS

\* What is left of the queue after an erase comes from other positions, in
\* order.
LEMMA EraseProperties ==
  ASSUME NEW S, NEW s \in Seq(S), NEW i \in 1..Len(s)
  PROVE  /\ Len(Erase(s, i)) = Len(s) - 1
         /\ \A j \in 1..(Len(s) - 1) :
              Erase(s, i)[j] = s[IF j < i THEN j ELSE j + 1]
BY EraseType DEF Erase

\* The fiber fields are fibers or null.
LEMMA FiberFields ==
  ASSUME FiberTypes, RunTypes
  PROVE  /\ \A i \in 1..Len(m_fibers) : m_fibers[i].fiber \in Fibers \cup {NoFiber}
         /\ \A t \in Threads : /\ ft[t].fiber \in Fibers \cup {NoFiber}
                               /\ cb_fiber[t] \in Fibers \cup {NoFiber}
<1>1. \A e \in Entry : e.fiber \in Fibers \cup {NoFiber}
  BY DEF Entry
<1>2. \A i \in 1..Len(m_fibers) : m_fibers[i] \in Entry
  BY DEF FiberTypes
<1>3. \A t \in Threads : ft[t] \in Entry /\ cb_fiber[t] \in Fibers \cup {NoFiber}
  BY DEF RunTypes
<1>. QED  BY <1>1, <1>2, <1>3

\* Adding an entry without a fiber to the queue.
LEMMA OwnPushCb ==
  ASSUME FiberTypes, RunTypes, Ownership, NEW e \in Entry, e.fiber = NoFiber,
         m_fibers' = Append(m_fibers, e),
         UNCHANGED <<fiberVars, runVars, waits, failed>>
  PROVE  Ownership'
<1>1. /\ Len(m_fibers') = Len(m_fibers) + 1
      /\ \A i \in 1..(Len(m_fibers) + 1) :
           m_fibers'[i] = IF i <= Len(m_fibers) THEN m_fibers[i] ELSE e
  BY AppendProperties DEF FiberTypes
<1>. SUFFICES QueueOwns'
  BY DEF Ownership, ThreadsOwn, PlaceOf, FibersOwned, NoAssertFailure, Cur, fiberVars, runVars
<1>2. Len(m_fibers) \in Nat
  BY DEF FiberTypes
<1>. QED  BY <1>1, <1>2 DEF Ownership, QueueOwns, fiberVars, runVars

\* Adding a fiber that nobody refers to and that can be entered.
LEMMA OwnPushFiber ==
  ASSUME FiberTypes, RunTypes, Ownership, NEW f \in Fibers, NEW e \in Entry,
         e.fiber = f,
         m_fibers' = Append(m_fibers, e),
         m_state[f] \in Runnable,
         waits'[f] = 0,
         \A i \in 1..Len(m_fibers) : m_fibers[i].fiber # f,
         \A t \in Threads : ft'[t].fiber # f /\ cb_fiber'[t] # f,
         \A i \in 1..Len(m_fibers) : m_fibers[i].fiber # NoFiber =>
           /\ waits'[m_fibers[i].fiber] = 0
           /\ \A t \in Threads : /\ ft'[t].fiber # m_fibers[i].fiber
                                 /\ cb_fiber'[t] # m_fibers[i].fiber,
         UNCHANGED m_state
  PROVE  QueueOwns'
<1>1. /\ Len(m_fibers') = Len(m_fibers) + 1
      /\ \A i \in 1..(Len(m_fibers) + 1) :
           m_fibers'[i] = IF i <= Len(m_fibers) THEN m_fibers[i] ELSE e
  BY AppendProperties DEF FiberTypes
<1>2. Len(m_fibers) \in Nat
  BY DEF FiberTypes
<1>. QED  BY <1>1, <1>2 DEF Ownership, QueueOwns

\* Threads that move between places in which they hold no entry.
LEMMA OwnIdle ==
  ASSUME RunTypes, Ownership,
         \A u \in Threads : \/ pc'[u] = pc[u]
                            \/ pc[u] \notin InHand /\ pc'[u] \notin InHand,
         UNCHANGED <<m_fibers, fiberVars, ft, cb_fiber, waits, failed>>
  PROVE  Ownership'
<1>1. QueueOwns' /\ ThreadsOwn' /\ NoAssertFailure'
  BY DEF Ownership, QueueOwns, ThreadsOwn, NoAssertFailure, fiberVars
<1>2. \A u \in Threads : Cur(u)' = Cur(u)
  BY DEF Cur
<1>3. ASSUME NEW u \in Threads PROVE PlaceOf(u)'
  <2>1. PlaceOf(u)
    BY DEF Ownership
  <2>2. CASE pc'[u] = pc[u]
    BY <1>2, <2>1, <2>2 DEF PlaceOf, fiberVars
  <2>3. CASE pc[u] \notin InHand /\ pc'[u] \notin InHand
    <3>1. /\ pc'[u] # "dispatch"
          /\ pc'[u] \notin Carrying
          /\ pc'[u] \notin {"swapout", "swapped", "settle"}
          /\ pc[u] \notin Carrying
          /\ pc'[u] \notin Running
          /\ pc'[u] # "exec"
      BY <2>3 DEF InHand, Carrying, OnStack, Running
    <3>. QED  BY <2>1, <2>3, <3>1 DEF PlaceOf, fiberVars
  <2>. QED  BY <2>2, <2>3
<1>4. \A u \in Threads : pc[u] \in Running => pc'[u] = pc[u]
  BY DEF InHand, OnStack, Running
<1>5. FibersOwned'
  BY <1>2, <1>4 DEF Ownership, FibersOwned, fiberVars
<1>. QED  BY <1>1, <1>3, <1>5 DEF Ownership

\* The fiber a thread has in hand is nobody else's.
LEMMA OwnApart ==
  ASSUME FiberTypes, RunTypes, Ownership, NEW t \in Threads,
         pc[t] \in Carrying \/ (pc[t] = "dispatch" /\ ft[t].fiber # NoFiber)
  PROVE  /\ Cur(t) \in Fibers
         /\ Cur(t) # NoFiber
         /\ \A i \in 1..Len(m_fibers) : m_fibers[i].fiber # Cur(t)
         /\ \A u \in Threads \ {t} : /\ ft[u].fiber # Cur(t)
                                     /\ cb_fiber[u] # Cur(t)
                                     /\ Cur(u) # Cur(t)
         /\ ft[t].fiber # NoFiber => cb_fiber[t] # Cur(t)
<1>1. Cur(t) # NoFiber
  BY DEF Ownership, PlaceOf, Cur
<1>2. Cur(t) = ft[t].fiber \/ Cur(t) = cb_fiber[t]
  BY DEF Cur
<1>3. Cur(t) \in Fibers
  BY <1>1, <1>2, FiberFields
<1>4. \A i \in 1..Len(m_fibers) : m_fibers[i].fiber # Cur(t)
  BY <1>1, <1>2 DEF Ownership, QueueOwns
<1>5. \A u \in Threads \ {t} : ft[u].fiber # Cur(t) /\ cb_fiber[u] # Cur(t)
  BY <1>1, <1>2 DEF Ownership, ThreadsOwn
<1>6. \A u \in Threads \ {t} : Cur(u) # Cur(t)
  BY <1>5 DEF Cur
<1>7. ft[t].fiber # NoFiber => cb_fiber[t] # Cur(t)
  BY DEF Ownership, ThreadsOwn, Cur
<1>. QED  BY <1>1, <1>3, <1>4, <1>5, <1>6, <1>7

\* A thread enters, runs or leaves the fiber it has in hand.
LEMMA OwnRun ==
  ASSUME FiberTypes, RunTypes, Ownership, NEW t \in Threads, NEW p \in Carrying,
         pc[t] \in Carrying \/ (pc[t] = "dispatch" /\ ft[t].fiber # NoFiber),
         pc' = [pc EXCEPT ![t] = p],
         UNCHANGED <<m_fibers, ft, cb_fiber, failed>>,
         \A g \in Fibers \ {Cur(t)} :
            m_state'[g] = m_state[g] /\ waits'[g] = waits[g],
         p \in Running <=> m_state'[Cur(t)] = "EXEC",
         p \notin Running =>
            m_state'[Cur(t)] \in {"READY", "HOLD", "TERM", "EXCEPT"},
         waits'[Cur(t)] \in {0, 1},
         waits'[Cur(t)] = 1 =>
            p # "exec" /\ m_state'[Cur(t)] \in {"EXEC", "HOLD"}
  PROVE  Ownership'
<1>. DEFINE f == Cur(t)
<1>1. /\ f \in Fibers
      /\ f # NoFiber
      /\ \A i \in 1..Len(m_fibers) : m_fibers[i].fiber # f
      /\ \A u \in Threads \ {t} : /\ ft[u].fiber # f
                                  /\ cb_fiber[u] # f
                                  /\ Cur(u) # f
      /\ ft[t].fiber # NoFiber => cb_fiber[t] # f
  BY OwnApart
<1>2. \A u \in Threads : Cur(u)' = Cur(u)
  BY DEF Cur
<1>3. Cur(t) = f
  OBVIOUS
<1>. HIDE DEF f
<1>4. QueueOwns'
  BY <1>1, <1>3, FiberFields DEF Ownership, QueueOwns
<1>5. ThreadsOwn' /\ NoAssertFailure'
  BY DEF Ownership, ThreadsOwn, NoAssertFailure
<1>6. ASSUME NEW u \in Threads, u # t PROVE PlaceOf(u)'
  <2>1. pc'[u] = pc[u] /\ PlaceOf(u)
    BY <1>6 DEF Ownership, RunTypes
  <2>2. \A g \in {ft[u].fiber, cb_fiber[u], Cur(u)} :
           g # NoFiber => m_state'[g] = m_state[g] /\ waits'[g] = waits[g]
    BY <1>1, <1>3, <1>6, FiberFields, CurType
  <2>. QED  BY <1>2, <2>1, <2>2 DEF PlaceOf, Carrying, Running, OnStack
<1>7. PlaceOf(t)'
  <2>1. pc'[t] = p
    BY DEF RunTypes
  <2>2. p \in InHand /\ p # "dispatch"
    BY DEF Carrying, OnStack, InHand
  <2>3. PlaceOf(t)
    BY DEF Ownership
  <2>4. cb_fiber[t] # NoFiber /\ ft[t].fiber # NoFiber =>
          m_state'[cb_fiber[t]] = "INIT" /\ waits'[cb_fiber[t]] = 0
    BY <1>1, <1>3, <2>3, FiberFields DEF PlaceOf
  <2>5. p \in {"swapout", "swapped", "settle"} => p \notin Running
    BY DEF Running
  <2>6. "exec" \in Running
    BY DEF Running
  <2>. QED  BY <1>1, <1>2, <1>3, <2>1, <2>2, <2>4, <2>5, <2>6 DEF PlaceOf
<1>8. FibersOwned'
  <2>1. ASSUME NEW g \in Fibers, g # f
        PROVE  /\ waits'[g] \in {0, 1}
               /\ waits'[g] = 1 => m_state'[g] \in {"EXEC", "HOLD"}
               /\ m_state'[g] = "EXEC" =>
                    \E u \in Threads : pc'[u] \in Running /\ Cur(u)' = g
    BY <1>2, <1>3, <2>1 DEF Ownership, FibersOwned, RunTypes
  <2>2. m_state'[f] = "EXEC" =>
                    \E u \in Threads : pc'[u] \in Running /\ Cur(u)' = f
    BY <1>2, <1>3 DEF RunTypes
  <2>. QED  BY <1>3, <2>1, <2>2 DEF FibersOwned
<1>. QED  BY <1>4, <1>5, <1>6, <1>7, <1>8 DEF Ownership

\* Taking an entry moves its fiber from the queue into the thread's hands.
LEMMA OwnFetch ==
  ASSUME FiberTypes, RunTypes, Ownership, NEW t \in Threads, FetchTask(t)
  PROVE  Ownership'
<1>1. PICK i \in 1..Len(m_fibers) : /\ ft' = [ft EXCEPT ![t] = m_fibers[i]]
                                    /\ m_fibers' = Erase(m_fibers, i)
  BY DEF FetchTask
<1>2. /\ pc[t] = "fetch"
      /\ pc' = [pc EXCEPT ![t] = "dispatch"]
      /\ UNCHANGED <<m_state, cb_fiber, waits, failed>>
  BY DEF FetchTask, fiberVars, workVars
<1>. DEFINE e == m_fibers[i]
<1>3. /\ Len(m_fibers) \in Nat
      /\ Len(m_fibers') = Len(m_fibers) - 1
      /\ \A j \in 1..(Len(m_fibers) - 1) :
           m_fibers'[j] = m_fibers[IF j < i THEN j ELSE j + 1]
  BY <1>1, EraseProperties DEF FiberTypes
<1>4. /\ \A u \in Threads \ {t} : ft'[u] = ft[u] /\ pc'[u] = pc[u]
      /\ ft'[t] = e
      /\ pc'[t] = "dispatch"
  BY <1>1, <1>2 DEF RunTypes
<1>5. QueueOwns'
  <2>. DEFINE at(j) == IF j < i THEN j ELSE j + 1
  <2>1. \A j \in 1..Len(m_fibers') : /\ at(j) \in 1..Len(m_fibers)
                                     /\ at(j) # i
                                     /\ m_fibers'[j] = m_fibers[at(j)]
    BY <1>3
  <2>2. \A j, k \in 1..Len(m_fibers') : at(j) = at(k) => j = k
    BY <1>3
  <2>3. \A j, k \in 1..Len(m_fibers) :
          m_fibers[j].fiber = m_fibers[k].fiber /\ m_fibers[j].fiber # NoFiber
            => j = k
    BY DEF Ownership, QueueOwns
  <2>. HIDE DEF at
  <2>4. \A j, k \in 1..Len(m_fibers') :
          m_fibers'[j].fiber = m_fibers'[k].fiber /\ m_fibers'[j].fiber # NoFiber
            => j = k
    BY <2>1, <2>2, <2>3
  <2>5. \A j \in 1..Len(m_fibers) : m_fibers[j].fiber # NoFiber /\ j # i =>
          /\ m_state[m_fibers[j].fiber] \in Runnable
          /\ waits[m_fibers[j].fiber] = 0
          /\ \A u \in Threads : /\ ft'[u].fiber # m_fibers[j].fiber
                                /\ cb_fiber[u] # m_fibers[j].fiber
    BY <1>4, <2>3 DEF Ownership, QueueOwns
  <2>6. \A j \in 1..Len(m_fibers') : m_fibers'[j].fiber # NoFiber =>
          /\ m_state'[m_fibers'[j].fiber] \in Runnable
          /\ waits'[m_fibers'[j].fiber] = 0
          /\ \A u \in Threads : /\ ft'[u].fiber # m_fibers'[j].fiber
                                /\ cb_fiber'[u] # m_fibers'[j].fiber
    BY <1>2, <2>1, <2>5
  <2>. QED  BY <2>4, <2>6 DEF QueueOwns
<1>6. e.fiber # NoFiber =>
        /\ m_state[e.fiber] \in Runnable
        /\ waits[e.fiber] = 0
        /\ \A u \in Threads : ft[u].fiber # e.fiber /\ cb_fiber[u] # e.fiber
  BY DEF Ownership, QueueOwns
<1>. HIDE DEF e
<1>7. ThreadsOwn'
  BY <1>2, <1>4, <1>6 DEF Ownership, ThreadsOwn
<1>8. ASSUME NEW u \in Threads PROVE PlaceOf(u)'
  <2>1. PlaceOf(u)
    BY DEF Ownership
  <2>2. CASE u = t
    BY <1>2, <1>4, <1>6, <2>1, <2>2
    DEF PlaceOf, InHand, Carrying, OnStack, Running
  <2>3. CASE u # t
    BY <1>2, <1>4, <2>1, <2>3 DEF PlaceOf, Cur
  <2>. QED  BY <2>2, <2>3
<1>9. FibersOwned'
  <2>1. \A u \in Threads : pc[u] \in Running =>
          pc'[u] = pc[u] /\ Cur(u)' = Cur(u)
    BY <1>2, <1>4 DEF Cur, Running
  <2>. QED  BY <1>2, <2>1 DEF Ownership, FibersOwned
<1>. QED  BY <1>2, <1>5, <1>7, <1>8, <1>9 DEF Ownership, NoAssertFailure

\* A fiber that was never allocated is referred to from nowhere.
LEMMA FreshApart ==
  ASSUME FiberTypes, RunTypes, Ownership, CanAllocate
  PROVE  /\ Fresh \in Fibers
         /\ Fresh # NoFiber
         /\ m_state[Fresh] = "NONE"
         /\ waits[Fresh] = 0
         /\ \A i \in 1..Len(m_fibers) : m_fibers[i].fiber # Fresh
         /\ \A u \in Threads : ft[u].fiber # Fresh /\ cb_fiber[u] # Fresh
<1>1. Fresh \in Fibers /\ m_state[Fresh] = "NONE" /\ Fresh # NoFiber
  BY FreshType, TaskAssumption
<1>2. waits[Fresh] = 0
  BY <1>1 DEF Ownership, FibersOwned
<1>3. \A i \in 1..Len(m_fibers) : m_fibers[i].fiber # Fresh
  BY <1>1 DEF Ownership, QueueOwns, Runnable
<1>4. ASSUME NEW u \in Threads PROVE ft[u].fiber # Fresh /\ cb_fiber[u] # Fresh
  BY <1>1 DEF Ownership, PlaceOf, Cur, InHand, Carrying, OnStack, Running, Runnable
<1>. QED  BY <1>1, <1>2, <1>3, <1>4

\* A callback entry is run on cb_fiber, reset or newly allocated, which no other
\* thread or entry refers to.
LEMMA OwnSwapInCb ==
  ASSUME FiberTypes, RunTypes, Ownership, NEW t \in Threads, SwapInCb(t)
  PROVE  Ownership'
<1>. DEFINE f == IF cb_fiber[t] # NoFiber THEN cb_fiber[t] ELSE Fresh
<1>1. /\ pc[t] = "dispatch"
      /\ ft[t].fiber = NoFiber
      /\ cb_fiber[t] = NoFiber => CanAllocate
      /\ failed' = (failed \/ ~ (cb_fiber[t] # NoFiber
                                   => m_state[f] \in Ended \cup {"INIT"}))
      /\ m_state' = [m_state EXCEPT ![f] = "EXEC"]
      /\ cb_fiber' = [cb_fiber EXCEPT ![t] = f]
      /\ ft' = [ft EXCEPT ![t] = NoEntry]
      /\ pc' = [pc EXCEPT ![t] = "exec"]
      /\ UNCHANGED <<m_fibers, waits>>
  BY DEF SwapInCb, SYLAR_ASSERT, workVars
<1>2. /\ f \in Fibers
      /\ f # NoFiber
      /\ waits[f] = 0
      /\ m_state[f] \in {"NONE", "INIT"}
      /\ cb_fiber[t] # NoFiber => m_state[f] = "INIT"
      /\ \A i \in 1..Len(m_fibers) : m_fibers[i].fiber # f
      /\ \A u \in Threads : ft[u].fiber # f /\ (u # t => cb_fiber[u] # f)
  <2>1. CASE cb_fiber[t] # NoFiber
    <3>1. f = cb_fiber[t] /\ f \in Fibers
      BY <2>1, FiberFields
    <3>2. m_state[f] = "INIT" /\ waits[f] = 0
      BY <1>1, <2>1, <3>1 DEF Ownership, PlaceOf, Carrying, OnStack
    <3>. QED  BY <2>1, <3>1, <3>2 DEF Ownership, QueueOwns, ThreadsOwn
  <2>2. CASE cb_fiber[t] = NoFiber
    BY <1>1, <2>2, FreshApart
  <2>. QED  BY <2>1, <2>2
<1>3. NoAssertFailure'
  <2>1. cb_fiber[t] # NoFiber => m_state[f] \in Ended \cup {"INIT"}
    BY <1>2
  <2>2. ~ failed
    BY DEF Ownership, NoAssertFailure
  <2>. QED  BY <1>1, <2>1, <2>2, Zenon DEF NoAssertFailure
<1>. HIDE DEF f
<1>4. /\ \A u \in Threads \ {t} : /\ ft'[u] = ft[u]
                                  /\ cb_fiber'[u] = cb_fiber[u]
                                  /\ pc'[u] = pc[u]
                                  /\ Cur(u)' = Cur(u)
      /\ ft'[t].fiber = NoFiber
      /\ cb_fiber'[t] = f
      /\ pc'[t] = "exec"
      /\ Cur(t)' = f
  BY <1>1 DEF RunTypes, Cur, NoEntry
<1>5. /\ \A g \in Fibers \ {f} : m_state'[g] = m_state[g]
      /\ m_state'[f] = "EXEC"
  BY <1>1, <1>2 DEF FiberTypes
<1>6. QueueOwns'
  BY <1>1, <1>2, <1>4, <1>5, FiberFields DEF Ownership, QueueOwns
<1>7. ThreadsOwn'
  BY <1>2, <1>4 DEF Ownership, ThreadsOwn
<1>8. PlaceOf(t)'
  BY <1>1, <1>2, <1>4, <1>5
  DEF PlaceOf, InHand, Carrying, OnStack, Running
<1>9. ASSUME NEW u \in Threads, u # t PROVE PlaceOf(u)'
  <2>1. PlaceOf(u)
    BY DEF Ownership
  <2>2. \A g \in {ft[u].fiber, cb_fiber[u], Cur(u)} :
           g # NoFiber => m_state'[g] = m_state[g]
    BY <1>2, <1>5, <1>9, FiberFields DEF Cur
  <2>. QED  BY <1>1, <1>4, <1>9, <2>1, <2>2 DEF PlaceOf, Carrying, Running, OnStack
<1>10. FibersOwned'
  <2>1. \A u \in Threads : pc[u] \in Running =>
          pc'[u] = pc[u] /\ Cur(u)' = Cur(u)
    BY <1>1, <1>4 DEF Running
  <2>2. pc'[t] \in Running
    BY <1>4 DEF Running
  <2>3. \A g \in Fibers \ {f} :
          m_state'[g] = "EXEC" => \E u \in Threads : pc'[u] \in Running /\ Cur(u)' = g
    BY <1>5, <2>1 DEF Ownership, FibersOwned
  <2>4. \A g \in Fibers : waits'[g] \in {0, 1}
                          /\ (waits'[g] = 1 => m_state'[g] \in {"EXEC", "HOLD"})
    BY <1>1, <1>5 DEF Ownership, FibersOwned
  <2>. QED  BY <1>4, <2>2, <2>3, <2>4 DEF FibersOwned
<1>. QED  BY <1>3, <1>6, <1>7, <1>8, <1>9, <1>10 DEF Ownership

\* run() lets go of a fiber that is READY, has ended or holds.
LEMMA OwnSettle ==
  ASSUME FiberTypes, RunTypes, Ownership, NEW t \in Threads,
         SettleReady(t) \/ SettleEnded(t) \/ SettleHold(t)
  PROVE  Ownership'
<1>. DEFINE f == Cur(t)
<1>1. /\ pc[t] = "settle"
      /\ pc' = [pc EXCEPT ![t] = "fetch"]
      /\ ft' = [ft EXCEPT ![t] = NoEntry]
      /\ UNCHANGED <<waits, failed>>
  BY DEF SettleReady, SettleEnded, SettleHold, LetGo, workVars
<1>2. /\ f \in Fibers
      /\ f # NoFiber
      /\ \A i \in 1..Len(m_fibers) : m_fibers[i].fiber # f
      /\ \A u \in Threads \ {t} : /\ ft[u].fiber # f
                                  /\ cb_fiber[u] # f
                                  /\ Cur(u) # f
      /\ ft[t].fiber # NoFiber => cb_fiber[t] # f
  BY <1>1, OwnApart DEF Carrying
<1>3. /\ m_state[f] \in {"READY", "HOLD", "TERM", "EXCEPT"}
      /\ m_state[f] # "HOLD" => waits[f] = 0
      /\ cb_fiber[t] # NoFiber /\ ft[t].fiber # NoFiber =>
           m_state[cb_fiber[t]] = "INIT" /\ waits[cb_fiber[t]] = 0
  BY <1>1 DEF Ownership, PlaceOf
\* The callback's fiber that stays with the thread is reset.
<1>4. /\ cb_fiber'[t] # NoFiber =>
           m_state'[cb_fiber'[t]] = "INIT" /\ waits'[cb_fiber'[t]] = 0
      /\ cb_fiber'[t] \in {NoFiber, cb_fiber[t]}
      /\ \A u \in Threads \ {t} : cb_fiber'[u] = cb_fiber[u]
      /\ \A g \in Fibers \ {f} : m_state'[g] = m_state[g]
      /\ m_state'[f] # "EXEC"
      /\ waits[f] = 1 => m_state'[f] = "HOLD"
  <2>1. CASE SettleReady(t)
    BY <1>1, <1>2, <1>3, <2>1, FiberFields DEF SettleReady, LetGo, fiberVars, Cur, RunTypes
  <2>2. CASE SettleEnded(t)
    <3>1. CASE ft[t].fiber # NoFiber
      BY <1>1, <1>2, <1>3, <2>2, <3>1 DEF SettleEnded, fiberVars, Ended
    <3>2. CASE ft[t].fiber = NoFiber
      <4>1. f = cb_fiber[t]
        BY <3>2 DEF Cur
      <4>2. /\ m_state' = [m_state EXCEPT ![f] = "INIT"]
            /\ cb_fiber' = cb_fiber
            /\ m_state[f] \in Ended
        BY <2>2, <3>2 DEF SettleEnded
      <4>. HIDE DEF f
      <4>. QED  BY <1>1, <1>2, <1>3, <4>1, <4>2 DEF FiberTypes, Ended
    <3>. QED  BY <3>1, <3>2
  <2>3. CASE SettleHold(t)
    <3>1. m_state' = [m_state EXCEPT ![f] = "HOLD"]
      BY <2>3 DEF SettleHold
    <3>2. cb_fiber' = IF ft[t].fiber # NoFiber
                        THEN cb_fiber ELSE [cb_fiber EXCEPT ![t] = NoFiber]
      BY <2>3 DEF SettleHold, LetGo
    <3>. HIDE DEF f
    <3>. QED  BY <1>1, <1>2, <1>3, <3>1, <3>2, FiberFields DEF FiberTypes, RunTypes
  <2>. QED  BY <2>1, <2>2, <2>3
<1>5. /\ \A u \in Threads \ {t} : /\ ft'[u] = ft[u]
                                  /\ pc'[u] = pc[u]
                                  /\ Cur(u)' = Cur(u)
      /\ ft'[t].fiber = NoFiber
      /\ pc'[t] = "fetch"
  BY <1>1, <1>4 DEF RunTypes, Cur, NoEntry
<1>6. QueueOwns'
  <2>1. CASE SettleReady(t)
    <3>1. /\ m_state[f] = "READY"
          /\ m_fibers' = Append(m_fibers, OfFiber(f, AnyThread))
          /\ UNCHANGED m_state
      BY <2>1 DEF SettleReady, fiberVars
    <3>2. OfFiber(f, AnyThread) \in Entry /\ OfFiber(f, AnyThread).fiber = f
      BY <1>2, EntryTypes DEF OfFiber
    <3>3. cb_fiber'[t] # f
      BY <1>2, <2>1 DEF SettleReady, LetGo, Cur, RunTypes
    <3>. HIDE DEF f
    <3>4. waits'[f] = 0 /\ m_state[f] \in Runnable
      BY <1>1, <1>3, <3>1 DEF Runnable
    <3>5. \A u \in Threads : ft'[u].fiber # f /\ cb_fiber'[u] # f
      BY <1>2, <1>4, <1>5, <3>3
    <3>6. \A i \in 1..Len(m_fibers) : m_fibers[i].fiber # NoFiber =>
           /\ waits'[m_fibers[i].fiber] = 0
           /\ \A u \in Threads : /\ ft'[u].fiber # m_fibers[i].fiber
                                 /\ cb_fiber'[u] # m_fibers[i].fiber
      BY <1>1, <1>4, <1>5 DEF Ownership, QueueOwns
    <3>. QED  BY <1>2, <3>1, <3>2, <3>4, <3>5, <3>6, OwnPushFiber
  <2>2. CASE SettleEnded(t) \/ SettleHold(t)
    <3>1. UNCHANGED m_fibers
      BY <2>2 DEF SettleEnded, SettleHold
    <3>. HIDE DEF f
    <3>. QED  BY <1>1, <1>2, <1>4, <1>5, <3>1, FiberFields DEF Ownership, QueueOwns
  <2>. QED  BY <2>1, <2>2
<1>. HIDE DEF f
<1>7. ThreadsOwn'
  BY <1>4, <1>5 DEF Ownership, ThreadsOwn
<1>8. PlaceOf(t)'
  BY <1>4, <1>5 DEF PlaceOf, InHand, Carrying, OnStack, Running
<1>9. ASSUME NEW u \in Threads, u # t PROVE PlaceOf(u)'
  <2>1. PlaceOf(u)
    BY DEF Ownership
  <2>2. \A g \in {ft[u].fiber, cb_fiber[u], Cur(u)} :
           g # NoFiber => m_state'[g] = m_state[g]
    BY <1>2, <1>4, <1>9, FiberFields, CurType
  <2>. QED  BY <1>1, <1>4, <1>5, <1>9, <2>1, <2>2 DEF PlaceOf, Carrying, Running, OnStack
<1>10. FibersOwned'
  <2>1. \A u \in Threads : pc[u] \in Running =>
          pc'[u] = pc[u] /\ Cur(u)' = Cur(u)
    BY <1>1, <1>5 DEF Running
  <2>2. \A g \in Fibers :
          m_state'[g] = "EXEC" => \E u \in Threads : pc'[u] \in Running /\ Cur(u)' = g
    BY <1>4, <2>1 DEF Ownership, FibersOwned
  <2>3. \A g \in Fibers : waits'[g] \in {0, 1}
                          /\ (waits'[g] = 1 => m_state'[g] \in {"EXEC", "HOLD"})
    BY <1>1, <1>4 DEF Ownership, FibersOwned
  <2>. QED  BY <2>2, <2>3 DEF FibersOwned
<1>. QED  BY <1>1, <1>6, <1>7, <1>8, <1>9, <1>10 DEF Ownership, NoAssertFailure

\* A wake-up that comes after run() has let go of the fiber.
LEMMA OwnWake ==
  ASSUME Disciplined, FiberTypes, RunTypes, WorkTypes, Ownership, NEW f \in Fibers, Wake(f)
  PROVE  Ownership'
<1>1. /\ waits[f] = 1
      /\ waits' = [waits EXCEPT ![f] = 0]
      /\ m_fibers' = Append(m_fibers, OfFiber(f, AnyThread))
      /\ UNCHANGED <<m_state, pc, ft, cb_fiber, failed>>
  <2>1. waits[f] = 1
    BY DEF Wake, Ownership, FibersOwned
  <2>2. waits[f] - 1 = 0
    BY <2>1
  <2>3. waits' = [waits EXCEPT ![f] = waits[f] - 1]
    BY DEF Wake
  <2>4. waits' = [waits EXCEPT ![f] = 0]
    BY <2>2, <2>3
  <2>. QED  BY <2>1, <2>4 DEF Wake, fiberVars, runVars
<1>2. \A t \in Threads : pc[t] \in InHand => Cur(t) # f
  BY DEF Wake, MayWake, Disciplined
<1>3. m_state[f] = "HOLD"
  <2>1. \A t \in Threads : pc[t] \in Running => pc[t] \in InHand
    BY DEF Running, InHand, OnStack
  <2>. QED  BY <1>1, <1>2, <2>1 DEF Ownership, FibersOwned
<1>4. f # NoFiber
  BY TaskAssumption
<1>5. \A t \in Threads : ft[t].fiber # f /\ cb_fiber[t] # f
  <2>. SUFFICES ASSUME NEW t \in Threads PROVE ft[t].fiber # f /\ cb_fiber[t] # f
    OBVIOUS
  <2>1. ft[t].fiber # f
    BY <1>2, <1>4 DEF Ownership, PlaceOf, Cur
  <2>2. CASE cb_fiber[t] = f
    <3>1. pc[t] \in Carrying /\ ft[t].fiber = NoFiber
      BY <1>3, <1>4, <2>2 DEF Ownership, PlaceOf
    <3>2. Cur(t) = f /\ pc[t] \in InHand
      BY <2>2, <3>1 DEF Cur, Carrying, InHand
    <3>. QED  BY <1>2, <3>2
  <2>. QED  BY <2>1, <2>2
<1>6. \A i \in 1..Len(m_fibers) : m_fibers[i].fiber # f
  BY <1>1, <1>4 DEF Ownership, QueueOwns
<1>7. /\ \A g \in Fibers \ {f} : waits'[g] = waits[g]
      /\ waits'[f] = 0
  BY <1>1 DEF WorkTypes
<1>8. QueueOwns'
  <2>1. OfFiber(f, AnyThread) \in Entry /\ OfFiber(f, AnyThread).fiber = f
    BY EntryTypes DEF OfFiber
  <2>2. \A i \in 1..Len(m_fibers) : m_fibers[i].fiber # NoFiber =>
           /\ waits'[m_fibers[i].fiber] = 0
           /\ \A u \in Threads : /\ ft'[u].fiber # m_fibers[i].fiber
                                 /\ cb_fiber'[u] # m_fibers[i].fiber
    BY <1>1, <1>6, <1>7, FiberFields DEF Ownership, QueueOwns
  <2>. QED  BY <1>1, <1>3, <1>5, <1>6, <1>7, <2>1, <2>2, OwnPushFiber DEF Runnable
<1>9. ThreadsOwn' /\ NoAssertFailure'
  BY <1>1 DEF Ownership, ThreadsOwn, NoAssertFailure
<1>10. \A u \in Threads : Cur(u)' = Cur(u)
  BY <1>1 DEF Cur
<1>11. ASSUME NEW u \in Threads PROVE PlaceOf(u)'
  <2>1. PlaceOf(u)
    BY DEF Ownership
  <2>2. \A g \in {ft[u].fiber, cb_fiber[u], Cur(u)} :
           g # NoFiber => waits'[g] = waits[g]
    BY <1>5, <1>7, FiberFields DEF Cur
  <2>. QED  BY <1>1, <1>10, <2>1, <2>2 DEF PlaceOf, Carrying, Running, OnStack
<1>12. FibersOwned'
  BY <1>1, <1>7, <1>10 DEF Ownership, FibersOwned
<1>. QED  BY <1>8, <1>9, <1>11, <1>12 DEF Ownership

\* schedule(fiber): the owner's new fiber.
LEMMA OwnScheduleFiber ==
  ASSUME FiberTypes, RunTypes, Ownership,
         NEW c \in Tasks, NEW p \in ClientPins, ScheduleFiber(c, p)
  PROVE  Ownership'
<1>. DEFINE f == Fresh
<1>1. /\ m_state' = [m_state EXCEPT ![f] = "INIT"]
      /\ m_fibers' = Append(m_fibers, OfFiber(f, p))
      /\ UNCHANGED <<pc, ft, cb_fiber, waits, failed>>
  BY DEF ScheduleFiber, runVars
<1>2. /\ f \in Fibers
      /\ f # NoFiber
      /\ waits[f] = 0
      /\ m_state[f] = "NONE"
      /\ \A i \in 1..Len(m_fibers) : m_fibers[i].fiber # f
      /\ \A u \in Threads : ft[u].fiber # f /\ cb_fiber[u] # f
  BY FreshApart DEF ScheduleFiber
<1>. HIDE DEF f
<1>3. /\ \A g \in Fibers \ {f} : m_state'[g] = m_state[g]
      /\ m_state'[f] = "INIT"
  BY <1>1, <1>2 DEF FiberTypes
<1>4. \A u \in Threads : Cur(u)' = Cur(u)
  BY <1>1 DEF Cur
<1>5. QueueOwns'
  <2>1. OfFiber(f, p) \in Entry /\ OfFiber(f, p).fiber = f
    BY <1>2, EntryTypes, ThreadAssumption DEF OfFiber
  <2>2. /\ Len(m_fibers) \in Nat
        /\ Len(m_fibers') = Len(m_fibers) + 1
        /\ \A i \in 1..(Len(m_fibers) + 1) :
             m_fibers'[i] = IF i <= Len(m_fibers) THEN m_fibers[i] ELSE OfFiber(f, p)
    BY <1>1, <2>1, AppendProperties DEF FiberTypes
  <2>3. \A i \in 1..Len(m_fibers) : m_fibers[i].fiber # NoFiber =>
          m_state'[m_fibers[i].fiber] = m_state[m_fibers[i].fiber]
    BY <1>2, <1>3, FiberFields
  <2>. QED  BY <1>1, <1>2, <1>3, <2>1, <2>2, <2>3 DEF Ownership, QueueOwns, Runnable
<1>6. ThreadsOwn' /\ NoAssertFailure'
  BY <1>1 DEF Ownership, ThreadsOwn, NoAssertFailure
<1>7. ASSUME NEW u \in Threads PROVE PlaceOf(u)'
  <2>1. PlaceOf(u)
    BY DEF Ownership
  <2>2. \A g \in {ft[u].fiber, cb_fiber[u], Cur(u)} :
           g # NoFiber => m_state'[g] = m_state[g]
    BY <1>2, <1>3, FiberFields DEF Cur
  <2>. QED  BY <1>1, <1>4, <2>1, <2>2 DEF PlaceOf, Carrying, Running, OnStack
<1>8. FibersOwned'
  BY <1>1, <1>2, <1>3, <1>4 DEF Ownership, FibersOwned
<1>. QED  BY <1>5, <1>6, <1>7, <1>8 DEF Ownership

\* schedule(begin, end): the queue gains two entries without fibers.
LEMMA OwnScheduleBatch ==
  ASSUME FiberTypes, RunTypes, Ownership,
         NEW c \in Tasks, NEW d \in Tasks, ScheduleBatch(c, d)
  PROVE  Ownership'
<1>. DEFINE e1 == OfCb(c, AnyThread)
            e2 == OfCb(d, AnyThread)
<1>1. e1 \in Entry /\ e2 \in Entry /\ e1.fiber = NoFiber /\ e2.fiber = NoFiber
  BY EntryTypes DEF OfCb
<1>2. /\ m_fibers' = m_fibers \o <<e1, e2>>
      /\ UNCHANGED <<fiberVars, runVars, waits, failed>>
  BY DEF ScheduleBatch
<1>. HIDE DEF e1, e2
<1>3. /\ Len(m_fibers) \in Nat
      /\ Len(m_fibers') = Len(m_fibers) + 2
      /\ \A i \in 1..Len(m_fibers) : m_fibers'[i] = m_fibers[i]
      /\ m_fibers'[Len(m_fibers) + 1] = e1
      /\ m_fibers'[Len(m_fibers) + 2] = e2
  BY <1>1, <1>2 DEF FiberTypes
<1>4. \A i \in 1..Len(m_fibers') : \/ i \in 1..Len(m_fibers)
                                   \/ m_fibers'[i].fiber = NoFiber
  BY <1>1, <1>3
<1>5. QueueOwns'
  <2>1. \A i \in 1..Len(m_fibers') : m_fibers'[i].fiber # NoFiber =>
          i \in 1..Len(m_fibers) /\ m_fibers'[i] = m_fibers[i]
    BY <1>3, <1>4
  <2>2. \A i, j \in 1..Len(m_fibers') :
          m_fibers'[i].fiber = m_fibers'[j].fiber /\ m_fibers'[i].fiber # NoFiber
            => i = j
    BY <2>1 DEF Ownership, QueueOwns
  <2>3. UNCHANGED <<m_state, waits, ft, cb_fiber>>
    BY <1>2 DEF fiberVars, runVars
  <2>4. \A i \in 1..Len(m_fibers') : m_fibers'[i].fiber # NoFiber =>
          /\ m_state'[m_fibers'[i].fiber] \in Runnable
          /\ waits'[m_fibers'[i].fiber] = 0
          /\ \A u \in Threads : /\ ft'[u].fiber # m_fibers'[i].fiber
                                /\ cb_fiber'[u] # m_fibers'[i].fiber
    BY <2>1, <2>3 DEF Ownership, QueueOwns
  <2>. QED  BY <2>2, <2>4 DEF QueueOwns
<1>. QED
  BY <1>2, <1>5
  DEF Ownership, ThreadsOwn, PlaceOf, FibersOwned, NoAssertFailure, Cur,
      fiberVars, runVars

\* Every step of a disciplined scheduler keeps the ownership of fibers.
LEMMA OwnershipStep ==
  ASSUME Disciplined, FiberTypes, RunTypes, WorkTypes, FlagTypes, StartOrder,
         Ownership, [Next]_vars
  PROVE  Ownership'
<1>1. ASSUME NEW c \in Tasks, NEW p \in ClientPins, ScheduleCb(c, p)
      PROVE  Ownership'
  <2>1. OfCb(c, p) \in Entry /\ OfCb(c, p).fiber = NoFiber
    BY EntryTypes, ThreadAssumption DEF OfCb
  <2>. QED  BY <1>1, <2>1, OwnPushCb DEF ScheduleCb
<1>2. ASSUME NEW c \in Tasks, NEW p \in ClientPins, ScheduleFiber(c, p)
      PROVE  Ownership'
  BY <1>2, OwnScheduleFiber
<1>3. ASSUME NEW c \in Tasks, NEW d \in Tasks, ScheduleBatch(c, d)
      PROVE  Ownership'
  BY <1>3, OwnScheduleBatch
<1>4. CASE start
  <2>1. \A u \in Threads : pc[u] \notin InHand /\ pc'[u] \notin InHand
    BY <1>4 DEF start, StartOrder, InHand, OnStack
  <2>. QED  BY <1>4, <2>1, OwnIdle DEF start, workVars
<1>5. CASE StopFlag
  BY <1>5, OwnIdle DEF StopFlag, runVars, workVars
<1>6. CASE StopCallerOnly
  BY <1>6, OwnIdle DEF StopCallerOnly, runVars, workVars
<1>7. CASE StopProbe
  BY <1>7, OwnIdle DEF StopProbe, runVars, workVars
<1>8. CASE StopAll
  BY <1>8, OwnIdle DEF StopAll, runVars, workVars
<1>9. CASE StopRoot
  <2>1. \A u \in Threads : \/ pc'[u] = pc[u]
                           \/ pc[u] \notin InHand /\ pc'[u] \notin InHand
    BY <1>9, CallerIsThread, ThreadAssumption
    DEF StopRoot, StartOrder, RunTypes, Threads, InHand, OnStack
  <2>. QED  BY <1>9, <2>1, OwnIdle DEF StopRoot, workVars
<1>10. CASE RootBack
  BY <1>10, OwnIdle DEF RootBack, runVars, workVars
<1>11. CASE Join
  BY <1>11, OwnIdle DEF Join, runVars, workVars
<1>12. ASSUME NEW t \in Threads, FetchTask(t)
       PROVE  Ownership'
  BY <1>12, OwnFetch
<1>13. ASSUME NEW t \in Threads, FetchNothing(t)
       PROVE  Ownership'
  <2>1. \A u \in Threads : \/ pc'[u] = pc[u]
                           \/ pc[u] \notin InHand /\ pc'[u] \notin InHand
    BY <1>13 DEF FetchNothing, RunTypes, InHand, OnStack
  <2>. QED  BY <1>13, <2>1, OwnIdle DEF FetchNothing, runVars, workVars
<1>14. ASSUME NEW t \in Threads, EnterIdle(t)
       PROVE  Ownership'
  <2>1. \A u \in Threads : \/ pc'[u] = pc[u]
                           \/ pc[u] \notin InHand /\ pc'[u] \notin InHand
    BY <1>14 DEF EnterIdle, RunTypes, InHand, OnStack
  <2>. QED  BY <1>14, <2>1, OwnIdle DEF EnterIdle, runVars, workVars
<1>15. ASSUME NEW t \in Threads, Idle(t)
       PROVE  Ownership'
  <2>1. \A u \in Threads : \/ pc'[u] = pc[u]
                           \/ pc[u] \notin InHand /\ pc'[u] \notin InHand
    BY <1>15 DEF Idle, RunTypes, InHand, OnStack
  <2>. QED  BY <1>15, <2>1, OwnIdle DEF Idle, runVars, workVars
<1>16. ASSUME NEW t \in Threads, LeaveIdle(t)
       PROVE  Ownership'
  <2>1. \A u \in Threads : \/ pc'[u] = pc[u]
                           \/ pc[u] \notin InHand /\ pc'[u] \notin InHand
    BY <1>16 DEF LeaveIdle, RunTypes, InHand, OnStack
  <2>. QED  BY <1>16, <2>1, OwnIdle DEF LeaveIdle, runVars, workVars
<1>17. ASSUME NEW t \in Threads, ExitRun(t)
       PROVE  Ownership'
  <2>1. \A u \in Threads : \/ pc'[u] = pc[u]
                           \/ pc[u] \notin InHand /\ pc'[u] \notin InHand
    BY <1>17 DEF ExitRun, RunTypes, InHand, OnStack
  <2>. QED  BY <1>17, <2>1, OwnIdle DEF ExitRun, runVars, workVars
<1>18. ASSUME NEW t \in Threads, SwapInFiber(t)
       PROVE  Ownership'
  <2>1. pc[t] \in Carrying \/ (pc[t] = "dispatch" /\ ft[t].fiber # NoFiber)
    BY <1>18 DEF SwapInFiber, Carrying, OnStack
  <2>2. Cur(t) \in Fibers /\ PlaceOf(t)
    BY <2>1, OwnApart DEF Ownership
  <2>3. m_state[Cur(t)] # "EXEC" /\ waits[Cur(t)] = 0
    BY <1>18, <2>2 DEF SwapInFiber, PlaceOf, Cur, Runnable, Running,
        Ownership, FibersOwned
  <2>4. /\ pc' = [pc EXCEPT ![t] = "exec"]
        /\ m_state' = [m_state EXCEPT ![Cur(t)] = "EXEC"]
        /\ UNCHANGED <<m_fibers, ft, cb_fiber, waits>>
    BY <1>18 DEF SwapInFiber, workVars, Cur
  <2>5. UNCHANGED failed
    <3>1. ~ failed
      BY DEF Ownership, NoAssertFailure
    <3>2. failed' = (failed \/ ~ (m_state[Cur(t)] # "EXEC"))
      BY <1>18, Zenon DEF SwapInFiber, SYLAR_ASSERT, Cur
    <3>3. failed' = FALSE
      BY <2>3, <3>1, <3>2
    <3>4. failed \in BOOLEAN
      BY DEF FlagTypes
    <3>. QED  BY <3>1, <3>3, <3>4
  <2>6. /\ \A g \in Fibers \ {Cur(t)} : m_state'[g] = m_state[g]
        /\ m_state'[Cur(t)] = "EXEC"
    BY <2>2, <2>4 DEF FiberTypes
  <2>7. "exec" \in Carrying /\ ("exec" \in Running <=> "EXEC" = "EXEC")
    BY DEF Carrying, OnStack, Running
  <2>8. /\ "exec" \in Running <=> m_state'[Cur(t)] = "EXEC"
        /\ "exec" \notin Running =>
             m_state'[Cur(t)] \in {"READY", "HOLD", "TERM", "EXCEPT"}
        /\ waits'[Cur(t)] \in {0, 1}
        /\ waits'[Cur(t)] = 1 =>
             "exec" # "exec" /\ m_state'[Cur(t)] \in {"EXEC", "HOLD"}
        /\ \A g \in Fibers \ {Cur(t)} :
             m_state'[g] = m_state[g] /\ waits'[g] = waits[g]
    BY <2>3, <2>4, <2>6, <2>7
  <2>. QED  BY <2>1, <2>4, <2>5, <2>7, <2>8, OwnRun
<1>19. ASSUME NEW t \in Threads, SwapInCb(t)
       PROVE  Ownership'
  BY <1>19, OwnSwapInCb
<1>20. ASSUME NEW t \in Threads, SkipEnded(t)
       PROVE  Ownership'
  BY <1>20 DEF SkipEnded, Ownership, PlaceOf, Runnable, Ended
<1>21. ASSUME NEW t \in Threads, NEW c \in Tasks, NEW p \in BodyPins,
              BodySchedule(t, c, p)
       PROVE  Ownership'
  <2>1. OfCb(c, p) \in Entry /\ OfCb(c, p).fiber = NoFiber
    BY EntryTypes, ThreadAssumption DEF OfCb
  <2>. QED  BY <1>21, <2>1, OwnPushCb DEF BodySchedule
<1>22. ASSUME NEW t \in Threads, YieldToReady(t)
       PROVE  Ownership'
  <2>1. pc[t] \in Carrying \/ (pc[t] = "dispatch" /\ ft[t].fiber # NoFiber)
    BY <1>22 DEF YieldToReady, Carrying, OnStack
  <2>2. Cur(t) \in Fibers /\ PlaceOf(t)
    BY <2>1, OwnApart DEF Ownership
  <2>3. m_state[Cur(t)] = "EXEC" /\ waits[Cur(t)] = 0
    BY <1>22, <2>2 DEF YieldToReady, PlaceOf, Cur, Runnable, Running,
        Ownership, FibersOwned
  <2>4. /\ pc' = [pc EXCEPT ![t] = "swapout"]
        /\ m_state' = [m_state EXCEPT ![Cur(t)] = "READY"]
        /\ UNCHANGED <<m_fibers, ft, cb_fiber, waits>>
    BY <1>22 DEF YieldToReady, workVars
  <2>5. UNCHANGED failed
    <3>1. ~ failed
      BY DEF Ownership, NoAssertFailure
    <3>2. failed' = (failed \/ ~ (m_state[Cur(t)] = "EXEC"))
      BY <1>22, Zenon DEF YieldToReady, SYLAR_ASSERT
    <3>3. failed' = FALSE
      BY <2>3, <3>1, <3>2
    <3>4. failed \in BOOLEAN
      BY DEF FlagTypes
    <3>. QED  BY <3>1, <3>3, <3>4
  <2>6. /\ \A g \in Fibers \ {Cur(t)} : m_state'[g] = m_state[g]
        /\ m_state'[Cur(t)] = "READY"
    BY <2>2, <2>4 DEF FiberTypes
  <2>7. "swapout" \in Carrying /\ ("swapout" \in Running <=> "READY" = "EXEC")
    BY DEF Carrying, OnStack, Running
  <2>8. /\ "swapout" \in Running <=> m_state'[Cur(t)] = "EXEC"
        /\ "swapout" \notin Running =>
             m_state'[Cur(t)] \in {"READY", "HOLD", "TERM", "EXCEPT"}
        /\ waits'[Cur(t)] \in {0, 1}
        /\ waits'[Cur(t)] = 1 =>
             "swapout" # "exec" /\ m_state'[Cur(t)] \in {"EXEC", "HOLD"}
        /\ \A g \in Fibers \ {Cur(t)} :
             m_state'[g] = m_state[g] /\ waits'[g] = waits[g]
    BY <2>3, <2>4, <2>6, <2>7
  <2>. QED  BY <2>1, <2>4, <2>5, <2>7, <2>8, OwnRun
<1>23. ASSUME NEW t \in Threads, NEW n \in 1..WaitsPerHold, ArrangeWake(t, n)
       PROVE  Ownership'
  <2>1. pc[t] \in Carrying \/ (pc[t] = "dispatch" /\ ft[t].fiber # NoFiber)
    BY <1>23 DEF ArrangeWake, Carrying, OnStack
  <2>2. Cur(t) \in Fibers /\ PlaceOf(t)
    BY <2>1, OwnApart DEF Ownership
  <2>3. m_state[Cur(t)] = "EXEC" /\ waits[Cur(t)] = 0
    BY <1>23, <2>2 DEF ArrangeWake, PlaceOf, Running
  <2>4. n = 1
    BY DEF Disciplined
  <2>5. /\ waits' = [waits EXCEPT ![Cur(t)] = waits[Cur(t)] + n]
        /\ pc' = [pc EXCEPT ![t] = "hold"]
        /\ UNCHANGED <<m_state, m_fibers, ft, cb_fiber, failed>>
    BY <1>23 DEF ArrangeWake, fiberVars
  <2>6. waits[Cur(t)] + n = 1
    BY <2>3, <2>4
  <2>7. /\ \A g \in Fibers \ {Cur(t)} : waits'[g] = waits[g]
        /\ waits'[Cur(t)] = 1
    BY <2>2, <2>5, <2>6 DEF WorkTypes
  <2>8. "hold" \in Carrying /\ "hold" \in Running
    BY DEF Carrying, OnStack, Running
  <2>. QED  BY <2>1, <2>3, <2>5, <2>7, <2>8, OwnRun
<1>24. ASSUME NEW t \in Threads, NEW p \in SwitchTargets, SwitchTo(t, p)
       PROVE  Ownership'
  <2>1. UNCHANGED <<m_fibers, pc, fiberVars, ft, cb_fiber, waits, failed>>
    BY <1>24 DEF SwitchTo, Disciplined
  <2>. QED  BY <2>1, OwnIdle
<1>25. ASSUME NEW t \in Threads, YieldToHold(t)
       PROVE  Ownership'
  <2>1. pc[t] \in Carrying \/ (pc[t] = "dispatch" /\ ft[t].fiber # NoFiber)
    BY <1>25 DEF YieldToHold, Carrying, OnStack
  <2>2. Cur(t) \in Fibers /\ PlaceOf(t)
    BY <2>1, OwnApart DEF Ownership
  <2>3. m_state[Cur(t)] = "EXEC" /\ waits[Cur(t)] \in {0, 1}
    BY <1>25, <2>2 DEF YieldToHold, PlaceOf, Cur, Runnable, Running,
        Ownership, FibersOwned
  <2>4. /\ pc' = [pc EXCEPT ![t] = "swapout"]
        /\ m_state' = [m_state EXCEPT ![Cur(t)] = "HOLD"]
        /\ UNCHANGED <<m_fibers, ft, cb_fiber, waits>>
    BY <1>25 DEF YieldToHold, workVars
  <2>5. UNCHANGED failed
    <3>1. ~ failed
      BY DEF Ownership, NoAssertFailure
    <3>2. failed' = (failed \/ ~ (m_state[Cur(t)] = "EXEC"))
      BY <1>25, Zenon DEF YieldToHold, SYLAR_ASSERT
    <3>3. failed' = FALSE
      BY <2>3, <3>1, <3>2
    <3>4. failed \in BOOLEAN
      BY DEF FlagTypes
    <3>. QED  BY <3>1, <3>3, <3>4
  <2>6. /\ \A g \in Fibers \ {Cur(t)} : m_state'[g] = m_state[g]
        /\ m_state'[Cur(t)] = "HOLD"
    BY <2>2, <2>4 DEF FiberTypes
  <2>7. "swapout" \in Carrying /\ ("swapout" \in Running <=> "HOLD" = "EXEC")
    BY DEF Carrying, OnStack, Running
  <2>8. /\ "swapout" \in Running <=> m_state'[Cur(t)] = "EXEC"
        /\ "swapout" \notin Running =>
             m_state'[Cur(t)] \in {"READY", "HOLD", "TERM", "EXCEPT"}
        /\ waits'[Cur(t)] \in {0, 1}
        /\ waits'[Cur(t)] = 1 =>
             "swapout" # "exec" /\ m_state'[Cur(t)] \in {"EXEC", "HOLD"}
        /\ \A g \in Fibers \ {Cur(t)} :
             m_state'[g] = m_state[g] /\ waits'[g] = waits[g]
    BY <2>3, <2>4, <2>6, <2>7
  <2>. QED  BY <2>1, <2>4, <2>5, <2>7, <2>8, OwnRun
<1>26. ASSUME NEW t \in Threads, MainFuncReturn(t)
       PROVE  Ownership'
  <2>1. pc[t] \in Carrying \/ (pc[t] = "dispatch" /\ ft[t].fiber # NoFiber)
    BY <1>26 DEF MainFuncReturn, Carrying, OnStack
  <2>2. Cur(t) \in Fibers /\ PlaceOf(t)
    BY <2>1, OwnApart DEF Ownership
  <2>3. waits[Cur(t)] = 0
    BY <1>26, <2>2 DEF MainFuncReturn, PlaceOf, Cur, Runnable, Running,
        Ownership, FibersOwned
  <2>4. /\ pc' = [pc EXCEPT ![t] = "swapout"]
        /\ m_state' = [m_state EXCEPT ![Cur(t)] = "TERM"]
        /\ UNCHANGED <<m_fibers, ft, cb_fiber, waits>>
    BY <1>26 DEF MainFuncReturn, workVars
  <2>5. UNCHANGED failed
    BY <1>26 DEF MainFuncReturn
  <2>6. /\ \A g \in Fibers \ {Cur(t)} : m_state'[g] = m_state[g]
        /\ m_state'[Cur(t)] = "TERM"
    BY <2>2, <2>4 DEF FiberTypes
  <2>7. "swapout" \in Carrying /\ ("swapout" \in Running <=> "TERM" = "EXEC")
    BY DEF Carrying, OnStack, Running
  <2>8. /\ "swapout" \in Running <=> m_state'[Cur(t)] = "EXEC"
        /\ "swapout" \notin Running =>
             m_state'[Cur(t)] \in {"READY", "HOLD", "TERM", "EXCEPT"}
        /\ waits'[Cur(t)] \in {0, 1}
        /\ waits'[Cur(t)] = 1 =>
             "swapout" # "exec" /\ m_state'[Cur(t)] \in {"EXEC", "HOLD"}
        /\ \A g \in Fibers \ {Cur(t)} :
             m_state'[g] = m_state[g] /\ waits'[g] = waits[g]
    BY <2>3, <2>4, <2>6, <2>7
  <2>. QED  BY <2>1, <2>4, <2>5, <2>7, <2>8, OwnRun
<1>27. ASSUME NEW t \in Threads, MainFuncThrow(t)
       PROVE  Ownership'
  <2>1. pc[t] \in Carrying \/ (pc[t] = "dispatch" /\ ft[t].fiber # NoFiber)
    BY <1>27 DEF MainFuncThrow, Carrying, OnStack
  <2>2. Cur(t) \in Fibers /\ PlaceOf(t)
    BY <2>1, OwnApart DEF Ownership
  <2>3. waits[Cur(t)] = 0
    BY <1>27, <2>2 DEF MainFuncThrow, PlaceOf, Cur, Runnable, Running,
        Ownership, FibersOwned
  <2>4. /\ pc' = [pc EXCEPT ![t] = "swapout"]
        /\ m_state' = [m_state EXCEPT ![Cur(t)] = "EXCEPT"]
        /\ UNCHANGED <<m_fibers, ft, cb_fiber, waits>>
    BY <1>27 DEF MainFuncThrow, workVars
  <2>5. UNCHANGED failed
    BY <1>27 DEF MainFuncThrow
  <2>6. /\ \A g \in Fibers \ {Cur(t)} : m_state'[g] = m_state[g]
        /\ m_state'[Cur(t)] = "EXCEPT"
    BY <2>2, <2>4 DEF FiberTypes
  <2>7. "swapout" \in Carrying /\ ("swapout" \in Running <=> "EXCEPT" =
      "EXEC")
    BY DEF Carrying, OnStack, Running
  <2>8. /\ "swapout" \in Running <=> m_state'[Cur(t)] = "EXEC"
        /\ "swapout" \notin Running =>
             m_state'[Cur(t)] \in {"READY", "HOLD", "TERM", "EXCEPT"}
        /\ waits'[Cur(t)] \in {0, 1}
        /\ waits'[Cur(t)] = 1 =>
             "swapout" # "exec" /\ m_state'[Cur(t)] \in {"EXEC", "HOLD"}
        /\ \A g \in Fibers \ {Cur(t)} :
             m_state'[g] = m_state[g] /\ waits'[g] = waits[g]
    BY <2>3, <2>4, <2>6, <2>7
  <2>. QED  BY <2>1, <2>4, <2>5, <2>7, <2>8, OwnRun
<1>28. ASSUME NEW t \in Threads, SwapOut(t)
       PROVE  Ownership'
  <2>1. pc[t] \in Carrying \/ (pc[t] = "dispatch" /\ ft[t].fiber # NoFiber)
    BY <1>28 DEF SwapOut, Carrying, OnStack
  <2>2. Cur(t) \in Fibers /\ PlaceOf(t)
    BY <2>1, OwnApart DEF Ownership
  <2>3. /\ m_state[Cur(t)] \in {"READY", "HOLD", "TERM", "EXCEPT"}
        /\ m_state[Cur(t)] # "HOLD" => waits[Cur(t)] = 0
        /\ waits[Cur(t)] \in {0, 1}
    BY <1>28, <2>2 DEF SwapOut, PlaceOf, Ownership, FibersOwned
  <2>4. /\ pc' = [pc EXCEPT ![t] = "swapped"]
        /\ UNCHANGED <<m_state, waits, m_fibers, ft, cb_fiber, failed>>
    BY <1>28 DEF SwapOut, fiberVars, workVars
  <2>5. "swapped" \in Carrying \ Running
    BY DEF Carrying, OnStack, Running
  <2>6. /\ "swapped" \in Running <=> m_state'[Cur(t)] = "EXEC"
        /\ "swapped" \notin Running =>
             m_state'[Cur(t)] \in {"READY", "HOLD", "TERM", "EXCEPT"}
        /\ waits'[Cur(t)] \in {0, 1}
        /\ waits'[Cur(t)] = 1 =>
             "swapped" # "exec" /\ m_state'[Cur(t)] \in {"EXEC", "HOLD"}
        /\ \A g \in Fibers \ {Cur(t)} :
             m_state'[g] = m_state[g] /\ waits'[g] = waits[g]
    BY <2>3, <2>4, <2>5
  <2>. QED  BY <2>1, <2>4, <2>5, <2>6, OwnRun
<1>29. ASSUME NEW t \in Threads, Deactivate(t)
       PROVE  Ownership'
  <2>1. pc[t] \in Carrying \/ (pc[t] = "dispatch" /\ ft[t].fiber # NoFiber)
    BY <1>29 DEF Deactivate, Carrying, OnStack
  <2>2. Cur(t) \in Fibers /\ PlaceOf(t)
    BY <2>1, OwnApart DEF Ownership
  <2>3. /\ m_state[Cur(t)] \in {"READY", "HOLD", "TERM", "EXCEPT"}
        /\ m_state[Cur(t)] # "HOLD" => waits[Cur(t)] = 0
        /\ waits[Cur(t)] \in {0, 1}
    BY <1>29, <2>2 DEF Deactivate, PlaceOf, Ownership, FibersOwned
  <2>4. /\ pc' = [pc EXCEPT ![t] = "settle"]
        /\ UNCHANGED <<m_state, waits, m_fibers, ft, cb_fiber, failed>>
    BY <1>29 DEF Deactivate, fiberVars, workVars
  <2>5. "settle" \in Carrying \ Running
    BY DEF Carrying, OnStack, Running
  <2>6. /\ "settle" \in Running <=> m_state'[Cur(t)] = "EXEC"
        /\ "settle" \notin Running =>
             m_state'[Cur(t)] \in {"READY", "HOLD", "TERM", "EXCEPT"}
        /\ waits'[Cur(t)] \in {0, 1}
        /\ waits'[Cur(t)] = 1 =>
             "settle" # "exec" /\ m_state'[Cur(t)] \in {"EXEC", "HOLD"}
        /\ \A g \in Fibers \ {Cur(t)} :
             m_state'[g] = m_state[g] /\ waits'[g] = waits[g]
    BY <2>3, <2>4, <2>5
  <2>. QED  BY <2>1, <2>4, <2>5, <2>6, OwnRun
<1>30. ASSUME NEW t \in Threads, SettleReady(t)
       PROVE  Ownership'
  BY <1>30, OwnSettle
<1>31. ASSUME NEW t \in Threads, SettleEnded(t)
       PROVE  Ownership'
  BY <1>31, OwnSettle
<1>32. ASSUME NEW t \in Threads, SettleHold(t)
       PROVE  Ownership'
  BY <1>32, OwnSettle
<1>33. ASSUME NEW f \in Fibers, Wake(f)
       PROVE  Ownership'
  BY <1>33, OwnWake
<1>34. CASE Finished \/ UNCHANGED vars
  BY <1>34, OwnIdle DEF Finished, vars, fiberVars, runVars, workVars
<1>. QED
  BY <1>1, <1>2, <1>3, <1>4, <1>5, <1>6, <1>7, <1>8, <1>9, <1>10, <1>11,
      <1>12, <1>13, <1>14, <1>15, <1>16, <1>17, <1>18, <1>19, <1>20, <1>21,
      <1>22, <1>23, <1>24, <1>25, <1>26, <1>27, <1>28, <1>29, <1>30, <1>31,
      <1>32, <1>33, <1>34 DEF Next, Owner, Stop, Run, Body

\* At first there is no fiber to own.
LEMMA OwnershipInit == Init => Ownership
BY DEF Init, Ownership, QueueOwns, ThreadsOwn, PlaceOf, FibersOwned,
       NoAssertFailure, NoEntry, InHand, OnStack, Carrying, Running

\* Under the discipline every fiber has one owner at all times.
LEMMA OwnershipInvariant == Disciplined => (Spec => [](BaseInv /\ Ownership))
<1>. SUFFICES ASSUME Disciplined PROVE Spec => [](BaseInv /\ Ownership)
  OBVIOUS
<1>1. Init => BaseInv /\ Ownership
  BY BaseInit, OwnershipInit
<1>2. BaseInv /\ Ownership /\ [Next]_vars => (BaseInv /\ Ownership)'
  BY BaseStep, OwnershipStep DEF BaseInv, TypeOK
<1>. QED  BY <1>1, <1>2, PTL DEF Spec

\* No two threads ever execute on the stack of one fiber, however many threads
\* and fibers there are, provided that wake-ups are disciplined: the races in
\* YieldToHold (fiber.cc:216) and after swapIn (scheduler.cc:226-234) are the
\* only ways to share a fiber.
THEOREM DisciplinedSingleRunner == Disciplined => (Spec => []SingleRunner)
<1>1. RunTypes /\ FiberTypes /\ Ownership => SingleRunner
  <2>. SUFFICES ASSUME RunTypes, FiberTypes, Ownership,
                       NEW t \in Threads, NEW u \in Threads, t # u,
                       pc[t] \in OnStack
                PROVE  Cur(t) # Cur(u)
    BY DEF SingleRunner
  <2>. QED  BY OwnApart DEF Carrying
<1>2. BaseInv /\ Ownership => SingleRunner
  BY <1>1 DEF BaseInv, TypeOK
<1>. QED  BY <1>2, OwnershipInvariant, PTL

\* Under the same condition none of the assertions of swapIn, reset and the two
\* yields (fiber.cc:126, 165, 207, 215) can fail.
THEOREM DisciplinedNoAssertFailure == Disciplined => (Spec => []NoAssertFailure)
<1>1. BaseInv /\ Ownership => NoAssertFailure
  BY DEF Ownership
<1>. QED  BY <1>1, OwnershipInvariant, PTL
-----------------------------------------------------------------------------
(* Each callback is in one place.                                           *)

Live    == {"INIT", "READY", "EXEC", "HOLD"}
Entered == {"EXEC", "READY", "HOLD"}

\* A fiber that can still run holds the callback.
Holds(f, c) == m_cb[f] = c /\ m_state[f] \in Live

\* A callback in the queue was submitted and is nowhere else.
QueueCarries ==
  \A i \in 1..Len(m_fibers) : m_fibers[i].cb # NoCb =>
    /\ m_fibers[i].cb \in submitted
    /\ m_fibers[i].fiber = NoFiber
    /\ \A j \in 1..Len(m_fibers) : m_fibers[j].cb = m_fibers[i].cb => j = i
    /\ \A t \in Threads : ft[t].cb # m_fibers[i].cb
    /\ \A f \in Fibers : ~ Holds(f, m_fibers[i].cb)

\* Nor is one that a thread has taken, until it enters a fiber for it.
ThreadsCarry ==
  \A t \in Threads : ft[t].cb # NoCb =>
    /\ pc[t] = "dispatch"
    /\ ft[t].cb \in submitted
    /\ ft[t].fiber = NoFiber
    /\ \A u \in Threads : ft[u].cb = ft[t].cb => u = t
    /\ \A f \in Fibers : ~ Holds(f, ft[t].cb)

\* Nor is one that a fiber holds.
FibersCarry ==
  \A f \in Fibers : m_cb[f] # NoCb /\ m_state[f] \in Live =>
    /\ m_cb[f] \in submitted
    /\ \A g \in Fibers : Holds(g, m_cb[f]) => g = f

Carried == QueueCarries /\ ThreadsCarry /\ FibersCarry

\* No fiber gets a callback or comes to life with one.
HoldsNoMore ==
  \A f \in Fibers : m_cb'[f] # NoCb /\ m_state'[f] \in Live =>
    m_cb'[f] = m_cb[f] /\ m_state[f] \in Live

\* A thread keeps the callback it has taken, and its place, or has none.
TakesNoMore ==
  \A t \in Threads : ft'[t].cb # NoCb => ft'[t] = ft[t] /\ pc'[t] = pc[t]

\* The queue gets no callback.
QueuesNoMore ==
  \A i \in 1..Len(m_fibers') : m_fibers'[i].cb # NoCb =>
    i \in 1..Len(m_fibers) /\ m_fibers'[i] = m_fibers[i]

\* Then every callback stays where it is, or goes.
LEMMA CarriedKept ==
  ASSUME Carried, HoldsNoMore, TakesNoMore, QueuesNoMore, submitted' = submitted
  PROVE  Carried'
<1>1. \A f \in Fibers : \A c : c # NoCb /\ Holds(f, c)' => Holds(f, c)
  BY DEF HoldsNoMore, Holds
<1>2. QueueCarries'
  BY <1>1 DEF Carried, QueueCarries, TakesNoMore, QueuesNoMore
<1>3. ThreadsCarry'
  BY <1>1 DEF Carried, ThreadsCarry, TakesNoMore
<1>4. FibersCarry'
  BY <1>1 DEF Carried, FibersCarry, HoldsNoMore
<1>. QED  BY <1>2, <1>3, <1>4 DEF Carried

\* A callback that was not submitted is nowhere.
LEMMA NewIsNowhere ==
  ASSUME Carried, NEW c \in Tasks, c \notin submitted
  PROVE  /\ \A i \in 1..Len(m_fibers) : m_fibers[i].cb # c
         /\ \A t \in Threads : ft[t].cb # c
         /\ \A f \in Fibers : ~ Holds(f, c)
BY TaskAssumption DEF Carried, QueueCarries, ThreadsCarry, FibersCarry, Holds

\* The queue gets the callbacks S, one entry for each.
Pushes(S) ==
  /\ \A i \in 1..Len(m_fibers) : i \in 1..Len(m_fibers') /\ m_fibers'[i] = m_fibers[i]
  /\ \A i \in 1..Len(m_fibers') :
       i \in 1..Len(m_fibers) \/ (m_fibers'[i].cb \in S /\ m_fibers'[i].fiber = NoFiber)
  /\ \A i, j \in 1..Len(m_fibers') :
       m_fibers'[i].cb = m_fibers'[j].cb /\ m_fibers'[i].cb \in S => i = j
  /\ \A c \in S : \E i \in 1..Len(m_fibers') : m_fibers'[i].cb = c

\* schedule(cb), by the owner or in a fiber, gives it one.
LEMMA PushOne ==
  ASSUME FiberTypes, Carried, NEW c \in Tasks, NEW p, c \notin submitted,
         m_fibers' = Append(m_fibers, OfCb(c, p)), OfCb(c, p) \in Entry
  PROVE  Pushes({c})
<1>1. /\ Len(m_fibers') = Len(m_fibers) + 1 /\ Len(m_fibers) \in Nat
      /\ \A i \in 1..(Len(m_fibers) + 1) :
           m_fibers'[i] = IF i <= Len(m_fibers) THEN m_fibers[i] ELSE OfCb(c, p)
  BY AppendProperties DEF FiberTypes
<1>2. OfCb(c, p).cb = c /\ OfCb(c, p).fiber = NoFiber
  BY DEF OfCb
<1>3. \A i \in 1..Len(m_fibers) : m_fibers[i].cb # c
  BY NewIsNowhere
<1>4. \A i \in 1..Len(m_fibers') :
        \/ i \in 1..Len(m_fibers) /\ m_fibers'[i] = m_fibers[i]
        \/ i = Len(m_fibers) + 1 /\ m_fibers'[i].cb = c /\ m_fibers'[i].fiber = NoFiber
  BY <1>1, <1>2
<1>5. \E i \in 1..Len(m_fibers') : m_fibers'[i].cb = c
  BY <1>1, <1>2
<1>6. \A i \in 1..Len(m_fibers) : i \in 1..Len(m_fibers') /\ m_fibers'[i] = m_fibers[i]
  BY <1>1
<1>7. \A i, j \in 1..Len(m_fibers') :
        m_fibers'[i].cb = m_fibers'[j].cb /\ m_fibers'[i].cb \in {c} => i = j
  BY <1>3, <1>4
<1>8. \A i \in 1..Len(m_fibers') :
        i \in 1..Len(m_fibers) \/ (m_fibers'[i].cb \in {c} /\ m_fibers'[i].fiber = NoFiber)
  BY <1>4
<1>9. \A d \in {c} : \E i \in 1..Len(m_fibers') : m_fibers'[i].cb = d
  BY <1>5
<1>. QED  BY <1>6, <1>7, <1>8, <1>9 DEF Pushes

\* schedule(begin, end) gives it two.
LEMMA PushTwo ==
  ASSUME FiberTypes, Carried, NEW c \in Tasks, NEW d \in Tasks, c # d,
         c \notin submitted, d \notin submitted,
         m_fibers' = m_fibers \o <<OfCb(c, AnyThread), OfCb(d, AnyThread)>>
  PROVE  Pushes({c, d})
<1>. DEFINE e1 == OfCb(c, AnyThread)
            e2 == OfCb(d, AnyThread)
<1>1. /\ e1 \in Entry /\ e2 \in Entry
      /\ e1.fiber = NoFiber /\ e2.fiber = NoFiber /\ e1.cb = c /\ e2.cb = d
  BY EntryTypes DEF OfCb
<1>2. m_fibers' = m_fibers \o <<e1, e2>>
  OBVIOUS
<1>. HIDE DEF e1, e2
<1>3. /\ Len(m_fibers) \in Nat
      /\ Len(m_fibers') = Len(m_fibers) + 2
      /\ \A i \in 1..Len(m_fibers) : m_fibers'[i] = m_fibers[i]
      /\ m_fibers'[Len(m_fibers) + 1] = e1
      /\ m_fibers'[Len(m_fibers) + 2] = e2
  BY <1>1, <1>2
<1>4. \A i \in 1..Len(m_fibers) : m_fibers[i].cb # c /\ m_fibers[i].cb # d
  BY NewIsNowhere
<1>5. \A i \in 1..Len(m_fibers') :
        \/ i \in 1..Len(m_fibers) /\ m_fibers'[i] = m_fibers[i]
        \/ i = Len(m_fibers) + 1 /\ m_fibers'[i].cb = c /\ m_fibers'[i].fiber = NoFiber
        \/ i = Len(m_fibers) + 2 /\ m_fibers'[i].cb = d /\ m_fibers'[i].fiber = NoFiber
  BY <1>1, <1>3
<1>6. /\ \E i \in 1..Len(m_fibers') : m_fibers'[i].cb = c
      /\ \E i \in 1..Len(m_fibers') : m_fibers'[i].cb = d
  <2>1. Len(m_fibers) + 1 \in 1..Len(m_fibers') /\ Len(m_fibers) + 2 \in 1..Len(m_fibers')
    BY <1>3
  <2>2. m_fibers'[Len(m_fibers) + 1].cb = c /\ m_fibers'[Len(m_fibers) + 2].cb = d
    BY <1>1, <1>3
  <2>. QED  BY <2>1, <2>2
<1>7. \A i \in 1..Len(m_fibers) : i \in 1..Len(m_fibers') /\ m_fibers'[i] = m_fibers[i]
  BY <1>3
<1>8. \A i, j \in 1..Len(m_fibers') :
        m_fibers'[i].cb = m_fibers'[j].cb /\ m_fibers'[i].cb \in {c, d} => i = j
  BY <1>4, <1>5, SMTT(30)
<1>9. \A i \in 1..Len(m_fibers') :
        i \in 1..Len(m_fibers) \/ (m_fibers'[i].cb \in {c, d} /\ m_fibers'[i].fiber = NoFiber)
  BY <1>5
<1>10. \A b \in {c, d} : \E i \in 1..Len(m_fibers') : m_fibers'[i].cb = b
  BY <1>6
<1>. QED  BY <1>7, <1>8, <1>9, <1>10 DEF Pushes

\* Callbacks that are submitted are then in the queue, and nowhere else.
LEMMA CarriedPush ==
  ASSUME Carried, NEW S \in SUBSET Tasks, S \cap submitted = {}, Pushes(S),
         submitted' = submitted \cup S, UNCHANGED <<fiberVars, runVars>>
  PROVE  Carried'
<1>1. \A f \in Fibers : \A d : Holds(f, d)' <=> Holds(f, d)
  BY DEF Holds, fiberVars
<1>2. \A c \in S : /\ \A i \in 1..Len(m_fibers) : m_fibers[i].cb # c
                   /\ \A t \in Threads : ft[t].cb # c
                   /\ \A f \in Fibers : ~ Holds(f, c)
  BY NewIsNowhere
<1>3. \A i \in 1..Len(m_fibers') :
        \/ i \in 1..Len(m_fibers) /\ m_fibers'[i] = m_fibers[i] /\ m_fibers'[i].cb \notin S
        \/ m_fibers'[i].cb \in S /\ m_fibers'[i].fiber = NoFiber
  BY <1>2 DEF Pushes
<1>4. QueueCarries'
  <2>1. ft' = ft
    BY DEF runVars
  <2>2. \A i, j \in 1..Len(m_fibers') :
          m_fibers'[i].cb = m_fibers'[j].cb /\ m_fibers'[i].cb \in S => i = j
    BY DEF Pushes
  <2>3. ASSUME NEW i \in 1..Len(m_fibers'), m_fibers'[i].cb # NoCb
        PROVE  /\ m_fibers'[i].cb \in submitted'
               /\ m_fibers'[i].fiber = NoFiber
               /\ \A j \in 1..Len(m_fibers') : m_fibers'[j].cb = m_fibers'[i].cb => j = i
               /\ \A t \in Threads : ft'[t].cb # m_fibers'[i].cb
               /\ \A f \in Fibers : ~ Holds(f, m_fibers'[i].cb)
    <3>1. CASE m_fibers'[i].cb \in S
      BY <1>2, <1>3, <2>1, <2>2, <3>1
    <3>2. CASE m_fibers'[i].cb \notin S
      <4>1. i \in 1..Len(m_fibers) /\ m_fibers'[i] = m_fibers[i]
        BY <1>3, <3>2
      <4>2. \A j \in 1..Len(m_fibers') : m_fibers'[j].cb = m_fibers'[i].cb
              => j \in 1..Len(m_fibers) /\ m_fibers'[j] = m_fibers[j]
        BY <1>3, <3>2
      <4>. QED  BY <2>1, <2>3, <4>1, <4>2 DEF Carried, QueueCarries
    <3>. QED  BY <3>1, <3>2
  <2>. QED  BY <1>1, <2>3 DEF QueueCarries
<1>5. ThreadsCarry' /\ FibersCarry'
  BY <1>1 DEF Carried, ThreadsCarry, FibersCarry, runVars, fiberVars
<1>. QED  BY <1>4, <1>5 DEF Carried

\* A new fiber with a callback that was not submitted.
LEMMA CarriedNewFiber ==
  ASSUME FiberTypes, RunTypes, Ownership, Carried,
         NEW c \in Tasks, NEW p \in ClientPins, ScheduleFiber(c, p)
  PROVE  Carried'
<1>1. PICK f : f = Fresh
  OBVIOUS
<1>2. /\ m_state' = [m_state EXCEPT ![f] = "INIT"]
      /\ m_cb' = [m_cb EXCEPT ![f] = c]
      /\ m_fibers' = Append(m_fibers, OfFiber(f, p))
      /\ submitted' = submitted \cup {c} /\ c \notin submitted
      /\ UNCHANGED <<pc, ft>>
  BY <1>1 DEF ScheduleFiber, runVars
<1>3. f \in Fibers
  BY <1>1, FreshApart DEF ScheduleFiber
<1>4. \A g \in Fibers : IF g = f THEN m_cb'[g] = c
                        ELSE m_state'[g] = m_state[g] /\ m_cb'[g] = m_cb[g]
  BY <1>2, <1>3 DEF FiberTypes
<1>5. /\ \A i \in 1..Len(m_fibers) : m_fibers[i].cb # c
      /\ \A t \in Threads : ft[t].cb # c
      /\ \A g \in Fibers : ~ Holds(g, c)
  BY <1>2, NewIsNowhere
<1>6. \A g \in Fibers : \A d : Holds(g, d)' => Holds(g, d) \/ (g = f /\ d = c)
  BY <1>4 DEF Holds
<1>7. \A i \in 1..Len(m_fibers') : m_fibers'[i].cb # NoCb =>
        i \in 1..Len(m_fibers) /\ m_fibers'[i] = m_fibers[i]
  <2>1. OfFiber(f, p) \in Entry /\ OfFiber(f, p).cb = NoCb
    BY <1>3, EntryTypes, ThreadAssumption DEF OfFiber
  <2>2. /\ Len(m_fibers) \in Nat
        /\ Len(m_fibers') = Len(m_fibers) + 1
        /\ \A i \in 1..(Len(m_fibers) + 1) :
             m_fibers'[i] = IF i <= Len(m_fibers) THEN m_fibers[i] ELSE OfFiber(f, p)
    BY <1>2, <2>1
  <2>. QED  BY <2>1, <2>2
<1>8. QueueCarries'
  BY <1>2, <1>5, <1>6, <1>7 DEF Carried, QueueCarries
<1>9. ThreadsCarry'
  BY <1>2, <1>5, <1>6 DEF Carried, ThreadsCarry
<1>10. FibersCarry'
  BY <1>2, <1>4, <1>5, <1>6 DEF Carried, FibersCarry
<1>. QED  BY <1>8, <1>9, <1>10 DEF Carried

-----------------------------------------------------------------------------
(* What a step does to a callback.                                          *)

Queued(c) == \/ \E i \in 1..Len(m_fibers) : CbWaits(m_fibers[i], c)
             \/ \E t \in Threads : CbWaits(ft[t], c)

Runs(c) == \E f \in Fibers : m_cb[f] = c /\ m_state[f] \in Entered

\* Nothing happens to it.
Stays(c) == (Queued(c)' <=> Queued(c)) /\ (Runs(c)' <=> Runs(c))

Keeps == submitted' = submitted /\ \A c \in Tasks : Stays(c)

\* The callbacks S are submitted.
Submits(S) ==
  /\ S # {} /\ S \cap submitted = {} /\ submitted' = submitted \cup S
  /\ \A c \in S : Queued(c)'
  /\ \A c \in Tasks \ S : Stays(c)

\* A fiber is entered with it for the first time.
Begins(c) ==
  /\ submitted' = submitted
  /\ Queued(c) /\ ~ Queued(c)' /\ Runs(c)'
  /\ \A d \in Tasks \ {c} : Stays(d)

\* It has returned, or thrown.
Ends(c) ==
  /\ submitted' = submitted
  /\ Runs(c) /\ ~ Runs(c)' /\ ~ Queued(c)'
  /\ \A d \in Tasks \ {c} : Stays(d)

\* A callback that waits or runs was submitted, and does not do both.
LEMMA OnePlace ==
  ASSUME FiberTypes, RunTypes, Carried, NEW c \in Tasks
  PROVE  /\ Queued(c) => c \in submitted /\ ~ Runs(c)
         /\ Runs(c) => c \in submitted
<1>1. c # NoCb
  BY TaskAssumption
<1>2. ASSUME Runs(c) PROVE c \in submitted
  BY <1>1, <1>2 DEF Runs, Carried, FibersCarry, Entered, Live
<1>3. ASSUME NEW e \in Entry, CbWaits(e, c), e.cb # c
      PROVE  c \in submitted /\ ~ Runs(c)
  <2>1. PICK f \in Fibers : f = e.fiber /\ m_state[f] = "INIT" /\ m_cb[f] = c
    BY <1>3 DEF CbWaits, Entry
  <2>2. /\ c \in submitted
        /\ \A g \in Fibers : m_cb[g] = c /\ m_state[g] \in Live => g = f
    BY <1>1, <2>1 DEF Carried, FibersCarry, Holds, Live
  <2>. QED  BY <2>1, <2>2 DEF Runs, Entered, Live
<1>4. \A i \in 1..Len(m_fibers) : m_fibers[i] \in Entry
  BY DEF FiberTypes
<1>5. \A t \in Threads : ft[t] \in Entry
  BY DEF RunTypes
<1>6. ASSUME NEW i \in 1..Len(m_fibers), m_fibers[i].cb = c
      PROVE  c \in submitted /\ ~ Runs(c)
  BY <1>1, <1>6 DEF Carried, QueueCarries, Runs, Holds, Entered, Live
<1>7. ASSUME NEW t \in Threads, ft[t].cb = c
      PROVE  c \in submitted /\ ~ Runs(c)
  BY <1>1, <1>7 DEF Carried, ThreadsCarry, Runs, Holds, Entered, Live
<1>8. ASSUME Queued(c) PROVE c \in submitted /\ ~ Runs(c)
  BY <1>3, <1>4, <1>5, <1>6, <1>7, <1>8 DEF Queued
<1>. QED  BY <1>2, <1>8

\* The queue gets no callback and no fiber that has not begun.
QueueAdds ==
  /\ \A i \in 1..Len(m_fibers) : i \in 1..Len(m_fibers') /\ m_fibers'[i] = m_fibers[i]
  /\ \A i \in 1..Len(m_fibers') :
       \/ i \in 1..Len(m_fibers)
       \/ /\ m_fibers'[i].cb = NoCb /\ m_fibers'[i].fiber \in Fibers
          /\ m_state'[m_fibers'[i].fiber] # "INIT"

\* A thread keeps what it has, or lets go of a fiber that has begun.
ThreadGoesOn(t) ==
  \/ ft'[t] = ft[t] /\ (pc'[t] = pc[t] \/ ft[t].cb = NoCb)
  \/ /\ ft'[t] = NoEntry /\ ft[t].cb = NoCb
     /\ ft[t].fiber # NoFiber => m_state[ft[t].fiber] # "INIT"

\* A fiber is left alone, goes on with its callback, or had none.
FiberGoesOn(f) ==
  \/ m_state'[f] = m_state[f] /\ m_cb'[f] = m_cb[f]
  \/ m_state[f] \in Entered /\ m_state'[f] \in Entered /\ m_cb'[f] = m_cb[f]
  \/ m_cb'[f] = NoCb /\ (m_cb[f] = NoCb \/ m_state[f] \in Ended)

\* Then nothing happens to any callback.
LEMMA GoingOn ==
  ASSUME FiberTypes, RunTypes, Carried, QueueAdds, submitted' = submitted,
         \A t \in Threads : ThreadGoesOn(t), \A f \in Fibers : FiberGoesOn(f)
  PROVE  Carried' /\ Keeps
<1>1. HoldsNoMore
  BY DEF FiberGoesOn, HoldsNoMore, Entered, Live
<1>2. TakesNoMore
  BY DEF ThreadGoesOn, TakesNoMore, NoEntry
<1>3. QueuesNoMore
  BY DEF QueueAdds, QueuesNoMore
<1>4. Carried'
  BY <1>1, <1>2, <1>3, CarriedKept
<1>5. ASSUME NEW c \in Tasks PROVE Runs(c)' <=> Runs(c)
  <2>1. c # NoCb
    BY TaskAssumption
  <2>2. \A f \in Fibers : m_cb'[f] = c /\ m_state'[f] \in Entered
                            <=> m_cb[f] = c /\ m_state[f] \in Entered
    BY <2>1 DEF FiberGoesOn, Entered, Ended
  <2>. QED  BY <2>2 DEF Runs
<1>6. ASSUME NEW c \in Tasks PROVE Queued(c)' <=> Queued(c)
  <2>1. c # NoCb
    BY TaskAssumption
  <2>2. \A f \in Fibers : m_cb'[f] = c /\ m_state'[f] = "INIT"
                            <=> m_cb[f] = c /\ m_state[f] = "INIT"
    BY <2>1 DEF FiberGoesOn, Entered, Ended
  <2>3. \A e \in Entry : CbWaits(e, c)' <=> CbWaits(e, c)
    BY <2>2 DEF CbWaits, Entry
  <2>4. \A i \in 1..Len(m_fibers) : m_fibers[i] \in Entry
    BY DEF FiberTypes
  <2>5. \A t \in Threads : ft[t] \in Entry
    BY DEF RunTypes
  <2>6. \A i \in 1..Len(m_fibers) : i \in 1..Len(m_fibers') /\
          (CbWaits(m_fibers[i], c)' <=> CbWaits(m_fibers[i], c))
    BY <2>3, <2>4 DEF QueueAdds, CbWaits
  <2>7. \A i \in 1..Len(m_fibers') : i \in 1..Len(m_fibers) \/ ~ CbWaits(m_fibers[i], c)'
    BY <2>1 DEF QueueAdds, CbWaits
  <2>8. \A t \in Threads : CbWaits(ft[t], c)' <=> CbWaits(ft[t], c)
    <3>1. ASSUME NEW t \in Threads, ft'[t] = ft[t]
          PROVE  CbWaits(ft[t], c)' <=> CbWaits(ft[t], c)
      BY <2>3, <2>5, <3>1 DEF CbWaits
    <3>2. ASSUME NEW t \in Threads, ft'[t] = NoEntry, ft[t].cb = NoCb,
                 ft[t].fiber # NoFiber => m_state[ft[t].fiber] # "INIT"
          PROVE  CbWaits(ft[t], c)' <=> CbWaits(ft[t], c)
      BY <2>1, <3>2 DEF CbWaits, NoEntry
    <3>. QED  BY <3>1, <3>2 DEF ThreadGoesOn
  <2>. QED  BY <2>6, <2>7, <2>8 DEF Queued
<1>. QED  BY <1>4, <1>5, <1>6 DEF Keeps, Stays

\* schedule() submits callbacks.
LEMMA SubmitsPushed ==
  ASSUME FiberTypes, RunTypes, Carried, NEW S \in SUBSET Tasks, S # {},
         S \cap submitted = {}, Pushes(S), submitted' = submitted \cup S,
         UNCHANGED <<fiberVars, runVars>>
  PROVE  Carried' /\ Submits(S)
<1>1. Carried'
  BY CarriedPush
<1>2. \A c \in S : Queued(c)'
  BY DEF Pushes, Queued, CbWaits
<1>3. ASSUME NEW c \in Tasks \ S PROVE Stays(c)
  <2>1. \A e : CbWaits(e, c)' <=> CbWaits(e, c)
    BY DEF CbWaits, fiberVars
  <2>2. \A t \in Threads : CbWaits(ft[t], c)' <=> CbWaits(ft[t], c)
    BY DEF CbWaits, fiberVars, runVars
  <2>3. \A i \in 1..Len(m_fibers) : i \in 1..Len(m_fibers') /\
          (CbWaits(m_fibers[i], c)' <=> CbWaits(m_fibers[i], c))
    BY DEF CbWaits, fiberVars, Pushes
  <2>4. \A i \in 1..Len(m_fibers') : i \in 1..Len(m_fibers) \/ ~ CbWaits(m_fibers[i], c)'
    BY DEF CbWaits, Pushes
  <2>5. Runs(c)' <=> Runs(c)
    BY DEF Runs, fiberVars
  <2>6. Queued(c)' <=> Queued(c)
    BY <2>2, <2>3, <2>4 DEF Queued
  <2>. QED  BY <2>5, <2>6 DEF Stays
<1>. QED  BY <1>1, <1>2, <1>3 DEF Submits

\* So does schedule() of a new fiber.
LEMMA SubmitsFiber ==
  ASSUME FiberTypes, RunTypes, Ownership, Carried,
         NEW c \in Tasks, NEW p \in ClientPins, ScheduleFiber(c, p)
  PROVE  Carried' /\ Submits({c})
<1>1. PICK f : f = Fresh
  OBVIOUS
<1>2. /\ m_state' = [m_state EXCEPT ![f] = "INIT"]
      /\ m_cb' = [m_cb EXCEPT ![f] = c]
      /\ m_fibers' = Append(m_fibers, OfFiber(f, p))
      /\ submitted' = submitted \cup {c} /\ c \notin submitted
      /\ UNCHANGED <<pc, ft>>
  BY <1>1 DEF ScheduleFiber, runVars
<1>3. /\ f \in Fibers /\ f # NoFiber /\ m_state[f] = "NONE"
      /\ \A i \in 1..Len(m_fibers) : m_fibers[i].fiber # f
      /\ \A u \in Threads : ft[u].fiber # f
  BY <1>1, FreshApart DEF ScheduleFiber
<1>4. /\ \A g \in Fibers \ {f} : m_state'[g] = m_state[g] /\ m_cb'[g] = m_cb[g]
      /\ m_state'[f] = "INIT" /\ m_cb'[f] = c
  BY <1>2, <1>3 DEF FiberTypes
<1>5. OfFiber(f, p) \in Entry /\ OfFiber(f, p).cb = NoCb /\ OfFiber(f, p).fiber = f
  BY <1>3, EntryTypes, ThreadAssumption DEF OfFiber
<1>6. /\ Len(m_fibers) \in Nat
      /\ Len(m_fibers') = Len(m_fibers) + 1
      /\ \A i \in 1..(Len(m_fibers) + 1) :
           m_fibers'[i] = IF i <= Len(m_fibers) THEN m_fibers[i] ELSE OfFiber(f, p)
  BY <1>2, <1>5
<1>7. Queued(c)'
  <2>1. Len(m_fibers) + 1 \in 1..Len(m_fibers')
        /\ m_fibers'[Len(m_fibers) + 1] = OfFiber(f, p)
    BY <1>6
  <2>. QED  BY <1>3, <1>4, <1>5, <2>1 DEF Queued, CbWaits
<1>8. ASSUME NEW d \in Tasks \ {c} PROVE Stays(d)
  <2>1. \A i \in 1..Len(m_fibers) : i \in 1..Len(m_fibers') /\ m_fibers'[i] = m_fibers[i]
    BY <1>6
  <2>2. \A i \in 1..Len(m_fibers') : i \in 1..Len(m_fibers) \/ m_fibers'[i] = OfFiber(f, p)
    BY <1>6
  <2>3. ASSUME NEW e \in Entry, e.fiber # f PROVE CbWaits(e, d)' <=> CbWaits(e, d)
    BY <1>4, <2>3 DEF CbWaits, Entry
  <2>4. \A i \in 1..Len(m_fibers) : CbWaits(m_fibers[i], d)' <=> CbWaits(m_fibers[i], d)
    <3>1. \A i \in 1..Len(m_fibers) : m_fibers[i] \in Entry
      BY DEF FiberTypes
    <3>. QED  BY <1>3, <2>1, <2>3, <3>1
  <2>5. \A t \in Threads : CbWaits(ft[t], d)' <=> CbWaits(ft[t], d)
    <3>1. \A t \in Threads : ft[t] \in Entry
      BY DEF RunTypes
    <3>. QED  BY <1>2, <1>3, <2>3, <3>1
  <2>6. \A i \in 1..Len(m_fibers') : i \in 1..Len(m_fibers) \/ ~ CbWaits(m_fibers[i], d)'
    <3>1. ASSUME NEW i \in 1..Len(m_fibers'), m_fibers'[i] = OfFiber(f, p)
          PROVE  ~ CbWaits(m_fibers[i], d)'
      <4>1. m_fibers'[i].cb # d /\ m_fibers'[i].fiber = f
        BY <1>5, <3>1, TaskAssumption
      <4>. QED  BY <1>4, <4>1 DEF CbWaits
    <3>. QED  BY <2>2, <3>1
  <2>7. Queued(d)' <=> Queued(d)
    BY <2>1, <2>4, <2>5, <2>6 DEF Queued
  <2>8. Runs(d)' <=> Runs(d)
    <3>1. \A g \in Fibers : m_cb'[g] = d /\ m_state'[g] \in Entered
                              <=> m_cb[g] = d /\ m_state[g] \in Entered
      BY <1>3, <1>4 DEF Entered
    <3>. QED  BY <3>1 DEF Runs
  <2>. QED  BY <2>7, <2>8 DEF Stays
<1>9. Carried'
  BY CarriedNewFiber
<1>. QED  BY <1>2, <1>7, <1>8, <1>9 DEF Submits

\* An entry that goes from the queue to a thread carries what it carried.
LEMMA KeepsFetched ==
  ASSUME FiberTypes, RunTypes, Ownership, Carried, NEW t \in Threads, FetchTask(t)
  PROVE  Carried' /\ Keeps
<1>1. PICK i \in 1..Len(m_fibers) : /\ ft' = [ft EXCEPT ![t] = m_fibers[i]]
                                    /\ m_fibers' = Erase(m_fibers, i)
  BY DEF FetchTask
<1>2. /\ pc[t] = "fetch" /\ pc' = [pc EXCEPT ![t] = "dispatch"]
      /\ UNCHANGED <<m_state, m_cb, submitted>>
  BY DEF FetchTask, fiberVars, workVars
<1>3. /\ Len(m_fibers) \in Nat /\ Len(m_fibers') = Len(m_fibers) - 1
      /\ \A j \in 1..(Len(m_fibers) - 1) : m_fibers'[j] = m_fibers[IF j < i THEN j ELSE j + 1]
  <2>1. m_fibers \in Seq(Entry) /\ Len(m_fibers) \in Nat
    BY DEF FiberTypes
  <2>2. /\ Len(Erase(m_fibers, i)) = Len(m_fibers) - 1
        /\ \A j \in 1..(Len(m_fibers) - 1) :
             Erase(m_fibers, i)[j] = m_fibers[IF j < i THEN j ELSE j + 1]
    BY <2>1, EraseProperties
  <2>. QED  BY <1>1, <2>1, <2>2
<1>4. \A j \in 1..Len(m_fibers') :
        \E k \in 1..Len(m_fibers) : k # i /\ m_fibers'[j] = m_fibers[k]
  BY <1>3
<1>5. \A k \in 1..Len(m_fibers) : k # i =>
        \E j \in 1..Len(m_fibers') : m_fibers'[j] = m_fibers[k]
  <2>1. ASSUME NEW k \in 1..Len(m_fibers), k < i
        PROVE  \E j \in 1..Len(m_fibers') : m_fibers'[j] = m_fibers[k]
    BY <1>3, <2>1
  <2>2. ASSUME NEW k \in 1..Len(m_fibers), k > i
        PROVE  \E j \in 1..Len(m_fibers') : m_fibers'[j] = m_fibers[k]
    <3>1. k - 1 \in 1..Len(m_fibers') /\ ~(k - 1 < i) /\ (k - 1) + 1 = k
      BY <1>3, <2>2
    <3>. QED  BY <1>3, <3>1
  <2>. QED  BY <2>1, <2>2
<1>6. \A j, l \in 1..Len(m_fibers') : j # l =>
        \E k, n \in 1..Len(m_fibers) :
          k # n /\ m_fibers'[j] = m_fibers[k] /\ m_fibers'[l] = m_fibers[n]
  <2>. SUFFICES ASSUME NEW j \in 1..Len(m_fibers'), NEW l \in 1..Len(m_fibers'), j # l
                PROVE  \E k, n \in 1..Len(m_fibers) :
                         k # n /\ m_fibers'[j] = m_fibers[k] /\ m_fibers'[l] = m_fibers[n]
    OBVIOUS
  <2>. DEFINE at(x) == IF x < i THEN x ELSE x + 1
  <2>1. /\ at(j) \in 1..Len(m_fibers) /\ at(l) \in 1..Len(m_fibers) /\ at(j) # at(l)
        /\ m_fibers'[j] = m_fibers[at(j)] /\ m_fibers'[l] = m_fibers[at(l)]
    BY <1>3
  <2>. HIDE DEF at
  <2>. QED  BY <2>1
<1>7. /\ \A u \in Threads \ {t} : ft'[u] = ft[u] /\ pc'[u] = pc[u]
      /\ ft'[t] = m_fibers[i] /\ pc'[t] = "dispatch"
  BY <1>1, <1>2 DEF RunTypes
<1>8. ft[t].cb = NoCb
  BY <1>2 DEF Carried, ThreadsCarry
<1>9. \A f \in Fibers : \A c : Holds(f, c)' <=> Holds(f, c)
  BY <1>2 DEF Holds
<1>10. Carried'
  <2>1. QueueCarries'
    <3>. SUFFICES ASSUME NEW j \in 1..Len(m_fibers'), m_fibers'[j].cb # NoCb
                  PROVE  /\ m_fibers'[j].cb \in submitted
                         /\ m_fibers'[j].fiber = NoFiber
                         /\ \A l \in 1..Len(m_fibers') : m_fibers'[l].cb = m_fibers'[j].cb => l = j
                         /\ \A u \in Threads : ft'[u].cb # m_fibers'[j].cb
                         /\ \A f \in Fibers : ~ Holds(f, m_fibers'[j].cb)
      BY <1>2, <1>9 DEF QueueCarries, Holds
    <3>1. PICK k \in 1..Len(m_fibers) : k # i /\ m_fibers'[j] = m_fibers[k]
      BY <1>4
    <3>2. /\ m_fibers[k].cb \in submitted
          /\ m_fibers[k].fiber = NoFiber
          /\ \A n \in 1..Len(m_fibers) : m_fibers[n].cb = m_fibers[k].cb => n = k
          /\ \A u \in Threads : ft[u].cb # m_fibers[k].cb
          /\ \A f \in Fibers : ~ Holds(f, m_fibers[k].cb)
      BY <3>1 DEF Carried, QueueCarries
    <3>3. \A u \in Threads : ft'[u].cb # m_fibers'[j].cb
      BY <1>7, <3>1, <3>2
    <3>4. \A l \in 1..Len(m_fibers') : m_fibers'[l].cb = m_fibers'[j].cb => l = j
      <4>. SUFFICES ASSUME NEW l \in 1..Len(m_fibers'), l # j,
                           m_fibers'[l].cb = m_fibers'[j].cb
                    PROVE  FALSE
        OBVIOUS
      <4>1. PICK m \in 1..Len(m_fibers), n \in 1..Len(m_fibers) :
              m # n /\ m_fibers'[j] = m_fibers[m] /\ m_fibers'[l] = m_fibers[n]
        BY <1>6
      <4>2. m = k /\ n = k
        BY <3>1, <3>2, <4>1
      <4>. QED  BY <4>1, <4>2
    <3>. QED  BY <3>1, <3>2, <3>3, <3>4
  <2>2. ThreadsCarry'
    <3>1. ASSUME m_fibers[i].cb # NoCb
          PROVE  /\ m_fibers[i].cb \in submitted
                 /\ m_fibers[i].fiber = NoFiber
                 /\ \A u \in Threads : ft[u].cb # m_fibers[i].cb
                 /\ \A f \in Fibers : ~ Holds(f, m_fibers[i].cb)
      BY <3>1 DEF Carried, QueueCarries
    <3>2. ASSUME NEW u \in Threads, u # t, ft[u].cb # NoCb
          PROVE  /\ pc[u] = "dispatch"
                 /\ ft[u].cb \in submitted
                 /\ ft[u].fiber = NoFiber
                 /\ \A v \in Threads : ft[v].cb = ft[u].cb => v = u
                 /\ \A f \in Fibers : ~ Holds(f, ft[u].cb)
      BY <3>2 DEF Carried, ThreadsCarry
    <3>. QED  BY <1>2, <1>7, <1>9, <3>1, <3>2 DEF ThreadsCarry
  <2>3. FibersCarry'
    BY <1>2, <1>9 DEF Carried, FibersCarry
  <2>. QED  BY <2>1, <2>2, <2>3 DEF Carried
<1>11. ASSUME NEW c \in Tasks PROVE Stays(c)
  <2>1. c # NoCb
    BY TaskAssumption
  <2>2. ft[t].fiber = NoFiber
    BY <1>2 DEF Ownership, PlaceOf, InHand, OnStack
  <2>3. ~ CbWaits(ft[t], c)
    BY <1>8, <2>1, <2>2 DEF CbWaits
  <2>4. \A u \in Threads \ {t} : CbWaits(ft[u], c)' <=> CbWaits(ft[u], c)
    BY <1>2, <1>7 DEF CbWaits
  <2>5. CbWaits(ft[t], c)' <=> CbWaits(m_fibers[i], c)
    BY <1>2, <1>7 DEF CbWaits
  <2>6. \A j \in 1..Len(m_fibers') : CbWaits(m_fibers[j], c)' =>
          \E k \in 1..Len(m_fibers) : CbWaits(m_fibers[k], c)
    BY <1>2, <1>4 DEF CbWaits
  <2>7. \A k \in 1..Len(m_fibers) : k # i /\ CbWaits(m_fibers[k], c) =>
          \E j \in 1..Len(m_fibers') : CbWaits(m_fibers[j], c)'
    BY <1>2, <1>5 DEF CbWaits
  <2>8. Queued(c)' <=> Queued(c)
    BY <2>3, <2>4, <2>5, <2>6, <2>7 DEF Queued
  <2>9. Runs(c)' <=> Runs(c)
    BY <1>2 DEF Runs
  <2>. QED  BY <2>8, <2>9 DEF Stays
<1>. QED  BY <1>2, <1>10, <1>11 DEF Keeps

\* Who holds a callback is the only place that has it.
LEMMA OnlyHolder ==
  ASSUME Carried, NEW c \in Tasks, NEW f \in Fibers, Holds(f, c)
  PROVE  /\ c \in submitted
         /\ \A i \in 1..Len(m_fibers) : m_fibers[i].cb # c
         /\ \A t \in Threads : ft[t].cb # c
         /\ \A g \in Fibers : Holds(g, c) => g = f
BY TaskAssumption DEF Carried, QueueCarries, ThreadsCarry, FibersCarry, Holds

\* A fiber with a callback begins or ends.
LEMMA HolderMoves ==
  ASSUME FiberTypes, RunTypes, Carried, NEW c \in Tasks, NEW f \in Fibers, Holds(f, c),
         UNCHANGED <<m_fibers, ft, submitted>>,
         \A u \in Threads : pc'[u] = pc[u] \/ ft[u].cb = NoCb,
         \A g \in Fibers \ {f} : m_state'[g] = m_state[g] /\ m_cb'[g] = m_cb[g],
         m_cb'[f] \in {c, NoCb}, m_state'[f] # "INIT"
  PROVE  /\ Carried'
         /\ ~ Queued(c)'
         /\ Runs(c)' <=> m_cb'[f] = c /\ m_state'[f] \in Entered
         /\ \A d \in Tasks \ {c} : Queued(d)' <=> Queued(d)
         /\ \A d \in Tasks \ {c} : Runs(d)' <=> Runs(d)
<1>1. /\ c # NoCb /\ m_cb[f] = c /\ m_state[f] \in Live
      /\ \A i \in 1..Len(m_fibers) : m_fibers[i].cb # c
      /\ \A t \in Threads : ft[t].cb # c
      /\ \A g \in Fibers : m_cb[g] = c /\ m_state[g] \in Live => g = f
  BY OnlyHolder, TaskAssumption DEF Holds
<1>2. Carried'
  <2>1. HoldsNoMore
    BY <1>1 DEF HoldsNoMore
  <2>2. TakesNoMore /\ QueuesNoMore
    BY DEF TakesNoMore, QueuesNoMore
  <2>. QED  BY <2>1, <2>2, CarriedKept
<1>3. /\ \A i \in 1..Len(m_fibers) : m_fibers[i] \in Entry
      /\ \A t \in Threads : ft[t] \in Entry
  BY DEF FiberTypes, RunTypes
<1>4. \A e \in Entry : e.cb # c => ~ CbWaits(e, c)'
  <2>1. \A g \in Fibers : ~(m_cb'[g] = c /\ m_state'[g] = "INIT")
    BY <1>1 DEF Live
  <2>. QED  BY <2>1 DEF CbWaits, Entry
<1>5. ~ Queued(c)'
  <2>1. \A i \in 1..Len(m_fibers) : ~ CbWaits(m_fibers[i], c)'
    BY <1>1, <1>3, <1>4 DEF CbWaits
  <2>2. \A t \in Threads : ~ CbWaits(ft[t], c)'
    BY <1>1, <1>3, <1>4 DEF CbWaits
  <2>. QED  BY <2>1, <2>2 DEF Queued
<1>6. Runs(c)' <=> m_cb'[f] = c /\ m_state'[f] \in Entered
  <2>1. \A g \in Fibers \ {f} : ~(m_cb'[g] = c /\ m_state'[g] \in Entered)
    BY <1>1 DEF Entered, Live
  <2>. QED  BY <2>1 DEF Runs
<1>7. ASSUME NEW d \in Tasks, d # c PROVE (Queued(d)' <=> Queued(d)) /\ (Runs(d)' <=> Runs(d))
  <2>0. d # NoCb
    BY TaskAssumption
  <2>1. \A g \in Fibers : m_cb'[g] = d /\ m_state'[g] = "INIT"
                            <=> m_cb[g] = d /\ m_state[g] = "INIT"
    BY <1>1, <1>7, <2>0
  <2>2. \A g \in Fibers : m_cb'[g] = d /\ m_state'[g] \in Entered
                            <=> m_cb[g] = d /\ m_state[g] \in Entered
    BY <1>1, <1>7, <2>0
  <2>3. \A e \in Entry : CbWaits(e, d)' <=> CbWaits(e, d)
    BY <2>1 DEF CbWaits, Entry
  <2>4. \A i \in 1..Len(m_fibers) : CbWaits(m_fibers[i], d)' <=> CbWaits(m_fibers[i], d)
    BY <1>3, <2>3 DEF CbWaits
  <2>5. \A t \in Threads : CbWaits(ft[t], d)' <=> CbWaits(ft[t], d)
    BY <1>3, <2>3 DEF CbWaits
  <2>6. Queued(d)' <=> Queued(d)
    BY <2>4, <2>5 DEF Queued
  <2>7. Runs(d)' <=> Runs(d)
    BY <2>2 DEF Runs
  <2>. QED  BY <2>6, <2>7
<1>. QED  BY <1>2, <1>5, <1>6, <1>7

\* A fiber from the queue begins, or goes on.
LEMMA BeginsInFiber ==
  ASSUME FiberTypes, RunTypes, Ownership, Carried, NEW t \in Threads, SwapInFiber(t)
  PROVE  Carried' /\ (Keeps \/ \E c \in Tasks : Begins(c))
<1>1. PICK f : f = ft[t].fiber
  OBVIOUS
<1>2. /\ pc[t] = "dispatch" /\ f # NoFiber
      /\ m_state' = [m_state EXCEPT ![f] = "EXEC"]
      /\ pc' = [pc EXCEPT ![t] = "exec"]
      /\ UNCHANGED <<m_fibers, m_cb, ft, submitted>>
  BY <1>1 DEF SwapInFiber, workVars
<1>3. f \in Fibers /\ m_state[f] \in Runnable
  BY <1>1, <1>2, FiberFields DEF Ownership, PlaceOf
<1>4. ft[t].cb = NoCb
  BY <1>1, <1>2 DEF Carried, ThreadsCarry
<1>5. /\ \A u \in Threads : pc'[u] = pc[u] \/ ft[u].cb = NoCb
      /\ \A g \in Fibers \ {f} : m_state'[g] = m_state[g] /\ m_cb'[g] = m_cb[g]
      /\ m_state'[f] = "EXEC" /\ m_cb'[f] = m_cb[f]
  BY <1>2, <1>3, <1>4 DEF FiberTypes
<1>6. CASE m_state[f] = "INIT" /\ m_cb[f] # NoCb
  <2>1. PICK c \in Tasks : c = m_cb[f]
    BY <1>3, <1>6 DEF FiberTypes
  <2>2. Holds(f, c)
    BY <1>6, <2>1 DEF Holds, Live
  <2>3. m_cb'[f] \in {c, NoCb} /\ m_state'[f] # "INIT" /\ m_state'[f] \in Entered
    BY <1>5, <2>1 DEF Entered
  <2>4. /\ Carried'
        /\ ~ Queued(c)'
        /\ Runs(c)' <=> m_cb'[f] = c /\ m_state'[f] \in Entered
        /\ \A d \in Tasks \ {c} : Queued(d)' <=> Queued(d)
        /\ \A d \in Tasks \ {c} : Runs(d)' <=> Runs(d)
    BY <1>2, <1>3, <1>5, <2>2, <2>3, HolderMoves
  <2>5. Queued(c)
    BY <1>1, <1>2, <1>6, <2>1 DEF Queued, CbWaits
  <2>. QED  BY <1>2, <1>5, <2>1, <2>3, <2>4, <2>5 DEF Begins, Stays
<1>7. CASE ~(m_state[f] = "INIT" /\ m_cb[f] # NoCb)
  <2>1. \A g \in Fibers : FiberGoesOn(g)
    BY <1>3, <1>5, <1>7 DEF FiberGoesOn, Runnable, Entered
  <2>2. QueueAdds /\ \A u \in Threads : ThreadGoesOn(u)
    BY <1>2, <1>5 DEF QueueAdds, ThreadGoesOn
  <2>. QED  BY <1>2, <2>1, <2>2, GoingOn
<1>. QED  BY <1>6, <1>7

\* A callback ends.
LEMMA EndsInFiber ==
  ASSUME FiberTypes, RunTypes, Ownership, Carried, NEW t \in Threads,
         MainFuncReturn(t) \/ MainFuncThrow(t)
  PROVE  Carried' /\ (Keeps \/ \E c \in Tasks : Ends(c))
<1>1. PICK f : f = Cur(t)
  OBVIOUS
<1>2. /\ pc[t] = "exec"
      /\ m_state' = [m_state EXCEPT ![f] = "TERM"] \/ m_state' = [m_state EXCEPT ![f] = "EXCEPT"]
      /\ m_cb' = [m_cb EXCEPT ![f] = NoCb] \/ m_cb' = m_cb
      /\ pc' = [pc EXCEPT ![t] = "swapout"]
      /\ UNCHANGED <<m_fibers, ft, submitted>>
  BY <1>1 DEF MainFuncReturn, MainFuncThrow, workVars
<1>3. f \in Fibers
  BY <1>1, <1>2, OwnApart DEF Carrying, OnStack
<1>4. m_state[f] = "EXEC"
  BY <1>1, <1>2 DEF Ownership, PlaceOf, Running
<1>5. ft[t].cb = NoCb
  BY <1>2 DEF Carried, ThreadsCarry
<1>6. /\ \A u \in Threads : pc'[u] = pc[u] \/ ft[u].cb = NoCb
      /\ \A g \in Fibers \ {f} : m_state'[g] = m_state[g] /\ m_cb'[g] = m_cb[g]
      /\ m_state'[f] \in Ended /\ m_cb'[f] \in {m_cb[f], NoCb}
  BY <1>2, <1>3, <1>5 DEF FiberTypes, Ended
<1>7. CASE m_cb[f] # NoCb
  <2>1. PICK c \in Tasks : c = m_cb[f]
    BY <1>3, <1>7 DEF FiberTypes
  <2>2. Holds(f, c)
    BY <1>4, <2>1 DEF Holds, Live
  <2>3. m_cb'[f] \in {c, NoCb} /\ m_state'[f] # "INIT" /\ m_state'[f] \notin Entered
    BY <1>6, <2>1 DEF Entered, Ended
  <2>4. /\ Carried'
        /\ ~ Queued(c)'
        /\ Runs(c)' <=> m_cb'[f] = c /\ m_state'[f] \in Entered
        /\ \A d \in Tasks \ {c} : Queued(d)' <=> Queued(d)
        /\ \A d \in Tasks \ {c} : Runs(d)' <=> Runs(d)
    BY <1>2, <1>3, <1>6, <2>2, <2>3, HolderMoves
  <2>5. Runs(c)
    BY <1>3, <1>4, <2>1 DEF Runs, Entered
  <2>. QED  BY <1>2, <2>3, <2>4, <2>5 DEF Ends, Stays
<1>8. CASE m_cb[f] = NoCb
  <2>1. \A g \in Fibers : FiberGoesOn(g)
    BY <1>6, <1>8 DEF FiberGoesOn
  <2>2. QueueAdds /\ \A u \in Threads : ThreadGoesOn(u)
    BY <1>2, <1>6 DEF QueueAdds, ThreadGoesOn
  <2>. QED  BY <1>2, <2>1, <2>2, GoingOn
<1>. QED  BY <1>7, <1>8

\* A callback from the queue begins, in a fiber that nobody refers to.
LEMMA BeginsInCbFiber ==
  ASSUME FiberTypes, RunTypes, Ownership, Carried, NEW t \in Threads, SwapInCb(t)
  PROVE  Carried' /\ \E c \in Tasks : Begins(c)
<1>1. PICK f : f = IF cb_fiber[t] # NoFiber THEN cb_fiber[t] ELSE Fresh
  OBVIOUS
<1>2. PICK c : c = ft[t].cb
  OBVIOUS
<1>3. /\ pc[t] = "dispatch" /\ ft[t].fiber = NoFiber /\ c # NoCb
      /\ cb_fiber[t] = NoFiber => CanAllocate
      /\ m_state' = [m_state EXCEPT ![f] = "EXEC"]
      /\ m_cb' = [m_cb EXCEPT ![f] = c]
      /\ ft' = [ft EXCEPT ![t] = NoEntry]
      /\ pc' = [pc EXCEPT ![t] = "exec"]
      /\ UNCHANGED <<m_fibers, submitted>>
  BY <1>1, <1>2 DEF SwapInCb, workVars
<1>4. c \in Tasks
  BY <1>2, <1>3, CurType
<1>5. /\ f \in Fibers /\ m_state[f] \in {"NONE", "INIT"}
      /\ \A i \in 1..Len(m_fibers) : m_fibers[i].fiber # f
      /\ \A u \in Threads : ft[u].fiber # f
  <2>1. CASE cb_fiber[t] # NoFiber
    <3>1. f = cb_fiber[t] /\ f \in Fibers
      BY <1>1, <2>1, FiberFields
    <3>2. m_state[f] = "INIT"
      BY <1>3, <2>1, <3>1 DEF Ownership, PlaceOf, Carrying, OnStack
    <3>. QED  BY <2>1, <3>1, <3>2 DEF Ownership, QueueOwns, ThreadsOwn
  <2>2. CASE cb_fiber[t] = NoFiber
    BY <1>1, <1>3, <2>2, FreshApart
  <2>. QED  BY <2>1, <2>2
<1>6. /\ \A u \in Threads \ {t} : ft'[u] = ft[u] /\ pc'[u] = pc[u]
      /\ ft'[t].cb = NoCb /\ ft'[t].fiber = NoFiber
  BY <1>3 DEF RunTypes, NoEntry
<1>7. /\ \A g \in Fibers \ {f} : m_state'[g] = m_state[g] /\ m_cb'[g] = m_cb[g]
      /\ m_state'[f] = "EXEC" /\ m_cb'[f] = c
  BY <1>3, <1>5 DEF FiberTypes
<1>8. /\ c \in submitted
      /\ \A i \in 1..Len(m_fibers) : m_fibers[i].cb # c
      /\ \A u \in Threads \ {t} : ft[u].cb # c
      /\ \A g \in Fibers : ~ Holds(g, c)
  BY <1>2, <1>3 DEF Carried, QueueCarries, ThreadsCarry
<1>9. \A g \in Fibers : \A d : Holds(g, d)' => Holds(g, d) \/ (g = f /\ d = c)
  BY <1>7 DEF Holds
<1>10. Carried'
  <2>1. QueueCarries'
    BY <1>3, <1>6, <1>8, <1>9 DEF Carried, QueueCarries
  <2>2. ThreadsCarry'
    BY <1>3, <1>6, <1>8, <1>9 DEF Carried, ThreadsCarry
  <2>3. FibersCarry'
    BY <1>3, <1>7, <1>8, <1>9 DEF Carried, FibersCarry, Holds
  <2>. QED  BY <2>1, <2>2, <2>3 DEF Carried
<1>11. /\ \A i \in 1..Len(m_fibers) : m_fibers[i] \in Entry
       /\ \A u \in Threads : ft[u] \in Entry
  BY DEF FiberTypes, RunTypes
<1>12. Queued(c) /\ Runs(c)'
  BY <1>2, <1>5, <1>7 DEF Queued, CbWaits, Runs, Entered
<1>13. ~ Queued(c)'
  <2>1. \A g \in Fibers : ~(m_cb'[g] = c /\ m_state'[g] = "INIT")
    BY <1>7, <1>8 DEF Holds, Live
  <2>2. \A e \in Entry : e.cb # c => ~ CbWaits(e, c)'
    BY <2>1 DEF CbWaits, Entry
  <2>3. \A i \in 1..Len(m_fibers) : ~ CbWaits(m_fibers[i], c)'
    BY <1>3, <1>8, <1>11, <2>2 DEF CbWaits
  <2>4. \A u \in Threads : ~ CbWaits(ft[u], c)'
    BY <1>3, <1>6, <1>8, <1>11, <2>2 DEF CbWaits
  <2>. QED  BY <1>3, <2>3, <2>4 DEF Queued
<1>14. ASSUME NEW d \in Tasks, d # c PROVE Stays(d)
  <2>1. \A e \in Entry : e.fiber # f => (CbWaits(e, d)' <=> CbWaits(e, d))
    BY <1>7 DEF CbWaits, Entry
  <2>2. \A i \in 1..Len(m_fibers) : CbWaits(m_fibers[i], d)' <=> CbWaits(m_fibers[i], d)
    BY <1>3, <1>5, <1>11, <2>1 DEF CbWaits
  <2>3. \A u \in Threads \ {t} : CbWaits(ft[u], d)' <=> CbWaits(ft[u], d)
    BY <1>5, <1>6, <1>11, <2>1 DEF CbWaits
  <2>4. ~ CbWaits(ft[t], d) /\ ~ CbWaits(ft[t], d)'
    BY <1>2, <1>3, <1>6, <1>14, TaskAssumption DEF CbWaits
  <2>5. Queued(d)' <=> Queued(d)
    BY <1>3, <2>2, <2>3, <2>4 DEF Queued
  <2>6. \A g \in Fibers : m_cb'[g] = d /\ m_state'[g] \in Entered
                            <=> m_cb[g] = d /\ m_state[g] \in Entered
    BY <1>5, <1>7, <1>14 DEF Entered
  <2>7. Runs(d)' <=> Runs(d)
    BY <2>6 DEF Runs
  <2>. QED  BY <2>5, <2>7 DEF Stays
<1>. QED  BY <1>3, <1>4, <1>10, <1>12, <1>13, <1>14 DEF Begins

\* A thread moves between places at which it has no callback.
LEMMA KeepsMoving ==
  ASSUME FiberTypes, RunTypes, Carried, UNCHANGED <<m_fibers, fiberVars, ft, submitted>>,
         \A u \in Threads : pc'[u] = pc[u] \/ pc[u] # "dispatch"
  PROVE  Carried' /\ Keeps
<1>1. QueueAdds
  BY DEF QueueAdds
<1>2. \A u \in Threads : ThreadGoesOn(u)
  BY DEF ThreadGoesOn, Carried, ThreadsCarry
<1>3. \A f \in Fibers : FiberGoesOn(f)
  BY DEF FiberGoesOn, fiberVars
<1>. QED  BY <1>1, <1>2, <1>3, GoingOn

\* A fiber yields.
LEMMA KeepsYielding ==
  ASSUME FiberTypes, RunTypes, Ownership, Carried, NEW t \in Threads, NEW s \in Entered,
         pc[t] \in Running, pc' = [pc EXCEPT ![t] = "swapout"],
         m_state' = [m_state EXCEPT ![Cur(t)] = s],
         UNCHANGED <<m_fibers, m_cb, ft, submitted>>
  PROVE  Carried' /\ Keeps
<1>1. PICK f : f = Cur(t)
  OBVIOUS
<1>2. f \in Fibers
  BY <1>1, OwnApart DEF Carrying, OnStack, Running
<1>3. m_state[f] = "EXEC"
  BY <1>1 DEF Ownership, PlaceOf
<1>4. QueueAdds
  BY DEF QueueAdds
<1>5. \A u \in Threads : ThreadGoesOn(u)
  <2>1. ft[t].cb = NoCb
    BY DEF Carried, ThreadsCarry, Running
  <2>. QED  BY <2>1 DEF ThreadGoesOn
<1>6. \A g \in Fibers : FiberGoesOn(g)
  <2>1. /\ \A g \in Fibers \ {f} : m_state'[g] = m_state[g]
        /\ m_state'[f] = s
    BY <1>1, <1>2 DEF FiberTypes
  <2>. QED  BY <1>3, <2>1 DEF FiberGoesOn, Entered
<1>. QED  BY <1>4, <1>5, <1>6, GoingOn

\* A fiber that has begun is scheduled again.
LEMMA AddsFiber ==
  ASSUME FiberTypes, NEW f \in Fibers, m_fibers' = Append(m_fibers, OfFiber(f, AnyThread)),
         m_state'[f] # "INIT"
  PROVE  QueueAdds
<1>1. OfFiber(f, AnyThread) \in Entry
  BY EntryTypes
<1>2. OfFiber(f, AnyThread).cb = NoCb /\ OfFiber(f, AnyThread).fiber = f
  BY DEF OfFiber
<1>3. /\ Len(m_fibers) \in Nat
      /\ Len(m_fibers') = Len(m_fibers) + 1
      /\ \A i \in 1..(Len(m_fibers) + 1) :
           m_fibers'[i] = IF i <= Len(m_fibers) THEN m_fibers[i] ELSE OfFiber(f, AnyThread)
  BY <1>1
<1>4. \A i \in 1..Len(m_fibers) : i \in 1..Len(m_fibers') /\ m_fibers'[i] = m_fibers[i]
  BY <1>3
<1>5. \A i \in 1..Len(m_fibers') :
        i \in 1..Len(m_fibers) \/ m_fibers'[i] = OfFiber(f, AnyThread)
  BY <1>3
<1>. QED  BY <1>2, <1>4, <1>5 DEF QueueAdds

\* run() is done with a fiber.
LEMMA KeepsSettling ==
  ASSUME FiberTypes, RunTypes, Ownership, Carried, NEW t \in Threads,
         SettleReady(t) \/ SettleEnded(t) \/ SettleHold(t)
  PROVE  Carried' /\ Keeps
<1>1. PICK f : f = Cur(t)
  OBVIOUS
<1>2. /\ pc[t] = "settle" /\ pc' = [pc EXCEPT ![t] = "fetch"]
      /\ ft' = [ft EXCEPT ![t] = NoEntry] /\ submitted' = submitted
  BY DEF SettleReady, SettleEnded, SettleHold, LetGo, workVars
<1>3. f \in Fibers
  BY <1>1, <1>2, OwnApart DEF Carrying
<1>4. m_state[f] \in {"READY", "HOLD", "TERM", "EXCEPT"}
  BY <1>1, <1>2 DEF Ownership, PlaceOf
<1>5. ft[t].cb = NoCb /\ (ft[t].fiber # NoFiber => ft[t].fiber = f)
  BY <1>1, <1>2 DEF Carried, ThreadsCarry, Cur
<1>6. \A u \in Threads : ThreadGoesOn(u)
  <2>1. ft'[t] = NoEntry /\ \A u \in Threads \ {t} : ft'[u] = ft[u] /\ pc'[u] = pc[u]
    BY <1>2 DEF RunTypes
  <2>. QED  BY <1>4, <1>5, <2>1 DEF ThreadGoesOn
<1>7. CASE SettleReady(t)
  <2>1. /\ m_fibers' = Append(m_fibers, OfFiber(f, AnyThread))
        /\ UNCHANGED fiberVars /\ m_state[f] = "READY"
    BY <1>1, <1>7 DEF SettleReady
  <2>2. QueueAdds
    BY <1>3, <2>1, AddsFiber DEF fiberVars
  <2>3. \A g \in Fibers : FiberGoesOn(g)
    BY <2>1 DEF FiberGoesOn, fiberVars
  <2>. QED  BY <1>2, <1>6, <2>2, <2>3, GoingOn
<1>8. CASE SettleEnded(t)
  <2>1. /\ m_fibers' = m_fibers /\ m_state[f] \in Ended
        /\ \/ UNCHANGED fiberVars
           \/ /\ m_state' = [m_state EXCEPT ![f] = "INIT"]
              /\ m_cb' = [m_cb EXCEPT ![f] = NoCb]
    BY <1>1, <1>8 DEF SettleEnded
  <2>2. QueueAdds
    BY <2>1 DEF QueueAdds
  <2>3. \A g \in Fibers : FiberGoesOn(g)
    BY <1>3, <2>1 DEF FiberGoesOn, fiberVars, FiberTypes
  <2>. QED  BY <1>2, <1>6, <2>2, <2>3, GoingOn
<1>9. CASE SettleHold(t)
  <2>1. /\ m_fibers' = m_fibers /\ m_state[f] \notin Ended \cup {"READY"}
        /\ m_state' = [m_state EXCEPT ![f] = "HOLD"] /\ m_cb' = m_cb
    BY <1>1, <1>9 DEF SettleHold
  <2>2. QueueAdds
    BY <2>1 DEF QueueAdds
  <2>3. \A g \in Fibers : FiberGoesOn(g)
    BY <1>3, <1>4, <2>1 DEF FiberGoesOn, Ended
  <2>. QED  BY <1>2, <1>6, <2>2, <2>3, GoingOn
<1>. QED  BY <1>7, <1>8, <1>9

Moves == \/ Keeps
         \/ \E S \in SUBSET Tasks : Submits(S)
         \/ \E c \in Tasks : Begins(c) \/ Ends(c)

\* Every step does one of these.
LEMMA CarriedStep ==
  ASSUME Disciplined, FiberTypes, RunTypes, WorkTypes, StartOrder, Ownership, Carried,
         [Next]_vars
  PROVE  Carried' /\ Moves
<1>1. ASSUME NEW c \in Tasks, NEW p \in ClientPins \cup BodyPins, NEW t,
             ScheduleCb(c, p) \/ BodySchedule(t, c, p)
      PROVE  Carried' /\ Moves
  <2>1. /\ c \notin submitted /\ submitted' = submitted \cup {c}
        /\ m_fibers' = Append(m_fibers, OfCb(c, p))
        /\ UNCHANGED <<fiberVars, runVars>>
    BY <1>1 DEF ScheduleCb, BodySchedule
  <2>2. OfCb(c, p) \in Entry
    BY EntryTypes, ThreadAssumption
  <2>3. Pushes({c})
    BY <2>1, <2>2, PushOne
  <2>4. {c} \in SUBSET Tasks /\ {c} # {} /\ {c} \cap submitted = {}
    BY <2>1
  <2>5. Carried' /\ Submits({c})
    BY <2>1, <2>3, <2>4, SubmitsPushed
  <2>. QED  BY <2>4, <2>5 DEF Moves
<1>2. ASSUME NEW c \in Tasks, NEW p \in ClientPins, ScheduleFiber(c, p)
      PROVE  Carried' /\ Moves
  BY <1>2, SubmitsFiber DEF Moves
<1>3. ASSUME NEW c \in Tasks, NEW d \in Tasks, ScheduleBatch(c, d)
      PROVE  Carried' /\ Moves
  <2>1. /\ c \notin submitted /\ d \notin submitted /\ c # d
        /\ submitted' = submitted \cup {c, d}
        /\ m_fibers' = m_fibers \o <<OfCb(c, AnyThread), OfCb(d, AnyThread)>>
        /\ UNCHANGED <<fiberVars, runVars>>
    BY <1>3 DEF ScheduleBatch
  <2>2. Pushes({c, d})
    BY <2>1, PushTwo
  <2>3. {c, d} \in SUBSET Tasks /\ {c, d} # {} /\ {c, d} \cap submitted = {}
    BY <2>1
  <2>4. Carried' /\ Submits({c, d})
    BY <2>1, <2>2, <2>3, SubmitsPushed
  <2>. QED  BY <2>3, <2>4 DEF Moves
<1>4. CASE start
  <2>1. \A u \in Threads : pc[u] # "dispatch"
    BY <1>4 DEF start, StartOrder
  <2>. QED  BY <1>4, <2>1, KeepsMoving DEF start, workVars, Moves
<1>5. CASE StopFlag \/ StopCallerOnly \/ StopProbe \/ StopAll \/ RootBack \/ Join
  BY <1>5, KeepsMoving DEF StopFlag, StopCallerOnly, StopProbe, StopAll, RootBack, Join,
     runVars, workVars, Moves
<1>6. CASE StopRoot
  <2>1. \A u \in Threads : pc'[u] = pc[u] \/ pc[u] # "dispatch"
    BY <1>6, ThreadAssumption DEF StopRoot, StartOrder, RunTypes, Threads
  <2>. QED  BY <1>6, <2>1, KeepsMoving DEF StopRoot, workVars, Moves
<1>7. ASSUME NEW t \in Threads, FetchTask(t)
      PROVE  Carried' /\ Moves
  BY <1>7, KeepsFetched DEF Moves
<1>8. ASSUME NEW t \in Threads,
             FetchNothing(t) \/ EnterIdle(t) \/ Idle(t) \/ LeaveIdle(t) \/ ExitRun(t)
      PROVE  Carried' /\ Moves
  <2>1. \A u \in Threads : pc'[u] = pc[u] \/ pc[u] # "dispatch"
    BY <1>8 DEF FetchNothing, EnterIdle, Idle, LeaveIdle, ExitRun, RunTypes
  <2>. QED  BY <1>8, <2>1, KeepsMoving DEF FetchNothing, EnterIdle, Idle, LeaveIdle,
     ExitRun, workVars, Moves
<1>9. ASSUME NEW t \in Threads, SwapInFiber(t)
      PROVE  Carried' /\ Moves
  BY <1>9, BeginsInFiber DEF Moves
<1>10. ASSUME NEW t \in Threads, SwapInCb(t)
       PROVE  Carried' /\ Moves
  BY <1>10, BeginsInCbFiber DEF Moves
<1>11. ASSUME NEW t \in Threads, SkipEnded(t)
       PROVE  Carried' /\ Moves
  <2>1. FALSE
    BY <1>11 DEF SkipEnded, Ownership, PlaceOf, Runnable, Ended
  <2>. QED  BY <2>1
<1>12. ASSUME NEW t \in Threads, YieldToReady(t)
       PROVE  Carried' /\ Moves
  BY <1>12, KeepsYielding DEF YieldToReady, Moves, Running, Entered
<1>13. ASSUME NEW t \in Threads, NEW n, ArrangeWake(t, n)
       PROVE  Carried' /\ Moves
  <2>1. \A u \in Threads : pc'[u] = pc[u] \/ pc[u] # "dispatch"
    BY <1>13 DEF ArrangeWake
  <2>. QED  BY <1>13, <2>1, KeepsMoving DEF ArrangeWake, Moves
<1>14. ASSUME NEW t \in Threads, NEW p \in SwitchTargets, SwitchTo(t, p)
       PROVE  Carried' /\ Moves
  <2>1. UNCHANGED <<m_fibers, fiberVars, ft, submitted, pc>>
    BY <1>14 DEF SwitchTo, Disciplined
  <2>. QED  BY <2>1, KeepsMoving DEF Moves
<1>15. ASSUME NEW t \in Threads, YieldToHold(t)
       PROVE  Carried' /\ Moves
  BY <1>15, KeepsYielding DEF YieldToHold, workVars, Moves, Running, Entered
<1>16. ASSUME NEW t \in Threads, MainFuncReturn(t) \/ MainFuncThrow(t)
       PROVE  Carried' /\ Moves
  BY <1>16, EndsInFiber DEF Moves
<1>17. ASSUME NEW t \in Threads, SwapOut(t) \/ Deactivate(t)
       PROVE  Carried' /\ Moves
  <2>1. \A u \in Threads : pc'[u] = pc[u] \/ pc[u] # "dispatch"
    BY <1>17 DEF SwapOut, Deactivate, RunTypes
  <2>. QED  BY <1>17, <2>1, KeepsMoving DEF SwapOut, Deactivate, workVars, Moves
<1>18. ASSUME NEW t \in Threads, SettleReady(t) \/ SettleEnded(t) \/ SettleHold(t)
       PROVE  Carried' /\ Moves
  BY <1>18, KeepsSettling DEF Moves
<1>19. ASSUME NEW f \in Fibers, Wake(f)
       PROVE  Carried' /\ Moves
  <2>1. /\ m_fibers' = Append(m_fibers, OfFiber(f, AnyThread))
        /\ UNCHANGED <<fiberVars, runVars, submitted>> /\ waits[f] > 0
    BY <1>19 DEF Wake
  <2>2. m_state'[f] # "INIT"
    BY <2>1 DEF Ownership, FibersOwned, fiberVars
  <2>3. QueueAdds
    BY <2>1, <2>2, AddsFiber
  <2>4. /\ \A u \in Threads : ThreadGoesOn(u)
        /\ \A g \in Fibers : FiberGoesOn(g)
    BY <2>1 DEF ThreadGoesOn, FiberGoesOn, fiberVars, runVars
  <2>. QED  BY <2>1, <2>3, <2>4, GoingOn DEF Moves
<1>20. CASE Finished \/ UNCHANGED vars
  BY <1>20, KeepsMoving DEF Finished, vars, runVars, workVars, Moves
<1>. QED
  BY <1>1, <1>2, <1>3, <1>4, <1>5, <1>6, <1>7, <1>8, <1>9, <1>10, <1>11, <1>12,
      <1>13, <1>14, <1>15, <1>16, <1>17, <1>18, <1>19, <1>20
  DEF Next, Owner, Stop, Run, Body

-----------------------------------------------------------------------------
(* Each callback runs once.                                                 *)

\* Where a callback is, by the predicates above.
StatusExact(c) ==
  /\ c \notin submitted => Status(c) = "new"
  /\ Queued(c) => Status(c) = "queued"
  /\ Runs(c) => Status(c) = "running"
  /\ c \in submitted /\ ~ Queued(c) /\ ~ Runs(c) => Status(c) = "done"
  /\ Queued(c) => c \in submitted /\ ~ Runs(c)
  /\ Runs(c) => c \in submitted

StatusesExact == \A c \in Tasks : StatusExact(c)

\* They say what Status says.
LEMMA StatusIs == FiberTypes /\ RunTypes /\ Carried => StatusesExact
<1>. SUFFICES ASSUME FiberTypes, RunTypes, Carried, NEW c \in Tasks
              PROVE  StatusExact(c)
  BY DEF StatusesExact
<1>1. /\ Queued(c) => c \in submitted /\ ~ Runs(c)
      /\ Runs(c) => c \in submitted
  BY OnePlace
<1>2. Status(c) = CASE c \notin submitted -> "new"
                    [] Queued(c) -> "queued"
                    [] Runs(c) -> "running"
                    [] OTHER -> "done"
  BY DEF Status, Queued, Runs, Entered
<1>. QED  BY <1>1, <1>2 DEF StatusExact

\* A step of a callback.
Advance == {<<"new", "queued">>, <<"queued", "running">>, <<"running", "done">>}

\* Nothing happens to it, or it goes on to what is next.
Forward(c) == Status(c)' = Status(c) \/ <<Status(c), Status(c)'>> \in Advance

\* The steps of the task pool, in the words of Status.
SubmitsAll(S) ==
  /\ S # {}
  /\ \A c \in S : Status(c) = "new" /\ Status(c)' = "queued"
  /\ \A c \in Tasks \ S : Status(c)' = Status(c)

MovesOne(c, from, to) ==
  /\ Status(c) = from /\ Status(c)' = to
  /\ \A d \in Tasks \ {c} : Status(d)' = Status(d)

StatusMoves ==
  \/ \A c \in Tasks : Status(c)' = Status(c)
  \/ \E S \in SUBSET Tasks : SubmitsAll(S)
  \/ \E c \in Tasks : MovesOne(c, "queued", "running") \/ MovesOne(c, "running", "done")

\* What happens to a callback shows in Status.
LEMMA MovesShow ==
  ASSUME \A c \in Tasks : StatusExact(c) /\ StatusExact(c)', Moves
  PROVE  StatusMoves
<1>1. ASSUME NEW c \in Tasks, Stays(c), c \in submitted' <=> c \in submitted
      PROVE  Status(c)' = Status(c)
  BY <1>1 DEF StatusExact, Stays
<1>2. CASE Keeps
  BY <1>1, <1>2 DEF Keeps, StatusMoves
<1>3. ASSUME NEW S \in SUBSET Tasks, Submits(S)
      PROVE  StatusMoves
  <2>1. \A c \in S : Status(c) = "new" /\ Status(c)' = "queued"
    BY <1>3 DEF Submits, StatusExact
  <2>2. \A c \in Tasks \ S : Status(c)' = Status(c)
    BY <1>1, <1>3 DEF Submits
  <2>. QED  BY <1>3, <2>1, <2>2 DEF SubmitsAll, StatusMoves
<1>4. ASSUME NEW c \in Tasks, Begins(c)
      PROVE  StatusMoves
  <2>1. Status(c) = "queued" /\ Status(c)' = "running"
    BY <1>4 DEF Begins, StatusExact
  <2>2. \A d \in Tasks \ {c} : Status(d)' = Status(d)
    BY <1>1, <1>4 DEF Begins
  <2>. QED  BY <2>1, <2>2 DEF MovesOne, StatusMoves
<1>5. ASSUME NEW c \in Tasks, Ends(c)
      PROVE  StatusMoves
  <2>1. Status(c) = "running" /\ Status(c)' = "done"
    BY <1>5 DEF Ends, StatusExact
  <2>2. \A d \in Tasks \ {c} : Status(d)' = Status(d)
    BY <1>1, <1>5 DEF Ends
  <2>. QED  BY <2>1, <2>2 DEF MovesOne, StatusMoves
<1>. QED  BY <1>2, <1>3, <1>4, <1>5 DEF Moves

\* The invariant on which this rests.
CarryInv == BaseInv /\ Ownership /\ Carried

\* It holds initially.
LEMMA CarryInit == Init => CarryInv
<1>1. Init => Carried
  BY DEF Init, Carried, QueueCarries, ThreadsCarry, FibersCarry, NoEntry
<1>. QED  BY <1>1, BaseInit, OwnershipInit DEF CarryInv

\* And every step keeps it.
LEMMA CarryStep ==
  ASSUME Disciplined, CarryInv, [Next]_vars
  PROVE  CarryInv' /\ Moves /\ StatusMoves
<1>1. BaseInv' /\ Ownership'
  BY BaseStep, OwnershipStep DEF CarryInv, BaseInv, TypeOK
<1>2. Carried' /\ Moves
  BY CarriedStep DEF CarryInv, BaseInv, TypeOK
<1>3. StatusesExact
  BY StatusIs DEF CarryInv, BaseInv, TypeOK
<1>4. FiberTypes' /\ RunTypes' /\ Carried' => StatusesExact'
  BY StatusIs, PTL
<1>5. StatusesExact'
  BY <1>1, <1>2, <1>4 DEF BaseInv, TypeOK
<1>. QED  BY <1>1, <1>2, <1>3, <1>5, MovesShow DEF CarryInv, StatusesExact

\* Under the discipline every callback has one place at all times.
LEMMA CarryInvariant == Disciplined => (Spec => []CarryInv)
<1>. SUFFICES ASSUME Disciplined PROVE Spec => []CarryInv
  OBVIOUS
<1>1. CarryInv /\ [Next]_vars => CarryInv'
  BY CarryStep
<1>. QED  BY <1>1, CarryInit, PTL DEF Spec

\* Under the discipline, and however often fibers yield, hold and move between
\* threads, a callback handed to schedule only ever goes from new to queued, to
\* running, to done: it is never lost before it begins, begun twice or begun
\* again after its end (the fetch of scheduler.cc:182-215 and the bookkeeping
\* after swapIn, scheduler.cc:223-256).
THEOREM DisciplinedRunOnce ==
  Disciplined => (Spec => [][\A c \in Tasks : Forward(c)]_vars)
<1>. SUFFICES ASSUME Disciplined
              PROVE  Spec => [][\A c \in Tasks : Forward(c)]_vars
  OBVIOUS
<1>1. StatusMoves => \A c \in Tasks : Forward(c)
  BY DEF StatusMoves, SubmitsAll, MovesOne, Forward, Advance
<1>2. CarryInv /\ [Next]_vars => [\A c \in Tasks : Forward(c)]_vars
  BY <1>1, CarryStep
<1>. QED  BY <1>2, CarryInvariant, PTL DEF Spec

-----------------------------------------------------------------------------
(* stop() returns when nothing is left.                                     *)

\* What stop() needs from the callbacks: none of them holds, so that all the
\* work is in the queue or with a thread, and what they submit is for
\* any thread.  A pinned entry can be left behind by the thread it is for
\* (scheduler.cc:193-197), which leaves run() when it sees the queue empty.
SelfDriven ==
  /\ MaxHold = 0
  /\ BodyPins \subseteq {AnyThread}

\* No fiber is on hold or will be.
NeverHeld ==
  /\ \A f \in Fibers : waits[f] = 0 /\ m_state[f] # "HOLD"
  /\ \A t \in Threads : pc[t] # "hold"

\* A fiber that has yielded is in the queue or in a thread's hands.
ReadyKept ==
  \A f \in Fibers : m_state[f] = "READY" =>
    \/ \E i \in 1..Len(m_fibers) : m_fibers[i].fiber = f
    \/ \E t \in Threads : pc[t] \in InHand /\ Cur(t) = f

\* Without ArrangeWake and SwitchTo no fiber gets on hold.
LEMMA NeverHeldStep ==
  ASSUME SelfDriven, FiberTypes, RunTypes, WorkTypes, Ownership, NeverHeld, [Next]_vars
  PROVE  NeverHeld'
<1>1. CASE Owner
  <2>1. UNCHANGED waits /\ \A t \in Threads : pc'[t] \in {pc[t], "fetch"}
    BY <1>1 DEF Owner, ScheduleCb, ScheduleFiber, ScheduleBatch, start, StopFlag, workVars,
       runVars
  <2>2. \A f \in Fibers : m_state'[f] \in {m_state[f], "INIT"}
    BY <1>1 DEF Owner, ScheduleCb, ScheduleFiber, ScheduleBatch, start, StopFlag, fiberVars,
       FiberTypes
  <2>. QED  BY <2>1, <2>2 DEF NeverHeld
<1>2. CASE Stop
  <2>1. UNCHANGED <<waits, m_state>> /\ \A t \in Threads : pc'[t] \in {pc[t], "fetch"}
    BY <1>2 DEF Stop, StopCallerOnly, StopProbe, StopAll, StopRoot, RootBack, Join,
       workVars, runVars, fiberVars, RunTypes
  <2>. QED  BY <2>1 DEF NeverHeld
<1>3. ASSUME NEW t \in Threads, Run(t)
      PROVE  NeverHeld'
  <2>1. CASE \/ FetchTask(t) \/ FetchNothing(t)
             \/ EnterIdle(t) \/ Idle(t) \/ LeaveIdle(t) \/ ExitRun(t)
             \/ SkipEnded(t) \/ SwapOut(t) \/ Deactivate(t) \/ SettleReady(t)
    BY <2>1 DEF NeverHeld, FetchTask, FetchNothing, EnterIdle, Idle, LeaveIdle, ExitRun,
       SkipEnded, SwapOut, Deactivate, SettleReady, workVars, fiberVars, RunTypes
  <2>2. CASE \/ SwapInFiber(t) \/ SwapInCb(t) \/ YieldToReady(t)
             \/ MainFuncReturn(t) \/ MainFuncThrow(t) \/ SettleEnded(t)
    <3>1. UNCHANGED waits /\ \A u \in Threads : pc'[u] # "hold"
      BY <2>2 DEF NeverHeld, SwapInFiber, SwapInCb, YieldToReady, MainFuncReturn,
         MainFuncThrow, SettleEnded, workVars, RunTypes
    <3>2. \A f \in Fibers : m_state'[f] \in {m_state[f], "EXEC", "READY", "TERM",
                                             "EXCEPT", "INIT"}
      BY <2>2 DEF SwapInFiber, SwapInCb, YieldToReady, MainFuncReturn, MainFuncThrow,
         SettleEnded, fiberVars, FiberTypes
    <3>. QED  BY <3>1, <3>2 DEF NeverHeld
  <2>3. CASE \E c \in Tasks, thread \in BodyPins : BodySchedule(t, c, thread)
    BY <2>3 DEF NeverHeld, BodySchedule, fiberVars, runVars
  <2>4. CASE \/ \E n \in 1..WaitsPerHold : ArrangeWake(t, n)
             \/ \E thread \in SwitchTargets : SwitchTo(t, thread)
             \/ YieldToHold(t)
    BY <2>4 DEF NeverHeld, SelfDriven, ArrangeWake, SwitchTo, YieldToHold, WorkTypes
  <2>5. CASE SettleHold(t)
    <3>1. Cur(t) \in Fibers /\ m_state[Cur(t)] = "HOLD"
      BY <2>5, OwnApart DEF SettleHold, Ownership, PlaceOf, Ended, Carrying
    <3>. QED  BY <3>1 DEF NeverHeld
  <2>. QED  BY <1>3, <2>1, <2>2, <2>3, <2>4, <2>5 DEF Run, Body
<1>4. ASSUME NEW f \in Fibers, Wake(f)
      PROVE  NeverHeld'
  BY <1>4 DEF Wake, NeverHeld
<1>5. CASE Finished \/ UNCHANGED vars
  BY <1>5 DEF Finished, vars, workVars, fiberVars, runVars, NeverHeld
<1>. QED  BY <1>1, <1>2, <1>3, <1>4, <1>5 DEF Next

\* A step leaves every yielded fiber where it is or passes it on.
LEMMA ReadyMoves ==
  ASSUME ReadyKept,
         \A i \in 1..Len(m_fibers) : i \in 1..Len(m_fibers') /\ m_fibers'[i] = m_fibers[i],
         \A f \in Fibers : m_state'[f] = "READY" =>
           \/ m_state[f] = "READY"
           \/ \E t \in Threads : pc'[t] \in InHand /\ Cur(t)' = f,
         \A t \in Threads, f \in Fibers :
           pc[t] \in InHand /\ Cur(t) = f /\ m_state'[f] = "READY" =>
             \/ pc'[t] \in InHand /\ Cur(t)' = f
             \/ \E i \in 1..Len(m_fibers') : m_fibers'[i].fiber = f
  PROVE  ReadyKept'
<1>. SUFFICES ASSUME NEW f \in Fibers, m_state'[f] = "READY"
              PROVE  \/ \E i \in 1..Len(m_fibers') : m_fibers'[i].fiber = f
                     \/ \E t \in Threads : pc'[t] \in InHand /\ Cur(t)' = f
  BY DEF ReadyKept
<1>1. CASE m_state[f] = "READY"
  BY <1>1 DEF ReadyKept
<1>. QED  BY <1>1

\* Every step does.
LEMMA ReadyStep ==
  ASSUME SelfDriven, FiberTypes, RunTypes, WorkTypes, StartOrder, Ownership, Carried,
         NeverHeld, ReadyKept, [Next]_vars
  PROVE  ReadyKept'
<1>1. ASSUME NEW e \in Entry, m_fibers' = Append(m_fibers, e)
      PROVE  /\ \A i \in 1..Len(m_fibers) :
                  i \in 1..Len(m_fibers') /\ m_fibers'[i] = m_fibers[i]
             /\ \E i \in 1..Len(m_fibers') : m_fibers'[i] = e
  <2>1. Len(m_fibers) \in Nat
    BY DEF FiberTypes
  <2>2. /\ Len(m_fibers') = Len(m_fibers) + 1
        /\ \A i \in 1..(Len(m_fibers) + 1) :
             m_fibers'[i] = IF i <= Len(m_fibers) THEN m_fibers[i] ELSE e
    BY <1>1
  <2>3. Len(m_fibers) + 1 \in 1..Len(m_fibers') /\ m_fibers'[Len(m_fibers) + 1] = e
    BY <2>1, <2>2
  <2>. QED  BY <2>1, <2>2, <2>3
<1>2. ASSUME NEW c \in Tasks, NEW p \in ClientPins \cup BodyPins, NEW t,
             ScheduleCb(c, p) \/ BodySchedule(t, c, p)
      PROVE  ReadyKept'
  <2>1. OfCb(c, p) \in Entry
    BY EntryTypes, ThreadAssumption
  <2>2. \A i \in 1..Len(m_fibers) : i \in 1..Len(m_fibers') /\ m_fibers'[i] = m_fibers[i]
    BY <1>1, <1>2, <2>1 DEF ScheduleCb, BodySchedule
  <2>3. \A u \in Threads : Cur(u)' = Cur(u)
    BY <1>2 DEF ScheduleCb, BodySchedule, runVars, Cur
  <2>. QED  BY <1>2, <2>2, <2>3, ReadyMoves DEF ScheduleCb, BodySchedule, runVars, fiberVars
<1>3. ASSUME NEW c \in Tasks, NEW p \in ClientPins, ScheduleFiber(c, p)
      PROVE  ReadyKept'
  <2>1. Fresh \in Fibers /\ OfFiber(Fresh, p) \in Entry
    BY <1>3, FreshType, EntryTypes, ThreadAssumption DEF ScheduleFiber
  <2>2. \A i \in 1..Len(m_fibers) : i \in 1..Len(m_fibers') /\ m_fibers'[i] = m_fibers[i]
    BY <1>1, <1>3, <2>1 DEF ScheduleFiber
  <2>3. \A u \in Threads : Cur(u)' = Cur(u)
    BY <1>3 DEF ScheduleFiber, runVars, Cur
  <2>4. \A f \in Fibers : m_state'[f] = "READY" => m_state[f] = "READY"
    BY <1>3 DEF ScheduleFiber
  <2>. QED  BY <1>3, <2>2, <2>3, <2>4, ReadyMoves DEF ScheduleFiber, runVars
<1>4. ASSUME NEW c \in Tasks, NEW d \in Tasks, ScheduleBatch(c, d)
      PROVE  ReadyKept'
  <2>1. \A i \in 1..Len(m_fibers) : i \in 1..Len(m_fibers') /\ m_fibers'[i] = m_fibers[i]
    BY <1>4 DEF ScheduleBatch
  <2>2. \A u \in Threads : Cur(u)' = Cur(u)
    BY <1>4 DEF ScheduleBatch, runVars, Cur
  <2>. QED  BY <1>4, <2>1, <2>2, ReadyMoves DEF ScheduleBatch, runVars, fiberVars
<1>5. ASSUME UNCHANGED <<m_fibers, ft, cb_fiber, fiberVars>>,
             \A u \in Threads : pc[u] \in InHand => pc'[u] \in InHand
      PROVE  ReadyKept'
  <2>1. \A u \in Threads : Cur(u)' = Cur(u)
    BY <1>5 DEF Cur
  <2>. QED  BY <1>5, <2>1, ReadyMoves DEF fiberVars
<1>6. CASE start \/ StopFlag
  <2>1. \A u \in Threads : pc[u] \in InHand => pc'[u] \in InHand
    BY <1>6 DEF start, StopFlag, runVars, InHand, OnStack, StartOrder
  <2>. QED  BY <1>5, <1>6, <2>1 DEF start, StopFlag, runVars
<1>7. CASE Stop
  <2>1. UNCHANGED <<m_fibers, ft, cb_fiber, fiberVars>>
    BY <1>7 DEF Stop, StopCallerOnly, StopProbe, StopAll, StopRoot, RootBack, Join, runVars
  <2>2. CASE StopRoot
    <3>1. \A u \in Threads : pc'[u] = pc[u] \/ pc[u] = "new"
      BY <2>2, ThreadAssumption DEF StopRoot, StartOrder, RunTypes, Threads
    <3>. QED  BY <1>5, <2>1, <3>1 DEF InHand, OnStack
  <2>3. CASE ~ StopRoot
    <3>1. pc' = pc
      BY <1>7, <2>3 DEF Stop, StopCallerOnly, StopProbe, StopAll, RootBack, Join, runVars
    <3>. QED  BY <1>5, <2>1, <3>1
  <2>. QED  BY <2>2, <2>3
<1>8. ASSUME NEW t \in Threads,
             \/ FetchNothing(t) \/ EnterIdle(t) \/ Idle(t) \/ LeaveIdle(t) \/ ExitRun(t)
             \/ SwapOut(t) \/ Deactivate(t)
      PROVE  ReadyKept'
  <2>1. UNCHANGED <<m_fibers, ft, cb_fiber, fiberVars>>
    BY <1>8 DEF FetchNothing, EnterIdle, Idle, LeaveIdle, ExitRun, SwapOut, Deactivate
  <2>2. \A u \in Threads : pc[u] \in InHand => pc'[u] \in InHand
    BY <1>8 DEF FetchNothing, EnterIdle, Idle, LeaveIdle, ExitRun, SwapOut, Deactivate,
       InHand, OnStack, RunTypes
  <2>. QED  BY <1>5, <2>1, <2>2
<1>9. ASSUME NEW t \in Threads, FetchTask(t)
      PROVE  ReadyKept'
  <2>1. PICK i \in 1..Len(m_fibers) :
           ft' = [ft EXCEPT ![t] = m_fibers[i]] /\ m_fibers' = Erase(m_fibers, i)
    BY <1>9 DEF FetchTask
  <2>2. /\ pc[t] = "fetch" /\ pc' = [pc EXCEPT ![t] = "dispatch"]
        /\ UNCHANGED <<fiberVars, cb_fiber>>
    BY <1>9 DEF FetchTask
  <2>3. ft'[t] = m_fibers[i] /\ pc'[t] = "dispatch"
    BY <2>1, <2>2 DEF RunTypes
  <2>4. \A u \in Threads \ {t} : ft'[u] = ft[u] /\ pc'[u] = pc[u] /\ Cur(u)' = Cur(u)
    BY <2>1, <2>2 DEF Cur
  <2>5. ASSUME NEW f \in Fibers, NEW j \in 1..Len(m_fibers), m_fibers[j].fiber = f
        PROVE  \/ \E k \in 1..Len(m_fibers') : m_fibers'[k].fiber = f
               \/ \E u \in Threads : pc'[u] \in InHand /\ Cur(u)' = f
    <3>1. CASE j = i
      <4>1. Cur(t)' = f
        BY <2>3, <2>5, <3>1, TaskAssumption DEF Cur
      <4>. QED  BY <2>3, <4>1 DEF InHand
    <3>2. CASE j # i
      <4>0. Len(m_fibers) \in Nat
        BY DEF FiberTypes
      <4>1. /\ Len(m_fibers') = Len(m_fibers) - 1
            /\ \A k \in 1..(Len(m_fibers) - 1) :
                 m_fibers'[k] = m_fibers[IF k < i THEN k ELSE k + 1]
        BY <2>1, EraseProperties DEF FiberTypes
      <4>2. PICK k \in 1..(Len(m_fibers) - 1) : (IF k < i THEN k ELSE k + 1) = j
        <5>1. CASE j < i
          <6>1. j \in 1..(Len(m_fibers) - 1)
            BY <4>0, <5>1
          <6>. QED  BY <5>1, <6>1
        <5>2. CASE j > i
          <6>1. j - 1 \in 1..(Len(m_fibers) - 1) /\ ~ (j - 1 < i) /\ (j - 1) + 1 = j
            BY <4>0, <5>2
          <6>. QED  BY <6>1
        <5>. QED  BY <3>2, <5>1, <5>2
      <4>. QED  BY <2>5, <4>1, <4>2
    <3>. QED  BY <3>1, <3>2
  <2>6. ASSUME NEW f \in Fibers, NEW u \in Threads, pc[u] \in InHand, Cur(u) = f
        PROVE  pc'[u] \in InHand /\ Cur(u)' = f
    BY <2>2, <2>4, <2>6 DEF InHand, OnStack
  <2>. QED  BY <2>2, <2>5, <2>6 DEF ReadyKept, fiberVars
<1>10. ASSUME NEW t \in Threads, SwapInFiber(t) \/ SwapInCb(t)
       PROVE  ReadyKept'
  <2>1. UNCHANGED m_fibers
    BY <1>10 DEF SwapInFiber, SwapInCb
  <2>2. /\ \A f \in Fibers : m_state'[f] = "READY" => m_state[f] = "READY"
        /\ \A u \in Threads \ {t} : pc'[u] = pc[u] /\ Cur(u)' = Cur(u)
        /\ pc'[t] = "exec"
    BY <1>10 DEF SwapInFiber, SwapInCb, FiberTypes, RunTypes, Cur
  <2>3. ASSUME NEW f \in Fibers, Cur(t) = f, m_state'[f] = "READY"
        PROVE  Cur(t)' = f
    <3>1. CASE SwapInFiber(t)
      BY <2>3, <3>1 DEF SwapInFiber, Cur
    <3>2. CASE SwapInCb(t)
      <4>1. Cur(t) = cb_fiber[t] /\ cb_fiber[t] # NoFiber
        BY <2>3, <3>2, TaskAssumption DEF SwapInCb, Cur
      <4>2. m_state'[f] = "EXEC"
        BY <2>3, <3>2, <4>1 DEF SwapInCb, FiberTypes
      <4>. QED  BY <2>3, <4>2
    <3>. QED  BY <1>10, <3>1, <3>2
  <2>4. pc'[t] \in InHand
    BY <2>2 DEF InHand, OnStack
  <2>. QED  BY <2>1, <2>2, <2>3, <2>4, ReadyMoves
<1>11. ASSUME NEW t \in Threads, SkipEnded(t)
       PROVE  ReadyKept'
  <2>1. FALSE
    BY <1>11 DEF SkipEnded, Ownership, PlaceOf, Runnable, Ended
  <2>. QED  BY <2>1
<1>12. ASSUME NEW t \in Threads, YieldToReady(t) \/ MainFuncReturn(t) \/ MainFuncThrow(t)
       PROVE  ReadyKept'
  <2>1. UNCHANGED <<m_fibers, ft, cb_fiber>>
    BY <1>12 DEF YieldToReady, MainFuncReturn, MainFuncThrow
  <2>2. /\ \A f \in Fibers : m_state'[f] = "READY" => m_state[f] = "READY" \/ f = Cur(t)
        /\ \A u \in Threads \ {t} : pc'[u] = pc[u]
        /\ pc'[t] = "swapout"
    BY <1>12 DEF YieldToReady, MainFuncReturn, MainFuncThrow, FiberTypes, RunTypes
  <2>3. \A u \in Threads : Cur(u)' = Cur(u)
    BY <2>1 DEF Cur
  <2>4. pc'[t] \in InHand
    BY <2>2 DEF InHand, OnStack
  <2>. QED  BY <2>1, <2>2, <2>3, <2>4, ReadyMoves
<1>13. ASSUME NEW t \in Threads,
              \/ \E n \in 1..WaitsPerHold : ArrangeWake(t, n)
              \/ \E thread \in SwitchTargets : SwitchTo(t, thread)
              \/ YieldToHold(t)
       PROVE  ReadyKept'
  BY <1>13 DEF NeverHeld, SelfDriven, ArrangeWake, SwitchTo, YieldToHold, WorkTypes
<1>14. ASSUME NEW t \in Threads, SettleReady(t) \/ SettleEnded(t) \/ SettleHold(t)
       PROVE  ReadyKept'
  <2>1. Cur(t) \in Fibers
    BY <1>14, OwnApart DEF SettleReady, SettleEnded, SettleHold, Carrying
  <2>2. \A i \in 1..Len(m_fibers) : i \in 1..Len(m_fibers') /\ m_fibers'[i] = m_fibers[i]
    <3>1. OfFiber(Cur(t), AnyThread) \in Entry
      BY <2>1, EntryTypes
    <3>. QED  BY <1>1, <1>14, <3>1 DEF SettleReady, SettleEnded, SettleHold
  <2>3. \A f \in Fibers : m_state'[f] = "READY" => m_state[f] = "READY"
    BY <1>14 DEF SettleReady, SettleEnded, SettleHold, fiberVars, FiberTypes
  <2>4. \A u \in Threads \ {t} : pc'[u] = pc[u] /\ Cur(u)' = Cur(u)
    BY <1>14 DEF SettleReady, SettleEnded, SettleHold, LetGo, RunTypes, Cur
  <2>5. m_state'[Cur(t)] = "READY" =>
          \E i \in 1..Len(m_fibers') : m_fibers'[i].fiber = Cur(t)
    <3>1. CASE SettleReady(t)
      <4>1. OfFiber(Cur(t), AnyThread) \in Entry
        BY <2>1, EntryTypes
      <4>2. \E i \in 1..Len(m_fibers') : m_fibers'[i] = OfFiber(Cur(t), AnyThread)
        BY <1>1, <3>1, <4>1 DEF SettleReady
      <4>. QED  BY <4>2 DEF OfFiber
    <3>2. CASE SettleEnded(t) \/ SettleHold(t)
      <4>1. m_state'[Cur(t)] # "READY"
        BY <2>1, <3>2 DEF SettleEnded, SettleHold, fiberVars, FiberTypes, Ended
      <4>. QED  BY <4>1
    <3>. QED  BY <1>14, <3>1, <3>2
  <2>. QED  BY <2>2, <2>3, <2>4, <2>5, ReadyMoves
<1>15. ASSUME NEW f \in Fibers, Wake(f)
       PROVE  ReadyKept'
  BY <1>15 DEF Wake, NeverHeld
<1>16. CASE Finished \/ UNCHANGED vars
  BY <1>5, <1>16 DEF Finished, vars, runVars
<1>. QED
  BY <1>2, <1>3, <1>4, <1>6, <1>7, <1>8, <1>9, <1>10, <1>11, <1>12, <1>13, <1>14, <1>15,
      <1>16
  DEF Next, Owner, Run, Body

\* The end of the run: an idle fiber has seen stopping() true, or the owner has
\* and so did not enter run() at all.
Over ==
  \/ \E t \in Threads : idle_fiber[t] = "TERM"
  \/ UseCaller /\ owner \in {"join", "stopped"} /\ pc[Caller] = "new"

\* A thread that will look at the queue again.
Looks(t) ==
  /\ pc[t] \notin {"new", "exited"}
  /\ ~ (pc[t] = "empty" /\ idle_fiber[t] = "TERM")

\* From then on only fibers submit, for any thread, and whatever is in the
\* queue will be seen.
QueueEnds ==
  Over => /\ owner # "open"
          /\ \A i \in 1..Len(m_fibers) : m_fibers[i].thread = AnyThread
          /\ m_fibers # <<>> => \E t \in Threads : Looks(t)

\* A thread leaves run() after the end, and the owner when all have left.
OwnerEnds ==
  /\ m_autoStop => owner # "open"
  /\ \A t \in Threads : pc[t] = "exited" => idle_fiber[t] = "TERM"
  /\ UseCaller /\ owner \in {"join", "stopped"} => pc[Caller] \in {"new", "exited"}
  /\ owner = "stopped" => \A t \in Threads : pc[t] \in {"new", "exited"}
  /\ owner = "stopProbe" => UseCaller /\ Workers = {}

Ending == QueueEnds /\ OwnerEnds

\* The queue is left alone, gets an entry for any thread, or loses one.
QueueForAny ==
  (\A i \in 1..Len(m_fibers) : m_fibers[i].thread = AnyThread)
    => \A i \in 1..Len(m_fibers') : m_fibers'[i].thread = AnyThread

\* A step of a thread that goes on looking, or finds the queue empty.
LEMMA EndingKept ==
  ASSUME RunTypes, Ending, NEW t \in Threads,
         UNCHANGED <<owner, m_autoStop, idle_fiber>>,
         \A u \in Threads \ {t} : pc'[u] = pc[u],
         Looks(t), pc'[t] \notin {"new", "exited"},
         m_fibers' = <<>> \/ Looks(t)',
         QueueForAny
  PROVE  Ending'
<1>1. Over' => Over
  <2>1. ASSUME UseCaller, owner \in {"join", "stopped"}, pc'[Caller] = "new"
        PROVE  pc[Caller] = "new"
    BY <2>1, CallerIsThread
  <2>. QED  BY <2>1 DEF Over
<1>2. QueueEnds'
  BY <1>1 DEF Ending, QueueEnds, QueueForAny
<1>3. OwnerEnds'
  <2>1. UseCaller /\ owner \in {"join", "stopped"} => t # Caller
    BY DEF Ending, OwnerEnds, Looks
  <2>2. owner # "stopped"
    BY DEF Ending, OwnerEnds, Looks
  <2>. QED  BY <2>1, <2>2, CallerIsThread DEF Ending, OwnerEnds
<1>. QED  BY <1>2, <1>3 DEF Ending

\* The steps of the owner.
LEMMA EndingOwner ==
  ASSUME FiberTypes, RunTypes, StartOrder, Ending, Owner \/ Stop
  PROVE  Ending'
<1>1. ASSUME owner = "open", owner' \in {"open", "stopFlag"}, UNCHANGED idle_fiber,
             m_autoStop' => m_autoStop \/ owner' # "open",
             \A t \in Threads : pc'[t] \in {pc[t], "fetch"}
      PROVE  Ending'
  <2>1. ~ Over'
    BY <1>1 DEF Ending, QueueEnds, Over
  <2>. QED  BY <1>1, <2>1 DEF Ending, QueueEnds, OwnerEnds
<1>2. CASE Owner
  <2>1. owner = "open" /\ UNCHANGED idle_fiber
    BY <1>2 DEF Owner, ScheduleCb, ScheduleFiber, ScheduleBatch, start, StopFlag, runVars
  <2>3. owner' = "stopFlag" \/ UNCHANGED <<owner, m_autoStop>>
    BY <1>2 DEF Owner, ScheduleCb, ScheduleFiber, ScheduleBatch, start, StopFlag, stopVars
  <2>4. /\ owner' \in {"open", "stopFlag"}
        /\ m_autoStop' => m_autoStop \/ owner' # "open"
    BY <2>1, <2>3
  <2>2. \A t \in Threads : pc'[t] \in {pc[t], "fetch"}
    BY <1>2 DEF Owner, ScheduleCb, ScheduleFiber, ScheduleBatch, start, StopFlag, runVars
  <2>. QED  BY <1>1, <2>1, <2>2, <2>4
<1>3. ASSUME UNCHANGED <<m_fibers, idle_fiber, pc, m_autoStop>>, owner' # "open",
             (UseCaller /\ owner' \in {"join", "stopped"}) =>
               \/ m_fibers = <<>> /\ pc[Caller] = "new"
               \/ owner = "join" \/ pc[Caller] = "exited",
             owner' = "stopped" => \A t \in Threads : pc[t] \in {"new", "exited"},
             owner' = "stopProbe" => UseCaller /\ Workers = {}
      PROVE  Ending'
  <2>1. OwnerEnds'
    BY <1>3 DEF Ending, OwnerEnds
  <2>2. \A t \in Threads : Looks(t)' <=> Looks(t)
    BY <1>3 DEF Looks
  <2>3. m_fibers = <<>> \/ (Over' => Over)
    BY <1>3 DEF Over
  <2>4. QueueEnds'
    BY <1>3, <2>2, <2>3 DEF Ending, QueueEnds
  <2>. QED  BY <2>1, <2>4 DEF Ending
<1>4. CASE StopCallerOnly \/ StopAll \/ RootBack
  BY <1>3, <1>4 DEF StopCallerOnly, StopAll, RootBack, runVars
<1>5. CASE StopProbe
  <2>1. UseCaller /\ Workers = {}
    BY <1>5 DEF StopProbe, Ending, OwnerEnds
  <2>2. Threads = {Caller} /\ pc[Caller] = "new"
    BY <1>5, <2>1 DEF Threads, StartOrder, StopProbe
  <2>3. stopping => m_fibers = <<>>
    BY DEF stopping
  <2>. QED  BY <1>3, <1>5, <2>1, <2>2, <2>3 DEF StopProbe, runVars
<1>6. CASE Join
  <2>1. \A t \in Threads : pc[t] \in {"new", "exited"}
    BY <1>6 DEF Join, Ending, OwnerEnds, Threads
  <2>. QED  BY <1>3, <1>6, <2>1 DEF Join, runVars
<1>7. CASE StopRoot
  <2>1. UseCaller => pc[Caller] = "new"
    BY <1>7 DEF StopRoot, StartOrder
  <2>2. CASE stopping
    <3>1. m_fibers = <<>>
      BY <2>2 DEF stopping
    <3>. QED  BY <1>3, <1>7, <2>1, <2>2, <3>1 DEF StopRoot
  <2>3. CASE ~ stopping
    <3>1. /\ UNCHANGED <<m_fibers, idle_fiber, m_autoStop>> /\ owner' = "call"
          /\ owner = "stopRoot"
      BY <1>7, <2>3 DEF StopRoot
    <3>2. \A t \in Threads : pc'[t] = pc[t] \/ (pc[t] = "new" /\ pc'[t] = "fetch")
      BY <1>7, <2>1, <2>3, ThreadAssumption DEF StopRoot, RunTypes, Threads
    <3>3. \A t \in Threads : Looks(t) => Looks(t)'
      BY <3>1, <3>2 DEF Looks
    <3>4. Over' => Over
      BY <3>1 DEF Over
    <3>5. QueueEnds'
      BY <3>1, <3>3, <3>4 DEF Ending, QueueEnds
    <3>6. OwnerEnds'
      BY <3>1, <3>2 DEF Ending, OwnerEnds
    <3>. QED  BY <3>5, <3>6 DEF Ending
  <2>. QED  BY <2>2, <2>3
<1>. QED  BY <1>2, <1>4, <1>5, <1>6, <1>7 DEF Stop

\* A thread that has seen the end leaves only an empty queue.
LEMMA NothingLeft ==
  ASSUME FiberTypes, Ownership, Ending, NEW t \in Threads, FetchNothing(t),
         idle_fiber[t] = "TERM"
  PROVE  m_fibers = <<>>
<1>1. \A i \in 1..Len(m_fibers) : m_fibers[i].thread = AnyThread
  BY DEF Ending, QueueEnds, Over
<1>2. \A i \in 1..Len(m_fibers) : Eligible(m_fibers[i], t)
  BY <1>1 DEF Eligible, Ownership, QueueOwns, Runnable
<1>3. \A i \in 1..Len(m_fibers) : FALSE
  BY <1>2 DEF FetchNothing
<1>4. Len(m_fibers) \in Nat /\ m_fibers \in Seq(Entry)
  BY DEF FiberTypes
<1>5. Len(m_fibers) = 0
  BY <1>3, <1>4
<1>. QED  BY <1>4, <1>5

\* The steps of the threads, and all others.
LEMMA EndingStep ==
  ASSUME SelfDriven, FiberTypes, RunTypes, WorkTypes, StartOrder, Ownership, NeverHeld,
         Ending, [Next]_vars
  PROVE  Ending'
<1>1. ASSUME NEW t \in Threads, UNCHANGED <<owner, m_autoStop, idle_fiber>>, NEW p,
             pc' = [pc EXCEPT ![t] = p], Looks(t), p \notin {"new", "exited", "empty"},
             QueueForAny
      PROVE  Ending'
  <2>1. pc'[t] = p /\ \A u \in Threads \ {t} : pc'[u] = pc[u]
    BY <1>1 DEF RunTypes
  <2>2. Looks(t)'
    BY <1>1, <2>1 DEF Looks
  <2>. QED  BY <1>1, <2>1, <2>2, EndingKept
<1>2. UNCHANGED m_fibers => QueueForAny
  BY DEF QueueForAny
<1>3. ASSUME NEW e \in Entry, e.thread = AnyThread, m_fibers' = Append(m_fibers, e)
      PROVE  QueueForAny
  <2>1. Len(m_fibers) \in Nat
    BY DEF FiberTypes
  <2>2. /\ Len(m_fibers') = Len(m_fibers) + 1
        /\ \A i \in 1..(Len(m_fibers) + 1) :
             m_fibers'[i] = IF i <= Len(m_fibers) THEN m_fibers[i] ELSE e
    BY <1>3
  <2>. QED  BY <1>3, <2>1, <2>2 DEF QueueForAny
<1>4. ASSUME NEW t \in Threads, FetchTask(t)
      PROVE  Ending'
  <2>1. PICK i \in 1..Len(m_fibers) : m_fibers' = Erase(m_fibers, i)
    BY <1>4 DEF FetchTask
  <2>2. /\ Len(m_fibers') = Len(m_fibers) - 1
        /\ \A j \in 1..(Len(m_fibers) - 1) :
             m_fibers'[j] = m_fibers[IF j < i THEN j ELSE j + 1]
    BY <2>1, EraseProperties DEF FiberTypes
  <2>3. Len(m_fibers) \in Nat
    BY DEF FiberTypes
  <2>4. QueueForAny
    BY <2>2, <2>3 DEF QueueForAny
  <2>5. Looks(t)
    BY <1>4 DEF FetchTask, Looks
  <2>. QED  BY <1>1, <1>4, <2>4, <2>5 DEF FetchTask, stopVars
<1>5. ASSUME NEW t \in Threads, FetchNothing(t)
      PROVE  Ending'
  <2>1. /\ pc'[t] = "empty" /\ (\A u \in Threads \ {t} : pc'[u] = pc[u])
        /\ UNCHANGED <<owner, m_autoStop, idle_fiber, m_fibers>>
    BY <1>5 DEF FetchNothing, RunTypes, stopVars
  <2>2. Looks(t)
    BY <1>5 DEF FetchNothing, Looks
  <2>3. m_fibers' = <<>> \/ Looks(t)'
    BY <1>5, <2>1, NothingLeft DEF Looks
  <2>. QED  BY <1>2, <2>1, <2>2, <2>3, EndingKept
<1>6. ASSUME NEW t \in Threads,
             \/ EnterIdle(t) \/ LeaveIdle(t) \/ SwapInFiber(t) \/ SwapInCb(t)
             \/ SkipEnded(t) \/ YieldToReady(t) \/ MainFuncReturn(t) \/ MainFuncThrow(t)
             \/ SwapOut(t) \/ Deactivate(t) \/ SettleEnded(t) \/ SettleHold(t)
      PROVE  Ending'
  <2>1. /\ UNCHANGED <<owner, m_autoStop, idle_fiber, m_fibers>>
        /\ \E p \in {"idling", "fetch", "exec", "swapout", "swapped", "settle"} :
             pc' = [pc EXCEPT ![t] = p]
    BY <1>6 DEF EnterIdle, LeaveIdle, SwapInFiber, SwapInCb, SkipEnded, YieldToReady,
       MainFuncReturn, MainFuncThrow, SwapOut, Deactivate, SettleEnded, SettleHold, stopVars
  <2>2. Looks(t)
    BY <1>6 DEF EnterIdle, LeaveIdle, SwapInFiber, SwapInCb, SkipEnded, YieldToReady,
       MainFuncReturn, MainFuncThrow, SwapOut, Deactivate, SettleEnded, SettleHold, Looks
  <2>. QED  BY <1>1, <1>2, <2>1, <2>2
<1>7. ASSUME NEW t \in Threads, SettleReady(t)
      PROVE  Ending'
  <2>1. Cur(t) \in Fibers
    BY <1>7, OwnApart DEF SettleReady, Carrying
  <2>2. OfFiber(Cur(t), AnyThread) \in Entry /\ OfFiber(Cur(t), AnyThread).thread = AnyThread
    BY <2>1, EntryTypes DEF OfFiber
  <2>3. QueueForAny
    BY <1>3, <1>7, <2>2 DEF SettleReady
  <2>4. Looks(t)
    BY <1>7 DEF SettleReady, Looks
  <2>. QED  BY <1>1, <1>7, <2>3, <2>4 DEF SettleReady, stopVars
<1>8. ASSUME NEW t \in Threads, NEW c \in Tasks, NEW p \in BodyPins, BodySchedule(t, c, p)
      PROVE  Ending'
  <2>1. p = AnyThread
    BY DEF SelfDriven
  <2>2. OfCb(c, p) \in Entry /\ OfCb(c, p).thread = AnyThread
    BY <2>1, EntryTypes DEF OfCb
  <2>3. QueueForAny
    BY <1>3, <1>8, <2>2 DEF BodySchedule
  <2>4. Looks(t)
    BY <1>8 DEF BodySchedule, Looks
  <2>5. Looks(t)' /\ pc'[t] \notin {"new", "exited"}
    BY <1>8 DEF BodySchedule, Looks, runVars
  <2>. QED  BY <1>8, <2>3, <2>4, <2>5, EndingKept DEF BodySchedule, runVars, stopVars
<1>9. ASSUME NEW t \in Threads,
             \/ \E n \in 1..WaitsPerHold : ArrangeWake(t, n)
             \/ \E thread \in SwitchTargets : SwitchTo(t, thread)
             \/ YieldToHold(t)
      PROVE  Ending'
  BY <1>9 DEF NeverHeld, SelfDriven, ArrangeWake, SwitchTo, YieldToHold, WorkTypes
<1>10. ASSUME NEW t \in Threads, ExitRun(t)
       PROVE  Ending'
  <2>1. /\ pc[t] = "empty" /\ idle_fiber[t] = "TERM" /\ pc'[t] = "exited"
        /\ \A u \in Threads \ {t} : pc'[u] = pc[u]
        /\ UNCHANGED <<owner, m_autoStop, idle_fiber, m_fibers>>
    BY <1>10 DEF ExitRun, RunTypes, stopVars
  <2>2. Over
    BY <2>1 DEF Over
  <2>3. \A u \in Threads : Looks(u) => Looks(u)'
    BY <2>1 DEF Looks
  <2>4. QueueEnds'
    BY <2>1, <2>2, <2>3 DEF Ending, QueueEnds
  <2>5. OwnerEnds'
    BY <2>1, CallerIsThread DEF Ending, OwnerEnds
  <2>. QED  BY <2>4, <2>5 DEF Ending
<1>11. ASSUME NEW t \in Threads, Idle(t)
       PROVE  Ending'
  <2>1. /\ pc[t] = "idling" /\ pc'[t] = "idled"
        /\ \A u \in Threads \ {t} : pc'[u] = pc[u] /\ idle_fiber'[u] = idle_fiber[u]
        /\ UNCHANGED <<owner, m_autoStop, m_fibers>>
    BY <1>11 DEF Idle, RunTypes, stopVars
  <2>2. Looks(t)' /\ \A u \in Threads \ {t} : Looks(u)' <=> Looks(u)
    BY <2>1 DEF Looks
  <2>3. OwnerEnds'
    BY <2>1, CallerIsThread DEF Ending, OwnerEnds
  <2>4. CASE stopping
    <3>1. m_fibers = <<>> /\ m_autoStop
      BY <2>4 DEF stopping
    <3>2. owner # "open"
      BY <3>1 DEF Ending, OwnerEnds
    <3>3. QueueEnds'
      BY <2>1, <2>2, <3>1, <3>2 DEF QueueEnds
    <3>. QED  BY <2>3, <3>3 DEF Ending
  <2>5. CASE ~ stopping
    <3>1. idle_fiber'[t] = "HOLD"
      BY <1>11, <2>5 DEF Idle, RunTypes
    <3>2. Over' => Over
      <4>1. UseCaller /\ pc'[Caller] = "new" => pc[Caller] = "new"
        BY <2>1, CallerIsThread
      <4>. QED  BY <2>1, <3>1, <4>1 DEF Over
    <3>3. QueueEnds'
      BY <2>1, <2>2, <3>2 DEF Ending, QueueEnds
    <3>. QED  BY <2>3, <3>3 DEF Ending
  <2>. QED  BY <2>4, <2>5
<1>12. ASSUME NEW f \in Fibers, Wake(f)
       PROVE  Ending'
  BY <1>12 DEF Wake, NeverHeld
<1>13. CASE Finished \/ UNCHANGED vars
  <2>1. UNCHANGED <<m_fibers, pc, idle_fiber, owner, m_autoStop>>
    BY <1>13 DEF Finished, vars, runVars, stopVars
  <2>. QED  BY <2>1 DEF Ending, QueueEnds, OwnerEnds, Over, Looks
<1>14. CASE Owner \/ Stop
  BY <1>14, EndingOwner
<1>. QED
  BY <1>4, <1>5, <1>6, <1>7, <1>8, <1>9, <1>10, <1>11, <1>12, <1>13, <1>14 DEF Next, Run,
     Body

\* The invariant for the refinement.
PoolInv == CarryInv /\ NeverHeld /\ ReadyKept /\ Ending

\* It holds initially.
LEMMA PoolInit == Init => PoolInv
<1>. SUFFICES ASSUME Init PROVE PoolInv
  OBVIOUS
<1>1. CarryInv
  BY CarryInit
<1>2. NeverHeld /\ ReadyKept
  BY DEF Init, NeverHeld, ReadyKept
<1>3. ~ Over
  BY DEF Init, Over
<1>4. Ending
  BY <1>3 DEF Init, Ending, QueueEnds, OwnerEnds
<1>. QED  BY <1>1, <1>2, <1>4 DEF PoolInv

\* And every step keeps it.
LEMMA PoolStep ==
  ASSUME Disciplined, SelfDriven, PoolInv, [Next]_vars
  PROVE  PoolInv'
<1>1. /\ FiberTypes /\ RunTypes /\ WorkTypes /\ StartOrder /\ Ownership /\ Carried
      /\ NeverHeld /\ ReadyKept /\ Ending
  BY DEF PoolInv, CarryInv, BaseInv, TypeOK
<1>2. CarryInv'
  BY CarryStep DEF PoolInv
<1>3. NeverHeld'
  BY <1>1, NeverHeldStep
<1>4. ReadyKept'
  BY <1>1, ReadyStep
<1>5. Ending'
  BY <1>1, EndingStep
<1>. QED  BY <1>2, <1>3, <1>4, <1>5 DEF PoolInv

\* When stop() has returned nothing happens any more.
LEMMA StoppedForGood ==
  ASSUME NeverHeld, Ending, owner = "stopped", [Next]_vars
  PROVE  UNCHANGED vars
<1>1. ~ Owner /\ ~ Stop
  BY DEF Owner, ScheduleCb, ScheduleFiber, ScheduleBatch, start, StopFlag, Stop,
     StopCallerOnly, StopProbe, StopAll, StopRoot, RootBack, Join
<1>2. ASSUME NEW t \in Threads, Run(t)
      PROVE  FALSE
  <2>1. pc[t] \in {"new", "exited"}
    BY DEF Ending, OwnerEnds
  <2>. QED
    BY <1>2, <2>1 DEF Run, Body, FetchTask, FetchNothing, EnterIdle, Idle, LeaveIdle,
       ExitRun, SwapInFiber, SwapInCb, SkipEnded, BodySchedule, YieldToReady, ArrangeWake,
       SwitchTo, YieldToHold, MainFuncReturn, MainFuncThrow, SwapOut, Deactivate,
       SettleReady, SettleEnded, SettleHold
<1>3. ASSUME NEW f \in Fibers, Wake(f)
      PROVE  FALSE
  BY <1>3 DEF Wake, NeverHeld
<1>. QED  BY <1>1, <1>2, <1>3 DEF Next, Finished

\* stop() returns by its first test or by the join.
LEMMA StopsBy ==
  ASSUME owner # "stopped", owner' = "stopped", [Next]_vars
  PROVE  (StopProbe /\ stopping) \/ Join
<1>1. ~ Owner
  BY DEF Owner, ScheduleCb, ScheduleFiber, ScheduleBatch, start, StopFlag, stopVars
<1>2. ASSUME NEW t \in Threads, Run(t)
      PROVE  FALSE
  <2>1. UNCHANGED owner
    BY <1>2 DEF Run, Body, FetchTask, FetchNothing, EnterIdle, Idle, LeaveIdle, ExitRun,
       SwapInFiber, SwapInCb, SkipEnded, BodySchedule, YieldToReady, ArrangeWake, SwitchTo,
       YieldToHold, MainFuncReturn, MainFuncThrow, SwapOut, Deactivate, SettleReady,
       SettleEnded, SettleHold, stopVars
  <2>. QED  BY <2>1
<1>3. ASSUME NEW f \in Fibers, Wake(f)
      PROVE  FALSE
  BY <1>3 DEF Wake, stopVars
<1>4. ~ Finished /\ ~ UNCHANGED vars
  BY DEF Finished, vars, stopVars
<1>5. Stop => (StopProbe /\ stopping) \/ Join
  BY DEF Stop, StopCallerOnly, StopProbe, StopAll, StopRoot, RootBack
<1>. QED  BY <1>1, <1>2, <1>3, <1>4, <1>5 DEF Next

\* Then no callback waits or runs.
LEMMA AllOver ==
  ASSUME FiberTypes, RunTypes, Ownership, Carried, NeverHeld, ReadyKept,
         m_fibers = <<>>, \A t \in Threads : pc[t] \in {"new", "exited"},
         NEW c \in Tasks
  PROVE  ~ Queued(c) /\ ~ Runs(c)
<1>0. c # NoCb
  BY TaskAssumption
<1>1. \A t \in Threads : pc[t] \notin InHand /\ pc[t] \notin Running /\ pc[t] # "dispatch"
  BY DEF InHand, OnStack, Running
<1>2. \A i \in 1..Len(m_fibers) : FALSE
  BY DEF FiberTypes
<1>3. \A t \in Threads : ft[t].fiber = NoFiber /\ ft[t].cb # c
  BY <1>0, <1>1 DEF Ownership, PlaceOf, Carried, ThreadsCarry
<1>4. ~ Queued(c)
  BY <1>2, <1>3 DEF Queued, CbWaits
<1>5. \A f \in Fibers : m_state[f] \notin Entered
  BY <1>1, <1>2 DEF Ownership, FibersOwned, NeverHeld, ReadyKept, Entered
<1>. QED  BY <1>4, <1>5 DEF Runs

\* What stop() finds when it returns to the owner of a pool that ran.
LEMMA NothingPending ==
  ASSUME PoolInv, owner # "stopped", (StopProbe /\ stopping) \/ Join,
         UseCaller \/ Started
  PROVE  \A c \in Tasks : Status(c) \in {"new", "done"}
<1>1. \A t \in Threads : pc[t] \in {"new", "exited"}
  <2>1. CASE StopProbe
    BY <2>1 DEF StopProbe, PoolInv, Ending, OwnerEnds, Threads, CarryInv, BaseInv,
       StartOrder
  <2>2. CASE Join
    BY <2>2 DEF Join, PoolInv, Ending, OwnerEnds, Threads
  <2>. QED  BY <2>1, <2>2
<1>2. m_fibers = <<>>
  <2>1. CASE StopProbe /\ stopping
    BY <2>1 DEF stopping
  <2>2. CASE Join
    <3>1. Over
      <4>1. CASE UseCaller
        BY <2>2, <4>1, CallerIsThread DEF Join, Over, PoolInv, Ending, OwnerEnds
      <4>2. CASE ~ UseCaller /\ Started
        <5>1. Threads = Workers
          BY <4>2 DEF Threads
        <5>2. PICK t \in Threads : TRUE
          BY ThreadAssumption
        <5>3. pc[t] = "exited"
          BY <1>1, <4>2, <5>1 DEF Started
        <5>. QED  BY <5>3 DEF Over, PoolInv, Ending, OwnerEnds
      <4>. QED  BY <4>1, <4>2
    <3>2. \A t \in Threads : ~ Looks(t)
      BY <1>1 DEF Looks
    <3>. QED  BY <3>1, <3>2 DEF PoolInv, Ending, QueueEnds
  <2>. QED  BY <2>1, <2>2
<1>3. /\ FiberTypes /\ RunTypes /\ Ownership /\ Carried /\ NeverHeld /\ ReadyKept
  BY DEF PoolInv, CarryInv, BaseInv, TypeOK
<1>4. \A c \in Tasks : ~ Queued(c) /\ ~ Runs(c)
  BY <1>1, <1>2, <1>3, AllOver
<1>5. StatusesExact
  BY <1>3, StatusIs
<1>. QED  BY <1>4, <1>5 DEF StatusesExact, StatusExact

\* The variables of the task pool.
Statuses == [c \in Tasks |-> Status(c)]
Stopped  == owner = "stopped" /\ (UseCaller \/ Started)

\* A step in which stop() does not return is a step of the pool or none.
LEMMA PoolMoves ==
  ASSUME StatusMoves, ~ Stopped, ~ Stopped'
  PROVE  Abs!Next \/ UNCHANGED Statuses
<1>1. \A c \in Tasks : Statuses[c] = Status(c) /\ Statuses'[c] = Status(c)'
  BY DEF Statuses
<1>2. CASE \A c \in Tasks : Status(c)' = Status(c)
  BY <1>2 DEF Statuses
<1>3. ASSUME NEW S \in SUBSET Tasks, SubmitsAll(S)
      PROVE  Abs!Next
  <2>1. \A c \in S : Statuses[c] = "new"
    BY <1>1, <1>3 DEF SubmitsAll
  <2>2. Statuses' = [c \in Tasks |-> IF c \in S THEN "queued" ELSE Statuses[c]]
    BY <1>3 DEF SubmitsAll, Statuses
  <2>3. Abs!Submit(S)
    BY <1>3, <2>1, <2>2 DEF Abs!Submit, SubmitsAll, Stopped
  <2>. QED  BY <2>3 DEF Abs!Next
<1>4. ASSUME NEW c \in Tasks, MovesOne(c, "queued", "running")
      PROVE  Abs!Next
  <2>1. Statuses[c] = "queued"
    BY <1>1, <1>4 DEF MovesOne
  <2>2. Statuses' = [Statuses EXCEPT ![c] = "running"]
    BY <1>4 DEF MovesOne, Statuses
  <2>3. Abs!Begin(c)
    BY <2>1, <2>2 DEF Abs!Begin, Statuses, Stopped
  <2>. QED  BY <2>3 DEF Abs!Next
<1>5. ASSUME NEW c \in Tasks, MovesOne(c, "running", "done")
      PROVE  Abs!Next
  <2>1. Statuses[c] = "running"
    BY <1>1, <1>5 DEF MovesOne
  <2>2. Statuses' = [Statuses EXCEPT ![c] = "done"]
    BY <1>5 DEF MovesOne, Statuses
  <2>3. Abs!End(c)
    BY <2>1, <2>2 DEF Abs!End, Statuses, Stopped
  <2>. QED  BY <2>3 DEF Abs!Next
<1>. QED  BY <1>2, <1>3, <1>4, <1>5 DEF StatusMoves

\* Nothing has been submitted to a new scheduler.
LEMMA PoolStarts == Init => Abs!Init
<1>. SUFFICES ASSUME Init PROVE Abs!Init
  OBVIOUS
<1>1. \A c \in Tasks : Status(c) = "new"
  BY PoolInit, StatusIs DEF Init, PoolInv, CarryInv, BaseInv, TypeOK, StatusesExact,
     StatusExact
<1>2. ~ Stopped
  BY DEF Init, Stopped
<1>. QED  BY <1>1, <1>2 DEF Abs!Init, Stopped

\* Every step of the scheduler is a step of the pool or none.
LEMMA PoolRefined ==
  ASSUME Disciplined, SelfDriven, PoolInv, [Next]_vars
  PROVE  [Abs!Next]_(Abs!vars)
<1>1. NeverHeld /\ Ending /\ CarryInv
  BY DEF PoolInv
<1>2. StatusMoves
  BY <1>1, CarryStep
<1>3. CASE owner = "stopped"
  <2>1. UNCHANGED <<m_fibers, m_state, m_cb, ft, pc, submitted, owner>>
    BY <1>1, <1>3, StoppedForGood DEF vars, fiberVars, runVars, stopVars, workVars
  <2>2. \A c \in Tasks : Status(c)' = Status(c)
    BY <2>1 DEF Status
  <2>3. Statuses' = Statuses
    BY <2>2 DEF Statuses
  <2>4. Stopped' = Stopped
    BY <2>1 DEF Stopped, Started
  <2>. QED  BY <2>3, <2>4 DEF Abs!vars, Statuses, Stopped
<1>4. CASE owner # "stopped" /\ owner' # "stopped"
  <2>1. ~ Stopped /\ ~ Stopped'
    BY <1>4 DEF Stopped
  <2>2. CASE UNCHANGED Statuses
    BY <2>1, <2>2 DEF Abs!vars, Statuses, Stopped
  <2>. QED  BY <1>2, <2>1, <2>2, PoolMoves
<1>5. CASE owner # "stopped" /\ owner' = "stopped"
  <2>1. (StopProbe /\ stopping) \/ Join
    BY <1>5, StopsBy
  <2>2. UNCHANGED <<m_fibers, m_state, m_cb, ft, pc, submitted>>
    BY <2>1 DEF StopProbe, Join, fiberVars, runVars, workVars
  <2>3. \A c \in Tasks : Status(c)' = Status(c)
    BY <2>2 DEF Status
  <2>4. Statuses' = Statuses
    BY <2>3 DEF Statuses
  <2>5. ~ Stopped
    BY <1>5 DEF Stopped
  <2>6. CASE UseCaller \/ Started
    <3>1. Stopped'
      BY <1>5, <2>2, <2>6 DEF Stopped, Started
    <3>2. \A c \in Tasks : Status(c) \in {"new", "done"}
      BY <1>5, <2>1, <2>6, NothingPending
    <3>3. \A c \in Tasks : Statuses[c] \in {"new", "done"}
      BY <3>2 DEF Statuses
    <3>4. Abs!StopReturns
      BY <2>4, <2>5, <3>1, <3>3 DEF Abs!StopReturns, Statuses, Stopped
    <3>. QED  BY <3>4 DEF Abs!Next
  <2>7. CASE ~ UseCaller /\ ~ Started
    <3>1. ~ Stopped'
      BY <2>2, <2>7 DEF Stopped, Started
    <3>. QED  BY <2>4, <2>5, <3>1 DEF Abs!vars, Statuses, Stopped
  <2>. QED  BY <2>6, <2>7
<1>. QED  BY <1>3, <1>4, <1>5

\* The scheduler implements the task pool (scheduler.h:13-17), for any number
\* of threads, fibers and callbacks, when no callback holds and those submitted
\* by callbacks are for any thread: each callback runs once from beginning to
\* end, and stop() of a scheduler that was started or has a caller thread
\* (scheduler.cc:97-158) returns only when every callback has ended, the ones
\* that callbacks submit during stop() included.
THEOREM ImplementsTaskPool ==
  Disciplined /\ SelfDriven => (Spec => RunsEachTaskOnce)
<1>. SUFFICES ASSUME Disciplined, SelfDriven PROVE Spec => RunsEachTaskOnce
  OBVIOUS
<1>1. PoolInv /\ [Next]_vars => PoolInv'
  BY PoolStep
<1>2. PoolInv /\ [Next]_vars => [Abs!Next]_(Abs!vars)
  BY PoolRefined
<1>. QED  BY <1>1, <1>2, PoolInit, PoolStarts, PTL DEF Spec, RunsEachTaskOnce, Abs!Spec

=============================================================================
