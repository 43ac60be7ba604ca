----------------------------- MODULE TimerProofs -----------------------------
(***************************************************************************)
(* Proofs about TimerManager, for any timers, threads, periods and bounds.   *)
(***************************************************************************)
EXTENDS TimerManager, WellFoundedInduction, TLAPS

\* Every variable keeps its type and no unsigned subtraction wraps.
THEOREM TimerTypeCorrect == Spec => []TypeOK
<1>1. Init => TypeOK
  <2> SUFFICES ASSUME Init PROVE TypeOK
    OBVIOUS
  <2>1. Start \in Nat
    BY TimerAssumption DEF Start
  <2>2. now \in Nat /\ m_previouseTime \in Nat
    BY <2>1 DEF Init
  <2>3. m_recurring \in [Timers -> BOOLEAN] /\ m_cb \in [Timers -> BOOLEAN]
    BY DEF Init
  <2> QED
    <3>1. now_ms \in [Threads -> Nat \cup {NoRead}]
      BY DEF Init
    <3>2. /\ stage \in [Timers -> {"none", "made", "shared"}]
          /\ m_next \in [Timers -> Nat] /\ m_ms \in [Timers -> Nat]
          /\ fired \in [Timers -> Nat]
          /\ \A t \in Timers : m_ms[t] <= m_next[t]
      BY DEF Init
    <3>3. /\ back \in Nat /\ lost \in Nat /\ asked \subseteq Nat /\ m_timers \subseteq Nat \X Timers
          /\ m_tickled \in BOOLEAN
      BY DEF Init
    <3> QED
      BY <2>2, <2>3, <3>1, <3>2, <3>3 DEF TypeOK
<1>2. TypeOK /\ [Next]_vars => TypeOK'
  <2> SUFFICES ASSUME TypeOK, [Next]_vars PROVE TypeOK'
    OBVIOUS
  <2> USE TimerAssumption DEF TypeOK, NoRead
  <2>1. CASE Tick
    BY <2>1 DEF Tick, timerVars
  <2>2. CASE SetBack
    BY <2>2 DEF SetBack, timerVars
  <2>3. ASSUME NEW t \in Timers, NEW ms \in Periods, NEW recurring \in BOOLEAN,
               NewTimer(t, ms, recurring)
        PROVE  TypeOK'
    BY <2>3 DEF NewTimer
  <2>4. ASSUME NEW t \in Timers, addTimer(t) PROVE TypeOK'
    BY <2>4 DEF addTimer, Insert, Key
  <2>5. ASSUME NEW t \in Timers, cancel(t) PROVE TypeOK'
    BY <2>5 DEF cancel, Key
  <2>6. ASSUME NEW t \in Timers, refresh(t) PROVE TypeOK'
    BY <2>6 DEF refresh, Key
  <2>7. ASSUME NEW t \in Timers, NEW ms \in Periods, NEW from_now \in BOOLEAN,
               reset(t, ms, from_now)
        PROVE  TypeOK'
    BY <2>7 DEF reset, Insert, Key
  <2>8. CASE getNextTimer
    BY <2>8 DEF getNextTimer, Front, timerVars
  <2>9. ASSUME NEW th \in Threads, ReadClock(th) PROVE TypeOK'
    BY <2>9 DEF ReadClock, timerVars
  <2>10. ASSUME NEW th \in Threads, listExpiredCb(th) PROVE TypeOK'
    <3> DEFINE n == now_ms[th]
    <3>1. n \in Nat /\ Taken(n) \subseteq Timers /\ PutBack(n) \subseteq Timers
      BY <2>10 DEF listExpiredCb, Expired, Taken, PutBack
    <3>2. m_next' = [t \in Timers |-> IF t \in PutBack(n) THEN n + m_ms[t] ELSE m_next[t]]
      BY <2>10 DEF listExpiredCb
    <3>3. m_next' \in [Timers -> Nat] /\ \A t \in Timers : m_ms[t] <= m_next'[t]
      BY <3>1, <3>2
    <3>4. m_timers' \subseteq Nat \X Timers
      <4>1. m_timers' = (m_timers \ Expired(n)) \cup {<<m_next'[t], t>> : t \in PutBack(n)}
        BY <2>10 DEF listExpiredCb
      <4>2. \A t \in PutBack(n) : <<m_next'[t], t>> \in Nat \X Timers
        BY <3>1, <3>3
      <4>3. m_timers \ Expired(n) \subseteq Nat \X Timers
        OBVIOUS
      <4> HIDE DEF n, TypeOK
      <4> QED
        BY <4>1, <4>2, <4>3
    <3>5. fired' \in [Timers -> Nat]
      BY <2>10 DEF listExpiredCb
    <3>6. m_cb' \in [Timers -> BOOLEAN]
      BY <2>10 DEF listExpiredCb
    <3>7. m_previouseTime' \in Nat /\ now_ms' \in [Threads -> Nat \cup {NoRead}]
      BY <2>10, <3>1 DEF listExpiredCb
    <3> QED
      BY <2>10, <3>3, <3>4, <3>5, <3>6, <3>7 DEF listExpiredCb
  <2>11. CASE UNCHANGED vars
    BY <2>11 DEF vars, timerVars
  <2> QED
    BY <2>1, <2>2, <2>3, <2>4, <2>5, <2>6, <2>7, <2>8, <2>9, <2>10, <2>11
       DEF Next
<1> QED
  BY <1>1, <1>2, PTL DEF Spec

-----------------------------------------------------------------------------
(* The set and the callbacks.                                               *)

\* What makes Registered inductive: a Timer has its callback from the start.
MadeWithCallback == \A t \in Timers : stage[t] = "made" => m_cb[t]

\* What makes the bound on firing inductive: a timer fires only after it is
\* registered, and one that is not recurring loses its callback when it fires.
Lifecycle ==
  /\ \A t \in Timers : stage[t] # "shared" => fired[t] = 0
  /\ \A t \in Timers : m_cb[t] /\ ~m_recurring[t] => fired[t] = 0
  /\ \A t \in Timers : ~m_recurring[t] => fired[t] <= 1

\* listExpiredCb takes the timer of every element, which holds its callback.
LEMMA TakenHaveCallback ==
  ASSUME TypeOK, Registered, NEW n \in Nat, NEW t \in Taken(n)
  PROVE  t \in Timers /\ stage[t] = "shared" /\ m_cb[t] /\ Key(t) \in Expired(n)
<1>1. PICK k \in Expired(n) : t = k[2]
  BY DEF Taken
<1>2. k \in m_timers /\ k \in Nat \X Timers
  BY <1>1 DEF Expired, TypeOK
<1>3. t \in Timers /\ stage[t] = "shared" /\ k = Key(t)
  BY <1>1, <1>2 DEF Registered
<1> QED
  BY <1>1, <1>2, <1>3 DEF Registered

\* Every step keeps the elements of the set in place.
LEMMA RegisteredStep ==
  ASSUME TypeOK, Registered, MadeWithCallback, Next
  PROVE  Registered' /\ MadeWithCallback'
<1> USE DEF Registered, MadeWithCallback, Key, TypeOK
<1>1. CASE Tick
  BY <1>1 DEF Tick, timerVars
<1>2. CASE SetBack
  BY <1>2 DEF SetBack, timerVars
<1>3. ASSUME NEW t \in Timers, NEW ms \in Periods, NEW recurring \in BOOLEAN,
             NewTimer(t, ms, recurring)
      PROVE  Registered' /\ MadeWithCallback'
  BY <1>3 DEF NewTimer
<1>4. ASSUME NEW t \in Timers, addTimer(t)
      PROVE  Registered' /\ MadeWithCallback'
  BY <1>4 DEF addTimer, Insert
<1>5. ASSUME NEW t \in Timers, cancel(t)
      PROVE  Registered' /\ MadeWithCallback'
  BY <1>5 DEF cancel
<1>6. ASSUME NEW t \in Timers, refresh(t)
      PROVE  Registered' /\ MadeWithCallback'
  BY <1>6 DEF refresh
<1>7. ASSUME NEW t \in Timers, NEW ms \in Periods, NEW from_now \in BOOLEAN,
             reset(t, ms, from_now)
      PROVE  Registered' /\ MadeWithCallback'
  BY <1>7 DEF reset, Insert
<1>8. CASE getNextTimer
  BY <1>8 DEF getNextTimer, timerVars
<1>9. ASSUME NEW th \in Threads, ReadClock(th)
      PROVE  Registered' /\ MadeWithCallback'
  BY <1>9 DEF ReadClock, timerVars
<1>10. ASSUME NEW th \in Threads, listExpiredCb(th)
       PROVE  Registered' /\ MadeWithCallback'
  <2> DEFINE n == now_ms[th]
  <2>1. n \in Nat
    BY <1>10 DEF listExpiredCb, NoRead
  <2>2. /\ m_timers' = (m_timers \ Expired(n)) \cup {<<m_next'[t], t>> : t \in PutBack(n)}
        /\ m_next' = [t \in Timers |-> IF t \in PutBack(n) THEN n + m_ms[t] ELSE m_next[t]]
        /\ m_cb' = [t \in Timers |-> m_cb[t] /\ t \notin Taken(n) \ PutBack(n)]
        /\ stage' = stage
    BY <1>10 DEF listExpiredCb
  <2>3. \A t \in Taken(n) : t \in Timers /\ stage[t] = "shared" /\ m_cb[t] /\ Key(t) \in Expired(n)
    BY <2>1, TakenHaveCallback
  <2>4. PutBack(n) \subseteq Taken(n)
    BY DEF PutBack
  <2>5. \A k \in m_timers : k \notin Expired(n) => k[2] \notin Taken(n)
    BY <2>3
  <2>6. \A k \in Expired(n) : k \in m_timers /\ k[2] \in Taken(n)
    BY DEF Expired, Taken
  <2> HIDE DEF n
  <2>7. ASSUME NEW k \in m_timers' PROVE stage'[k[2]] = "shared" /\ k = <<m_next'[k[2]], k[2]>>
    <3>1. CASE k \in m_timers \ Expired(n)
      BY <3>1, <2>2, <2>4, <2>5
    <3>2. CASE k \in {<<m_next'[t], t>> : t \in PutBack(n)}
      <4>1. PICK t \in PutBack(n) : k = <<m_next'[t], t>>
        BY <3>2
      <4>2. k[2] = t /\ stage'[t] = "shared"
        BY <4>1, <2>2, <2>3, <2>4
      <4> QED
        BY <4>1, <4>2
    <3> QED
      BY <3>1, <3>2, <2>2
  <2>8. ASSUME NEW t \in Timers, stage'[t] = "shared"
        PROVE  m_cb'[t] <=> <<m_next'[t], t>> \in m_timers'
    <3>1. CASE t \in PutBack(n)
      BY <3>1, <2>2, <2>3, <2>4
    <3>2. CASE t \in Taken(n) \ PutBack(n)
      <4>1. ~m_cb'[t] /\ <<m_next'[t], t>> \in Expired(n)
        BY <3>2, <2>2, <2>3
      <4>2. \A u \in PutBack(n) : <<m_next'[u], u>> # <<m_next'[t], t>>
        BY <3>2
      <4> QED
        BY <4>1, <4>2, <2>2
    <3>3. CASE t \notin Taken(n)
      <4>1. <<m_next'[t], t>> = Key(t) /\ (m_cb'[t] <=> m_cb[t]) /\ stage[t] = "shared"
        BY <3>3, <2>2, <2>4, <2>8
      <4>2. Key(t) \notin Expired(n)
        BY <3>3, <2>6
      <4>3. \A u \in PutBack(n) : <<m_next'[u], u>> # <<m_next'[t], t>>
        BY <3>3, <2>4
      <4> QED
        BY <4>1, <4>2, <4>3, <2>2
    <3> QED
      BY <3>1, <3>2, <3>3
  <2>9. MadeWithCallback'
    BY <2>2, <2>3
  <2> QED
    BY <2>7, <2>8, <2>9
<1> HIDE DEF Registered, MadeWithCallback, Key, TypeOK
<1> QED
  BY <1>1, <1>2, <1>3, <1>4, <1>5, <1>6, <1>7, <1>8, <1>9, <1>10 DEF Next

\* A step hands out no callback that is gone, and brings none back.
Final ==
  \A t \in Timers : stage[t] = "shared" /\ ~m_cb[t] =>
    ~m_cb'[t] /\ fired'[t] = fired[t]

\* Every step keeps what the timers' stages say of their callbacks.
LEMMA LifecycleStep ==
  ASSUME TypeOK, Registered, Lifecycle, Next
  PROVE  Lifecycle' /\ Final
<1> USE DEF Lifecycle, Final, TypeOK
<1> DEFINE Goal == Lifecycle' /\ Final
<1>1. CASE Tick
  BY <1>1 DEF Tick, timerVars
<1>2. CASE SetBack
  BY <1>2 DEF SetBack, timerVars
<1>3. ASSUME NEW t \in Timers, NEW ms \in Periods, NEW recurring \in BOOLEAN,
             NewTimer(t, ms, recurring)
      PROVE  Goal
  BY <1>3 DEF NewTimer
<1>4. ASSUME NEW t \in Timers, addTimer(t) PROVE Goal
  BY <1>4 DEF addTimer
<1>5. ASSUME NEW t \in Timers, cancel(t) PROVE Goal
  BY <1>5 DEF cancel
<1>6. ASSUME NEW t \in Timers, refresh(t) PROVE Goal
  BY <1>6 DEF refresh
<1>7. ASSUME NEW t \in Timers, NEW ms \in Periods, NEW from_now \in BOOLEAN,
             reset(t, ms, from_now)
      PROVE  Goal
  BY <1>7 DEF reset
<1>8. CASE getNextTimer
  BY <1>8 DEF getNextTimer, timerVars
<1>9. ASSUME NEW th \in Threads, ReadClock(th) PROVE Goal
  BY <1>9 DEF ReadClock, timerVars
<1>10. ASSUME NEW th \in Threads, listExpiredCb(th) PROVE Goal
  <2> DEFINE n == now_ms[th]
  <2>1. n \in Nat
    BY <1>10 DEF listExpiredCb, NoRead
  <2>2. /\ fired' = [t \in Timers |-> IF t \in Taken(n) THEN fired[t] + 1 ELSE fired[t]]
        /\ m_cb' = [t \in Timers |-> m_cb[t] /\ t \notin Taken(n) \ PutBack(n)]
        /\ stage' = stage /\ m_recurring' = m_recurring
    BY <1>10 DEF listExpiredCb
  <2>3. \A t \in Taken(n) : t \in Timers /\ stage[t] = "shared" /\ m_cb[t]
    BY <2>1, TakenHaveCallback
  <2>4. \A t \in Taken(n) : t \in PutBack(n) <=> m_recurring[t]
    BY DEF PutBack
  <2> HIDE DEF n
  <2>5. Final
    BY <2>2, <2>3
  <2>7. \A t \in Timers : stage'[t] # "shared" => fired'[t] = 0
    BY <2>2, <2>3
  <2>8. ASSUME NEW t \in Timers, ~m_recurring'[t]
        PROVE  fired'[t] <= 1 /\ (m_cb'[t] => fired'[t] = 0)
    <3>1. CASE t \in Taken(n)
      BY <3>1, <2>2, <2>3, <2>4, <2>8
    <3>2. CASE t \notin Taken(n)
      BY <3>2, <2>2, <2>8
    <3> QED
      BY <3>1, <3>2
  <2> QED
    BY <2>5, <2>7, <2>8
<1> HIDE DEF Lifecycle, Final, TypeOK
<1> QED
  BY <1>1, <1>2, <1>3, <1>4, <1>5, <1>6, <1>7, <1>8, <1>9, <1>10 DEF Next

\* The three together are inductive.
LEMMA TimerInvariant == Spec => [](Registered /\ MadeWithCallback /\ Lifecycle)
<1>1. Init => Registered /\ MadeWithCallback /\ Lifecycle
  BY DEF Init, Registered, MadeWithCallback, Lifecycle
<1>2. TypeOK /\ Registered /\ MadeWithCallback /\ Lifecycle /\ [Next]_vars
        => (Registered /\ MadeWithCallback /\ Lifecycle)'
  <2> SUFFICES ASSUME TypeOK, Registered, MadeWithCallback, Lifecycle, [Next]_vars
               PROVE  (Registered /\ MadeWithCallback /\ Lifecycle)'
    OBVIOUS
  <2>1. CASE Next
    BY <2>1, RegisteredStep, LifecycleStep
  <2>2. CASE UNCHANGED vars
    BY <2>2 DEF vars, timerVars, Registered, MadeWithCallback, Lifecycle, Key
  <2> QED
    BY <2>1, <2>2
<1> QED
  BY <1>1, <1>2, TimerTypeCorrect, PTL DEF Spec

\* A shared timer has its callback exactly while it is in the set, at the place
\* its m_next says, so cancel's unchecked erase always finds its element.
THEOREM RegisteredAlways == Spec => []Registered
BY TimerInvariant, PTL

\* listExpiredCb hands out a timer that is not recurring at most once.
THEOREM OneShotAtMostOnce == Spec => []OneShotFiresOnce
<1>1. Lifecycle => OneShotFiresOnce
  BY DEF Lifecycle, OneShotFiresOnce
<1> QED
  BY <1>1, TimerInvariant, PTL

\* After cancel() has returned true, or a one-shot timer has fired, the callback
\* stays gone and listExpiredCb never hands it out.
THEOREM CancelFinal == Spec => CancelIsFinal
<1>1. TypeOK /\ Registered /\ Lifecycle /\ [Next]_vars
        => [Final]_vars
  BY LifecycleStep
<1> QED
  BY <1>1, TimerInvariant, TimerTypeCorrect, PTL DEF Spec, CancelIsFinal, Final

-----------------------------------------------------------------------------
(* The clock.                                                               *)

\* What a thread has read is at most an hour old, m_previouseTime is a time
\* that has passed, and no timer is further away than its period.
Clock ==
  back = 0 =>
    /\ m_previouseTime <= now
    /\ \A th \in Threads : now_ms[th] # NoRead => /\ now_ms[th] <= now
                                                  /\ now - now_ms[th] < Slack
    /\ \A t \in Timers : m_next[t] <= now + m_ms[t]

\* Then a thread that is late at the lock is never taken for a rollover, so it
\* takes only timers whose time has come.
LEMMA NoRollover ==
  ASSUME TypeOK, Clock, back = 0, NEW th \in Threads, now_ms[th] # NoRead
  PROVE  /\ now_ms[th] \in Nat
         /\ now_ms[th] <= now
         /\ \A k \in Expired(now_ms[th]) : k \in m_timers /\ k[1] <= now_ms[th]
<1>1. now_ms[th] \in Nat /\ now_ms[th] <= now /\ now - now_ms[th] < Slack
  BY DEF TypeOK, Clock
<1>2. m_previouseTime \in Nat /\ now \in Nat /\ Slack \in Nat /\ m_previouseTime <= now
  BY TimerAssumption DEF TypeOK, Clock
<1>3. ~Rollover(now_ms[th])
  BY <1>1, <1>2 DEF Rollover
<1> QED
  BY <1>1, <1>3 DEF Expired

\* Every step keeps the relations between the clock and the times.
LEMMA ClockStep ==
  ASSUME TypeOK, Clock, Next
  PROVE  Clock'
<1> USE TimerAssumption DEF Clock, TypeOK
<1>1. CASE Tick
  BY <1>1 DEF Tick, timerVars
<1>2. CASE SetBack
  BY <1>2 DEF SetBack
<1>3. ASSUME NEW t \in Timers, NEW ms \in Periods, NEW recurring \in BOOLEAN,
             NewTimer(t, ms, recurring)
      PROVE  Clock'
  BY <1>3 DEF NewTimer
<1>4. ASSUME NEW t \in Timers, addTimer(t) PROVE Clock'
  BY <1>4 DEF addTimer
<1>5. ASSUME NEW t \in Timers, cancel(t) PROVE Clock'
  BY <1>5 DEF cancel
<1>6. ASSUME NEW t \in Timers, refresh(t) PROVE Clock'
  BY <1>6 DEF refresh
<1>7. ASSUME NEW t \in Timers, NEW ms \in Periods, NEW from_now \in BOOLEAN,
             reset(t, ms, from_now)
      PROVE  Clock'
  BY <1>7 DEF reset
<1>8. CASE getNextTimer
  BY <1>8 DEF getNextTimer, timerVars
<1>9. ASSUME NEW th \in Threads, ReadClock(th) PROVE Clock'
  BY <1>9 DEF ReadClock, timerVars
<1>10. ASSUME NEW th \in Threads, listExpiredCb(th) PROVE Clock'
  <2> DEFINE n == now_ms[th]
  <2> SUFFICES ASSUME back = 0 PROVE Clock'
    BY <1>10 DEF listExpiredCb
  <2>1. n \in Nat /\ n <= now
    <3>1. now_ms[th] # NoRead
      BY <1>10 DEF listExpiredCb
    <3> HIDE DEF Clock, TypeOK
    <3> QED
      BY <3>1, NoRollover
  <2>2. \A t \in Timers : m_next'[t] <= now' + m_ms'[t]
    <3>1. /\ m_next' = [t \in Timers |-> IF t \in PutBack(n) THEN n + m_ms[t] ELSE m_next[t]]
          /\ now' = now /\ m_ms' = m_ms
      BY <1>10 DEF listExpiredCb
    <3>2. \A t \in Timers : m_ms[t] \in Nat /\ m_next[t] <= now + m_ms[t]
      OBVIOUS
    <3>3. now \in Nat
      OBVIOUS
    <3> HIDE DEF n, Clock, TypeOK
    <3> QED
      BY <2>1, <3>1, <3>2, <3>3
  <2>3. m_previouseTime' <= now'
    BY <1>10, <2>1 DEF listExpiredCb
  <2>4. \A u \in Threads : now_ms'[u] # NoRead => /\ now_ms'[u] <= now'
                                                  /\ now' - now_ms'[u] < Slack
    BY <1>10 DEF listExpiredCb
  <2> QED
    BY <2>2, <2>3, <2>4
<1> HIDE DEF Clock, TypeOK
<1> QED
  BY <1>1, <1>2, <1>3, <1>4, <1>5, <1>6, <1>7, <1>8, <1>9, <1>10 DEF Next

\* Clock holds from the start.
LEMMA ClockInvariant == Spec => []Clock
<1>1. Init => Clock
  <2> SUFFICES ASSUME Init PROVE Clock
    OBVIOUS
  <2>1. now \in Nat
    BY TimerAssumption DEF Init, Start
  <2> QED
    BY <2>1 DEF Init, Clock
<1>2. TypeOK /\ Clock /\ [Next]_vars => Clock'
  <2> SUFFICES ASSUME TypeOK, Clock, [Next]_vars PROVE Clock'
    OBVIOUS
  <2>1. CASE Next
    BY <2>1, ClockStep
  <2>2. CASE UNCHANGED vars
    BY <2>2 DEF vars, timerVars, Clock
  <2> QED
    BY <2>1, <2>2
<1> QED
  BY <1>1, <1>2, TimerTypeCorrect, PTL DEF Spec

\* What the threads have read, whatever the clock does.  No reading and no
\* m_previouseTime is further ahead of the clock than it was set back, and as
\* long as that is at most an hour no two of them are more than an hour apart.
Readings ==
  /\ m_previouseTime <= now + lost
  /\ \A th \in Threads : now_ms[th] # NoRead =>
       /\ now_ms[th] <= now + lost
       /\ now - now_ms[th] < Slack
       /\ lost <= Slack =>
            /\ m_previouseTime - now_ms[th] <= Slack
            /\ \A u \in Threads : now_ms[u] # NoRead => now_ms[u] - now_ms[th] <= Slack

\* Every step keeps the relations between the clock and the readings.
LEMMA ReadingsStep ==
  ASSUME TypeOK, Readings, Next
  PROVE  Readings'
<1> USE TimerAssumption DEF Readings, TypeOK
<1>1. CASE Tick
  BY <1>1 DEF Tick
<1>2. CASE SetBack
  <2>1. PICK d \in Jumps : now' = now - d /\ lost' = lost + d
    BY <1>2 DEF SetBack
  <2>2. d \in Nat /\ now' + lost' = now + lost /\ now' \in Int
    BY <2>1
  <2> QED
    BY <1>2, <2>1, <2>2 DEF SetBack
<1>3. ASSUME NEW th \in Threads, ReadClock(th) PROVE Readings'
  BY <1>3 DEF ReadClock, NoRead
<1>4. ASSUME NEW th \in Threads, listExpiredCb(th) PROVE Readings'
  <2>1. /\ now_ms[th] # NoRead
        /\ now_ms' = [now_ms EXCEPT ![th] = NoRead]
        /\ m_previouseTime' = m_previouseTime \/ m_previouseTime' = now_ms[th]
        /\ UNCHANGED <<now, lost>>
    BY <1>4 DEF listExpiredCb
  <2> QED
    BY <2>1 DEF NoRead
<1>5. \/ UNCHANGED <<now, lost, now_ms, m_previouseTime>>
      \/ Tick \/ SetBack
      \/ \E th \in Threads : ReadClock(th) \/ listExpiredCb(th)
  BY DEF Next, NewTimer, addTimer, cancel, refresh, reset, getNextTimer
<1> QED
  BY <1>1, <1>2, <1>3, <1>4, <1>5

\* Readings holds from the start.
LEMMA ReadingsInvariant == Spec => []Readings
<1>1. Init => Readings
  <2> SUFFICES ASSUME Init PROVE Readings
    OBVIOUS
  <2>1. now \in Nat
    BY TimerAssumption DEF Init, Start
  <2> QED
    BY <2>1 DEF Init, Readings
<1>2. TypeOK /\ Readings /\ [Next]_vars => Readings'
  <2> SUFFICES ASSUME TypeOK, Readings, [Next]_vars PROVE Readings'
    OBVIOUS
  <2>1. CASE Next
    BY <2>1, ReadingsStep
  <2>2. CASE UNCHANGED vars
    BY <2>2 DEF vars, Readings
  <2> QED
    BY <2>1, <2>2
<1> QED
  BY <1>1, <1>2, TimerTypeCorrect, PTL DEF Spec

\* listExpiredCb hands out no callback earlier than the clock was set back,
\* whichever thread is late with the clock it read, as long as that is at most
\* an hour in all; while the clock only advances none is early.
THEOREM NeverEarlyAlways == Spec => NeverEarly
<1> DEFINE OnTime == \A t \in Timers : fired'[t] > fired[t] =>
                       m_next[t] <= now + lost \/ lost > Slack
<1>1. TypeOK /\ Registered /\ Readings /\ [Next]_vars => [OnTime]_vars
  <2> SUFFICES ASSUME TypeOK, Registered, Readings, Next PROVE OnTime
    OBVIOUS
  <2> USE TimerAssumption
  <2>1. CASE fired' = fired \/ lost > Slack
    BY <2>1 DEF TypeOK
  <2>2. ASSUME lost <= Slack, NEW th \in Threads, listExpiredCb(th) PROVE OnTime
    <3> DEFINE n == now_ms[th]
    <3>1. n \in Nat /\ n <= now + lost /\ m_previouseTime - n <= Slack
      BY <2>2 DEF listExpiredCb, TypeOK, Readings, NoRead
    <3>2. ~Rollover(n)
      BY <3>1 DEF Rollover, TypeOK
    <3>3. fired' = [t \in Timers |-> IF t \in Taken(n) THEN fired[t] + 1 ELSE fired[t]]
      BY <2>2 DEF listExpiredCb
    <3>4. \A t \in Taken(n) : t \in Timers /\ Key(t) \in Expired(n)
      BY <3>1, TakenHaveCallback
    <3> HIDE DEF n
    <3>5. \A t \in Taken(n) : m_next[t] <= now + lost
      <4> SUFFICES ASSUME NEW t \in Taken(n) PROVE m_next[t] <= now + lost
        OBVIOUS
      <4>1. m_next[t] <= n
        BY <3>2, <3>4 DEF Key, Expired
      <4>2. m_next[t] \in Nat /\ now \in Nat /\ lost \in Nat
        BY <3>4 DEF TypeOK
      <4>3. n \in Nat /\ n <= now + lost
        BY <3>1
      <4> QED
        BY <4>1, <4>2, <4>3
    <3> QED
      BY <3>3, <3>5 DEF TypeOK
  <2>3. fired' = fired \/ \E th \in Threads : listExpiredCb(th)
    BY DEF Next, Tick, SetBack, NewTimer, addTimer, cancel, refresh, reset,
           getNextTimer, ReadClock
  <2>4. lost > Slack \/ lost <= Slack
    BY DEF TypeOK
  <2> QED
    BY <2>1, <2>2, <2>3, <2>4
<1> QED
  BY <1>1, TimerTypeCorrect, TimerInvariant, ReadingsInvariant, PTL DEF Spec, NeverEarly

\* A nonempty set has a first element.
LEMMA FrontExists ==
  ASSUME NEW S, S \subseteq Nat \X Timers, S # {}
  PROVE  Front(S) # {}
<1> DEFINE T == {k[1] : k \in S}
<1>1. T \subseteq Nat /\ T # {}
  OBVIOUS
<1>2. PICK x \in T : \A y \in T : ~(<<y, x>> \in OpToRel(<, Nat))
  BY <1>1, NatLessThanWellFounded, WFMin
<1>3. \A y \in T : ~(y < x)
  BY <1>1, <1>2 DEF OpToRel
<1>4. \A k \in S : x <= k[1]
  BY <1>1, <1>3
<1> QED
  BY <1>4 DEF Front

\* Insert keeps FrontAnnounced: an element that is not announced because it is
\* not the first has an earlier one before it, which was.
LEMMA InsertAnnounces ==
  ASSUME NEW S, NEW key \in Nat \X Timers, S \subseteq m_timers, TypeOK,
         FrontAnnounced, Insert(S, key), asked' = asked, back' = back
  PROVE  FrontAnnounced'
<1> SUFFICES ASSUME back = 0, NEW k \in m_timers', \A n \in asked : k[1] < n
             PROVE  m_tickled'
  BY DEF FrontAnnounced
<1>1. CASE k \in S
  BY <1>1 DEF FrontAnnounced, Insert
<1>2. CASE k = key /\ \A l \in S : Before(key, l)
  BY <1>2 DEF Insert
<1>3. ASSUME k = key, NEW l \in S, ~Before(key, l) PROVE m_tickled'
  <2>1. l[1] \in Nat /\ key[1] \in Nat /\ l[1] <= key[1]
    BY <1>3 DEF Before, TypeOK
  <2>2. \A n \in asked : l[1] < n
    BY <2>1, <1>3 DEF TypeOK
  <2> QED
    BY <2>2, <1>3 DEF FrontAnnounced, Insert
<1> QED
  BY <1>1, <1>2, <1>3 DEF Insert

\* A clock that has been set back stays marked so.
LEMMA BackGrows ==
  ASSUME TypeOK, Next
  PROVE  back' = 0 => back = 0
<1>1. back' = back \/ back' = back + 1
  BY DEF Next, Tick, SetBack, NewTimer, addTimer, cancel, refresh, reset,
         getNextTimer, ReadClock, listExpiredCb
<1> QED
  BY <1>1 DEF TypeOK

\* Every step keeps FrontAnnounced: a time in the set only moves back through
\* Insert, which announces it.
LEMMA FrontStep ==
  ASSUME TypeOK, Registered, Clock, FrontAnnounced, Next, TypeOK'
  PROVE  FrontAnnounced'
<1> SUFFICES ASSUME back = 0, back' = 0 PROVE FrontAnnounced'
  BY BackGrows DEF FrontAnnounced
<1>1. CASE UNCHANGED <<m_timers, m_tickled, asked>>
  BY <1>1 DEF FrontAnnounced
<1>2. ASSUME NEW t \in Timers, addTimer(t) PROVE FrontAnnounced'
  BY <1>2, InsertAnnounces DEF addTimer, Key, TypeOK
<1>3. ASSUME NEW t \in Timers, cancel(t) PROVE FrontAnnounced'
  BY <1>3 DEF cancel, FrontAnnounced
<1>4. ASSUME NEW t \in Timers, refresh(t) PROVE FrontAnnounced'
  <2>1. /\ m_next'[t] = now + m_ms[t] /\ Key(t) \in m_timers
        /\ m_timers' \subseteq m_timers \cup {<<m_next'[t], t>>}
        /\ UNCHANGED <<m_tickled, asked>>
    BY <1>4 DEF refresh, TypeOK
  <2>2. Key(t)[1] <= m_next'[t] /\ Key(t)[1] \in Nat /\ m_next'[t] \in Nat
    BY <2>1 DEF Clock, Key, TypeOK
  <2>3. ASSUME \A n \in asked : m_next'[t] < n PROVE m_tickled
    <3>1. \A n \in asked : Key(t)[1] < n
      BY <2>2, <2>3 DEF TypeOK
    <3> QED
      BY <3>1, <2>1 DEF FrontAnnounced
  <2> QED
    BY <2>1, <2>3 DEF FrontAnnounced
<1>5. ASSUME NEW t \in Timers, NEW ms \in Periods, NEW from_now \in BOOLEAN,
             reset(t, ms, from_now)
      PROVE  FrontAnnounced'
  <2>1. <<m_next'[t], t>> \in Nat \X Timers
    BY DEF TypeOK
  <2>2. Insert(m_timers \ {Key(t)}, <<m_next'[t], t>>) /\ asked' = asked
    BY <1>5 DEF reset
  <2> QED
    BY <2>1, <2>2, InsertAnnounces
<1>6. CASE getNextTimer
  <2>1. m_timers' = m_timers /\ asked' = Front(m_timers)
    BY <1>6 DEF getNextTimer
  <2> SUFFICES ASSUME NEW k \in m_timers', \A n \in asked' : k[1] < n
               PROVE  FALSE
    BY DEF FrontAnnounced
  <2>2. Front(m_timers) # {}
    BY <2>1, FrontExists DEF TypeOK
  <2>3. \A n \in Front(m_timers) : n \in Nat /\ n <= k[1] /\ k[1] \in Nat
    BY <2>1 DEF Front, TypeOK
  <2> QED
    BY <2>1, <2>2, <2>3
<1>7. ASSUME NEW th \in Threads, listExpiredCb(th) PROVE FrontAnnounced'
  <2> DEFINE n == now_ms[th]
  <2>1. /\ n \in Nat
        /\ \A k \in Expired(n) : k \in m_timers /\ k[1] <= n
    BY <1>7, NoRollover DEF listExpiredCb
  <2>2. /\ m_timers' = (m_timers \ Expired(n)) \cup {<<m_next'[t], t>> : t \in PutBack(n)}
        /\ m_next' = [t \in Timers |-> IF t \in PutBack(n) THEN n + m_ms[t] ELSE m_next[t]]
        /\ UNCHANGED <<m_tickled, asked>>
    BY <1>7 DEF listExpiredCb
  <2>3. \A t \in PutBack(n) : t \in Timers /\ Key(t) \in Expired(n)
    BY <2>1, TakenHaveCallback DEF PutBack
  <2> HIDE DEF n
  <2> SUFFICES ASSUME NEW k \in m_timers', \A a \in asked : k[1] < a PROVE m_tickled
    BY <2>2 DEF FrontAnnounced
  <2>4. CASE k \in m_timers
    BY <2>4 DEF FrontAnnounced
  <2>5. ASSUME NEW t \in PutBack(n), k = <<m_next'[t], t>> PROVE m_tickled
    <3>1. k[1] = n + m_ms[t] /\ Key(t) \in m_timers /\ Key(t)[1] <= n
      BY <2>1, <2>2, <2>3, <2>5
    <3>2. Key(t)[1] \in Nat /\ m_ms[t] \in Nat
      BY <2>3 DEF Key, TypeOK
    <3>3. Key(t)[1] <= k[1] /\ k[1] \in Nat
      BY <2>1, <3>1, <3>2
    <3>4. \A a \in asked : Key(t)[1] < a
      BY <3>2, <3>3 DEF TypeOK
    <3> QED
      BY <3>1, <3>4 DEF FrontAnnounced
  <2> QED
    BY <2>2, <2>4, <2>5
<1>8. \/ UNCHANGED <<m_timers, m_tickled, asked>>
      \/ \E t \in Timers : \/ addTimer(t) \/ cancel(t) \/ refresh(t)
                           \/ \E ms \in Periods, from_now \in BOOLEAN : reset(t, ms, from_now)
      \/ getNextTimer
      \/ \E th \in Threads : listExpiredCb(th)
  BY DEF Next, Tick, SetBack, NewTimer, ReadClock
<1> QED
  BY <1>1, <1>2, <1>3, <1>4, <1>5, <1>6, <1>7, <1>8

\* As long as the clock only advances, a timer due before the time a waiting
\* thread was told has been announced through onTimerInsertedAtFront.
THEOREM FrontAnnouncedAlways == Spec => []FrontAnnounced
<1>1. Init => FrontAnnounced
  BY DEF Init, FrontAnnounced
<1>2. TypeOK /\ TypeOK' /\ Registered /\ Clock /\ FrontAnnounced /\ [Next]_vars
        => FrontAnnounced'
  <2> SUFFICES ASSUME TypeOK, TypeOK', Registered, Clock, FrontAnnounced, [Next]_vars
               PROVE  FrontAnnounced'
    OBVIOUS
  <2>1. CASE Next
    BY <2>1, FrontStep
  <2>2. CASE UNCHANGED vars
    BY <2>2 DEF vars, FrontAnnounced
  <2> QED
    BY <2>1, <2>2
<1> QED
  BY <1>1, <1>2, TimerTypeCorrect, TimerInvariant, ClockInvariant, PTL DEF Spec

=============================================================================
