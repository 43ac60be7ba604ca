----------------------------- MODULE TimerManager -----------------------------
(***************************************************************************)
(* Timers (webserve/timer.{h,cc}).                                          *)
(*                                                                         *)
(* m_timers is a std::set ordered by the pair (m_next, address).  An element *)
(* is found again only through the m_next it was inserted with, so the set  *)
(* is modelled by the pairs themselves: a pair whose first part is no longer *)
(* the timer's m_next is an element that find() misses.                     *)
(*                                                                         *)
(* Every method is one critical section of m_mutex, except that             *)
(* listExpiredCb and the constructor of Timer read the clock before they    *)
(* take the lock.                                                           *)
(***************************************************************************)
EXTENDS Integers, FiniteSets

CONSTANTS
  Timers,     \* the Timer objects, as addresses
  Threads,    \* the threads that call listExpiredCb
  Periods,    \* the values of ms
  Slack,      \* one hour, in detectClockRollover
  Jumps,      \* by how much the clock is set back
  MaxTime,    \* bound on how far the clock advances
  MaxBack,    \* bound on the number of times the clock is set back
  MaxFired    \* bound on how often a timer is handed out

ASSUME TimerAssumption ==
  /\ Timers \subseteq Nat
  /\ Periods \subseteq Nat
  /\ Slack \in Nat \ {0}
  /\ Jumps \subseteq Nat
  /\ MaxTime \in Nat
  /\ MaxBack \in Nat
  /\ MaxFired \in Nat

\* The clock is always more than an hour past zero, so that m_previouseTime
\* minus an hour does not wrap; it starts where it can be set back by more.
Start == 2 * Slack + 1

NoRead == -1                   \* the thread is not in listExpiredCb

VARIABLES
  now,              \* sylar::GetCurrentMS()
  back,             \* how often the clock was set back
  lost,             \* by how much, in all
  stage,            \* of each Timer: "none", "made", "shared" with its user
  m_next, m_ms, m_recurring,
  m_cb,             \* whether Timer::m_cb is set
  m_timers,         \* the pairs <<m_next, timer>> of the set
  m_tickled,
  m_previouseTime,
  now_ms,           \* the clock as listExpiredCb of each thread has read it
  asked,            \* what the last getNextTimer saw, a Front
  fired             \* how often listExpiredCb has handed out the callback

timerVars == <<stage, m_next, m_ms, m_recurring, m_cb>>
vars == <<now, back, lost, timerVars, m_timers, m_tickled, m_previouseTime,
          now_ms, asked, fired>>

Key(t) == <<m_next[t], t>>

\* Timer::Comparator
Before(k, l) == k[1] < l[1] \/ (k[1] = l[1] /\ k[2] < l[2])

\* The time of the first element, what getNextTimer works out a timeout from;
\* none of an empty set, where it answers ~0ull.
Front(S) == {n \in {k[1] : k \in S} : \A k \in S : n <= k[1]}

Init ==
  /\ now = Start
  /\ back = 0
  /\ lost = 0
  /\ stage = [t \in Timers |-> "none"]
  /\ m_next = [t \in Timers |-> 0]
  /\ m_ms = [t \in Timers |-> 0]
  /\ m_recurring = [t \in Timers |-> FALSE]
  /\ m_cb = [t \in Timers |-> FALSE]
  /\ m_timers = {}
  /\ m_tickled = FALSE
  /\ m_previouseTime = now
  /\ now_ms = [th \in Threads |-> NoRead]
  /\ asked = {}
  /\ fired = [t \in Timers |-> 0]

-----------------------------------------------------------------------------
(* The clock.  No thread spends an hour between reading it and the lock.    *)

Tick ==
  /\ now < Start + MaxTime
  /\ \A th \in Threads : now_ms[th] # NoRead => now + 1 - now_ms[th] < Slack
  /\ now' = now + 1
  /\ UNCHANGED <<back, lost, timerVars, m_timers, m_tickled, m_previouseTime,
                 now_ms, asked, fired>>

SetBack ==
  /\ back < MaxBack
  /\ back' = back + 1
  /\ \E d \in Jumps : Slack <= now - d /\ now' = now - d /\ lost' = lost + d
  /\ UNCHANGED <<timerVars, m_timers, m_tickled, m_previouseTime, now_ms, asked,
                 fired>>

-----------------------------------------------------------------------------
(* Timer and TimerManager.                                                  *)

\* new Timer(ms, cb, recurring, this), before addTimer takes the lock.
NewTimer(t, ms, recurring) ==
  /\ stage[t] = "none"
  /\ stage' = [stage EXCEPT ![t] = "made"]
  /\ m_next' = [m_next EXCEPT ![t] = now + ms]
  /\ m_ms' = [m_ms EXCEPT ![t] = ms]
  /\ m_recurring' = [m_recurring EXCEPT ![t] = recurring]
  /\ m_cb' = [m_cb EXCEPT ![t] = TRUE]
  /\ UNCHANGED <<now, back, lost, m_timers, m_tickled, m_previouseTime, now_ms,
                 asked, fired>>

\* Mutant: m_tickled is tested but never set.
InsertUnmarked(S, key) ==
  /\ m_timers' = S \cup {key}
  /\ UNCHANGED m_tickled

\* addTimer(val, lock): insert, and mark that a new first timer is announced
\* through onTimerInsertedAtFront (once until the next getNextTimer).
Insert(S, key) ==
  /\ m_timers' = S \cup {key}
  /\ m_tickled' = (m_tickled \/ \A k \in S : Before(key, k))

\* addTimer(ms, cb, recurring), the locked part.
addTimer(t) ==
  /\ stage[t] = "made"
  /\ stage' = [stage EXCEPT ![t] = "shared"]
  /\ Insert(m_timers, Key(t))
  /\ UNCHANGED <<now, back, lost, m_next, m_ms, m_recurring, m_cb,
                 m_previouseTime, now_ms, asked, fired>>

\* Mutant: the cancelled timer stays in the set.
cancelForgetsErase(t) ==
  /\ stage[t] = "shared"
  /\ m_cb[t]
  /\ m_cb' = [m_cb EXCEPT ![t] = FALSE]
  /\ UNCHANGED <<now, back, lost, stage, m_next, m_ms, m_recurring, m_timers,
                 m_tickled, m_previouseTime, now_ms, asked, fired>>

\* Timer::cancel()
cancel(t) ==
  /\ stage[t] = "shared"
  /\ m_cb[t]
  /\ m_cb' = [m_cb EXCEPT ![t] = FALSE]
  /\ m_timers' = m_timers \ {Key(t)}
  /\ UNCHANGED <<now, back, lost, stage, m_next, m_ms, m_recurring, m_tickled,
                 m_previouseTime, now_ms, asked, fired>>

\* Mutant: m_next is changed while the timer is in the set.
refreshInPlace(t) ==
  /\ stage[t] = "shared"
  /\ m_cb[t]
  /\ Key(t) \in m_timers
  /\ m_next' = [m_next EXCEPT ![t] = now + m_ms[t]]
  /\ m_timers' = (m_timers \ {<<m_next'[t], t>>}) \cup {<<m_next'[t], t>>}
  /\ UNCHANGED <<now, back, lost, stage, m_ms, m_recurring, m_cb, m_tickled,
                 m_previouseTime, now_ms, asked, fired>>

\* Timer::refresh(), which does not announce anything.
refresh(t) ==
  /\ stage[t] = "shared"
  /\ m_cb[t]
  /\ Key(t) \in m_timers
  /\ m_next' = [m_next EXCEPT ![t] = now + m_ms[t]]
  /\ m_timers' = (m_timers \ {Key(t)}) \cup {<<m_next'[t], t>>}
  /\ UNCHANGED <<now, back, lost, stage, m_ms, m_recurring, m_cb, m_tickled,
                 m_previouseTime, now_ms, asked, fired>>

\* Mutant: the new period is not added to the start.
resetForgetsPeriod(t, ms, from_now) ==
  /\ stage[t] = "shared"
  /\ m_cb[t]
  /\ Key(t) \in m_timers
  /\ m_ms' = [m_ms EXCEPT ![t] = ms]
  /\ m_next' = [m_next EXCEPT ![t] = IF from_now THEN now ELSE m_next[t] - m_ms[t]]
  /\ Insert(m_timers \ {Key(t)}, <<m_next'[t], t>>)
  /\ UNCHANGED <<now, back, lost, stage, m_recurring, m_cb, m_previouseTime,
                 now_ms, asked, fired>>

\* Timer::reset(ms, from_now), past the comparison with m_ms that it makes
\* without the lock: another reset may have set m_ms = ms in between.
reset(t, ms, from_now) ==
  /\ stage[t] = "shared"
  /\ m_cb[t]
  /\ Key(t) \in m_timers
  /\ m_ms' = [m_ms EXCEPT ![t] = ms]
  /\ m_next' = [m_next EXCEPT ![t] =
                  (IF from_now THEN now ELSE m_next[t] - m_ms[t]) + ms]
  /\ Insert(m_timers \ {Key(t)}, <<m_next'[t], t>>)
  /\ UNCHANGED <<now, back, lost, stage, m_recurring, m_cb, m_previouseTime,
                 now_ms, asked, fired>>

\* getNextTimer()
getNextTimer ==
  /\ m_tickled' = FALSE
  /\ asked' = Front(m_timers)
  /\ UNCHANGED <<now, back, lost, timerVars, m_timers, m_previouseTime, now_ms,
                 fired>>

\* listExpiredCb(), its first line.
ReadClock(th) ==
  /\ now_ms[th] = NoRead
  /\ now_ms' = [now_ms EXCEPT ![th] = now]
  /\ UNCHANGED <<now, back, lost, timerVars, m_timers, m_tickled,
                 m_previouseTime, asked, fired>>

\* Mutant: an earlier clock is a rollover, however little earlier.
RolloverAlways(n) == n < m_previouseTime

\* detectClockRollover(now_ms)
Rollover(n) == n < m_previouseTime /\ n < m_previouseTime - Slack

\* The elements listExpiredCb takes: all of them after a rollover, otherwise
\* those up to lower_bound and past the ones equal to n.
Expired(n) == {k \in m_timers : Rollover(n) \/ k[1] <= n}

\* Their timers, and those of them that are put back.
Taken(n) == {k[2] : k \in Expired(n)}
PutBack(n) == {t \in Taken(n) : m_recurring[t]}

\* Mutant: every expired timer is put back.
listExpiredCbRearms(th) ==
  LET n == now_ms[th] IN
  /\ n # NoRead
  /\ \A t \in Taken(n) : fired[t] < MaxFired
  /\ now_ms' = [now_ms EXCEPT ![th] = NoRead]
  /\ m_previouseTime' = IF m_timers = {} THEN m_previouseTime ELSE n
  /\ fired' = [t \in Timers |-> IF t \in Taken(n) THEN fired[t] + 1 ELSE fired[t]]
  /\ m_next' = [t \in Timers |-> IF t \in Taken(n)
                                 THEN n + m_ms[t] ELSE m_next[t]]
  /\ m_timers' = (m_timers \ Expired(n)) \cup {<<m_next'[t], t>> : t \in Taken(n)}
  /\ UNCHANGED <<now, back, lost, stage, m_ms, m_recurring, m_cb, m_tickled,
                 asked>>

\* listExpiredCb(), the locked part: the expired timers leave the set, their
\* callbacks are handed out, and the recurring ones are put back.
listExpiredCb(th) ==
  LET n == now_ms[th] IN
  /\ n # NoRead
  /\ \A t \in Taken(n) : fired[t] < MaxFired
  /\ now_ms' = [now_ms EXCEPT ![th] = NoRead]
  /\ m_previouseTime' = IF m_timers = {} THEN m_previouseTime ELSE n
  /\ fired' = [t \in Timers |-> IF t \in Taken(n) THEN fired[t] + 1 ELSE fired[t]]
  /\ m_next' = [t \in Timers |-> IF t \in PutBack(n)
                                 THEN n + m_ms[t] ELSE m_next[t]]
  /\ m_cb' = [t \in Timers |-> m_cb[t] /\ t \notin Taken(n) \ PutBack(n)]
  /\ m_timers' = (m_timers \ Expired(n)) \cup {<<m_next'[t], t>> : t \in PutBack(n)}
  /\ UNCHANGED <<now, back, lost, stage, m_ms, m_recurring, m_tickled, asked>>

Next ==
  \/ Tick
  \/ SetBack
  \/ \E t \in Timers :
       \/ \E ms \in Periods, recurring \in BOOLEAN : NewTimer(t, ms, recurring)
       \/ addTimer(t)
       \/ cancel(t)
       \/ refresh(t)
       \/ \E ms \in Periods, from_now \in BOOLEAN : reset(t, ms, from_now)
  \/ getNextTimer
  \/ \E th \in Threads : ReadClock(th) \/ listExpiredCb(th)

Spec == Init /\ [][Next]_vars

-----------------------------------------------------------------------------
(* Properties.                                                              *)

\* Types, and that the unsigned m_next - m_ms of Timer::reset does not wrap.
TypeOK ==
  /\ now \in Nat /\ back \in Nat /\ lost \in Nat
  /\ asked \subseteq Nat /\ m_previouseTime \in Nat
  /\ stage \in [Timers -> {"none", "made", "shared"}]
  /\ m_next \in [Timers -> Nat]
  /\ m_ms \in [Timers -> Nat]
  /\ m_recurring \in [Timers -> BOOLEAN]
  /\ m_cb \in [Timers -> BOOLEAN]
  /\ m_timers \subseteq Nat \X Timers
  /\ m_tickled \in BOOLEAN
  /\ now_ms \in [Threads -> Nat \cup {NoRead}]
  /\ fired \in [Timers -> Nat]
  /\ \A t \in Timers : m_ms[t] <= m_next[t]

\* A timer whose user holds it has its callback exactly while it is in the set,
\* at the place its m_next says.  Timer::cancel relies on it: it erases what
\* find() returns without comparing it with end().
Registered ==
  /\ \A k \in m_timers : stage[k[2]] = "shared" /\ k = Key(k[2])
  /\ \A t \in Timers : stage[t] = "shared" => (m_cb[t] <=> Key(t) \in m_timers)

\* Once cancel() has returned true, or a timer that is not recurring has fired,
\* the callback is gone: nothing brings it back and listExpiredCb never hands it
\* out again, whatever refresh, reset and rollover do.
CancelIsFinal ==
  [][\A t \in Timers : stage[t] = "shared" /\ ~m_cb[t] =>
       ~m_cb'[t] /\ fired'[t] = fired[t]]_vars

\* A timer that is not recurring is handed out at most once.
OneShotFiresOnce ==
  \A t \in Timers : ~m_recurring[t] => fired[t] <= 1

\* listExpiredCb hands out a callback early at most by what the clock was set
\* back in all, although each thread uses the clock it read before it waited
\* for the lock: not at all while the clock only advances, and only more than
\* an hour in all lets detectClockRollover fire everything.
NeverEarly ==
  [][\A t \in Timers : fired'[t] > fired[t] =>
       m_next[t] <= now + lost \/ lost > Slack]_vars

\* A timer that is due before the time the last getNextTimer answered was
\* announced: m_tickled is set, so onTimerInsertedAtFront has been called since
\* and the thread that waits will ask again.  (After the clock is set back,
\* refresh can move a timer to the front, and it announces nothing.)
FrontAnnounced ==
  back = 0 => \A k \in m_timers : (\A n \in asked : k[1] < n) => m_tickled

=============================================================================
