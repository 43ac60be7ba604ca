----------------------------- MODULE HookProofs -----------------------------
(***************************************************************************)
(* Proofs about Hook, for any fibers, any number of threads and however      *)
(* often the descriptor number is given out: which fiber a registration is   *)
(* for (Owners), what one thread adds to it (Alone) and, from both, that no  *)
(* fiber is stranded and why addEvent's assertion can fail.                   *)
(***************************************************************************)
EXTENDS Hook, FiniteSetTheorems, TLAPS

PC == {"out", "get", "try", "arm", "add", "yield", "held", "woken", "del", "close"}

HookTypeOK ==
    /\ threads \in 1..MaxThreads
    /\ file \in Nat /\ opened \in Nat /\ closes \in Nat
    /\ ready \subseteq Event /\ interest \subseteq Event
    /\ m_datas \in [has : BOOLEAN, to : BOOLEAN]
    /\ reg \in [Event -> Fibers \cup {Nobody}]
    /\ pc \in [Fibers -> PC]
    /\ call \in [Fibers -> Calls]
    /\ on \in [Fibers -> Nat]
    /\ to \in [Fibers -> BOOLEAN]
    /\ timer \in [Fibers -> BOOLEAN]
    /\ due \in [Fibers -> BOOLEAN]
    /\ cancelled \in [Fibers -> BOOLEAN]
    /\ scheduled \in [Fibers -> BOOLEAN]
    /\ late \subseteq Fibers \X Event
    /\ aborted \in BOOLEAN

\* A registration is that of a fiber in a wait for this event, on its way to the
\* yield or past it, that is not in the list; a fiber in the list is in a wait.
Owners ==
    /\ \A e \in Event : reg[e] # Nobody =>
          pc[reg[e]] \in {"yield", "held"} /\ ev(reg[e]) = e /\ ~scheduled[reg[e]]
    /\ \A f \in Fibers : scheduled[f] => pc[f] \in {"yield", "held"}

\* Two fibers in calls on the same file wait for different events.
Apart ==
    \A f, g \in Fibers :
        f # g /\ InCall(f) /\ InCall(g) /\ on[f] = on[g] => ev(f) # ev(g)

\* Where nothing can come between a call and close.
Quiet == threads = 1 \/ closes = 0

\* With one thread at most one fiber or callback is between two of its steps,
\* and what it has found out on the way still holds.
Alone ==
    threads = 1 =>
        /\ \A f, g \in Running : f = g
        /\ \A x, y \in late : x = y
        /\ Running = {} \/ late = {}
        /\ \A f \in Fibers :
              /\ pc[f] \in {"get", "arm", "add", "del", "close"} => file # 0
              /\ pc[f] \in {"del", "close"} => Registered = {}
        /\ file = 0 => Registered = {}
        /\ file # 0 /\ ~m_datas.has => \E f \in Fibers : pc[f] \in {"get", "close"}

\* Before the first close every call is on the only file there has been.
Unclosed ==
    closes = 0 => /\ file = opened
                  /\ \A f \in Fibers : pc[f] # "out" => file # 0

\* epoll is asked for what is registered, and who waits is in the list or registered.
Waits ==
    Quiet => /\ interest = Registered
             /\ \A f \in Fibers : pc[f] \in {"yield", "held"} => scheduled[f] \/ reg[ev(f)] = f

HookInv == HookTypeOK /\ Owners /\ Apart /\ Alone /\ Unclosed /\ Waits /\ AbortsOnlyAfterReuse

-----------------------------------------------------------------------------
\* The event of a call.
LEMMA CallEvent ==
    ASSUME HookTypeOK
    PROVE  \A f \in Fibers : ev(f) \in Event
<1> SUFFICES ASSUME NEW f \in Fibers PROVE call[f][2] \in Event
  BY DEF ev
<1>1. call[f] \in Calls
  BY DEF HookTypeOK
<1> QED BY <1>1 DEF Calls, Event

\* With one thread, what begins finds no fiber and no callback under way.
LEMMA FreeAlone ==
    ASSUME HookTypeOK, Free, threads = 1
    PROVE  Running = {} /\ late = {}
<1>1. IsFiniteSet(Running)
  BY HookAssumption, FS_Subset DEF Running
<1>2. IsFiniteSet(Event)
  <2>1. IsFiniteSet({"READ"}) BY FS_Singleton
  <2>2. Event = {"READ"} \cup {"WRITE"} BY DEF Event
  <2> QED BY <2>1, <2>2, FS_AddElement
<1>3. IsFiniteSet(late)
  <2>1. IsFiniteSet(Fibers \X Event) BY <1>2, HookAssumption, FS_Product
  <2> QED BY <2>1, FS_Subset DEF HookTypeOK
<1>4. Cardinality(Running) \in Nat /\ Cardinality(late) \in Nat
  BY <1>1, <1>3, FS_CardinalityType
<1>5. Cardinality(Running) = 0 /\ Cardinality(late) = 0
  BY <1>4 DEF Free
<1> QED BY <1>1, <1>3, <1>5, FS_EmptySet

\* The return of a call keeps the types.
LEMMA ReturnTypes ==
    ASSUME HookTypeOK, NEW f \in Fibers, Return(f)
    PROVE  /\ pc' \in [Fibers -> PC] /\ on' \in [Fibers -> Nat]
           /\ due' \in [Fibers -> BOOLEAN] /\ cancelled' \in [Fibers -> BOOLEAN]
BY DEF HookTypeOK, Return, Goto, PC

\* Every step of a call, of the scheduler and of the timers keeps the types.
LEMMA TypeStep ==
    ASSUME HookTypeOK, [Next]_vars
    PROVE  HookTypeOK'
<1>1. ASSUME NEW f \in Fibers, get(f) PROVE HookTypeOK'
  BY <1>1 DEF get, NoCtx, Goto, iom, timers, HookTypeOK, PC
<1>2. ASSUME NEW f \in Fibers, retry(f) PROVE HookTypeOK'
  <2>1. ready' \subseteq Event
    BY <1>2 DEF retry, HookTypeOK
  <2>2. CASE Return(f)
    BY <1>2, <2>1, <2>2, ReturnTypes DEF retry, iom, HookTypeOK
  <2>3. CASE Goto(f, "arm") /\ UNCHANGED <<on, due, cancelled>>
    BY <1>2, <2>1, <2>3 DEF retry, iom, Goto, PC, HookTypeOK
  <2> QED BY <1>2, <2>2, <2>3 DEF retry
<1>3. ASSUME NEW f \in Fibers, addConditionTimer(f) PROVE HookTypeOK'
  BY <1>3 DEF addConditionTimer, Goto, system, iom, HookTypeOK, PC
<1>4. ASSUME NEW f \in Fibers, addEvent(f) PROVE HookTypeOK'
  <2>1. /\ reg' \in [Event -> Fibers \cup {Nobody}]
        /\ interest' \subseteq Event /\ aborted' \in BOOLEAN
    <3>1. ev(f) \in Event BY CallEvent
    <3> QED BY <1>4, <3>1 DEF addEvent, iom, HookTypeOK
  <2>2. CASE Return(f) /\ timer' = [timer EXCEPT ![f] = FALSE]
    BY <1>4, <2>1, <2>2, ReturnTypes DEF addEvent, system, HookTypeOK
  <2>3. CASE (Goto(f, "yield") \/ UNCHANGED pc) /\ UNCHANGED <<on, timer, due, cancelled>>
    BY <1>4, <2>1, <2>3 DEF addEvent, system, Goto, PC, HookTypeOK
  <2> QED BY <1>4, <2>2, <2>3 DEF addEvent
<1>5. ASSUME NEW f \in Fibers, YieldToHold(f) PROVE HookTypeOK'
  BY <1>5 DEF YieldToHold, Goto, system, iom, timers, HookTypeOK, PC
<1>6. ASSUME NEW f \in Fibers, Resume(f) PROVE HookTypeOK'
  BY <1>6 DEF Resume, Goto, system, iom, timers, HookTypeOK, PC
<1>7. ASSUME NEW f \in Fibers, woken(f) PROVE HookTypeOK'
  <2>1. timer' \in [Fibers -> BOOLEAN]
    BY <1>7 DEF woken, HookTypeOK
  <2>2. CASE Return(f)
    BY <1>7, <2>1, <2>2, ReturnTypes DEF woken, system, iom, HookTypeOK
  <2>3. CASE Goto(f, "try") /\ UNCHANGED <<on, due, cancelled>>
    BY <1>7, <2>1, <2>3 DEF woken, system, iom, Goto, PC, HookTypeOK
  <2> QED BY <1>7, <2>2, <2>3 DEF woken
<1>8. ASSUME NEW f \in Fibers, del(f) PROVE HookTypeOK'
  BY <1>8 DEF del, NoCtx, Goto, system, iom, timers, HookTypeOK, PC
<1>9. ASSUME NEW f \in Fibers, close_f(f) PROVE HookTypeOK'
  BY <1>9 DEF close_f, Goto, timers, HookTypeOK, PC
<1>10. ASSUME NEW f \in Fibers, socket(f) PROVE HookTypeOK'
  BY <1>10 DEF socket, Goto, iom, timers, HookTypeOK, PC
<1>11. ASSUME NEW f \in Fibers, close(f) PROVE HookTypeOK'
  BY <1>11 DEF close, Trigger, Registered, Goto, system, iom, timers, HookTypeOK, PC
<1>12. ASSUME NEW f \in Fibers, NEW c \in Calls, enter(f, c) PROVE HookTypeOK'
  BY <1>12 DEF enter, Goto, system, iom, timers, HookTypeOK, PC
<1>13. ASSUME NEW f \in Fibers, NEW b \in BOOLEAN, setsockopt(f, b) PROVE HookTypeOK'
  BY <1>13 DEF setsockopt, system, iom, timers, HookTypeOK
<1>14. ASSUME NEW f \in Fibers, Expire(f) PROVE HookTypeOK'
  BY <1>14 DEF Expire, system, iom, HookTypeOK
<1>15. ASSUME NEW f \in Fibers, OnTimeout(f) PROVE HookTypeOK'
  <2>1. due' \in [Fibers -> BOOLEAN] /\ cancelled' \in [Fibers -> BOOLEAN]
    BY <1>15 DEF OnTimeout, HookTypeOK
  <2>2. late' \subseteq Fibers \X Event
    <3>1. ev(f) \in Event BY CallEvent
    <3> QED BY <1>15, <3>1 DEF OnTimeout, HookTypeOK
  <2> QED BY <1>15, <2>1, <2>2 DEF OnTimeout, system, iom, HookTypeOK
<1>16. ASSUME NEW e \in Event, Become(e) PROVE HookTypeOK'
  BY <1>16 DEF Become, iom, timers, HookTypeOK
<1>17. ASSUME NEW e \in Event, idle(e) PROVE HookTypeOK'
  BY <1>17 DEF idle, Trigger, system, timers, HookTypeOK
<1>18. ASSUME NEW x \in late, cancelEvent(x) PROVE HookTypeOK'
  BY <1>18 DEF cancelEvent, Trigger, CtlFails, system, iom, HookTypeOK
<1>19. CASE UNCHANGED vars
  BY <1>19 DEF vars, system, iom, timers, HookTypeOK
<1> QED BY <1>1, <1>2, <1>3, <1>4, <1>5, <1>6, <1>7, <1>8, <1>9, <1>10, <1>11, <1>12, <1>13,
   <1>14, <1>15, <1>16, <1>17, <1>18, <1>19 DEF Next, Step, Begin, Idle

\* addEvent registers the caller, and triggerEvent takes out who it schedules:
\* a registration stays that of a fiber that waits.
LEMMA OwnersStep ==
    ASSUME HookTypeOK, Owners, [Next]_vars
    PROVE  Owners'
<1>1. ASSUME NEW f \in Fibers, get(f) PROVE Owners'
  BY <1>1 DEF get, Goto, iom, Owners, ev
<1>2. ASSUME NEW f \in Fibers, retry(f) PROVE Owners'
  BY <1>2 DEF retry, Return, Goto, iom, HookTypeOK, Owners, ev
<1>3. ASSUME NEW f \in Fibers, addConditionTimer(f) PROVE Owners'
  BY <1>3 DEF addConditionTimer, Goto, iom, Owners, ev
<1>4. ASSUME NEW f \in Fibers, addEvent(f) PROVE Owners'
  BY <1>4 DEF addEvent, Return, Goto, system, iom, HookTypeOK, Owners, ev
<1>5. ASSUME NEW f \in Fibers, YieldToHold(f) PROVE Owners'
  BY <1>5 DEF YieldToHold, Goto, iom, Owners, ev
<1>6. ASSUME NEW f \in Fibers, Resume(f) PROVE Owners'
  BY <1>6 DEF Resume, Goto, iom, HookTypeOK, Owners, ev
<1>7. ASSUME NEW f \in Fibers, woken(f) PROVE Owners'
  BY <1>7 DEF woken, Return, Goto, system, iom, HookTypeOK, Owners, ev
<1>8. ASSUME NEW f \in Fibers, del(f) PROVE Owners'
  BY <1>8 DEF del, Goto, iom, Owners, ev
<1>9. ASSUME NEW f \in Fibers, close_f(f) PROVE Owners'
  BY <1>9 DEF close_f, Goto, Owners, ev
<1>10. ASSUME NEW f \in Fibers, socket(f) PROVE Owners'
  BY <1>10 DEF socket, Goto, iom, Owners, ev
<1>11. ASSUME NEW f \in Fibers, close(f) PROVE Owners'
  BY <1>11 DEF close, Trigger, Registered, CtlFails, Goto, system, iom, timers, HookTypeOK,
     Owners, ev
<1>12. ASSUME NEW f \in Fibers, NEW c \in Calls, enter(f, c) PROVE Owners'
  BY <1>12 DEF enter, Goto, iom, timers, HookTypeOK, Owners, ev
<1>13. ASSUME NEW f \in Fibers, NEW b \in BOOLEAN, setsockopt(f, b) PROVE Owners'
  BY <1>13 DEF setsockopt, iom, Owners, ev
<1>14. ASSUME NEW f \in Fibers, Expire(f) PROVE Owners'
  BY <1>14 DEF Expire, iom, Owners, ev
<1>15. ASSUME NEW f \in Fibers, OnTimeout(f) PROVE Owners'
  BY <1>15 DEF OnTimeout, iom, Owners, ev
<1>16. ASSUME NEW e \in Event, Become(e) PROVE Owners'
  BY <1>16 DEF Become, iom, Owners, ev
<1>17. ASSUME NEW e \in Event, idle(e) PROVE Owners'
  BY <1>17 DEF idle, Trigger, HookTypeOK, Owners, ev
<1>18. ASSUME NEW x \in late, cancelEvent(x) PROVE Owners'
  BY <1>18, HookAssumption DEF cancelEvent, Trigger, iom, HookTypeOK, Owners, ev
<1>19. CASE UNCHANGED vars
  BY <1>19 DEF vars, iom, Owners, ev
<1> QED BY <1>1, <1>2, <1>3, <1>4, <1>5, <1>6, <1>7, <1>8, <1>9, <1>10, <1>11, <1>12, <1>13,
   <1>14, <1>15, <1>16, <1>17, <1>18, <1>19 DEF Next, Step, Begin, Idle

\* A call begins only where no other one on the file waits for its event.
LEMMA ApartStep ==
    ASSUME HookTypeOK, Apart, [Next]_vars
    PROVE  Apart'
<1>1. ASSUME NEW f \in Fibers, get(f) PROVE Apart'
  BY <1>1 DEF get, Goto, Apart, ev, InCall
<1>2. ASSUME NEW f \in Fibers, retry(f) PROVE Apart'
  BY <1>2 DEF retry, Return, Goto, HookTypeOK, Apart, ev, InCall
<1>3. ASSUME NEW f \in Fibers, addConditionTimer(f) PROVE Apart'
  BY <1>3 DEF addConditionTimer, Goto, Apart, ev, InCall
<1>4. ASSUME NEW f \in Fibers, addEvent(f) PROVE Apart'
  BY <1>4 DEF addEvent, Return, Goto, HookTypeOK, Apart, ev, InCall
<1>5. ASSUME NEW f \in Fibers, YieldToHold(f) PROVE Apart'
  BY <1>5 DEF YieldToHold, Goto, Apart, ev, InCall
<1>6. ASSUME NEW f \in Fibers, Resume(f) PROVE Apart'
  BY <1>6 DEF Resume, Goto, Apart, ev, InCall
<1>7. ASSUME NEW f \in Fibers, woken(f) PROVE Apart'
  BY <1>7 DEF woken, Return, Goto, HookTypeOK, Apart, ev, InCall
<1>8. ASSUME NEW f \in Fibers, del(f) PROVE Apart'
  BY <1>8 DEF del, Goto, Apart, ev, InCall
<1>9. ASSUME NEW f \in Fibers, close_f(f) PROVE Apart'
  BY <1>9 DEF close_f, Goto, Apart, ev, InCall
<1>10. ASSUME NEW f \in Fibers, socket(f) PROVE Apart'
  BY <1>10 DEF socket, Goto, Apart, ev, InCall
<1>11. ASSUME NEW f \in Fibers, close(f) PROVE Apart'
  BY <1>11 DEF close, Goto, HookTypeOK, Apart, ev, InCall
<1>12. ASSUME NEW f \in Fibers, NEW c \in Calls, enter(f, c) PROVE Apart'
  BY <1>12 DEF enter, Goto, HookTypeOK, Apart, ev, InCall
<1>13. ASSUME NEW f \in Fibers, NEW b \in BOOLEAN, setsockopt(f, b) PROVE Apart'
  BY <1>13 DEF setsockopt, Apart, ev, InCall
<1>14. ASSUME NEW f \in Fibers, Expire(f) PROVE Apart'
  BY <1>14 DEF Expire, Apart, ev, InCall
<1>15. ASSUME NEW f \in Fibers, OnTimeout(f) PROVE Apart'
  BY <1>15 DEF OnTimeout, Apart, ev, InCall
<1>16. ASSUME NEW e \in Event, Become(e) PROVE Apart'
  BY <1>16 DEF Become, Apart, ev, InCall
<1>17. ASSUME NEW e \in Event, idle(e) PROVE Apart'
  BY <1>17 DEF idle, Apart, ev, InCall
<1>18. ASSUME NEW x \in late, cancelEvent(x) PROVE Apart'
  BY <1>18 DEF cancelEvent, Apart, ev, InCall
<1>19. CASE UNCHANGED vars
  BY <1>19 DEF vars, Apart, ev, InCall
<1> QED BY <1>1, <1>2, <1>3, <1>4, <1>5, <1>6, <1>7, <1>8, <1>9, <1>10, <1>11, <1>12, <1>13,
   <1>14, <1>15, <1>16, <1>17, <1>18, <1>19 DEF Next, Step, Begin, Idle

\* With one thread a step begins only when the last one has come to its yield.
LEMMA AloneStep ==
    ASSUME HookTypeOK, Owners, Alone, Waits, [Next]_vars
    PROVE  Alone'
<1>1. ASSUME NEW f \in Fibers, get(f) PROVE Alone'
  BY <1>1 DEF get, NoCtx, Goto, timers, Alone, Running, Registered
<1>2. ASSUME NEW f \in Fibers, retry(f) PROVE Alone'
  BY <1>2 DEF retry, Return, Goto, iom, HookTypeOK, Alone, Running, Registered
<1>3. ASSUME NEW f \in Fibers, addConditionTimer(f) PROVE Alone'
  BY <1>3 DEF addConditionTimer, Goto, system, Alone, Running
<1>4. ASSUME NEW f \in Fibers, addEvent(f) PROVE Alone'
  BY <1>4 DEF addEvent, Return, CtlFails, Goto, system, iom, HookTypeOK, Alone, Running
<1>5. ASSUME NEW f \in Fibers, YieldToHold(f) PROVE Alone'
  BY <1>5 DEF YieldToHold, Goto, system, iom, timers, Alone, Running, Registered
<1>6. ASSUME NEW f \in Fibers, Resume(f) PROVE Alone'
  BY <1>6, FreeAlone DEF Resume, Goto, system, iom, timers, Alone, Running, Registered
<1>7. ASSUME NEW f \in Fibers, woken(f) PROVE Alone'
  BY <1>7 DEF woken, Return, Goto, system, iom, HookTypeOK, Alone, Quiet, Running,
     Registered
<1>8. ASSUME NEW f \in Fibers, del(f) PROVE Alone'
  BY <1>8 DEF del, Goto, system, iom, timers, HookTypeOK, Alone, Running, Registered
<1>9. ASSUME NEW f \in Fibers, close_f(f) PROVE Alone'
  BY <1>9 DEF close_f, Goto, timers, HookTypeOK, Alone, Running, Registered
<1>10. ASSUME NEW f \in Fibers, socket(f) PROVE Alone'
  BY <1>10, FreeAlone DEF socket, Goto, timers, HookTypeOK, Alone, Running
<1>11. ASSUME NEW f \in Fibers, close(f) PROVE Alone'
  <2> SUFFICES ASSUME threads = 1 PROVE Alone'
    BY <1>11 DEF close, Alone
  <2>1. Running = {} /\ late = {}
    BY <1>11, FreeAlone DEF close
  <2>2. file # 0 /\ m_datas.has /\ interest = Registered
    BY <1>11, <2>1 DEF close, Known, Alone, Waits, Quiet
  <2>3. Registered' = {}
    BY <1>11, <2>2 DEF close, Trigger, CtlFails, Registered, iom
  <2>4. pc' = [pc EXCEPT ![f] = "del"] /\ UNCHANGED <<file, m_datas, late, threads>>
    BY <1>11, <2>2 DEF close, Goto, system, timers
  <2>5. Running' = {f}
    BY <2>1, <2>4 DEF Running, HookTypeOK
  <2>6. \A g \in Fibers : pc'[g] \in {"get", "arm", "add", "del", "close"} => file' # 0
    BY <2>2, <2>4
  <2> QED BY <2>1, <2>2, <2>3, <2>4, <2>5, <2>6 DEF Alone
<1>12. ASSUME NEW f \in Fibers, NEW c \in Calls, enter(f, c) PROVE Alone'
  BY <1>12, FreeAlone DEF enter, Known, Goto, system, timers, HookTypeOK, Alone, Running
<1>13. ASSUME NEW f \in Fibers, NEW b \in BOOLEAN, setsockopt(f, b) PROVE Alone'
  BY <1>13 DEF setsockopt, Known, system, timers, Alone, Running
<1>14. ASSUME NEW f \in Fibers, Expire(f) PROVE Alone'
  BY <1>14 DEF Expire, system, iom, Alone, Running, Registered
<1>15. ASSUME NEW f \in Fibers, OnTimeout(f) PROVE Alone'
  BY <1>15, FreeAlone DEF OnTimeout, system, iom, Alone, Running, Registered
<1>16. ASSUME NEW e \in Event, Become(e) PROVE Alone'
  BY <1>16, FreeAlone DEF Become, timers, Alone, Running
<1>17. ASSUME NEW e \in Event, idle(e) PROVE Alone'
  BY <1>17 DEF idle, system, timers, Alone, Waits, Quiet, Running
<1>18. ASSUME NEW x \in late, cancelEvent(x) PROVE Alone'
  BY <1>18 DEF cancelEvent, Registered, system, iom, Alone, Running
<1>19. CASE UNCHANGED vars
  BY <1>19 DEF vars, system, iom, timers, Alone, Running, Registered
<1> QED BY <1>1, <1>2, <1>3, <1>4, <1>5, <1>6, <1>7, <1>8, <1>9, <1>10, <1>11, <1>12, <1>13,
   <1>14, <1>15, <1>16, <1>17, <1>18, <1>19 DEF Next, Step, Begin, Idle

\* Until the first close the number stands for one file.
LEMMA UnclosedStep ==
    ASSUME HookTypeOK, Unclosed, [Next]_vars
    PROVE  Unclosed'
<1>1. ASSUME NEW f \in Fibers, get(f) PROVE Unclosed'
  BY <1>1 DEF get, Unclosed
<1>2. ASSUME NEW f \in Fibers, retry(f) PROVE Unclosed'
  BY <1>2 DEF retry, Unclosed
<1>3. ASSUME NEW f \in Fibers, addConditionTimer(f) PROVE Unclosed'
  BY <1>3 DEF addConditionTimer, system, Unclosed
<1>4. ASSUME NEW f \in Fibers, addEvent(f) PROVE Unclosed'
  BY <1>4 DEF addEvent, system, Unclosed
<1>5. ASSUME NEW f \in Fibers, YieldToHold(f) PROVE Unclosed'
  BY <1>5 DEF YieldToHold, system, Unclosed
<1>6. ASSUME NEW f \in Fibers, Resume(f) PROVE Unclosed'
  BY <1>6 DEF Resume, system, Unclosed
<1>7. ASSUME NEW f \in Fibers, woken(f) PROVE Unclosed'
  BY <1>7 DEF woken, system, Unclosed
<1>8. ASSUME NEW f \in Fibers, del(f) PROVE Unclosed'
  BY <1>8 DEF del, system, Unclosed
<1>9. ASSUME NEW f \in Fibers, close_f(f) PROVE Unclosed'
  BY <1>9 DEF close_f, HookTypeOK, Unclosed
<1>10. ASSUME NEW f \in Fibers, socket(f) PROVE Unclosed'
  BY <1>10 DEF socket, Unclosed
<1>11. ASSUME NEW f \in Fibers, close(f) PROVE Unclosed'
  <2>1. pc' \in {[pc EXCEPT ![f] = "del"], [pc EXCEPT ![f] = "close"]} /\ file # 0
        /\ UNCHANGED <<file, opened, closes>>
    BY <1>11 DEF close, Known, Goto, system
  <2> QED BY <2>1 DEF Unclosed, HookTypeOK
<1>12. ASSUME NEW f \in Fibers, NEW c \in Calls, enter(f, c) PROVE Unclosed'
  BY <1>12 DEF enter, Known, system, Unclosed
<1>13. ASSUME NEW f \in Fibers, NEW b \in BOOLEAN, setsockopt(f, b) PROVE Unclosed'
  BY <1>13 DEF setsockopt, system, Unclosed
<1>14. ASSUME NEW f \in Fibers, Expire(f) PROVE Unclosed'
  BY <1>14 DEF Expire, system, Unclosed
<1>15. ASSUME NEW f \in Fibers, OnTimeout(f) PROVE Unclosed'
  BY <1>15 DEF OnTimeout, system, Unclosed
<1>16. ASSUME NEW e \in Event, Become(e) PROVE Unclosed'
  BY <1>16 DEF Become, Unclosed
<1>17. ASSUME NEW e \in Event, idle(e) PROVE Unclosed'
  BY <1>17 DEF idle, system, Unclosed
<1>18. ASSUME NEW x \in late, cancelEvent(x) PROVE Unclosed'
  BY <1>18 DEF cancelEvent, system, Unclosed
<1>19. CASE UNCHANGED vars
  BY <1>19 DEF vars, system, Unclosed
<1> QED BY <1>1, <1>2, <1>3, <1>4, <1>5, <1>6, <1>7, <1>8, <1>9, <1>10, <1>11, <1>12, <1>13,
   <1>14, <1>15, <1>16, <1>17, <1>18, <1>19 DEF Next, Step, Begin, Idle

\* triggerEvent keeps epoll in step with the registrations, and who it takes
\* out of them it puts into the list.
LEMMA TriggerWaits ==
    ASSUME HookTypeOK, Owners, Waits, NEW E \in SUBSET Event, Trigger(E),
           UNCHANGED <<threads, closes, pc, call>>
    PROVE  Waits'
<1> SUFFICES ASSUME Quiet PROVE Waits'
  BY DEF Waits, Quiet
<1>1. interest' = Registered'
  BY DEF Trigger, Registered, Waits
<1>2. ASSUME NEW f \in Fibers, pc'[f] \in {"yield", "held"}
      PROVE  scheduled'[f] \/ reg'[ev(f)'] = f
  <2>1. ev(f)' = ev(f) /\ ev(f) \in Event
    BY CallEvent DEF ev
  <2>2. scheduled[f] \/ reg[ev(f)] = f
    BY <1>2 DEF Waits
  <2> QED BY <2>1, <2>2 DEF Trigger
<1> QED BY <1>1, <1>2 DEF Waits

\* No step of a call, a timer or close takes a waiting fiber out of both the
\* registrations and the list.
LEMMA WaitsStep ==
    ASSUME HookTypeOK, Owners, Alone, Unclosed, Waits, [Next]_vars
    PROVE  Waits'
<1>1. ASSUME NEW f \in Fibers, get(f) PROVE Waits'
  BY <1>1 DEF get, Goto, iom, Waits, Quiet, ev, Registered
<1>2. ASSUME NEW f \in Fibers, retry(f) PROVE Waits'
  BY <1>2 DEF retry, Return, Goto, iom, HookTypeOK, Waits, Quiet, ev, Registered
<1>3. ASSUME NEW f \in Fibers, addConditionTimer(f) PROVE Waits'
  BY <1>3 DEF addConditionTimer, Goto, iom, Waits, Quiet, ev, Registered
<1>4. ASSUME NEW f \in Fibers, addEvent(f) PROVE Waits'
  BY <1>4, CallEvent, HookAssumption DEF addEvent, Registered, CtlFails, Goto, iom,
     HookTypeOK, Alone, Unclosed, Waits, Quiet, ev
<1>5. ASSUME NEW f \in Fibers, YieldToHold(f) PROVE Waits'
  BY <1>5 DEF YieldToHold, Goto, iom, Waits, Quiet, ev, Registered
<1>6. ASSUME NEW f \in Fibers, Resume(f) PROVE Waits'
  BY <1>6 DEF Resume, Goto, iom, HookTypeOK, Waits, Quiet, ev, Registered
<1>7. ASSUME NEW f \in Fibers, woken(f) PROVE Waits'
  BY <1>7 DEF woken, Return, Goto, iom, HookTypeOK, Waits, Quiet, ev, Registered
<1>8. ASSUME NEW f \in Fibers, del(f) PROVE Waits'
  BY <1>8 DEF del, Goto, iom, Waits, Quiet, ev, Registered
<1>9. ASSUME NEW f \in Fibers, close_f(f) PROVE Waits'
  BY <1>9, CallEvent, HookAssumption DEF close_f, Goto, HookTypeOK, Alone, Waits, Quiet,
     Registered
<1>10. ASSUME NEW f \in Fibers, socket(f) PROVE Waits'
  BY <1>10, CallEvent, HookAssumption DEF socket, Goto, iom, Alone, Unclosed, Waits, Quiet,
     Registered
<1>11. ASSUME NEW f \in Fibers, close(f) PROVE Waits'
  BY <1>11, CallEvent DEF close, Trigger, Registered, Goto, iom, HookTypeOK, Owners, Waits,
     Quiet, ev
<1>12. ASSUME NEW f \in Fibers, NEW c \in Calls, enter(f, c) PROVE Waits'
  BY <1>12 DEF enter, Goto, iom, HookTypeOK, Waits, Quiet, ev, Registered
<1>13. ASSUME NEW f \in Fibers, NEW b \in BOOLEAN, setsockopt(f, b) PROVE Waits'
  BY <1>13 DEF setsockopt, iom, Waits, Quiet, ev, Registered
<1>14. ASSUME NEW f \in Fibers, Expire(f) PROVE Waits'
  BY <1>14 DEF Expire, iom, Waits, Quiet, ev, Registered
<1>15. ASSUME NEW f \in Fibers, OnTimeout(f) PROVE Waits'
  BY <1>15 DEF OnTimeout, iom, Waits, Quiet, ev, Registered
<1>16. ASSUME NEW e \in Event, Become(e) PROVE Waits'
  BY <1>16 DEF Become, iom, Waits, Quiet, ev, Registered
<1>17. ASSUME NEW e \in Event, idle(e) PROVE Waits'
  BY <1>17, TriggerWaits DEF idle
<1>18. ASSUME NEW x \in late, cancelEvent(x) PROVE Waits'
  <2>1. CASE UNCHANGED <<reg, interest, scheduled>>
    BY <1>18, <2>1 DEF cancelEvent, Waits, Quiet, Registered, ev
  <2>2. CASE Trigger({x[2]}) /\ x[2] \in Registered
    BY <1>18, <2>2, TriggerWaits DEF cancelEvent, Registered
  <2> QED BY <1>18, <2>1, <2>2 DEF cancelEvent, iom
<1>19. CASE UNCHANGED vars
  BY <1>19 DEF vars, iom, Waits, Quiet, ev, Registered
<1> QED BY <1>1, <1>2, <1>3, <1>4, <1>5, <1>6, <1>7, <1>8, <1>9, <1>10, <1>11, <1>12, <1>13,
   <1>14, <1>15, <1>16, <1>17, <1>18, <1>19 DEF Next, Step, Begin, Idle

\* addEvent finds another registration only after a call has outlived its file.
LEMMA AbortStep ==
    ASSUME HookTypeOK, Owners, Apart, AbortsOnlyAfterReuse, [Next]_vars
    PROVE  AbortsOnlyAfterReuse'
<1>1. ASSUME NEW f \in Fibers, get(f) PROVE AbortsOnlyAfterReuse'
  BY <1>1 DEF get, AbortsOnlyAfterReuse
<1>2. ASSUME NEW f \in Fibers, retry(f) PROVE AbortsOnlyAfterReuse'
  BY <1>2 DEF retry, AbortsOnlyAfterReuse
<1>3. ASSUME NEW f \in Fibers, addConditionTimer(f) PROVE AbortsOnlyAfterReuse'
  BY <1>3 DEF addConditionTimer, AbortsOnlyAfterReuse
<1>4. ASSUME NEW f \in Fibers, addEvent(f) PROVE AbortsOnlyAfterReuse'
  <2>1. CASE reg[ev(f)] = Nobody
    BY <1>4, <2>1 DEF addEvent, AbortsOnlyAfterReuse
  <2>2. CASE reg[ev(f)] # Nobody
    <3>0. ev(f) \in Event
      BY CallEvent
    <3>1. PICK g \in Fibers : g = reg[ev(f)]
      BY <2>2, <3>0 DEF HookTypeOK
    <3>2. pc[g] \in {"yield", "held"} /\ ev(g) = ev(f)
      BY <2>2, <3>0, <3>1 DEF Owners
    <3>3. g # f /\ InCall(f) /\ InCall(g)
      BY <1>4, <3>2 DEF addEvent, InCall
    <3>4. on[f] # on[g]
      BY <3>1, <3>2, <3>3 DEF Apart
    <3>5. UNCHANGED <<pc, on, file>>
      BY <1>4, <2>2 DEF addEvent, system
    <3>6. InCall(f)' /\ InCall(g)'
      BY <3>3, <3>5 DEF InCall
    <3> QED BY <3>1, <3>4, <3>5, <3>6 DEF AbortsOnlyAfterReuse
  <2> QED BY <2>1, <2>2
<1>5. ASSUME NEW f \in Fibers, YieldToHold(f) PROVE AbortsOnlyAfterReuse'
  BY <1>5 DEF YieldToHold, AbortsOnlyAfterReuse
<1>6. ASSUME NEW f \in Fibers, Resume(f) PROVE AbortsOnlyAfterReuse'
  BY <1>6 DEF Resume, AbortsOnlyAfterReuse, Free
<1>7. ASSUME NEW f \in Fibers, woken(f) PROVE AbortsOnlyAfterReuse'
  BY <1>7 DEF woken, AbortsOnlyAfterReuse
<1>8. ASSUME NEW f \in Fibers, del(f) PROVE AbortsOnlyAfterReuse'
  BY <1>8 DEF del, AbortsOnlyAfterReuse
<1>9. ASSUME NEW f \in Fibers, close_f(f) PROVE AbortsOnlyAfterReuse'
  BY <1>9 DEF close_f, AbortsOnlyAfterReuse
<1>10. ASSUME NEW f \in Fibers, socket(f) PROVE AbortsOnlyAfterReuse'
  BY <1>10 DEF socket, AbortsOnlyAfterReuse, Free
<1>11. ASSUME NEW f \in Fibers, close(f) PROVE AbortsOnlyAfterReuse'
  BY <1>11 DEF close, AbortsOnlyAfterReuse, Free
<1>12. ASSUME NEW f \in Fibers, NEW c \in Calls, enter(f, c) PROVE AbortsOnlyAfterReuse'
  BY <1>12 DEF enter, AbortsOnlyAfterReuse, Free
<1>13. ASSUME NEW f \in Fibers, NEW b \in BOOLEAN, setsockopt(f, b) PROVE AbortsOnlyAfterReuse'
  BY <1>13 DEF setsockopt, AbortsOnlyAfterReuse, Free
<1>14. ASSUME NEW f \in Fibers, Expire(f) PROVE AbortsOnlyAfterReuse'
  BY <1>14 DEF Expire, AbortsOnlyAfterReuse, Free
<1>15. ASSUME NEW f \in Fibers, OnTimeout(f) PROVE AbortsOnlyAfterReuse'
  BY <1>15 DEF OnTimeout, AbortsOnlyAfterReuse, Free
<1>16. ASSUME NEW e \in Event, Become(e) PROVE AbortsOnlyAfterReuse'
  BY <1>16 DEF Become, AbortsOnlyAfterReuse, Free
<1>17. ASSUME NEW e \in Event, idle(e) PROVE AbortsOnlyAfterReuse'
  BY <1>17 DEF idle, AbortsOnlyAfterReuse, Free
<1>18. ASSUME NEW x \in late, cancelEvent(x) PROVE AbortsOnlyAfterReuse'
  BY <1>18 DEF cancelEvent, AbortsOnlyAfterReuse
<1>19. CASE UNCHANGED vars
  BY <1>19 DEF vars, system, AbortsOnlyAfterReuse, InCall
<1> QED BY <1>1, <1>2, <1>3, <1>4, <1>5, <1>6, <1>7, <1>8, <1>9, <1>10, <1>11, <1>12, <1>13,
   <1>14, <1>15, <1>16, <1>17, <1>18, <1>19 DEF Next, Step, Begin, Idle

-----------------------------------------------------------------------------
\* The invariant holds of every behaviour.
LEMMA HookInvariant == Spec => []HookInv
<1>1. Init => HookInv
  <2> SUFFICES ASSUME Init PROVE HookInv
    OBVIOUS
  <2>1. HookTypeOK
    BY DEF Init, HookTypeOK, PC, NoCtx, Calls
  <2>2. Running = {} /\ Registered = {}
    BY DEF Init, Running, Registered
  <2> QED BY <2>1, <2>2 DEF Init, HookInv, Owners, Apart, Alone, Unclosed, Waits,
     AbortsOnlyAfterReuse, InCall
<1>2. HookInv /\ [Next]_vars => HookInv'
  BY TypeStep, OwnersStep, ApartStep, AloneStep, UnclosedStep, WaitsStep, AbortStep DEF
     HookInv
<1> QED BY <1>1, <1>2, PTL DEF Spec

\* hook.cc, do_io and connect_with_timeout: whatever the number of threads, of
\* fibers and of files behind the number, a fiber that has yielded is in the
\* scheduler's list or registered with epoll, with one thread always and with
\* more until the first close.
THEOREM YieldedNeverStranded == Spec => []NeverStranded
<1>1. HookInv => NeverStranded
  <2> SUFFICES ASSUME HookInv, Quiet, NEW f \in Fibers, pc[f] = "held", ~scheduled[f]
               PROVE  reg[ev(f)] = f /\ ev(f) \in interest
    BY DEF NeverStranded, Quiet, HookInv, HookTypeOK
  <2>1. reg[ev(f)] = f /\ interest = Registered
    BY DEF HookInv, Waits
  <2>2. ev(f) \in Event /\ f # Nobody
    BY CallEvent, HookAssumption DEF HookInv
  <2> QED BY <2>1, <2>2 DEF Registered
<1> QED BY <1>1, HookInvariant, PTL

\* iomanager.cc, addEvent: its assertion fails only when some call has outlived
\* the file it was made on, for any number of threads and of files.
THEOREM AbortNeedsReuse == Spec => []AbortsOnlyAfterReuse
<1>1. HookInv => AbortsOnlyAfterReuse
  BY DEF HookInv
<1> QED BY <1>1, HookInvariant, PTL

\* The state of the hooked calls keeps its type.
THEOREM HookTypeCorrect == Spec => []HookTypeOK
<1>1. HookInv => HookTypeOK
  BY DEF HookInv
<1> QED BY <1>1, HookInvariant, PTL
=============================================================================
