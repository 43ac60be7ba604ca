-------------------------------- MODULE Hook --------------------------------
(***************************************************************************)
(* The hooked system calls (webserve/hook.cc) on one descriptor number that   *)
(* fibers open, use and close, with the entry of FdManager for it, the         *)
(* timeouts and the registration in the IOManager.                             *)
(*                                                                           *)
(* A fiber runs until it yields, so with one thread nothing comes between two  *)
(* of its steps; with more, the steps of as many fibers and callbacks as there *)
(* are threads interleave.  Of epoll only what FdEvents shows of it is kept:   *)
(* a registration that epoll knows of is triggered if the file is ready.       *)
(***************************************************************************)
EXTENDS Naturals, FiniteSets

CONSTANTS
    Fibers,
    MaxThreads,     \* the IOManager has 1..MaxThreads threads
    MaxFiles(_)     \* bound: how often the descriptor number is given out, by threads

Event == {"READ", "WRITE"}
\* The calls that read, and connect; those that write are the former with WRITE.
Calls == {<<"io", "READ">>, <<"connect", "WRITE">>}
Nobody == "nobody"

ASSUME HookAssumption ==
    /\ IsFiniteSet(Fibers) /\ Nobody \notin Fibers
    /\ MaxThreads \in Nat \ {0}
    /\ \A n \in 1..MaxThreads : MaxFiles(n) \in Nat

NoCtx == [has |-> FALSE, to |-> FALSE]

VARIABLES
    threads,
    file,           \* the file behind the number, counted from 1; 0: none
    opened,         \* how many there have been
    ready,          \* what the file is ready for
    m_datas,        \* the FdCtx, if it has one: its timeout is set
    reg,            \* of each event: the fiber registered, or Nobody
    interest,       \* the events epoll is asked for
    pc,             \* where each fiber is
    call,           \* the call it makes
    on,             \* the file the call was made on
    to,             \* it has a timeout
    timer,          \* its timer is set
    due,            \* a callback of its timers waits to be run: the first one counts
    cancelled,      \* tinfo->cancelled
    scheduled,      \* it is in the scheduler's list
    late,           \* callbacks past the check of tinfo: the events to cancel
    closes,         \* files closed so far
    aborted         \* a SYLAR_ASSERT has failed

system == <<file, opened, ready>>
iom == <<reg, interest>>
timers == <<timer, due, cancelled, late>>
vars == <<threads, system, m_datas, iom, pc, call, on, to, timers, scheduled, closes, aborted>>

Init ==
    /\ threads \in 1..MaxThreads
    /\ file = 0 /\ opened = 0 /\ ready = {}
    /\ m_datas = NoCtx
    /\ reg = [e \in Event |-> Nobody]
    /\ interest = {}
    /\ pc = [f \in Fibers |-> "out"]
    /\ call = [f \in Fibers |-> <<"io", "READ">>]
    /\ on = [f \in Fibers |-> 0]
    /\ to = [f \in Fibers |-> FALSE]
    /\ timer = [f \in Fibers |-> FALSE]
    /\ due = [f \in Fibers |-> FALSE]
    /\ cancelled = [f \in Fibers |-> FALSE]
    /\ scheduled = [f \in Fibers |-> FALSE]
    /\ late = {}
    /\ closes = 0 /\ aborted = FALSE

Running == {f \in Fibers : pc[f] \notin {"out", "held"}}
Free == ~aborted /\ Cardinality(Running) + Cardinality(late) < threads
Goto(f, l) == pc' = [pc EXCEPT ![f] = l]
ev(f) == call[f][2]
InCall(f) == pc[f] \in {"try", "arm", "add", "yield", "held", "woken"}

\* Fibers use the number from when they are given it until one begins to close.
Known == file # 0 /\ \A g \in Fibers : pc[g] \notin {"get", "del", "close"}

-----------------------------------------------------------------------------
(* The file.                                                                 *)

Become(e) ==
    /\ Free /\ file # 0 /\ e \notin ready
    /\ ready' = ready \cup {e}
    /\ UNCHANGED <<threads, file, opened, m_datas, iom, pc, call, on, to, timers,
                   scheduled, closes, aborted>>

\* socket or accept: a new file, then FdMgr->get(fd, true).
socket(f) ==
    /\ Free /\ pc[f] = "out" /\ file = 0 /\ opened < MaxFiles(threads)
    /\ file' = opened + 1 /\ opened' = opened + 1
    /\ ready' = {}
    /\ Goto(f, "get")
    /\ UNCHANGED <<threads, m_datas, iom, call, on, to, timers, scheduled, closes, aborted>>

get(f) ==
    /\ ~aborted /\ pc[f] = "get"
    /\ IF ~m_datas.has THEN m_datas' = [NoCtx EXCEPT !.has = TRUE]
       ELSE UNCHANGED m_datas
    /\ Goto(f, "out")
    /\ UNCHANGED <<threads, file, opened, ready, iom, call, on, to, timers, scheduled,
                   closes, aborted>>

\* setsockopt(SO_RCVTIMEO, SO_SNDTIMEO)
setsockopt(f, v) ==
    /\ Free /\ pc[f] = "out" /\ Known /\ m_datas.has
    /\ m_datas' = [m_datas EXCEPT !.to = v]
    /\ UNCHANGED <<threads, system, iom, pc, call, on, to, timers, scheduled, closes, aborted>>

-----------------------------------------------------------------------------
(* IOManager, one step each under the mutex of the FdContext.                *)

Registered == {e \in Event : reg[e] # Nobody}
CtlFails == file = 0 \/ (Registered = {}) # (interest = {})

\* Mutant: the bits of `events' stay set.
TriggerKeeps(E) ==
    /\ UNCHANGED reg
    /\ interest' = interest \ E
    /\ scheduled' = [f \in Fibers |-> scheduled[f] \/ \E e \in E : reg[e] = f]

\* triggerEvent for the events E.
Trigger(E) ==
    /\ reg' = [e \in Event |-> IF e \in E THEN Nobody ELSE reg[e]]
    /\ interest' = interest \ E
    /\ scheduled' = [f \in Fibers |-> scheduled[f] \/ \E e \in E : reg[e] = f]

\* idle: epoll reports an event.
idle(e) ==
    /\ Free
    /\ e \in ready \cap interest /\ reg[e] # Nobody
    /\ Trigger({e})
    /\ UNCHANGED <<threads, system, m_datas, pc, call, on, to, timers, closes, aborted>>

\* idle: a timer has expired and its callback is put into the list.
Expire(f) ==
    /\ Free /\ timer[f]
    /\ timer' = [timer EXCEPT ![f] = FALSE]
    /\ due' = [due EXCEPT ![f] = TRUE]
    /\ UNCHANGED <<threads, system, m_datas, iom, pc, call, on, to, cancelled, scheduled, late, closes,
                   aborted>>

\* The callback of a timeout: nothing if tinfo is gone (due is cleared when the
\* call returns) or the call is cancelled already; else the event is cancelled.
OnTimeout(f) ==
    /\ Free /\ due[f]
    /\ due' = [due EXCEPT ![f] = FALSE]
    /\ IF cancelled[f] THEN UNCHANGED <<cancelled, late>>
       ELSE /\ cancelled' = [cancelled EXCEPT ![f] = TRUE]
            /\ late' = late \cup {<<f, ev(f)>>}
    /\ UNCHANGED <<threads, system, m_datas, iom, pc, call, on, to, timer, scheduled, closes, aborted>>

\* cancelEvent(fd, event)
cancelEvent(x) ==
    /\ ~aborted /\ x \in late
    /\ late' = late \ {x}
    /\ IF x[2] \in Registered /\ ~CtlFails THEN Trigger({x[2]})
       ELSE UNCHANGED <<iom, scheduled>>
    /\ UNCHANGED <<threads, system, m_datas, pc, call, on, to, timer, due, cancelled, closes, aborted>>

-----------------------------------------------------------------------------
(* do_io and connect_with_timeout.                                           *)

\* The call is over: tinfo is destroyed.
Return(f) ==
    /\ Goto(f, "out")
    /\ on' = [on EXCEPT ![f] = 0]
    /\ due' = [due EXCEPT ![f] = FALSE]
    /\ cancelled' = [cancelled EXCEPT ![f] = FALSE]

\* Up to the first try.  Callers wait with at most one fiber for an event of a
\* file (addEvent asserts that).
enter(f, c) ==
    /\ Free /\ pc[f] = "out" /\ Known
    /\ \A g \in Fibers : InCall(g) /\ on[g] = file => ev(g) # c[2]
    /\ IF ~m_datas.has
       THEN UNCHANGED <<pc, call, on, to>>      \* fun(fd, args), without waiting
       ELSE /\ call' = [call EXCEPT ![f] = c]
            /\ on' = [on EXCEPT ![f] = file]
            /\ to' = [to EXCEPT ![f] = m_datas.to]
            /\ Goto(f, "try")
    /\ UNCHANGED <<threads, system, m_datas, iom, timers, scheduled, closes, aborted>>

\* retry: n = fun(fd, args).  With EAGAIN (EINPROGRESS) the fiber will wait.
retry(f) ==
    /\ ~aborted /\ pc[f] = "try"
    /\ IF file = 0
       THEN Return(f) /\ UNCHANGED ready
       ELSE \/ /\ ev(f) \in ready
               /\ ready' \in {ready, ready \ {ev(f)}}
               /\ Return(f)
            \/ /\ ev(f) \notin ready
               /\ Goto(f, "arm") /\ UNCHANGED <<ready, on, due, cancelled>>
    /\ UNCHANGED <<threads, file, opened, m_datas, iom, call, to, timer, late, scheduled,
                   closes, aborted>>

addConditionTimer(f) ==
    /\ ~aborted /\ pc[f] = "arm"
    /\ timer' = [timer EXCEPT ![f] = to[f]]
    /\ Goto(f, "add")
    /\ UNCHANGED <<threads, system, m_datas, iom, call, on, to, due, cancelled, late, scheduled, closes,
                   aborted>>

\* addEvent(fd, event).  do_io takes -1 for success; connect does not wait then.
addEvent(f) ==
    /\ ~aborted /\ pc[f] = "add"
    /\ \/ /\ reg[ev(f)] # Nobody
          /\ aborted' = TRUE
          /\ UNCHANGED <<iom, pc, on, timer, due, cancelled>>
       \/ /\ reg[ev(f)] = Nobody /\ ~CtlFails
          /\ reg' = [reg EXCEPT ![ev(f)] = f]
          /\ interest' = interest \cup {ev(f)}
          /\ Goto(f, "yield")
          /\ UNCHANGED <<on, timer, due, cancelled, aborted>>
       \/ /\ reg[ev(f)] = Nobody /\ CtlFails
          /\ IF call[f][1] = "io" THEN Goto(f, "yield") /\ UNCHANGED <<on, timer, due, cancelled>>
             ELSE Return(f) /\ timer' = [timer EXCEPT ![f] = FALSE]
          /\ UNCHANGED <<iom, aborted>>
    /\ UNCHANGED <<threads, system, m_datas, call, to, late, scheduled, closes>>

YieldToHold(f) ==
    /\ ~aborted /\ pc[f] = "yield"
    /\ Goto(f, "held")
    /\ UNCHANGED <<threads, system, m_datas, iom, call, on, to, timers, scheduled, closes, aborted>>

Resume(f) ==
    /\ Free /\ pc[f] = "held" /\ scheduled[f]
    /\ scheduled' = [scheduled EXCEPT ![f] = FALSE]
    /\ Goto(f, "woken")
    /\ UNCHANGED <<threads, system, m_datas, iom, call, on, to, timers, closes, aborted>>

\* Mutant: a call that has timed out tries again.
wokenRetries(f) ==
    /\ ~aborted /\ pc[f] = "woken"
    /\ timer' = [timer EXCEPT ![f] = FALSE]
    /\ cancelled' = [cancelled EXCEPT ![f] = FALSE]
    /\ Goto(f, "try")
    /\ UNCHANGED <<threads, system, m_datas, iom, call, on, to, due, late, scheduled, closes,
                   aborted>>

\* timer->cancel(); then ETIMEDOUT, the result of connect, or another try.
woken(f) ==
    /\ ~aborted /\ pc[f] = "woken"
    /\ timer' = [timer EXCEPT ![f] = FALSE]
    /\ IF cancelled[f] \/ call[f][1] = "connect" THEN Return(f)
       ELSE Goto(f, "try") /\ UNCHANGED <<on, due, cancelled>>
    /\ UNCHANGED <<threads, system, m_datas, iom, call, to, late, scheduled, closes, aborted>>

-----------------------------------------------------------------------------
(* close: cancelAll, FdMgr->del, close_f.                                    *)

\* Mutant: cancelAll is not called.
closeOnly(f) ==
    /\ Free /\ pc[f] = "out" /\ Known
    /\ Goto(f, "del")
    /\ UNCHANGED <<threads, system, m_datas, iom, call, on, to, timers, scheduled, closes, aborted>>

close(f) ==
    /\ Free /\ pc[f] = "out" /\ Known
    /\ IF ~m_datas.has THEN Goto(f, "close") /\ UNCHANGED <<iom, scheduled>>
       ELSE /\ IF Registered # {} /\ ~CtlFails THEN Trigger(Registered) ELSE UNCHANGED <<iom, scheduled>>
            /\ Goto(f, "del")
    /\ UNCHANGED <<threads, system, m_datas, call, on, to, timers, closes, aborted>>

del(f) ==
    /\ ~aborted /\ pc[f] = "del"
    /\ m_datas' = NoCtx
    /\ Goto(f, "close")
    /\ UNCHANGED <<threads, system, iom, call, on, to, timers, scheduled, closes, aborted>>

\* The system's close: epoll forgets the file.
close_f(f) ==
    /\ ~aborted /\ pc[f] = "close"
    /\ file' = 0 /\ ready' = {} /\ interest' = {}
    /\ closes' = closes + 1
    /\ Goto(f, "out")
    /\ UNCHANGED <<threads, opened, m_datas, reg, call, on, to, timers, scheduled, aborted>>

-----------------------------------------------------------------------------
Step(f) ==
    \/ get(f) \/ retry(f) \/ addConditionTimer(f) \/ addEvent(f) \/ YieldToHold(f)
    \/ Resume(f) \/ woken(f) \/ del(f) \/ close_f(f)
Begin(f) ==
    \/ socket(f) \/ close(f)
    \/ \E c \in Calls : enter(f, c)
    \/ \E b \in BOOLEAN : setsockopt(f, b)
Idle(f) == Expire(f) \/ OnTimeout(f)
Next ==
    \/ \E f \in Fibers : Step(f) \/ Begin(f) \/ Idle(f)
    \/ \E e \in Event : Become(e) \/ idle(e)
    \/ \E x \in late : cancelEvent(x)
Spec == Init /\ [][Next]_vars

\* What runs goes on; the scheduler's list is served in turn and idle whenever
\* it is empty, so that no fiber, timer or callback is passed over for ever.
FairSpec ==
    /\ Spec
    /\ \A f \in Fibers : /\ WF_vars(Step(f))
                         /\ SF_vars(Resume(f)) /\ SF_vars(Expire(f)) /\ SF_vars(OnTimeout(f))
    /\ WF_vars(\E x \in late : cancelEvent(x))

-----------------------------------------------------------------------------
\* A fiber that has yielded in do_io or connect_with_timeout is in the list or
\* registered with epoll: with one thread always, whoever closes the descriptor
\* and whatever comes of the number; with more as long as nothing is closed.
\* Then close may pass between addEvent and its cancelAll, or addEvent's
\* failure is taken for success, and only luck wakes the fiber.
NeverStranded ==
    ~aborted /\ (threads = 1 \/ closes = 0) =>
        \A f \in Fibers : pc[f] = "held" =>
            scheduled[f] \/ (reg[ev(f)] = f /\ ev(f) \in interest)

\* addEvent's assertion that the event is not registered fails only if a call
\* outlives the file it was made on: woken by close, do_io tries again and
\* registers on what the number has come to stand for.
AbortsOnlyAfterReuse == aborted => \E f \in Fibers : InCall(f) /\ on[f] # file

\* With one thread a call with a timeout returns, although it arms a new timer
\* with every try.
CallReturns ==
    \A f \in Fibers : (threads = 1 /\ InCall(f) /\ to[f]) ~> (~InCall(f) \/ aborted)
=============================================================================
