------------------------------- MODULE FdEvents -------------------------------
(***************************************************************************)
(* The registration of I/O events (webserve/iomanager.cc: addEvent, delEvent, *)
(* cancelEvent, cancelAll, triggerEvent and the event loop of idle).         *)
(*                                                                         *)
(* A registration is a pair <<fd, event>>, with which a fiber waits.  addEvent *)
(* demands that no other one does, but its callers do not see to it: any      *)
(* fiber may call it at any time, also on a number that was closed while      *)
(* another waited.  Everything a method does with an FdContext is inside the  *)
(* context's mutex and is one step; what epoll_wait has returned is used in   *)
(* later steps, one for each descriptor.                                     *)
(***************************************************************************)
EXTENDS Integers, FiniteSets

CONSTANTS
  Fds,
  Threads,      \* the threads an IOManager may be started with
  Closable,     \* the descriptors that may be closed while events wait on them
  MaxWaiters    \* bound on the fibers that wait with one registration

ASSUME FdAssumption ==
  /\ IsFiniteSet(Fds)
  /\ IsFiniteSet(Threads)
  /\ Closable \subseteq Fds
  /\ MaxWaiters \in Nat

Event == {"READ", "WRITE"}
Regs == Fds \X Event

VARIABLES
  events,               \* the bits of FdContext::events of all descriptors
  ctx,                  \* the EventContexts that are filled in
  interest,             \* what the epoll instance is asked to report
  state,                \* of the descriptors: readable, writable, "ERR"
  edge,                 \* descriptors with something new to report (EPOLLET)
  batch,                \* what epoll_wait gave each thread, not yet handled
  waiting,              \* how many fibers wait with each registration
  queued,               \* how many of them stand in the scheduler's list
  m_pendingEventCount,
  failed,               \* the SYLAR_ASSERT that has failed, by its method
  m_threads             \* the threads this IOManager was started with

vars == <<events, ctx, interest, state, edge, batch, waiting, queued,
          m_pendingEventCount, failed, m_threads>>

aborted == failed # {}

Of(S, fd) == {e \in Event \cup {"ERR"} : <<fd, e>> \in S}
Pairs(fd, E) == {fd} \X E

Init ==
  /\ events = {}
  /\ ctx = {}
  /\ interest = {}
  /\ state = {}
  /\ edge = {}
  /\ batch = [t \in Threads |-> {}]
  /\ waiting = [r \in Regs |-> 0]
  /\ queued = [r \in Regs |-> 0]
  /\ m_pendingEventCount = 0
  /\ failed = {}
  /\ m_threads \in (SUBSET Threads) \ {{}}

-----------------------------------------------------------------------------
(* epoll and the descriptors.                                               *)

\* epoll_ctl sets the interest in fd to E.  ADD fails on a descriptor epoll
\* knows, MOD and DEL fail on one it does not.
CtlFails(fd, old) == (old = {}) # (Of(interest, fd) = {})

\* A new interest is reported at once if the descriptor is ready for it.
Ctl(fd, E) ==
  /\ interest' = (interest \ Pairs(fd, Event)) \cup Pairs(fd, E)
  /\ edge' = IF E # {} /\ Of(state, fd) \cap (E \cup {"ERR"}) # {}
             THEN edge \cup {fd} ELSE edge \ {fd}

\* Data, room for data, an error or a hang-up.
Arrive(fd, e) ==
  /\ ~aborted
  /\ <<fd, e>> \notin state
  /\ state' = state \cup {<<fd, e>>}
  /\ edge' = IF Of(interest, fd) # {} /\ e \in Of(interest, fd) \cup {"ERR"}
             THEN edge \cup {fd} ELSE edge
  /\ UNCHANGED <<events, ctx, interest, batch, waiting, queued,
                 m_pendingEventCount, failed>>

\* More data for a descriptor that is readable is news again.
ArriveMore(fd) ==
  /\ ~aborted
  /\ <<fd, "READ">> \in state \cap interest
  /\ edge' = edge \cup {fd}
  /\ UNCHANGED <<events, ctx, interest, state, batch, waiting, queued,
                 m_pendingEventCount, failed>>

\* close(fd) of the system: epoll forgets the descriptor, whose number is free
\* again.  The hooked close calls cancelAll first, but not in one step.
Close(fd) ==
  /\ ~aborted
  /\ fd \in Closable
  /\ interest' = interest \ Pairs(fd, Event)
  /\ edge' = edge \ {fd}
  /\ state' = state \ Pairs(fd, Event \cup {"ERR"})
  /\ UNCHANGED <<events, ctx, batch, waiting, queued, m_pendingEventCount, failed>>

-----------------------------------------------------------------------------
(* The callers.  They run on threads of the IOManager, hence only while some *)
(* thread is not in the event loop of idle.                                  *)

Called == ~aborted /\ \E t \in m_threads : batch[t] = {}

\* The fiber is resumed and uses up what it waited for, or not.
Resume(r, used) ==
  /\ Called
  /\ queued[r] > 0
  /\ queued' = [queued EXCEPT ![r] = @ - 1]
  /\ waiting' = [waiting EXCEPT ![r] = @ - 1]
  /\ state' = IF used THEN state \ {r} ELSE state
  /\ UNCHANGED <<events, ctx, interest, edge, batch, m_pendingEventCount, failed>>

\* The assertions of addEvent: no fiber is registered for the event
\* (iomanager.cc:177), and once epoll has taken it, its EventContext is empty
\* (iomanager.cc:200).
addEventFails(r) ==
  IF r \in events THEN {"addEvent"}
  ELSE IF r \in ctx /\ ~CtlFails(r[1], Of(events, r[1])) THEN {"context"}
  ELSE {}

\* Mutant: MOD with the new event only.
addEventForgets(r) ==
  LET fd == r[1]
      old == Of(events, fd)
  IN
  /\ Called
  /\ waiting[r] < MaxWaiters
  /\ failed' = addEventFails(r)
  /\ IF failed' # {}
     THEN UNCHANGED <<events, ctx, interest, edge, waiting, m_pendingEventCount>>
     ELSE /\ ~CtlFails(fd, old)
          /\ Ctl(fd, {r[2]})
          /\ events' = events \cup {r}
          /\ ctx' = ctx \cup {r}
          /\ waiting' = [waiting EXCEPT ![r] = @ + 1]
          /\ m_pendingEventCount' = m_pendingEventCount + 1
  /\ UNCHANGED <<state, batch, queued>>

\* addEvent(fd, event); the fiber then yields.  It returns -1 and changes
\* nothing if epoll_ctl fails.
addEvent(r) ==
  LET fd == r[1]
      old == Of(events, fd)
  IN
  /\ Called
  /\ waiting[r] < MaxWaiters
  /\ failed' = addEventFails(r)
  /\ IF failed' # {}
     THEN UNCHANGED <<events, ctx, interest, edge, waiting, m_pendingEventCount>>
     ELSE /\ ~CtlFails(fd, old)
          /\ Ctl(fd, old \cup {r[2]})
          /\ events' = events \cup {r}
          /\ ctx' = ctx \cup {r}
          /\ waiting' = [waiting EXCEPT ![r] = @ + 1]
          /\ m_pendingEventCount' = m_pendingEventCount + 1
  /\ UNCHANGED <<state, batch, queued>>

\* Mutant: the EventContext is not reset.
delEventKeepsContext(r) ==
  LET fd == r[1]
      left == Of(events, fd) \ {r[2]}
  IN
  /\ Called
  /\ r \in events
  /\ ~CtlFails(fd, Of(events, fd))
  /\ Ctl(fd, left)
  /\ events' = events \ {r}
  /\ waiting' = [waiting EXCEPT ![r] = @ - 1]
  /\ m_pendingEventCount' = m_pendingEventCount - 1
  /\ UNCHANGED <<ctx, state, batch, queued, failed>>

\* Mutant: the event still counts as pending.
delEventUncounted(r) ==
  LET fd == r[1]
      left == Of(events, fd) \ {r[2]}
  IN
  /\ Called
  /\ r \in events
  /\ ~CtlFails(fd, Of(events, fd))
  /\ Ctl(fd, left)
  /\ events' = events \ {r}
  /\ ctx' = ctx \ {r}
  /\ waiting' = [waiting EXCEPT ![r] = @ - 1]
  /\ UNCHANGED <<state, batch, queued, m_pendingEventCount,
                 failed>>

\* delEvent(fd, event): whoever waited is dropped without being scheduled, and
\* the event may be registered anew.
delEvent(r) ==
  LET fd == r[1]
      left == Of(events, fd) \ {r[2]}
  IN
  /\ Called
  /\ r \in events
  /\ ~CtlFails(fd, Of(events, fd))
  /\ Ctl(fd, left)
  /\ events' = events \ {r}
  /\ ctx' = ctx \ {r}
  /\ waiting' = [waiting EXCEPT ![r] = @ - 1]
  /\ m_pendingEventCount' = m_pendingEventCount - 1
  /\ UNCHANGED <<state, batch, queued, failed>>

\* triggerEvent for the events E of fd, each with its --m_pendingEventCount:
\* an event that is not registered fails the assertion.
TriggerEvents(fd, E) ==
  LET T == Pairs(fd, E) IN
  /\ failed' = IF T \subseteq events THEN failed ELSE {"triggerEvent"}
  /\ events' = events \ T
  /\ ctx' = ctx \ T
  /\ queued' = [r \in Regs |-> IF r \in T \cap ctx THEN queued[r] + 1 ELSE queued[r]]
  /\ m_pendingEventCount' = m_pendingEventCount - Cardinality(T \cap events)

\* Mutant: the event is removed and not triggered.
cancelEventSilently(r) ==
  LET fd == r[1]
      left == Of(events, fd) \ {r[2]}
  IN
  /\ Called
  /\ r \in events
  /\ ~CtlFails(fd, Of(events, fd))
  /\ Ctl(fd, left)
  /\ events' = events \ {r}
  /\ ctx' = ctx \ {r}
  /\ m_pendingEventCount' = m_pendingEventCount - 1
  /\ UNCHANGED <<state, batch, waiting, queued, failed>>

\* cancelEvent(fd, event)
cancelEvent(r) ==
  LET fd == r[1]
      left == Of(events, fd) \ {r[2]}
  IN
  /\ Called
  /\ r \in events
  /\ ~CtlFails(fd, Of(events, fd))
  /\ Ctl(fd, left)
  /\ TriggerEvents(fd, {r[2]})
  /\ UNCHANGED <<state, batch, waiting>>

\* cancelAll(fd)
cancelAll(fd) ==
  /\ Called
  /\ Of(events, fd) # {}
  /\ ~CtlFails(fd, Of(events, fd))
  /\ Ctl(fd, {})
  /\ TriggerEvents(fd, Of(events, fd))
  /\ UNCHANGED <<state, batch, waiting>>

-----------------------------------------------------------------------------
(* IOManager::idle.                                                         *)

Report(fd) == Of(state, fd) \cap (Of(interest, fd) \cup {"ERR"})

\* epoll_wait
epoll_wait(t) ==
  /\ ~aborted
  /\ batch[t] = {}
  /\ edge # {}
  /\ batch' = [batch EXCEPT ![t] = UNION {Pairs(fd, Report(fd)) : fd \in edge}]
  /\ edge' = {}
  /\ UNCHANGED <<events, ctx, interest, state, waiting, queued,
                 m_pendingEventCount, failed>>

\* What one reported descriptor is taken to be ready for: after an error or a
\* hang-up everything that is registered.
real_events(t, fd) ==
  (Of(batch[t], fd) \ {"ERR"})
    \cup (IF <<fd, "ERR">> \in batch[t] THEN Of(events, fd) ELSE {})

\* The body of the loop over the reported events, for one descriptor.
Handle(t, fd) ==
  LET reg == Of(events, fd)
      real == real_events(t, fd)
  IN
  /\ ~aborted
  /\ Of(batch[t], fd) # {}
  /\ batch' = [batch EXCEPT ![t] = @ \ Pairs(fd, Event \cup {"ERR"})]
  /\ IF reg \cap real = {} \/ CtlFails(fd, reg)
     THEN UNCHANGED <<events, ctx, interest, edge, queued, m_pendingEventCount,
                      failed>>
     ELSE /\ Ctl(fd, reg \ real)
          /\ TriggerEvents(fd, real)
  /\ UNCHANGED <<state, waiting>>

-----------------------------------------------------------------------------

Callers ==
  \/ \E r \in Regs : \/ \E used \in BOOLEAN : Resume(r, used)
                     \/ addEvent(r)
                     \/ delEvent(r)
                     \/ cancelEvent(r)
  \/ \E fd \in Fds : cancelAll(fd)

System ==
  \E fd \in Fds :
    \/ \E e \in Event \cup {"ERR"} : Arrive(fd, e)
    \/ ArriveMore(fd)
    \/ Close(fd)

Idle(t) == epoll_wait(t) \/ \E fd \in Fds : Handle(t, fd)

Next ==
  /\ Callers \/ System \/ \E t \in m_threads : Idle(t)
  /\ UNCHANGED m_threads

Spec == Init /\ [][Next]_vars

\* The threads go on handling events and resuming fibers.
FairSpec ==
  /\ Spec
  /\ \A t \in Threads : WF_vars(t \in m_threads /\ Idle(t) /\ UNCHANGED m_threads)
  /\ \A r \in Regs : WF_vars((\E used \in BOOLEAN : Resume(r, used)) /\ UNCHANGED m_threads)

-----------------------------------------------------------------------------
(* Properties.                                                              *)

\* Types; m_pendingEventCount, a size_t, never goes below zero.
TypeOK ==
  /\ events \subseteq Regs
  /\ ctx \subseteq Regs
  /\ interest \subseteq Regs
  /\ state \subseteq Fds \X (Event \cup {"ERR"})
  /\ edge \subseteq Fds
  /\ batch \in [Threads -> SUBSET (Fds \X (Event \cup {"ERR"}))]
  /\ waiting \in [Regs -> Nat]
  /\ queued \in [Regs -> Nat]
  /\ m_pendingEventCount \in Nat
  /\ failed \subseteq {"addEvent", "context", "triggerEvent"}
  /\ m_threads \subseteq Threads

\* m_pendingEventCount, which keeps IOManager::stopping from letting the threads
\* go, is the number of registered events, whichever of the paths that remove
\* one a registration takes and whether or not epoll_ctl fails on it.
PendingExact ==
  aborted \/ m_pendingEventCount = Cardinality(events)

\* A fiber that waits stands in exactly one place: it is registered, with its
\* EventContext filled in, or it is in the scheduler's list once.  So it is
\* neither lost nor resumed twice when several threads handle, cancel and
\* register the same event and when others wait for it after it.
WaitsInOnePlace ==
  \/ aborted
  \/ /\ ctx = events
     /\ \A r \in Regs :
          queued[r] + (IF r \in events THEN 1 ELSE 0) = waiting[r]

\* In an IOManager with one thread the only assertion that can fail is the one
\* with which addEvent refuses a second fiber for an event (iomanager.cc:177),
\* as on a number that was closed under the first and reused.  The ones on
\* EventContext and in triggerEvent (iomanager.cc:83) never do: what epoll_wait
\* reported is handled before any caller runs.  With more threads one of two
\* reported events can be cancelled in between.
OneThreadOnlyRefuses == Cardinality(m_threads) = 1 => failed \subseteq {"addEvent"}

\* A fiber that waits for what has happened is resumed: with EPOLLET no report
\* is lost between epoll_wait, the handling of its result and the changes other
\* fibers make to the descriptor's registration, unless the descriptor is closed
\* or a fiber that waited before uses up what there was.
WakesUp ==
  \A fd \in Fds, e \in Event :
    (<<fd, e>> \in events \cap state /\ Of(interest, fd) # {})
      ~> (<<fd, e>> \notin events \cap state \/ Of(interest, fd) = {} \/ aborted)

=============================================================================
