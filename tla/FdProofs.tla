------------------------------- MODULE FdProofs -------------------------------
(***************************************************************************)
(* Proofs about FdEvents, for any descriptors and threads.                   *)
(***************************************************************************)
EXTENDS FdEvents, FiniteSetTheorems, TLAPS

-----------------------------------------------------------------------------
(* The inductive invariant.                                                 *)

\* The counter and the places of the fibers also after an abort.
Counted == m_pendingEventCount = Cardinality(events)

Placed ==
  /\ ctx = events
  /\ \A r \in Regs :
       queued[r] + (IF r \in events THEN 1 ELSE 0) = waiting[r]

\* epoll reports nothing that is not registered.
Asked == interest \subseteq events

\* What the only thread has been told and not yet handled is still registered.
Fresh ==
  Cardinality(m_threads) = 1 =>
    /\ failed \subseteq {"addEvent"}
    /\ \A t \in m_threads : \A r \in Regs : r \in batch[t] => r \in events

Kept == TypeOK /\ Counted /\ Placed /\ Asked

-----------------------------------------------------------------------------
(* Descriptors and their registrations.                                     *)

\* A registration is its descriptor and its event.
LEMMA RegParts ==
  ASSUME NEW r \in Regs
  PROVE  r[1] \in Fds /\ r[2] \in Event /\ r = <<r[1], r[2]>>
BY DEF Regs

\* What Pairs and Of mean for a registration.
LEMMA PairsOf ==
  ASSUME NEW fd \in Fds, NEW E, NEW S, NEW r \in Regs
  PROVE  /\ r \in Pairs(fd, E) <=> r[1] = fd /\ r[2] \in E
         /\ r[1] = fd => (r[2] \in Of(S, fd) <=> r \in S)
<1>1. r = <<r[1], r[2]>> /\ r[2] \in Event
  BY RegParts
<1>2. r \in Pairs(fd, E) <=> r[1] = fd /\ r[2] \in E
  BY <1>1 DEF Pairs
<1>3. r[1] = fd => (r[2] \in Of(S, fd) <=> r \in S)
  BY <1>1 DEF Of
<1> QED
  BY <1>2, <1>3

\* The events of a set of registrations are events.
LEMMA OfEvents ==
  ASSUME NEW fd \in Fds, NEW S \in SUBSET Regs
  PROVE  Of(S, fd) \subseteq Event
BY DEF Of, Regs, Event

\* Events of a descriptor, paired with it, are registrations.
LEMMA PairsRegs ==
  ASSUME NEW fd \in Fds, NEW E \in SUBSET Event
  PROVE  Pairs(fd, E) \subseteq Regs
BY DEF Pairs, Regs

\* There are finitely many registrations, two for each descriptor.
LEMMA RegsFinite == IsFiniteSet(Regs)
<1>1. IsFiniteSet({"READ"})
  BY FS_Singleton
<1>2. IsFiniteSet(Event)
  <2>1. IsFiniteSet({"READ"} \cup {"WRITE"})
    BY <1>1, FS_AddElement
  <2>2. {"READ"} \cup {"WRITE"} = Event
    BY DEF Event
  <2> QED
    BY <2>1, <2>2
<1> QED
  BY <1>2, FdAssumption, FS_Product DEF Regs

\* What epoll_ctl leaves of the interest.
LEMMA CtlInterest ==
  ASSUME NEW fd \in Fds, NEW E \in SUBSET Event,
         interest \subseteq Regs, edge \subseteq Fds, Ctl(fd, E)
  PROVE  /\ interest' \subseteq Regs
         /\ edge' \subseteq Fds
         /\ \A r \in Regs : r \in interest' <=>
              IF r[1] = fd THEN r[2] \in E ELSE r \in interest
<1>1. Pairs(fd, E) \subseteq Regs
  BY PairsRegs
<1>2. interest' = (interest \ Pairs(fd, Event)) \cup Pairs(fd, E)
  BY DEF Ctl
<1>3. interest' \subseteq Regs
  BY <1>1, <1>2
<1>4. edge' \subseteq Fds
  BY DEF Ctl
<1>5. ASSUME NEW r \in Regs
      PROVE  r \in interest' <=> IF r[1] = fd THEN r[2] \in E ELSE r \in interest
  <2>1. r \in Pairs(fd, Event) <=> r[1] = fd
    BY PairsOf, RegParts
  <2>2. r \in Pairs(fd, E) <=> r[1] = fd /\ r[2] \in E
    BY PairsOf
  <2> QED
    BY <1>2, <2>1, <2>2
<1> QED
  BY <1>3, <1>4, <1>5

\* triggerEvent removes, counts and schedules the same events.
LEMMA TriggerKeeps ==
  ASSUME NEW fd \in Fds, NEW E \in SUBSET Event, TypeOK, Counted, Placed,
         TriggerEvents(fd, E), waiting' = waiting
  PROVE  /\ events' = events \ Pairs(fd, E)
         /\ events' \subseteq Regs /\ ctx' \subseteq Regs
         /\ queued' \in [Regs -> Nat]
         /\ m_pendingEventCount' \in Nat
      /\ failed' \subseteq {"addEvent", "context", "triggerEvent"}
         /\ Counted' /\ Placed'
<1> DEFINE T == Pairs(fd, E)
<1>1. /\ events' = events \ T
      /\ ctx' = ctx \ T
      /\ queued' = [r \in Regs |-> IF r \in T \cap ctx THEN queued[r] + 1 ELSE queued[r]]
      /\ m_pendingEventCount' = m_pendingEventCount - Cardinality(T \cap events)
      /\ failed' \subseteq {"addEvent", "context", "triggerEvent"}
  BY DEF TriggerEvents, TypeOK
<1>2. events \subseteq Regs /\ ctx = events /\ queued \in [Regs -> Nat]
  BY DEF TypeOK, Placed
<1>3. IsFiniteSet(events)
  BY <1>2, RegsFinite, FS_Subset
<1>4. Counted'
  <2>1. Cardinality(events \ T) = Cardinality(events) - Cardinality(events \cap T)
    BY <1>3, FS_Difference
  <2>2. events \cap T = T \cap events
    OBVIOUS
  <2> QED
    BY <1>1, <2>1, <2>2 DEF Counted
<1>5. m_pendingEventCount' \in Nat
  <2>1. IsFiniteSet(events \ T)
    BY <1>3, FS_Difference
  <2> QED
    BY <1>1, <1>4, <2>1, FS_CardinalityType DEF Counted
<1>6. Placed'
  <2>1. ctx' = events'
    BY <1>1, <1>2
  <2>2. ASSUME NEW r \in Regs
        PROVE  queued'[r] + (IF r \in events' THEN 1 ELSE 0) = waiting'[r]
    <3>1. queued[r] + (IF r \in events THEN 1 ELSE 0) = waiting[r]
      BY DEF Placed
    <3>2. queued'[r] = IF r \in T \cap events THEN queued[r] + 1 ELSE queued[r]
      BY <1>1, <1>2
    <3>3. queued[r] \in Nat
      BY <1>2
    <3> QED
      BY <1>1, <3>1, <3>2, <3>3
  <2> QED
    BY <2>1, <2>2 DEF Placed
<1>7. queued' \in [Regs -> Nat]
  BY <1>1, <1>2
<1> QED
  BY <1>1, <1>2, <1>4, <1>5, <1>6, <1>7

\* epoll_ctl and triggerEvent together leave the interest within the
\* registrations, if epoll is asked for what is left of those.
LEMMA CtlTriggerKeeps ==
  ASSUME NEW fd \in Fds, NEW E \in SUBSET Event, Kept,
         Ctl(fd, Of(events, fd) \ E), TriggerEvents(fd, E), waiting' = waiting,
         UNCHANGED m_threads, state' = state,
         batch' \in [Threads -> SUBSET (Fds \X (Event \cup {"ERR"}))]
  PROVE  Kept'
<1> USE DEF Kept
<1>1. events \subseteq Regs /\ interest \subseteq Regs /\ edge \subseteq Fds
  BY DEF TypeOK
<1>2. Of(events, fd) \subseteq Event
  BY <1>1, OfEvents
<1>3. /\ interest' \subseteq Regs /\ edge' \subseteq Fds
      /\ \A r \in Regs : r \in interest' <=>
           IF r[1] = fd THEN r[2] \in Of(events, fd) \ E ELSE r \in interest
  BY <1>1, <1>2, CtlInterest
<1>4. /\ events' = events \ Pairs(fd, E)
      /\ events' \subseteq Regs /\ ctx' \subseteq Regs
      /\ queued' \in [Regs -> Nat]
      /\ m_pendingEventCount' \in Nat
      /\ failed' \subseteq {"addEvent", "context", "triggerEvent"}
      /\ Counted' /\ Placed'
  BY TriggerKeeps
<1>5. Asked'
  <2> SUFFICES ASSUME NEW r \in interest' PROVE r \in events'
    BY DEF Asked
  <2>1. r \in Regs
    BY <1>3
  <2>2. /\ r \in Pairs(fd, E) <=> r[1] = fd /\ r[2] \in E
        /\ r[1] = fd => (r[2] \in Of(events, fd) <=> r \in events)
    BY <2>1, PairsOf
  <2> QED
    BY <1>3, <1>4, <2>1, <2>2 DEF Asked
<1>6. TypeOK'
  BY <1>3, <1>4 DEF TypeOK
<1> QED
  BY <1>4, <1>5, <1>6

-----------------------------------------------------------------------------
(* Every step keeps the invariant.                                          *)

\* addEvent either refuses a second fiber or registers the only one.
LEMMA AddKeeps ==
  ASSUME NEW r \in Regs, Kept, addEvent(r), UNCHANGED m_threads
  PROVE  /\ Kept' /\ batch' = batch
         /\ failed' \subseteq {"addEvent"} /\ events \subseteq events'
<1> USE DEF Kept
<1> DEFINE fd == r[1]
<1>1. fd \in Fds /\ r[2] \in Event /\ r = <<fd, r[2]>>
  BY RegParts
<1>2. /\ failed' = addEventFails(r)
      /\ UNCHANGED <<state, batch, queued>>
  BY DEF addEvent
<1>3. /\ events \subseteq Regs /\ interest \subseteq Regs /\ edge \subseteq Fds
      /\ ctx = events /\ waiting \in [Regs -> Nat]
      /\ queued \in [Regs -> Nat]
  BY DEF TypeOK, Placed
<1>4. SUFFICES ASSUME r \notin events
               PROVE  Kept' /\ failed' \subseteq {"addEvent"} /\ events \subseteq events'
                        /\ batch' = batch
  <2>1. CASE r \in events
    <3>1. failed' = {"addEvent"}
      BY <1>2, <2>1 DEF addEventFails
    <3>2. UNCHANGED <<events, ctx, interest, edge, waiting, m_pendingEventCount>>
      BY <3>1 DEF addEvent
    <3> QED
      BY <1>2, <3>1, <3>2 DEF TypeOK, Counted, Placed, Asked
  <2> QED
    BY <2>1, <1>4
<1>5. /\ Ctl(fd, Of(events, fd) \cup {r[2]})
      /\ events' = events \cup {r}
      /\ ctx' = ctx \cup {r}
      /\ waiting' = [waiting EXCEPT ![r] = @ + 1]
      /\ m_pendingEventCount' = m_pendingEventCount + 1
      /\ failed' = {}
  <2>1. failed' = {}
    BY <1>2, <1>3, <1>4 DEF addEventFails
  <2> QED
    BY <2>1 DEF addEvent
<1>6. Of(events, fd) \cup {r[2]} \in SUBSET Event
  BY <1>1, <1>3, OfEvents
<1>7. /\ interest' \subseteq Regs /\ edge' \subseteq Fds
      /\ \A q \in Regs : q \in interest' <=>
           IF q[1] = fd THEN q[2] \in Of(events, fd) \cup {r[2]} ELSE q \in interest
  BY <1>1, <1>3, <1>5, <1>6, CtlInterest
<1>8. Asked'
  <2> SUFFICES ASSUME NEW q \in interest' PROVE q \in events'
    BY DEF Asked
  <2>1. q \in Regs
    BY <1>7
  <2>2. /\ q = <<q[1], q[2]>>
        /\ q[1] = fd => (q[2] \in Of(events, fd) <=> q \in events)
    BY <1>1, <2>1, PairsOf, RegParts
  <2> QED
    BY <1>1, <1>5, <1>7, <2>1, <2>2 DEF Asked
<1>9. Counted' /\ m_pendingEventCount' \in Nat
  <2>1. IsFiniteSet(events)
    BY <1>3, RegsFinite, FS_Subset
  <2>2. Cardinality(events \cup {r}) = Cardinality(events) + 1
    BY <1>4, <2>1, FS_AddElement
  <2> QED
    BY <1>5, <2>2 DEF Counted, TypeOK
<1>10. Placed'
  BY <1>2, <1>3, <1>4, <1>5 DEF Placed
<1>11. TypeOK'
  BY <1>2, <1>3, <1>5, <1>7, <1>9 DEF TypeOK
<1> QED
  BY <1>2, <1>5, <1>8, <1>9, <1>10, <1>11

\* delEvent takes one registration away.
LEMMA DelKeeps ==
  ASSUME NEW r \in Regs, Kept, delEvent(r), UNCHANGED m_threads
  PROVE  Kept' /\ failed' = failed /\ batch' = batch
<1> USE DEF Kept
<1> DEFINE fd == r[1]
<1>1. fd \in Fds /\ r[2] \in Event /\ r = <<fd, r[2]>>
  BY RegParts
<1>2. /\ r \in events
      /\ Ctl(fd, Of(events, fd) \ {r[2]})
      /\ events' = events \ {r}
      /\ ctx' = ctx \ {r}
      /\ waiting' = [waiting EXCEPT ![r] = @ - 1]
      /\ m_pendingEventCount' = m_pendingEventCount - 1
      /\ UNCHANGED <<state, batch, queued, failed>>
  BY DEF delEvent
<1>3. /\ events \subseteq Regs /\ interest \subseteq Regs /\ edge \subseteq Fds
      /\ ctx = events /\ waiting \in [Regs -> Nat]
      /\ queued \in [Regs -> Nat]
  BY DEF TypeOK, Placed
<1>4. Of(events, fd) \ {r[2]} \in SUBSET Event
  BY <1>1, <1>3, OfEvents
<1>5. /\ interest' \subseteq Regs /\ edge' \subseteq Fds
      /\ \A q \in Regs : q \in interest' <=>
           IF q[1] = fd THEN q[2] \in Of(events, fd) \ {r[2]} ELSE q \in interest
  BY <1>1, <1>2, <1>3, <1>4, CtlInterest
<1>6. Asked'
  <2> SUFFICES ASSUME NEW q \in interest' PROVE q \in events'
    BY DEF Asked
  <2>1. q \in Regs
    BY <1>5
  <2>2. /\ q = <<q[1], q[2]>>
        /\ q[1] = fd => (q[2] \in Of(events, fd) <=> q \in events)
    BY <1>1, <2>1, PairsOf, RegParts
  <2> QED
    BY <1>1, <1>2, <1>5, <2>1, <2>2 DEF Asked
<1>7. Counted' /\ m_pendingEventCount' \in Nat
  <2>1. IsFiniteSet(events)
    BY <1>3, RegsFinite, FS_Subset
  <2>2. /\ Cardinality(events \ {r}) = Cardinality(events) - 1
        /\ IsFiniteSet(events \ {r})
    BY <1>2, <2>1, FS_RemoveElement
  <2>3. Cardinality(events \ {r}) \in Nat
    BY <2>2, FS_CardinalityType
  <2> QED
    BY <1>2, <2>2, <2>3 DEF Counted
<1>8. Placed'
  <2>1. waiting[r] = queued[r] + 1 /\ queued[r] \in Nat
    BY <1>2, <1>3 DEF Placed
  <2> QED
    BY <1>2, <1>3, <2>1 DEF Placed
<1>9. TypeOK'
  <2>1. waiting[r] - 1 \in Nat
    BY <1>2, <1>3 DEF Placed
  <2> QED
    BY <1>2, <1>3, <1>5, <1>7, <2>1 DEF TypeOK
<1> QED
  BY <1>2, <1>6, <1>7, <1>8, <1>9

\* cancelEvent and cancelAll trigger what they remove.
LEMMA CancelKeeps ==
  ASSUME NEW fd \in Fds, NEW E \in SUBSET Event, Pairs(fd, E) \subseteq events, Kept,
         Ctl(fd, Of(events, fd) \ E), TriggerEvents(fd, E),
         UNCHANGED <<state, batch, waiting, m_threads>>
  PROVE  Kept' /\ failed' = failed
<1>1. batch' \in [Threads -> SUBSET (Fds \X (Event \cup {"ERR"}))]
  BY DEF Kept, TypeOK
<1>2. Kept'
  BY <1>1, CtlTriggerKeeps
<1>3. failed' = failed
  BY DEF TriggerEvents
<1> QED
  BY <1>2, <1>3

\* What one reported descriptor is ready for is a set of events.
LEMMA RealEvents ==
  ASSUME NEW t \in Threads, NEW fd \in Fds, TypeOK
  PROVE  real_events(t, fd) \in SUBSET Event
<1>1. Of(events, fd) \subseteq Event
  BY OfEvents DEF TypeOK
<1>2. Of(batch[t], fd) \ {"ERR"} \subseteq Event
  BY DEF Of
<1> QED
  BY <1>1, <1>2 DEF real_events

\* The body of idle's loop.
LEMMA HandleKeeps ==
  ASSUME NEW t \in Threads, NEW fd \in Fds, Kept, Handle(t, fd), UNCHANGED m_threads
  PROVE  Kept'
<1> DEFINE real == real_events(t, fd)
           reg == Of(events, fd)
<1>1. real \in SUBSET Event
  BY RealEvents DEF Kept
<1>2. /\ batch' = [batch EXCEPT ![t] = @ \ Pairs(fd, Event \cup {"ERR"})]
      /\ UNCHANGED <<state, waiting>>
  BY DEF Handle
<1>3. batch' \in [Threads -> SUBSET (Fds \X (Event \cup {"ERR"}))]
  BY <1>2 DEF Kept, TypeOK
<1>4. CASE reg \cap real = {} \/ CtlFails(fd, reg)
  <2>1. UNCHANGED <<events, ctx, interest, edge, queued, m_pendingEventCount, failed>>
    BY <1>4 DEF Handle
  <2> QED
    BY <1>2, <1>3, <2>1 DEF Kept, TypeOK, Counted, Placed, Asked
<1>5. CASE ~(reg \cap real = {} \/ CtlFails(fd, reg))
  <2>1. Ctl(fd, reg \ real) /\ TriggerEvents(fd, real)
    BY <1>5 DEF Handle
  <2> QED
    BY <1>1, <1>2, <1>3, <2>1, CtlTriggerKeeps
<1> QED
  BY <1>4, <1>5

\* Arrivals, closing, resuming and epoll_wait leave the registrations alone.
LEMMA OthersKeep ==
  ASSUME Kept, UNCHANGED <<events, ctx, m_pendingEventCount, failed, m_threads>>,
         \/ \E fd \in Fds, e \in Event \cup {"ERR"} : Arrive(fd, e)
         \/ \E fd \in Fds : ArriveMore(fd) \/ Close(fd)
         \/ \E r \in Regs, used \in BOOLEAN : Resume(r, used)
         \/ \E t \in Threads : epoll_wait(t)
  PROVE  Kept'
<1> USE DEF Kept
<1>1. CASE \E fd \in Fds, e \in Event \cup {"ERR"} : Arrive(fd, e)
  BY <1>1 DEF Arrive, TypeOK, Counted, Placed, Asked
<1>2. ASSUME NEW fd \in Fds, ArriveMore(fd) PROVE Kept'
  BY <1>2 DEF ArriveMore, TypeOK, Counted, Placed, Asked
<1>3. ASSUME NEW fd \in Fds, Close(fd) PROVE Kept'
  BY <1>3 DEF Close, TypeOK, Counted, Placed, Asked
<1>4. ASSUME NEW r \in Regs, NEW used \in BOOLEAN, Resume(r, used) PROVE Kept'
  <2>1. /\ queued[r] > 0
        /\ queued' = [queued EXCEPT ![r] = @ - 1]
        /\ waiting' = [waiting EXCEPT ![r] = @ - 1]
        /\ state' \subseteq state
        /\ UNCHANGED <<interest, edge, batch>>
    BY <1>4 DEF Resume
  <2>2. /\ queued \in [Regs -> Nat] /\ waiting \in [Regs -> Nat]
        /\ queued[r] \in Nat
    BY DEF TypeOK
  <2>3. queued[r] - 1 \in Nat /\ waiting[r] - 1 \in Nat
    BY <2>1, <2>2 DEF Placed
  <2>4. Placed'
    BY <2>1, <2>2, <2>3 DEF Placed
  <2>5. TypeOK'
    BY <2>1, <2>2, <2>3 DEF TypeOK
  <2> QED
    BY <2>1, <2>4, <2>5 DEF Counted, Asked
<1>5. ASSUME NEW t \in Threads, epoll_wait(t) PROVE Kept'
  <2>1. /\ batch' = [batch EXCEPT ![t] = UNION {Pairs(fd, Report(fd)) : fd \in edge}]
        /\ edge' = {}
        /\ UNCHANGED <<interest, state, waiting, queued>>
    BY <1>5 DEF epoll_wait
  <2>2. ASSUME NEW fd \in edge
        PROVE  Pairs(fd, Report(fd)) \subseteq Fds \X (Event \cup {"ERR"})
    BY DEF Pairs, Report, Of, TypeOK
  <2>3. UNION {Pairs(fd, Report(fd)) : fd \in edge} \subseteq Fds \X (Event \cup {"ERR"})
    BY <2>2
  <2> QED
    BY <2>1, <2>3 DEF TypeOK, Counted, Placed, Asked
<1> QED
  BY <1>1, <1>2, <1>3, <1>4, <1>5

\* Kept is inductive.
LEMMA KeptStep ==
  ASSUME Kept, [Next]_vars
  PROVE  Kept'
<1>1. CASE UNCHANGED vars
  BY <1>1 DEF vars, Kept, TypeOK, Counted, Placed, Asked
<1>2. CASE Next
  <2>1. UNCHANGED m_threads
    BY <1>2 DEF Next
  <2>2. ASSUME NEW r \in Regs, NEW used \in BOOLEAN, Resume(r, used) PROVE Kept'
    BY <2>1, <2>2, OthersKeep DEF Resume
  <2>3. ASSUME NEW r \in Regs, addEvent(r) PROVE Kept'
    BY <2>1, <2>3, AddKeeps
  <2>4. ASSUME NEW r \in Regs, delEvent(r) PROVE Kept'
    BY <2>1, <2>4, DelKeeps
  <2>5. ASSUME NEW r \in Regs, cancelEvent(r) PROVE Kept'
    <3>1. r[1] \in Fds /\ {r[2]} \in SUBSET Event
      BY RegParts
    <3>2. Pairs(r[1], {r[2]}) \subseteq events
      BY <2>5, RegParts DEF cancelEvent, Pairs
    <3> QED
      BY <2>1, <2>5, <3>1, <3>2, CancelKeeps DEF cancelEvent
  <2>6. ASSUME NEW fd \in Fds, cancelAll(fd) PROVE Kept'
    <3>1. Of(events, fd) \in SUBSET Event
      BY OfEvents DEF Kept, TypeOK
    <3>2. Pairs(fd, Of(events, fd)) \subseteq events
      BY DEF Pairs, Of
    <3>3. Of(events, fd) \ Of(events, fd) = {}
      OBVIOUS
    <3> QED
      BY <2>1, <2>6, <3>1, <3>2, <3>3, CancelKeeps DEF cancelAll
  <2>7. CASE System
    BY <2>1, <2>7, OthersKeep DEF System, Arrive, ArriveMore, Close
  <2>8. ASSUME NEW t \in m_threads, Idle(t) PROVE Kept'
    <3>1. t \in Threads
      BY DEF Kept, TypeOK
    <3>2. CASE epoll_wait(t)
      BY <2>1, <3>1, <3>2, OthersKeep DEF epoll_wait
    <3>3. ASSUME NEW fd \in Fds, Handle(t, fd) PROVE Kept'
      BY <2>1, <3>1, <3>3, HandleKeeps
    <3> QED
      BY <2>8, <3>2, <3>3 DEF Idle
  <2> QED
    BY <1>2, <2>2, <2>3, <2>4, <2>5, <2>6, <2>7, <2>8 DEF Next, Callers
<1> QED
  BY <1>1, <1>2

\* A new IOManager has nothing registered and nothing counted.
LEMMA KeptInit == Init => Kept
<1> SUFFICES ASSUME Init PROVE Kept
  OBVIOUS
<1>1. Counted
  BY FS_EmptySet DEF Init, Counted
<1>2. TypeOK
  BY DEF Init, TypeOK
<1>3. Placed /\ Asked
  BY DEF Init, Placed, Asked
<1> QED
  BY <1>1, <1>2, <1>3 DEF Kept

\* For any descriptors and threads, the variables keep their types, and
\* m_pendingEventCount, unsigned in the code, never goes below zero.
THEOREM FdTypeCorrect == Spec => []TypeOK
<1>1. Kept => TypeOK
  BY DEF Kept
<1> QED
  BY KeptInit, KeptStep, <1>1, PTL DEF Spec

\* The pending count that keeps the threads from exiting is the number of
\* registered events, whatever path removes one and whichever epoll_ctl fails.
THEOREM PendingAlwaysExact == Spec => []PendingExact
<1>1. Kept => PendingExact
  BY DEF Kept, Counted, PendingExact
<1> QED
  BY KeptInit, KeptStep, <1>1, PTL DEF Spec

\* A waiting fiber is registered or in the scheduler's list, once and not both.
THEOREM AlwaysInOnePlace == Spec => []WaitsInOnePlace
<1>1. Kept => WaitsInOnePlace
  BY DEF Kept, Placed, WaitsInOnePlace
<1> QED
  BY KeptInit, KeptStep, <1>1, PTL DEF Spec

-----------------------------------------------------------------------------
(* One thread.                                                              *)

\* With one thread, a caller runs only when the batch is handled, and handling
\* a descriptor leaves the others alone.
LEMMA FreshStep ==
  ASSUME Kept, Fresh, [Next]_vars
  PROVE  Fresh'
<1>1. CASE UNCHANGED vars
  BY <1>1 DEF vars, Fresh
<1>2. CASE Next
  <2>1. UNCHANGED m_threads
    BY <1>2 DEF Next
  <2> SUFFICES ASSUME Cardinality(m_threads) = 1 PROVE Fresh'
    BY <2>1 DEF Fresh
  <2>2. IsFiniteSet(m_threads)
    BY FdAssumption, FS_Subset DEF Kept, TypeOK
  <2>3. PICK s : m_threads = {s}
    BY <2>2, FS_Singleton
  <2>4. s \in Threads
    BY <2>3 DEF Kept, TypeOK
  <2>5. failed \subseteq {"addEvent"} /\ \A r \in Regs : r \in batch[s] => r \in events
    BY <2>3 DEF Fresh
  <2> DEFINE Goal == /\ failed' \subseteq {"addEvent"}
                     /\ \A r \in Regs : r \in batch'[s] => r \in events'
  <2>6. SUFFICES Goal
    BY <2>1, <2>3 DEF Fresh
  <2>7. Called => batch[s] = {}
    BY <2>3 DEF Called
  <2>8. ASSUME UNCHANGED <<events, batch, failed>>
        PROVE  Goal
    BY <2>5, <2>8
  <2>9. ASSUME NEW r \in Regs, NEW used \in BOOLEAN, Resume(r, used)
        PROVE  UNCHANGED <<events, batch, failed>>
    BY <2>9 DEF Resume
  <2>10. ASSUME System PROVE UNCHANGED <<events, batch, failed>>
    BY <2>10 DEF System, Arrive, ArriveMore, Close
  <2>11. ASSUME NEW q \in Regs, addEvent(q)
         PROVE  Goal
    BY <2>1, <2>5, <2>11, AddKeeps
  <2>12. ASSUME NEW q \in Regs, delEvent(q)
         PROVE  Goal
    BY <2>5, <2>7, <2>12 DEF delEvent
  <2>13. ASSUME NEW q \in Regs, cancelEvent(q)
         PROVE  Goal
    <3>1. Pairs(q[1], {q[2]}) \subseteq events
      BY <2>13, RegParts DEF cancelEvent, Pairs
    <3>2. failed' = failed
      BY <2>13, <3>1 DEF cancelEvent, TriggerEvents
    <3> QED
      BY <2>5, <2>7, <2>13, <3>2 DEF cancelEvent
  <2>14. ASSUME NEW fd \in Fds, cancelAll(fd)
         PROVE  Goal
    <3>1. Pairs(fd, Of(events, fd)) \subseteq events
      BY DEF Pairs, Of
    <3>2. failed' = failed
      BY <2>14, <3>1 DEF cancelAll, TriggerEvents
    <3> QED
      BY <2>5, <2>7, <2>14, <3>2 DEF cancelAll
  <2>15. ASSUME epoll_wait(s)
         PROVE  Goal
    <3>1. /\ batch'[s] = UNION {Pairs(fd, Report(fd)) : fd \in edge}
          /\ UNCHANGED <<events, failed>>
      BY <2>4, <2>15 DEF epoll_wait, Kept, TypeOK
    <3>2. ASSUME NEW r \in Regs, r \in batch'[s] PROVE r \in events
      <4>1. PICK fd \in edge : r \in Pairs(fd, Report(fd))
        BY <3>1, <3>2
      <4>2. fd \in Fds
        BY DEF Kept, TypeOK
      <4>3. r[1] = fd /\ r[2] \in Report(fd)
        BY <4>1, <4>2, PairsOf
      <4>4. r[2] \in Of(interest, fd)
        BY <4>3, RegParts DEF Report, Event
      <4>5. r \in interest
        BY <4>2, <4>3, <4>4, PairsOf
      <4> QED
        BY <4>5 DEF Kept, Asked
    <3> QED
      BY <2>5, <3>1, <3>2
  <2>16. ASSUME NEW fd \in Fds, Handle(s, fd)
         PROVE  Goal
    <3> DEFINE real == real_events(s, fd)
    <3>1. real \in SUBSET Event
      BY <2>4, RealEvents DEF Kept
    <3>2. batch'[s] = batch[s] \ Pairs(fd, Event \cup {"ERR"})
      BY <2>4, <2>16 DEF Handle, Kept, TypeOK
    <3>3. ASSUME NEW e \in real PROVE <<fd, e>> \in events
      <4>1. <<fd, e>> \in Regs
        BY <3>1 DEF Regs
      <4>2. <<fd, e>> \in batch[s] \/ <<fd, e>> \in events
        BY DEF real_events, Of
      <4> QED
        BY <2>5, <4>1, <4>2
    <3>4. Pairs(fd, real) \subseteq events
      BY <3>3 DEF Pairs
    <3>5. failed' = failed /\ (events' = events \/ events' = events \ Pairs(fd, real))
      BY <2>5, <2>16, <3>4 DEF Handle, TriggerEvents
    <3>6. ASSUME NEW r \in Regs, r \in batch'[s] PROVE r \in events'
      <4>1. r \in events /\ r \notin Pairs(fd, Event \cup {"ERR"})
        BY <2>5, <3>2, <3>6
      <4>2. r \notin Pairs(fd, real)
        <5>1. Pairs(fd, real) \subseteq Pairs(fd, Event \cup {"ERR"})
          BY <3>1 DEF Pairs
        <5> QED
          BY <4>1, <5>1
      <4> QED
        BY <3>5, <4>1, <4>2
    <3> QED
      BY <2>5, <3>5, <3>6
  <2> QED
    BY <1>2, <2>3, <2>8, <2>9, <2>10, <2>11, <2>12, <2>13, <2>14, <2>15, <2>16
       DEF Next, Callers, Idle
<1> QED
  BY <1>1, <1>2

\* In an IOManager with one thread no assertion but addEvent's refusal of a
\* second fiber fails, however descriptors become ready, are cancelled, closed
\* and reused and however many fibers wait for the same event.
THEOREM OneThreadOnlyEverRefuses == Spec => []OneThreadOnlyRefuses
<1>1. Init => Fresh
  BY DEF Init, Fresh
<1>2. Fresh => OneThreadOnlyRefuses
  BY DEF Fresh, OneThreadOnlyRefuses
<1> QED
  BY KeptInit, KeptStep, FreshStep, <1>1, <1>2, PTL DEF Spec

=============================================================================
