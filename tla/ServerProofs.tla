---------------------------- MODULE ServerProofs ----------------------------
(***************************************************************************)
(* Proofs about Server, for any clients, bodies, size of the buffer and      *)
(* number of calls: the accept loops (LoopInv), where each session is in the *)
(* request it reads (Progress), and the table of servlets (TableInv).        *)
(***************************************************************************)
EXTENDS Server, FiniteSetTheorems, WellFoundedInduction, TLAPS

-----------------------------------------------------------------------------
(* The invariants.                                                           *)

Acceptor == [sock : Nat, pc : {"test", "accept", "wait", "gone"}]

\* The sockets that TcpServer has are open and, unless start() has overtaken a
\* stop(), its tasks run while m_isStop is set.
LoopInv ==
    /\ loops \in Seq(Acceptor)
    /\ m_socks \subseteq Nat /\ IsFiniteSet(m_socks) /\ calls \in Nat
    /\ closers \in Nat /\ m_isStop \in BOOLEAN /\ overtaken \in BOOLEAN
    /\ m_socks \subseteq open
    /\ ~overtaken /\ (closers > 0 \/ closing) => m_isStop
    /\ LoopsSound

Entry == [request : Nat, body : Seq(Nat \X Nat)]
Places == {"none", "backlog", "reset", "head", "body", "reply", "send", "closed"}

\* The sessions' variables are functions.
Maps ==
    /\ DOMAIN conn = Clients /\ DOMAIN stream = Clients /\ DOMAIN name = Clients
    /\ DOMAIN left = Clients /\ DOMAIN body = Clients
    /\ DOMAIN sent = Clients /\ DOMAIN handled = Clients

Types(c) ==
    /\ conn[c] \in Places
    /\ stream[c] \in Seq(Nat \X Nat) /\ body[c] \in Seq(Nat \X Nat)
    /\ name[c] \in Nat /\ left[c] \in Nat
    /\ sent[c] \in Seq(Requests) /\ handled[c] \in Seq(Entry)

\* The bytes s are those of request i behind the first k, up to the n-th.
Behind(s, i, k, n) == Len(s) = n - k /\ \A j \in 1..Len(s) : s[j] = <<i, k + j>>

\* The bytes of a client's i-th request.
Size(c, i) == 2 + sent[c][i].body

\* The request that is next, or under way; it has been sent, or not yet.
Turn(c) == Len(handled[c]) + 1
Asked(c) == Len(sent[c]) = Turn(c)
Unasked(c) == Len(sent[c]) = Len(handled[c])

\* Bytes of a body whose length was lost are still there.
Stray(c) == c \in cut /\ stream[c] # <<>> /\ stream[c][1][2] > 2

\* Nothing of a request has been read.
Fresh(c) ==
    \/ Unasked(c) /\ stream[c] = <<>>
    \/ Asked(c) /\ Behind(stream[c], Turn(c), 0, Size(c, Turn(c)))
    \/ Unasked(c) /\ c \in eof /\ stream[c] = << <<Turn(c), 1>> >>
    \/ Stray(c)

\* The first byte has been read, and no more.
Cut(c) ==
    /\ c \in cut /\ name[c] = Turn(c)
    /\ \/ Asked(c) /\ Behind(stream[c], Turn(c), 1, Size(c, Turn(c)))
       \/ Unasked(c) /\ c \in eof /\ stream[c] = <<>>

\* The head and part of the body have been read.
Partly(c) ==
    LET n == Size(c, Turn(c)) IN
    /\ Asked(c) /\ name[c] = Turn(c) /\ left[c] \in 1..(n - 2)
    /\ Behind(body[c], Turn(c), 2, n - left[c])
    /\ Behind(stream[c], Turn(c), n - left[c], n)

\* All has been read, or the length was lost.
Ready(c) ==
    /\ Asked(c) /\ name[c] = Turn(c)
    /\ \/ Behind(body[c], Turn(c), 2, Size(c, Turn(c))) /\ stream[c] = <<>>
       \/ c \in cut /\ body[c] = <<>> /\ (stream[c] = <<>> \/ Stray(c))

\* What servlets got.
Exact(c) ==
    \A j \in DOMAIN handled[c] :
        /\ handled[c][j].request = j
        /\ \/ Behind(handled[c][j].body, j, 2, Size(c, j))
           \/ c \in cut /\ handled[c][j].body = <<>>

Progress(c) ==
    /\ Len(handled[c]) <= Len(sent[c])
    /\ Exact(c)
    /\ conn[c] \in {"none", "backlog", "reset"} => handled[c] = <<>>
    /\ conn[c] \in {"none", "backlog"} => name[c] = 0
    /\ conn[c] \in {"none", "backlog", "head"} => IF name[c] = 0 THEN Fresh(c) ELSE Cut(c)
    /\ conn[c] = "body" => Partly(c)
    /\ conn[c] = "reply" => Ready(c)
    /\ conn[c] = "send" => Fresh(c) /\ Unasked(c)
    /\ conn[c] = "closed" /\ c \notin cut \cup late => Unasked(c)

SessionInv == Maps /\ \A c \in Clients \ piped : Types(c) /\ Progress(c)

Change == [op : {"add", "del"}, uri : Uris, servlet : Nat]
Glob == (Uris \ {Path}) \X (Nat \ {0})

\* The last change for a uri among changes, and in all.
LastOf(changes, uri) == SelectLastInSeq(changes, LAMBDA e : e.uri = uri)
Newest(uri) == LastOf(log, uri)
Live(uri) == Newest(uri) # 0 /\ log[Newest(uri)].op = "add"

\* The table has what the last changes left, patterns in the order of these.
TableInv ==
    /\ calls \in Nat /\ log \in Seq(Change) /\ m_globs \in Seq(Glob)
    /\ m_datas = IF Live(Path) THEN log[Newest(Path)].servlet ELSE Default
    /\ Live(Path) => log[Newest(Path)].servlet # Default
    /\ \A p \in DOMAIN m_globs :
          Live(m_globs[p][1]) /\ m_globs[p][2] = log[Newest(m_globs[p][1])].servlet
    /\ \A uri \in Uris \ {Path} : Live(uri) => \E p \in DOMAIN m_globs : m_globs[p][1] = uri
    /\ \A p, q \in DOMAIN m_globs : p < q => Newest(m_globs[p][1]) < Newest(m_globs[q][1])

-----------------------------------------------------------------------------
(* The accept loops.                                                         *)

\* Two sequences, one behind the other.
LEMMA Joined ==
    ASSUME NEW S, NEW s \in Seq(S), NEW t \in Seq(S)
    PROVE  /\ s \o t \in Seq(S) /\ Len(s \o t) = Len(s) + Len(t) /\ Len(s) \in Nat /\ Len(t) \in Nat
           /\ \A i \in 1..Len(s) : (s \o t)[i] = s[i]
           /\ \A i \in 1..Len(t) : (s \o t)[Len(s) + i] = t[i]
<1>1. Len(s) \in Nat /\ Len(t) \in Nat
  OBVIOUS
<1>2. \A i \in 1..Len(t) : Len(s) + i \in 1..(Len(s) + Len(t)) /\ ~(Len(s) + i <= Len(s))
                            /\ (Len(s) + i) - Len(s) = i
  BY <1>1
<1>3. s \o t \in Seq(S) /\ Len(s \o t) = Len(s) + Len(t)
      /\ \A i \in 1..(Len(s) + Len(t)) : (s \o t)[i] = IF i <= Len(s) THEN s[i] ELSE t[i - Len(s)]
  OBVIOUS
<1>4. \A i \in 1..Len(s) : i \in 1..(Len(s) + Len(t)) /\ i <= Len(s)
  BY <1>1
<1> QED BY <1>1, <1>2, <1>3, <1>4

\* What LoopInv speaks of does not change.
LEMMA LoopsSame ==
    ASSUME LoopInv, calls' \in Nat, UNCHANGED <<m_isStop, m_socks, open, closers, closing, overtaken, loops>>
    PROVE  LoopInv'
BY DEF LoopInv, LoopsSound, Running

\* A loop goes on or ends, and no socket is closed but by the end of a loop.
LEMMA LoopsMove ==
    ASSUME LoopInv, NEW l \in DOMAIN loops, NEW to \in {"test", "accept", "wait", "gone"},
           loops' = [loops EXCEPT ![l].pc = to], Running(l), calls' = calls,
           UNCHANGED <<m_isStop, m_socks, closers, closing, overtaken>>,
           open' = open \/ (m_isStop /\ m_socks \subseteq open')
    PROVE  LoopInv'
<1>1. loops \in Seq(Acceptor)
  BY DEF LoopInv
<1>2. loops[l] \in Acceptor
  BY <1>1
<1>3. loops'[l] = [loops[l] EXCEPT !.pc = to] /\ DOMAIN loops' = DOMAIN loops
      /\ \A k \in DOMAIN loops : k # l => loops'[k] = loops[k]
  BY <1>1
<1>4. loops'[l] \in Acceptor /\ loops'[l].sock = loops[l].sock
  BY <1>2, <1>3 DEF Acceptor
<1>5. loops' \in Seq(Acceptor)
  BY <1>1, <1>3, <1>4
<1>6. \A k \in DOMAIN loops' : (Running(k))' => Running(k) /\ loops'[k].sock = loops[k].sock
  BY <1>3, <1>4 DEF Running
<1>7. LoopsSound'
  BY <1>3, <1>6 DEF LoopInv, LoopsSound
<1> QED BY <1>5, <1>7 DEF LoopInv

\* A listening socket more, or all of them let go.
LEMMA LoopsBind ==
    ASSUME LoopInv, NEW works \in BOOLEAN, bind(works)
    PROVE  LoopInv'
<1>1. UNCHANGED <<m_isStop, loops, closers, closing, overtaken>> /\ calls \in Nat /\ calls' = calls + 1
  BY DEF bind, Call, LoopInv
<1>2. \A l \in DOMAIN loops : Running(l) /\ loops[l].sock \in open => loops[l].sock \in open'
  BY DEF bind, Running
<1>3. LoopsSound'
  BY <1>1, <1>2 DEF LoopInv, LoopsSound, Running
<1>4. CASE works
  <2>1. m_socks' = m_socks \cup {calls + 1} /\ open' = open \cup {calls + 1}
    BY <1>4 DEF bind
  <2>2. IsFiniteSet(m_socks')
    BY <2>1, FS_AddElement DEF LoopInv
  <2>3. m_socks' \subseteq Nat /\ m_socks' \subseteq open'
    BY <1>1, <2>1 DEF LoopInv
  <2> QED BY <1>1, <1>3, <2>2, <2>3 DEF LoopInv
<1>5. CASE ~works
  <2>1. m_socks' = {}
    BY <1>5 DEF bind
  <2> QED BY <1>1, <1>3, <2>1, FS_EmptySet DEF LoopInv
<1> QED BY <1>4, <1>5

\* start() begins a loop for each socket, and no loop is left of an earlier time.
LEMMA LoopsStart ==
    ASSUME LoopInv, start
    PROVE  LoopInv'
<1>1. PICK order \in SetToSeqs(m_socks) :
         loops' = loops \o [i \in DOMAIN order |-> [sock |-> order[i], pc |-> "test"]]
  BY DEF start
<1> DEFINE n == Cardinality(m_socks)
           new == [i \in 1..n |-> [sock |-> order[i], pc |-> "test"]]
<1>2. n \in Nat
  BY FS_CardinalityType DEF LoopInv
<1>3. /\ DOMAIN order = 1..n /\ \A i \in 1..n : order[i] \in m_socks
      /\ \A i, j \in 1..n : i # j => order[i] # order[j]
  BY DEF SetToSeqs
<1>4. /\ loops \in Seq(Acceptor) /\ m_socks \subseteq Nat /\ m_socks \subseteq open /\ calls \in Nat
      /\ closers \in Nat /\ overtaken \in BOOLEAN
  BY DEF LoopInv
<1>5. \A i \in 1..n : [sock |-> order[i], pc |-> "test"] \in Acceptor
  BY <1>3, <1>4 DEF Acceptor
<1> HIDE DEF n
<1>6. new \in Seq(Acceptor) /\ Len(new) = n /\ \A i \in 1..n : new[i].sock = order[i]
  BY <1>2, <1>5
<1>7. loops' = loops \o new
  BY <1>1, <1>3
<1> HIDE DEF new
<1>8. /\ loops' \in Seq(Acceptor) /\ Len(loops') = Len(loops) + n /\ Len(loops) \in Nat
      /\ \A l \in 1..Len(loops) : loops'[l] = loops[l]
      /\ \A i \in 1..n : loops'[Len(loops) + i] = new[i]
  <2>1. /\ loops \o new \in Seq(Acceptor) /\ Len(loops \o new) = Len(loops) + Len(new)
        /\ Len(loops) \in Nat /\ \A i \in 1..Len(loops) : (loops \o new)[i] = loops[i]
        /\ \A i \in 1..Len(new) : (loops \o new)[Len(loops) + i] = new[i]
    <3>1. loops \in Seq(Acceptor) /\ new \in Seq(Acceptor)
      BY <1>4, <1>6
    <3> QED BY <3>1, Joined
  <2>2. Len(new) = n
    BY <1>6
  <2> QED BY <1>7, <2>1, <2>2, Zenon
<1>9. /\ UNCHANGED <<m_socks, open, closers, closing>> /\ m_isStop' = FALSE /\ calls' = calls + 1
      /\ overtaken' = (overtaken \/ Stopping)
  BY DEF start, Call
<1>10. LoopsSound' /\ (~overtaken' /\ (closers' > 0 \/ closing') => m_isStop')
  <2> SUFFICES ASSUME ~overtaken'
               PROVE  LoopsSound' /\ ~(closers' > 0 \/ closing')
    BY DEF LoopsSound
  <2>1. ~(closers > 0 \/ closing) /\ \A l \in DOMAIN loops : ~Running(l)
    BY <1>9 DEF start, Stopping, Running
  <2>2. ASSUME NEW l \in DOMAIN loops', (Running(l))'
        PROVE  l - Len(loops) \in 1..n /\ loops'[l].sock = order[l - Len(loops)]
    <3>1. l \in 1..(Len(loops) + n)
      BY <1>8
    <3>2. l \notin 1..Len(loops)
      BY <1>4, <1>8, <2>1, <2>2 DEF Running
    <3>3. l - Len(loops) \in 1..n /\ Len(loops) + (l - Len(loops)) = l
      BY <1>2, <1>8, <3>1, <3>2
    <3>4. loops'[l] = new[l - Len(loops)]
      BY <1>8, <3>3
    <3> QED BY <1>6, <3>3, <3>4
  <2>3. ASSUME NEW k \in DOMAIN loops', NEW l \in DOMAIN loops', k # l, (Running(k))', (Running(l))'
        PROVE  loops'[k].sock # loops'[l].sock
    <3>1. k - Len(loops) # l - Len(loops)
      BY <1>2, <1>8, <2>3
    <3> QED BY <1>3, <2>2, <2>3, <3>1
  <2>4. \A l \in DOMAIN loops' : (Running(l))' => loops'[l].sock \in open'
    BY <1>3, <1>4, <1>9, <2>2
  <2> QED BY <1>9, <2>1, <2>3, <2>4 DEF LoopsSound
<1>11. overtaken' \in BOOLEAN
  BY <1>9
<1>12. calls' \in Nat
  BY <1>4, <1>9
<1> QED BY <1>8, <1>9, <1>10, <1>11, <1>12 DEF LoopInv

\* cancelAll() wakes loops and changes nothing else of them.
LEMMA WokenSame ==
    ASSUME LoopInv, loops' = Woken
    PROVE  /\ loops' \in Seq(Acceptor) /\ DOMAIN loops' = DOMAIN loops
           /\ \A l \in DOMAIN loops : loops'[l].sock = loops[l].sock /\ (Running(l)' => Running(l))
<1>1. loops \in Seq(Acceptor) /\ Len(loops) \in Nat /\ DOMAIN loops = 1..Len(loops)
  BY DEF LoopInv
<1>2. DOMAIN loops' = 1..Len(loops) /\ \A l \in 1..Len(loops) :
         \/ loops'[l] = loops[l]
         \/ loops'[l] = [loops[l] EXCEPT !.pc = "accept"] /\ loops[l].pc = "wait"
  BY <1>1 DEF Woken
<1>3. \A l \in 1..Len(loops) : loops[l] \in Acceptor
  BY <1>1
<1>4. ASSUME NEW l \in 1..Len(loops)
      PROVE  /\ loops'[l] \in Acceptor /\ loops'[l].sock = loops[l].sock
             /\ Running(l)' => Running(l)
  <2>1. CASE loops'[l] = loops[l]
    BY <1>3, <2>1 DEF Running
  <2>2. CASE loops'[l] = [loops[l] EXCEPT !.pc = "accept"] /\ loops[l].pc = "wait"
    <3>1. loops[l].sock \in Nat /\ loops'[l] = [sock |-> loops[l].sock, pc |-> "accept"]
      BY <1>3, <2>2 DEF Acceptor
    <3> QED BY <2>2, <3>1 DEF Acceptor, Running
  <2> QED BY <1>2, <2>1, <2>2
<1>5. loops' \in Seq(Acceptor)
  <2>1. PICK n \in Nat : n = Len(loops)
    BY <1>1
  <2>2. loops' = [l \in 1..n |-> loops'[l]]
    BY <1>1, <2>1 DEF Woken
  <2>3. loops' \in [1..n -> Acceptor]
    BY <1>4, <2>1, <2>2
  <2> QED BY <2>3
<1> QED BY <1>1, <1>2, <1>4, <1>5

\* The sockets are closed, which no loop that has to run minds.
LEMMA LoopsClose ==
    ASSUME LoopInv, ~overtaken => m_isStop, CloseSocks, closers' \in Nat,
           ~overtaken => closers' = 0 \/ m_isStop,
           loops' = loops \/ loops' = Woken,
           UNCHANGED <<calls, m_isStop, overtaken>>
    PROVE  LoopInv'
<1>1. loops' \in Seq(Acceptor) /\ DOMAIN loops' = DOMAIN loops
      /\ \A l \in DOMAIN loops : loops'[l].sock = loops[l].sock /\ (Running(l)' => Running(l))
  BY WokenSame DEF LoopInv, Running
<1>2. m_socks' = {}
  BY DEF CloseSocks
<1>3. LoopsSound'
  BY <1>1 DEF LoopInv, LoopsSound
<1> QED BY <1>1, <1>2, <1>3, FS_EmptySet DEF LoopInv

\* stop() and its task, which no loop that has to run minds.
LEMMA LoopsStop ==
    ASSUME LoopInv, stop \/ stopTask \/ stopTaskCloses
    PROVE  LoopInv'
<1>1. CASE stop
  BY <1>1 DEF stop, Call, LoopInv, LoopsSound, Running
<1>2. CASE stopTask
  <2>1. UNCHANGED <<calls, m_isStop, overtaken>> /\ closers' = closers - 1 /\ loops' = Woken
        /\ closers > 0 /\ closers' \in Nat
    BY <1>2 DEF stopTask, LoopInv
  <2>2. ~overtaken => m_isStop
    BY <2>1 DEF LoopInv
  <2>3. CASE oneThread
    <3>1. CloseSocks
      BY <1>2, <2>3 DEF stopTask
    <3> QED BY <2>1, <2>2, <3>1, LoopsClose
  <2>4. CASE ~oneThread
    <3>1. UNCHANGED <<open, m_socks>>
      BY <1>2, <2>4 DEF stopTask
    <3>2. /\ loops' \in Seq(Acceptor) /\ DOMAIN loops' = DOMAIN loops
          /\ \A l \in DOMAIN loops : loops'[l].sock = loops[l].sock /\ (Running(l)' => Running(l))
      BY <2>1, WokenSame DEF LoopInv
    <3>3. LoopsSound'
      BY <2>1, <3>1, <3>2 DEF LoopInv, LoopsSound
    <3> QED BY <2>1, <2>2, <3>1, <3>2, <3>3 DEF LoopInv
  <2> QED BY <2>3, <2>4
<1>3. CASE stopTaskCloses
  <2>1. CloseSocks /\ UNCHANGED <<calls, m_isStop, loops, closers, overtaken>> /\ closing
    BY <1>3 DEF stopTaskCloses
  <2>2. (~overtaken => m_isStop) /\ closers' \in Nat
    BY <2>1 DEF LoopInv
  <2> QED BY <2>1, <2>2, LoopsClose
<1> QED BY <1>1, <1>2, <1>3

\* Every step.
LEMMA LoopStep ==
    ASSUME LoopInv, [Next]_vars
    PROVE  LoopInv'
<1>1. calls \in Nat
  BY DEF LoopInv
<1>2. CASE UNCHANGED vars
  BY <1>1, <1>2, LoopsSame DEF vars, tcp
<1>3. CASE Program
  <2>1. ASSUME NEW uri \in Uris, addServlet(uri) \/ delServlet(uri) PROVE LoopInv'
    BY <1>1, <2>1, LoopsSame DEF addServlet, delServlet, Call, tcp
  <2> QED BY <1>3, <2>1, LoopsBind, LoopsStart, LoopsStop DEF Program
<1>4. CASE Peers
  BY <1>1, <1>4, LoopsSame DEF Peers, Connect, Send, Call, tcp
<1>5. ASSUME NEW c \in Clients, Session(c) \/ sendResponse(c) PROVE LoopInv'
  <2>1. ASSUME NEW n, ReadHead(c, n) \/ ReadBody(c, n) PROVE UNCHANGED <<calls, tcp>>
    BY <2>1 DEF ReadHead, ReadBody
  <2>2. ASSUME Wait(c) \/ ReadFails(c) PROVE UNCHANGED <<calls, tcp>>
    BY <2>2 DEF Wait, ReadFails
  <2>3. ASSUME handleClient(c) \/ sendResponse(c) PROVE UNCHANGED <<calls, tcp>>
    BY <2>3 DEF handleClient, sendResponse
  <2>4. UNCHANGED <<calls, tcp>>
    BY <1>5, <2>1, <2>2, <2>3 DEF Session
  <2> QED BY <1>1, <2>4, LoopsSame DEF tcp
<1>6. ASSUME NEW l \in DOMAIN loops, Loop(l) PROVE LoopInv'
  <2>1. CASE Test(l)
    <3>1. m_socks \subseteq open
      BY DEF LoopInv
    <3>2. open' = open \/ (m_isStop /\ m_socks \subseteq open')
      BY <2>1, <3>1 DEF Test
    <3> QED BY <2>1, <3>2, LoopsMove DEF Test, Running
  <2>2. CASE AcceptFails(l)
    BY <2>2, LoopsMove DEF AcceptFails, Running
  <2>3. CASE \E c \in Clients : Accept(l, c)
    BY <2>3, LoopsMove DEF Accept, Running
  <2>4. CASE AcceptWaits(l) \/ AcceptWakes(l)
    BY <2>4, LoopsMove DEF AcceptWaits, AcceptWakes, Running
  <2> QED BY <1>6, <2>1, <2>2, <2>3, <2>4 DEF Loop
<1> QED BY <1>2, <1>3, <1>4, <1>5, <1>6, LoopsStop DEF Next

\* tcp_server.cc: whatever the order of bind(), start() and stop() and of their
\* tasks, unless start() overtakes a stop(), no socket has two accept loops and
\* no loop of a running server is on a closed socket.
THEOREM LoopsAlwaysSound == Spec => []LoopsSound
<1>1. Init => LoopInv
  <2> SUFFICES ASSUME Init PROVE LoopInv
    OBVIOUS
  <2>1. loops = <<>> /\ loops \in Seq(Acceptor) /\ DOMAIN loops = {}
    BY DEF Init
  <2>2. LoopsSound
    BY <2>1 DEF LoopsSound
  <2> QED BY <2>1, <2>2, FS_EmptySet DEF Init, LoopInv
<1>2. LoopInv /\ [Next]_vars => LoopInv'
  BY LoopStep
<1>3. LoopInv => LoopsSound
  BY DEF LoopInv
<1> QED BY <1>1, <1>2, <1>3, PTL DEF Spec

-----------------------------------------------------------------------------
(* The sessions.                                                             *)

\* Bytes of a client.
LEMMA SentBytes ==
    ASSUME NEW i \in Nat, NEW r \in Requests
    PROVE  /\ Bytes(i, r) \in Seq(Nat \X Nat) /\ Len(Bytes(i, r)) = 2 + r.body
           /\ 2 + r.body \in Nat /\ r.body \in Nat
           /\ \A k \in 1..(2 + r.body) : Bytes(i, r)[k] = <<i, k>>
<1>1. r.body \in Nat
  BY ServerAssumption DEF Requests
<1>2. 2 + r.body \in Nat /\ \A k \in 1..(2 + r.body) : <<i, k>> \in Nat \X Nat
  BY <1>1
<1> QED BY <1>1, <1>2 DEF Bytes

\* Part of the bytes of a request.
LEMMA BehindSub ==
    ASSUME NEW s \in Seq(Nat \X Nat), NEW i, NEW k \in Nat, NEW n \in Nat, Behind(s, i, k, n),
           NEW m \in 0..Len(s)
    PROVE  /\ SubSeq(s, 1, m) \in Seq(Nat \X Nat) /\ Behind(SubSeq(s, 1, m), i, k, k + m)
           /\ SubSeq(s, m + 1, Len(s)) \in Seq(Nat \X Nat)
           /\ Behind(SubSeq(s, m + 1, Len(s)), i, k + m, n)
<1>1. Len(s) \in Nat /\ Len(s) = n - k /\ \A j \in 1..Len(s) : s[j] = <<i, k + j>>
  <2>1. Len(s) \in Nat
    OBVIOUS
  <2>2. Len(s) = n - k /\ \A j \in 1..Len(s) : s[j] = <<i, k + j>>
    BY Zenon DEF Behind
  <2> QED BY <2>1, <2>2
<1>2. /\ SubSeq(s, 1, m) \in Seq(Nat \X Nat) /\ Len(SubSeq(s, 1, m)) = m
      /\ \A j \in 1..m : SubSeq(s, 1, m)[j] = s[j]
  <2>1. PICK l \in Nat : l = Len(s) /\ m \in 0..l
    BY <1>1
  <2>2. m \in Nat /\ m <= l /\ \A j \in 1..m : j \in 1..l
    BY <2>1
  <2>3. \A j \in 1..l : s[j] \in Nat \X Nat
    BY <2>1
  <2>4. SubSeq(s, 1, m) = [j \in 1..m |-> s[j]]
    BY <2>2
  <2> QED BY <2>2, <2>3, <2>4, SMTT(30)
<1>3. /\ SubSeq(s, m + 1, Len(s)) \in Seq(Nat \X Nat) /\ Len(SubSeq(s, m + 1, Len(s))) = Len(s) - m
      /\ \A j \in 1..(Len(s) - m) : SubSeq(s, m + 1, Len(s))[j] = s[m + j]
  OBVIOUS
<1>4. Behind(SubSeq(s, 1, m), i, k, k + m)
  <2>1. m = (k + m) - k /\ \A j \in 1..m : j \in 1..Len(s)
    BY <1>1
  <2> QED BY <1>1, <1>2, <2>1 DEF Behind
<1>5. Behind(SubSeq(s, m + 1, Len(s)), i, k + m, n)
  <2>1. /\ Len(s) - m = n - (k + m)
        /\ \A j \in 1..(Len(s) - m) : m + j \in 1..Len(s) /\ k + (m + j) = (k + m) + j
    BY <1>1
  <2>2. \A j \in 1..(Len(s) - m) : s[m + j] = <<i, (k + m) + j>>
    BY <1>1, <2>1
  <2> QED BY <1>3, <2>1, <2>2 DEF Behind
<1> QED BY <1>2, <1>3, <1>4, <1>5

\* Bytes of a request and the ones that follow them.
LEMMA BehindJoin ==
    ASSUME NEW s \in Seq(Nat \X Nat), NEW t \in Seq(Nat \X Nat), NEW i, NEW k \in Nat, NEW m \in Nat,
           NEW n \in Nat, Behind(s, i, k, m), Behind(t, i, m, n)
    PROVE  s \o t \in Seq(Nat \X Nat) /\ Behind(s \o t, i, k, n)
<1>1. /\ Len(s) \in Nat /\ Len(s) = m - k /\ \A j \in 1..Len(s) : s[j] = <<i, k + j>>
      /\ Len(t) \in Nat /\ Len(t) = n - m /\ \A j \in 1..Len(t) : t[j] = <<i, m + j>>
  <2>1. Len(s) \in Nat /\ Len(t) \in Nat
    OBVIOUS
  <2> QED BY <2>1, Zenon DEF Behind
<1>2. /\ s \o t \in Seq(Nat \X Nat) /\ Len(s \o t) = Len(s) + Len(t)
      /\ \A j \in 1..Len(s) : (s \o t)[j] = s[j]
      /\ \A j \in 1..Len(t) : (s \o t)[Len(s) + j] = t[j]
  <2>1. PICK B : B = Nat \X Nat
    OBVIOUS
  <2>2. s \in Seq(B) /\ t \in Seq(B)
    BY <2>1
  <2>3. /\ s \o t \in Seq(B) /\ Len(s \o t) = Len(s) + Len(t)
        /\ \A j \in 1..Len(s) : (s \o t)[j] = s[j]
        /\ \A j \in 1..Len(t) : (s \o t)[Len(s) + j] = t[j]
    BY <2>2, Joined
  <2> QED BY <2>1, <2>3
<1>3. PICK u : u = s \o t
  OBVIOUS
<1>4. Len(s) + Len(t) = n - k
  BY <1>1
<1>5. ASSUME NEW j \in 1..(Len(s) + Len(t)) PROVE u[j] = <<i, k + j>>
  <2>1. CASE j \in 1..Len(s)
    BY <1>1, <1>2, <1>3, <2>1
  <2>2. CASE j \notin 1..Len(s)
    <3>1. j - Len(s) \in 1..Len(t) /\ Len(s) + (j - Len(s)) = j /\ m + (j - Len(s)) = k + j
      BY <1>1, <2>2
    <3>2. u[j] = t[j - Len(s)]
      BY <1>2, <1>3, <3>1, Zenon
    <3>3. t[j - Len(s)] = <<i, m + (j - Len(s))>>
      BY <1>1, <3>1
    <3> QED BY <3>1, <3>2, <3>3
  <2> QED BY <2>1, <2>2
<1>6. Len(u) = n - k /\ \A j \in 1..Len(u) : u[j] = <<i, k + j>>
  BY <1>2, <1>3, <1>4, <1>5
<1> QED BY <1>2, <1>3, <1>6 DEF Behind

\* No bytes.
LEMMA BehindEmpty ==
    ASSUME NEW s \in Seq(Nat \X Nat), NEW i, NEW k \in Nat, NEW n \in Nat, Behind(s, i, k, n)
    PROVE  k <= n /\ (k = n <=> s = <<>>)
<1>1. Len(s) \in Nat /\ Len(s) = n - k /\ (Len(s) = 0 <=> s = <<>>)
  BY DEF Behind
<1> QED BY <1>1

\* The bytes of a request that a servlet gets are those of its body.
LEMMA BehindExact ==
    ASSUME NEW i \in Nat, NEW r \in Requests, NEW s \in Seq(Nat \X Nat), Behind(s, i, 2, 2 + r.body)
    PROVE  s = SubSeq(Bytes(i, r), 3, Len(Bytes(i, r)))
<1> DEFINE all == Bytes(i, r)
           t == SubSeq(all, 3, Len(all))
<1>1. /\ all \in Seq(Nat \X Nat) /\ Len(all) = 2 + r.body /\ r.body \in Nat
      /\ \A k \in 1..(2 + r.body) : all[k] = <<i, k>>
  BY SentBytes
<1> HIDE DEF all
<1>2. PICK b \in Nat : b = r.body /\ Len(all) = 2 + b
  BY <1>1
<1>3. /\ t \in Seq(Nat \X Nat) /\ Len(t) = b
      /\ \A j \in 1..b : t[j] = all[2 + j]
  <2>1. 3 \in 1..(Len(all) + 1) /\ Len(all) \in Nat /\ Len(all) - 2 = b /\ 2 + 1 = 3
    BY <1>2
  <2>2. \A u \in Seq(Nat \X Nat) : \A m \in 0..Len(u) :
          /\ SubSeq(u, m + 1, Len(u)) \in Seq(Nat \X Nat) /\ Len(SubSeq(u, m + 1, Len(u))) = Len(u) - m
          /\ \A j \in 1..(Len(u) - m) : SubSeq(u, m + 1, Len(u))[j] = u[m + j]
    OBVIOUS
  <2>3. 2 \in 0..Len(all)
    BY <1>2
  <2>4. /\ SubSeq(all, 2 + 1, Len(all)) \in Seq(Nat \X Nat)
        /\ Len(SubSeq(all, 2 + 1, Len(all))) = Len(all) - 2
        /\ \A j \in 1..(Len(all) - 2) : SubSeq(all, 2 + 1, Len(all))[j] = all[2 + j]
    BY <1>1, <2>2, <2>3, Zenon
  <2> QED BY <2>1, <2>4, Zenon
<1>4. Len(s) = b /\ \A j \in 1..b : s[j] = <<i, 2 + j>>
  <2>1. Len(s) = (2 + b) - 2 /\ \A j \in 1..Len(s) : s[j] = <<i, 2 + j>>
    BY <1>2 DEF Behind
  <2>2. (2 + b) - 2 = b
    OBVIOUS
  <2> QED BY <2>1, <2>2, Zenon
<1>5. \A j \in 1..b : 2 + j \in 1..(2 + b)
  OBVIOUS
<1>6. \A j \in 1..b : all[2 + j] = <<i, 2 + j>>
  BY <1>1, <1>2, <1>5, Zenon
<1> HIDE DEF t
<1>7. \A j \in 1..b : t[j] = s[j]
  BY <1>3, <1>4, <1>6, Zenon
<1>8. s = t
  BY <1>3, <1>4, <1>7
<1> QED BY <1>8 DEF t, all

\* A step leaves a session as it is.
Same(d) ==
    /\ conn'[d] = conn[d] /\ stream'[d] = stream[d] /\ name'[d] = name[d]
    /\ left'[d] = left[d] /\ body'[d] = body[d] /\ sent'[d] = sent[d] /\ handled'[d] = handled[d]
    /\ (d \in eof' <=> d \in eof) /\ (d \in cut' <=> d \in cut)
    /\ (d \in late' <=> d \in late)

\* Such a session keeps what holds of it.
LEMMA SameKeeps ==
    ASSUME NEW d, Same(d), Types(d), Progress(d)
    PROVE  Types(d)' /\ Progress(d)'
<1>1. Types(d)'
  BY DEF Same, Types
<1>2. (Asked(d) <=> Asked(d)') /\ (Unasked(d) <=> Unasked(d)') /\ Turn(d)' = Turn(d)
  BY DEF Same, Asked, Unasked, Turn
<1>3. \A i : Size(d, i)' = Size(d, i)
  BY DEF Same, Size
<1>4. Fresh(d) => Fresh(d)'
  BY <1>2, <1>3 DEF Same, Fresh, Stray
<1>5. Cut(d) => Cut(d)'
  BY <1>2, <1>3 DEF Same, Cut
<1>6. Partly(d) => Partly(d)'
  BY <1>2, <1>3 DEF Same, Partly
<1>7. Ready(d) => Ready(d)'
  BY <1>2, <1>3 DEF Same, Ready, Stray
<1>8. Exact(d) => Exact(d)'
  BY <1>3 DEF Same, Exact
<1>9. Progress(d)'
  BY <1>2, <1>4, <1>5, <1>6, <1>7, <1>8 DEF Same, Progress
<1> QED BY <1>1, <1>9

\* A step of one session.
LEMMA OneSession ==
    ASSUME SessionInv, NEW c \in Clients, Maps', piped \subseteq piped',
           \A d \in Clients : d # c => Same(d),
           c \notin piped' => Types(c)' /\ Progress(c)'
    PROVE  SessionInv'
<1> SUFFICES ASSUME NEW d \in Clients \ piped', d # c
             PROVE  Types(d)' /\ Progress(d)'
  BY DEF SessionInv
<1> QED BY SameKeeps DEF SessionInv

\* A step of no session.
LEMMA NoSession ==
    ASSUME SessionInv, UNCHANGED <<conn, stream, eof, name, left, body, sent, handled, piped, cut, late>>
    PROVE  SessionInv'
<1>1. Maps' /\ \A d \in Clients : Same(d)
  BY DEF SessionInv, Maps, Same
<1> QED BY <1>1, SameKeeps DEF SessionInv

\* Sockets are closed, and clients in their backlogs reset.
LEMMA SessionReset ==
    ASSUME SessionInv, NEW closed, Reset(closed) \/ conn' = conn,
           UNCHANGED <<stream, eof, name, left, body, sent, handled, piped, cut, late>>
    PROVE  SessionInv'
<1>1. CASE conn' = conn
  BY <1>1, NoSession
<1>2. CASE Reset(closed)
  <2>1. Maps'
    BY <1>2 DEF Reset, SessionInv, Maps
  <2>2. ASSUME NEW d \in Clients \ piped PROVE Types(d)' /\ Progress(d)'
    <3>1. CASE conn'[d] = conn[d]
      BY <2>2, <3>1, SameKeeps DEF SessionInv, Same
    <3>2. CASE conn[d] = "backlog" /\ conn'[d] = "reset"
      <4>1. Types(d)'
        BY <2>2, <3>2 DEF SessionInv, Types, Places
      <4>2. Exact(d)'
        BY <2>2 DEF SessionInv, Progress, Exact, Size
      <4> QED BY <2>2, <3>2, <4>1, <4>2 DEF SessionInv, Progress
    <3> QED BY <1>2, <2>2, <3>1, <3>2 DEF Reset
  <2> QED BY <2>1, <2>2 DEF SessionInv
<1> QED BY <1>1, <1>2

\* A client connects, or is accepted.
LEMMA SessionAccept ==
    ASSUME SessionInv, NEW c \in Clients, NEW to \in {"backlog", "head"},
           conn[c] \in {"none", "backlog"}, conn' = [conn EXCEPT ![c] = to],
           UNCHANGED <<stream, eof, name, left, body, sent, handled, piped, cut, late>>
    PROVE  SessionInv'
<1>1. conn'[c] = to /\ DOMAIN conn' = Clients /\ \A d \in Clients : d # c => conn'[d] = conn[d]
  BY DEF SessionInv, Maps
<1>2. Maps' /\ \A d \in Clients : d # c => Same(d)
  BY <1>1 DEF SessionInv, Maps, Same
<1>3. ASSUME c \notin piped PROVE Types(c)' /\ Progress(c)'
  <2>1. Types(c) /\ Progress(c)
    BY <1>3 DEF SessionInv
  <2>2. Types(c)'
    BY <1>1, <2>1 DEF Types, Places
  <2>3. Fresh(c) /\ name[c] = 0 /\ handled[c] = <<>> /\ Exact(c)
    BY <2>1 DEF Progress
  <2>4. Fresh(c)' /\ Exact(c)'
    BY <2>3 DEF Fresh, Exact, Asked, Unasked, Turn, Size, Stray
  <2> QED BY <1>1, <2>1, <2>2, <2>3, <2>4 DEF Progress
<1> QED BY <1>2, <1>3, OneSession

\* What a client has sent so far is not changed by another request.
LEMMA ExactGrows ==
    ASSUME NEW c, Types(c), Exact(c), Len(handled[c]) <= Len(sent[c]), handled'[c] = handled[c],
           sent'[c] = sent[c] \/ \E r \in Requests : sent'[c] = Append(sent[c], r),
           c \in cut => c \in cut'
    PROVE  Exact(c)'
<1>1. handled[c] \in Seq(Entry) /\ sent[c] \in Seq(Requests)
  BY DEF Types
<1>2. \A j \in DOMAIN handled[c] : j \in DOMAIN sent[c]
  BY <1>1
<1>3. \A j \in DOMAIN sent[c] : sent'[c][j] = sent[c][j]
  BY <1>1
<1>4. \A j \in DOMAIN handled[c] : Size(c, j)' = Size(c, j)
  BY <1>2, <1>3 DEF Size
<1> QED BY <1>4 DEF Exact

\* A client sends a request or the beginning of one.
LEMMA SessionSend ==
    ASSUME SessionInv, NEW c \in Clients, NEW r \in Requests, NEW n \in 1..(2 + r.body), Send(c, r, n)
    PROVE  SessionInv'
<1>a. PICK i : i = Len(sent[c]) + 1
  OBVIOUS
<1>b. PICK new : new = SubSeq(Bytes(i, r), 1, n)
  OBVIOUS
<1>1. /\ Maps' /\ piped \subseteq piped' /\ \A d \in Clients : d # c => Same(d)
  BY DEF Send, SessionInv, Maps, Same
<1>2. /\ conn'[c] = conn[c] /\ name'[c] = name[c] /\ left'[c] = left[c] /\ body'[c] = body[c]
      /\ handled'[c] = handled[c] /\ (c \in cut' <=> c \in cut)
      /\ late' = late /\ stream'[c] = stream[c] \o new
      /\ sent'[c] = IF n < 2 + r.body THEN sent[c] ELSE Append(sent[c], r)
      /\ n < 2 + r.body => c \in eof'
      /\ c \notin eof /\ n \in {1, 2 + r.body}
      /\ conn[c] \in {"backlog", "head", "body", "reply", "send"}
  BY <1>a, <1>b DEF Send, SessionInv, Maps
<1>3. ASSUME c \notin piped' PROVE Types(c)' /\ Progress(c)'
  <2>1. Types(c) /\ Progress(c)
    BY <1>1, <1>3 DEF SessionInv
  <2>2. sent[c] \in Seq(Requests) /\ handled[c] \in Seq(Entry) /\ stream[c] \in Seq(Nat \X Nat)
        /\ Len(sent[c]) \in Nat /\ Len(handled[c]) \in Nat
    BY <2>1 DEF Types
  <2>3. Unasked(c) /\ conn[c] \notin {"reply", "send"}
    <3>1. ~(Len(handled[c]) < Len(sent[c])) /\ conn[c] \notin {"reply", "send"}
      BY <1>3 DEF Send
    <3> QED BY <2>1, <2>2, <3>1 DEF Progress, Unasked
  <2>4. Turn(c) = i /\ i \in Nat /\ ~Asked(c)
    BY <1>a, <2>2, <2>3 DEF Turn, Asked, Unasked
  <2>5. conn[c] \in {"backlog", "head"} /\ name[c] = 0 /\ (stream[c] = <<>> \/ Stray(c))
    BY <1>2, <2>1, <2>3, <2>4 DEF Progress, Fresh, Cut, Partly
  <2>6. /\ Bytes(i, r) \in Seq(Nat \X Nat) /\ Len(Bytes(i, r)) = 2 + r.body /\ 2 + r.body \in Nat
        /\ r.body \in Nat /\ \A k \in 1..(2 + r.body) : Bytes(i, r)[k] = <<i, k>>
    BY <2>4, SentBytes
  <2>7. new \in Seq(Nat \X Nat) /\ Len(new) = n /\ \A k \in 1..n : new[k] = <<i, k>>
    <3>1. \A s \in Seq(Nat \X Nat) : \A m \in 1..Len(s) :
            /\ SubSeq(s, 1, m) \in Seq(Nat \X Nat) /\ Len(SubSeq(s, 1, m)) = m
            /\ \A k \in 1..m : SubSeq(s, 1, m)[k] = s[k]
      OBVIOUS
    <3>2. new \in Seq(Nat \X Nat) /\ Len(new) = n /\ \A k \in 1..n : new[k] = Bytes(i, r)[k]
      BY <1>b, <2>6, <3>1
    <3>3. \A k \in 1..n : k \in 1..(2 + r.body)
      BY <2>6
    <3> QED BY <2>6, <3>2, <3>3, Zenon
  <2>8. /\ stream'[c] \in Seq(Nat \X Nat)
        /\ stream[c] = <<>> => stream'[c] = new
        /\ stream[c] # <<>> => stream'[c] # <<>> /\ stream'[c][1] = stream[c][1]
    <3>1. stream[c] \o new \in Seq(Nat \X Nat)
      BY <2>2, <2>7
    <3>2. stream[c] = <<>> => stream[c] \o new = new
      BY <2>2, <2>7
    <3>3. stream[c] # <<>> => stream[c] \o new # <<>> /\ (stream[c] \o new)[1] = stream[c][1]
      BY <2>2, <2>7
    <3> QED BY <1>2, <3>1, <3>2, <3>3
  <2>9. Types(c)'
    BY <1>2, <2>1, <2>2, <2>8 DEF Types
  <2>10. Exact(c)' /\ Turn(c)' = i
    BY <1>2, <2>1, <2>4, ExactGrows DEF Progress, Turn
  <2>11. CASE n < 2 + r.body
    <3>1. Unasked(c)' /\ c \in eof' /\ n = 1
      BY <1>2, <2>3, <2>6, <2>11 DEF Unasked
    <3>2. stream[c] = <<>> => stream'[c] = << <<i, 1>> >>
      <4>1. Len(new) = 1 /\ new[1] = <<i, 1>>
        BY <2>7, <3>1
      <4>2. new = << <<i, 1>> >>
        BY <2>7, <4>1
      <4> QED BY <2>8, <4>2
    <3>3. Fresh(c)'
      BY <1>2, <2>5, <2>8, <2>10, <3>1, <3>2 DEF Fresh, Stray
    <3> QED BY <1>2, <2>1, <2>5, <2>9, <2>10, <3>1, <3>3 DEF Progress
  <2>12. CASE ~(n < 2 + r.body)
    <3>1. n = 2 + r.body /\ sent'[c] = Append(sent[c], r)
      BY <1>2, <2>6, <2>12
    <3>2. Len(sent'[c]) = i /\ sent'[c][i] = r /\ Len(handled[c]) <= i
      BY <1>a, <2>2, <2>3, <3>1 DEF Unasked
    <3>3. Asked(c)' /\ Size(c, i)' = n
      BY <2>10, <3>1, <3>2 DEF Asked, Size
    <3>4. stream[c] = <<>> => Behind(stream'[c], i, 0, n)
      <4>1. \A k \in 1..n : 0 + k = k
        OBVIOUS
      <4>2. n - 0 = n
        OBVIOUS
      <4>3. Behind(new, i, 0, n)
        BY <2>7, <4>1, <4>2 DEF Behind
      <4> QED BY <2>8, <4>3
    <3>5. Stray(c) => Stray(c)'
      BY <1>2, <2>8 DEF Stray
    <3>6. Fresh(c)'
      BY <2>5, <2>10, <3>3, <3>4, <3>5 DEF Fresh
    <3> QED BY <1>2, <2>1, <2>5, <2>9, <2>10, <3>2, <3>6 DEF Progress
  <2> QED BY <2>11, <2>12
<1> QED BY <1>1, <1>3, OneSession

\* A read that fails ends the session.
LEMMA SessionHangup ==
    ASSUME SessionInv, NEW c \in Clients, Hangup(c), UNCHANGED <<eof, sent, handled, piped, cut>>,
           DOMAIN stream' = Clients, stream'[c] \in Seq(Nat \X Nat) \/ c \in piped,
           \A d \in Clients : d # c => stream'[d] = stream[d],
           late' = late \/ late' = late \cup {c},
           c \in piped \/ c \in cut \/ c \in late' \/ Unasked(c)
    PROVE  SessionInv'
<1>1. /\ conn'[c] = "closed" /\ name'[c] = 0 /\ left'[c] = 0 /\ body'[c] = <<>>
      /\ Maps' /\ \A d \in Clients : d # c => Same(d)
  BY DEF Hangup, SessionInv, Maps, Same
<1>2. ASSUME c \notin piped PROVE Types(c)' /\ Progress(c)'
  <2>1. Types(c) /\ Progress(c)
    BY <1>2 DEF SessionInv
  <2>2. Types(c)'
    BY <1>1, <1>2, <2>1 DEF Types, Places
  <2>3. Exact(c)'
    BY <2>1, ExactGrows DEF Progress
  <2> QED BY <1>1, <1>2, <2>1, <2>2, <2>3 DEF Progress, Unasked
<1> QED BY <1>1, <1>2, OneSession

\* If there is nothing to read nothing unanswered is lost, else it came too late.
LEMMA SessionReadFails ==
    ASSUME SessionInv, NEW c \in Clients, ReadFails(c)
    PROVE  SessionInv'
<1>1. conn[c] \in {"head", "body"} /\ Hangup(c)
      /\ late' = (IF stream[c] = <<>> THEN late ELSE late \cup {c})
      /\ UNCHANGED <<stream, eof, sent, handled, piped, cut>>
  BY DEF ReadFails
<1>2. ASSUME c \notin piped, stream[c] = <<>> PROVE c \in cut \/ Unasked(c)
  <2>1. Types(c) /\ Progress(c)
    BY <1>2 DEF SessionInv
  <2>2. ASSUME Asked(c) PROVE Size(c, Turn(c)) \in Nat /\ Size(c, Turn(c)) >= 2
    <3>1. sent[c] \in Seq(Requests) /\ handled[c] \in Seq(Entry)
      BY <2>1 DEF Types
    <3>2. Turn(c) \in 1..Len(sent[c])
      BY <2>2, <3>1 DEF Turn, Asked
    <3>3. sent[c][Turn(c)] \in Requests
      BY <3>1, <3>2
    <3>4. sent[c][Turn(c)].body \in Nat
      BY <3>3, ServerAssumption DEF Requests
    <3> QED BY <3>4 DEF Size
  <2>3. Asked(c) => ~Behind(stream[c], Turn(c), 0, Size(c, Turn(c)))
    BY <1>2, <2>2 DEF Behind
  <2>4. ~Partly(c)
    BY <1>2, <2>2 DEF Partly, Behind
  <2> QED BY <1>1, <1>2, <2>1, <2>3, <2>4 DEF Progress, Fresh, Cut, Stray
<1>3. DOMAIN stream' = Clients /\ (c \notin piped => stream'[c] \in Seq(Nat \X Nat))
  BY <1>1 DEF SessionInv, Maps, Types
<1> QED BY <1>1, <1>2, <1>3, SessionHangup

\* The request in turn, once it has been sent.
LEMMA AskedSize ==
    ASSUME NEW c, Types(c), Asked(c)
    PROVE  /\ Turn(c) \in Nat /\ Turn(c) # 0 /\ Turn(c) \in 1..Len(sent[c])
           /\ sent[c][Turn(c)].body \in Nat
           /\ Size(c, Turn(c)) \in Nat /\ Size(c, Turn(c)) = 2 + sent[c][Turn(c)].body
<1>1. sent[c] \in Seq(Requests) /\ handled[c] \in Seq(Entry)
  BY DEF Types
<1>2. Turn(c) \in Nat /\ Turn(c) # 0 /\ Turn(c) \in 1..Len(sent[c])
  BY <1>1 DEF Turn, Asked
<1>3. sent[c][Turn(c)] \in Requests
  BY <1>1, <1>2
<1>4. sent[c][Turn(c)].body \in Nat
  BY <1>3, ServerAssumption DEF Requests
<1> QED BY <1>2, <1>4 DEF Size

\* What a read leaves alone.
Reads(c) ==
    /\ UNCHANGED <<eof, sent, handled, piped, late>>
    /\ DOMAIN stream' = Clients /\ \A d \in Clients : d # c => stream'[d] = stream[d]
    /\ c \in cut => c \in cut'
    /\ \A d \in Clients : d # c => (d \in cut' <=> d \in cut)

\* The head has been read, and m bytes in all.
LEMMA BodyTaken ==
    ASSUME SessionInv, NEW c \in Clients \ piped, Asked(c), NEW rest \in Seq(Nat \X Nat), NEW m \in Nat,
           m >= 2, Behind(rest, Turn(c), 2, m), stream'[c] \in Seq(Nat \X Nat), Reads(c),
           Behind(stream'[c], Turn(c), m, Size(c, Turn(c))),
           TakeBody(c, Turn(c), rest, sent[c][Turn(c)].body)
    PROVE  SessionInv'
<1>a. PICK i : i = Turn(c)
  OBVIOUS
<1>b. PICK b : b = sent[c][i].body
  OBVIOUS
<1>1. Types(c) /\ Progress(c) /\ Maps
  BY DEF SessionInv
<1>2. i \in Nat /\ i # 0 /\ b \in Nat /\ Size(c, i) = 2 + b /\ Size(c, i) \in Nat
  BY <1>a, <1>b, <1>1, AskedSize
<1>3. Len(rest) \in Nat /\ Len(rest) = m - 2 /\ m <= 2 + b /\ (m = 2 + b <=> stream'[c] = <<>>)
  BY <1>a, <1>2, BehindEmpty DEF Behind
<1>4. Turn(c)' = i /\ Asked(c)' /\ Size(c, i)' = 2 + b /\ Len(handled'[c]) <= Len(sent'[c])
      /\ handled'[c] = handled[c] /\ sent'[c] = sent[c]
  BY <1>a, <1>1, <1>2 DEF Reads, Turn, Asked, Size
<1>5. Exact(c)'
  BY <1>1, <1>4, ExactGrows DEF Progress, Reads
<1>6. CASE b <= Len(rest)
  <2>1. m = 2 + b /\ Len(rest) = b
    BY <1>2, <1>3, <1>6
  <2>2. SubSeq(rest, 1, b) = rest
    BY <2>1
  <2>3. Receive(c, i, rest)
    BY <1>a, <1>b, <1>6, <2>2 DEF TakeBody
  <2>4. /\ conn'[c] = "reply" /\ body'[c] = rest /\ name'[c] = i /\ left'[c] = 0
        /\ Maps' /\ \A d \in Clients : d # c => Same(d)
    BY <1>1, <2>3 DEF Receive, Maps, Reads, Same
  <2>5. Types(c)'
    BY <1>1, <1>2, <1>4, <2>4 DEF Types, Places
  <2>6. Ready(c)'
    BY <1>a, <1>3, <1>4, <2>1, <2>4 DEF Ready
  <2>7. Progress(c)'
    BY <1>4, <1>5, <2>4, <2>6 DEF Progress
  <2> QED BY <2>4, <2>5, <2>7, OneSession DEF Reads
<1>7. CASE ~(b <= Len(rest))
  <2>1. /\ conn' = [conn EXCEPT ![c] = "body"] /\ body' = [body EXCEPT ![c] = rest]
        /\ name' = [name EXCEPT ![c] = i] /\ left' = [left EXCEPT ![c] = b - Len(rest)]
    BY <1>a, <1>b, <1>7 DEF TakeBody
  <2>2. /\ conn'[c] = "body" /\ body'[c] = rest /\ name'[c] = i /\ left'[c] = b - Len(rest)
        /\ Maps' /\ \A d \in Clients : d # c => Same(d)
    BY <1>1, <2>1 DEF Maps, Reads, Same
  <2>a. PICK q \in Nat : q = Len(rest)
    BY <1>3
  <2>b. q = m - 2 /\ ~(b <= q) /\ left'[c] = b - q
    BY <1>3, <1>7, <2>2, <2>a
  <2>3. left'[c] \in 1..((2 + b) - 2) /\ (2 + b) - left'[c] = m /\ left'[c] \in Nat
    BY <1>2, <2>b
  <2>4. Types(c)'
    BY <1>1, <1>2, <1>4, <2>2, <2>3 DEF Types, Places
  <2>5. Partly(c)'
    BY <1>a, <1>2, <1>4, <2>2, <2>3 DEF Partly
  <2>6. Progress(c)'
    BY <1>4, <1>5, <2>2, <2>5 DEF Progress
  <2> QED BY <2>2, <2>4, <2>6, OneSession DEF Reads
<1> QED BY <1>6, <1>7

\* The first byte of a head has been read alone.
LEMMA HeadCut ==
    ASSUME SessionInv, NEW c \in Clients \ piped, conn[c] = "head", name[c] = 0, Reads(c),
           UNCHANGED <<conn, left, body>>, name' = [name EXCEPT ![c] = Turn(c)], c \in cut',
           stream'[c] \in Seq(Nat \X Nat),
           \/ Asked(c) /\ Behind(stream'[c], Turn(c), 1, Size(c, Turn(c)))
           \/ Unasked(c) /\ c \in eof /\ stream'[c] = <<>>
    PROVE  SessionInv'
<1>a. PICK i : i = Turn(c)
  OBVIOUS
<1>1. Types(c) /\ Progress(c) /\ Maps
  BY DEF SessionInv
<1>2. i \in Nat /\ i # 0
  BY <1>a, <1>1 DEF Turn, Types
<1>3. /\ Turn(c)' = i /\ (Asked(c)' <=> Asked(c)) /\ (Unasked(c)' <=> Unasked(c))
      /\ Size(c, i)' = Size(c, i) /\ handled'[c] = handled[c] /\ sent'[c] = sent[c]
  BY <1>a DEF Reads, Turn, Asked, Unasked, Size
<1>4. Exact(c)'
  BY <1>1, <1>3, ExactGrows DEF Progress
<1>5. name'[c] = i /\ Maps' /\ \A d \in Clients : d # c => Same(d)
  BY <1>a, <1>1 DEF Maps, Reads, Same
<1>6. Types(c)'
  BY <1>1, <1>2, <1>3, <1>5 DEF Types
<1>7. Cut(c)'
  BY <1>a, <1>3, <1>5 DEF Cut, Reads
<1>8. Progress(c)'
  BY <1>1, <1>2, <1>3, <1>4, <1>5, <1>7 DEF Progress
<1> QED BY <1>5, <1>6, <1>8, OneSession DEF Reads

\* A cut head has lost its length.
LEMMA LengthLost ==
    ASSUME SessionInv, NEW c \in Clients \ piped, Asked(c), c \in cut, NEW rest \in Seq(Nat \X Nat),
           stream'[c] \in Seq(Nat \X Nat), Reads(c),
           stream'[c] = <<>> \/ stream'[c][1][2] > 2,
           TakeBody(c, Turn(c), rest, 0)
    PROVE  SessionInv'
<1>a. PICK i : i = Turn(c)
  OBVIOUS
<1>1. Types(c) /\ Progress(c) /\ Maps
  BY DEF SessionInv
<1>2. i \in Nat
  BY <1>a, <1>1 DEF Turn, Types
<1>3. /\ Turn(c)' = i /\ Asked(c)' /\ handled'[c] = handled[c] /\ sent'[c] = sent[c] /\ c \in cut'
  BY <1>a DEF Reads, Turn, Asked
<1>4. Exact(c)'
  BY <1>1, <1>3, ExactGrows DEF Progress
<1>5. Len(rest) \in Nat /\ 0 <= Len(rest) /\ SubSeq(rest, 1, 0) = <<>> /\ <<>> \in Seq(Nat \X Nat)
  OBVIOUS
<1>6. Receive(c, i, <<>>)
  BY <1>a, <1>5 DEF TakeBody
<1>7. /\ conn'[c] = "reply" /\ body'[c] = <<>> /\ name'[c] = i /\ left'[c] = 0
      /\ Maps' /\ \A d \in Clients : d # c => Same(d)
  BY <1>1, <1>6 DEF Receive, Maps, Reads, Same
<1>8. Types(c)'
  BY <1>1, <1>2, <1>3, <1>5, <1>7 DEF Types, Places
<1>9. Ready(c)'
  BY <1>3, <1>7 DEF Ready, Stray
<1>10. Progress(c)'
  BY <1>1, <1>3, <1>4, <1>7, <1>9 DEF Progress
<1> QED BY <1>7, <1>8, <1>10, OneSession DEF Reads

\* Only the session of c changes.
Touches(c) ==
    /\ DOMAIN conn' = Clients /\ DOMAIN name' = Clients
    /\ DOMAIN left' = Clients /\ DOMAIN body' = Clients
    /\ \A d \in Clients : d # c => /\ conn'[d] = conn[d] /\ name'[d] = name[d]
                                   /\ left'[d] = left[d] /\ body'[d] = body[d]

\* recvRequest changes its own session.
LEMMA TakeTouches ==
    ASSUME Maps, NEW c \in Clients, NEW i, NEW rest, NEW length, TakeBody(c, i, rest, length)
    PROVE  Touches(c)
<1>1. CASE length <= Len(rest)
  <2>1. Receive(c, i, SubSeq(rest, 1, length))
    BY <1>1 DEF TakeBody
  <2> QED BY <2>1 DEF Receive, Touches, Maps
<1>2. CASE ~(length <= Len(rest))
  BY <1>2 DEF TakeBody, Touches, Maps
<1> QED BY <1>1, <1>2

\* A read that ends in the head, and the one after it.
CutsHead(c, i) ==
    name' = [name EXCEPT ![c] = i] /\ c \in cut' /\ UNCHANGED <<conn, left, body>>
EndsHead(c, i, rest) == \E length \in {0, sent[c][i].body} : TakeBody(c, i, rest, length)

\* One read of recvRequest.  The stream of the session loses what was read.
LEMMA ReadHeadCases ==
    ASSUME Maps, NEW c \in Clients, NEW n, ReadHead(c, n), NEW got, got = SubSeq(stream[c], 1, n)
    PROVE  /\ conn[c] = "head" /\ n \in 1..Len(stream[c]) /\ Reads(c) /\ Touches(c)
           /\ stream'[c] = SubSeq(stream[c], n + 1, Len(stream[c]))
           /\ got[1][2] = 1 /\ n = 1 => CutsHead(c, got[1][1])
           /\ got[1][2] = 1 /\ n > 1 =>
                TakeBody(c, got[1][1], SubSeq(got, 3, n), sent[c][got[1][1]].body)
           /\ got[1][2] = 2 /\ name[c] = got[1][1] =>
                EndsHead(c, got[1][1], SubSeq(got, 2, n))
           /\ got[1][2] \notin {1, 2} => Hangup(c) /\ cut' = cut
<1> DEFINE A == /\ got[1][2] = 1 /\ n = 1 /\ cut' = cut \cup {c} /\ CutsHead(c, got[1][1])
           B == /\ got[1][2] = 1 /\ n > 1 /\ cut' = cut
                /\ TakeBody(c, got[1][1], SubSeq(got, 3, n), sent[c][got[1][1]].body)
           C == /\ got[1][2] = 2 /\ name[c] = got[1][1] /\ cut' = cut
                /\ EndsHead(c, got[1][1], SubSeq(got, 2, n))
           D == /\ ~(got[1][2] = 1 /\ n = 1) /\ ~(got[1][2] = 1 /\ n > 1)
                /\ ~(got[1][2] = 2 /\ name[c] = got[1][1])
                /\ Hangup(c) /\ cut' = cut
<1>1. /\ conn[c] = "head" /\ n \in 1..Min2(Len(stream[c]), BuffSize)
      /\ stream' = [stream EXCEPT ![c] = SubSeq(@, n + 1, Len(@))]
      /\ UNCHANGED <<eof, sent, handled, piped, late>>
  BY DEF ReadHead
<1>2. A \/ B \/ C \/ D
  BY DEF ReadHead, CutsHead, EndsHead
<1>3. n \in 1..Len(stream[c])
  BY <1>1, ServerAssumption DEF Min2
<1>4. /\ stream'[c] = SubSeq(stream[c], n + 1, Len(stream[c])) /\ DOMAIN stream' = Clients
      /\ \A d \in Clients : d # c => stream'[d] = stream[d]
  BY <1>1 DEF Maps
<1>5. A => Touches(c) /\ c \in cut' /\ Reads(c)
  BY <1>1, <1>4 DEF CutsHead, Touches, Maps, Reads
<1>6. B => Touches(c)
  BY TakeTouches
<1>7. C => Touches(c)
  BY TakeTouches DEF EndsHead
<1>8. D => Touches(c)
  BY DEF Hangup, Touches, Maps
<1>9. cut' = cut => Reads(c)
  BY <1>1, <1>4 DEF Reads
<1>10. Reads(c) /\ Touches(c)
  BY <1>2, <1>5, <1>6, <1>7, <1>8, <1>9
<1>11. got[1][2] = 1 /\ n = 1 => A
  BY <1>2, <1>3
<1>12. got[1][2] = 1 /\ n > 1 => B
  BY <1>2, <1>3
<1>13. got[1][2] = 2 /\ name[c] = got[1][1] => C
  <2>1. 1 # 2
    OBVIOUS
  <2> QED BY <1>2, <2>1, Zenon
<1>14. got[1][2] \notin {1, 2} => D
  BY <1>2
<1> QED BY <1>1, <1>3, <1>4, <1>5, <1>10, <1>11, <1>12, <1>13, <1>14

\* A step of a client whose requests overlap.
LEMMA PipedSession ==
    ASSUME SessionInv, NEW c \in Clients, c \in piped, Reads(c), Touches(c)
    PROVE  SessionInv'
<1>1. Maps' /\ \A d \in Clients : d # c => Same(d)
  BY DEF SessionInv, Maps, Reads, Touches, Same
<1>2. piped' = piped
  BY DEF Reads
<1> QED BY <1>1, <1>2, OneSession

\* The first byte of what follows the first k.
LEMMA BehindFirst ==
    ASSUME NEW s \in Seq(Nat \X Nat), NEW i, NEW k \in Nat, NEW n \in Nat, Behind(s, i, k, n), s # <<>>
    PROVE  s[1] = <<i, k + 1>>
<1>1. 1 \in 1..Len(s)
  OBVIOUS
<1> QED BY <1>1 DEF Behind

\* A read of the first bytes of a request.
LEMMA ReadFromStart ==
    ASSUME SessionInv, NEW c \in Clients \ piped, NEW n, ReadHead(c, n), name[c] = 0, Asked(c),
           Behind(stream[c], Turn(c), 0, Size(c, Turn(c)))
    PROVE  SessionInv'
<1>a. PICK i : i = Turn(c)
  OBVIOUS
<1>b. PICK got : got = SubSeq(stream[c], 1, n)
  OBVIOUS
<1>c. PICK size : size = Size(c, i)
  OBVIOUS
<1>1. Types(c) /\ Maps
  BY DEF SessionInv
<1>2. stream[c] \in Seq(Nat \X Nat) /\ size \in Nat /\ Len(stream[c]) \in Nat
  <2>1. stream[c] \in Seq(Nat \X Nat)
    BY <1>1 DEF Types
  <2>2. Size(c, Turn(c)) \in Nat
    BY <1>1, AskedSize
  <2>3. Len(stream[c]) \in Nat
    BY <2>1
  <2> QED BY <1>a, <1>c, <2>1, <2>2, <2>3
<1>3. /\ conn[c] = "head" /\ n \in 1..Len(stream[c]) /\ Reads(c)
      /\ stream'[c] = SubSeq(stream[c], n + 1, Len(stream[c]))
  BY <1>b, <1>1, ReadHeadCases
<1>4. /\ got \in Seq(Nat \X Nat) /\ Behind(got, i, 0, n)
      /\ stream'[c] \in Seq(Nat \X Nat) /\ Behind(stream'[c], i, n, size)
  <2>1. 0 \in Nat /\ n \in 0..Len(stream[c]) /\ 0 + n = n
    BY <1>2, <1>3
  <2>2. Behind(stream[c], i, 0, size)
    BY <1>a, <1>c
  <2>3. /\ SubSeq(stream[c], 1, n) \in Seq(Nat \X Nat) /\ Behind(SubSeq(stream[c], 1, n), i, 0, 0 + n)
        /\ SubSeq(stream[c], n + 1, Len(stream[c])) \in Seq(Nat \X Nat)
        /\ Behind(SubSeq(stream[c], n + 1, Len(stream[c])), i, 0 + n, size)
    BY <1>2, <2>1, <2>2, BehindSub
  <2> QED BY <1>b, <1>3, <2>1, <2>3
<1>5. Len(got) = n /\ got[1] = <<i, 1>>
  <2>1. Len(got) = n - 0 /\ n - 0 = n /\ n \in Nat /\ n >= 1
    BY <1>2, <1>3, <1>4 DEF Behind
  <2>2. 1 \in 1..Len(got) /\ 0 + 1 = 1
    BY <2>1
  <2> QED BY <1>4, <2>1, <2>2 DEF Behind
<1>6. got[1][1] = i /\ got[1][2] = 1
  BY <1>5
<1>7. CASE n = 1
  <2>1. CutsHead(c, got[1][1])
    BY <1>b, <1>1, <1>6, <1>7, ReadHeadCases
  <2> QED BY <1>a, <1>c, <1>3, <1>4, <1>6, <1>7, <2>1, HeadCut DEF CutsHead
<1>8. CASE n > 1
  <2>1. TakeBody(c, got[1][1], SubSeq(got, 3, n), sent[c][got[1][1]].body)
    BY <1>b, <1>1, <1>6, <1>8, ReadHeadCases
  <2>2. SubSeq(got, 3, n) \in Seq(Nat \X Nat) /\ Behind(SubSeq(got, 3, n), i, 2, n)
    <3>1. 0 \in Nat /\ 2 \in 0..Len(got) /\ n \in Nat /\ 0 + 2 = 2 /\ 2 + 1 = 3
      BY <1>2, <1>3, <1>5, <1>8
    <3>2. /\ SubSeq(got, 2 + 1, Len(got)) \in Seq(Nat \X Nat)
          /\ Behind(SubSeq(got, 2 + 1, Len(got)), i, 0 + 2, n)
      BY <1>4, <3>1, BehindSub
    <3> QED BY <1>5, <3>1, <3>2, Zenon
  <2>3. n \in Nat /\ n >= 2
    BY <1>2, <1>3, <1>8
  <2> QED BY <1>a, <1>c, <1>3, <1>4, <1>6, <2>1, <2>2, <2>3, BodyTaken
<1> QED BY <1>2, <1>3, <1>7, <1>8

\* A read after a head was cut: with it the length may be lost.
LEMMA ReadAfterCut ==
    ASSUME SessionInv, NEW c \in Clients \ piped, NEW n, ReadHead(c, n), Cut(c)
    PROVE  SessionInv'
<1>a. PICK i : i = Turn(c)
  OBVIOUS
<1>b. PICK got : got = SubSeq(stream[c], 1, n)
  OBVIOUS
<1>c. PICK size : size = Size(c, i)
  OBVIOUS
<1>1. Types(c) /\ Maps
  BY DEF SessionInv
<1>2. stream[c] \in Seq(Nat \X Nat) /\ Len(stream[c]) \in Nat
  BY <1>1 DEF Types
<1>3. /\ n \in 1..Len(stream[c]) /\ Reads(c)
      /\ stream'[c] = SubSeq(stream[c], n + 1, Len(stream[c]))
  BY <1>b, <1>1, ReadHeadCases
<1>4. Asked(c) /\ Behind(stream[c], i, 1, size) /\ name[c] = i /\ c \in cut
  BY <1>a, <1>c, <1>2, <1>3 DEF Cut
<1>5. size \in Nat
  BY <1>a, <1>c, <1>1, <1>4, AskedSize
<1>6. /\ got \in Seq(Nat \X Nat) /\ Behind(got, i, 1, 1 + n)
      /\ stream'[c] \in Seq(Nat \X Nat) /\ Behind(stream'[c], i, 1 + n, size)
  <2>1. 1 \in Nat /\ n \in 0..Len(stream[c])
    BY <1>2, <1>3
  <2> QED BY <1>b, <1>2, <1>3, <1>4, <1>5, <2>1, BehindSub
<1>7. Len(got) = n /\ got[1] = <<i, 2>>
  <2>1. Len(got) = (1 + n) - 1 /\ (1 + n) - 1 = n /\ n \in Nat /\ n >= 1
    BY <1>2, <1>3, <1>6 DEF Behind
  <2>2. 1 \in 1..Len(got) /\ 1 + 1 = 2
    BY <2>1
  <2> QED BY <1>6, <2>1, <2>2 DEF Behind
<1>8. got[1][1] = i /\ got[1][2] = 2
  BY <1>7
<1>9. SubSeq(got, 2, n) \in Seq(Nat \X Nat) /\ Behind(SubSeq(got, 2, n), i, 2, 1 + n)
  <2>1. 1 \in Nat /\ 1 \in 0..Len(got) /\ 1 + n \in Nat /\ 1 + 1 = 2
    BY <1>2, <1>3, <1>7
  <2>2. /\ SubSeq(got, 1 + 1, Len(got)) \in Seq(Nat \X Nat)
        /\ Behind(SubSeq(got, 1 + 1, Len(got)), i, 1 + 1, 1 + n)
    BY <1>6, <2>1, BehindSub
  <2> QED BY <1>7, <2>1, <2>2, Zenon
<1>10. PICK length \in {0, sent[c][i].body} : TakeBody(c, i, SubSeq(got, 2, n), length)
  <2>1. EndsHead(c, i, SubSeq(got, 2, n))
    BY <1>b, <1>1, <1>4, <1>8, ReadHeadCases
  <2> QED BY <2>1 DEF EndsHead
<1>11. 1 + n \in Nat /\ 1 + n >= 2 /\ (1 + n) + 1 > 2
  BY <1>2, <1>3
<1>12. stream'[c] = <<>> \/ stream'[c][1][2] > 2
  <2>1. stream'[c] # <<>> => stream'[c][1] = <<i, (1 + n) + 1>>
    BY <1>5, <1>6, <1>11, BehindFirst
  <2> QED BY <1>11, <2>1
<1>13. CASE length = 0
  BY <1>a, <1>3, <1>4, <1>6, <1>9, <1>10, <1>12, <1>13, LengthLost
<1>14. CASE length = sent[c][i].body
  BY <1>a, <1>c, <1>3, <1>4, <1>6, <1>9, <1>10, <1>11, <1>14, BodyTaken
<1> QED BY <1>10, <1>13, <1>14

\* Any read of recvRequest.
LEMMA SessionReadHead ==
    ASSUME SessionInv, NEW c \in Clients, NEW n, ReadHead(c, n)
    PROVE  SessionInv'
<1>b. PICK got : got = SubSeq(stream[c], 1, n)
  OBVIOUS
<1>1. Maps
  BY DEF SessionInv
<1>2. /\ conn[c] = "head" /\ n \in 1..Len(stream[c]) /\ Reads(c) /\ Touches(c)
      /\ stream'[c] = SubSeq(stream[c], n + 1, Len(stream[c]))
  BY <1>b, <1>1, ReadHeadCases
<1>3. CASE c \in piped
  BY <1>2, <1>3, PipedSession
<1>4. ASSUME c \notin piped PROVE SessionInv'
  <2>1. Types(c) /\ Progress(c)
    BY <1>4 DEF SessionInv
  <2>2. CASE name[c] # 0
    BY <1>2, <1>4, <2>1, <2>2, ReadAfterCut DEF Progress
  <2>3. ASSUME name[c] = 0 PROVE SessionInv'
    <3>1. stream[c] \in Seq(Nat \X Nat) /\ Len(stream[c]) \in Nat /\ stream[c] # <<>>
      BY <1>2, <2>1 DEF Types
    <3>2. Fresh(c)
      BY <1>2, <2>1, <2>3 DEF Progress
    <3>3. CASE Asked(c) /\ Behind(stream[c], Turn(c), 0, Size(c, Turn(c)))
      BY <1>4, <2>3, <3>3, ReadFromStart
    <3>4. ASSUME Unasked(c), c \in eof, stream[c] = << <<Turn(c), 1>> >>
          PROVE  SessionInv'
      <4>1. n = 1
        BY <1>2, <3>4
      <4>2. got = << <<Turn(c), 1>> >> /\ stream'[c] = <<>>
        <5>1. \A e : SubSeq(<<e>>, 1, 1) = <<e>> /\ SubSeq(<<e>>, 1 + 1, Len(<<e>>)) = <<>>
          <6> TAKE e
          <6>1. <<e>> \in Seq({e}) /\ Len(<<e>>) = 1 /\ <<e>>[1] = e
            OBVIOUS
          <6>2. /\ SubSeq(<<e>>, 1, 1) \in Seq({e}) /\ Len(SubSeq(<<e>>, 1, 1)) = 1
                /\ SubSeq(<<e>>, 1, 1)[1] = e
            BY <6>1
          <6>3. SubSeq(<<e>>, 1, 1) = <<e>>
            <7>1. \A s, t \in Seq({e}) : Len(s) = 1 /\ Len(t) = 1 /\ s[1] = t[1] => s = t
              OBVIOUS
            <7> QED BY <6>1, <6>2, <7>1, Zenon
          <6>4. SubSeq(<<e>>, 1 + 1, Len(<<e>>)) = <<>>
            BY <6>1
          <6> QED BY <6>3, <6>4
        <5> QED BY <1>b, <1>2, <3>4, <4>1, <5>1
      <4>3. got[1][1] = Turn(c) /\ got[1][2] = 1
        BY <4>2
      <4>4. CutsHead(c, got[1][1])
        BY <1>b, <1>1, <4>1, <4>3, ReadHeadCases
      <4>5. stream'[c] \in Seq(Nat \X Nat)
        BY <4>2
      <4> QED BY <1>2, <1>4, <2>3, <3>4, <4>2, <4>3, <4>4, <4>5, HeadCut DEF CutsHead
    <3>5. ASSUME Stray(c) PROVE SessionInv'
      <4>1. got[1] = stream[c][1] /\ stream'[c] \in Seq(Nat \X Nat)
        <5>1. \A s \in Seq(Nat \X Nat) : \A m \in 1..Len(s) :
                /\ SubSeq(s, 1, m)[1] = s[1] /\ SubSeq(s, m + 1, Len(s)) \in Seq(Nat \X Nat)
          OBVIOUS
        <5> QED BY <1>b, <1>2, <3>1, <5>1
      <4>2. got[1][2] # 1 /\ got[1][2] # 2 /\ c \in cut
        <5>1. got[1][2] > 2 /\ ~(1 > 2) /\ ~(2 > 2)
          BY <3>5, <4>1 DEF Stray
        <5> QED BY <3>5, <5>1 DEF Stray
      <4>3. Hangup(c) /\ cut' = cut
        BY <1>b, <1>1, <4>2, ReadHeadCases
      <4> QED BY <1>2, <4>1, <4>2, <4>3, SessionHangup DEF Reads
    <3> QED BY <3>1, <3>2, <3>3, <3>4, <3>5 DEF Fresh
  <2> QED BY <2>2, <2>3
<1> QED BY <1>3, <1>4

\* A read of readFixSize.
LEMMA SessionReadBody ==
    ASSUME SessionInv, NEW c \in Clients, NEW n, ReadBody(c, n)
    PROVE  SessionInv'
<1>a. PICK i : i = name[c]
  OBVIOUS
<1>b. PICK new : new = SubSeq(stream[c], 1, n)
  OBVIOUS
<1>c. PICK got : got = body[c] \o new
  OBVIOUS
<1>1. Maps
  BY DEF SessionInv
<1>2. /\ conn[c] = "body" /\ n \in 1..Min2(Len(stream[c]), left[c])
      /\ stream' = [stream EXCEPT ![c] = SubSeq(@, n + 1, Len(@))]
      /\ UNCHANGED <<eof, sent, handled, piped, cut, late>>
  BY DEF ReadBody
<1>3. Reads(c) /\ stream'[c] = SubSeq(stream[c], n + 1, Len(stream[c]))
  BY <1>1, <1>2 DEF Maps, Reads, ReadBody
<1>4. \/ n = left[c] /\ Receive(c, i, got)
      \/ /\ n # left[c] /\ body' = [body EXCEPT ![c] = got]
         /\ left' = [left EXCEPT ![c] = @ - n] /\ UNCHANGED <<conn, name>>
  BY <1>a, <1>b, <1>c DEF ReadBody
<1>5. /\ Touches(c) /\ body'[c] = got /\ name'[c] = i
      /\ n = left[c] => conn'[c] = "reply" /\ left'[c] = 0
      /\ n # left[c] => conn'[c] = "body" /\ left'[c] = left[c] - n
  <2>1. CASE n = left[c] /\ Receive(c, i, got)
    BY <1>1, <2>1 DEF Receive, Touches, Maps
  <2>2. CASE /\ n # left[c] /\ body' = [body EXCEPT ![c] = got]
             /\ left' = [left EXCEPT ![c] = @ - n] /\ UNCHANGED <<conn, name>>
    BY <1>a, <1>1, <1>2, <2>2 DEF Touches, Maps
  <2> QED BY <1>4, <2>1, <2>2
<1>6. CASE c \in piped
  BY <1>3, <1>5, <1>6, PipedSession
<1>7. ASSUME c \notin piped PROVE SessionInv'
  <2>c. PICK size : size = Size(c, i)
    OBVIOUS
  <2>1. Types(c) /\ Progress(c)
    BY <1>7 DEF SessionInv
  <2>2. Asked(c) /\ i = Turn(c)
    BY <1>a, <1>2, <2>1 DEF Progress, Partly
  <2>3. i \in Nat /\ i # 0 /\ size \in Nat
    BY <2>1, <2>2, <2>c, AskedSize
  <2>4. /\ left[c] \in 1..(size - 2) /\ Behind(body[c], i, 2, size - left[c])
        /\ Behind(stream[c], i, size - left[c], size)
    BY <1>2, <2>1, <2>2, <2>c DEF Progress, Partly
  <2>5. stream[c] \in Seq(Nat \X Nat) /\ body[c] \in Seq(Nat \X Nat) /\ Len(stream[c]) \in Nat
    BY <2>1 DEF Types
  <2>6. PICK k : k = size - left[c]
    OBVIOUS
  <2>7. /\ k \in Nat /\ left[c] \in Nat /\ Len(stream[c]) = left[c] /\ n \in Nat /\ n >= 1
        /\ n <= left[c] /\ n \in 0..Len(stream[c]) /\ k + n \in Nat /\ k + left[c] = size
        /\ k >= 2 /\ 2 \in Nat
    <3>1. \A z \in Nat : \A w \in 1..(z - 2) : \A m \in 1..w :
            /\ w \in Nat /\ z - w \in Nat /\ z - w >= 2 /\ z - (z - w) = w /\ (z - w) + w = z
            /\ m \in Nat /\ m >= 1 /\ m <= w /\ m \in 0..w /\ (z - w) + m \in Nat
      OBVIOUS
    <3>2. Len(stream[c]) = size - k
      BY <2>4, <2>6 DEF Behind
    <3>3. Len(stream[c]) = left[c]
      <4>1. \A z \in Nat : \A w \in 1..(z - 2) : z - (z - w) = w
        OBVIOUS
      <4> QED BY <2>3, <2>4, <2>6, <3>2, <4>1
    <3>4. n \in 1..left[c]
      BY <1>2, <3>3 DEF Min2
    <3>5. 2 \in Nat
      OBVIOUS
    <3> QED BY <2>3, <2>4, <2>6, <3>1, <3>3, <3>4, <3>5
  <2>8. /\ new \in Seq(Nat \X Nat) /\ Behind(new, i, k, k + n)
        /\ stream'[c] \in Seq(Nat \X Nat) /\ Behind(stream'[c], i, k + n, size)
    <3>1. Behind(stream[c], i, k, size)
      BY <2>4, <2>6
    <3>2. k \in Nat /\ n \in 0..Len(stream[c])
      BY <2>7
    <3> QED BY <1>b, <1>3, <2>3, <2>5, <3>1, <3>2, BehindSub
  <2>9. got \in Seq(Nat \X Nat) /\ Behind(got, i, 2, k + n)
    BY <1>c, <2>4, <2>5, <2>6, <2>7, <2>8, BehindJoin
  <2>10. /\ Turn(c)' = i /\ Asked(c)' /\ Size(c, i)' = size /\ handled'[c] = handled[c]
         /\ sent'[c] = sent[c]
    BY <1>2, <2>2, <2>c DEF Turn, Asked, Size
  <2>11. Exact(c)' /\ Len(handled'[c]) <= Len(sent'[c])
    BY <1>2, <2>1, <2>10, ExactGrows DEF Progress
  <2>12. left'[c] \in Nat /\ conn'[c] \in Places
    BY <1>5, <2>7 DEF Places
  <2>13. Types(c)'
    BY <1>5, <2>1, <2>3, <2>8, <2>9, <2>10, <2>12 DEF Types
  <2>14. ASSUME n = left[c] PROVE Progress(c)'
    <3>1. k + n = size
      BY <2>7, <2>14
    <3>2. stream'[c] = <<>>
      BY <2>3, <2>8, <3>1, BehindEmpty
    <3>3. Ready(c)'
      BY <1>5, <2>9, <2>10, <3>1, <3>2 DEF Ready
    <3> QED BY <1>5, <2>10, <2>11, <2>14, <3>3 DEF Progress
  <2>15. ASSUME n # left[c] PROVE Progress(c)'
    <3>1. left'[c] \in 1..(size - 2) /\ size - left'[c] = k + n
      <4>1. left'[c] = left[c] - n
        BY <1>5, <2>15
      <4>2. \A z \in Nat : \A w \in 1..(z - 2) : \A m \in Nat :
              m >= 1 /\ m <= w /\ m # w => w - m \in 1..(z - 2) /\ z - (w - m) = (z - w) + m
        OBVIOUS
      <4>3. n \in Nat /\ n >= 1 /\ n <= left[c]
        BY <2>7
      <4>4. /\ left[c] - n \in 1..(size - 2)
            /\ size - (left[c] - n) = (size - left[c]) + n
        BY <2>3, <2>4, <2>15, <4>2, <4>3
      <4> QED BY <2>6, <4>1, <4>4, Zenon
    <3>2. Partly(c)'
      BY <1>5, <2>8, <2>9, <2>10, <3>1 DEF Partly
    <3> QED BY <1>5, <2>10, <2>11, <2>15, <3>2 DEF Progress
  <2>16. Progress(c)'
    BY <2>14, <2>15
  <2>17. Maps' /\ piped' = piped /\ \A d \in Clients : d # c => Same(d)
    BY <1>1, <1>2, <1>3, <1>5 DEF Maps, Touches, Same
  <2> QED BY <2>13, <2>16, <2>17, OneSession
<1> QED BY <1>6, <1>7

\* A request is given to its servlet.
LEMMA SessionHandle ==
    ASSUME SessionInv, NEW c \in Clients, handleClient(c)
    PROVE  SessionInv'
<1>a. PICK i : i = name[c]
  OBVIOUS
<1>b. PICK e : e = [request |-> i, body |-> body[c]]
  OBVIOUS
<1>1. Maps
  BY DEF SessionInv
<1>2. /\ conn[c] = "reply" /\ handled' = [handled EXCEPT ![c] = Append(@, e)]
      /\ conn' = [conn EXCEPT ![c] = "send"]
      /\ UNCHANGED <<stream, eof, name, left, body, sent, piped, cut, late>>
  BY <1>a, <1>b DEF handleClient
<1>3. /\ handled'[c] = Append(handled[c], e) /\ conn'[c] = "send"
      /\ Maps' /\ \A d \in Clients : d # c => Same(d)
  BY <1>1, <1>2 DEF Maps, Same
<1>4. ASSUME c \notin piped PROVE Types(c)' /\ Progress(c)'
  <2>1. Types(c) /\ Progress(c)
    BY <1>4 DEF SessionInv
  <2>2. Asked(c) /\ i = Turn(c) /\ Ready(c)
    BY <1>a, <1>2, <2>1 DEF Progress, Ready
  <2>3. i \in Nat /\ handled[c] \in Seq(Entry) /\ body[c] \in Seq(Nat \X Nat)
    BY <2>1, <2>2, AskedSize DEF Types
  <2>4. e \in Entry /\ e.request = i /\ e.body = body[c]
    BY <1>b, <2>3 DEF Entry
  <2>5. /\ handled'[c] \in Seq(Entry) /\ Len(handled'[c]) = i /\ handled'[c][i] = e
        /\ i = Len(handled[c]) + 1 /\ \A j \in 1..Len(handled[c]) : handled'[c][j] = handled[c][j]
    BY <1>3, <2>2, <2>3, <2>4 DEF Turn
  <2>6. Types(c)'
    BY <1>2, <1>3, <2>1, <2>5 DEF Types, Places
  <2>7. Unasked(c)'
    BY <1>2, <2>2, <2>5 DEF Asked, Unasked
  <2>8. Exact(c)'
    <3>1. \A j : Size(c, j)' = Size(c, j)
      BY <1>2 DEF Size
    <3>2. ASSUME NEW j \in 1..Len(handled[c])
          PROVE  /\ handled'[c][j].request = j
                 /\ \/ Behind(handled'[c][j].body, j, 2, Size(c, j)')
                    \/ c \in cut' /\ handled'[c][j].body = <<>>
      <4>1. j \in DOMAIN handled[c]
        BY <2>3
      <4> QED BY <1>2, <2>1, <2>5, <3>1, <4>1 DEF Progress, Exact
    <3>3. /\ handled'[c][i].request = i
          /\ \/ Behind(handled'[c][i].body, i, 2, Size(c, i)')
             \/ c \in cut' /\ handled'[c][i].body = <<>>
      BY <1>2, <2>2, <2>4, <2>5, <3>1 DEF Ready
    <3>4. \A j \in DOMAIN handled'[c] : j \in 1..Len(handled[c]) \/ j = i
      BY <2>3, <2>5
    <3> QED BY <3>2, <3>3, <3>4 DEF Exact
  <2>9. Fresh(c)'
    BY <1>2, <2>2, <2>7 DEF Ready, Fresh, Stray
  <2>10. Len(handled'[c]) <= Len(sent'[c])
    BY <2>3, <2>5, <2>7 DEF Unasked
  <2> QED BY <1>3, <2>6, <2>7, <2>8, <2>9, <2>10 DEF Progress
<1> QED BY <1>2, <1>3, <1>4, OneSession

\* The response is sent, and the session ends or goes on to the next request.
LEMMA SessionSends ==
    ASSUME SessionInv, NEW c \in Clients, sendResponse(c)
    PROVE  SessionInv'
<1>1. /\ conn[c] = "send" /\ \E to \in {"head", "closed"} : conn' = [conn EXCEPT ![c] = to]
      /\ name' = [name EXCEPT ![c] = 0] /\ body' = [body EXCEPT ![c] = <<>>]
      /\ UNCHANGED <<stream, eof, left, sent, handled, piped, cut, late>>
  BY DEF sendResponse
<1>2. /\ conn'[c] \in {"head", "closed"} /\ name'[c] = 0 /\ body'[c] = <<>>
      /\ Maps' /\ \A d \in Clients : d # c => Same(d)
  BY <1>1 DEF SessionInv, Maps, Same
<1>3. ASSUME c \notin piped PROVE Types(c)' /\ Progress(c)'
  <2>1. Types(c) /\ Progress(c) /\ Fresh(c) /\ Unasked(c)
    BY <1>1, <1>3 DEF SessionInv, Progress
  <2>2. Types(c)'
    BY <1>1, <1>2, <2>1 DEF Types, Places
  <2>3. Exact(c)' /\ Len(handled'[c]) <= Len(sent'[c])
    BY <1>1, <2>1, ExactGrows DEF Progress
  <2>4. Unasked(c)'
    BY <1>1, <2>1 DEF Unasked
  <2>5. Fresh(c)'
    BY <1>1, <2>1 DEF Fresh, Asked, Unasked, Turn, Size, Stray
  <2> QED BY <1>2, <2>2, <2>3, <2>4, <2>5 DEF Progress
<1> QED BY <1>1, <1>2, <1>3, OneSession

\* Any step.
LEMMA SessionStep ==
    ASSUME SessionInv, [Next]_vars
    PROVE  SessionInv'
<1>1. ASSUME NEW works \in BOOLEAN, bind(works) PROVE SessionInv'
  <2>1. \E closed : Reset(closed) \/ conn' = conn
    BY <1>1 DEF bind
  <2>2. UNCHANGED <<stream, eof, name, left, body, sent, handled, piped, cut, late>>
    BY <1>1 DEF bind, sessions
  <2> QED BY <2>1, <2>2, SessionReset
<1>2. ASSUME start \/ stop \/ \E uri \in Uris : addServlet(uri) \/ delServlet(uri)
      PROVE  SessionInv'
  <2>1. UNCHANGED http
    BY <1>2 DEF start, stop, addServlet, delServlet
  <2> QED BY <2>1, NoSession DEF http
<1>3. ASSUME NEW c \in Clients, NEW s \in open, Connect(c, s) PROVE SessionInv'
  BY <1>3, SessionAccept DEF Connect
<1>4. ASSUME NEW c \in Clients, NEW r \in Requests, NEW n \in 1..(2 + r.body), Send(c, r, n)
      PROVE  SessionInv'
  BY <1>4, SessionSend
<1>5. ASSUME stopTask \/ stopTaskCloses PROVE SessionInv'
  <2>1. \E closed : Reset(closed) \/ conn' = conn
    BY <1>5 DEF stopTask, stopTaskCloses, CloseSocks
  <2>2. UNCHANGED <<stream, eof, name, left, body, sent, handled, piped, cut, late>>
    BY <1>5 DEF stopTask, stopTaskCloses, sessions
  <2> QED BY <2>1, <2>2, SessionReset
<1>6. ASSUME NEW l \in DOMAIN loops, Test(l) PROVE SessionInv'
  <2>1. \E closed : Reset(closed) \/ conn' = conn
    BY <1>6 DEF Test
  <2>2. UNCHANGED <<stream, eof, name, left, body, sent, handled, piped, cut, late>>
    BY <1>6 DEF Test, sessions
  <2> QED BY <2>1, <2>2, SessionReset
<1>7. ASSUME NEW l \in DOMAIN loops, AcceptWaits(l) \/ AcceptWakes(l) \/ AcceptFails(l)
      PROVE  SessionInv'
  BY <1>7, NoSession DEF AcceptWaits, AcceptWakes, AcceptFails, http
<1>8. ASSUME NEW l \in DOMAIN loops, NEW c \in Clients, Accept(l, c) PROVE SessionInv'
  <2>1. conn[c] = "backlog" /\ conn' = [conn EXCEPT ![c] = "head"]
    BY <1>8 DEF Accept, Backlog
  <2>2. UNCHANGED <<stream, eof, name, left, body, sent, handled, piped, cut, late>>
    BY <1>8 DEF Accept, sessions
  <2> QED BY <2>1, <2>2, SessionAccept
<1>9. ASSUME NEW c \in Clients, Session(c) \/ sendResponse(c) PROVE SessionInv'
  <2>1. CASE Wait(c)
    BY <2>1, NoSession DEF Wait
  <2> QED BY <1>9, <2>1, SessionReadHead, SessionReadBody, SessionReadFails, SessionHandle,
             SessionSends DEF Session
<1>10. ASSUME UNCHANGED vars PROVE SessionInv'
  BY <1>10, NoSession DEF vars, http
<1> QED BY <1>1, <1>2, <1>3, <1>4, <1>5, <1>6, <1>7, <1>8, <1>9, <1>10 DEF Next, Program,
   Peers, Loop

\* No client has sent anything.
LEMMA SessionStart ==
    ASSUME Init
    PROVE  SessionInv
<1>1. Maps
  BY DEF Init, Maps
<1>2. ASSUME NEW c \in Clients PROVE Types(c) /\ Progress(c)
  <2>1. /\ conn[c] = "none" /\ stream[c] = <<>> /\ name[c] = 0 /\ left[c] = 0 /\ body[c] = <<>>
        /\ sent[c] = <<>> /\ handled[c] = <<>>
    BY DEF Init
  <2>2. Types(c)
    BY <2>1 DEF Types, Places
  <2> QED BY <2>1, <2>2 DEF Progress, Exact, Fresh, Unasked
<1> QED BY <1>1, <1>2 DEF SessionInv

\* Every session is where Progress says.
LEMMA SessionAlways == Spec => []SessionInv
<1>1. SessionInv /\ [Next]_vars => SessionInv'
  BY SessionStep
<1> QED BY <1>1, SessionStart, PTL DEF Spec

\* Servlets get the requests of a client that waits for each response in order,
\* at most once and with exactly their bodies, however handleClient's reads split
\* them, or with none if a head was cut.
THEOREM RequestsAlwaysExact == Spec => []RequestsExact
<1>1. SessionInv => RequestsExact
  <2> SUFFICES ASSUME SessionInv, NEW c \in Clients \ piped, NEW j \in DOMAIN handled[c]
               PROVE  /\ handled[c][j].request = j
                      /\ \/ handled[c][j].body = SubSeq(Bytes(j, sent[c][j]), 3, Len(Bytes(j, sent[c][j])))
                         \/ c \in cut /\ handled[c][j].body = <<>>
    BY DEF RequestsExact
  <2>1. Types(c) /\ Exact(c) /\ Len(handled[c]) <= Len(sent[c])
    BY DEF SessionInv, Progress
  <2>2. handled[c] \in Seq(Entry) /\ sent[c] \in Seq(Requests)
    BY <2>1 DEF Types
  <2>3. j \in Nat /\ handled[c][j] \in Entry /\ sent[c][j] \in Requests
    BY <2>1, <2>2
  <2>4. handled[c][j].body \in Seq(Nat \X Nat)
    BY <2>3 DEF Entry
  <2>5. /\ handled[c][j].request = j
        /\ \/ Behind(handled[c][j].body, j, 2, Size(c, j))
           \/ c \in cut /\ handled[c][j].body = <<>>
    BY <2>1 DEF Exact
  <2> QED BY <2>3, <2>4, <2>5, BehindExact DEF Size
<1> QED BY <1>1, SessionAlways, PTL

\* handleClient closes no such connection with a request that no servlet got, unless
\* a head was cut or a timeout struck while the request came in: stop(), the end of
\* keep-alive and the timeout of a read that has nothing to come lose none.
THEOREM NothingLeftUnanswered == Spec => []NothingUnanswered
<1>1. SessionInv => NothingUnanswered
  BY DEF SessionInv, Progress, NothingUnanswered, Unasked
<1> QED BY <1>1, SessionAlways, PTL

-----------------------------------------------------------------------------
(* The table of servlets.                                                    *)

\* A set of numbers has a least one,
LEMMA LeastNumber ==
    ASSUME NEW S, S \subseteq Nat, S # {}
    PROVE  \E x \in S : \A y \in S : x <= y
<1>1. PICK x \in S : \A y \in S : ~(<<y, x>> \in OpToRel(<, Nat))
  BY NatLessThanWellFounded, WFMin
<1>2. \A y \in S : ~(y < x)
  BY <1>1 DEF OpToRel
<1> QED BY <1>2

\* and if it is bounded a greatest.
LEMMA GreatestNumber ==
    ASSUME NEW n \in Nat, NEW S, S \subseteq 1..n, S # {}
    PROVE  \E x \in S : \A y \in S : x >= y
<1> DEFINE T == {n - x : x \in S}
<1>1. T \subseteq Nat /\ T # {}
  <2>1. \A x \in S : n - x \in Nat
    OBVIOUS
  <2> QED BY <2>1
<1>2. PICK t \in T : \A u \in T : t <= u
  BY <1>1, LeastNumber
<1>3. PICK x \in S : t = n - x
  OBVIOUS
<1>4. \A y \in S : n - x <= n - y
  BY <1>2, <1>3
<1>5. \A y \in S : x >= y
  BY <1>4
<1> QED BY <1>5

\* LastOf finds the last change for a uri, if there is one.
LEMMA LastIs ==
    ASSUME NEW s \in Seq(Change), NEW uri
    PROVE  /\ LastOf(s, uri) \in 0..Len(s)
           /\ LastOf(s, uri) # 0 => s[LastOf(s, uri)].uri = uri
           /\ \A i \in 1..Len(s) : s[i].uri = uri => i <= LastOf(s, uri)
<1> DEFINE I == {i \in 1..Len(s) : s[i].uri = uri}
<1>1. LastOf(s, uri) = IF I # {} THEN Max(I) ELSE 0
  BY DEF LastOf, SelectLastInSeq
<1>2. CASE I = {}
  BY <1>1, <1>2
<1>3. CASE I # {}
  <2>1. \E x \in I : \A y \in I : x >= y
    <3>1. I \subseteq 1..Len(s) /\ Len(s) \in Nat
      OBVIOUS
    <3> QED BY <1>3, <3>1, GreatestNumber
  <2>2. Max(I) \in I /\ \A y \in I : Max(I) >= y
    BY <2>1 DEF Max
  <2>3. LastOf(s, uri) \in I /\ \A y \in I : LastOf(s, uri) >= y
    BY <1>1, <1>3, <2>2
  <2> QED BY <2>3
<1> QED BY <1>2, <1>3

\* Another change is the last one for its uri, and for no other.
LEMMA LastAppended ==
    ASSUME NEW s \in Seq(Change), NEW e \in Change
    PROVE  /\ Append(s, e) \in Seq(Change)
           /\ LastOf(Append(s, e), e.uri) = Len(s) + 1 /\ Append(s, e)[Len(s) + 1] = e
           /\ \A uri : uri # e.uri => LastOf(Append(s, e), uri) = LastOf(s, uri)
           /\ \A i \in 1..Len(s) : Append(s, e)[i] = s[i]
<1>1. PICK t : t = Append(s, e)
  OBVIOUS
<1>2. PICK n \in Nat : n = Len(s)
  OBVIOUS
<1>3. /\ t \in Seq(Change) /\ Len(t) = n + 1 /\ t[n + 1] = e
      /\ \A i \in 1..n : t[i] = s[i]
  BY <1>1, <1>2
<1>4. LastOf(t, e.uri) = n + 1
  <2>1. /\ LastOf(t, e.uri) \in 0..(n + 1)
        /\ \A i \in 1..(n + 1) : t[i].uri = e.uri => i <= LastOf(t, e.uri)
    BY <1>3, LastIs
  <2>2. n + 1 <= LastOf(t, e.uri)
    <3>1. n + 1 \in 1..(n + 1)
      OBVIOUS
    <3> QED BY <1>3, <2>1, <3>1
  <2> QED BY <2>1, <2>2
<1>5. ASSUME NEW uri, uri # e.uri PROVE LastOf(t, uri) = LastOf(s, uri)
  <2>a. PICK a : a = LastOf(s, uri)
    OBVIOUS
  <2>b. PICK b : b = LastOf(t, uri)
    OBVIOUS
  <2>1. /\ a \in 0..n /\ (a # 0 => s[a].uri = uri)
        /\ \A i \in 1..n : s[i].uri = uri => i <= a
    BY <1>2, <2>a, LastIs
  <2>2. /\ b \in 0..(n + 1) /\ (b # 0 => t[b].uri = uri)
        /\ \A i \in 1..(n + 1) : t[i].uri = uri => i <= b
    BY <1>3, <2>b, LastIs
  <2>3. b # n + 1
    BY <1>3, <1>5, <2>2
  <2>4. b # 0 => b \in 1..n /\ s[b].uri = uri
    BY <1>3, <2>2, <2>3
  <2>5. b <= a
    BY <2>1, <2>2, <2>4
  <2>6. a # 0 => a \in 1..(n + 1) /\ t[a].uri = uri
    <3>1. a # 0 => a \in 1..n
      BY <2>1
    <3>2. a # 0 => t[a] = s[a]
      BY <1>3, <3>1
    <3> QED BY <2>1, <3>1, <3>2
  <2>7. a <= b
    BY <2>1, <2>2, <2>6
  <2> QED BY <2>a, <2>b, <2>1, <2>2, <2>5, <2>7
<1> QED BY <1>1, <1>2, <1>3, <1>4, <1>5

\* A sequence without its i-th element.
LEMMA Removal ==
    ASSUME NEW S, NEW s \in Seq(S), NEW i \in 1..Len(s)
    PROVE  /\ RemoveAt(s, i) \in Seq(S) /\ Len(RemoveAt(s, i)) = Len(s) - 1
           /\ \A p \in 1..(Len(s) - 1) : RemoveAt(s, i)[p] = IF p < i THEN s[p] ELSE s[p + 1]
<1>a. PICK n \in Nat : n = Len(s)
  OBVIOUS
<1>b. PICK front : front = SubSeq(s, 1, i - 1)
  OBVIOUS
<1>c. PICK back : back = SubSeq(s, i + 1, Len(s))
  OBVIOUS
<1>1. i - 1 \in 0..n /\ i \in 0..n /\ i \in 1..n
  BY <1>a
<1>2. /\ front \in Seq(S) /\ Len(front) = i - 1 /\ \A p \in 1..(i - 1) : front[p] = s[p]
  <2>1. \A m \in 0..Len(s) : /\ SubSeq(s, 1, m) \in Seq(S) /\ Len(SubSeq(s, 1, m)) = m
                             /\ \A p \in 1..m : SubSeq(s, 1, m)[p] = s[p]
    OBVIOUS
  <2> QED BY <1>a, <1>b, <1>1, <2>1
<1>3. /\ back \in Seq(S) /\ Len(back) = n - i /\ \A p \in 1..(n - i) : back[p] = s[i + p]
  <2>1. \A m \in 0..Len(s) :
          /\ SubSeq(s, m + 1, Len(s)) \in Seq(S) /\ Len(SubSeq(s, m + 1, Len(s))) = Len(s) - m
          /\ \A p \in 1..(Len(s) - m) : SubSeq(s, m + 1, Len(s))[p] = s[m + p]
    OBVIOUS
  <2> QED BY <1>a, <1>c, <1>1, <2>1
<1>4. PICK r : r = RemoveAt(s, i) /\ r = front \o back
  BY <1>b, <1>c DEF RemoveAt
<1>5. /\ front \o back \in Seq(S) /\ Len(front \o back) = Len(front) + Len(back)
      /\ \A p \in 1..Len(front) : (front \o back)[p] = front[p]
      /\ \A p \in 1..Len(back) : (front \o back)[Len(front) + p] = back[p]
  <2>1. front \in Seq(S) /\ back \in Seq(S)
    BY <1>2, <1>3
  <2> QED BY <2>1, Joined
<1>6. /\ r \in Seq(S) /\ Len(r) = (i - 1) + (n - i)
      /\ \A p \in 1..(i - 1) : r[p] = s[p]
      /\ \A p \in 1..(n - i) : r[(i - 1) + p] = s[i + p]
  BY <1>2, <1>3, <1>4, <1>5
<1>7. (i - 1) + (n - i) = n - 1
  BY <1>1
<1>8. ASSUME NEW p \in 1..(n - 1) PROVE r[p] = IF p < i THEN s[p] ELSE s[p + 1]
  <2>1. CASE p < i
    <3>1. p \in 1..(i - 1)
      BY <1>1, <2>1
    <3> QED BY <1>6, <2>1, <3>1
  <2>2. CASE ~(p < i)
    <3>1. p - (i - 1) \in 1..(n - i) /\ (i - 1) + (p - (i - 1)) = p /\ i + (p - (i - 1)) = p + 1
      BY <1>1, <2>2
    <3>2. r[(i - 1) + (p - (i - 1))] = s[i + (p - (i - 1))]
      BY <1>6, <3>1, Zenon
    <3> QED BY <2>2, <3>1, <3>2
  <2> QED BY <2>1, <2>2
<1> QED BY <1>a, <1>4, <1>6, <1>7, <1>8

Find(globs, uri) == SelectInSeq(globs, LAMBDA e : e[1] = uri)

\* The loops over m_globs find the first entry of a pattern, if there is one.
LEMMA FirstGlob ==
    ASSUME NEW s \in Seq(Glob), NEW uri
    PROVE  \/ Find(s, uri) = 0 /\ \A p \in 1..Len(s) : s[p][1] # uri
           \/ Find(s, uri) \in 1..Len(s) /\ s[Find(s, uri)][1] = uri
<1> DEFINE I == {p \in 1..Len(s) : s[p][1] = uri}
<1>1. Find(s, uri) = IF I # {} THEN Min(I) ELSE 0
  BY DEF Find, SelectInSeq
<1>2. CASE I = {}
  BY <1>1, <1>2
<1>3. CASE I # {}
  <2>1. \E x \in I : \A y \in I : x <= y
    <3>1. I \subseteq Nat
      OBVIOUS
    <3> QED BY <1>3, <3>1, LeastNumber
  <2>2. Min(I) \in I
    BY <2>1 DEF Min
  <2> QED BY <1>1, <1>3, <2>2
<1> QED BY <1>2, <1>3

\* The entries of the table without those of a pattern, in the same order.
LEMMA WithoutIs ==
    ASSUME TableInv, NEW uri, NEW r, r = Without(uri)
    PROVE  /\ r \in Seq(Glob)
           /\ \A p \in 1..Len(r) : r[p][1] # uri /\ \E q \in 1..Len(m_globs) : r[p] = m_globs[q]
           /\ \A q \in 1..Len(m_globs) : m_globs[q][1] # uri => \E p \in 1..Len(r) : r[p] = m_globs[q]
           /\ \A p, q \in 1..Len(r) : p < q => Newest(r[p][1]) < Newest(r[q][1])
<1>a. PICK s : s = m_globs
  OBVIOUS
<1>b. PICK n \in Nat : n = Len(s)
  BY <1>a DEF TableInv
<1>c. PICK first : first = Find(s, uri)
  OBVIOUS
<1>1. s \in Seq(Glob) /\ \A p, q \in 1..n : p < q => Newest(s[p][1]) < Newest(s[q][1])
  BY <1>a, <1>b DEF TableInv
<1>2. r = IF first = 0 THEN s ELSE RemoveAt(s, first)
  BY <1>a, <1>c DEF Without, Find
<1>3. \/ first = 0 /\ \A p \in 1..n : s[p][1] # uri
      \/ first \in 1..n /\ s[first][1] = uri
  <2>1. s \in Seq(Glob)
    BY <1>1
  <2> QED BY <1>b, <1>c, <2>1, FirstGlob
<1>4. CASE first = 0
  <2>1. r = m_globs /\ \A p \in 1..n : s[p][1] # uri
    BY <1>a, <1>2, <1>3, <1>4
  <2> QED BY <1>a, <1>b, <1>1, <2>1
<1>5. ASSUME first # 0
      PROVE  /\ r \in Seq(Glob)
             /\ \A p \in 1..Len(r) : r[p][1] # uri /\ \E q \in 1..n : r[p] = s[q]
             /\ \A q \in 1..n : s[q][1] # uri => \E p \in 1..Len(r) : r[p] = s[q]
             /\ \A p, q \in 1..Len(r) : p < q => Newest(r[p][1]) < Newest(r[q][1])
  <2>1. first \in 1..n /\ s[first][1] = uri /\ r = RemoveAt(s, first)
    BY <1>2, <1>3, <1>5
  <2>2. /\ r \in Seq(Glob) /\ Len(r) = n - 1
        /\ \A p \in 1..(n - 1) : r[p] = IF p < first THEN s[p] ELSE s[p + 1]
    <3>1. s \in Seq(Glob) /\ first \in 1..Len(s)
      BY <1>b, <1>1, <2>1
    <3>2. /\ RemoveAt(s, first) \in Seq(Glob) /\ Len(RemoveAt(s, first)) = Len(s) - 1
          /\ \A p \in 1..(Len(s) - 1) :
               RemoveAt(s, first)[p] = IF p < first THEN s[p] ELSE s[p + 1]
      BY <3>1, Removal
    <3> QED BY <1>b, <2>1, <3>2, Zenon
  <2> DEFINE at(p) == IF p < first THEN p ELSE p + 1
  <2>3. \A p \in 1..(n - 1) : at(p) \in 1..n /\ at(p) # first /\ r[p] = s[at(p)]
    BY <2>1, <2>2
  <2>4. \A p, q \in 1..(n - 1) : p < q => at(p) < at(q)
    BY <2>1
  <2>5. \A q \in 1..n : q # first => \E p \in 1..(n - 1) : at(p) = q
    <3> SUFFICES ASSUME NEW q \in 1..n, q # first PROVE \E p \in 1..(n - 1) : at(p) = q
      OBVIOUS
    <3>1. CASE q < first
      <4>1. q \in 1..(n - 1) /\ at(q) = q
        BY <2>1, <3>1
      <4> QED BY <4>1
    <3>2. CASE ~(q < first)
      <4>1. q - 1 \in 1..(n - 1) /\ at(q - 1) = q
        BY <2>1, <3>2
      <4> QED BY <4>1
    <3> QED BY <3>1, <3>2
  <2> HIDE DEF at
  <2>6. \A q \in 1..n : q # first => s[q][1] # uri
    <3> SUFFICES ASSUME NEW q \in 1..n, q # first, s[q][1] = uri PROVE FALSE
      OBVIOUS
    <3>1. q < first \/ first < q
      BY <2>1
    <3>2. Newest(uri) < Newest(uri)
      BY <1>1, <2>1, <3>1
    <3>3. Newest(uri) \in Nat
      BY LastIs DEF Newest, TableInv
    <3> QED BY <3>2, <3>3
  <2>7. \A p \in 1..(n - 1) : r[p][1] # uri /\ \E q \in 1..n : r[p] = s[q]
    BY <2>3, <2>6
  <2>8. \A q \in 1..n : s[q][1] # uri => \E p \in 1..(n - 1) : r[p] = s[q]
    <3> SUFFICES ASSUME NEW q \in 1..n, s[q][1] # uri PROVE \E p \in 1..(n - 1) : r[p] = s[q]
      OBVIOUS
    <3>1. PICK p \in 1..(n - 1) : at(p) = q
      BY <2>1, <2>5
    <3> QED BY <2>3, <3>1
  <2>9. \A p, q \in 1..(n - 1) : p < q => Newest(r[p][1]) < Newest(r[q][1])
    BY <1>1, <2>3, <2>4
  <2> QED BY <2>2, <2>7, <2>8, <2>9
<1> QED BY <1>a, <1>b, <1>4, <1>5

\* What a change of the table leaves alone: all but its uri.
LEMMA ChangeKeeps ==
    ASSUME TableInv, NEW e \in Change, log' = Append(log, e)
    PROVE  /\ log' \in Seq(Change) /\ Newest(e.uri)' = Len(log) + 1 /\ log'[Newest(e.uri)'] = e
           /\ (Live(e.uri)' <=> e.op = "add")
           /\ \A uri : uri # e.uri =>
                /\ Newest(uri)' = Newest(uri) /\ (Live(uri)' <=> Live(uri))
                /\ Live(uri) => log'[Newest(uri)'] = log[Newest(uri)]
           /\ \A uri : Newest(uri) \in 0..Len(log)
<1>1. log \in Seq(Change) /\ Len(log) \in Nat
  BY DEF TableInv
<1>2. /\ log' \in Seq(Change) /\ Newest(e.uri)' = Len(log) + 1 /\ log'[Len(log) + 1] = e
      /\ \A uri : uri # e.uri => Newest(uri)' = Newest(uri)
      /\ \A i \in 1..Len(log) : log'[i] = log[i]
  BY <1>1, LastAppended DEF Newest
<1>3. \A uri : Newest(uri) \in 0..Len(log)
  BY <1>1, LastIs DEF Newest
<1>4. Live(e.uri)' <=> e.op = "add"
  BY <1>1, <1>2 DEF Live
<1>5. ASSUME NEW uri, uri # e.uri
      PROVE  /\ Newest(uri)' = Newest(uri) /\ (Live(uri)' <=> Live(uri))
             /\ Live(uri) => log'[Newest(uri)'] = log[Newest(uri)]
  <2>1. Newest(uri)' = Newest(uri)
    BY <1>2, <1>5
  <2>2. Newest(uri) # 0 => Newest(uri) \in 1..Len(log)
    BY <1>1, <1>3
  <2>3. Newest(uri) # 0 => log'[Newest(uri)] = log[Newest(uri)]
    BY <1>2, <2>2
  <2> QED BY <2>1, <2>3 DEF Live
<1> QED BY <1>2, <1>3, <1>4, <1>5

\* addServlet and delServlet for the path itself.
LEMMA ChangePath ==
    ASSUME TableInv, calls' \in Nat, NEW e \in Change, e.uri = Path, log' = Append(log, e),
           UNCHANGED m_globs, m_datas' = IF e.op = "add" THEN e.servlet ELSE Default,
           e.op = "add" => e.servlet # Default
    PROVE  TableInv'
<1>1. /\ log' \in Seq(Change) /\ log'[Newest(Path)'] = e /\ (Live(Path)' <=> e.op = "add")
      /\ \A uri : uri # Path =>
           /\ Newest(uri)' = Newest(uri) /\ (Live(uri)' <=> Live(uri))
           /\ Live(uri) => log'[Newest(uri)'] = log[Newest(uri)]
  BY ChangeKeeps
<1>2. \A p \in DOMAIN m_globs : m_globs[p][1] \in Uris \ {Path}
  BY DEF TableInv, Glob
<1>3. /\ m_datas' = IF Live(Path)' THEN log'[Newest(Path)'].servlet ELSE Default
      /\ Live(Path)' => log'[Newest(Path)'].servlet # Default
  BY <1>1
<1>4. \A p \in DOMAIN m_globs :
         Live(m_globs[p][1])' /\ m_globs[p][2] = log'[Newest(m_globs[p][1])'].servlet
  BY <1>1, <1>2, ZenonT(30) DEF TableInv
<1>5. \A uri \in Uris \ {Path} : Live(uri)' => \E p \in DOMAIN m_globs : m_globs[p][1] = uri
  BY <1>1 DEF TableInv
<1>6. \A p, q \in DOMAIN m_globs : p < q => Newest(m_globs[p][1])' < Newest(m_globs[q][1])'
  BY <1>1, <1>2 DEF TableInv
<1> QED BY <1>1, <1>3, <1>4, <1>5, <1>6 DEF TableInv

\* delServlet for a pattern.
LEMMA DropGlob ==
    ASSUME TableInv, calls' \in Nat, NEW e \in Change, e.uri # Path, e.op = "del",
           log' = Append(log, e), m_globs' = Without(e.uri), UNCHANGED m_datas
    PROVE  TableInv'
<1>1. /\ log' \in Seq(Change) /\ ~Live(e.uri)'
      /\ \A uri : uri # e.uri =>
           /\ Newest(uri)' = Newest(uri) /\ (Live(uri)' <=> Live(uri))
           /\ Live(uri) => log'[Newest(uri)'] = log[Newest(uri)]
  BY ChangeKeeps
<1>a. PICK r : r = m_globs'
  OBVIOUS
<1>2. /\ r \in Seq(Glob)
      /\ \A p \in 1..Len(r) : r[p][1] # e.uri /\ \E q \in 1..Len(m_globs) : r[p] = m_globs[q]
      /\ \A q \in 1..Len(m_globs) : m_globs[q][1] # e.uri => \E p \in 1..Len(r) : r[p] = m_globs[q]
      /\ \A p, q \in 1..Len(r) : p < q => Newest(r[p][1]) < Newest(r[q][1])
  BY <1>a, WithoutIs
<1>3. DOMAIN r = 1..Len(r) /\ DOMAIN m_globs = 1..Len(m_globs)
  BY <1>2 DEF TableInv
<1>4. /\ m_datas' = IF Live(Path)' THEN log'[Newest(Path)'].servlet ELSE Default
      /\ Live(Path)' => log'[Newest(Path)'].servlet # Default
  BY <1>1 DEF TableInv
<1>5. ASSUME NEW p \in DOMAIN r PROVE Live(r[p][1])' /\ r[p][2] = log'[Newest(r[p][1])'].servlet
  <2>1. PICK q \in DOMAIN m_globs : r[p] = m_globs[q] /\ r[p][1] # e.uri
    BY <1>2, <1>3
  <2>2. Live(r[p][1]) /\ r[p][2] = log[Newest(r[p][1])].servlet
    BY <2>1 DEF TableInv
  <2> QED BY <1>1, <2>1, <2>2
<1>6. \A uri \in Uris \ {Path} : Live(uri)' => \E p \in DOMAIN r : r[p][1] = uri
  <2> SUFFICES ASSUME NEW uri \in Uris \ {Path}, Live(uri)' PROVE \E p \in DOMAIN r : r[p][1] = uri
    OBVIOUS
  <2>1. uri # e.uri /\ Live(uri)
    BY <1>1
  <2>2. PICK q \in DOMAIN m_globs : m_globs[q][1] = uri
    BY <2>1 DEF TableInv
  <2> QED BY <1>2, <1>3, <2>1, <2>2
<1>7. \A p, q \in DOMAIN r : p < q => Newest(r[p][1])' < Newest(r[q][1])'
  BY <1>1, <1>2, <1>3
<1> QED BY <1>a, <1>1, <1>2, <1>4, <1>5, <1>6, <1>7 DEF TableInv

\* addServlet for a pattern, which goes behind all others.
LEMMA AddGlob ==
    ASSUME TableInv, calls' \in Nat, NEW e \in Change, e.uri # Path, e.op = "add", e.servlet # 0,
           log' = Append(log, e), m_globs' = Append(Without(e.uri), <<e.uri, e.servlet>>),
           UNCHANGED m_datas
    PROVE  TableInv'
<1>1. /\ log' \in Seq(Change) /\ Newest(e.uri)' = Len(log) + 1 /\ log'[Newest(e.uri)'] = e
      /\ Live(e.uri)'
      /\ \A uri : uri # e.uri =>
           /\ Newest(uri)' = Newest(uri) /\ (Live(uri)' <=> Live(uri))
           /\ Live(uri) => log'[Newest(uri)'] = log[Newest(uri)]
      /\ \A uri : Newest(uri) \in 0..Len(log)
  BY ChangeKeeps
<1>a. PICK r : r = Without(e.uri)
  OBVIOUS
<1>b. PICK g : g = <<e.uri, e.servlet>>
  OBVIOUS
<1>c. PICK t : t = m_globs'
  OBVIOUS
<1>2. /\ r \in Seq(Glob)
      /\ \A p \in 1..Len(r) : r[p][1] # e.uri /\ \E q \in 1..Len(m_globs) : r[p] = m_globs[q]
      /\ \A q \in 1..Len(m_globs) : m_globs[q][1] # e.uri => \E p \in 1..Len(r) : r[p] = m_globs[q]
      /\ \A p, q \in 1..Len(r) : p < q => Newest(r[p][1]) < Newest(r[q][1])
  BY <1>a, WithoutIs
<1>3. g \in Glob /\ g[1] = e.uri /\ g[2] = e.servlet
  BY <1>b DEF Glob, Change
<1>4. PICK n \in Nat : n = Len(r)
  BY <1>2
<1>5. t = Append(r, g) /\ r \in Seq(Glob)
  BY <1>a, <1>b, <1>c, <1>2
<1>6. /\ t \in Seq(Glob) /\ DOMAIN t = 1..(n + 1) /\ t[n + 1] = g /\ \A p \in 1..n : t[p] = r[p]
      /\ n + 1 \in 1..(n + 1) /\ \A p \in 1..(n + 1) : p \in 1..n \/ p = n + 1
  BY <1>3, <1>4, <1>5
<1>7. DOMAIN m_globs = 1..Len(m_globs) /\ Len(log) \in Nat
  BY DEF TableInv
<1>8. /\ m_datas' = IF Live(Path)' THEN log'[Newest(Path)'].servlet ELSE Default
      /\ Live(Path)' => log'[Newest(Path)'].servlet # Default
  BY <1>1 DEF TableInv
<1>9. ASSUME NEW p \in DOMAIN t PROVE Live(t[p][1])' /\ t[p][2] = log'[Newest(t[p][1])'].servlet
  <2>1. CASE p = n + 1
    BY <1>1, <1>3, <1>6, <2>1
  <2>2. CASE p \in 1..n
    <3>1. t[p] = r[p] /\ r[p][1] # e.uri
      BY <1>2, <1>4, <1>6, <2>2
    <3>2. PICK q \in DOMAIN m_globs : r[p] = m_globs[q]
      BY <1>2, <1>4, <1>7, <2>2
    <3>3. Live(r[p][1]) /\ r[p][2] = log[Newest(r[p][1])].servlet
      BY <3>2 DEF TableInv
    <3> QED BY <1>1, <3>1, <3>3
  <2> QED BY <1>6, <2>1, <2>2
<1>10. ASSUME NEW uri \in Uris \ {Path}, Live(uri)' PROVE \E p \in DOMAIN t : t[p][1] = uri
  <2>1. CASE uri = e.uri
    BY <1>3, <1>6, <2>1
  <2>2. CASE uri # e.uri
    <3>1. PICK q \in DOMAIN m_globs : m_globs[q][1] = uri
      BY <1>1, <1>10, <2>2 DEF TableInv
    <3>2. PICK p \in 1..n : r[p] = m_globs[q]
      BY <1>2, <1>4, <1>7, <2>2, <3>1
    <3>3. p \in DOMAIN t
      BY <1>6
    <3> QED BY <1>6, <3>1, <3>2, <3>3
  <2> QED BY <2>1, <2>2
<1>11. ASSUME NEW p \in DOMAIN t, NEW q \in DOMAIN t, p < q
       PROVE  Newest(t[p][1])' < Newest(t[q][1])'
  <2>1. p \in 1..n
    BY <1>6, <1>11
  <2>2. t[p] = r[p] /\ r[p][1] # e.uri
    BY <1>2, <1>4, <1>6, <2>1
  <2>3. Newest(t[p][1])' = Newest(r[p][1])
    BY <1>1, <2>2
  <2>4. CASE q = n + 1
    <3>1. Newest(t[q][1])' = Len(log) + 1
      BY <1>1, <1>3, <1>6, <2>4
    <3>2. Newest(r[p][1]) \in 0..Len(log)
      BY <1>1
    <3> QED BY <1>7, <2>3, <3>1, <3>2
  <2>5. CASE q \in 1..n
    <3>1. t[q] = r[q] /\ r[q][1] # e.uri
      BY <1>2, <1>4, <1>6, <2>5
    <3>2. Newest(t[q][1])' = Newest(r[q][1])
      BY <1>1, <3>1
    <3> QED BY <1>2, <1>4, <1>11, <2>1, <2>3, <2>5, <3>2
  <2> QED BY <1>6, <2>4, <2>5
<1> QED BY <1>c, <1>1, <1>6, <1>8, <1>9, <1>10, <1>11 DEF TableInv

\* Any step.
LEMMA TableStep ==
    ASSUME TableInv, [Next]_vars
    PROVE  TableInv'
<1>1. ASSUME calls' \in Nat, UNCHANGED table PROVE TableInv'
  BY <1>1 DEF table, TableInv, Live, Newest
<1>2. calls \in Nat
  BY DEF TableInv
<1>3. ASSUME NEW uri \in Uris, addServlet(uri) PROVE TableInv'
  <2>a. PICK e : e = [op |-> "add", uri |-> uri, servlet |-> calls + 1]
    OBVIOUS
  <2>1. calls + 1 \in Nat /\ calls + 1 # 0 /\ calls' = calls + 1 /\ log' = Append(log, e)
    BY <1>2, <1>3, <2>a DEF addServlet, Call
  <2>2. e \in Change /\ e.op = "add" /\ e.uri = uri /\ e.servlet = calls + 1
    BY <2>a, <2>1 DEF Change
  <2>3. CASE uri = Path
    BY <1>3, <2>1, <2>2, <2>3, ChangePath DEF addServlet, Default
  <2>4. CASE uri # Path
    BY <1>3, <2>1, <2>2, <2>4, AddGlob DEF addServlet
  <2> QED BY <2>3, <2>4
<1>4. ASSUME NEW uri \in Uris, delServlet(uri) PROVE TableInv'
  <2>a. PICK e : e = [op |-> "del", uri |-> uri, servlet |-> Default]
    OBVIOUS
  <2>1. calls' \in Nat /\ log' = Append(log, e)
    BY <1>2, <1>4, <2>a DEF delServlet, Call
  <2>2. e \in Change /\ e.op = "del" /\ e.uri = uri
    BY <2>a DEF Change, Default
  <2>3. CASE uri = Path
    BY <1>4, <2>1, <2>2, <2>3, ChangePath DEF delServlet
  <2>4. CASE uri # Path
    BY <1>4, <2>1, <2>2, <2>4, DropGlob DEF delServlet
  <2> QED BY <2>3, <2>4
<1>5. ASSUME \/ \E works \in BOOLEAN : bind(works)
             \/ start \/ stop
      PROVE  TableInv'
  <2>1. UNCHANGED table /\ calls' = calls + 1
    BY <1>5 DEF bind, start, stop, Call
  <2> QED BY <1>1, <1>2, <2>1
<1>6. ASSUME Peers PROVE TableInv'
  BY <1>1, <1>2, <1>6 DEF Peers, Connect, Send, Call
<1>7. ASSUME stopTask \/ stopTaskCloses PROVE TableInv'
  BY <1>1, <1>2, <1>7 DEF stopTask, stopTaskCloses
<1>8. ASSUME NEW l \in DOMAIN loops, Loop(l) PROVE TableInv'
  BY <1>1, <1>2, <1>8 DEF Loop, Test, Accept, AcceptWaits, AcceptWakes, AcceptFails
<1>9. ASSUME NEW c \in Clients, Session(c) \/ sendResponse(c) PROVE TableInv'
  BY <1>1, <1>2, <1>9 DEF Session, ReadHead, ReadBody, Wait, ReadFails, handleClient, sendResponse
<1>10. ASSUME UNCHANGED vars PROVE TableInv'
  BY <1>1, <1>2, <1>10 DEF vars
<1> QED BY <1>3, <1>4, <1>5, <1>6, <1>7, <1>8, <1>9, <1>10 DEF Next, Program

\* The table is empty.
LEMMA TableStart ==
    ASSUME Init
    PROVE  TableInv
<1>1. log = <<>> /\ m_globs = <<>> /\ m_datas = Default /\ calls = 0
  BY DEF Init
<1>2. log \in Seq(Change) /\ Len(log) = 0
  BY <1>1
<1>3. \A uri : ~Live(uri)
  <2>1. \A uri : LastOf(log, uri) \in 0..Len(log)
    BY <1>2, LastIs
  <2> QED BY <1>2, <2>1 DEF Live, Newest
<1>4. m_globs \in Seq(Glob) /\ DOMAIN m_globs = {}
  BY <1>1
<1> QED BY <1>1, <1>2, <1>3, <1>4 DEF TableInv

\* A request goes to the servlet added last for its path, else to the pattern that
\* has been in the table longest, else to the default, after any addServlet and
\* delServlet.
THEOREM DispatchAlwaysExact == Spec => []DispatchExact
<1>1. TableInv /\ [Next]_vars => TableInv'
  BY TableStep
<1>2. ASSUME TableInv PROVE DispatchExact
  <2> DEFINE live == {uri \in Uris : Live(uri)}
  <2>1. DispatchExact <=>
          getMatchedServlet =
            IF Path \in live THEN log[Newest(Path)].servlet
            ELSE IF live = {} THEN Default
            ELSE log[CHOOSE k \in {Newest(u) : u \in live} : \A u \in live : k <= Newest(u)].servlet
    BY DEF DispatchExact, Live, Newest, LastOf
  <2>2. Path \in live <=> Live(Path)
    BY DEF Uris
  <2>3. CASE Live(Path)
    BY <1>2, <2>1, <2>2, <2>3 DEF TableInv, getMatchedServlet
  <2>4. ASSUME ~Live(Path) PROVE DispatchExact
    <3>1. m_datas = Default
      BY <1>2, <2>4 DEF TableInv
    <3>2. \A p \in DOMAIN m_globs : m_globs[p][1] \in live
      BY <1>2 DEF TableInv, Glob
    <3>3. \A u \in live : \E p \in DOMAIN m_globs : m_globs[p][1] = u
      BY <1>2, <2>4 DEF TableInv
    <3>4. m_globs = <<>> <=> DOMAIN m_globs = {}
      BY <1>2 DEF TableInv
    <3>5. CASE m_globs = <<>>
      <4>1. live = {}
        BY <3>3, <3>4, <3>5
      <4> QED BY <2>1, <2>2, <2>4, <3>1, <3>5, <4>1 DEF getMatchedServlet
    <3>6. ASSUME m_globs # <<>> PROVE DispatchExact
      <4>1. 1 \in DOMAIN m_globs /\ \A p \in DOMAIN m_globs : p = 1 \/ 1 < p
        BY <1>2, <3>6 DEF TableInv
      <4>2. PICK u \in live : u = m_globs[1][1]
        BY <3>2, <4>1
      <4>3. m_globs[1][2] = log[Newest(u)].servlet
        BY <1>2, <4>1, <4>2 DEF TableInv
      <4>4. \A v : Newest(v) \in Nat
        BY <1>2, LastIs DEF TableInv, Newest
      <4>5. \A v \in live : Newest(u) <= Newest(v)
        <5> SUFFICES ASSUME NEW v \in live PROVE Newest(u) <= Newest(v)
          OBVIOUS
        <5>1. PICK p \in DOMAIN m_globs : m_globs[p][1] = v
          BY <3>3
        <5>2. p = 1 => Newest(u) = Newest(v)
          BY <4>2, <5>1
        <5>3. 1 < p => Newest(u) < Newest(v)
          BY <1>2, <4>1, <4>2, <5>1 DEF TableInv
        <5> QED BY <4>1, <4>4, <5>2, <5>3
      <4> HIDE DEF live
      <4>6. (CHOOSE m \in {Newest(v) : v \in live} : \A v \in live : m <= Newest(v)) = Newest(u)
        <5>1. \E k \in {Newest(v) : v \in live} : \A v \in live : k <= Newest(v)
          BY <4>5
        <5>2. PICK k : k = CHOOSE m \in {Newest(v) : v \in live} : \A v \in live : m <= Newest(v)
          OBVIOUS
        <5>3. k \in {Newest(v) : v \in live} /\ \A v \in live : k <= Newest(v)
          BY <5>1, <5>2
        <5>4. k <= Newest(u) /\ Newest(u) <= k /\ k \in Nat
          BY <4>4, <4>5, <5>3
        <5> QED BY <4>4, <5>2, <5>4
      <4>7. getMatchedServlet = m_globs[1][2]
        BY <3>1, <3>6 DEF getMatchedServlet
      <4>8. Path \notin live /\ live # {}
        BY <2>2, <2>4, <4>2
      <4> QED BY <2>1, <4>3, <4>6, <4>7, <4>8
    <3> QED BY <3>5, <3>6
  <2> QED BY <2>3, <2>4
<1> QED BY <1>1, <1>2, TableStart, PTL DEF Spec

=============================================================================
