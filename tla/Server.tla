------------------------------- MODULE Server -------------------------------
(***************************************************************************)
(* HttpServer on TcpServer: the listening sockets and their accept loops     *)
(* (webserve/tcp_server.cc), the fiber of each connection (HttpServer::       *)
(* handleClient, HttpSession::recvRequest) and the table of servlets           *)
(* (http/servlet.cc).                                                          *)
(*                                                                         *)
(* A request is a head and a body.  Its bytes are <<i, k>>: of the client's     *)
(* i-th request, k = 1 the request line and the name Content-Length, k = 2 the  *)
(* length and the end of the head, k > 2 the body.  A read that ends between    *)
(* the first two cuts the head; what the parser then makes of it is the         *)
(* subject of module Parsers.  Clients and the program that runs the server     *)
(* make at most MaxCalls calls.                                                 *)
(***************************************************************************)
EXTENDS Integers, Sequences, FiniteSets, SequencesExt

CONSTANTS
  Clients,
  Bodies,       \* lengths of bodies
  BuffSize,     \* HttpRequestParser::GetHttpRequestBufferSize
  Globs,        \* glob patterns; each matches the one path that is asked for
  MaxCalls      \* bound on the calls of clients and program

ASSUME ServerAssumption ==
  /\ IsFiniteSet(Clients)
  /\ Bodies \subseteq Nat
  /\ BuffSize \in Nat \ {0, 1}
  /\ MaxCalls \in Nat

Path == "path"
Uris == Globs \cup {Path}
Default == 0    \* NotFoundServlet

VARIABLES
  calls,        \* made so far
  \* TcpServer
  m_isStop, m_socks,
  open,         \* the listening sockets that are open
  loops,        \* the accept loops: their socket, and where they are
  closers,      \* tasks of stop() that have not run
  closing,      \* one has woken the accept loops and has not closed the sockets
  oneThread,    \* whether m_acceptWorker has one thread
  \* HttpServer
  m_isKeepalive,
  conn,         \* of each client: where its connection is
  backlog,      \* and the listening socket that has it before accept
  stream,       \* bytes it has sent and the server has not read
  eof,          \* the client has closed
  waits,        \* clients whose recv found nothing and waits, with a timeout
  deaf,         \* clients that may never read a response
  name,         \* the request whose line recvRequest has read, or 0
  left,         \* bytes of the body still to come
  body,         \* the body so far
  \* ServletDispatch
  m_datas,      \* the servlet of Path, or Default
  m_globs,      \* pairs of a pattern and a servlet
  \* history
  sent,         \* the requests of each client
  handled,      \* those given to servlets
  piped,        \* clients that sent a request before the last was answered
  cut,          \* clients one of whose heads was cut
  late,         \* clients whose bytes came too late for the timeout
  dropped,      \* sockets that a failed bind() took from m_socks
  overtaken,    \* start() was called before an earlier stop() had taken effect
  log           \* the changes of the table of servlets

tcp == <<m_isStop, m_socks, open, loops, closers, closing, oneThread, dropped, overtaken>>
config == <<m_isKeepalive, deaf>>
http == <<config, conn, backlog, stream, eof, waits, name, left, body, sent, handled, piped,
          cut, late>>
table == <<m_datas, m_globs, log>>
vars == <<calls, tcp, http, table>>

\* What http has beside conn.
sessions == <<config, backlog, stream, eof, waits, name, left, body, sent, handled, piped, cut,
              late>>

Init ==
  /\ calls = 0
  /\ m_isStop = TRUE /\ m_socks = {} /\ open = {} /\ loops = <<>> /\ closers = 0
  /\ closing = FALSE /\ oneThread \in BOOLEAN
  /\ m_isKeepalive \in BOOLEAN /\ deaf \in SUBSET Clients
  /\ conn = [c \in Clients |-> "none"]
  /\ backlog = [c \in Clients |-> 0]
  /\ stream = [c \in Clients |-> <<>>]
  /\ eof = {} /\ waits = {}
  /\ name = [c \in Clients |-> 0]
  /\ left = [c \in Clients |-> 0]
  /\ body = [c \in Clients |-> <<>>]
  /\ m_datas = Default /\ m_globs = <<>>
  /\ sent = [c \in Clients |-> <<>>]
  /\ handled = [c \in Clients |-> <<>>]
  /\ piped = {} /\ cut = {} /\ late = {} /\ dropped = {} /\ overtaken = FALSE /\ log = <<>>

Call == calls < MaxCalls /\ calls' = calls + 1

-----------------------------------------------------------------------------
(* TcpServer.                                                               *)

\* A client waits in the backlog of some socket; when that is closed it is reset.
Reset(closed) ==
  conn' = [c \in Clients |-> IF conn[c] = "backlog" /\ backlog[c] \in closed
                             THEN "reset" ELSE conn[c]]

\* bind(addrs, fails): with one failed address the sockets of all are let go.
\* Those that no accept loop holds are closed by ~Socket.
bind(works) ==
  /\ Call
  /\ IF works
     THEN LET s == calls + 1 IN
          /\ m_socks' = m_socks \cup {s}
          /\ open' = open \cup {s}
          /\ UNCHANGED <<dropped, conn>>
     ELSE LET held == {loops[l].sock : l \in {k \in DOMAIN loops : loops[k].pc # "gone"}} IN
          /\ m_socks' = {}
          /\ open' = open \ (m_socks \ held)
          /\ dropped' = dropped \cup m_socks
          /\ Reset(m_socks \ held)
  /\ UNCHANGED <<m_isStop, loops, closers, closing, oneThread, overtaken, sessions, table>>

\* The task of stop() has not run yet, or an accept loop has not seen m_isStop.
Stopping ==
  m_isStop /\ (closers > 0 \/ closing \/ \E l \in DOMAIN loops : loops[l].pc # "gone")

\* Mutant: a second start() is not refused.
startAgain ==
  /\ Call
  /\ m_isStop' = FALSE
  /\ \E order \in SetToSeqs(m_socks) :
       loops' = loops \o [i \in DOMAIN order |-> [sock |-> order[i], pc |-> "test"]]
  /\ overtaken' = (overtaken \/ Stopping)
  /\ UNCHANGED <<m_socks, open, closers, closing, oneThread, dropped, http, table>>

\* start()
start ==
  /\ Call
  /\ m_isStop
  /\ m_isStop' = FALSE
  /\ \E order \in SetToSeqs(m_socks) :
       loops' = loops \o [i \in DOMAIN order |-> [sock |-> order[i], pc |-> "test"]]
  /\ overtaken' = (overtaken \/ Stopping)
  /\ UNCHANGED <<m_socks, open, closers, closing, oneThread, dropped, http, table>>

\* stop()
stop ==
  /\ Call
  /\ m_isStop' = TRUE
  /\ closers' = closers + 1
  /\ UNCHANGED <<m_socks, open, loops, closing, oneThread, dropped, overtaken, http, table>>

\* The accept loops that wait on the sockets, woken by cancelAll().
Woken ==
  [l \in DOMAIN loops |-> IF loops[l].pc = "wait" /\ loops[l].sock \in m_socks
                          THEN [loops[l] EXCEPT !.pc = "accept"] ELSE loops[l]]

CloseSocks ==
  /\ open' = open \ m_socks
  /\ m_socks' = {}
  /\ Reset(m_socks)

\* The task that stop() schedules: cancelAll(), again in the hooked close(), and
\* close_f().  A worker with one thread does it all before any loop runs.
stopTask ==
  /\ closers > 0 /\ ~closing
  /\ closers' = closers - 1
  /\ loops' = Woken
  /\ closing' = ~oneThread
  /\ IF oneThread THEN CloseSocks ELSE UNCHANGED <<open, m_socks, conn>>
  /\ UNCHANGED <<calls, m_isStop, oneThread, dropped, overtaken, sessions, table>>

\* With more, loops run between the last cancelAll() and close_f().
stopTaskCloses ==
  /\ closing
  /\ closing' = FALSE
  /\ CloseSocks
  /\ UNCHANGED <<calls, m_isStop, loops, closers, oneThread, dropped, overtaken, sessions, table>>

\* Mutant: the loop does not look at m_isStop.
TestNever(l) ==
  /\ loops[l].pc = "test"
  /\ loops' = [loops EXCEPT ![l].pc = "accept"]
  /\ UNCHANGED <<calls, m_isStop, m_socks, open, closers, closing, oneThread, dropped, overtaken,
                 http, table>>

\* startAccept: the test of m_isStop.  A loop that ends lets go of its socket.
Test(l) ==
  LET s == loops[l].sock
      last == \A k \in DOMAIN loops : k # l /\ loops[k].sock = s => loops[k].pc = "gone"
  IN
  /\ loops[l].pc = "test"
  /\ loops' = [loops EXCEPT ![l].pc = IF m_isStop THEN "gone" ELSE "accept"]
  /\ IF m_isStop /\ last /\ s \notin m_socks
     THEN open' = open \ {s} /\ Reset({s})
     ELSE UNCHANGED <<open, conn>>
  /\ UNCHANGED <<calls, m_isStop, m_socks, closers, closing, oneThread, dropped, overtaken,
                 sessions, table>>

\* The clients a loop can accept.
Backlog(l) == {c \in Clients : conn[c] = "backlog" /\ backlog[c] = loops[l].sock}

\* accept() returns a client, which gets a fiber of its own,
Accept(l, c) ==
  /\ loops[l].pc = "accept"
  /\ loops[l].sock \in open
  /\ c \in Backlog(l)
  /\ conn' = [conn EXCEPT ![c] = "head"]
  /\ loops' = [loops EXCEPT ![l].pc = "test"]
  /\ UNCHANGED <<calls, m_isStop, m_socks, open, closers, closing, oneThread, dropped, overtaken,
                 sessions, table>>

\* or registers the loop, without a timeout, which then waits for one,
AcceptWaits(l) ==
  /\ loops[l].pc = "accept"
  /\ loops[l].sock \in open /\ Backlog(l) = {}
  /\ loops' = [loops EXCEPT ![l].pc = "wait"]
  /\ UNCHANGED <<calls, m_isStop, m_socks, open, closers, closing, oneThread, dropped, overtaken,
                 http, table>>

AcceptWakes(l) ==
  /\ loops[l].pc = "wait"
  /\ loops[l].sock \in open /\ Backlog(l) # {}
  /\ loops' = [loops EXCEPT ![l].pc = "accept"]
  /\ UNCHANGED <<calls, m_isStop, m_socks, open, closers, closing, oneThread, dropped, overtaken,
                 http, table>>

\* or fails: the socket has been closed, or FdMgr has forgotten it and it is next.
AcceptFails(l) ==
  /\ loops[l].pc = "accept"
  /\ loops[l].sock \notin open \/ (closing /\ loops[l].sock \in m_socks)
  /\ loops' = [loops EXCEPT ![l].pc = "test"]
  /\ UNCHANGED <<calls, m_isStop, m_socks, open, closers, closing, oneThread, dropped, overtaken,
                 http, table>>

-----------------------------------------------------------------------------
(* Clients.                                                                 *)

Connect(c, s) ==
  /\ Call
  /\ conn[c] = "none" /\ s \in open
  /\ conn' = [conn EXCEPT ![c] = "backlog"]
  /\ backlog' = [backlog EXCEPT ![c] = s]
  /\ UNCHANGED <<tcp, config, stream, eof, waits, name, left, body, sent, handled, piped, cut, late,
                 table>>

Bytes(i, r) == [k \in 1..(2 + r.body) |-> <<i, k>>]

\* A client sends a request, or breaks off after its first n bytes.
Send(c, r, n) ==
  LET i == Len(sent[c]) + 1 IN
  /\ Call
  /\ conn[c] \in {"backlog", "head", "body", "reply", "send"}
  /\ c \notin eof
  /\ \A k \in DOMAIN sent[c] : ~sent[c][k].close
  /\ n \in {1, 2 + r.body}
  /\ stream' = [stream EXCEPT ![c] = @ \o SubSeq(Bytes(i, r), 1, n)]
  /\ eof' = IF n < 2 + r.body THEN eof \cup {c} ELSE eof
  /\ sent' = IF n < 2 + r.body THEN sent ELSE [sent EXCEPT ![c] = Append(@, r)]
  /\ piped' = IF Len(handled[c]) < Len(sent[c]) \/ conn[c] \in {"reply", "send"}
              THEN piped \cup {c} ELSE piped
  /\ UNCHANGED <<tcp, config, backlog, conn, waits, name, left, body, handled, cut, late, table>>

-----------------------------------------------------------------------------
(* HttpSession::recvRequest and HttpServer::handleClient.                    *)

Min2(a, b) == IF a < b THEN a ELSE b

\* The body is complete.
Receive(c, i, got) ==
  /\ conn' = [conn EXCEPT ![c] = "reply"]
  /\ body' = [body EXCEPT ![c] = got]
  /\ name' = [name EXCEPT ![c] = i]
  /\ left' = [left EXCEPT ![c] = 0]

Hangup(c) ==
  /\ conn' = [conn EXCEPT ![c] = "closed"]
  /\ name' = [name EXCEPT ![c] = 0]
  /\ left' = [left EXCEPT ![c] = 0]
  /\ body' = [body EXCEPT ![c] = <<>>]

\* The head is complete.  Of the rest of the buffer as much as the body has is
\* used, and what follows is lost.
TakeBody(c, i, rest, length) ==
  IF length <= Len(rest) THEN Receive(c, i, SubSeq(rest, 1, length))
  ELSE /\ conn' = [conn EXCEPT ![c] = "body"]
       /\ body' = [body EXCEPT ![c] = rest]
       /\ name' = [name EXCEPT ![c] = i]
       /\ left' = [left EXCEPT ![c] = length - Len(rest)]

\* recv finds nothing, as what the client has sent may still be under way.  It
\* sets a timer for m_recvTimeout and waits.
Wait(c) ==
  /\ conn[c] \in {"head", "body"}
  /\ c \notin waits
  /\ waits' = waits \cup {c}
  /\ UNCHANGED <<calls, tcp, config, conn, backlog, stream, eof, name, left, body, sent, handled,
                 piped, cut, late, table>>

\* The loop of recvRequest: one read of n bytes.  The field a head was cut in is
\* lost, and with it the length if that was the field.
ReadHead(c, n) ==
  LET got == SubSeq(stream[c], 1, n)
      i == got[1][1]
      part == got[1][2]
  IN
  /\ conn[c] = "head"
  /\ n \in 1..Min2(Len(stream[c]), BuffSize)
  /\ stream' = [stream EXCEPT ![c] = SubSeq(@, n + 1, Len(@))]
  /\ CASE part = 1 /\ n = 1 ->
            /\ name' = [name EXCEPT ![c] = i]
            /\ cut' = cut \cup {c}
            /\ UNCHANGED <<conn, left, body>>
       [] part = 1 /\ n > 1 ->
            /\ TakeBody(c, i, SubSeq(got, 3, n), sent[c][i].body)
            /\ UNCHANGED cut
       [] part = 2 /\ name[c] = i ->
            /\ \E length \in {0, sent[c][i].body} : TakeBody(c, i, SubSeq(got, 2, n), length)
            /\ UNCHANGED cut
       [] OTHER -> Hangup(c) /\ UNCHANGED cut       \* hasError()
  /\ waits' = waits \ {c}
  /\ UNCHANGED <<calls, tcp, config, backlog, eof, sent, handled, piped, late, table>>

\* Mutant: each read goes to the start of the body.
ReadBodyAtStart(c, n) ==
  LET got == SubSeq(stream[c], 1, n) IN
  /\ conn[c] = "body"
  /\ n \in 1..Min2(Len(stream[c]), left[c])
  /\ stream' = [stream EXCEPT ![c] = SubSeq(@, n + 1, Len(@))]
  /\ IF n = left[c] THEN Receive(c, name[c], got)
     ELSE /\ body' = [body EXCEPT ![c] = got]
          /\ left' = [left EXCEPT ![c] = @ - n]
          /\ UNCHANGED <<conn, name>>
  /\ waits' = waits \ {c}
  /\ UNCHANGED <<calls, tcp, config, backlog, eof, sent, handled, piped, cut, late, table>>

\* readFixSize: one read of n bytes
ReadBody(c, n) ==
  LET got == body[c] \o SubSeq(stream[c], 1, n) IN
  /\ conn[c] = "body"
  /\ n \in 1..Min2(Len(stream[c]), left[c])
  /\ stream' = [stream EXCEPT ![c] = SubSeq(@, n + 1, Len(@))]
  /\ IF n = left[c] THEN Receive(c, name[c], got)
     ELSE /\ body' = [body EXCEPT ![c] = got]
          /\ left' = [left EXCEPT ![c] = @ - n]
          /\ UNCHANGED <<conn, name>>
  /\ waits' = waits \ {c}
  /\ UNCHANGED <<calls, tcp, config, backlog, eof, sent, handled, piped, cut, late, table>>

\* Mutant: accepted sockets get no timeout.
ReadFailsAtEnd(c) ==
  /\ conn[c] \in {"head", "body"}
  /\ stream[c] = <<>> /\ c \in eof
  /\ waits' = waits \ {c}
  /\ Hangup(c)
  /\ UNCHANGED <<calls, tcp, config, backlog, stream, eof, sent, handled, piped, cut, late, table>>

\* recv returns 0 after the client has closed, or -1 when m_recvTimeout is over,
\* also if bytes have come since the timer fired or before the fiber went on.
ReadFails(c) ==
  /\ conn[c] \in {"head", "body"}
  /\ c \in waits \/ (stream[c] = <<>> /\ c \in eof)
  /\ late' = IF stream[c] = <<>> THEN late ELSE late \cup {c}
  /\ waits' = waits \ {c}
  /\ Hangup(c)
  /\ UNCHANGED <<calls, tcp, config, backlog, stream, eof, sent, handled, piped, cut, table>>

\* Mutant: the loop is left before the last request is handled.
handleClientBreaksFirst(c) ==
  LET i == name[c]
      more == m_isKeepalive /\ ~sent[c][i].close
  IN
  /\ conn[c] = "reply"
  /\ handled' = IF more THEN [handled EXCEPT ![c] = Append(@, [request |-> i, body |-> body[c]])]
                ELSE handled
  /\ conn' = [conn EXCEPT ![c] = IF more THEN "send" ELSE "closed"]
  /\ UNCHANGED <<calls, tcp, config, backlog, stream, eof, waits, name, left, body, sent, piped,
                 cut, late, table>>

\* The request goes to its servlet,
handleClient(c) ==
  /\ conn[c] = "reply"
  /\ handled' = [handled EXCEPT ![c] = Append(@, [request |-> name[c], body |-> body[c]])]
  /\ conn' = [conn EXCEPT ![c] = "send"]
  /\ UNCHANGED <<calls, tcp, config, backlog, stream, eof, waits, name, left, body, sent, piped,
                 cut, late, table>>

\* and when the client has taken the response, for which nothing sets a timeout,
\* the loop goes on to the next request or to its end.
sendResponse(c) ==
  /\ conn[c] = "send"
  /\ conn' = [conn EXCEPT ![c] = IF m_isKeepalive /\ ~sent[c][name[c]].close
                                 THEN "head" ELSE "closed"]
  /\ name' = [name EXCEPT ![c] = 0]
  /\ body' = [body EXCEPT ![c] = <<>>]
  /\ UNCHANGED <<calls, tcp, config, backlog, stream, eof, waits, left, sent, handled, piped,
                 cut, late, table>>

-----------------------------------------------------------------------------
(* ServletDispatch.  A servlet is named by the call that added it.           *)

\* The loops over m_globs stop at the first entry of the pattern.
Without(uri) ==
  LET first == SelectInSeq(m_globs, LAMBDA e : e[1] = uri) IN
  IF first = 0 THEN m_globs ELSE RemoveAt(m_globs, first)

\* Mutant: a pattern that is added again keeps its old entry, too.
addServletTwice(uri) ==
  /\ Call
  /\ IF uri = Path THEN m_datas' = calls + 1 /\ UNCHANGED m_globs
     ELSE m_globs' = Append(m_globs, <<uri, calls + 1>>) /\ UNCHANGED m_datas
  /\ log' = Append(log, [op |-> "add", uri |-> uri, servlet |-> calls + 1])
  /\ UNCHANGED <<tcp, http>>

\* addServlet, addServletCreator; addGlobServlet, addGlobServletCreator
addServlet(uri) ==
  /\ Call
  /\ IF uri = Path THEN m_datas' = calls + 1 /\ UNCHANGED m_globs
     ELSE m_globs' = Append(Without(uri), <<uri, calls + 1>>) /\ UNCHANGED m_datas
  /\ log' = Append(log, [op |-> "add", uri |-> uri, servlet |-> calls + 1])
  /\ UNCHANGED <<tcp, http>>

\* delServlet, delGlobServlet
delServlet(uri) ==
  /\ Call
  /\ IF uri = Path THEN m_datas' = Default /\ UNCHANGED m_globs
     ELSE m_globs' = Without(uri) /\ UNCHANGED m_datas
  /\ log' = Append(log, [op |-> "del", uri |-> uri, servlet |-> Default])
  /\ UNCHANGED <<tcp, http>>

getMatchedServlet ==
  IF m_datas # Default THEN m_datas
  ELSE IF m_globs # <<>> THEN m_globs[1][2] ELSE Default

-----------------------------------------------------------------------------

Requests == [body : Bodies, close : BOOLEAN]

Program ==
  \/ \E works \in BOOLEAN : bind(works)
  \/ start
  \/ stop
  \/ \E uri \in Uris : addServlet(uri) \/ delServlet(uri)

Peers ==
  \E c \in Clients :
    \/ \E s \in open : Connect(c, s)
    \/ \E r \in Requests : \E n \in 1..(2 + r.body) : Send(c, r, n)

Loop(l) ==
  \/ Test(l)
  \/ \E c \in Clients : Accept(l, c)
  \/ AcceptWaits(l)
  \/ AcceptWakes(l)
  \/ AcceptFails(l)

Session(c) ==
  \/ \E n \in 1..Len(stream[c]) : ReadHead(c, n) \/ ReadBody(c, n)
  \/ Wait(c)
  \/ ReadFails(c)
  \/ handleClient(c)

Next ==
  \/ Program
  \/ Peers
  \/ stopTask
  \/ stopTaskCloses
  \/ \E l \in DOMAIN loops : Loop(l)
  \/ \E c \in Clients : Session(c) \/ sendResponse(c)

Spec == Init /\ [][Next]_vars

\* The schedulers run every task and loop in turn; a read ends at the latest
\* when its timeout is over, and a response is sent if the client reads it.
FairSpec ==
  /\ Spec
  /\ WF_vars(stopTask)
  /\ WF_vars(stopTaskCloses)
  /\ \A l \in 1..MaxCalls : WF_vars(l \in DOMAIN loops /\ Loop(l))
  /\ \A c \in Clients : WF_vars(Session(c)) /\ WF_vars(c \notin deaf /\ sendResponse(c))

-----------------------------------------------------------------------------
(* Properties.                                                              *)

Running(l) == loops[l].pc # "gone"

\* Unless start() overtakes an earlier stop(), every listening socket has at most
\* one accept loop (a second fiber that waits to accept on it fails the assertion
\* of addEvent), and while the server runs no loop is left on a closed socket,
\* where accept fails at once and the loop never yields.
LoopsSound ==
  ~overtaken =>
    /\ \A k, l \in DOMAIN loops :
         k # l /\ Running(k) /\ Running(l) => loops[k].sock # loops[l].sock
    /\ ~m_isStop => \A l \in DOMAIN loops : Running(l) => loops[l].sock \in open

\* After stop() all accept loops end, unless the server is started again, or one
\* waits on a socket that a failed bind() has taken out of m_socks or, if the
\* worker has several threads, on one that was closed after it had been woken and
\* had registered again.
LoopsEnd ==
  m_isStop ~> \/ ~m_isStop
              \/ \A l \in DOMAIN loops : ~Running(l)
              \/ \E l \in DOMAIN loops : Running(l) /\ loops[l].sock \in dropped
              \/ ~oneThread /\ \E l \in DOMAIN loops : /\ loops[l].pc = "wait"
                                                      /\ loops[l].sock \notin open

\* A servlet gets the requests of a connection in order and at most once, each
\* with exactly its body, however the bytes were split into reads, or with none
\* if a head was cut.  This needs a client that waits for each response, since
\* what recvRequest has read of the next request is lost.
RequestsExact ==
  \A c \in Clients \ piped :
    \A j \in DOMAIN handled[c] :
      LET h == handled[c][j]
          all == Bytes(j, sent[c][j])
      IN  /\ h.request = j
          /\ h.body = SubSeq(all, 3, Len(all)) \/ (c \in cut /\ h.body = <<>>)

\* Of such a client every request that was sent in full has been given to its
\* servlet when the server closes the connection, if no head was cut and no
\* timeout struck while the request came in: neither stop() nor the end of
\* keep-alive nor the timeout of a read with nothing to come loses one.
NothingUnanswered ==
  \A c \in Clients \ (piped \cup cut \cup late) :
    conn[c] = "closed" => Len(handled[c]) = Len(sent[c])

\* No session stays open for ever, but one that sends to a client that does not
\* read: the reads of recvRequest end with the request, with the client's close
\* or with the timeout, and each turn of handleClient's loop uses up a request.
SessionsEnd ==
  \A c \in Clients :
    conn[c] \in {"head", "body", "reply", "send"}
      ~> conn[c] = "closed" \/ (conn[c] = "send" /\ c \in deaf)

\* A request goes to the servlet added last for its path, else to the one of
\* the pattern that has been there longest, where adding a pattern again counts
\* as new; else to the default.
DispatchExact ==
  LET Entry(uri) == SelectLastInSeq(log, LAMBDA e : e.uri = uri)
      live == {uri \in Uris : Entry(uri) # 0 /\ log[Entry(uri)].op = "add"}
  IN  getMatchedServlet =
        IF Path \in live THEN log[Entry(Path)].servlet
        ELSE IF live = {} THEN Default
        ELSE log[CHOOSE k \in {Entry(u) : u \in live} :
                   \A u \in live : k <= Entry(u)].servlet
=============================================================================
