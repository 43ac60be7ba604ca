----------------------------- MODULE HttpClient -----------------------------
(***************************************************************************)
(* The HTTP client (webserve/http/http_connection.cc): HttpConnection's       *)
(* DoRequest, sendRequest and recvResponse, and HttpConnectionPool.  Fibers     *)
(* make requests; a peer answers each request that reaches it, in order, and    *)
(* may close or reset a connection at any time.                                  *)
(*                                                                         *)
(* A response is a sequence of bytes [of, is, n] of the request it answers:      *)
(* "h1", "h2" the head (n the length of the body, or Chunked), "s1", "s2" the    *)
(* header of a chunk (n its size), "d" data, "e" the end of line after a chunk.  *)
(* A read that ends between "h1" and "h2" cuts the head; the parser keeps its    *)
(* state but not its marks, so that the field it is in may be lost (module       *)
(* Parsers).  A read that ends between "s1" and "s2" cuts the chunk's header;    *)
(* execute(.., true) begins a new one, so that only the last digits count.       *)
(* SIGPIPE is taken to be ignored: a send on a reset connection returns -1.      *)
(***************************************************************************)
EXTENDS Integers, Sequences, FiniteSets, SequencesExt

CONSTANTS
  Fibers,
  Forms,          \* the responses there are, each the kinds of its bytes and their n
  BuffSize,       \* HttpRequestParser::GetHttpRequestBufferSize
  MaxAliveTime,   \* m_maxAliveTime
  MaxRequests,    \* values of m_maxRequest
  Now,            \* GetCurrentMS; m_createTime stays 0
  MaxCalls        \* bound on the requests

Chunked == -1

\* Results that are no response, of HttpResult::Error
PENDING == -1
SEND_SOCKET_ERROR == -2
TIMEOUT == -3

Kinds == {"h1", "h2", "s1", "s2", "d", "e"}
Part == [is : Kinds, n : Nat \cup {Chunked}]

\* A head, and a body of the length it tells, or chunks up to one of size 0
WellFormed(m) ==
  /\ m \in Seq(Part)
  /\ Len(m) > 1 /\ m[1].is = "h1" /\ m[2].is = "h2"
  /\ IF m[2].n = Chunked THEN Len(m) > 2 /\ m[3].is = "s1" ELSE m[2].n = Len(m) - 2
  /\ \A i \in DOMAIN m :
       /\ m[i].is = "s1" => i < Len(m) /\ m[i + 1].is = "s2" /\ m[i + 1].n \in Nat
       /\ m[i].is = "s2" =>
            LET e == i + m[i].n + 1 IN
            IF m[i].n = 0 THEN e = Len(m) ELSE e < Len(m) /\ m[e + 1].is = "s1"

ASSUME HttpClientAssumption ==
  /\ IsFiniteSet(Fibers)
  /\ BuffSize \in Nat \ {0, 1}
  /\ MaxRequests \subseteq Nat
  /\ MaxAliveTime \in Nat /\ Now \in Nat /\ MaxAliveTime < Now
  /\ MaxCalls \in Nat
  /\ \A m \in Forms : WellFormed(m)

VARIABLES
  calls,        \* requests so far; each has the number of its call
  m_conns, m_total, m_maxRequest,
  net,          \* connections, each named by the call that opened it
  pc,
  fiber,        \* the variables of a request's functions
  recv          \* those of recvResponse

vars == <<calls, m_conns, m_total, m_maxRequest, net, pc, fiber, recv>>

Calls == 1..MaxCalls

\* m_isConnected and m_request; requests the peer has not answered, bytes it has
\* sent that are not read, whether it is there, and whether a response was cut
None ==
  [m_isConnected |-> FALSE, m_request |-> 0, asked |-> <<>>, stream |-> <<>>, peer |-> "open",
   cut |-> FALSE]

\* The request; DoRequest, without the pool; the connection in use, or 0;
\* invalid_conns; the request whose response came back, or an error
Idle == [req |-> 0, direct |-> FALSE, conn |-> 0, invalid |-> {}, result |-> PENDING]

\* How far it has come: what it reads next, the request the response is for, what
\* is in the buffer, how much is left of the body or chunk, and whether a read
\* has cut a header
Start == [at |-> "head", of |-> 0, buf |-> <<>>, left |-> 0, cut |-> FALSE]

Init ==
  /\ calls = 0
  /\ m_conns = <<>> /\ m_total = 0 /\ m_maxRequest \in MaxRequests
  /\ net = [c \in Calls |-> None]
  /\ pc = [f \in Fibers |-> "idle"]
  /\ fiber = [f \in Fibers |-> Idle]
  /\ recv = [f \in Fibers |-> Start]

Goto(f, label) == pc' = [pc EXCEPT ![f] = label]

-----------------------------------------------------------------------------
(* The peer.                                                                *)

Bytes(r, form) == [i \in 1..Len(form) |-> [of |-> r, is |-> form[i].is, n |-> form[i].n]]

\* The peer answers, or closes before the last byte of its answer.
Answer(c, form, whole) ==
  LET asked == net[c].asked
      all == Bytes(Head(asked), form)
  IN
  /\ asked # <<>> /\ net[c].peer = "open"
  /\ net' = [net EXCEPT ![c].asked = Tail(@), ![c].stream = @ \o (IF whole THEN all ELSE Front(all)),
                        ![c].peer = IF whole THEN @ ELSE "closed"]
  /\ UNCHANGED <<calls, m_conns, m_total, pc, fiber, recv>>

Leave(c, how) ==
  /\ net[c].m_isConnected /\ net[c].peer = "open"
  /\ net' = [net EXCEPT ![c].peer = how, ![c].asked = <<>>,
                        ![c].stream = IF how = "reset" THEN <<>> ELSE @]
  /\ UNCHANGED <<calls, m_conns, m_total, pc, fiber, recv>>

-----------------------------------------------------------------------------
(* HttpConnectionPool::getConnection.                                       *)

\* doRequest of the pool, or HttpConnection::DoRequest
Begin(f, alone) ==
  /\ pc[f] = "idle"
  /\ calls < MaxCalls
  /\ calls' = calls + 1
  /\ fiber' = [fiber EXCEPT ![f].req = calls + 1, ![f].direct = alone]
  /\ Goto(f, IF alone THEN "connect" ELSE "lock")
  /\ UNCHANGED <<m_conns, m_total, net, recv>>

End(f) ==
  /\ fiber' = [fiber EXCEPT ![f] = Idle]
  /\ Goto(f, "idle")

Usable(c) == net[c].m_isConnected /\ ~(0 + MaxAliveTime > Now)

\* Mutant: the connection that is taken stays in the list.
PopKeeps(f) ==
  LET first == SelectInSeq(m_conns, Usable)
      n == IF first = 0 THEN Len(m_conns) ELSE first - 1
  IN
  /\ pc[f] = "lock"
  /\ fiber' = [fiber EXCEPT ![f].conn = IF first = 0 THEN 0 ELSE m_conns[first],
                            ![f].invalid = {m_conns[i] : i \in 1..n}]
  /\ m_conns' = SubSeq(m_conns, n + 1, Len(m_conns))
  /\ Goto(f, "sweep")
  /\ UNCHANGED <<calls, m_total, net, recv>>

\* Under the lock: the first usable connection, and those before it
Pop(f) ==
  LET first == SelectInSeq(m_conns, Usable)
      n == IF first = 0 THEN Len(m_conns) ELSE first
      ptr == IF first = 0 THEN 0 ELSE m_conns[first]
  IN
  /\ pc[f] = "lock"
  /\ fiber' = [fiber EXCEPT ![f].conn = ptr, ![f].invalid = {m_conns[i] : i \in 1..n} \ {ptr}]
  /\ m_conns' = SubSeq(m_conns, n + 1, Len(m_conns))
  /\ Goto(f, "sweep")
  /\ UNCHANGED <<calls, m_total, net, recv>>

\* Without it: the others are deleted.
Sweep(f) ==
  LET gone == fiber[f].invalid IN
  /\ pc[f] = "sweep"
  /\ net' = [c \in Calls |-> IF c \in gone THEN None ELSE net[c]]
  /\ m_total' = m_total - Cardinality(gone)
  /\ fiber' = [fiber EXCEPT ![f].invalid = {}]
  /\ Goto(f, IF fiber[f].conn = 0 THEN "connect" ELSE "send")
  /\ UNCHANGED <<calls, m_conns, recv>>

\* A new connection, or none: the address, the socket or connect failed.
Connect(f) ==
  LET c == fiber[f].req IN
  /\ pc[f] = "connect"
  /\ net' = [net EXCEPT ![c].m_isConnected = TRUE]
  /\ fiber' = [fiber EXCEPT ![f].conn = c]
  /\ m_total' = IF fiber[f].direct THEN m_total ELSE m_total + 1
  /\ Goto(f, "send")
  /\ UNCHANGED <<calls, m_conns, recv>>

ConnectFails(f) ==
  /\ pc[f] = "connect"
  /\ End(f)
  /\ UNCHANGED <<calls, m_conns, m_total, net, recv>>

-----------------------------------------------------------------------------
(* HttpConnection::sendRequest and recvResponse.                             *)

\* What is sent to a peer that has closed is lost; a send to one that has reset
\* fails, which leaves the connection as it is.
sendRequest(f) ==
  LET c == fiber[f].conn IN
  /\ pc[f] = "send"
  /\ IF net[c].peer = "reset"
     THEN /\ fiber' = [fiber EXCEPT ![f].result = SEND_SOCKET_ERROR]
          /\ Goto(f, "release")
          /\ UNCHANGED net
     ELSE /\ net' = IF net[c].peer = "open" THEN [net EXCEPT ![c].asked = Append(@, fiber[f].req)]
                    ELSE net
          /\ Goto(f, "receive")
          /\ UNCHANGED fiber
  /\ UNCHANGED <<calls, m_conns, m_total, recv>>

\* recvResponse, one step for a read and what is done with it, or for the header
\* of a chunk that is in the buffer; the split into reads is not determined.
\* What is in the buffer at the end is lost.
Return(st, r) == [st EXCEPT !.at = "done", !.of = r]

\* Mutant: a response that fails leaves the connection open.
FailOpen(st) == Return(st, TIMEOUT)

\* close(), and the null pointer that doRequest reports as a timeout
Fail(st) == [st EXCEPT !.at = "failed"]

\* The head is complete: a body of known length, or chunks
TakeHead(st, r, length, rest) ==
  CASE length = Chunked -> [st EXCEPT !.at = "chunk", !.of = r, !.buf = rest]
    [] length # Chunked /\ length <= Len(rest) -> Return(st, r)
    [] OTHER -> [st EXCEPT !.at = "body", !.of = r, !.left = length - Len(rest)]

\* execute(data, len, false).  Bytes that do not begin a response are an error, or
\* are taken for the header of a chunk, which the machine accepts as well: a
\* response with nothing in it.
ParseHead(st, got) ==
  LET first == got[1]
      n == Len(got)
  IN
  IF first.is = "h1" /\ st.of = 0
  THEN {IF n = 1 THEN [st EXCEPT !.of = first.of, !.cut = TRUE]
        ELSE TakeHead(st, first.of, got[2].n, SubSeq(got, 3, n))}
  ELSE IF first.is = "h2" /\ st.of = first.of
  THEN {TakeHead(st, first.of, length, SubSeq(got, 2, n)) :
          length \in {first.n, IF first.n = Chunked THEN Chunked ELSE 0}}
  ELSE {Fail(st)} \cup (IF first.is \in {"d", "s1", "s2"} THEN {Return(st, 0)} ELSE {})

\* readFixSize
ReadBody(st, n) ==
  IF n = st.left THEN Return(st, st.of) ELSE [st EXCEPT !.left = @ - n]

\* Mutant: the end of line of the last chunk is left to the next response.
TakeChunkShort(st, size, rest) ==
  LET need == size + 1 IN
  CASE size = 0 -> Return(st, st.of)
    [] need <= Len(rest) /\ size > 0 -> [st EXCEPT !.buf = SubSeq(rest, need + 1, Len(rest))]
    [] OTHER -> [st EXCEPT !.buf = <<>>, !.left = need - Len(rest), !.at = "data"]

\* A chunk of known size and the end of line after it; the last one has size 0.
TakeChunk(st, size, rest) ==
  LET need == size + 1 IN
  CASE need <= Len(rest) /\ size = 0 -> Return(st, st.of)
    [] need <= Len(rest) /\ size > 0 -> [st EXCEPT !.buf = SubSeq(rest, need + 1, Len(rest))]
    [] OTHER -> [st EXCEPT !.buf = <<>>, !.left = need - Len(rest),
                           !.at = IF size = 0 THEN "last" ELSE "data"]

\* execute(data, len, true): the header of a chunk
ParseChunk(st) ==
  LET first == st.buf[1]
      rest(k) == SubSeq(st.buf, k, Len(st.buf))
  IN
  CASE first.is = "s1" /\ Len(st.buf) > 1 -> {TakeChunk(st, st.buf[2].n, rest(3))}
    [] first.is = "s1" /\ Len(st.buf) = 1 -> {[st EXCEPT !.buf = <<>>, !.cut = TRUE]}
    [] first.is = "s2" -> {Fail(st)} \cup {TakeChunk(st, size, rest(2)) : size \in 0..(first.n - 1)}
    [] first.is = "d" -> {Fail(st)} \cup {TakeChunk(st, size, rest(2)) : size \in 0..1}
    [] OTHER -> {Fail(st)}

\* The rest of a chunk, behind which the next header begins in an empty buffer
ReadData(st, n) ==
  CASE n < st.left -> [st EXCEPT !.left = @ - n]
    [] n = st.left /\ st.at = "last" -> Return(st, st.of)
    [] OTHER -> [st EXCEPT !.left = 0, !.at = "chunk"]

\* What is done with the bytes a read gets
Take(st, got) ==
  CASE st.at = "head" -> ParseHead(st, got)
    [] st.at = "body" -> {ReadBody(st, Len(got))}
    [] st.at = "chunk" -> {[st EXCEPT !.buf = got]}
    [] st.at \in {"data", "last"} -> {ReadData(st, Len(got))}

\* The most a read asks for
Wanted(st) ==
  CASE st.at = "body" -> st.left
    [] st.at \in {"data", "last"} /\ st.left <= BuffSize -> st.left
    [] OTHER -> BuffSize

\* recvResponse has come to st and left the bytes `rest' unread.
Reaches(f, st, rest) ==
  LET c == fiber[f].conn IN
  /\ net' = [net EXCEPT ![c] = IF st.at = "failed" THEN None
                               ELSE [net[c] EXCEPT !.stream = rest, !.cut = @ \/ st.cut]]
  /\ IF st.at \in {"done", "failed"}
     THEN /\ fiber' = [fiber EXCEPT ![f].result = IF st.at = "done" THEN st.of ELSE TIMEOUT]
          /\ recv' = [recv EXCEPT ![f] = Start]
          /\ Goto(f, "release")
     ELSE recv' = [recv EXCEPT ![f] = st] /\ UNCHANGED <<fiber, pc>>
  /\ UNCHANGED <<calls, m_conns, m_total>>

\* A read with nothing there ends with 0 when the peer has closed, with -1 when it
\* has reset or the timeout is over.
recvResponse(f) ==
  LET st == recv[f]
      stream == net[fiber[f].conn].stream
      parses == st.at = "chunk" /\ st.buf # <<>>
  IN
  /\ pc[f] = "receive"
  /\ \/ /\ parses
        /\ \E next \in ParseChunk(st) : Reaches(f, next, stream)
     \/ /\ ~parses /\ stream = <<>>
        /\ Reaches(f, Fail(st), stream)
     \/ /\ ~parses
        /\ \E n \in 1..Len(stream) :
             /\ n <= Wanted(st)
             /\ \E next \in Take(st, SubSeq(stream, 1, n)) :
                  Reaches(f, next, SubSeq(stream, n + 1, Len(stream)))

-----------------------------------------------------------------------------
(* ReleasePtr, when the result has been made; a connection of DoRequest is    *)
(* just deleted.                                                             *)

Worn(c, used) ==
  \/ ~net[c].m_isConnected
  \/ 0 + MaxAliveTime >= Now
  \/ used >= m_maxRequest

ReleasePtr(f) ==
  LET c == fiber[f].conn
      used == net[c].m_request + 1
  IN
  /\ pc[f] = "release"
  /\ \/ /\ fiber[f].direct
        /\ net' = [net EXCEPT ![c] = None]
        /\ End(f)
        /\ UNCHANGED m_conns
     \/ /\ ~fiber[f].direct /\ Worn(c, used)
        /\ net' = [net EXCEPT ![c] = None]
        /\ fiber' = [fiber EXCEPT ![f] = Idle]
        /\ Goto(f, "uncount")
        /\ UNCHANGED m_conns
     \/ /\ ~fiber[f].direct /\ ~Worn(c, used)
        /\ net' = [net EXCEPT ![c].m_request = used]
        /\ m_conns' = Append(m_conns, c)
        /\ End(f)
  /\ UNCHANGED <<calls, m_total, recv>>

Uncount(f) ==
  /\ pc[f] = "uncount"
  /\ m_total' = m_total - 1
  /\ Goto(f, "idle")
  /\ UNCHANGED <<calls, m_conns, net, fiber, recv>>

-----------------------------------------------------------------------------

Step(f) ==
  \/ Pop(f) \/ Sweep(f) \/ Connect(f) \/ ConnectFails(f)
  \/ sendRequest(f) \/ recvResponse(f)
  \/ ReleasePtr(f) \/ Uncount(f)

Next ==
  /\ \/ \E f \in Fibers : Step(f) \/ \E alone \in BOOLEAN : Begin(f, alone)
     \/ \E c \in Calls : \/ \E form \in Forms : \E whole \in BOOLEAN : Answer(c, form, whole)
                         \/ \E how \in {"closed", "reset"} : Leave(c, how)
  /\ UNCHANGED m_maxRequest

Spec == Init /\ [][Next]_vars

-----------------------------------------------------------------------------
(* Properties.                                                              *)

Held(c) == {f \in Fibers : fiber[f].conn = c}
Places(c) == {i \in DOMAIN m_conns : m_conns[i] = c}

\* Although getConnection and ReleasePtr change the list and the count apart from
\* each other and the count without the lock, a connection is with one fiber or
\* once in the pool and never both, one that the pool has is connected, and
\* m_total is off by exactly the connections whose deletion is not counted yet.
PoolExact ==
  /\ \A c \in Calls : Cardinality(Held(c)) + Cardinality(Places(c)) <= 1
  /\ \A i \in DOMAIN m_conns : net[m_conns[i]].m_isConnected
  /\ m_total = Len(m_conns)
                + Cardinality({f \in Fibers : ~fiber[f].direct /\ fiber[f].conn # 0})
                + Cardinality({f \in Fibers : pc[f] = "uncount"})

\* No response goes to another request: with timeouts, late answers, connections
\* used again and any split into reads, doRequest returns OK only with the
\* response to its own request, unless a response on the connection was cut.
AnswersOwn ==
  \A f \in Fibers :
    fiber[f].result >= 0 /\ ~net[fiber[f].conn].cut => fiber[f].result = fiber[f].req

\* When doRequest returns OK, and no response on the connection was cut, all of
\* the response has been read, with its last chunk, and no other is to come: the
\* connection may go to the next request.
ResponseUsedUp ==
  \A f \in Fibers :
    LET n == net[fiber[f].conn] IN
    fiber[f].result >= 0 /\ ~n.cut => n.stream = <<>> /\ n.asked = <<>>

=============================================================================
