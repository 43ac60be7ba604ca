---------------------------- MODULE ClientProofs ----------------------------
(***************************************************************************)
(* Proofs about HttpClient, for any fibers, responses, sizes of the buffer   *)
(* and numbers of requests: the pool's bookkeeping (PoolInv) and, on top of  *)
(* it, where recvResponse is in the response it reads (Reading).             *)
(***************************************************************************)
EXTENDS HttpClient, FiniteSetTheorems, WellFoundedInduction, TLAPS

Byte == [of : Calls, is : Kinds, n : Nat \cup {Chunked}]
Conn == [m_isConnected : BOOLEAN, m_request : Nat, asked : Seq(Calls), stream : Seq(Byte),
         peer : {"open", "closed", "reset"}, cut : BOOLEAN]
Request == [req : 0..MaxCalls, direct : BOOLEAN, conn : 0..MaxCalls, invalid : SUBSET Calls,
            result : Int]
Reader == [at : {"head", "body", "chunk", "data", "last", "done", "failed"}, of : 0..MaxCalls,
           buf : Seq(Byte), left : Int, cut : BOOLEAN]
Labels == {"idle", "lock", "sweep", "connect", "send", "receive", "release", "uncount"}

ClientTypeOK ==
    /\ calls \in 0..MaxCalls
    /\ m_conns \in Seq(Calls)
    /\ m_total \in Int
    /\ m_maxRequest \in Nat
    /\ net \in [Calls -> Conn]
    /\ pc \in [Fibers -> Labels]
    /\ fiber \in [Fibers -> Request]
    /\ recv \in [Fibers -> Reader]
    /\ \A f \in Fibers : recv[f].at \notin {"done", "failed"}

\* What a fiber has at each place.
Shape ==
    \A f \in Fibers :
        /\ fiber[f].invalid = {}
        /\ pc[f] \in {"idle", "uncount"} => fiber[f] = Idle
        /\ pc[f] \in {"lock", "connect"} => fiber[f].conn = 0
        /\ pc[f] \in {"send", "receive", "release"} => fiber[f].conn # 0
        /\ pc[f] \in {"lock", "sweep"} => ~fiber[f].direct
        /\ pc[f] \notin {"idle", "uncount"} => fiber[f].req \in 1..calls

\* Requests, connections in use and connections in the pool are all different; so
\* is the connection that a request would open.
Apart ==
    /\ \A f, g \in Fibers : f # g /\ fiber[f].req # 0 => fiber[f].req # fiber[g].req
    /\ \A f, g \in Fibers : f # g /\ fiber[f].conn # 0 => fiber[f].conn # fiber[g].conn
    /\ \A i, j \in DOMAIN m_conns : i # j => m_conns[i] # m_conns[j]
    /\ \A f \in Fibers : \A i \in DOMAIN m_conns : fiber[f].conn # m_conns[i]
    /\ \A f \in Fibers : fiber[f].conn <= calls
    /\ \A i \in DOMAIN m_conns : m_conns[i] <= calls
    /\ \A f \in Fibers : pc[f] \notin {"idle", "uncount"} /\ fiber[f].conn = 0 =>
          /\ \A g \in Fibers : fiber[g].conn # fiber[f].req
          /\ \A i \in DOMAIN m_conns : m_conns[i] # fiber[f].req

\* The pool has what is connected.
Connected == \A i \in DOMAIN m_conns : net[m_conns[i]].m_isConnected

\* m_total, but for the deletions that are not counted yet.
Using == {f \in Fibers : ~fiber[f].direct /\ fiber[f].conn # 0}
Uncounting == {f \in Fibers : pc[f] = "uncount"}
Counted == m_total = Len(m_conns) + Cardinality(Using) + Cardinality(Uncounting)

PoolInv == ClientTypeOK /\ Shape /\ Apart /\ Connected /\ Counted

\* The bytes s are those of the response `form' to request r behind the first k.
Matches(s, form, k, r) ==
    /\ k + Len(s) <= Len(form)
    /\ \A i \in 1..Len(s) : s[i].of = r /\ s[i].is = form[k + i].is /\ s[i].n = form[k + i].n

\* Where recvResponse is when the first k bytes of the response are done with.
At(st, form, k, r) ==
    \/ st.at = "head" /\ k = 0 /\ st.of = 0 /\ st.buf = <<>>
    \/ st.at = "chunk" /\ st.of = r /\ k < Len(form) /\ form[k + 1].is = "s1"
    \/ /\ st.at \in {"body", "data", "last"} /\ st.of = r /\ st.buf = <<>> /\ st.left > 0
       /\ \/ st.at \in {"body", "last"} /\ k + st.left = Len(form)
          \/ st.at = "data" /\ k + st.left < Len(form) /\ form[k + st.left + 1].is = "s1"

Inside(st, stream, form, k, r) ==
    /\ At(st, form, k, r)
    /\ Matches(st.buf, form, k, r) /\ Matches(stream, form, k + Len(st.buf), r)

\* Nothing is to come on a connection.
Clean(n) == n.cut \/ (n.asked = <<>> /\ n.stream = <<>>)

\* The response to r is to come, or never will, or recvResponse is inside it.
Expected(n, st, r) == st = Start /\ n.stream = <<>> /\ n.asked \in {<<>>, <<r>>}
Amid(n, st, r) ==
    /\ n.asked = <<>>
    /\ \E form \in Forms : \E k \in 0..Len(form) : Inside(st, n.stream, form, k, r)
Reading(n, st, r) == n.cut \/ Expected(n, st, r) \/ Amid(n, st, r)

\* A fiber that is at `at' with request q and, in recvResponse, st has n.
Fits(at, q, st, n) ==
    /\ q.conn # 0 /\ at # "receive" => Clean(n)
    /\ at = "receive" => Reading(n, st, q.req)
    /\ at # "receive" => st = Start
    /\ at # "release" => q.result = PENDING
    /\ at = "release" /\ q.result >= 0 => n.cut \/ q.result = q.req

\* Connections that no one has are not there.
Absent ==
    \A c \in Calls : (\A f \in Fibers : fiber[f].conn # c) /\ (\A i \in DOMAIN m_conns : m_conns[i] # c)
                      => net[c] = None

\* What is on the connections, and with whom.
Responses ==
    /\ Absent
    /\ \A i \in DOMAIN m_conns : Clean(net[m_conns[i]])
    /\ \A f \in Fibers : Fits(pc[f], fiber[f], recv[f], net[fiber[f].conn])

-----------------------------------------------------------------------------
(* Types.                                                                    *)

\* A connection that is not there.
LEMMA NoneType == None \in Conn
BY DEF None, Conn

\* A connection with other requests to answer.
LEMMA AskedType ==
    ASSUME NEW conn \in Conn, NEW asked \in Seq(Calls)
    PROVE  [conn EXCEPT !.asked = asked] \in Conn
BY DEF Conn

\* A fiber without a request.
LEMMA IdleType == Idle \in Request
BY HttpClientAssumption DEF Idle, Request, PENDING

\* recvResponse at its beginning.
LEMMA StartType == Start \in Reader
BY HttpClientAssumption DEF Start, Reader

\* A set of numbers has a least one.
LEMMA SmallestNat ==
    ASSUME NEW S, S \subseteq Nat, S # {}
    PROVE  \E x \in S : \A y \in S : x <= y
<1>1. PICK x \in S : \A y \in S : ~(<<y, x>> \in OpToRel(<, Nat))
  BY NatLessThanWellFounded, WFMin
<1>2. \A y \in S : ~(y < x)
  BY <1>1 DEF OpToRel
<1> QED BY <1>2

\* getConnection's search for a connection.
LEMMA SelectType ==
    ASSUME NEW s \in Seq(Calls)
    PROVE  SelectInSeq(s, Usable) \in 0..Len(s)
<1> DEFINE I == {i \in 1..Len(s) : Usable(s[i])}
<1>1. CASE I = {}
  BY <1>1 DEF SelectInSeq
<1>2. CASE I # {}
  <2>1. \E x \in I : \A y \in I : x <= y
    <3>1. I \subseteq Nat
      OBVIOUS
    <3> QED BY <1>2, <3>1, SmallestNat
  <2>2. Min(I) \in I
    BY <2>1 DEF Min
  <2> QED BY <1>2, <2>2 DEF SelectInSeq
<1> QED BY <1>1, <1>2

\* It finds the first one if all are usable.
LEMMA FirstUsable ==
    ASSUME NEW s \in Seq(Calls), s # <<>>, \A i \in DOMAIN s : Usable(s[i])
    PROVE  SelectInSeq(s, Usable) = 1
<1> DEFINE I == {i \in 1..Len(s) : Usable(s[i])}
<1>1. I = 1..Len(s) /\ 1 \in I
  OBVIOUS
<1>2. Min(I) = 1
  BY <1>1 DEF Min
<1> QED BY <1>1, <1>2 DEF SelectInSeq

\* What the peer sends.
LEMMA BytesType ==
    ASSUME NEW r \in Calls, NEW form \in Forms
    PROVE  /\ Bytes(r, form) \in Seq(Byte) /\ Len(Bytes(r, form)) = Len(form)
           /\ \A i \in 1..Len(form) : Bytes(r, form)[i] = [of |-> r, is |-> form[i].is, n |-> form[i].n]
<1>1. form \in Seq(Part)
  BY HttpClientAssumption DEF WellFormed
<1>2. \A i \in 1..Len(form) : [of |-> r, is |-> form[i].is, n |-> form[i].n] \in Byte
  <2> TAKE i \in 1..Len(form)
  <2>1. form[i] \in Part
    BY <1>1
  <2> QED BY <2>1 DEF Byte, Part
<1> QED BY <1>1, <1>2 DEF Bytes

\* Return, Fail and the handlers of recvResponse lead to readers.
LEMMA ReturnType ==
    ASSUME NEW st \in Reader, NEW r \in 0..MaxCalls
    PROVE  Return(st, r) \in Reader /\ Fail(st) \in Reader
BY DEF Return, Fail, Reader

\* The head.
LEMMA TakeHeadType ==
    ASSUME NEW st \in Reader, NEW r \in Calls, NEW length \in Int, NEW rest \in Seq(Byte)
    PROVE  TakeHead(st, r, length, rest) \in Reader
<1>1. r \in 0..MaxCalls
  BY DEF Calls
<1>2. CASE length = Chunked
  BY <1>1, <1>2 DEF TakeHead, Reader
<1>3. CASE length # Chunked /\ length <= Len(rest)
  BY <1>1, <1>3, ReturnType DEF TakeHead
<1>4. CASE length # Chunked /\ ~(length <= Len(rest))
  <2>1. length - Len(rest) \in Int
    OBVIOUS
  <2>2. TakeHead(st, r, length, rest) = [st EXCEPT !.at = "body", !.of = r, !.left = length - Len(rest)]
    BY <1>4 DEF TakeHead
  <2> QED BY <1>1, <2>1, <2>2 DEF Reader
<1> QED BY <1>2, <1>3, <1>4

\* execute(data, len, false).
LEMMA ParseHeadType ==
    ASSUME NEW st \in Reader, NEW got \in Seq(Byte), got # <<>>
    PROVE  ParseHead(st, got) \subseteq Reader
<1> DEFINE first == got[1]
           n == Len(got)
<1>1. first \in Byte /\ n \in Nat /\ n >= 1
  OBVIOUS
<1>2. first.of \in Calls /\ first.of \in 0..MaxCalls /\ first.n \in Int
  BY <1>1, HttpClientAssumption DEF Byte, Calls, Chunked
<1>3. [st EXCEPT !.of = first.of, !.cut = TRUE] \in Reader
  BY <1>2 DEF Reader
<1>4. n # 1 => TakeHead(st, first.of, got[2].n, SubSeq(got, 3, n)) \in Reader
  <2> SUFFICES ASSUME n # 1 PROVE TakeHead(st, first.of, got[2].n, SubSeq(got, 3, n)) \in Reader
    OBVIOUS
  <2>1. got[2] \in Byte /\ SubSeq(got, 3, n) \in Seq(Byte)
    BY <1>1
  <2>2. got[2].n \in Int
    BY <2>1 DEF Byte, Chunked
  <2> QED BY <1>2, <2>1, <2>2, TakeHeadType
<1>5. ASSUME NEW length \in Int PROVE TakeHead(st, first.of, length, SubSeq(got, 2, n)) \in Reader
  <2>1. SubSeq(got, 2, n) \in Seq(Byte)
    BY <1>1
  <2> QED BY <1>2, <2>1, TakeHeadType
<1>6. Chunked \in Int /\ 0 \in Int /\ 0 \in 0..MaxCalls
  BY HttpClientAssumption DEF Chunked
<1>7. Fail(st) \in Reader /\ Return(st, 0) \in Reader
  BY <1>6, ReturnType
<1> QED BY <1>2, <1>3, <1>4, <1>5, <1>6, <1>7 DEF ParseHead

\* A chunk.
LEMMA TakeChunkType ==
    ASSUME NEW st \in Reader, NEW size \in Int, NEW rest \in Seq(Byte)
    PROVE  TakeChunk(st, size, rest) \in Reader
<1> DEFINE need == size + 1
<1>1. st.of \in 0..MaxCalls
  BY DEF Reader
<1>2. CASE need <= Len(rest) /\ size = 0
  <2>1. TakeChunk(st, size, rest) = Return(st, st.of)
    BY <1>2 DEF TakeChunk
  <2> QED BY <1>1, <2>1, ReturnType
<1>3. CASE need <= Len(rest) /\ size > 0
  <2>1. SubSeq(rest, need + 1, Len(rest)) \in Seq(Byte)
    BY <1>3
  <2>2. TakeChunk(st, size, rest) = [st EXCEPT !.buf = SubSeq(rest, need + 1, Len(rest))]
    BY <1>3 DEF TakeChunk
  <2> QED BY <2>1, <2>2 DEF Reader
<1>4. CASE ~(need <= Len(rest) /\ size = 0) /\ ~(need <= Len(rest) /\ size > 0)
  <2>1. TakeChunk(st, size, rest) = [st EXCEPT !.buf = <<>>, !.left = need - Len(rest),
                                               !.at = IF size = 0 THEN "last" ELSE "data"]
    BY <1>4 DEF TakeChunk
  <2>2. need - Len(rest) \in Int /\ <<>> \in Seq(Byte)
    OBVIOUS
  <2> QED BY <2>1, <2>2 DEF Reader
<1> QED BY <1>2, <1>3, <1>4

\* execute(data, len, true).
LEMMA ParseChunkType ==
    ASSUME NEW st \in Reader, st.buf # <<>>
    PROVE  ParseChunk(st) \subseteq Reader
<1> DEFINE first == st.buf[1]
           rest(k) == SubSeq(st.buf, k, Len(st.buf))
<1>1. st.buf \in Seq(Byte) /\ Len(st.buf) \in Nat /\ Len(st.buf) >= 1 /\ first \in Byte
  BY DEF Reader
<1>2. first.n \in Int
  BY <1>1 DEF Byte, Chunked
<1>3. rest(2) \in Seq(Byte) /\ (Len(st.buf) > 1 => rest(3) \in Seq(Byte))
  BY <1>1
<1>4. Len(st.buf) > 1 => TakeChunk(st, st.buf[2].n, rest(3)) \in Reader
  <2>0. Len(st.buf) > 1 => st.buf[2] \in Byte
    BY <1>1
  <2>1. Len(st.buf) > 1 => st.buf[2].n \in Int
    BY <2>0 DEF Byte, Chunked
  <2> QED BY <1>3, <2>1, TakeChunkType
<1>5. [st EXCEPT !.buf = <<>>, !.cut = TRUE] \in Reader
  <2>1. <<>> \in Seq(Byte)
    OBVIOUS
  <2> QED BY <2>1 DEF Reader
<1>6. \A size \in Int : TakeChunk(st, size, rest(2)) \in Reader
  BY <1>3, TakeChunkType
<1>7. Fail(st) \in Reader
  BY HttpClientAssumption, ReturnType
<1>8. \A size \in 0..(first.n - 1) : size \in Int
  BY <1>2
<1> HIDE DEF rest, first
<1> QED BY <1>2, <1>4, <1>5, <1>6, <1>7, <1>8 DEF ParseChunk, first, rest

\* The bytes a read gets, handled.
LEMMA TakeType ==
    ASSUME NEW st \in Reader, st.at \notin {"done", "failed"}, NEW got \in Seq(Byte), got # <<>>
    PROVE  Take(st, got) \subseteq Reader
<1>1. Len(got) \in Nat
  OBVIOUS
<1>2. st.of \in 0..MaxCalls /\ st.left \in Int
  BY DEF Reader
<1>3. CASE st.at = "head"
  BY <1>3, ParseHeadType DEF Take
<1>4. CASE st.at = "body"
  <2>1. Take(st, got) = {ReadBody(st, Len(got))}
    BY <1>4 DEF Take
  <2>2. [st EXCEPT !.left = @ - Len(got)] \in Reader
    <3>1. st.left - Len(got) \in Int
      BY <1>1, <1>2
    <3> QED BY <3>1 DEF Reader
  <2> QED BY <1>2, <2>1, <2>2, ReturnType DEF ReadBody
<1>5. CASE st.at = "chunk"
  <2>1. Take(st, got) = {[st EXCEPT !.buf = got]}
    BY <1>5 DEF Take
  <2> QED BY <2>1 DEF Reader
<1>6. CASE st.at \in {"data", "last"}
  <2>1. Take(st, got) = {ReadData(st, Len(got))}
    BY <1>6 DEF Take
  <2>2. [st EXCEPT !.left = @ - Len(got)] \in Reader
    <3>1. st.left - Len(got) \in Int
      BY <1>1, <1>2
    <3> QED BY <3>1 DEF Reader
  <2>3. [st EXCEPT !.left = 0, !.at = "chunk"] \in Reader
    <3>1. [st EXCEPT !.left = 0] \in Reader
      BY DEF Reader
    <3> QED BY <3>1 DEF Reader
  <2> QED BY <1>2, <2>1, <2>2, <2>3, ReturnType DEF ReadData
<1> QED BY <1>3, <1>4, <1>5, <1>6 DEF Reader

\* What recvResponse leads to.
LEMMA RecvReaches ==
    ASSUME ClientTypeOK, Shape, NEW f \in Fibers, recvResponse(f)
    PROVE  /\ pc[f] = "receive" /\ fiber[f].conn \in Calls
           /\ \E st \in Reader : \E rest \in Seq(Byte) : Reaches(f, st, rest)
<1>1. pc[f] = "receive"
  BY DEF recvResponse
<1>2. fiber[f].conn \in Calls
  <2>1. fiber[f] \in Request
    BY DEF ClientTypeOK
  <2>2. fiber[f].conn # 0
    BY <1>1 DEF Shape
  <2> QED BY <2>1, <2>2, HttpClientAssumption DEF Request, Calls
<1>3. recv[f] \in Reader /\ recv[f].at \notin {"done", "failed"}
  BY DEF ClientTypeOK
<1> DEFINE stream == net[fiber[f].conn].stream
<1>4. stream \in Seq(Byte)
  <2>1. net[fiber[f].conn] \in Conn
    BY <1>2 DEF ClientTypeOK
  <2> QED BY <2>1 DEF Conn
<1>5. ASSUME recv[f].buf # <<>>, NEW next \in ParseChunk(recv[f]) PROVE next \in Reader
  BY <1>3, <1>5, ParseChunkType
<1>6. Fail(recv[f]) \in Reader
  BY <1>3, HttpClientAssumption, ReturnType
<1>7. ASSUME NEW n \in 1..Len(stream), NEW next \in Take(recv[f], SubSeq(stream, 1, n))
      PROVE  next \in Reader /\ SubSeq(stream, n + 1, Len(stream)) \in Seq(Byte)
  <2>1. SubSeq(stream, 1, n) \in Seq(Byte) /\ SubSeq(stream, 1, n) # <<>>
        /\ SubSeq(stream, n + 1, Len(stream)) \in Seq(Byte)
    BY <1>4
  <2> QED BY <1>3, <2>1, TakeType
<1> HIDE DEF stream
<1> QED BY <1>1, <1>2, <1>4, <1>5, <1>6, <1>7 DEF recvResponse, stream

\* A step of recvResponse keeps the types.
LEMMA ReachesType ==
    ASSUME ClientTypeOK, NEW f \in Fibers, fiber[f].conn \in Calls, NEW st \in Reader,
           NEW rest \in Seq(Byte), Reaches(f, st, rest), UNCHANGED m_maxRequest
    PROVE  ClientTypeOK'
<1> DEFINE c == fiber[f].conn
           old == net[c]
<1>1. old \in Conn
  BY DEF ClientTypeOK
<1>2. [old EXCEPT !.stream = rest, !.cut = @ \/ st.cut] \in Conn
  <2>1. [old EXCEPT !.stream = rest] \in Conn
    BY <1>1 DEF Conn
  <2>2. (old.cut \/ st.cut) \in BOOLEAN
    OBVIOUS
  <2> QED BY <1>1, <2>1, <2>2 DEF Conn
<1>3. net' \in [Calls -> Conn]
  <2>1. net' = [net EXCEPT ![c] = IF st.at = "failed" THEN None
                                   ELSE [old EXCEPT !.stream = rest, !.cut = @ \/ st.cut]]
    BY DEF Reaches
  <2> QED BY <1>2, <2>1, NoneType DEF ClientTypeOK
<1>4. (IF st.at = "done" THEN st.of ELSE TIMEOUT) \in Int
  BY HttpClientAssumption DEF Reader, TIMEOUT
<1>5. fiber' \in [Fibers -> Request]
  <2>1. \A r \in Int : [fiber[f] EXCEPT !.result = r] \in Request
    BY DEF ClientTypeOK, Request
  <2> QED BY <1>4, <2>1 DEF Reaches, ClientTypeOK
<1>6. recv' \in [Fibers -> Reader] /\ \A g \in Fibers : recv'[g].at \notin {"done", "failed"}
  <2>1. Start.at = "head"
    BY DEF Start
  <2> QED BY <2>1, StartType DEF Reaches, ClientTypeOK
<1>7. pc' \in [Fibers -> Labels]
  BY DEF Reaches, ClientTypeOK, Goto, Labels
<1> QED BY <1>3, <1>5, <1>6, <1>7 DEF Reaches, ClientTypeOK

\* The state keeps its type.
LEMMA TypeStep ==
    ASSUME ClientTypeOK, Shape, [Next]_vars
    PROVE  ClientTypeOK'
<1> USE HttpClientAssumption
<1>c. \A f \in Fibers : fiber[f] \in Request /\ (fiber[f].conn # 0 => fiber[f].conn \in Calls)
  BY DEF ClientTypeOK, Request, Calls
<1>n. \A c \in Calls : net[c] \in Conn
  BY DEF ClientTypeOK
<1>1. ASSUME NEW f \in Fibers, NEW alone \in BOOLEAN, Begin(f, alone), UNCHANGED m_maxRequest
      PROVE  ClientTypeOK'
  <2>1. calls' \in 0..MaxCalls /\ calls + 1 \in 0..MaxCalls
    BY <1>1 DEF Begin, ClientTypeOK
  <2>2. [fiber[f] EXCEPT !.req = calls + 1, !.direct = alone] \in Request
    BY <1>c, <2>1 DEF Request
  <2>3. fiber' \in [Fibers -> Request]
    BY <1>1, <2>2 DEF Begin, ClientTypeOK
  <2> QED BY <1>1, <2>1, <2>3 DEF Begin, Goto, ClientTypeOK, Labels
<1>2. ASSUME NEW f \in Fibers, Pop(f), UNCHANGED m_maxRequest PROVE ClientTypeOK'
  <2> DEFINE first == SelectInSeq(m_conns, Usable)
             n == IF first = 0 THEN Len(m_conns) ELSE first
             ptr == IF first = 0 THEN 0 ELSE m_conns[first]
  <2>1. first \in 0..Len(m_conns)
    BY SelectType DEF ClientTypeOK
  <2>2. n \in 0..Len(m_conns) /\ ptr \in 0..MaxCalls /\ {m_conns[i] : i \in 1..n} \ {ptr} \subseteq Calls
    BY <2>1 DEF ClientTypeOK, Calls
  <2>3. SubSeq(m_conns, n + 1, Len(m_conns)) \in Seq(Calls)
    BY <2>2 DEF ClientTypeOK
  <2> HIDE DEF n, ptr
  <2>4. [fiber[f] EXCEPT !.conn = ptr, !.invalid = {m_conns[i] : i \in 1..n} \ {ptr}] \in Request
    BY <1>c, <2>2 DEF Request
  <2>5. fiber' \in [Fibers -> Request]
    BY <1>2, <2>4 DEF Pop, ClientTypeOK, n, ptr
  <2>6. m_conns' \in Seq(Calls)
    BY <1>2, <2>3 DEF Pop, n
  <2> QED BY <1>2, <2>5, <2>6 DEF Pop, Goto, ClientTypeOK, Labels
<1>3. ASSUME NEW f \in Fibers, Sweep(f), UNCHANGED m_maxRequest PROVE ClientTypeOK'
  <2>1. net' \in [Calls -> Conn]
    BY <1>3, <1>n, NoneType DEF Sweep
  <2>2. m_total' \in Int
    <3>1. fiber[f].invalid = {}
      BY DEF Shape
    <3> QED BY <1>3, <3>1, FS_EmptySet DEF Sweep, ClientTypeOK
  <2>3. [fiber[f] EXCEPT !.invalid = {}] \in Request
    BY <1>c DEF Request
  <2>4. fiber' \in [Fibers -> Request]
    BY <1>3, <2>3 DEF Sweep, ClientTypeOK
  <2> QED BY <1>3, <2>1, <2>2, <2>4 DEF Sweep, Goto, ClientTypeOK, Labels
<1>4. ASSUME NEW f \in Fibers, Connect(f), UNCHANGED m_maxRequest PROVE ClientTypeOK'
  <2>1. fiber[f].req \in Calls /\ fiber[f].req \in 0..MaxCalls
    BY <1>4 DEF Connect, Shape, ClientTypeOK, Calls
  <2>2. [net[fiber[f].req] EXCEPT !.m_isConnected = TRUE] \in Conn
    BY <1>n, <2>1 DEF Conn
  <2>3. net' \in [Calls -> Conn]
    BY <1>4, <2>2 DEF Connect, ClientTypeOK
  <2>4. [fiber[f] EXCEPT !.conn = fiber[f].req] \in Request
    BY <1>c, <2>1 DEF Request
  <2>5. fiber' \in [Fibers -> Request]
    BY <1>4, <2>4 DEF Connect, ClientTypeOK
  <2> QED BY <1>4, <2>3, <2>5 DEF Connect, Goto, ClientTypeOK, Labels
<1>5. ASSUME NEW f \in Fibers, ConnectFails(f), UNCHANGED m_maxRequest PROVE ClientTypeOK'
  BY <1>5, IdleType DEF ConnectFails, End, Goto, ClientTypeOK, Labels
<1>6. ASSUME NEW f \in Fibers, sendRequest(f), UNCHANGED m_maxRequest PROVE ClientTypeOK'
  <2>1. fiber[f].conn \in Calls /\ fiber[f].req \in Calls
    BY <1>6, <1>c DEF sendRequest, Shape, ClientTypeOK, Calls
  <2>2. [net[fiber[f].conn] EXCEPT !.asked = Append(net[fiber[f].conn].asked, fiber[f].req)] \in Conn
    <3>1. net[fiber[f].conn].asked \in Seq(Calls)
      BY <1>n, <2>1 DEF Conn
    <3>2. Append(net[fiber[f].conn].asked, fiber[f].req) \in Seq(Calls)
      BY <2>1, <3>1
    <3> QED BY <1>n, <2>1, <3>2, AskedType
  <2>3. net' \in [Calls -> Conn]
    BY <1>6, <2>1, <2>2 DEF sendRequest, ClientTypeOK
  <2>4. [fiber[f] EXCEPT !.result = SEND_SOCKET_ERROR] \in Request
    BY <1>c DEF Request, SEND_SOCKET_ERROR
  <2>5. fiber' \in [Fibers -> Request]
    BY <1>6, <2>4 DEF sendRequest, ClientTypeOK
  <2> QED BY <1>6, <2>3, <2>5 DEF sendRequest, Goto, ClientTypeOK, Labels
<1>7. ASSUME NEW f \in Fibers, recvResponse(f), UNCHANGED m_maxRequest PROVE ClientTypeOK'
  BY <1>7, RecvReaches, ReachesType
<1>8. ASSUME NEW f \in Fibers, ReleasePtr(f), UNCHANGED m_maxRequest PROVE ClientTypeOK'
  <2>1. fiber[f].conn \in Calls
    BY <1>8, <1>c DEF ReleasePtr, Shape
  <2>2. [net[fiber[f].conn] EXCEPT !.m_request = net[fiber[f].conn].m_request + 1] \in Conn
    <3>1. net[fiber[f].conn].m_request + 1 \in Nat
      BY <1>n, <2>1 DEF Conn
    <3> QED BY <1>n, <2>1, <3>1 DEF Conn
  <2>3. net' \in [Calls -> Conn]
    BY <1>8, <2>1, <2>2, NoneType DEF ReleasePtr, ClientTypeOK
  <2>4. fiber' \in [Fibers -> Request] /\ pc' \in [Fibers -> Labels]
    BY <1>8, IdleType DEF ReleasePtr, ClientTypeOK, End, Goto, Labels
  <2>5. m_conns' \in Seq(Calls)
    <3>1. m_conns \in Seq(Calls) /\ Append(m_conns, fiber[f].conn) \in Seq(Calls)
      BY <2>1 DEF ClientTypeOK
    <3> QED BY <1>8, <3>1 DEF ReleasePtr
  <2> QED BY <1>8, <2>3, <2>4, <2>5 DEF ReleasePtr, ClientTypeOK
<1>9. ASSUME NEW f \in Fibers, Uncount(f), UNCHANGED m_maxRequest PROVE ClientTypeOK'
  BY <1>9 DEF Uncount, Goto, ClientTypeOK, Labels
<1>10. ASSUME NEW c \in Calls, NEW form \in Forms, NEW whole \in BOOLEAN, Answer(c, form, whole),
              UNCHANGED m_maxRequest
       PROVE  ClientTypeOK'
  <2> DEFINE all == Bytes(Head(net[c].asked), form)
             more == IF whole THEN all ELSE Front(all)
  <2>1. net[c].asked \in Seq(Calls) /\ net[c].asked # <<>> /\ net[c].stream \in Seq(Byte)
    BY <1>n, <1>10 DEF Conn, Answer
  <2>2. Head(net[c].asked) \in Calls /\ Tail(net[c].asked) \in Seq(Calls)
    BY <2>1
  <2>3. all \in Seq(Byte) /\ Len(all) > 1
    BY <2>2, BytesType DEF WellFormed
  <2>4. more \in Seq(Byte)
    <3> HIDE DEF all
    <3> QED BY <2>3 DEF Front
  <2>5. net[c].stream \o more \in Seq(Byte)
    BY <2>1, <2>4
  <2> HIDE DEF more
  <2>6. [net[c] EXCEPT !.asked = Tail(@), !.stream = @ \o more,
                       !.peer = IF whole THEN @ ELSE "closed"] \in Conn
    <3>1. [net[c] EXCEPT !.asked = Tail(@)] \in Conn
      BY <1>n, <2>2 DEF Conn
    <3> QED BY <3>1, <1>n, <2>2, <2>5 DEF Conn
  <2>7. net' \in [Calls -> Conn]
    BY <1>10, <2>6 DEF Answer, ClientTypeOK, more, all
  <2> QED BY <1>10, <2>7 DEF Answer, ClientTypeOK
<1>11. ASSUME NEW c \in Calls, NEW how \in {"closed", "reset"}, Leave(c, how),
              UNCHANGED m_maxRequest
       PROVE  ClientTypeOK'
  <2>1. [net[c] EXCEPT !.peer = how, !.asked = <<>>,
                       !.stream = IF how = "reset" THEN <<>> ELSE @] \in Conn
    <3>1. <<>> \in Seq(Calls) /\ <<>> \in Seq(Byte)
      OBVIOUS
    <3> QED BY <1>n, <3>1 DEF Conn
  <2>2. net' \in [Calls -> Conn]
    BY <1>11, <2>1 DEF Leave, ClientTypeOK
  <2> QED BY <1>11, <2>2 DEF Leave, ClientTypeOK
<1>12. CASE UNCHANGED vars
  BY <1>12 DEF vars, ClientTypeOK
<1> QED BY <1>1, <1>2, <1>3, <1>4, <1>5, <1>6, <1>7, <1>8, <1>9, <1>10, <1>11, <1>12 DEF
   Next, Step

-----------------------------------------------------------------------------
(* The pool.                                                                 *)

\* There are finitely many fibers to count.
LEMMA FiniteCounts == /\ IsFiniteSet(Using) /\ Cardinality(Using) \in Nat
                      /\ IsFiniteSet(Uncounting) /\ Cardinality(Uncounting) \in Nat
<1>1. Using \subseteq Fibers /\ Uncounting \subseteq Fibers
  BY DEF Using, Uncounting
<1> QED BY <1>1, HttpClientAssumption, FS_Subset, FS_CardinalityType

\* What the peer does, sendRequest and recvResponse leave the bookkeeping alone.
LEMMA QuietStep ==
    ASSUME PoolInv, ClientTypeOK', UNCHANGED <<calls, m_conns, m_total>>,
           \A g \in Fibers : /\ fiber'[g].req = fiber[g].req /\ fiber'[g].direct = fiber[g].direct
                             /\ fiber'[g].conn = fiber[g].conn /\ fiber'[g].invalid = fiber[g].invalid
                             /\ \/ pc'[g] = pc[g] /\ fiber'[g] = fiber[g]
                                \/ {pc[g], pc'[g]} \subseteq {"send", "receive", "release"},
           \A i \in DOMAIN m_conns : net'[m_conns[i]].m_isConnected
    PROVE  PoolInv'
<1>1. Shape'
  BY DEF PoolInv, Shape
<1>2. Apart'
  BY DEF PoolInv, Apart
<1>3. Connected'
  BY DEF Connected
<1>4. Counted'
  <2>1. Using' = Using
    BY DEF Using
  <2>2. Uncounting' = Uncounting
    BY DEF Uncounting
  <2> QED BY <2>1, <2>2 DEF PoolInv, Counted
<1> QED BY <1>1, <1>2, <1>3, <1>4 DEF PoolInv

\* A connection that a fiber uses.
LEMMA ConnInUse ==
    ASSUME PoolInv, NEW f \in Fibers, pc[f] \in {"send", "receive", "release"}
    PROVE  /\ fiber[f].conn \in Calls /\ fiber[f].req \in Calls
           /\ \A i \in DOMAIN m_conns : m_conns[i] \in Calls /\ m_conns[i] # fiber[f].conn
<1>1. fiber[f] \in Request /\ fiber[f].conn # 0 /\ fiber[f].req \in 1..calls
  BY DEF PoolInv, ClientTypeOK, Shape
<1>2. fiber[f].conn \in Calls /\ fiber[f].req \in Calls
  BY <1>1, HttpClientAssumption DEF Request, Calls, PoolInv
<1>3. \A i \in DOMAIN m_conns : m_conns[i] \in Calls
  BY DEF PoolInv, ClientTypeOK
<1> QED BY <1>2, <1>3 DEF PoolInv, Apart

\* Connections that no step closes.
LEMMA StaysConnected ==
    ASSUME PoolInv, \A d \in Calls : net[d].m_isConnected => net'[d].m_isConnected
    PROVE  \A i \in DOMAIN m_conns : net'[m_conns[i]].m_isConnected
<1> TAKE i \in DOMAIN m_conns
<1>1. m_conns[i] \in Calls
  BY DEF PoolInv, ClientTypeOK
<1>2. net[m_conns[i]].m_isConnected
  BY DEF PoolInv, Connected
<1> QED BY <1>1, <1>2

\* The peer answers.
LEMMA PoolAnswer ==
    ASSUME PoolInv, ClientTypeOK', NEW c \in Calls, NEW form \in Forms, NEW whole \in BOOLEAN,
           Answer(c, form, whole)
    PROVE  PoolInv'
<1>1. \A d \in Calls : net[d].m_isConnected => net'[d].m_isConnected
  <2> TAKE d \in Calls
  <2>1. net[d] \in Conn
    BY DEF PoolInv, ClientTypeOK
  <2> QED BY <2>1 DEF Answer, PoolInv, ClientTypeOK, Conn
<1>2. \A i \in DOMAIN m_conns : net'[m_conns[i]].m_isConnected
  BY <1>1, StaysConnected
<1> QED BY <1>2, QuietStep DEF Answer

\* The peer leaves.
LEMMA PoolLeave ==
    ASSUME PoolInv, ClientTypeOK', NEW c \in Calls, NEW how \in {"closed", "reset"}, Leave(c, how)
    PROVE  PoolInv'
<1>1. \A d \in Calls : net[d].m_isConnected => net'[d].m_isConnected
  <2> TAKE d \in Calls
  <2>1. net[d] \in Conn
    BY DEF PoolInv, ClientTypeOK
  <2> QED BY <2>1 DEF Leave, PoolInv, ClientTypeOK
<1>2. \A i \in DOMAIN m_conns : net'[m_conns[i]].m_isConnected
  BY <1>1, StaysConnected
<1> QED BY <1>2, QuietStep DEF Leave

\* A request is sent.
LEMMA PoolSend ==
    ASSUME PoolInv, ClientTypeOK', NEW f \in Fibers, sendRequest(f)
    PROVE  PoolInv'
<1>1. fiber[f].conn \in Calls /\ fiber[f] \in Request /\ fiber \in [Fibers -> Request]
  BY ConnInUse DEF sendRequest, PoolInv, ClientTypeOK
<1>2. \A d \in Calls : net[d].m_isConnected => net'[d].m_isConnected
  <2> TAKE d \in Calls
  <2>1. net[d] \in Conn
    BY DEF PoolInv, ClientTypeOK
  <2>2. net'[d] = net[d] \/ net'[d] = [net[d] EXCEPT !.asked = Append(@, fiber[f].req)]
    BY DEF sendRequest, PoolInv, ClientTypeOK
  <2> QED BY <2>1, <2>2 DEF Conn
<1>3. \A i \in DOMAIN m_conns : net'[m_conns[i]].m_isConnected
  BY <1>2, StaysConnected
<1>4. ASSUME NEW g \in Fibers
      PROVE  /\ fiber'[g].req = fiber[g].req /\ fiber'[g].direct = fiber[g].direct
             /\ fiber'[g].conn = fiber[g].conn /\ fiber'[g].invalid = fiber[g].invalid
             /\ \/ pc'[g] = pc[g] /\ fiber'[g] = fiber[g]
                \/ {pc[g], pc'[g]} \subseteq {"send", "receive", "release"}
  <2>1. pc'[g] = pc[g] \/ {pc[g], pc'[g]} \subseteq {"send", "receive", "release"}
    BY DEF sendRequest, Goto, PoolInv, ClientTypeOK
  <2>2. CASE fiber' = fiber
    BY <2>1, <2>2
  <2>3. CASE fiber' = [fiber EXCEPT ![f].result = SEND_SOCKET_ERROR]
    <3>1. CASE g = f
      <4>1. fiber'[g] = [fiber[g] EXCEPT !.result = SEND_SOCKET_ERROR]
        BY <1>1, <2>3, <3>1
      <4>2. {pc[g], pc'[g]} \subseteq {"send", "receive", "release"}
        BY <3>1 DEF sendRequest, Goto, PoolInv, ClientTypeOK
      <4> QED BY <1>1, <3>1, <4>1, <4>2
    <3>2. CASE g # f
      <4>1. fiber'[g] = fiber[g]
        BY <1>1, <2>3, <3>2
      <4> QED BY <2>1, <4>1
    <3> QED BY <3>1, <3>2
  <2> QED BY <2>2, <2>3 DEF sendRequest
<1> QED BY <1>3, <1>4, QuietStep DEF sendRequest

\* recvResponse.
LEMMA PoolReceive ==
    ASSUME PoolInv, ClientTypeOK', NEW f \in Fibers, recvResponse(f)
    PROVE  PoolInv'
<1>1. pc[f] = "receive" /\ fiber[f].conn \in Calls
  BY RecvReaches DEF PoolInv
<1>2. PICK st \in Reader, rest \in Seq(Byte) : Reaches(f, st, rest)
  BY RecvReaches DEF PoolInv
<1>3. \A i \in DOMAIN m_conns : net'[m_conns[i]].m_isConnected
  <2> TAKE i \in DOMAIN m_conns
  <2>1. m_conns[i] \in Calls /\ m_conns[i] # fiber[f].conn
    BY <1>1, ConnInUse
  <2>2. net'[m_conns[i]] = net[m_conns[i]]
    BY <1>2, <2>1 DEF Reaches, PoolInv
  <2> QED BY <2>2 DEF PoolInv, Connected
<1>4. ASSUME NEW g \in Fibers
      PROVE  /\ fiber'[g].req = fiber[g].req /\ fiber'[g].direct = fiber[g].direct
             /\ fiber'[g].conn = fiber[g].conn /\ fiber'[g].invalid = fiber[g].invalid
             /\ \/ pc'[g] = pc[g] /\ fiber'[g] = fiber[g]
                \/ {pc[g], pc'[g]} \subseteq {"send", "receive", "release"}
  <2>1. fiber[g] \in Request /\ fiber \in [Fibers -> Request]
    BY DEF PoolInv, ClientTypeOK
  <2>2. CASE st.at \in {"done", "failed"}
    <3>1. pc' = [pc EXCEPT ![f] = "release"] /\ \E r : fiber' = [fiber EXCEPT ![f].result = r]
      BY <1>2, <2>2 DEF Reaches, Goto
    <3> QED BY <1>1, <2>1, <3>1 DEF Request, PoolInv
  <2>3. CASE st.at \notin {"done", "failed"}
    BY <1>2, <2>3 DEF Reaches
  <2> QED BY <2>2, <2>3
<1> QED BY <1>2, <1>3, <1>4, QuietStep DEF Reaches

\* A request begins.
LEMMA PoolBegin ==
    ASSUME PoolInv, ClientTypeOK', NEW f \in Fibers, NEW alone \in BOOLEAN, Begin(f, alone)
    PROVE  PoolInv'
<1>1. fiber[f] = Idle /\ calls \in Nat
  BY DEF Begin, PoolInv, Shape, ClientTypeOK
<1>2. /\ pc' = [pc EXCEPT ![f] = IF alone THEN "connect" ELSE "lock"]
      /\ fiber' = [fiber EXCEPT ![f] = [Idle EXCEPT !.req = calls + 1, !.direct = alone]]
      /\ calls' = calls + 1 /\ UNCHANGED <<m_conns, m_total, net>>
  BY <1>1 DEF Begin, Goto, PoolInv
<1>3. \A g \in Fibers : g # f => pc'[g] = pc[g] /\ fiber'[g] = fiber[g]
  BY <1>2 DEF PoolInv, ClientTypeOK
<1>4. /\ pc'[f] \in {"connect", "lock"} /\ (pc'[f] = "lock" => ~alone) /\ pc[f] = "idle"
      /\ fiber'[f] = [req |-> calls + 1, direct |-> alone, conn |-> 0, invalid |-> {}, result |-> PENDING]
  BY <1>2 DEF Idle, PoolInv, ClientTypeOK, Begin
<1>5. Shape'
  <2> SUFFICES ASSUME NEW g \in Fibers
               PROVE  /\ fiber'[g].invalid = {}
                      /\ pc'[g] \in {"idle", "uncount"} => fiber'[g] = Idle
                      /\ pc'[g] \in {"lock", "connect"} => fiber'[g].conn = 0
                      /\ pc'[g] \in {"send", "receive", "release"} => fiber'[g].conn # 0
                      /\ pc'[g] \in {"lock", "sweep"} => ~fiber'[g].direct
                      /\ pc'[g] \notin {"idle", "uncount"} => fiber'[g].req \in 1..calls'
    BY DEF Shape
  <2>1. CASE g = f
    <3>1. pc'[f] = "lock" => ~fiber'[f].direct
      <4>1. fiber'[f].direct = alone
        BY <1>4
      <4> QED BY <1>4, <4>1
    <3>2. fiber'[f].req \in 1..calls' /\ fiber'[f].conn = 0 /\ fiber'[f].invalid = {}
      <4>1. fiber'[f].req = calls + 1 /\ fiber'[f].conn = 0 /\ fiber'[f].invalid = {}
        BY <1>4
      <4> QED BY <1>1, <1>2, <4>1
    <3> QED BY <1>4, <2>1, <3>1, <3>2
  <2>2. CASE g # f
    BY <1>1, <1>2, <1>3, <2>2 DEF PoolInv, Shape
  <2> QED BY <2>1, <2>2
<1>6. fiber[f].req = 0 /\ fiber[f].conn = 0
  BY <1>1 DEF Idle
<1>7. \A g \in Fibers : fiber[g].req <= calls /\ fiber[g].conn <= calls
  <2> TAKE g \in Fibers
  <2>1. pc[g] \in {"idle", "uncount"} => fiber[g].req = 0
    BY DEF PoolInv, Shape, Idle
  <2>2. pc[g] \notin {"idle", "uncount"} => fiber[g].req \in 1..calls
    BY DEF PoolInv, Shape
  <2> QED BY <1>1, <2>1, <2>2 DEF PoolInv, Apart
<1>8. \A i \in DOMAIN m_conns : m_conns[i] \in Calls /\ m_conns[i] <= calls
  BY DEF PoolInv, Apart, ClientTypeOK
<1>9. \A g \in Fibers : fiber[g].req \in Nat /\ fiber[g].conn \in Nat
  <2> TAKE g \in Fibers
  <2>1. fiber[g] \in Request
    BY DEF PoolInv, ClientTypeOK
  <2> QED BY <2>1, HttpClientAssumption DEF Request
<1>10. \A i \in DOMAIN m_conns : m_conns[i] \in Nat /\ m_conns[i] # 0
  BY <1>8, HttpClientAssumption DEF Calls
<1>11. Apart'
  BY <1>1, <1>2, <1>3, <1>4, <1>6, <1>7, <1>8, <1>9, <1>10 DEF PoolInv, Apart
<1>12. Connected'
  BY <1>2 DEF PoolInv, Connected
<1>13. Using' = Using /\ Uncounting' = Uncounting
  BY <1>3, <1>4, <1>6 DEF Using, Uncounting
<1> QED BY <1>2, <1>5, <1>11, <1>12, <1>13 DEF PoolInv, Counted

\* getConnection under the lock: the pool's first connection, if it has one.
LEMMA PopFirst ==
    ASSUME PoolInv, NEW f \in Fibers, Pop(f)
    PROVE  /\ pc' = [pc EXCEPT ![f] = "sweep"] /\ UNCHANGED <<calls, m_total, net>>
           /\ m_conns = <<>> => fiber' = fiber /\ m_conns' = m_conns
           /\ m_conns # <<>> => /\ fiber' = [fiber EXCEPT ![f].conn = m_conns[1]]
                                /\ m_conns' = Tail(m_conns)
<1> DEFINE first == SelectInSeq(m_conns, Usable)
           n == IF first = 0 THEN Len(m_conns) ELSE first
           ptr == IF first = 0 THEN 0 ELSE m_conns[first]
           invalid == {m_conns[i] : i \in 1..n} \ {ptr}
<1>1. m_conns \in Seq(Calls) /\ fiber[f] \in Request /\ fiber[f].conn = 0 /\ fiber[f].invalid = {}
  BY DEF PoolInv, ClientTypeOK, Shape, Pop
<1>2. /\ fiber' = [fiber EXCEPT ![f].conn = ptr, ![f].invalid = invalid]
      /\ m_conns' = SubSeq(m_conns, n + 1, Len(m_conns))
  BY DEF Pop
<1>3. CASE m_conns = <<>>
  <2>1. first = 0
    <3>1. first \in 0..Len(m_conns)
      BY <1>1, SelectType
    <3> HIDE DEF first
    <3> QED BY <1>3, <3>1
  <2>2. n = 0 /\ ptr = 0 /\ invalid = {}
    BY <1>3, <2>1
  <2> HIDE DEF n, ptr, invalid
  <2>3. fiber' = fiber
    <3>1. [fiber[f] EXCEPT !.conn = 0, !.invalid = {}] = fiber[f]
      BY <1>1 DEF Request
    <3> QED BY <1>2, <2>2, <3>1 DEF PoolInv, ClientTypeOK
  <2>4. m_conns' = m_conns
    BY <1>2, <1>3, <2>2
  <2> QED BY <1>3, <2>3, <2>4 DEF Pop, Goto
<1>4. CASE m_conns # <<>>
  <2>1. \A i \in DOMAIN m_conns : Usable(m_conns[i])
    BY HttpClientAssumption DEF PoolInv, Connected, Usable
  <2>2. first = 1
    BY <1>1, <1>4, <2>1, FirstUsable
  <2>3. n = 1 /\ ptr = m_conns[1] /\ invalid = {}
    BY <2>2
  <2> HIDE DEF n, ptr, invalid
  <2>4. fiber' = [fiber EXCEPT ![f].conn = m_conns[1]]
    <3>1. [fiber[f] EXCEPT !.conn = m_conns[1], !.invalid = {}] = [fiber[f] EXCEPT !.conn = m_conns[1]]
      BY <1>1 DEF Request
    <3> QED BY <1>2, <2>3, <3>1 DEF PoolInv
  <2>5. m_conns' = Tail(m_conns)
    BY <1>1, <1>2, <1>4, <2>3
  <2> QED BY <1>4, <2>4, <2>5 DEF Pop, Goto
<1> QED BY <1>3, <1>4

\* getConnection takes a connection out of the pool.
LEMMA PoolPop ==
    ASSUME PoolInv, ClientTypeOK', NEW f \in Fibers, Pop(f)
    PROVE  PoolInv'
<1>1. m_conns \in Seq(Calls) /\ fiber[f] \in Request /\ fiber[f].conn = 0 /\ pc[f] = "lock" /\ ~fiber[f].direct
  BY DEF PoolInv, ClientTypeOK, Shape, Pop
<1>2. \A g \in Fibers : pc'[g] = IF g = f THEN "sweep" ELSE pc[g]
  BY PopFirst DEF PoolInv, ClientTypeOK
<1>3. UNCHANGED <<calls, m_total, net>>
  BY PopFirst
<1>4. Uncounting' = Uncounting
  BY <1>1, <1>2 DEF Uncounting
<1>5. CASE m_conns = <<>>
  <2>1. UNCHANGED <<fiber, m_conns>>
    BY <1>5, PopFirst
  <2>2. Shape'
    BY <1>1, <1>2, <1>3, <2>1 DEF PoolInv, Shape
  <2>3. Apart'
    BY <1>1, <1>2, <1>3, <2>1 DEF PoolInv, Apart
  <2>4. Connected' /\ Using' = Using
    BY <1>3, <2>1 DEF PoolInv, Connected, Using
  <2> QED BY <1>3, <1>4, <2>1, <2>2, <2>3, <2>4 DEF PoolInv, Counted
<1>6. CASE m_conns # <<>>
  <2>1. fiber' = [fiber EXCEPT ![f].conn = m_conns[1]] /\ m_conns' = Tail(m_conns)
    BY <1>6, PopFirst
  <2>2. \A g \in Fibers : g # f => fiber'[g] = fiber[g]
    BY <2>1 DEF PoolInv, ClientTypeOK
  <2>3. fiber'[f] = [fiber[f] EXCEPT !.conn = m_conns[1]]
    BY <2>1 DEF PoolInv, ClientTypeOK
  <2>4. /\ fiber'[f].conn = m_conns[1] /\ fiber'[f].req = fiber[f].req
        /\ fiber'[f].direct = fiber[f].direct /\ fiber'[f].invalid = fiber[f].invalid
    BY <1>1, <2>3 DEF Request
  <2>5. m_conns[1] \in Calls /\ m_conns[1] # 0 /\ 1 \in DOMAIN m_conns /\ m_conns[1] \in Nat
    BY <1>1, <1>6, HttpClientAssumption DEF Calls
  <2>6. /\ Len(m_conns') = Len(m_conns) - 1 /\ DOMAIN m_conns' = 1..(Len(m_conns) - 1)
        /\ \A i \in DOMAIN m_conns' : i + 1 \in DOMAIN m_conns /\ m_conns'[i] = m_conns[i + 1] /\ i + 1 # 1
    BY <1>1, <1>6, <2>1
  <2>7. Shape'
    BY <1>1, <1>2, <1>3, <2>2, <2>4, <2>5 DEF PoolInv, Shape
  <2>8. Apart'
    <3>1. \A g \in Fibers : fiber[g].conn # m_conns[1]
      BY <2>5 DEF PoolInv, Apart
    <3>2. \A i \in DOMAIN m_conns' : m_conns'[i] # m_conns[1]
      BY <2>5, <2>6 DEF PoolInv, Apart
    <3>3. \A i, j \in DOMAIN m_conns' : i # j => m_conns'[i] # m_conns'[j]
      <4> SUFFICES ASSUME NEW i \in DOMAIN m_conns', NEW j \in DOMAIN m_conns', i # j
                   PROVE  m_conns[i + 1] # m_conns[j + 1]
        BY <2>6
      <4>1. i + 1 # j + 1 /\ i + 1 \in DOMAIN m_conns /\ j + 1 \in DOMAIN m_conns
        BY <1>1, <2>6
      <4> QED BY <4>1 DEF PoolInv, Apart
    <3>4. \A g, h \in Fibers : g # h /\ fiber'[g].req # 0 => fiber'[g].req # fiber'[h].req
      BY <2>2, <2>4 DEF PoolInv, Apart
    <3>5. \A g, h \in Fibers : g # h /\ fiber'[g].conn # 0 => fiber'[g].conn # fiber'[h].conn
      BY <2>2, <2>4, <3>1 DEF PoolInv, Apart
    <3>6. \A g \in Fibers : \A i \in DOMAIN m_conns' : fiber'[g].conn # m_conns'[i]
      BY <2>2, <2>4, <2>6, <3>2 DEF PoolInv, Apart
    <3>7. (\A g \in Fibers : fiber'[g].conn <= calls') /\ (\A i \in DOMAIN m_conns' : m_conns'[i] <= calls')
      BY <1>3, <2>2, <2>4, <2>5, <2>6 DEF PoolInv, Apart
    <3>8. ASSUME NEW g \in Fibers, pc'[g] \notin {"idle", "uncount"}, fiber'[g].conn = 0
          PROVE  /\ \A h \in Fibers : fiber'[h].conn # fiber'[g].req
                 /\ \A i \in DOMAIN m_conns' : m_conns'[i] # fiber'[g].req
      <4>1. g # f /\ fiber'[g] = fiber[g] /\ pc'[g] = pc[g]
        BY <1>2, <2>2, <2>4, <2>5, <3>8
      <4>2. \A h \in Fibers : fiber[h].conn # fiber[g].req
        BY <3>8, <4>1 DEF PoolInv, Apart
      <4>3. \A i \in DOMAIN m_conns : m_conns[i] # fiber[g].req
        BY <3>8, <4>1 DEF PoolInv, Apart
      <4> QED BY <2>2, <2>4, <2>5, <2>6, <4>1, <4>2, <4>3
    <3> QED BY <3>3, <3>4, <3>5, <3>6, <3>7, <3>8 DEF Apart
  <2>9. Connected'
    BY <1>3, <2>6 DEF PoolInv, Connected
  <2>10. Using' = Using \cup {f} /\ f \notin Using
    BY <1>1, <2>2, <2>4, <2>5 DEF Using
  <2>11. Cardinality(Using') = Cardinality(Using) + 1
    BY <2>10, FiniteCounts, FS_AddElement
  <2>12. Counted'
    BY <1>1, <1>3, <1>4, <2>6, <2>11, FiniteCounts DEF PoolInv, Counted
  <2> QED BY <2>7, <2>8, <2>9, <2>12 DEF PoolInv
<1> QED BY <1>5, <1>6

\* The deletions: as all connections were usable, there are none.
LEMMA PoolSweep ==
    ASSUME PoolInv, ClientTypeOK', NEW f \in Fibers, Sweep(f)
    PROVE  PoolInv' /\ net' = net /\ fiber' = fiber /\ m_conns' = m_conns
<1>1. fiber[f].invalid = {} /\ fiber[f] \in Request /\ pc[f] = "sweep"
  BY DEF PoolInv, ClientTypeOK, Shape, Sweep
<1>2. net' = net
  BY <1>1 DEF Sweep, PoolInv, ClientTypeOK
<1>3. m_total' = m_total
  BY <1>1, FS_EmptySet DEF Sweep, PoolInv, ClientTypeOK
<1>4. fiber' = fiber
  <2>1. [fiber[f] EXCEPT !.invalid = {}] = fiber[f]
    BY <1>1 DEF Request
  <2> QED BY <2>1 DEF Sweep, PoolInv, ClientTypeOK
<1>5. /\ \A g \in Fibers : g # f => pc'[g] = pc[g]
      /\ pc'[f] = IF fiber[f].conn = 0 THEN "connect" ELSE "send"
      /\ UNCHANGED <<calls, m_conns>>
  BY DEF Sweep, Goto, PoolInv, ClientTypeOK
<1>6. Shape'
  BY <1>1, <1>4, <1>5 DEF PoolInv, Shape
<1>7. Apart'
  BY <1>1, <1>4, <1>5 DEF PoolInv, Apart
<1>8. Connected' /\ Using' = Using
  BY <1>2, <1>4, <1>5 DEF PoolInv, Connected, Using
<1>9. Uncounting' = Uncounting
  BY <1>1, <1>5 DEF Uncounting
<1>10. Counted'
  BY <1>3, <1>5, <1>8, <1>9 DEF PoolInv, Counted
<1> QED BY <1>2, <1>4, <1>5, <1>6, <1>7, <1>8, <1>10 DEF PoolInv

\* A new connection: no one has one of that name.
LEMMA PoolConnect ==
    ASSUME PoolInv, ClientTypeOK', NEW f \in Fibers, Connect(f)
    PROVE  PoolInv'
<1> DEFINE c == fiber[f].req
<1>1. pc[f] = "connect" /\ fiber[f].conn = 0 /\ fiber[f] \in Request /\ c \in 1..calls
  BY DEF Connect, PoolInv, ClientTypeOK, Shape
<1>2. c \in Calls /\ c # 0 /\ c \in Nat /\ c <= calls
  BY <1>1, HttpClientAssumption DEF PoolInv, ClientTypeOK, Calls
<1>3. (\A g \in Fibers : fiber[g].conn # c) /\ (\A i \in DOMAIN m_conns : m_conns[i] # c)
  BY <1>1 DEF PoolInv, Apart
<1>4. /\ \A g \in Fibers : g # f => pc'[g] = pc[g] /\ fiber'[g] = fiber[g]
      /\ pc'[f] = "send" /\ UNCHANGED <<calls, m_conns>>
  BY DEF Connect, Goto, PoolInv, ClientTypeOK
<1>5. /\ fiber'[f].conn = c /\ fiber'[f].req = c /\ fiber'[f].direct = fiber[f].direct
      /\ fiber'[f].invalid = fiber[f].invalid
  <2>1. fiber'[f] = [fiber[f] EXCEPT !.conn = c]
    BY DEF Connect, PoolInv, ClientTypeOK
  <2> QED BY <1>1, <2>1 DEF Request
<1>6. Shape'
  BY <1>1, <1>2, <1>4, <1>5 DEF PoolInv, Shape
<1>7. Apart'
  <2>1. \A g, h \in Fibers : g # h /\ fiber'[g].req # 0 => fiber'[g].req # fiber'[h].req
    BY <1>4, <1>5 DEF PoolInv, Apart
  <2>2. \A g, h \in Fibers : g # h /\ fiber'[g].conn # 0 => fiber'[g].conn # fiber'[h].conn
    BY <1>3, <1>4, <1>5 DEF PoolInv, Apart
  <2>3. \A g \in Fibers : \A i \in DOMAIN m_conns : fiber'[g].conn # m_conns[i]
    BY <1>3, <1>4, <1>5 DEF PoolInv, Apart
  <2>4. \A g \in Fibers : fiber'[g].conn <= calls
    BY <1>2, <1>4, <1>5 DEF PoolInv, Apart
  <2>5. ASSUME NEW g \in Fibers, pc'[g] \notin {"idle", "uncount"}, fiber'[g].conn = 0
        PROVE  /\ \A h \in Fibers : fiber'[h].conn # fiber'[g].req
               /\ \A i \in DOMAIN m_conns : m_conns[i] # fiber'[g].req
    <3>1. g # f /\ fiber'[g] = fiber[g] /\ pc'[g] = pc[g]
      BY <1>2, <1>4, <1>5, <2>5
    <3>2. /\ \A h \in Fibers : fiber[h].conn # fiber[g].req
          /\ \A i \in DOMAIN m_conns : m_conns[i] # fiber[g].req
      BY <2>5, <3>1 DEF PoolInv, Apart
    <3>3. fiber[g].req # c
      BY <1>2, <3>1 DEF PoolInv, Apart
    <3> QED BY <1>4, <1>5, <3>1, <3>2, <3>3
  <2> QED BY <1>4, <2>1, <2>2, <2>3, <2>4, <2>5 DEF PoolInv, Apart
<1>8. Connected'
  <2> SUFFICES ASSUME NEW i \in DOMAIN m_conns PROVE net'[m_conns[i]].m_isConnected
    BY <1>4 DEF Connected
  <2>1. m_conns[i] \in Calls /\ m_conns[i] # c
    BY <1>3 DEF PoolInv, ClientTypeOK
  <2>2. net'[m_conns[i]] = net[m_conns[i]]
    BY <2>1 DEF Connect, PoolInv, ClientTypeOK
  <2> QED BY <2>2 DEF PoolInv, Connected
<1>9. Uncounting' = Uncounting
  BY <1>1, <1>4 DEF Uncounting
<1>10. CASE fiber[f].direct
  <2>1. Using' = Using /\ m_total' = m_total
    BY <1>1, <1>4, <1>5, <1>10 DEF Using, Connect
  <2> QED BY <1>4, <1>6, <1>7, <1>8, <1>9, <2>1 DEF PoolInv, Counted
<1>11. CASE ~fiber[f].direct
  <2>1. Using' = Using \cup {f} /\ f \notin Using /\ m_total' = m_total + 1
    BY <1>1, <1>2, <1>4, <1>5, <1>11 DEF Using, Connect
  <2>2. Cardinality(Using') = Cardinality(Using) + 1
    BY <2>1, FiniteCounts, FS_AddElement
  <2>3. Counted'
    BY <1>4, <1>9, <2>1, <2>2, FiniteCounts DEF PoolInv, Counted
  <2> QED BY <1>6, <1>7, <1>8, <2>3 DEF PoolInv
<1> QED BY <1>10, <1>11

\* A fiber that has no request any more.
LEMMA PoolEnd ==
    ASSUME PoolInv, ClientTypeOK', NEW f \in Fibers, UNCHANGED <<calls, m_conns>>,
           fiber' = [fiber EXCEPT ![f] = Idle],
           pc' = [pc EXCEPT ![f] = "idle"] \/ pc' = [pc EXCEPT ![f] = "uncount"]
    PROVE  Shape' /\ Apart'
<1>1. /\ \A g \in Fibers : g # f => pc'[g] = pc[g] /\ fiber'[g] = fiber[g]
      /\ pc'[f] \in {"idle", "uncount"} /\ fiber'[f] = Idle
  BY DEF PoolInv, ClientTypeOK
<1>2. Idle.conn = 0 /\ Idle.req = 0 /\ Idle.invalid = {}
  BY DEF Idle
<1>3. Shape'
  BY <1>1, <1>2 DEF PoolInv, Shape
<1>4. \A i \in DOMAIN m_conns : m_conns[i] \in Nat /\ m_conns[i] # 0
  BY HttpClientAssumption DEF PoolInv, ClientTypeOK, Calls
<1>5. calls \in Nat
  BY DEF PoolInv, ClientTypeOK
<1>6. \A g \in Fibers : pc[g] \notin {"idle", "uncount"} => fiber[g].req # 0
  BY <1>5 DEF PoolInv, Shape
<1>7. Apart'
  BY <1>1, <1>2, <1>4, <1>5, <1>6 DEF PoolInv, Apart
<1> QED BY <1>3, <1>7

\* No connection comes about.
LEMMA PoolConnectFails ==
    ASSUME PoolInv, ClientTypeOK', NEW f \in Fibers, ConnectFails(f)
    PROVE  PoolInv'
<1>1. fiber[f].conn = 0 /\ pc[f] = "connect"
  BY DEF ConnectFails, PoolInv, Shape
<1>2. Shape' /\ Apart'
  BY PoolEnd DEF ConnectFails, End, Goto
<1>3. Connected'
  BY DEF ConnectFails, PoolInv, Connected
<1>4. Using' = Using /\ Uncounting' = Uncounting
  BY <1>1 DEF ConnectFails, End, Goto, Using, Uncounting, Idle
<1> QED BY <1>2, <1>3, <1>4 DEF ConnectFails, PoolInv, Counted

\* The deletion of a connection is counted.
LEMMA PoolUncount ==
    ASSUME PoolInv, ClientTypeOK', NEW f \in Fibers, Uncount(f)
    PROVE  PoolInv'
<1>1. fiber[f] = Idle /\ fiber' = [fiber EXCEPT ![f] = Idle]
  BY DEF Uncount, PoolInv, ClientTypeOK, Shape
<1>2. Shape' /\ Apart'
  BY <1>1, PoolEnd DEF Uncount, Goto
<1>3. Connected' /\ Using' = Using
  BY DEF Uncount, PoolInv, Connected, Using
<1>4. Uncounting' = Uncounting \ {f} /\ f \in Uncounting
  BY DEF Uncount, Goto, Uncounting, PoolInv, ClientTypeOK
<1>5. Cardinality(Uncounting') = Cardinality(Uncounting) - 1
  BY <1>4, FiniteCounts, FS_RemoveElement
<1>6. Counted'
  BY <1>3, <1>5, FiniteCounts DEF Uncount, PoolInv, Counted
<1> QED BY <1>2, <1>3, <1>6 DEF PoolInv

\* ReleasePtr deletes a connection or puts it back into the pool.
LEMMA PoolRelease ==
    ASSUME PoolInv, ClientTypeOK', NEW f \in Fibers, ReleasePtr(f)
    PROVE  PoolInv'
<1> DEFINE c == fiber[f].conn
           used == net[c].m_request + 1
<1>1. pc[f] = "release" /\ c \in Calls /\ c # 0 /\ net[c] \in Conn
  BY ConnInUse DEF ReleasePtr, PoolInv, ClientTypeOK, Shape
<1>2. \A i \in DOMAIN m_conns : m_conns[i] \in Calls /\ m_conns[i] # c
  BY <1>1, ConnInUse
<1>3. \A d \in Calls : d # c => net'[d] = net[d]
  BY DEF ReleasePtr, PoolInv, ClientTypeOK
<1>4. fiber' = [fiber EXCEPT ![f] = Idle] /\ UNCHANGED <<calls, m_total>>
  BY DEF ReleasePtr, End
<1>5. fiber'[f] = Idle /\ \A g \in Fibers : g # f => fiber'[g] = fiber[g]
  BY <1>4 DEF PoolInv, ClientTypeOK
<1>6. CASE fiber[f].direct
  <2>1. pc' = [pc EXCEPT ![f] = "idle"] /\ UNCHANGED m_conns
    BY <1>6 DEF ReleasePtr, End, Goto
  <2>2. Shape' /\ Apart'
    BY <1>4, <2>1, PoolEnd
  <2>3. Connected'
    BY <1>2, <1>3, <2>1 DEF PoolInv, Connected
  <2>4. Using' = Using
    BY <1>5, <1>6 DEF Using, Idle
  <2>5. Uncounting' = Uncounting
    BY <1>1, <2>1 DEF Uncounting, PoolInv
  <2> QED BY <1>4, <2>1, <2>2, <2>3, <2>4, <2>5 DEF PoolInv, Counted
<1>7. CASE ~fiber[f].direct /\ Worn(c, used)
  <2>1. pc' = [pc EXCEPT ![f] = "uncount"] /\ UNCHANGED m_conns
    BY <1>7 DEF ReleasePtr, Goto
  <2>2. Shape' /\ Apart'
    BY <1>4, <2>1, PoolEnd
  <2>3. Connected'
    BY <1>2, <1>3, <2>1 DEF PoolInv, Connected
  <2>4. Using' = Using \ {f} /\ f \in Using
    BY <1>1, <1>5, <1>7 DEF Using, Idle
  <2>5. Uncounting' = Uncounting \cup {f} /\ f \notin Uncounting
    BY <1>1, <2>1 DEF Uncounting, PoolInv, ClientTypeOK
  <2>6. Cardinality(Using') = Cardinality(Using) - 1
    BY <2>4, FiniteCounts, FS_RemoveElement
  <2>7. Cardinality(Uncounting') = Cardinality(Uncounting) + 1
    BY <2>5, FiniteCounts, FS_AddElement
  <2>8. Counted'
    BY <1>4, <2>1, <2>6, <2>7, FiniteCounts DEF PoolInv, Counted
  <2> QED BY <2>2, <2>3, <2>8 DEF PoolInv
<1>8. CASE ~fiber[f].direct /\ ~Worn(c, used)
  <2>1. /\ pc' = [pc EXCEPT ![f] = "idle"] /\ m_conns' = Append(m_conns, c)
        /\ net' = [net EXCEPT ![c].m_request = used]
    BY <1>8 DEF ReleasePtr, End, Goto
  <2>2. /\ pc'[f] = "idle" /\ \A g \in Fibers : g # f => pc'[g] = pc[g]
    BY <2>1 DEF PoolInv, ClientTypeOK
  <2>3. /\ Len(m_conns') = Len(m_conns) + 1 /\ DOMAIN m_conns = 1..Len(m_conns)
        /\ DOMAIN m_conns' = 1..(Len(m_conns) + 1)
        /\ \A i \in DOMAIN m_conns : m_conns'[i] = m_conns[i]
        /\ m_conns'[Len(m_conns) + 1] = c
    BY <2>1 DEF PoolInv, ClientTypeOK
  <2>4. \A i \in DOMAIN m_conns' : (i \in DOMAIN m_conns /\ m_conns'[i] = m_conns[i])
                                   \/ (i = Len(m_conns) + 1 /\ m_conns'[i] = c)
    <3>1. Len(m_conns) \in Nat
      BY DEF PoolInv, ClientTypeOK
    <3> QED BY <2>3, <3>1
  <2>5. Idle.conn = 0 /\ Idle.req = 0 /\ Idle.invalid = {}
    BY DEF Idle
  <2>6. Shape'
    BY <1>4, <1>5, <2>2, <2>5 DEF PoolInv, Shape
  <2>7. \A i \in DOMAIN m_conns' : m_conns'[i] \in Nat /\ m_conns'[i] # 0
    BY <1>1, <1>2, <2>4, HttpClientAssumption DEF Calls
  <2>8. calls \in Nat /\ \A g \in Fibers : pc[g] \notin {"idle", "uncount"} => fiber[g].req # 0
    BY DEF PoolInv, ClientTypeOK, Shape
  <2>9. Apart'
    <3>1. \A g, h \in Fibers : g # h /\ fiber'[g].req # 0 => fiber'[g].req # fiber'[h].req
      BY <1>5, <2>5 DEF PoolInv, Apart
    <3>2. \A g, h \in Fibers : g # h /\ fiber'[g].conn # 0 => fiber'[g].conn # fiber'[h].conn
      BY <1>5, <2>5 DEF PoolInv, Apart
    <3>3. \A i, j \in DOMAIN m_conns' : i # j => m_conns'[i] # m_conns'[j]
      BY <1>2, <2>4 DEF PoolInv, Apart
    <3>4. \A g \in Fibers : \A i \in DOMAIN m_conns' : fiber'[g].conn # m_conns'[i]
      BY <1>1, <1>5, <2>4, <2>5, <2>7 DEF PoolInv, Apart
    <3>5. (\A g \in Fibers : fiber'[g].conn <= calls') /\ (\A i \in DOMAIN m_conns' : m_conns'[i] <= calls')
      BY <1>4, <1>5, <2>4, <2>5, <2>8 DEF PoolInv, Apart
    <3>6. ASSUME NEW g \in Fibers, pc'[g] \notin {"idle", "uncount"}, fiber'[g].conn = 0
          PROVE  /\ \A h \in Fibers : fiber'[h].conn # fiber'[g].req
                 /\ \A i \in DOMAIN m_conns' : m_conns'[i] # fiber'[g].req
      <4>1. g # f /\ fiber'[g] = fiber[g] /\ pc'[g] = pc[g]
        BY <1>5, <2>2, <3>6
      <4>2. fiber[g].req # 0 /\ (\A h \in Fibers : fiber[h].conn # fiber[g].req)
            /\ (\A i \in DOMAIN m_conns : m_conns[i] # fiber[g].req)
        BY <2>8, <3>6, <4>1 DEF PoolInv, Apart
      <4> QED BY <1>5, <2>4, <2>5, <4>1, <4>2
    <3> QED BY <3>1, <3>2, <3>3, <3>4, <3>5, <3>6 DEF Apart
  <2>10. Connected'
    <3>1. net'[c].m_isConnected
      <4>1. net[c].m_isConnected
        BY <1>8 DEF Worn
      <4>2. net'[c] = [net[c] EXCEPT !.m_request = used]
        BY <1>1, <2>1 DEF PoolInv, ClientTypeOK
      <4> QED BY <1>1, <4>1, <4>2 DEF Conn
    <3>2. \A i \in DOMAIN m_conns : net'[m_conns[i]].m_isConnected
      BY <1>2, <1>3 DEF PoolInv, Connected
    <3> QED BY <2>4, <3>1, <3>2 DEF Connected
  <2>11. Using' = Using \ {f} /\ f \in Using
    BY <1>1, <1>5, <1>8 DEF Using, Idle
  <2>12. Uncounting' = Uncounting
    BY <1>1, <2>2 DEF Uncounting
  <2>13. Cardinality(Using') = Cardinality(Using) - 1
    BY <2>11, FiniteCounts, FS_RemoveElement
  <2>14. Counted'
    <3>1. Len(m_conns) \in Nat /\ m_total \in Int
      BY DEF PoolInv, ClientTypeOK
    <3> QED BY <1>4, <2>3, <2>12, <2>13, <3>1, FiniteCounts DEF PoolInv, Counted
  <2> QED BY <2>6, <2>9, <2>10, <2>14 DEF PoolInv
<1> QED BY <1>6, <1>7, <1>8

\* Every step.
LEMMA PoolStep ==
    ASSUME PoolInv, [Next]_vars
    PROVE  PoolInv'
<1>1. ClientTypeOK'
  BY TypeStep DEF PoolInv
<1>2. CASE UNCHANGED vars
  BY <1>2 DEF vars, PoolInv, ClientTypeOK, Shape, Apart, Connected, Counted, Using,
     Uncounting
<1>3. CASE Next
  BY <1>1, <1>3, PoolBegin, PoolPop, PoolSweep, PoolConnect, PoolConnectFails, PoolSend,
     PoolReceive, PoolRelease, PoolUncount, PoolAnswer, PoolLeave DEF Next, Step
<1> QED BY <1>2, <1>3

\* The first state.
LEMMA PoolInit == Init => PoolInv
<1> SUFFICES ASSUME Init PROVE PoolInv
  OBVIOUS
<1>1. ClientTypeOK
  BY HttpClientAssumption, NoneType, IdleType, StartType DEF Init, ClientTypeOK, Labels,
     Start
<1>2. Shape /\ Apart /\ Connected
  BY HttpClientAssumption DEF Init, Shape, Apart, Connected, Idle
<1>3. Using = {} /\ Uncounting = {}
  BY DEF Init, Using, Uncounting, Idle
<1>4. Counted
  BY <1>3, FS_EmptySet DEF Init, Counted
<1> QED BY <1>1, <1>2, <1>4 DEF PoolInv

\* The invariant makes PoolExact true.
LEMMA PoolInvExact == PoolInv => PoolExact
<1> SUFFICES ASSUME PoolInv PROVE PoolExact
  OBVIOUS
<1>1. ASSUME NEW c \in Calls PROVE Cardinality(Held(c)) + Cardinality(Places(c)) <= 1
  <2>1. c # 0
    BY HttpClientAssumption DEF Calls
  <2>2. CASE Held(c) = {}
    <3>1. CASE Places(c) = {}
      BY <2>2, <3>1, FS_EmptySet
    <3>2. CASE Places(c) # {}
      <4>1. PICK i : i \in Places(c)
        BY <3>2
      <4>2. Places(c) = {i}
        BY <4>1 DEF Places, PoolInv, Apart
      <4>3. Cardinality({}) = 0 /\ Cardinality({i}) = 1
        BY FS_EmptySet, FS_Singleton
      <4> QED BY <2>2, <4>2, <4>3
    <3> QED BY <3>1, <3>2
  <2>3. CASE Held(c) # {}
    <3>1. PICK f : f \in Held(c)
      BY <2>3
    <3>2. Held(c) = {f}
      BY <2>1, <3>1 DEF Held, PoolInv, Apart
    <3>3. Places(c) = {}
      BY <3>1 DEF Held, Places, PoolInv, Apart
    <3>4. Cardinality({}) = 0 /\ Cardinality({f}) = 1
      BY FS_EmptySet, FS_Singleton
    <3> QED BY <3>2, <3>3, <3>4
  <2> QED BY <2>2, <2>3
<1> QED BY <1>1 DEF PoolExact, PoolInv, Connected, Counted, Using, Uncounting

\* http_connection.cc, getConnection and ReleasePtr: whatever the number of
\* fibers, of requests and of uses of a connection, a connection is with one
\* fiber or once in the pool, the pool's are connected, and m_total is off by
\* exactly the deletions that are not counted yet.
THEOREM PoolAlwaysExact == Spec => []PoolExact
<1>1. PoolInv /\ [Next]_vars => PoolInv'
  BY PoolStep
<1> QED BY <1>1, PoolInit, PoolInvExact, PTL DEF Spec

-----------------------------------------------------------------------------
(* The responses.                                                            *)

\* What recvResponse may come to in a response: it fails, cuts a header, is
\* through with the response and with it, or is further inside it.
Good(next, rest, form, r) ==
    \/ next.at = "failed" \/ next.cut
    \/ next.at = "done" /\ next.of = r /\ rest = <<>>
    \/ /\ next.at \notin {"done", "failed"}
       /\ \E k \in 0..Len(form) : Inside(next, rest, form, k, r)

\* Part of a response is a part of it.
LEMMA MatchesSub ==
    ASSUME NEW s \in Seq(Byte), NEW form \in Forms, NEW k \in Nat, NEW r, Matches(s, form, k, r),
           NEW m \in 0..Len(s)
    PROVE  /\ SubSeq(s, 1, m) \in Seq(Byte) /\ Len(SubSeq(s, 1, m)) = m
           /\ SubSeq(s, m + 1, Len(s)) \in Seq(Byte) /\ Len(SubSeq(s, m + 1, Len(s))) = Len(s) - m
           /\ Matches(SubSeq(s, 1, m), form, k, r)
           /\ Matches(SubSeq(s, m + 1, Len(s)), form, k + m, r)
<1>1. /\ SubSeq(s, 1, m) \in Seq(Byte) /\ Len(SubSeq(s, 1, m)) = m
      /\ \A i \in 1..m : SubSeq(s, 1, m)[i] = s[i]
  OBVIOUS
<1>2. /\ SubSeq(s, m + 1, Len(s)) \in Seq(Byte) /\ Len(SubSeq(s, m + 1, Len(s))) = Len(s) - m
      /\ \A i \in 1..(Len(s) - m) : SubSeq(s, m + 1, Len(s))[i] = s[m + i]
  OBVIOUS
<1>3. Len(form) \in Nat /\ Len(s) \in Nat
  BY HttpClientAssumption DEF WellFormed
<1>4. Matches(SubSeq(s, 1, m), form, k, r)
  BY <1>1, <1>3 DEF Matches
<1>5. Matches(SubSeq(s, m + 1, Len(s)), form, k + m, r)
  <2> DEFINE t == SubSeq(s, m + 1, Len(s))
  <2>1. (k + m) + Len(t) <= Len(form)
    <3>1. k + Len(s) <= Len(form) /\ Len(t) = Len(s) - m
      BY <1>2 DEF Matches
    <3>2. \A x, y, z \in Nat : k + x <= z /\ y = x - m => (k + m) + y <= z
      OBVIOUS
    <3>3. Len(t) \in Nat
      BY <1>2
    <3> HIDE DEF t
    <3> QED BY <1>3, <3>1, <3>2, <3>3
  <2>2. ASSUME NEW i \in 1..Len(t)
        PROVE  t[i].of = r /\ t[i].is = form[(k + m) + i].is /\ t[i].n = form[(k + m) + i].n
    <3>1. t[i] = s[m + i] /\ m + i \in 1..Len(s)
      BY <1>2, <1>3
    <3>2. (k + m) + i = k + (m + i)
      BY <1>2, <1>3
    <3> HIDE DEF t
    <3>3. s[m + i].of = r /\ s[m + i].is = form[k + (m + i)].is /\ s[m + i].n = form[k + (m + i)].n
      BY <3>1 DEF Matches
    <3> QED BY <3>1, <3>2, <3>3
  <2> QED BY <2>1, <2>2 DEF Matches
<1> QED BY <1>1, <1>2, <1>4, <1>5

\* Nothing is a part of every response.
LEMMA MatchesEmpty ==
    ASSUME NEW form \in Forms, NEW k \in 0..Len(form), NEW r
    PROVE  Matches(<<>>, form, k, r)
<1>1. Len(form) \in Nat
  BY HttpClientAssumption DEF WellFormed
<1> QED BY <1>1 DEF Matches

\* A response.
LEMMA FormFacts ==
    ASSUME NEW form \in Forms
    PROVE  /\ Len(form) \in Nat /\ Len(form) > 1 /\ form[1].is = "h1"
           /\ form[2].n = Chunked => Len(form) > 2 /\ form[3].is = "s1"
           /\ form[2].n # Chunked => form[2].n = Len(form) - 2
           /\ \A i \in 1..Len(form) : form[i].is = "s1" =>
                /\ i < Len(form) /\ form[i + 1].is = "s2" /\ form[i + 1].n \in Nat
                /\ form[i + 1].n = 0 => i + 2 = Len(form)
                /\ form[i + 1].n # 0 => /\ i + form[i + 1].n + 2 < Len(form)
                                        /\ form[i + form[i + 1].n + 3].is = "s1"
<1>1. form \in Seq(Part) /\ WellFormed(form)
  BY HttpClientAssumption DEF WellFormed
<1>2. Len(form) \in Nat /\ Len(form) > 1 /\ form[1].is = "h1" /\ DOMAIN form = 1..Len(form)
  BY <1>1 DEF WellFormed
<1>3. ASSUME NEW i \in 1..Len(form), form[i].is = "s1"
      PROVE  /\ i < Len(form) /\ form[i + 1].is = "s2" /\ form[i + 1].n \in Nat
             /\ form[i + 1].n = 0 => i + 2 = Len(form)
             /\ form[i + 1].n # 0 => /\ i + form[i + 1].n + 2 < Len(form)
                                     /\ form[i + form[i + 1].n + 3].is = "s1"
  <2>1. i < Len(form) /\ form[i + 1].is = "s2" /\ form[i + 1].n \in Nat
    <3>1. \A j \in DOMAIN form : form[j].is = "s1" =>
            j < Len(form) /\ form[j + 1].is = "s2" /\ form[j + 1].n \in Nat
      BY <1>1 DEF WellFormed
    <3> QED BY <1>2, <1>3, <3>1
  <2>2. i + 1 \in 1..Len(form)
    BY <1>2, <2>1
  <2> DEFINE e == (i + 1) + form[i + 1].n + 1
  <2>3. IF form[i + 1].n = 0 THEN e = Len(form) ELSE e < Len(form) /\ form[e + 1].is = "s1"
    BY <1>1, <1>2, <2>1, <2>2 DEF WellFormed
  <2>4. \A x \in Nat : (i + 1) + x + 1 = i + x + 2 /\ (i + 1) + x + 1 + 1 = i + x + 3
    OBVIOUS
  <2>5. e = i + form[i + 1].n + 2 /\ e + 1 = i + form[i + 1].n + 3
    BY <2>1, <2>4
  <2>6. (i + 1) + 0 + 1 = i + 2
    OBVIOUS
  <2> QED BY <2>1, <2>3, <2>5, <2>6
<1>4. /\ form[2].n = Chunked => Len(form) > 2 /\ form[3].is = "s1"
      /\ form[2].n # Chunked => form[2].n = Len(form) - 2
  BY <1>1 DEF WellFormed
<1> QED BY <1>2, <1>3, <1>4

\* The head of a response is read.
LEMMA HeadStep ==
    ASSUME NEW form \in Forms, NEW r \in Calls, NEW st \in Reader, st.at = "head", st.of = 0,
           st.buf = <<>>, NEW got \in Seq(Byte), NEW rest \in Seq(Byte), got # <<>>,
           Matches(got, form, 0, r), Matches(rest, form, Len(got), r),
           NEW next \in ParseHead(st, got)
    PROVE  Good(next, rest, form, r)
<1> DEFINE n == Len(got)
           body == SubSeq(got, 3, n)
<1>1. Len(form) \in Nat /\ Len(form) > 1 /\ form[1].is = "h1"
  BY FormFacts
<1>2. n \in Nat /\ n >= 1 /\ n <= Len(form) /\ n + Len(rest) <= Len(form) /\ Len(rest) \in Nat
  BY DEF Matches
<1>3. got[1].is = "h1" /\ got[1].of = r
  BY <1>1, <1>2 DEF Matches
<1>4. next = IF n = 1 THEN [st EXCEPT !.of = got[1].of, !.cut = TRUE]
             ELSE TakeHead(st, r, got[2].n, body)
  BY <1>3 DEF ParseHead
<1>5. CASE n = 1
  BY <1>4, <1>5 DEF Reader, Good
<1>6. CASE n # 1
  <2>1. n >= 2 /\ got[2].n = form[2].n
    <3> HIDE DEF n
    <3>1. 2 \in 1..n /\ n >= 2
      BY <1>2, <1>6
    <3>2. 2 \in 1..Len(got)
      BY <3>1 DEF n
    <3>3. got[2].n = form[0 + 2].n
      BY <3>2 DEF Matches
    <3>4. 0 + 2 = 2
      OBVIOUS
    <3> QED BY <3>1, <3>3, <3>4
  <2>2. body \in Seq(Byte) /\ Len(body) = n - 2 /\ Matches(body, form, 2, r)
    <3>1. 2 \in 0..n /\ 2 + 1 = 3 /\ 0 + 2 = 2 /\ 0 \in Nat
      BY <1>2, <2>1
    <3>2. \A m \in 0..n : /\ SubSeq(got, m + 1, n) \in Seq(Byte) /\ Len(SubSeq(got, m + 1, n)) = n - m
                          /\ Matches(SubSeq(got, m + 1, n), form, 0 + m, r)
      BY <3>1, MatchesSub
    <3> QED BY <3>1, <3>2
  <2> HIDE DEF body
  <2>3. next = TakeHead(st, r, form[2].n, body)
    BY <1>4, <1>6, <2>1
  <2>4. CASE form[2].n = Chunked
    <3>1. next = [st EXCEPT !.at = "chunk", !.of = r, !.buf = body]
      BY <2>3, <2>4 DEF TakeHead
    <3>2. next.at = "chunk" /\ next.of = r /\ next.buf = body
      BY <3>1 DEF Reader
    <3>3. At(next, form, 2, r)
      BY <2>4, <3>2, FormFacts DEF At
    <3>4. Matches(rest, form, 2 + Len(next.buf), r)
      <4>1. 2 + Len(next.buf) = n
        BY <1>2, <2>2, <3>2
      <4> QED BY <4>1
    <3>5. 2 \in 0..Len(form)
      BY <1>1
    <3>6. Inside(next, rest, form, 2, r)
      BY <2>2, <3>2, <3>3, <3>4 DEF Inside
    <3> QED BY <3>2, <3>5, <3>6 DEF Good
  <2>5. CASE form[2].n # Chunked /\ form[2].n <= Len(body)
    <3>1. next = Return(st, r)
      BY <2>3, <2>5 DEF TakeHead
    <3>2. next.at = "done" /\ next.of = r
      BY <3>1 DEF Return, Reader
    <3>3. form[2].n = Len(form) - 2
      BY <2>5, FormFacts
    <3>4. Len(rest) = 0
      BY <1>1, <1>2, <2>2, <2>5, <3>3
    <3>5. rest = <<>>
      BY <3>4
    <3> QED BY <3>2, <3>5 DEF Good
  <2>6. CASE form[2].n # Chunked /\ ~(form[2].n <= Len(body))
    <3>1. next = [st EXCEPT !.at = "body", !.of = r, !.left = form[2].n - Len(body)]
      BY <2>3, <2>6 DEF TakeHead
    <3>2. next.at = "body" /\ next.of = r /\ next.left = form[2].n - Len(body) /\ next.buf = <<>>
      BY <3>1 DEF Reader
    <3>3. form[2].n = Len(form) - 2
      BY <2>6, FormFacts
    <3>4. next.left > 0 /\ n + next.left = Len(form) /\ n \in 0..Len(form)
      BY <1>1, <1>2, <2>2, <2>6, <3>2, <3>3
    <3>5. At(next, form, n, r)
      BY <3>2, <3>4 DEF At
    <3>6. n + Len(next.buf) = n
      BY <1>2, <3>2
    <3>7. Inside(next, rest, form, n, r)
      BY <3>2, <3>4, <3>5, <3>6, MatchesEmpty DEF Inside
    <3> QED BY <3>2, <3>4, <3>7 DEF Good
  <2> QED BY <2>4, <2>5, <2>6
<1> QED BY <1>5, <1>6

\* The header of a chunk that is in the buffer.
LEMMA ChunkStep ==
    ASSUME NEW form \in Forms, NEW r \in Calls, NEW st \in Reader, NEW stream \in Seq(Byte),
           NEW k \in 0..Len(form), Inside(st, stream, form, k, r), st.at = "chunk",
           st.buf # <<>>, NEW next \in ParseChunk(st)
    PROVE  Good(next, stream, form, r)
<1> DEFINE n == Len(st.buf)
           size == form[k + 2].n
           rest == SubSeq(st.buf, 3, n)
           need == size + 1
<1>1. Len(form) \in Nat /\ k \in Nat
  BY FormFacts
<1>2. st.buf \in Seq(Byte) /\ n \in Nat /\ n >= 1 /\ Len(stream) \in Nat
  BY DEF Reader
<1>3. k < Len(form) /\ form[k + 1].is = "s1" /\ st.of = r /\ Matches(st.buf, form, k, r)
      /\ Matches(stream, form, k + n, r) /\ k + n + Len(stream) <= Len(form)
  BY DEF Inside, At, Matches
<1>4. st.buf[1].is = "s1"
  BY <1>1, <1>2, <1>3 DEF Matches
<1>5. CASE n = 1
  <2>1. next = [st EXCEPT !.buf = <<>>, !.cut = TRUE]
    BY <1>4, <1>5 DEF ParseChunk
  <2> QED BY <2>1 DEF Good, Reader
<1>6. CASE n > 1
  <2>1. st.buf[2].n = size
    BY <1>1, <1>2, <1>3, <1>6 DEF Matches
  <2>2. next = TakeChunk(st, size, rest)
    BY <1>4, <1>6, <2>1 DEF ParseChunk
  <2>3. /\ rest \in Seq(Byte) /\ Len(rest) = n - 2 /\ Matches(rest, form, k + 2, r)
    <3>1. 2 \in 0..n
      BY <1>2, <1>6
    <3>2. \A m \in 0..n : /\ SubSeq(st.buf, m + 1, n) \in Seq(Byte) /\ Len(SubSeq(st.buf, m + 1, n)) = n - m
                          /\ Matches(SubSeq(st.buf, m + 1, n), form, k + m, r)
      BY <1>1, <1>2, <1>3, MatchesSub
    <3>3. 2 + 1 = 3
      OBVIOUS
    <3> QED BY <3>1, <3>2, <3>3
  <2>4. /\ size \in Nat
        /\ size = 0 => k + 2 + need = Len(form)
        /\ size # 0 => k + 2 + need < Len(form) /\ form[k + 2 + need + 1].is = "s1"
    <3>1. k + 1 \in 1..Len(form) /\ (k + 1) + 1 = k + 2
      BY <1>1, <1>3
    <3>2. /\ size \in Nat
          /\ size = 0 => (k + 1) + 2 = Len(form)
          /\ size # 0 => (k + 1) + size + 2 < Len(form) /\ form[(k + 1) + size + 3].is = "s1"
      BY <1>3, <3>1, FormFacts
    <3> HIDE DEF size
    <3>3. \A x \in Nat : /\ (k + 1) + x + 2 = k + 2 + (x + 1)
                        /\ (k + 1) + x + 3 = k + 2 + (x + 1) + 1
                        /\ x = 0 => (k + 1) + 2 = k + 2 + (x + 1)
      BY <1>1
    <3>4. /\ (k + 1) + size + 2 = k + 2 + need
          /\ (k + 1) + size + 3 = k + 2 + need + 1
          /\ size = 0 => (k + 1) + 2 = k + 2 + need
      BY <3>2, <3>3
    <3> HIDE DEF need
    <3> QED BY <3>2, <3>4
  <2> HIDE DEF size, rest
  <2>5. CASE need <= Len(rest) /\ size = 0
    <3>1. next = Return(st, r)
      BY <1>3, <2>2, <2>5 DEF TakeChunk
    <3>2. next.at = "done" /\ next.of = r
      BY <3>1 DEF Return, Reader
    <3>3. Len(stream) = 0
      BY <1>1, <1>2, <1>3, <2>3, <2>4, <2>5
    <3>4. stream = <<>>
      BY <3>3
    <3> QED BY <3>2, <3>4 DEF Good
  <2>6. CASE need <= Len(rest) /\ size > 0
    <3> DEFINE buf == SubSeq(rest, need + 1, Len(rest))
               to == k + 2 + need
    <3>1. next = [st EXCEPT !.buf = buf]
      BY <2>2, <2>6 DEF TakeChunk
    <3>2. next.at = "chunk" /\ next.of = r /\ next.buf = buf
      BY <1>3, <3>1 DEF Reader
    <3>3. need \in 0..Len(rest) /\ k + 2 \in Nat
      BY <1>1, <2>3, <2>4, <2>6
    <3>4. buf \in Seq(Byte) /\ Len(buf) = Len(rest) - need /\ Matches(buf, form, to, r)
      BY <2>3, <3>3, MatchesSub
    <3>5. to < Len(form) /\ form[to + 1].is = "s1" /\ to \in 0..Len(form)
      BY <1>1, <2>4, <2>6
    <3>6. to + Len(buf) = k + n
      <4> HIDE DEF n, buf
      <4> QED BY <1>1, <1>2, <2>3, <2>4, <3>4
    <3> HIDE DEF buf, to
    <3>7. Inside(next, stream, form, to, r)
      BY <1>3, <3>2, <3>4, <3>5, <3>6 DEF Inside, At
    <3> QED BY <3>2, <3>5, <3>7 DEF Good
  <2>7. CASE ~(need <= Len(rest))
    <3> DEFINE left == need - Len(rest)
    <3>1. next = [st EXCEPT !.buf = <<>>, !.left = left, !.at = IF size = 0 THEN "last" ELSE "data"]
      BY <2>2, <2>7 DEF TakeChunk
    <3>2. next.at = (IF size = 0 THEN "last" ELSE "data") /\ next.of = r /\ next.buf = <<>> /\ next.left = left
      BY <1>3, <3>1 DEF Reader
    <3>3. left > 0 /\ (k + n) + left = k + 2 + need /\ k + n \in 0..Len(form)
      <4> HIDE DEF n
      <4> QED BY <1>1, <1>2, <1>3, <2>3, <2>4, <2>7
    <3> HIDE DEF left
    <3>4. At(next, form, k + n, r)
      BY <2>4, <3>2, <3>3 DEF At
    <3>5. (k + n) + Len(next.buf) = k + n
      BY <1>1, <1>2, <3>2
    <3>6. Inside(next, stream, form, k + n, r)
      BY <1>3, <3>2, <3>3, <3>4, <3>5, MatchesEmpty DEF Inside
    <3> QED BY <3>2, <3>3, <3>6 DEF Good
  <2>8. size = 0 \/ size > 0
    BY <2>4
  <2> QED BY <2>5, <2>6, <2>7, <2>8
<1>7. n = 1 \/ n > 1
  <2> HIDE DEF n
  <2> QED BY <1>2
<1> QED BY <1>5, <1>6, <1>7

\* More of a body or of a chunk.
LEMMA DataStep ==
    ASSUME NEW form \in Forms, NEW r \in Calls, NEW st \in Reader, NEW k \in 0..Len(form),
           At(st, form, k, r), st.at \in {"body", "data", "last"},
           NEW got \in Seq(Byte), NEW rest \in Seq(Byte), Len(got) <= st.left,
           Matches(got, form, k, r), Matches(rest, form, k + Len(got), r),
           NEW next \in Take(st, got)
    PROVE  Good(next, rest, form, r)
<1> DEFINE n == Len(got)
<1>1. Len(form) \in Nat /\ k \in Nat /\ n \in Nat /\ Len(rest) \in Nat /\ st.left \in Int
  BY FormFacts DEF Reader
<1>2. /\ st.of = r /\ st.buf = <<>> /\ st.left > 0 /\ k + n + Len(rest) <= Len(form)
      /\ st.at \in {"body", "last"} => k + st.left = Len(form)
      /\ st.at = "data" => k + st.left < Len(form) /\ form[k + st.left + 1].is = "s1"
  BY DEF At, Matches
<1>3. next = IF st.at = "body" THEN ReadBody(st, n) ELSE ReadData(st, n)
  BY DEF Take
<1>4. CASE n = st.left /\ st.at \in {"body", "last"}
  <2>1. next = Return(st, r)
    BY <1>1, <1>2, <1>3, <1>4 DEF ReadBody, ReadData
  <2>2. next.at = "done" /\ next.of = r
    BY <2>1 DEF Return, Reader
  <2>3. Len(rest) = 0
    BY <1>1, <1>2, <1>4
  <2>4. rest = <<>>
    BY <2>3
  <2> QED BY <2>2, <2>4 DEF Good
<1>5. CASE n = st.left /\ st.at = "data"
  <2>1. next = [st EXCEPT !.left = 0, !.at = "chunk"]
    BY <1>1, <1>3, <1>5 DEF ReadData
  <2>2. next.at = "chunk" /\ next.of = r /\ next.buf = <<>>
    BY <1>2, <2>1 DEF Reader
  <2>3. k + n \in 0..Len(form) /\ (k + n) + Len(next.buf) = k + n
    BY <1>1, <1>2, <2>2
  <2>4. At(next, form, k + n, r)
    BY <1>2, <1>5, <2>2 DEF At
  <2>5. Inside(next, rest, form, k + n, r)
    BY <2>2, <2>3, <2>4, MatchesEmpty DEF Inside
  <2> QED BY <2>2, <2>3, <2>5 DEF Good
<1>6. CASE n # st.left
  <2>1. next = [st EXCEPT !.left = st.left - n] /\ n < st.left
    BY <1>1, <1>3, <1>6 DEF ReadBody, ReadData
  <2>2. next.at = st.at /\ next.of = r /\ next.buf = <<>> /\ next.left = st.left - n
    BY <1>2, <2>1 DEF Reader
  <2>3. /\ k + n \in 0..Len(form) /\ (k + n) + Len(next.buf) = k + n /\ next.left > 0
        /\ (k + n) + next.left = k + st.left
    <3>1. Len(next.buf) = 0
      BY <2>2
    <3>2. \A x, y, z \in Nat : \A u \in Int :
            x + y + z <= Len(form) /\ y < u =>
              /\ x + y \in 0..Len(form) /\ (x + y) + 0 = x + y /\ u - y > 0
              /\ (x + y) + (u - y) = x + u
      BY <1>1
    <3>3. k + n + Len(rest) <= Len(form) /\ n < st.left
      BY <1>2, <2>1
    <3> HIDE DEF n
    <3>4. /\ k + n \in 0..Len(form) /\ (k + n) + 0 = k + n /\ st.left - n > 0
          /\ (k + n) + (st.left - n) = k + st.left
      BY <1>1, <3>2, <3>3
    <3> QED BY <2>2, <3>1, <3>4
  <2>4. At(next, form, k + n, r)
    BY <1>2, <2>2, <2>3 DEF At
  <2>5. Inside(next, rest, form, k + n, r)
    BY <2>2, <2>3, <2>4, MatchesEmpty DEF Inside
  <2> QED BY <2>2, <2>3, <2>5 DEF Good
<1> QED BY <1>4, <1>5, <1>6

\* A read, and what is done with it.
LEMMA ReadStep ==
    ASSUME NEW form \in Forms, NEW r \in Calls, NEW st \in Reader, st.at \notin {"done", "failed"},
           NEW stream \in Seq(Byte), NEW k \in 0..Len(form), Inside(st, stream, form, k, r),
           ~(st.at = "chunk" /\ st.buf # <<>>), NEW n \in 1..Len(stream), n <= Wanted(st),
           NEW next \in Take(st, SubSeq(stream, 1, n))
    PROVE  Good(next, SubSeq(stream, n + 1, Len(stream)), form, r)
<1> DEFINE got == SubSeq(stream, 1, n)
           rest == SubSeq(stream, n + 1, Len(stream))
<1>1. Len(form) \in Nat /\ k \in Nat /\ st.left \in Int /\ BuffSize \in Nat
  BY FormFacts, HttpClientAssumption DEF Reader
<1>2. st.buf = <<>> /\ At(st, form, k, r) /\ k + Len(st.buf) = k /\ Matches(stream, form, k, r)
  <2>1. st.buf = <<>> /\ At(st, form, k, r)
    BY DEF Inside, At, Reader
  <2>2. k + Len(st.buf) = k
    BY <1>1, <2>1
  <2> QED BY <2>1, <2>2 DEF Inside
<1>3. /\ got \in Seq(Byte) /\ Len(got) = n /\ rest \in Seq(Byte)
      /\ Matches(got, form, k, r) /\ Matches(rest, form, k + n, r)
  BY <1>1, <1>2, MatchesSub
<1> HIDE DEF got, rest
<1>4. got # <<>>
  BY <1>3
<1>5. CASE st.at = "head"
  <2>1. k = 0 /\ st.of = 0 /\ k + n = n
    BY <1>2, <1>5 DEF At
  <2>2. next \in ParseHead(st, got)
    BY <1>5 DEF Take, got
  <2> QED BY <1>2, <1>3, <1>4, <1>5, <2>1, <2>2, HeadStep DEF rest
<1>6. CASE st.at = "chunk"
  <2>1. next = [st EXCEPT !.buf = got]
    BY <1>6 DEF Take, got
  <2>2. next.at = "chunk" /\ next.of = st.of /\ next.buf = got
    BY <1>6, <2>1 DEF Reader
  <2>3. At(next, form, k, r)
    BY <1>2, <1>6, <2>2 DEF At
  <2>4. Inside(next, rest, form, k, r)
    BY <1>3, <2>2, <2>3 DEF Inside
  <2> QED BY <2>2, <2>4 DEF Good, rest
<1>7. CASE st.at \in {"body", "data", "last"}
  <2>1. n <= st.left
    BY <1>1, <1>7 DEF Wanted
  <2> QED BY <1>2, <1>3, <1>7, <2>1, DataStep DEF got, rest
<1> QED BY <1>5, <1>6, <1>7 DEF Reader

\* A step of one fiber, which concerns no connection but c.
LEMMA OwnStep ==
    ASSUME PoolInv, Responses, NEW f \in Fibers, NEW c,
           \A g \in Fibers : g # f => /\ pc'[g] = pc[g] /\ fiber'[g] = fiber[g] /\ recv'[g] = recv[g]
                                      /\ fiber[g].conn # 0 => fiber[g].conn # c,
           \A d \in Calls : d # c => net'[d] = net[d],
           Fits(pc'[f], fiber'[f], recv'[f], net'[fiber'[f].conn]),
           \A i \in DOMAIN m_conns' :
               \/ \E j \in DOMAIN m_conns : m_conns'[i] = m_conns[j] /\ m_conns[j] # c
               \/ m_conns'[i] = c /\ Clean(net'[c]),
           \A j \in DOMAIN m_conns : m_conns[j] # c => \E i \in DOMAIN m_conns' : m_conns'[i] = m_conns[j],
           fiber[f].conn \in {0, c},
           \/ c \notin Calls \/ fiber'[f].conn = c \/ net'[c] = None
           \/ \E i \in DOMAIN m_conns' : m_conns'[i] = c
    PROVE  Responses'
<1>1. ASSUME NEW g \in Fibers PROVE Fits(pc'[g], fiber'[g], recv'[g], net'[fiber'[g].conn])
  <2>1. CASE g = f
    BY <2>1
  <2>2. CASE g # f
    <3>1. fiber[g] \in Request /\ (pc[g] \in {"receive", "release"} => fiber[g].conn # 0)
      BY DEF PoolInv, ClientTypeOK, Shape
    <3>2. fiber[g].conn # 0 => fiber[g].conn \in Calls
      BY <3>1, HttpClientAssumption DEF Request, Calls
    <3>3. fiber[g].conn # 0 => net'[fiber[g].conn] = net[fiber[g].conn]
      BY <2>2, <3>2
    <3>4. Fits(pc[g], fiber[g], recv[g], net[fiber[g].conn])
      BY DEF Responses
    <3>5. CASE fiber[g].conn # 0
      BY <2>2, <3>3, <3>4, <3>5
    <3>6. CASE fiber[g].conn = 0
      <4>1. Fits(pc[g], fiber[g], recv[g], net'[fiber[g].conn])
        BY <3>1, <3>4, <3>6 DEF Fits
      <4> QED BY <2>2, <4>1
    <3> QED BY <3>5, <3>6
  <2> QED BY <2>1, <2>2
<1>2. ASSUME NEW i \in DOMAIN m_conns' PROVE Clean(net'[m_conns'[i]])
  <2>1. CASE m_conns'[i] = c /\ Clean(net'[c])
    BY <2>1
  <2>2. CASE \E j \in DOMAIN m_conns : m_conns'[i] = m_conns[j] /\ m_conns[j] # c
    <3>1. PICK j \in DOMAIN m_conns : m_conns'[i] = m_conns[j] /\ m_conns[j] # c
      BY <2>2
    <3>2. m_conns[j] \in Calls
      BY DEF PoolInv, ClientTypeOK
    <3>3. Clean(net[m_conns[j]])
      BY DEF Responses
    <3> QED BY <3>1, <3>2, <3>3
  <2> QED BY <2>1, <2>2
<1>3. ASSUME NEW d \in Calls, \A g \in Fibers : fiber'[g].conn # d,
             \A i \in DOMAIN m_conns' : m_conns'[i] # d
      PROVE  net'[d] = None
  <2>1. CASE d = c
    BY <1>3, <2>1
  <2>2. CASE d # c
    <3>1. d # 0
      BY HttpClientAssumption DEF Calls
    <3>2. \A g \in Fibers : fiber[g].conn # d
      BY <1>3, <2>2, <3>1
    <3>3. \A i \in DOMAIN m_conns : m_conns[i] # d
      BY <1>3, <2>2
    <3>4. net[d] = None
      BY <3>2, <3>3 DEF Responses, Absent
    <3> QED BY <2>2, <3>4
  <2> QED BY <2>1, <2>2
<1>4. Absent'
  BY <1>3 DEF Absent
<1> QED BY <1>1, <1>2, <1>4 DEF Responses

\* A step that changes no connection.
LEMMA StillStep ==
    ASSUME PoolInv, Responses, NEW f \in Fibers, UNCHANGED <<m_conns, net, recv>>,
           \A g \in Fibers : g # f => pc'[g] = pc[g] /\ fiber'[g] = fiber[g],
           fiber'[f].conn = fiber[f].conn,
           Fits(pc'[f], fiber'[f], recv'[f], net'[fiber'[f].conn])
    PROVE  Responses'
<1> DEFINE c == fiber[f].conn
<1>1. \A g \in Fibers : g # f /\ fiber[g].conn # 0 => fiber[g].conn # c
  BY DEF PoolInv, Apart
<1>2. \A j \in DOMAIN m_conns : m_conns[j] # c
  BY DEF PoolInv, Apart
<1> QED BY <1>1, <1>2, OwnStep

\* A request begins or has no connection, or its end is counted.
LEMMA ResponsesBeginEnd ==
    ASSUME PoolInv, Responses, NEW f \in Fibers,
           (\E alone \in BOOLEAN : Begin(f, alone)) \/ ConnectFails(f) \/ Uncount(f)
    PROVE  Responses'
<1>1. fiber[f] \in Request /\ fiber[f].conn = 0 /\ pc[f] \notin {"receive", "release"}
      /\ fiber[f].result = PENDING /\ recv[f] = Start
  BY DEF PoolInv, ClientTypeOK, Shape, Responses, Fits, Begin, ConnectFails, Uncount, Idle
<1>2. /\ UNCHANGED <<m_conns, net, recv>>
      /\ \A g \in Fibers : g # f => pc'[g] = pc[g] /\ fiber'[g] = fiber[g]
      /\ pc'[f] \in {"connect", "lock", "idle"}
  BY DEF Begin, ConnectFails, Uncount, End, Goto, PoolInv, ClientTypeOK
<1>3. fiber'[f].conn = 0 /\ fiber'[f].result = PENDING
  <2>1. CASE \E alone \in BOOLEAN : Begin(f, alone)
    <3>1. PICK alone \in BOOLEAN : fiber' = [fiber EXCEPT ![f].req = calls + 1, ![f].direct = alone]
      BY <2>1 DEF Begin
    <3>2. fiber'[f] = [fiber[f] EXCEPT !.req = calls + 1, !.direct = alone]
      BY <3>1 DEF PoolInv, ClientTypeOK
    <3> QED BY <1>1, <3>2 DEF Request
  <2>2. CASE ConnectFails(f)
    BY <2>2 DEF ConnectFails, End, Idle, PoolInv, ClientTypeOK
  <2>3. CASE Uncount(f)
    BY <1>1, <2>3 DEF Uncount
  <2> QED BY <2>1, <2>2, <2>3
<1>4. Fits(pc'[f], fiber'[f], recv'[f], net'[fiber'[f].conn])
  BY <1>1, <1>2, <1>3 DEF Fits
<1> QED BY <1>1, <1>2, <1>3, <1>4, StillStep

\* getConnection takes the pool's first connection, on which nothing is to come.
LEMMA ResponsesPop ==
    ASSUME PoolInv, Responses, NEW f \in Fibers, Pop(f)
    PROVE  Responses'
<1>1. fiber[f] \in Request /\ fiber[f].conn = 0 /\ pc[f] = "lock" /\ m_conns \in Seq(Calls)
      /\ fiber[f].result = PENDING /\ recv[f] = Start
  BY DEF PoolInv, ClientTypeOK, Shape, Responses, Fits, Pop
<1>2. /\ UNCHANGED <<net, recv>> /\ pc'[f] = "sweep"
      /\ \A g \in Fibers : g # f => pc'[g] = pc[g]
  <2>1. recv' = recv
    BY DEF Pop
  <2> QED BY <2>1, PopFirst DEF PoolInv, ClientTypeOK
<1>3. CASE m_conns = <<>>
  <2>1. UNCHANGED <<fiber, m_conns>>
    BY <1>3, PopFirst
  <2>2. Fits(pc'[f], fiber'[f], recv'[f], net'[fiber'[f].conn])
    BY <1>1, <1>2, <2>1 DEF Fits
  <2> QED BY <1>2, <2>1, <2>2, StillStep
<1>4. CASE m_conns # <<>>
  <2>c. PICK c : c = m_conns[1]
    OBVIOUS
  <2>1. fiber' = [fiber EXCEPT ![f].conn = c] /\ m_conns' = Tail(m_conns)
    BY <1>4, <2>c, PopFirst
  <2>2. fiber'[f] = [fiber[f] EXCEPT !.conn = c] /\ \A g \in Fibers : g # f => fiber'[g] = fiber[g]
    BY <2>1 DEF PoolInv, ClientTypeOK
  <2>3. fiber'[f].conn = c /\ fiber'[f].result = PENDING
    BY <1>1, <2>2 DEF Request
  <2>4. 1 \in DOMAIN m_conns /\ Clean(net[c])
    BY <1>1, <1>4, <2>c DEF Responses
  <2>5. Fits(pc'[f], fiber'[f], recv'[f], net'[fiber'[f].conn])
    BY <1>1, <1>2, <2>3, <2>4 DEF Fits
  <2>6. \A g \in Fibers : fiber[g].conn # c
    BY <2>4, <2>c DEF PoolInv, Apart
  <2>7. \A i \in DOMAIN m_conns' : i + 1 \in DOMAIN m_conns /\ m_conns'[i] = m_conns[i + 1] /\ i + 1 # 1
    BY <1>1, <1>4, <2>1
  <2>8. \A i \in DOMAIN m_conns' : \E j \in DOMAIN m_conns : m_conns'[i] = m_conns[j] /\ m_conns[j] # c
    BY <2>4, <2>7, <2>c DEF PoolInv, Apart
  <2>9. ASSUME NEW j \in DOMAIN m_conns, m_conns[j] # c
        PROVE  \E i \in DOMAIN m_conns' : m_conns'[i] = m_conns[j]
    <3>1. j \in 1..Len(m_conns) /\ j # 1
      BY <1>1, <2>9, <2>c
    <3>2. j - 1 \in DOMAIN m_conns' /\ m_conns'[j - 1] = m_conns[j]
      BY <1>1, <1>4, <2>1, <3>1
    <3> QED BY <3>2
  <2>10. \A d \in Calls : net'[d] = net[d]
    BY <1>2
  <2>11. \A g \in Fibers : g # f => recv'[g] = recv[g]
    BY <1>2
  <2>12. fiber[f].conn \in {0, c}
    BY <1>1
  <2>13. \A g \in Fibers : g # f => pc'[g] = pc[g] /\ fiber'[g] = fiber[g]
    BY <1>2, <2>2
  <2> QED BY <2>3, <2>5, <2>6, <2>8, <2>9, <2>10, <2>11, <2>12, <2>13, OwnStep
<1> QED BY <1>3, <1>4

\* There is nothing to delete.
LEMMA ResponsesSweep ==
    ASSUME PoolInv, ClientTypeOK', Responses, NEW f \in Fibers, Sweep(f)
    PROVE  Responses'
<1>1. net' = net /\ fiber' = fiber /\ m_conns' = m_conns
  BY PoolSweep
<1>2. pc[f] = "sweep" /\ pc'[f] \in {"connect", "send"} /\ recv' = recv
      /\ \A g \in Fibers : g # f => pc'[g] = pc[g]
  BY DEF Sweep, Goto, PoolInv, ClientTypeOK
<1>3. Fits(pc[f], fiber[f], recv[f], net[fiber[f].conn])
  BY DEF Responses
<1>4. Fits(pc'[f], fiber'[f], recv'[f], net'[fiber'[f].conn])
  BY <1>1, <1>2, <1>3 DEF Fits
<1> QED BY <1>1, <1>2, <1>4, StillStep

\* A new connection has nothing on it.
LEMMA ResponsesConnect ==
    ASSUME PoolInv, Responses, NEW f \in Fibers, Connect(f)
    PROVE  Responses'
<1> DEFINE c == fiber[f].req
<1>1. fiber[f] \in Request /\ fiber[f].conn = 0 /\ pc[f] = "connect" /\ c \in 1..calls
      /\ fiber[f].result = PENDING /\ recv[f] = Start
  BY DEF PoolInv, ClientTypeOK, Shape, Responses, Fits, Connect
<1>2. c \in Calls
  BY <1>1, HttpClientAssumption DEF PoolInv, ClientTypeOK, Calls
<1>3. (\A g \in Fibers : fiber[g].conn # c) /\ (\A i \in DOMAIN m_conns : m_conns[i] # c)
  BY <1>1 DEF PoolInv, Apart
<1>4. net[c] = None
  BY <1>2, <1>3 DEF Responses, Absent
<1>5. net'[c] = [net[c] EXCEPT !.m_isConnected = TRUE] /\ \A d \in Calls : d # c => net'[d] = net[d]
  BY <1>2 DEF Connect, PoolInv, ClientTypeOK
<1>6. Clean(net'[c])
  BY <1>4, <1>5 DEF None, Clean
<1>7. fiber'[f] = [fiber[f] EXCEPT !.conn = c]
  BY DEF Connect, PoolInv, ClientTypeOK
<1>8. fiber'[f].conn = c /\ fiber'[f].result = PENDING
  BY <1>1, <1>7 DEF Request
<1>9. /\ pc'[f] = "send" /\ UNCHANGED <<m_conns, recv>>
      /\ \A g \in Fibers : g # f => pc'[g] = pc[g] /\ fiber'[g] = fiber[g]
  BY DEF Connect, Goto, PoolInv, ClientTypeOK
<1>10. Fits(pc'[f], fiber'[f], recv'[f], net'[fiber'[f].conn])
  BY <1>1, <1>6, <1>8, <1>9 DEF Fits
<1> HIDE DEF c
<1> QED BY <1>1, <1>3, <1>5, <1>8, <1>9, <1>10, OwnStep

\* A request is sent on a connection on which nothing is to come.
LEMMA ResponsesSend ==
    ASSUME PoolInv, Responses, NEW f \in Fibers, sendRequest(f)
    PROVE  Responses'
<1>c. PICK c : c = fiber[f].conn
  OBVIOUS
<1>1. c \in Calls /\ fiber[f] \in Request /\ pc[f] = "send" /\ c # 0 /\ net[c] \in Conn
  BY <1>c, ConnInUse DEF PoolInv, ClientTypeOK, Shape, sendRequest
<1>2. Clean(net[c]) /\ recv[f] = Start /\ fiber[f].result = PENDING
  BY <1>c, <1>1 DEF Responses, Fits
<1>3. UNCHANGED <<m_conns, recv>>
  BY DEF sendRequest
<1>4. CASE net[c].peer = "reset"
  <2>1. /\ fiber' = [fiber EXCEPT ![f].result = SEND_SOCKET_ERROR] /\ net' = net
        /\ pc' = [pc EXCEPT ![f] = "release"]
    BY <1>c, <1>4 DEF sendRequest, Goto
  <2>2. fiber'[f] = [fiber[f] EXCEPT !.result = SEND_SOCKET_ERROR] /\ pc'[f] = "release"
        /\ \A g \in Fibers : g # f => pc'[g] = pc[g] /\ fiber'[g] = fiber[g]
    BY <2>1 DEF PoolInv, ClientTypeOK
  <2>3. fiber'[f].result = SEND_SOCKET_ERROR /\ fiber'[f].conn = c
    BY <1>c, <1>1, <2>2 DEF Request
  <2>4. ~(SEND_SOCKET_ERROR >= 0)
    BY DEF SEND_SOCKET_ERROR
  <2>5. Fits(pc'[f], fiber'[f], recv'[f], net'[fiber'[f].conn])
    BY <1>2, <1>3, <2>1, <2>2, <2>3, <2>4 DEF Fits
  <2> QED BY <1>c, <1>3, <2>1, <2>2, <2>3, <2>5, StillStep
<1>5. CASE net[c].peer # "reset"
  <2>1. /\ fiber' = fiber /\ pc'[f] = "receive" /\ \A g \in Fibers : g # f => pc'[g] = pc[g]
        /\ net' = IF net[c].peer = "open" THEN [net EXCEPT ![c].asked = Append(@, fiber[f].req)] ELSE net
    BY <1>c, <1>5 DEF sendRequest, Goto, PoolInv, ClientTypeOK
  <2>2. \A d \in Calls : d # c => net'[d] = net[d]
    BY <2>1 DEF PoolInv, ClientTypeOK
  <2>3. net'[c] = net[c] \/ net'[c] = [net[c] EXCEPT !.asked = Append(@, fiber[f].req)]
    BY <1>1, <2>1 DEF PoolInv, ClientTypeOK
  <2>4. /\ net'[c].cut = net[c].cut /\ net'[c].stream = net[c].stream
        /\ net'[c].asked = net[c].asked \/ net'[c].asked = Append(net[c].asked, fiber[f].req)
    BY <1>1, <2>3 DEF Conn
  <2>5. Append(<<>>, fiber[f].req) = <<fiber[f].req>>
    OBVIOUS
  <2>6. Reading(net'[c], Start, fiber[f].req)
    BY <1>2, <2>4, <2>5 DEF Clean, Reading, Expected
  <2>7. Fits(pc'[f], fiber'[f], recv'[f], net'[fiber'[f].conn])
    BY <1>c, <1>2, <1>3, <2>1, <2>6 DEF Fits
  <2>8. \A g \in Fibers : g # f /\ fiber[g].conn # 0 => fiber[g].conn # c
    BY <1>c DEF PoolInv, Apart
  <2>9. \A j \in DOMAIN m_conns : m_conns[j] # c
    BY <1>c DEF PoolInv, Apart
  <2>10. fiber[f].conn \in {0, c} /\ fiber'[f].conn = c
    BY <1>c, <2>1
  <2>11. \A g \in Fibers : g # f => pc'[g] = pc[g] /\ fiber'[g] = fiber[g] /\ recv'[g] = recv[g]
    BY <1>3, <2>1
  <2>12. \A j \in DOMAIN m_conns : \E i \in DOMAIN m_conns' : m_conns'[i] = m_conns[j]
    BY <1>3
  <2>13. \A i \in DOMAIN m_conns' : \E j \in DOMAIN m_conns : m_conns'[i] = m_conns[j] /\ m_conns[j] # c
    BY <1>3, <2>9
  <2> QED BY <2>2, <2>7, <2>8, <2>10, <2>11, <2>12, <2>13, OwnStep
<1> QED BY <1>4, <1>5

\* recvResponse comes to st, which is right for the response.
LEMMA ReachesFits ==
    ASSUME PoolInv, Responses, NEW f \in Fibers, pc[f] = "receive", NEW st \in Reader,
           NEW rest \in Seq(Byte), Reaches(f, st, rest),
           \/ net[fiber[f].conn].cut
           \/ st.at = "failed"
           \/ /\ net[fiber[f].conn].asked = <<>>
              /\ \E form \in Forms : Good(st, rest, form, fiber[f].req)
    PROVE  Responses'
<1>c. PICK c : c = fiber[f].conn
  OBVIOUS
<1>1. c \in Calls /\ c # 0 /\ fiber[f] \in Request /\ net[c] \in Conn /\ fiber[f].result = PENDING
  BY <1>c, ConnInUse DEF PoolInv, ClientTypeOK, Shape, Responses, Fits
<1>2. /\ \A d \in Calls : d # c => net'[d] = net[d]
      /\ net'[c] = IF st.at = "failed" THEN None ELSE [net[c] EXCEPT !.stream = rest, !.cut = @ \/ st.cut]
      /\ m_conns' = m_conns
  BY <1>c, <1>1 DEF Reaches, PoolInv, ClientTypeOK
<1>3. st.at # "failed" => /\ net'[c].stream = rest /\ net'[c].asked = net[c].asked
                          /\ net'[c].cut = (net[c].cut \/ st.cut)
  BY <1>1, <1>2 DEF Conn
<1>4. Clean(None)
  BY DEF None, Clean
<1>5. \A g \in Fibers : g # f => pc'[g] = pc[g] /\ fiber'[g] = fiber[g] /\ recv'[g] = recv[g]
  BY DEF Reaches, Goto, PoolInv, ClientTypeOK
<1>6. fiber'[f].conn = c /\ fiber'[f].req = fiber[f].req
  <2>1. fiber' = fiber \/ \E x : fiber' = [fiber EXCEPT ![f].result = x]
    BY DEF Reaches
  <2>2. fiber'[f] = fiber[f] \/ \E x : fiber'[f] = [fiber[f] EXCEPT !.result = x]
    BY <2>1 DEF PoolInv, ClientTypeOK
  <2> QED BY <1>c, <1>1, <2>2 DEF Request
<1>7. ASSUME st.at \in {"done", "failed"}
      PROVE  Fits(pc'[f], fiber'[f], recv'[f], net'[fiber'[f].conn])
  <2>1. /\ fiber' = [fiber EXCEPT ![f].result = IF st.at = "done" THEN st.of ELSE TIMEOUT]
        /\ pc'[f] = "release" /\ recv'[f] = Start
    BY <1>7 DEF Reaches, Goto, PoolInv, ClientTypeOK
  <2>2. fiber'[f] = [fiber[f] EXCEPT !.result = IF st.at = "done" THEN st.of ELSE TIMEOUT]
    BY <2>1 DEF PoolInv, ClientTypeOK
  <2>3. fiber'[f].result = IF st.at = "done" THEN st.of ELSE TIMEOUT
    BY <1>1, <2>2 DEF Request
  <2>4. ~(TIMEOUT >= 0)
    BY DEF TIMEOUT
  <2>5. CASE st.at = "failed"
    BY <1>2, <1>4, <1>6, <2>1, <2>3, <2>4, <2>5 DEF Fits
  <2>6. CASE st.at = "done"
    <3>1. net'[c].cut \/ (net'[c].asked = <<>> /\ net'[c].stream = <<>> /\ st.of = fiber[f].req)
      BY <1>c, <1>3, <2>6 DEF Good
    <3> QED BY <1>6, <2>1, <2>3, <2>6, <3>1 DEF Fits, Clean
  <2> QED BY <1>7, <2>5, <2>6
<1>8. ASSUME st.at \notin {"done", "failed"}
      PROVE  Fits(pc'[f], fiber'[f], recv'[f], net'[fiber'[f].conn])
  <2>1. fiber' = fiber /\ pc' = pc /\ recv'[f] = st
    BY <1>8 DEF Reaches, PoolInv, ClientTypeOK
  <2>2. Reading(net'[c], st, fiber[f].req)
    <3>1. CASE net'[c].cut
      BY <3>1 DEF Reading
    <3>2. CASE ~net'[c].cut
      BY <1>c, <1>3, <1>8, <3>2 DEF Good, Reading, Amid
    <3> QED BY <3>1, <3>2
  <2> QED BY <1>c, <1>1, <2>1, <2>2 DEF Fits
<1>9. Fits(pc'[f], fiber'[f], recv'[f], net'[fiber'[f].conn])
  BY <1>7, <1>8
<1>10. \A g \in Fibers : g # f /\ fiber[g].conn # 0 => fiber[g].conn # c
  BY <1>c DEF PoolInv, Apart
<1>11. \A j \in DOMAIN m_conns : m_conns[j] # c
  BY <1>c DEF PoolInv, Apart
<1> QED BY <1>c, <1>2, <1>5, <1>6, <1>9, <1>10, <1>11, OwnStep

\* recvResponse.
LEMMA ResponsesReceive ==
    ASSUME PoolInv, Responses, NEW f \in Fibers, recvResponse(f)
    PROVE  Responses'
<1> DEFINE st == recv[f]
           n == net[fiber[f].conn]
           r == fiber[f].req
           parses == st.at = "chunk" /\ st.buf # <<>>
<1>1. pc[f] = "receive" /\ fiber[f].conn \in Calls /\ r \in Calls
  BY ConnInUse DEF recvResponse
<1>2. st \in Reader /\ st.at \notin {"done", "failed"} /\ n \in Conn /\ n.stream \in Seq(Byte)
  BY <1>1 DEF PoolInv, ClientTypeOK, Conn
<1>3. Reading(n, st, r)
  BY <1>1 DEF Responses, Fits
<1>4. ASSUME parses, NEW next \in ParseChunk(st), Reaches(f, next, n.stream)
      PROVE  Responses'
  <2>1. next \in Reader
    BY <1>2, <1>4, ParseChunkType
  <2>2. n.cut \/ Amid(n, st, r)
    BY <1>3, <1>4 DEF Reading, Expected, Start
  <2>3. Amid(n, st, r) => n.asked = <<>> /\ \E form \in Forms : Good(next, n.stream, form, r)
    BY <1>1, <1>2, <1>4, ChunkStep DEF Amid
  <2> QED BY <1>1, <1>2, <1>4, <2>1, <2>2, <2>3, ReachesFits
<1>5. ASSUME Reaches(f, Fail(st), n.stream)
      PROVE  Responses'
  <2>1. Fail(st) \in Reader /\ Fail(st).at = "failed"
    BY <1>2 DEF Fail, Reader
  <2> QED BY <1>1, <1>2, <1>5, <2>1, ReachesFits
<1>6. ASSUME ~parses, NEW m \in 1..Len(n.stream), m <= Wanted(st),
             NEW next \in Take(st, SubSeq(n.stream, 1, m)),
             Reaches(f, next, SubSeq(n.stream, m + 1, Len(n.stream)))
      PROVE  Responses'
  <2>1. SubSeq(n.stream, 1, m) \in Seq(Byte) /\ SubSeq(n.stream, 1, m) # <<>>
        /\ SubSeq(n.stream, m + 1, Len(n.stream)) \in Seq(Byte)
    BY <1>2
  <2>2. next \in Reader
    BY <1>2, <2>1, TakeType
  <2>3. n.cut \/ Amid(n, st, r)
    <3>1. n.stream # <<>>
      BY <1>2
    <3> QED BY <1>3, <3>1 DEF Reading, Expected
  <2>4. Amid(n, st, r) =>
          /\ n.asked = <<>>
          /\ \E form \in Forms : Good(next, SubSeq(n.stream, m + 1, Len(n.stream)), form, r)
    BY <1>1, <1>2, <1>6, ReadStep DEF Amid
  <2> QED BY <1>1, <1>6, <2>1, <2>2, <2>3, <2>4, ReachesFits
<1> QED BY <1>4, <1>5, <1>6 DEF recvResponse

\* A connection is deleted, or goes into the pool with nothing to come on it.
LEMMA ResponsesRelease ==
    ASSUME PoolInv, Responses, NEW f \in Fibers, ReleasePtr(f)
    PROVE  Responses'
<1>c. PICK c : c = fiber[f].conn
  OBVIOUS
<1>1. pc[f] = "release" /\ c \in Calls /\ c # 0 /\ net[c] \in Conn /\ m_conns \in Seq(Calls)
  BY <1>c, ConnInUse DEF ReleasePtr, PoolInv, ClientTypeOK, Shape
<1>2. Clean(net[c]) /\ recv[f] = Start
  BY <1>c, <1>1 DEF Responses, Fits
<1>3. \A d \in Calls : d # c => net'[d] = net[d]
  BY <1>c DEF ReleasePtr, PoolInv, ClientTypeOK
<1>4. \A g \in Fibers : g # f => pc'[g] = pc[g] /\ fiber'[g] = fiber[g] /\ recv'[g] = recv[g]
  BY DEF ReleasePtr, End, Goto, PoolInv, ClientTypeOK
<1>5. fiber'[f] = Idle /\ pc'[f] \in {"idle", "uncount"} /\ recv'[f] = Start
  BY <1>2 DEF ReleasePtr, End, Goto, PoolInv, ClientTypeOK
<1>6. Fits(pc'[f], fiber'[f], recv'[f], net'[fiber'[f].conn])
  BY <1>5 DEF Fits, Idle
<1>7. \A g \in Fibers : g # f /\ fiber[g].conn # 0 => fiber[g].conn # c
  BY <1>c DEF PoolInv, Apart
<1>8. \A j \in DOMAIN m_conns : m_conns[j] # c
  BY <1>c DEF PoolInv, Apart
<1>9. CASE net' = [net EXCEPT ![c] = None] /\ m_conns' = m_conns
  <2>1. net'[c] = None
    BY <1>1, <1>9 DEF PoolInv, ClientTypeOK
  <2>2. \A j \in DOMAIN m_conns : \E i \in DOMAIN m_conns' : m_conns'[i] = m_conns[j]
    BY <1>9
  <2>3. \A i \in DOMAIN m_conns' : \E j \in DOMAIN m_conns : m_conns'[i] = m_conns[j] /\ m_conns[j] # c
    BY <1>8, <1>9
  <2> QED BY <1>c, <1>3, <1>4, <1>6, <1>7, <2>1, <2>2, <2>3, OwnStep
<1>10. CASE /\ net' = [net EXCEPT ![c].m_request = net[c].m_request + 1]
            /\ m_conns' = Append(m_conns, c)
  <2>1. net'[c] = [net[c] EXCEPT !.m_request = net[c].m_request + 1]
    BY <1>1, <1>10 DEF PoolInv, ClientTypeOK
  <2>2. Clean(net'[c])
    BY <1>1, <1>2, <2>1 DEF Clean
  <2>3. \A j \in DOMAIN m_conns : j \in DOMAIN m_conns' /\ m_conns'[j] = m_conns[j]
    BY <1>1, <1>10
  <2>4. Len(m_conns) + 1 \in DOMAIN m_conns' /\ m_conns'[Len(m_conns) + 1] = c
    BY <1>1, <1>10
  <2>5. \A i \in DOMAIN m_conns' : (i \in DOMAIN m_conns /\ m_conns'[i] = m_conns[i]) \/ m_conns'[i] = c
    BY <1>1, <1>10
  <2>6. \A j \in DOMAIN m_conns : \E i \in DOMAIN m_conns' : m_conns'[i] = m_conns[j]
    BY <2>3
  <2>7. \A i \in DOMAIN m_conns' :
           \/ \E j \in DOMAIN m_conns : m_conns'[i] = m_conns[j] /\ m_conns[j] # c
           \/ m_conns'[i] = c /\ Clean(net'[c])
    BY <1>8, <2>2, <2>5
  <2>8. \E i \in DOMAIN m_conns' : m_conns'[i] = c
    BY <2>4
  <2> QED BY <1>c, <1>3, <1>4, <1>6, <1>7, <2>6, <2>7, <2>8, OwnStep
<1> QED BY <1>c, <1>9, <1>10 DEF ReleasePtr

\* A step of the peer, which no reader minds.
LEMMA PeerStep ==
    ASSUME PoolInv, Responses, NEW c \in Calls, UNCHANGED <<m_conns, pc, fiber, recv>>,
           \A d \in Calls : d # c => net'[d] = net[d],
           net[c] # None, Clean(net[c]) => Clean(net'[c]), net[c].cut => net'[c].cut,
           \A st \in Reader : \A r \in Calls : Reading(net[c], st, r) => Reading(net'[c], st, r)
    PROVE  Responses'
<1>1. Absent'
  BY DEF Responses, Absent
<1>2. ASSUME NEW i \in DOMAIN m_conns PROVE Clean(net'[m_conns[i]])
  <2>1. m_conns[i] \in Calls
    BY DEF PoolInv, ClientTypeOK
  <2>2. Clean(net[m_conns[i]])
    BY DEF Responses
  <2> QED BY <2>1, <2>2
<1>3. ASSUME NEW f \in Fibers PROVE Fits(pc[f], fiber[f], recv[f], net'[fiber[f].conn])
  <2>1. Fits(pc[f], fiber[f], recv[f], net[fiber[f].conn])
    BY DEF Responses
  <2>2. fiber[f] \in Request /\ (pc[f] \in {"receive", "release"} => fiber[f].conn # 0)
    BY DEF PoolInv, ClientTypeOK, Shape
  <2>3. fiber[f].conn # 0 => fiber[f].conn \in Calls
    BY <2>2, HttpClientAssumption DEF Request, Calls
  <2>4. CASE fiber[f].conn = c
    <3>1. pc[f] = "receive" => recv[f] \in Reader /\ fiber[f].req \in Calls
      BY ConnInUse DEF PoolInv, ClientTypeOK
    <3> QED BY <2>1, <2>4, <3>1 DEF Fits
  <2>5. CASE fiber[f].conn # c /\ fiber[f].conn # 0
    BY <2>1, <2>3, <2>5
  <2>6. CASE fiber[f].conn = 0
    BY <2>1, <2>2, <2>6 DEF Fits
  <2> QED BY <2>4, <2>5, <2>6
<1> QED BY <1>1, <1>2, <1>3 DEF Responses

\* The peer's answer is what recvResponse expects.
LEMMA ResponsesAnswer ==
    ASSUME PoolInv, Responses, NEW c \in Calls, NEW form \in Forms, NEW whole \in BOOLEAN,
           Answer(c, form, whole)
    PROVE  Responses'
<1> DEFINE n == net[c]
           all == Bytes(Head(n.asked), form)
           sent == IF whole THEN all ELSE Front(all)
<1>1. n \in Conn /\ n.asked # <<>> /\ n.asked \in Seq(Calls)
  BY DEF Answer, PoolInv, ClientTypeOK, Conn
<1>2. /\ UNCHANGED <<m_conns, pc, fiber, recv>> /\ \A d \in Calls : d # c => net'[d] = net[d]
      /\ net'[c] = [n EXCEPT !.asked = Tail(@), !.stream = @ \o sent, !.peer = IF whole THEN @ ELSE "closed"]
  BY DEF Answer, PoolInv, ClientTypeOK
<1>3. net'[c].cut = n.cut /\ net'[c].asked = Tail(n.asked) /\ net'[c].stream = n.stream \o sent
  BY <1>1, <1>2 DEF Conn
<1>4. n # None
  BY <1>1 DEF None
<1>5. Clean(n) => Clean(net'[c])
  BY <1>1, <1>3 DEF Clean
<1>6. ASSUME NEW r \in Calls, n.asked = <<r>>, n.stream = <<>>
      PROVE  Amid(net'[c], Start, r)
  <2>1. Tail(n.asked) = <<>> /\ Head(n.asked) = r
    BY <1>6
  <2>2. all \in Seq(Byte) /\ Len(all) = Len(form) /\ Len(form) \in Nat /\ Len(form) > 1
        /\ \A i \in 1..Len(form) : all[i] = [of |-> r, is |-> form[i].is, n |-> form[i].n]
    BY <2>1, BytesType, FormFacts
  <2> HIDE DEF all
  <2>3. sent \in Seq(Byte) /\ Len(sent) <= Len(form) /\ \A i \in 1..Len(sent) : sent[i] = all[i]
    <3>1. CASE whole
      BY <2>2, <3>1
    <3>2. CASE ~whole
      <4>1. sent = SubSeq(all, 1, Len(all) - 1)
        BY <3>2 DEF Front
      <4> QED BY <2>2, <4>1
    <3> QED BY <3>1, <3>2
  <2> HIDE DEF sent
  <2>4. Matches(sent, form, 0, r)
    <3>1. Len(sent) \in Nat
      BY <2>3
    <3>2. ASSUME NEW i \in 1..Len(sent)
          PROVE  sent[i].of = r /\ sent[i].is = form[0 + i].is /\ sent[i].n = form[0 + i].n
      <4>1. i \in 1..Len(form) /\ 0 + i = i
        BY <2>2, <2>3, <3>1
      <4>2. sent[i] = [of |-> r, is |-> form[i].is, n |-> form[i].n]
        BY <2>2, <2>3, <4>1
      <4> QED BY <4>1, <4>2
    <3>3. 0 + Len(sent) <= Len(form)
      BY <2>3, <3>1
    <3> QED BY <3>2, <3>3 DEF Matches
  <2>5. n.stream \o sent = sent
    BY <1>6, <2>3
  <2>6. 0 \in 0..Len(form) /\ 0 + Len(<<>>) = 0
    BY <2>2
  <2>7. Start.at = "head" /\ Start.of = 0 /\ Start.buf = <<>>
    BY DEF Start
  <2>8. Inside(Start, sent, form, 0, r)
    BY <2>4, <2>6, <2>7, MatchesEmpty DEF Inside, At
  <2> QED BY <1>3, <2>1, <2>5, <2>6, <2>8 DEF Amid
<1>7. ASSUME NEW st \in Reader, NEW r \in Calls, Reading(n, st, r)
      PROVE  Reading(net'[c], st, r)
  <2>1. CASE n.cut
    BY <1>3, <2>1 DEF Reading
  <2>2. CASE Expected(n, st, r)
    BY <1>1, <1>6, <2>2 DEF Expected, Reading
  <2>3. CASE Amid(n, st, r)
    BY <1>1, <2>3 DEF Amid
  <2> QED BY <1>7, <2>1, <2>2, <2>3 DEF Reading
<1> QED BY <1>2, <1>3, <1>4, <1>5, <1>7, PeerStep

\* A peer that leaves takes what it has not answered, and perhaps not sent, away.
LEMMA ResponsesLeave ==
    ASSUME PoolInv, Responses, NEW c \in Calls, NEW how \in {"closed", "reset"}, Leave(c, how)
    PROVE  Responses'
<1> DEFINE n == net[c]
<1>1. n \in Conn /\ n.m_isConnected
  BY DEF Leave, PoolInv, ClientTypeOK
<1>2. /\ UNCHANGED <<m_conns, pc, fiber, recv>> /\ \A d \in Calls : d # c => net'[d] = net[d]
      /\ net'[c] = [n EXCEPT !.peer = how, !.asked = <<>>, !.stream = IF how = "reset" THEN <<>> ELSE @]
  BY DEF Leave, PoolInv, ClientTypeOK
<1>3. net'[c].cut = n.cut /\ net'[c].asked = <<>> /\ net'[c].stream \in {n.stream, <<>>}
  BY <1>1, <1>2 DEF Conn
<1>4. n # None
  BY <1>1 DEF None
<1>5. Clean(n) => Clean(net'[c])
  BY <1>3 DEF Clean
<1>6. ASSUME NEW st \in Reader, NEW r \in Calls, Amid(n, st, r)
      PROVE  Amid(net'[c], st, r)
  <2>a. PICK form \in Forms : \E k \in 0..Len(form) : Inside(st, n.stream, form, k, r)
    BY <1>6 DEF Amid
  <2>1. PICK k \in 0..Len(form) : Inside(st, n.stream, form, k, r)
    BY <2>a
  <2>2. k + Len(st.buf) \in 0..Len(form)
    <3>1. Len(form) \in Nat /\ Len(st.buf) \in Nat
      BY FormFacts DEF Reader
    <3>2. k + Len(st.buf) <= Len(form)
      BY <2>1 DEF Inside, Matches
    <3> QED BY <3>1, <3>2
  <2>3. Inside(st, <<>>, form, k, r)
    BY <2>1, <2>2, MatchesEmpty DEF Inside
  <2>4. Inside(st, net'[c].stream, form, k, r)
    BY <1>3, <2>1, <2>3
  <2> QED BY <1>3, <2>4 DEF Amid
<1>7. ASSUME NEW st \in Reader, NEW r \in Calls, Reading(n, st, r)
      PROVE  Reading(net'[c], st, r)
  BY <1>3, <1>6, <1>7 DEF Reading, Expected
<1> QED BY <1>2, <1>3, <1>4, <1>5, <1>7, PeerStep

\* Every step keeps the responses where they belong.
LEMMA ResponsesStep ==
    ASSUME PoolInv, Responses, [Next]_vars
    PROVE  Responses'
<1>1. CASE UNCHANGED vars
  BY <1>1 DEF vars, Responses, Absent
<1>2. ClientTypeOK'
  BY TypeStep DEF PoolInv
<1>3. CASE Next
  BY <1>2, <1>3, ResponsesBeginEnd, ResponsesPop, ResponsesSweep, ResponsesConnect,
     ResponsesSend, ResponsesReceive, ResponsesRelease, ResponsesAnswer, ResponsesLeave DEF
     Next, Step
<1> QED BY <1>1, <1>3

\* At first there are none.
LEMMA ResponsesInit == Init => Responses
<1> SUFFICES ASSUME Init PROVE Responses
  OBVIOUS
<1>1. Idle.conn = 0 /\ Idle.result = PENDING
  BY DEF Idle
<1>2. Absent
  BY DEF Init, Absent
<1>3. \A f \in Fibers : pc[f] = "idle" /\ fiber[f] = Idle /\ recv[f] = Start
  BY DEF Init
<1>4. \A f \in Fibers : Fits(pc[f], fiber[f], recv[f], net[fiber[f].conn])
  BY <1>1, <1>3 DEF Fits
<1>5. DOMAIN m_conns = {}
  BY DEF Init
<1> QED BY <1>2, <1>4, <1>5 DEF Responses

\* What a fiber with a result has.
LEMMA ResponsesExact == PoolInv /\ Responses => AnswersOwn /\ ResponseUsedUp
<1> SUFFICES ASSUME PoolInv, Responses, NEW f \in Fibers, fiber[f].result >= 0,
                    ~net[fiber[f].conn].cut
             PROVE  /\ fiber[f].result = fiber[f].req
                    /\ net[fiber[f].conn].stream = <<>> /\ net[fiber[f].conn].asked = <<>>
  BY DEF AnswersOwn, ResponseUsedUp
<1>1. Fits(pc[f], fiber[f], recv[f], net[fiber[f].conn])
  BY DEF Responses
<1>2. ~(PENDING >= 0)
  BY DEF PENDING
<1>3. pc[f] = "release" /\ fiber[f].conn # 0
  BY <1>1, <1>2 DEF Fits, PoolInv, Shape
<1> QED BY <1>1, <1>3 DEF Fits, Clean

\* http_connection.cc, doRequest: whatever the timeouts, late answers, reuse of
\* connections and split into reads, OK comes only with the request's own
\* response, unless a response on the connection was cut in a header.
THEOREM AlwaysAnswersOwn == Spec => []AnswersOwn
<1>1. PoolInv /\ Responses /\ [Next]_vars => PoolInv' /\ Responses'
  BY PoolStep, ResponsesStep
<1>2. Init => PoolInv /\ Responses
  BY PoolInit, ResponsesInit
<1>3. PoolInv /\ Responses => AnswersOwn
  BY ResponsesExact
<1> QED BY <1>1, <1>2, <1>3, PTL DEF Spec

\* http_connection.cc, recvResponse: when doRequest returns OK on a connection
\* whose responses were not cut, nothing of a response is left on it, nor to come.
THEOREM ResponseAlwaysUsedUp == Spec => []ResponseUsedUp
<1>1. PoolInv /\ Responses /\ [Next]_vars => PoolInv' /\ Responses'
  BY PoolStep, ResponsesStep
<1>2. Init => PoolInv /\ Responses
  BY PoolInit, ResponsesInit
<1>3. PoolInv /\ Responses => ResponseUsedUp
  BY ResponsesExact
<1> QED BY <1>1, <1>2, <1>3, PTL DEF Spec

=============================================================================
