-------------------------------- MODULE Http --------------------------------
(***************************************************************************)
(* The two ends of HTTP over TCP: HttpConnectionPool and HttpConnection of *)
(* sylar/http/http_connection.cc; TcpServer, HttpServer::handleClient() of *)
(* sylar/http/http_server.cc and HttpSession of sylar/http/http_session.cc *)
(* with the parser, the messages and the dispatch of HttpMessage.          *)
(*                                                                         *)
(* The kernel (external) keeps what each end wrote until the other reads   *)
(* it; a read takes any part of it.  An end that closes with data unread,  *)
(* or is written to afterwards, resets the connection.  Fibers use one     *)
(* pool; a foreign client sends requests of its own.                       *)
(***************************************************************************)
EXTENDS HttpMessage, TcpServer

CONSTANTS Fibers,        (* fibers that call doRequest()                     *)
          MaxConns,      (* bound: connections                               *)
          MaxRequest,    (* m_maxRequest of the pool                         *)
          MaxAliveTime,  (* m_maxAliveTime                                   *)
          Now,           (* GetCurrentMS(), ms since 1970: far above it      *)
          Registered,    (* the dispatch as the program set it up            *)
          Uri, Glob, Slt, (* what is registered and removed while serving    *)
          Scenarios      (* bounds: what may happen in a behaviour, see Init *)

ASSUME HttpAssumption ==
    /\ MaxConns \in Nat /\ MaxRequest \in Nat \ {0}
    /\ MaxAliveTime \in Nat /\ Now \in Nat /\ MaxAliveTime < Now
    /\ IsFiniteSet(Fibers)
    /\ \A l \in Scenarios : "fibers" \in DOMAIN l /\ l.fibers \subseteq Fibers

(* What the servlets answer and what is asked for can be written.            *)
ASSUME MessageAssumption ==
    /\ DOMAIN Registered = {"m_datas", "m_globs", "m_default"}
    /\ \A u \in DOMAIN Registered.m_datas : Registered.m_datas[u] \in Servlet
    /\ Registered.m_globs \in Seq(STRING \X Servlet) /\ Registered.m_default \in Servlet
    /\ Glob \in STRING /\ Slt \in Servlet
    /\ \A l \in Scenarios :
           /\ {"wanted", "foreign"} \subseteq DOMAIN l
           /\ \A m \in l.wanted : m \in Request
           /\ \A ms \in l.foreign : ms \in Seq(Request)

Conns == 1 .. MaxConns

VARIABLES m_conns, m_total,  (* the pool                                     *)
          conns,             (* the connections, see NewConn                 *)
          fiber,             (* per fiber: the doRequest() that runs         *)
          dispatch,          (* ServletDispatch                              *)
          log,               (* history: the requests sent and their answers *)
          left               (* what is left of the scenario                 *)

httpVars == <<m_conns, m_total, conns, fiber, dispatch, log, left>>
vars     == <<tcpVars, httpVars>>

(* cli, srv: the ends; up, down: data on its way; pc, p: handleClient() and  *)
(* the parser of recvRequest().  History: clean, nothing has happened that   *)
(* may fail a request; final: the server is to close after what it answers.  *)
NewConn(sock) ==
    [sock |-> sock, cli |-> "open", srv |-> "backlog", up |-> <<>>, down |-> <<>>,
     reset |-> FALSE, m_request |-> 0, pc |-> "none", p |-> HttpRequestParser,
     clean |-> TRUE, final |-> FALSE]
Unused == [NewConn(0) EXCEPT !.cli = "none", !.srv = "none"]
Idle == [pc |-> "idle", conn |-> 0, id |-> 0, pooled |-> FALSE,
         p |-> HttpResponseParser, result |-> "none"]

HttpInit ==
    /\ left \in Scenarios /\ TcpInit(left.bound)
    /\ m_conns = <<>> /\ m_total = 0
    /\ conns = [c \in Conns |-> Unused]
    /\ fiber = [f \in Fibers |-> Idle]
    /\ dispatch = Registered
    /\ log = <<>>

(* Both ends are closed: nothing of the connection matters any more.         *)
Settled(k) == IF k.cli = "closed" /\ k.srv = "closed"
              THEN [Unused EXCEPT !.cli = "closed", !.srv = "closed", !.clean = k.clean]
              ELSE k
Update(c, k) == conns' = [conns EXCEPT ![c] = Settled(k)]
Free == {c \in Conns : conns[c].cli = "none"}
NextConn == CHOOSE c \in Free : \A d \in Free : c <= d
ServerGone(k) == k.srv = "closed" \/ (k.srv = "backlog" /\ ~Open(k.sock))

(* A read of some of the data; ending it early uses up a cut.                *)
Reads(data, n) ==
    /\ n \in 1 .. Len(data)
    /\ n < Len(data) => left.cuts > 0
Cut(data, n) == [left EXCEPT !.cuts = @ - IF n < Len(data) THEN 1 ELSE 0]

-----------------------------------------------------------------------------
(* The pool.                                                                 *)

(* m_createTime is never set: no connection is too old, for getConnection()  *)
(* and for ReleasePtr(), whose tests differ by one.                          *)
CreateTime == 0
Usable(c) == conns[c].cli = "open" /\ ~(CreateTime + MaxAliveTime > Now)
Expired == CreateTime + MaxAliveTime >= Now

(* doRequest(req): getConnection() takes the first usable connection and     *)
(* deletes those before it.                                                  *)
getConnection(f, m) ==
    LET good == {i \in DOMAIN m_conns : Usable(m_conns[i])}
        n    == IF good = {} THEN Len(m_conns) + 1
                ELSE CHOOSE i \in good : \A j \in good : i <= j
    IN  /\ fiber[f].pc = "idle" /\ left.requests > 0
        /\ left' = [left EXCEPT !.requests = @ - 1]
        /\ log' = Append(log, [msg |-> m, answer |-> NotFoundServlet])
        /\ m_total' = m_total - (n - 1)
        /\ conns' = [c \in Conns |-> IF c \in {m_conns[i] : i \in 1 .. n - 1}
                                     THEN Settled([conns[c] EXCEPT !.cli = "closed"])
                                     ELSE conns[c]]
        /\ m_conns' = SubSeq(m_conns, n + 1, Len(m_conns))
        /\ fiber' = [fiber EXCEPT ![f].id = Len(log) + 1, ![f].pooled = TRUE,
                         ![f].pc = IF good = {} THEN "connect" ELSE "send",
                         ![f].conn = IF good = {} THEN 0 ELSE m_conns[n]]
        /\ UNCHANGED <<tcpVars, dispatch>>

(* HttpConnection::DoRequest(): a connection for this request alone.         *)
DoRequest(f, m) ==
    /\ fiber[f].pc = "idle" /\ left.direct > 0
    /\ left' = [left EXCEPT !.direct = @ - 1]
    /\ log' = Append(log, [msg |-> m, answer |-> NotFoundServlet])
    /\ fiber' = [fiber EXCEPT ![f].id = Len(log) + 1, ![f].pc = "connect"]
    /\ UNCHANGED <<tcpVars, m_conns, m_total, conns, dispatch>>

(* The rest of getConnection(), and of DoRequest(): connect() succeeds on a  *)
(* socket that listens; otherwise the call ends with POOL_GET_CONNECTION or  *)
(* CONNECT_FAIL.                                                             *)
Connect(f) ==
    /\ fiber[f].pc = "connect"
    /\ \/ \E s \in Socks :
              /\ Open(s) /\ Free # {}
              /\ conns' = [conns EXCEPT ![NextConn] = NewConn(s)]
              /\ m_total' = m_total + IF fiber[f].pooled THEN 1 ELSE 0
              /\ fiber' = [fiber EXCEPT ![f].pc = "send", ![f].conn = NextConn]
              /\ UNCHANGED left
       \/ /\ (\A s \in Socks : ~Open(s)) \/ left.timeouts > 0
          /\ left' = IF \E s \in Socks : Open(s) THEN [left EXCEPT !.timeouts = @ - 1] ELSE left
          /\ fiber' = [fiber EXCEPT ![f] = Idle]
          /\ UNCHANGED <<conns, m_total>>
    /\ UNCHANGED <<tcpVars, m_conns, dispatch, log>>

(* History: a connection the server has not accepted is not clean once it    *)
(* fails, nor is one that is used after the server's last answer.            *)
Unaccepted(k) == [k EXCEPT !.clean = @ /\ k.srv # "backlog"]
Reused(k) == [k EXCEPT !.clean = @ /\ ~k.final]

(* sendRequest(): the kernel takes it all, or knows that the peer is gone;   *)
(* the connection stays as it is.                                            *)
sendRequest(f) ==
    LET c == fiber[f].conn  k == conns[c]  m == log[fiber[f].id].msg
    IN  /\ fiber[f].pc = "send"
        /\ \/ /\ Update(c, [Reused(k) EXCEPT
                     !.up = IF ServerGone(k) THEN @ ELSE @ \o RequestDump(m, fiber[f].id),
                     !.reset = @ \/ ServerGone(k),
                     !.final = @ \/ ~left.keepalive \/ Connection(TRUE) \in ToSet(m.headers)])
              /\ fiber' = [fiber EXCEPT ![f].pc = "recv"]
           \/ /\ ServerGone(k)
              /\ Update(c, Reused(Unaccepted(k)))
              /\ fiber' = [fiber EXCEPT ![f].pc = "release", ![f].result = "SEND_SOCKET_ERROR"]
        /\ UNCHANGED <<tcpVars, m_conns, m_total, dispatch, log, left>>

(* Nothing more can come on the connection: the server waits, or has not     *)
(* accepted it and never will.                                               *)
Silent(k) == \/ k.srv = "open" /\ k.pc = "recv" /\ k.up = <<>>
             \/ k.srv = "backlog" /\ ~Held(k.sock)

(* Mutant: an answer that is late leaves the connection as it is.            *)
KeepsLate(f, k) ==
    /\ Update(fiber[f].conn, k)
    /\ fiber' = [fiber EXCEPT ![f].pc = "release", ![f].result = "TIMEOUT"]

(* recvResponse() gives up: close() and null, which doRequest() reports as   *)
(* TIMEOUT.                                                                  *)
GivesUp(f, k) ==
    /\ Update(fiber[f].conn, [Unaccepted(k) EXCEPT !.cli = "closed"])
    /\ fiber' = [fiber EXCEPT ![f].pc = "release", ![f].result = "TIMEOUT"]

(* A turn of recvResponse().                                                 *)
RecvData(f) ==
    LET c == fiber[f].conn  k == conns[c]
    IN  \E n \in 1 .. Len(k.down) :
            LET q    == http_parser_execute(fiber[f].p, SubSeq(k.down, 1, n))
                rest == [k EXCEPT !.down = SubSeq(@, n + 1, Len(@))]
            IN  /\ Reads(k.down, n) /\ left' = Cut(k.down, n)
                /\ IF ResponseError(q) THEN GivesUp(f, rest)
                   ELSE /\ Update(c, rest)
                        /\ fiber' = [fiber EXCEPT ![f].p = q,
                               ![f].pc = IF q.m_finished THEN "release" ELSE @,
                               ![f].result = IF q.m_finished THEN "OK" ELSE @]
RecvEnds(f) ==
    LET k == conns[fiber[f].conn]
    IN  /\ (k.down = <<>> /\ ServerGone(k)) \/ k.reset
        /\ GivesUp(f, k) /\ UNCHANGED left
RecvTimeout(f) ==
    LET k == conns[fiber[f].conn]
    IN  /\ k.down = <<>> /\ ~ServerGone(k)
        /\ Silent(k) \/ left.timeouts > 0
        /\ left' = [left EXCEPT !.timeouts = @ - IF Silent(k) THEN 0 ELSE 1]
        /\ GivesUp(f, [k EXCEPT !.clean = @ /\ Silent(k)])
recvResponse(f) ==
    /\ fiber[f].pc = "recv"
    /\ RecvData(f) \/ RecvEnds(f) \/ RecvTimeout(f)
    /\ UNCHANGED <<tcpVars, m_conns, m_total, dispatch, log>>

(* Mutant: a connection that is used up goes back too.                       *)
WornLater(k) == k.m_request + 1 > MaxRequest
(* The connection has been used often enough.                                *)
Worn(k) == k.m_request + 1 >= MaxRequest

(* The result is made, the connection's pointer goes: ReleasePtr().          *)
ReleasePtr(f) ==
    LET c == fiber[f].conn  k == conns[c]
        drop == k.cli # "open" \/ Expired \/ Worn(k)
    IN  /\ fiber[f].pc = "release" /\ fiber[f].pooled
        /\ Update(c, [k EXCEPT !.m_request = @ + 1,
                               !.cli = IF drop THEN "closed" ELSE @])
        /\ m_total' = m_total - IF drop THEN 1 ELSE 0
        /\ m_conns' = IF drop THEN m_conns ELSE Append(m_conns, c)
        /\ fiber' = [fiber EXCEPT ![f] = Idle]
        /\ UNCHANGED <<tcpVars, dispatch, log, left>>

(* The connection of DoRequest() goes with it.                               *)
Destroy(f) ==
    /\ fiber[f].pc = "release" /\ ~fiber[f].pooled
    /\ Update(fiber[f].conn, [conns[fiber[f].conn] EXCEPT !.cli = "closed"])
    /\ fiber' = [fiber EXCEPT ![f] = Idle]
    /\ UNCHANGED <<tcpVars, m_conns, m_total, dispatch, log, left>>

doRequest(f) ==
    \/ Connect(f) \/ sendRequest(f) \/ recvResponse(f)
    \/ ReleasePtr(f) \/ Destroy(f)

-----------------------------------------------------------------------------
(* The server.                                                               *)

(* startAccept() got a connection and schedules handleClient().              *)
startAccept(s, c) ==
    /\ conns[c].srv = "backlog" /\ conns[c].sock = s /\ Open(s) /\ accept(s)
    /\ Update(c, [conns[c] EXCEPT !.srv = "open", !.pc = "recv"])
    /\ UNCHANGED <<m_conns, m_total, fiber, dispatch, log, left>>

Closed(k) == [k EXCEPT !.srv = "closed", !.reset = @ \/ k.up # <<>>]

(* A turn of recvRequest().                                                  *)
SessionData(c) ==
    LET k == conns[c]
    IN  \E n \in 1 .. Len(k.up) :
            LET q    == http_parser_execute(k.p, SubSeq(k.up, 1, n))
                rest == [k EXCEPT !.up = SubSeq(@, n + 1, Len(@)), !.p = q,
                                  !.clean = @ /\ ~q.cut]
            IN  /\ Reads(k.up, n) /\ left' = Cut(k.up, n)
                /\ Update(c, IF RequestError(q) THEN Closed(rest)
                             ELSE [rest EXCEPT !.pc = IF q.m_finished THEN "handle" ELSE @])
SessionEnds(c) ==
    /\ conns[c].cli = "closed"
    /\ Update(c, Closed(conns[c])) /\ UNCHANGED left
SessionTimeout(c) ==
    /\ conns[c].up = <<>> /\ conns[c].cli = "open" /\ left.timeouts > 0
    /\ left' = [left EXCEPT !.timeouts = @ - 1]
    /\ Update(c, Closed([conns[c] EXCEPT !.clean = FALSE]))
recvRequest(c) ==
    /\ conns[c].srv = "open" /\ conns[c].pc = "recv"
    /\ SessionData(c) \/ SessionEnds(c) \/ SessionTimeout(c)
    /\ UNCHANGED <<tcpVars, m_conns, m_total, fiber, dispatch, log>>

(* handleClient(): the servlet, sendResponse(), and whether to go on.  An    *)
(* answer that is not Framed is not clean.                                   *)
handleClient(c) ==
    LET k == conns[c]
        close  == isClose(k.p) \/ ~left.keepalive
        answer == getMatchedServlet(dispatch, k.p.m_path)
        rsp    == HttpResponse(k.p.version, close, answer)
        id     == Last(k.p.got)
    IN  /\ k.srv = "open" /\ k.pc = "handle"
        /\ Update(c, [k EXCEPT
               !.down = IF k.cli = "open" THEN @ \o ResponseDump(rsp, id) ELSE @,
               !.p = HttpRequestParser,
               !.pc = IF close THEN "close" ELSE "recv",
               !.clean = @ /\ Framed(rsp)])
        /\ log' = [log EXCEPT ![id].answer = answer]
        /\ UNCHANGED <<tcpVars, m_conns, m_total, fiber, dispatch, left>>

SessionClose(c) ==
    /\ conns[c].srv = "open" /\ conns[c].pc = "close"
    /\ Update(c, Closed(conns[c]))
    /\ UNCHANGED <<tcpVars, m_conns, m_total, fiber, dispatch, log, left>>

Session(c) == recvRequest(c) \/ handleClient(c) \/ SessionClose(c)

-----------------------------------------------------------------------------
(* The rest of the world.                                                    *)

(* A foreign client (external) connects, sends requests and hangs up.        *)
ForeignSends(s, ms) ==
    /\ Open(s) /\ Free # {} /\ ms \in left.foreign
    /\ left' = [left EXCEPT !.foreign = {}]
    /\ log' = log \o [i \in DOMAIN ms |-> [msg |-> ms[i], answer |-> NotFoundServlet]]
    /\ conns' = [conns EXCEPT ![NextConn] = [NewConn(s) EXCEPT !.pc = "foreign",
           !.up = FlattenSeq([i \in DOMAIN ms |-> ForeignDump(ms[i], Len(log) + i)])]]
    /\ UNCHANGED <<tcpVars, m_conns, m_total, fiber, dispatch>>
ForeignLeaves(c) ==
    /\ left.foreign = {} /\ conns[c].cli = "open"
    /\ c \notin {fiber[f].conn : f \in Fibers} \cup ToSet(m_conns)
    /\ Update(c, [conns[c] EXCEPT !.cli = "closed"])
    /\ UNCHANGED <<tcpVars, m_conns, m_total, fiber, dispatch, log, left>>

(* Servlets are registered and removed while requests are served.            *)
ChangeServlets ==
    /\ left.changes > 0 /\ left' = [left EXCEPT !.changes = @ - 1]
    /\ dispatch' \in {addServlet(dispatch, Uri, Slt), delServlet(dispatch, Uri),
                      addGlobServlet(dispatch, Glob, Slt), delGlobServlet(dispatch, Glob),
                      setDefault(dispatch, Slt)}
    /\ UNCHANGED <<tcpVars, m_conns, m_total, conns, fiber, log>>

(* The program calls bind(), start() and stop().                             *)
Serve ==
    /\ left.calls > 0 /\ left' = [left EXCEPT !.calls = @ - 1]
    /\ \/ \E new \in SUBSET Socks, failed \in SUBSET Socks :
              failed \subseteq new /\ bind(new, failed)
       \/ start
       \/ stop
    /\ UNCHANGED <<m_conns, m_total, conns, fiber, dispatch, log>>

Server(s) ==
    \/ (StopRuns \/ Check(s) \/ AcceptFails(s)) /\ UNCHANGED httpVars
    \/ \E c \in Conns : startAccept(s, c)

HttpNext ==
    \/ \E f \in left.fibers, m \in left.wanted : getConnection(f, m) \/ DoRequest(f, m)
    \/ \E f \in Fibers : doRequest(f)
    \/ \E c \in Conns : Session(c)
    \/ \E s \in Socks : Server(s)
    \/ \E s \in Socks, ms \in left.foreign : ForeignSends(s, ms)
    \/ \E c \in Conns : ForeignLeaves(c)
    \/ ChangeServlets
    \/ Serve

(* The accept worker runs what it was given: the loops of startAccept() and  *)
(* the function of stop().                                                   *)
HttpSpec ==
    /\ HttpInit /\ [][HttpNext]_vars
    /\ \A s \in Socks : /\ WF_vars(Check(s) /\ UNCHANGED httpVars)
                        /\ WF_vars(AcceptFails(s) /\ UNCHANGED httpVars)
                        /\ WF_vars(\E c \in Conns : startAccept(s, c))
    /\ WF_vars(StopRuns /\ UNCHANGED httpVars)

-----------------------------------------------------------------------------
(* Properties.                                                               *)

(* doRequest() answers OK with the response to its own request and with all  *)
(* of it: no late answer, and no answer to another request on a connection   *)
(* that goes from fiber to fiber, is taken for it, and a body that came in   *)
(* pieces is complete.                                                       *)
OwnResponse ==
    \A f \in Fibers : fiber[f].result = "OK" =>
        LET p == fiber[f].p  answer == log[fiber[f].id].answer
        IN  /\ p.got = <<fiber[f].id>>
            /\ p.status = answer.status /\ Len(p.m_body) = answer.body

(* The request a servlet is given is the one that was sent, however reads    *)
(* cut it, as long as no read ends inside or at the end of the url, a header *)
(* name or a header value and requests do not come two at a time.            *)
ParsedUnlessCut ==
    \A c \in Conns : conns[c].pc = "handle" =>
        LET p == conns[c].p
        IN  p.cut \/ Len(p.got) > 1 \/ Parsed(p) = Meant(log[p.got[1]].msg)

(* The same for every cut: the callbacks are documented as called when the   *)
(* url, the name and the value have been parsed completely.                  *)
ParsedAsSent ==
    \A c \in Conns : conns[c].pc = "handle" =>
        LET p == conns[c].p
        IN  Len(p.got) > 1 \/ Parsed(p) = Meant(log[p.got[1]].msg)

(* A connection is with one fiber or, once, in m_conns, m_total counts       *)
(* exactly the pool's, and those that wait have been used less often than    *)
(* m_maxRequest allows and are connected.                                    *)
PoolExact ==
    LET busy == {f \in Fibers : fiber[f].conn # 0}
        held == {f \in busy : fiber[f].pooled}
    IN  /\ \A f, g \in busy : fiber[f].conn = fiber[g].conn => f = g
        /\ \A i, j \in DOMAIN m_conns : m_conns[i] = m_conns[j] => i = j
        /\ \A f \in busy : fiber[f].conn \notin ToSet(m_conns)
        /\ m_total = Len(m_conns) + Cardinality(held)
        /\ \A c \in ToSet(m_conns) : conns[c].m_request < MaxRequest /\ conns[c].cli = "open"

(* A request on a connection fails only for a reason: a timeout, a read that *)
(* ended in a url or a header of a request, an answer whose length is given  *)
(* not at all, twice or in chunks that do not come, a server that stopped    *)
(* before it accepted, or a connection the server had announced to close     *)
(* before it was taken from the pool again.                                  *)
CleanRequestsSucceed ==
    \A f \in Fibers : fiber[f].result \in {"TIMEOUT", "SEND_SOCKET_ERROR"} =>
        ~conns[fiber[f].conn].clean
=============================================================================
