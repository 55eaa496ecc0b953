---------------------------- MODULE HttpMessage ----------------------------
(***************************************************************************)
(* HttpRequest and HttpResponse of sylar/http/http.cc: what dump() writes  *)
(* and what init() reads back; and the dispatch of sylar/http/servlet.cc.  *)
(* A message is [version, headers, body] with the path of a request or the *)
(* status of a response; headers is a sequence of <<name, value>> words,   *)
(* body the number of its bytes.                                           *)
(***************************************************************************)
EXTENDS HttpParser

Words == <<"n0", "n1", "n2">>   (* the length of a body, as dump() writes it *)
Lengths == 0 .. Len(Words) - 1
Headers == Seq(STRING \X STRING)
Request == [path : STRING, version : STRING, headers : Headers, body : Lengths]
Pair(f, v) == <<f, v>>
Line(h) == Both("field", h[1]) \o <<Tok("colon", ":", 1)>> \o Both("value", h[2]) \o <<Crlf>>
Bytes(n) == [i \in 1 .. n |-> Tok("body", "body", i)]
Chunks(n) == FlattenSeq([i \in 1 .. n |->
                 <<Tok("size", "n1", 1), Tok("body", "body", i), Crlf>>])
             \o <<Tok("size", "n0", 1), Crlf>>
(* The header lines and the empty one behind them.                           *)
HeadLines(m) ==
    FlattenSeq([i \in DOMAIN m.headers |-> Line(m.headers[i])]) \o <<Crlf>>

(* m_headers is a map: a name is in it once at most, and can be left out.    *)
Without(pairs, f) ==
    IF \E x \in ToSet(pairs) : x[1] = f
    THEN RemoveAt(pairs, CHOOSE i \in DOMAIN pairs : pairs[i][1] = f) ELSE pairs

(* The header fields dump() adds: connection, and content-length only with   *)
(* a body.                                                                   *)
Connection(close) == Pair("connection", IF close THEN "close" ELSE "keep-alive")
(* Mutant: no content-length.                                                *)
ContentLengthNever(body) == <<>>
ContentLength(body) ==
    IF body > 0 THEN <<Pair("content-length", Words[body + 1])>> ELSE <<>>

(* The request of HttpConnectionPool::doRequest(method, url, ..., headers,   *)
(* body): m_close unless the caller asks for keep-alive; Host is added       *)
(* unless it is given.  dump() writes connection first, and the caller's     *)
(* content-length only when there is no body.                                *)
HttpRequest(path, headers, body) ==
    LET close == Pair("connection", "keep-alive") \notin ToSet(headers)
        own   == Without(headers, "connection")
        host  == IF \E h \in ToSet(own) : h[1] = "host" THEN <<>> ELSE <<Pair("host", "vhost")>>
    IN  [path |-> path, version |-> "1.1", body |-> body,
         headers |-> <<Connection(close)>> \o host
                     \o (IF body > 0 THEN Without(own, "content-length") ELSE own)
                     \o ContentLength(body)]
RequestHead(m, id) ==
    <<Tok("method", "GET", id)>> \o Both("url", m.path)
    \o <<Tok("version", m.version, 1)>> \o HeadLines(m)
RequestDump(m, id) == RequestHead(m, id) \o Bytes(m.body)
(* A foreign client (external) may send the body in chunks.                  *)
ForeignDump(m, id) ==
    RequestHead(m, id) \o IF Pair("transfer-encoding", "chunked") \in ToSet(m.headers)
                          THEN Chunks(m.body) ELSE Bytes(m.body)

(* HttpResponse(version, close) with what the servlet set, a content-length  *)
(* of its own included, connection left out; dump() writes the body as it is *)
(* whatever the headers say.                                                 *)
HttpResponse(version, close, answer) ==
    [version |-> version, status |-> answer.status, body |-> answer.body,
     headers |-> Without(answer.headers, "connection")
                 \o <<Pair("server", "sylar"), Connection(close)>>
                 \o ContentLength(answer.body)]
ResponseDump(m, id) ==
    <<Tok("http", m.version, id), Tok("code", m.status, 1)>>
    \o (HeadLines(m) \o Bytes(m.body))

(* HttpRequest::getHeader() and init(): m_close is true by default, and      *)
(* whenever connection says anything but keep-alive.                         *)
getHeader(headers, f) == IF f \in DOMAIN headers THEN headers[f] ELSE <<>>
isClose(p) == getHeader(p.m_headers, Whole("connection")) # Whole("keep-alive")

(* The length of a response can be told without the end of the connection,   *)
(* is given once, and no chunks are announced that dump() does not write.    *)
Framed(m) ==
    /\ Pair("transfer-encoding", "chunked") \notin ToSet(m.headers)
    /\ SelectSeq(m.headers, LAMBDA h : h[1] = "content-length") = ContentLength(m.body)
    /\ m.body > 0 \/ m.status = "204"

(* What the peer meant: the request as parsed when nothing goes wrong.       *)
(* PARSED: path, headers, body.                                              *)
Parsed(p) == [path |-> p.m_path, headers |-> p.m_headers, body |-> p.m_body]
Meant(m) ==
    [path |-> Whole(m.path),
     headers |-> [f \in {Whole(h[1]) : h \in ToSet(m.headers)} |->
                     Whole((CHOOSE h \in ToSet(m.headers) : Whole(h[1]) = f)[2])],
     body |-> [i \in 1 .. m.body |-> <<"body", i>>]]

-----------------------------------------------------------------------------
(* ServletDispatch: m_datas by path, m_globs in the order they were added,   *)
(* m_default for the rest.  A servlet is what it answers.                    *)

CONSTANT FnMatch     (* external: the pairs <<pattern, path>> of fnmatch()   *)

Servlet == [status : STRING, body : Lengths, headers : Headers]
NotFoundServlet ==
    [status |-> "404", body |-> 1, headers |-> <<Pair("content-type", "html")>>]
addServlet(d, uri, slt) ==
    [d EXCEPT !.m_datas = [u \in DOMAIN @ \cup {uri} |-> IF u = uri THEN slt ELSE @[u]]]
delServlet(d, uri) == [d EXCEPT !.m_datas = [u \in DOMAIN @ \ {uri} |-> @[u]]]
delGlobServlet(d, uri) == [d EXCEPT !.m_globs = Without(@, uri)]
addGlobServlet(d, uri, slt) ==
    [delGlobServlet(d, uri) EXCEPT !.m_globs = Append(@, <<uri, slt>>)]
setDefault(d, slt) == [d EXCEPT !.m_default = slt]
getMatchedServlet(d, path) ==
    LET hits == {i \in DOMAIN d.m_globs : <<d.m_globs[i][1], path>> \in FnMatch}
    IN  IF path \in DOMAIN d.m_datas THEN d.m_datas[path]
        ELSE IF hits # {} THEN d.m_globs[CHOOSE i \in hits : \A j \in hits : i <= j][2]
        ELSE d.m_default
=============================================================================
