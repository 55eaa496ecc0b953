----------------------------- MODULE HttpParser -----------------------------
(***************************************************************************)
(* sylar/http/http-parser/http_parser.c and the callbacks and execute() of *)
(* sylar/http/http_parser.cc that keep what it reports.                    *)
(*                                                                         *)
(* The wire is a sequence of tokens [k, w, i].  A name, a url or a value   *)
(* is a word w of two parts, i = 1, 2, so that a read can end before, in   *)
(* and after it; a text is a sequence of parts <<w, i>>.  The other tokens *)
(* (the method, the versions, the status line, a line end, a byte of a     *)
(* body, a chunk size line) are read whole: a cut in them only moves the   *)
(* state on.  A method and a version of a response carry the number of the *)
(* request they are about (history).                                       *)
(***************************************************************************)
EXTENDS Naturals, SequencesExt

CONSTANT SlashTail   (* urls whose second part begins with '/'               *)

Tok(k, w, i) == [k |-> k, w |-> w, i |-> i]
Whole(w) == <<<<w, 1>>, <<w, 2>>>>
Both(k, w) == <<Tok(k, w, 1), Tok(k, w, 2)>>
Crlf == Tok("crlf", "crlf", 1)
Numbers == [n0 |-> 0, n1 |-> 1, n2 |-> 2]
NoLength == 9        (* ULLONG_MAX                                           *)

(* http_parser_init(), and the HttpRequest or HttpResponse it fills.  The    *)
(* header states of the C code are the texts name and val they recognise.    *)
(* got: the messages begun, cut: did a read end where a text was open?       *)
http_parser_init(type) ==
    [type |-> type, state |-> "s_start", flags |-> {}, length |-> NoLength,
     version |-> "1.1", status |-> "200", name |-> <<>>, val |-> <<>>,
     mark |-> "none", buf |-> <<>>, errno |-> FALSE, upgrade |-> FALSE,
     exit |-> FALSE, got |-> <<>>, cut |-> FALSE,
     m_path |-> Whole("/"), m_headers |-> <<>>, m_body |-> <<>>,
     m_field |-> <<>>, m_finished |-> FALSE]

Fails(p) == [p EXCEPT !.errno = TRUE]

-----------------------------------------------------------------------------
(* What http_parser.cc does with what is reported.                           *)

(* http_parser_parse_url(): a url that begins with '/' is a path; an empty   *)
(* one, and one whose scheme has no host, is an error.                       *)
parse_url(buf) ==
    /\ buf # <<>>
    /\ Head(buf)[2] = 1 \/ Head(buf)[1] \in SlashTail

on_url(p) ==
    IF p.type = "response" THEN p
    ELSE IF parse_url(p.buf) THEN [p EXCEPT !.m_path = p.buf]
    ELSE Fails(p)
on_header_field(p) == [p EXCEPT !.m_field = p.buf]
on_header_value(p) == [p EXCEPT !.m_headers = (p.m_field :> p.buf) @@ @]
(* Mutant: the body is what was reported last.                               *)
OnBodyLast(p) == [p EXCEPT !.m_body = p.buf]
on_body(p) == [p EXCEPT !.m_body = @ \o p.buf]
on_message_complete(p) == [p EXCEPT !.m_finished = TRUE]

(* CALLBACK_DATA: what is marked is reported and the mark removed.           *)
Callback(p) ==
    LET q == CASE p.mark = "url"   -> on_url(p)
               [] p.mark = "field" -> on_header_field(p)
               [] p.mark = "value" -> on_header_value(p)
               [] p.mark = "body"  -> on_body(p)
               [] p.mark = "none"  -> p
    IN  [q EXCEPT !.mark = "none", !.buf = <<>>]

(* MARK: what is read from here on is one text.                              *)
Mark(p, m, t) ==
    [p EXCEPT !.mark = m, !.buf = IF p.mark = m THEN Append(@, <<t.w, t.i>>)
                                  ELSE <<<<t.w, t.i>>>>]

-----------------------------------------------------------------------------
(* The end of a message.                                                     *)

Informational == {"100", "101", "102", "103"}
http_message_needs_eof(p) ==
    /\ p.type = "response" /\ p.status \notin Informational \cup {"204", "304"}
    /\ "chunked" \notin p.flags /\ p.length = NoLength

http_should_keep_alive(p) ==
    /\ IF p.version = "1.1" THEN "close" \notin p.flags ELSE "keep-alive" \in p.flags
    /\ ~http_message_needs_eof(p)

(* s_message_done: NEW_MESSAGE() and on_message_complete; after an upgrade   *)
(* the rest is left alone.                                                   *)
message_done(p) ==
    [on_message_complete(p) EXCEPT
        !.state = IF http_should_keep_alive(p) THEN "s_start" ELSE "s_dead",
        !.exit = p.upgrade]

(* s_headers_done                                                            *)
headers_done(p) ==
    IF "chunked" \in p.flags THEN [p EXCEPT !.state = "s_chunk_size"]
    ELSE IF p.length \notin {0, NoLength} THEN [p EXCEPT !.state = "s_body_identity"]
    ELSE IF ~p.upgrade /\ http_message_needs_eof(p)
         THEN [p EXCEPT !.state = "s_body_identity_eof"]
    ELSE message_done(p)

(* s_headers_almost_done                                                     *)
headers_almost_done(p) ==
    IF "trailing" \in p.flags THEN message_done(p)
    ELSE IF {"chunked", "content-length"} \subseteq p.flags THEN Fails(p)
    ELSE headers_done([p EXCEPT !.upgrade =
             /\ {"upgrade", "connection-upgrade"} \subseteq p.flags
             /\ p.type = "request" \/ p.status = "101"])

-----------------------------------------------------------------------------
(* One token in each of the states.                                          *)

(* A message begins.                                                         *)
Begun(p, t) == [p EXCEPT !.flags = {}, !.length = NoLength, !.got = Append(@, t.i)]
(* s_start_req, s_req_method                                                 *)
StartReq(p, t) ==
    CASE t.k = "crlf" -> p
      [] t.k = "method" -> [Begun(p, t) EXCEPT !.state = "s_req_url"]
      [] OTHER -> Fails(p)
(* s_start_res to s_res_http_end; s_res_first_status_code to s_res_status    *)
StartRes(p, t) ==
    CASE t.k = "crlf" -> p
      [] t.k = "http" -> [Begun(p, t) EXCEPT !.state = "s_res_status", !.version = t.w]
      [] OTHER -> Fails(p)
StatusLine(p, t) ==
    IF t.k = "code" THEN [p EXCEPT !.status = t.w, !.state = "s_header_field_start"]
    ELSE Fails(p)

(* The characters of a url, whichever of its parts they lead to.             *)
parse_url_char(t) == t.k = "url"

(* s_req_spaces_before_url, s_req_path and the states of the other parts;    *)
(* the blank that ends the url reports it.                                   *)
Url(p, t) ==
    IF parse_url_char(t) THEN [Mark(p, "url", t) EXCEPT !.state = "s_req_path"]
    ELSE Fails(p)
(* s_req_http_start to s_req_line_almost_done                                *)
Version(p, t) == [p EXCEPT !.version = t.w, !.state = "s_header_field_start"]
Path(p, t) ==
    CASE parse_url_char(t) -> Mark(p, "url", t)
      [] t.k = "version" -> Version(Callback(p), t)
      [] OTHER -> Fails(p)

(* s_header_field_start, s_header_field                                      *)
FieldStart(p, t) ==
    CASE t.k = "crlf" -> headers_almost_done(p)
      [] t.k = "field" -> [Mark(p, "field", t) EXCEPT !.state = "s_header_field",
                                                      !.name = <<<<t.w, t.i>>>>]
      [] OTHER -> Fails(p)
Field(p, t) ==
    CASE t.k = "field" -> [Mark(p, "field", t) EXCEPT !.name = Append(@, <<t.w, t.i>>)]
      [] t.k = "colon" -> Callback([p EXCEPT !.state = "s_header_value_start", !.val = <<>>])
      [] OTHER -> Fails(p)

(* s_header_value_discard_ws to s_header_value_start: an empty value is      *)
(* reported too; content-length must be given once, with a number.           *)
ValueStart(p, t) ==
    LET length  == p.name = Whole("content-length")
        refused == length /\ ("content-length" \in p.flags \/ t.w \notin DOMAIN Numbers)
    IN  CASE t.k = "crlf" ->
                 IF length THEN Fails(p)
                 ELSE Callback([p EXCEPT !.mark = "value", !.buf = <<>>,
                                         !.state = "s_header_field_start"])
          [] t.k = "value" ->
                 IF refused THEN Fails(p)
                 ELSE [Mark(p, "value", t) EXCEPT
                     !.state = "s_header_value", !.val = <<<<t.w, t.i>>>>,
                     !.flags = @ \cup (IF p.name = Whole("upgrade") THEN {"upgrade"} ELSE {})
                                 \cup (IF length THEN {"content-length"} ELSE {})]
          [] OTHER -> Fails(p)

(* What a header that has been read means to the parser.                     *)
Meaning(p) ==
    CASE p.name = Whole("connection") /\ p.val = Whole("keep-alive") -> {"keep-alive"}
      [] p.name = Whole("connection") /\ p.val = Whole("close") -> {"close"}
      [] p.name = Whole("connection") /\ p.val = Whole("upgrade") -> {"connection-upgrade"}
      [] p.name = Whole("transfer-encoding") /\ p.val = Whole("chunked") -> {"chunked"}
      [] OTHER -> {}

(* s_header_value, s_header_almost_done, s_header_value_lws                  *)
Value(p, t) ==
    CASE t.k = "value" -> [Mark(p, "value", t) EXCEPT !.val = Append(@, <<t.w, t.i>>)]
      [] t.k = "crlf" ->
             Callback([p EXCEPT
                 !.state = "s_header_field_start", !.flags = @ \cup Meaning(p),
                 !.length = IF p.name = Whole("content-length")
                            THEN Numbers[Head(p.val)[1]] ELSE @])
      [] OTHER -> Fails(p)

(* s_body_identity: the last byte of the body ends the message.              *)
Body(p, t) ==
    LET q == [Mark(p, "body", t) EXCEPT !.length = @ - 1]
    IN  IF t.k # "body" THEN Fails(p)
        ELSE IF q.length = 0 THEN message_done(Callback(q)) ELSE q

(* s_chunk_size_start to s_chunk_data_done                                   *)
ChunkSize(p, t) ==
    IF t.k # "size" THEN Fails(p)
    ELSE IF Numbers[t.w] = 0
         THEN [p EXCEPT !.length = 0, !.flags = @ \cup {"trailing"},
                        !.state = "s_header_field_start"]
    ELSE [p EXCEPT !.length = Numbers[t.w], !.state = "s_chunk_data"]
ChunkData(p, t) ==
    LET q == [Mark(p, "body", t) EXCEPT !.length = @ - 1]
    IN  IF t.k # "body" THEN Fails(p)
        ELSE IF q.length = 0 THEN [q EXCEPT !.state = "s_chunk_data_done"] ELSE q
ChunkDataDone(p, t) ==
    IF t.k = "crlf" THEN Callback([p EXCEPT !.state = "s_chunk_size"]) ELSE Fails(p)

(* The switch of http_parser_execute().                                      *)
Switch(p, t) ==
    IF p.errno \/ p.exit THEN p
    ELSE CASE p.state = "s_dead"               -> IF t.k = "crlf" THEN p ELSE Fails(p)
           [] p.state = "s_start"              -> IF p.type = "request" THEN StartReq(p, t)
                                                  ELSE StartRes(p, t)
           [] p.state = "s_res_status"         -> StatusLine(p, t)
           [] p.state = "s_req_url"            -> Url(p, t)
           [] p.state = "s_req_path"           -> Path(p, t)
           [] p.state = "s_header_field_start" -> FieldStart(p, t)
           [] p.state = "s_header_field"       -> Field(p, t)
           [] p.state = "s_header_value_start" -> ValueStart(p, t)
           [] p.state = "s_header_value"       -> Value(p, t)
           [] p.state = "s_body_identity"      -> Body(p, t)
           [] p.state = "s_body_identity_eof"  -> Mark(p, "body", t)
           [] p.state = "s_chunk_size"         -> ChunkSize(p, t)
           [] p.state = "s_chunk_data"         -> ChunkData(p, t)
           [] p.state = "s_chunk_data_done"    -> ChunkDataDone(p, t)

(* A call begins inside a text: what it reports starts with the data.        *)
Resume(p) ==
    LET mark == CASE p.state = "s_req_path"     -> "url"
                  [] p.state = "s_header_field" -> "field"
                  [] p.state = "s_header_value" -> "value"
                  [] OTHER -> "none"
    IN  [p EXCEPT !.mark = mark, !.buf = <<>>, !.cut = @ \/ mark # "none"]

(* http_parser_execute(): the data, then what is still marked.               *)
http_parser_execute(p, data) ==
    LET run[i \in 0 .. Len(data)] ==
            IF i = 0 THEN Resume(p) ELSE Switch(run[i - 1], data[i])
        q == run[Len(data)]
    IN  IF p.errno THEN p
        ELSE IF q.errno \/ q.exit THEN q ELSE Callback(q)

(* The parsers of http_parser.cc.  What execute() leaves for hasError(): a   *)
(* request that asks for another protocol is an error, a response is not.    *)
HttpRequestParser == http_parser_init("request")
HttpResponseParser == http_parser_init("response")
RequestError(p) == p.errno \/ p.upgrade
ResponseError(p) == p.errno
=============================================================================
