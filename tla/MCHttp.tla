------------------------------- MODULE MCHttp -------------------------------
(* Model-checking instance of Http. *)
EXTENDS Http

CONSTANTS f1, f2

(* The servlets: one with a body, one without, one with nothing to say (and  *)
(* a connection header dump() leaves out), one that sets content-length      *)
(* itself, one that announces chunks, and everything else under a pattern.   *)
Ok    == [status |-> "200", body |-> 2, headers |-> <<>>]
Mute  == [status |-> "200", body |-> 0, headers |-> <<>>]
Void  == [status |-> "204", body |-> 0, headers |-> <<Pair("connection", "close")>>]
Eager == [status |-> "200", body |-> 1, headers |-> <<Pair("content-length", "n1")>>]
Lumpy == [status |-> "204", body |-> 0, headers |-> <<Pair("transfer-encoding", "chunked")>>]
Servlets ==
    [m_datas |-> (Whole("/ok") :> Ok) @@ (Whole("/mute") :> Mute) @@ (Whole("/void") :> Void)
                @@ (Whole("/eager") :> Eager) @@ (Whole("/lumpy") :> Lumpy),
     m_globs |-> <<<<"/o*", Void>>, <<"/*", Ok>>>>, m_default |-> NotFoundServlet]
Matches == {"/o*"} \X {Whole("/ok")} \cup {"/*"} \X {Whole("/ok"), Whole("/mute"), <<<<"/ok", 1>>>>}
SlashUrls == {"/a/b"}
OkUri == Whole("/ok")

Message(path, version, headers, body) ==
    [path |-> path, version |-> version, headers |-> headers, body |-> body]
KeepAlive == Pair("connection", "keep-alive")
Get == Message("/void", "1.1", <<KeepAlive>>, 0)
Chunked == Message("/ok", "1.0", <<KeepAlive, Pair("transfer-encoding", "chunked")>>, 2)
Upgraded == Message("/ok", "1.1", <<Pair("connection", "upgrade"), Pair("upgrade", "ws")>>, 0)
Twice == Message("/ok", "1.1", <<Pair("content-length", "n1"), Pair("content-length", "n1")>>, 1)
Old == Message("/a/b", "1.0", <<>>, 0)

(* A server that runs on one socket, with one fiber.                         *)
Quiet ==
    [bound |-> {1}, calls |-> 0, changes |-> 0, keepalive |-> TRUE, fibers |-> {f1},
     requests |-> 0, direct |-> 0, wanted |-> {}, foreign |-> {}, cuts |-> 0, timeouts |-> 0]
Get1(path) == HttpRequest(path, <<KeepAlive>>, 0)
Post == HttpRequest("/ok", <<Pair("host", "h"), Pair("content-length", "n1"), KeepAlive>>, 2)
All == {
    \* Two fibers share the pool, answers are late.
    [Quiet EXCEPT !.fibers = {f1, f2}, !.requests = 3, !.wanted = {Get1("/ok")}, !.timeouts = 2],
    \* One uses the pool, one a connection of its own.
    [Quiet EXCEPT !.fibers = {f1, f2}, !.requests = 1, !.direct = 2, !.wanted = {Get1("/ok")},
         !.timeouts = 1],
    \* Requests that close, and answers without a length, with two or without their chunks.
    [Quiet EXCEPT !.requests = 3,
         !.wanted = {Get1("/mute"), Get1("/eager"), Get1("/lumpy"), HttpRequest("/void", <<>>, 0)}],
    \* A server that does not keep connections, while its servlets change.
    [Quiet EXCEPT !.requests = 2, !.wanted = {Get1("/ok")}, !.changes = 2, !.keepalive = FALSE],
    \* Reads end anywhere.
    [Quiet EXCEPT !.requests = 2, !.wanted = {Post}, !.cuts = 2],
    \* Foreign requests, cut.
    [Quiet EXCEPT !.cuts = 1,
         !.foreign = {<<Chunked>>, <<Upgraded>>, <<Twice>>, <<Get, Get>>, <<Old>>}],
    \* bind(), start() and stop() in any order.
    [Quiet EXCEPT !.bound = {}, !.calls = 4, !.requests = 1, !.wanted = {Get1("/void")}]}
Cuts == {[Quiet EXCEPT !.requests = 1, !.wanted = {Post}, !.cuts = 1]}
=============================================================================
