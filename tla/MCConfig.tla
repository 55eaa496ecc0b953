------------------------------ MODULE MCConfig ------------------------------
(* Model-checking instance of Log, and of Config with it. *)
EXTENDS Log

CONSTANTS t1, t2, r1

TIMEOUT == <<"tcp", "timeout">>
PORTS   == <<"ports">>
Tiny == {LOGS, TIMEOUT, PORTS}
TypesOf == (LOGS :> "logs") @@ (TIMEOUT :> "int") @@ (PORTS :> "map")
Defaults == (LOGS :> <<>>) @@ (TIMEOUT :> 1) @@ (PORTS :> <<>>)

(* Entries of loggers: [ok, name, level, formatter, appenders].              *)
Entry(n, level, f, as) ==
    [ok |-> TRUE, name |-> n, level |-> level, formatter |-> f, appenders |-> as]
App(type, file, f) == [type |-> type, file |-> file, formatter |-> f]
Broken == <<"%", "d", "{">>
Short  == <<"%", "m">>
Node(path, text) == [path |-> path, text |-> text]

(* A logger and the root get appenders, one of them with a broken pattern    *)
(* and one without a type.                                                   *)
First ==
    <<Node(<<"tcp">>, <<Item(0, 1), Item(0, 2)>>), Node(TIMEOUT, <<Item(0, 2)>>),
      Node(LOGS, <<Entry("root", "INFO", <<>>, <<App("file", "f", Broken)>>),
                   Entry("system", "info", Short,
                         <<App("file", "f", <<>>), App("none", "f", <<>>)>>)>>)>>
(* The logger is gone, the root changes, a map has a key twice, and a key    *)
(* is not valid.                                                             *)
Second ==
    <<Node(PORTS, <<Item(1, 1), Item(1, 2)>>), Node(<<"A">>, <<>>),
      Node(LOGS, <<Entry("root", "WARN", Short, <<App("stdout", "none", <<>>)>>),
                   Entry("root", "DEBUG", <<>>, <<>>)>>)>>
Late == {PORTS}
Both == {First, Second}
(* The logger of First changes in its appenders only, the root goes.         *)
Swapped == LogDefines(<<Entry("system", "INFO", Short, <<App("stdout", "none", <<>>)>>)>>)
Sets == {<<TIMEOUT, 3>>, <<LOGS, Swapped>>}
TwoAndOne == (t1 :> 2) @@ (t2 :> 1)
TwoLoggers == {"root", "system"}
SomePatterns == {<<"%", "%">>, <<"%", "d">>}
=============================================================================
