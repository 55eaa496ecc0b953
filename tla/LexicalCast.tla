---------------------------- MODULE LexicalCast ----------------------------
(***************************************************************************)
(* The conversions of sylar/config.h and of the log configuration in       *)
(* sylar/log.cc, between YAML text and configuration values.               *)
(*                                                                         *)
(* A text is the sequence of the items of a YAML node.  An item of an      *)
(* ordinary type is [ok, key, val]: ok says that val can be converted, and *)
(* key is used by maps only.  An item of "logs" is a logger's entry:       *)
(* [ok, name, level, formatter, appenders], ok saying that it has a name,  *)
(* with appenders of [type, file, formatter].  A formatter is a pattern,   *)
(* <<>> if there is none.                                                  *)
(***************************************************************************)
EXTENDS Integers, Sequences, FiniteSets, SequencesExt

Types == {"int", "vector", "set", "map", "logs"}

Converted(v) == [ok |-> TRUE, value |-> v]
Throws       == [ok |-> FALSE]

(* The elements of s that are in S, in their order: a loop that passes over  *)
(* the others.  (SelectSeq with a test would need a lemma about every test.) *)
Kept(s, S) ==
    LET kept[i \in 0 .. Len(s)] ==
            IF i = 0 THEN <<>>
            ELSE IF s[i] \in S THEN Append(kept[i - 1], s[i]) ELSE kept[i - 1]
    IN  kept[Len(s)]

(* map::insert() and set::insert() keep the first of two equal keys.         *)
FirstWith(text, key(_), k) ==
    text[CHOOSE i \in 1 .. Len(text) :
             key(text[i]) = k /\ \A j \in 1 .. i - 1 : key(text[j]) # k]

(* LogLevel::FromString(): 0, UNKNOW, for every text but a level's name, in   *)
(* capitals or without.                                                      *)
LevelNames == <<"DEBUG", "INFO", "WARN", "ERROR", "FATAL">>
SmallNames == <<"debug", "info", "warn", "error", "fatal">>
FromString(s) == IF Contains(LevelNames \o SmallNames, s)
                 THEN CHOOSE n \in 1 .. 5 : s \in {LevelNames[n], SmallNames[n]}
                 ELSE 0
(* Mutant: the names are those of the next level.                            *)
LevelNameShifted(n) == IF n \in 1 .. 4 THEN LevelNames[n + 1] ELSE "UNKNOW"
LevelName(n)  == IF n \in 1 .. 5 THEN LevelNames[n] ELSE "UNKNOW"

(* An appender's entry is left out when its type is missing or unknown, or a *)
(* file appender has no file.  Its level is not read: it stays UNKNOW.       *)
LogAppenderDefine(a) ==
    [type |-> a.type, level |-> 0, formatter |-> a.formatter,
     file |-> IF a.type = "file" THEN a.file ELSE "none"]
LogDefine(item) ==
    LET good(a) == a.type = "stdout" \/ (a.type = "file" /\ a.file # "none")
        kept    == Kept(item.appenders, {a \in ToSet(item.appenders) : good(a)})
    IN  [name |-> item.name, level |-> FromString(item.level),
         formatter |-> item.formatter,
         appenders |-> [i \in 1 .. Len(kept) |-> LogAppenderDefine(kept[i])]]

(* A set<LogDefine> is ordered and unique by name: here, a function of it.   *)
LogDefines(text) ==
    [n \in {text[i].name : i \in 1 .. Len(text)} |->
        LogDefine(FirstWith(text, LAMBDA it : it.name, n))]

Cast(type, text) ==
    IF \E i \in 1 .. Len(text) : ~text[i].ok THEN Throws
    ELSE CASE type = "int"    -> IF Len(text) = 1 THEN Converted(text[1].val) ELSE Throws
           [] type = "vector" -> Converted([i \in 1 .. Len(text) |-> text[i].val])
           [] type = "set"    -> Converted({text[i].val : i \in 1 .. Len(text)})
           [] type = "map"    ->
                Converted([k \in {text[i].key : i \in 1 .. Len(text)} |->
                              FirstWith(text, LAMBDA it : it.key, k).val])
           [] type = "logs"   -> Converted(LogDefines(text))

(* And back: the text that toString() gives for a value.                     *)
Item(k, v) == [ok |-> TRUE, key |-> k, val |-> v]
LogItem(d) ==
    [ok |-> TRUE, name |-> d.name, level |-> LevelName(d.level),
     formatter |-> d.formatter,
     appenders |-> [i \in 1 .. Len(d.appenders) |->
                       [type |-> d.appenders[i].type, file |-> d.appenders[i].file,
                        formatter |-> d.appenders[i].formatter]]]
Text(type, v) ==
    CASE type = "int"    -> <<Item(0, v)>>
      [] type = "vector" -> [i \in 1 .. Len(v) |-> Item(0, v[i])]
      [] type = "set"    -> LET s == SetToSeq(v) IN [i \in 1 .. Len(s) |-> Item(0, s[i])]
      [] type = "map"    -> LET s == SetToSeq(DOMAIN v)
                            IN  [i \in 1 .. Len(s) |-> Item(s[i], v[s[i]])]
      [] type = "logs"   -> LET s == SetToSeq(DOMAIN v)
                            IN  [i \in 1 .. Len(s) |-> LogItem(v[s[i]])]

(* The values a variable can hold: those that a text converts to.            *)
IsSequence(s) == s \in Seq(ToSet(s))
IsLogDefine(n, d) ==
    /\ d = [name |-> n, level |-> d.level, formatter |-> d.formatter,
            appenders |-> d.appenders]
    /\ d.level \in 0 .. 5 /\ d.formatter \in Seq(STRING) /\ IsSequence(d.appenders)
    /\ \A i \in DOMAIN d.appenders :
           LET a == d.appenders[i]
           IN  /\ a = [type |-> a.type, level |-> 0, formatter |-> a.formatter,
                       file |-> a.file]
               /\ \/ a.type = "stdout" /\ a.file = "none"
                  \/ a.type = "file" /\ a.file # "none"
IsValue(type, v) ==
    CASE type = "int"    -> TRUE
      [] type = "vector" -> IsSequence(v)
      [] type = "set"    -> IsFiniteSet(v)
      [] type = "map"    -> IsFiniteSet(DOMAIN v) /\ v = [k \in DOMAIN v |-> v[k]]
      [] type = "logs"   -> /\ IsFiniteSet(DOMAIN v) /\ v = [n \in DOMAIN v |-> v[n]]
                            /\ \A n \in DOMAIN v : IsLogDefine(n, v[n])

(* The texts of a variable of the type.                                      *)
IsText(type, text) ==
    /\ IsSequence(text)
    /\ type = "logs" => \A i \in DOMAIN text : /\ text[i].formatter \in Seq(STRING)
                                               /\ IsSequence(text[i].appenders)

(* operator== of LogDefine compares appenders with itself: two definitions   *)
(* that differ in their appenders only are equal.                            *)
SameDefine(d, e) == d.level = e.level /\ d.formatter = e.formatter
Same(type, v, w) ==
    IF type = "logs"
    THEN DOMAIN v = DOMAIN w /\ \A n \in DOMAIN v : SameDefine(v[n], w[n])
    ELSE v = w
=============================================================================
