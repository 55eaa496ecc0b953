-------------------------------- MODULE Log --------------------------------
(***************************************************************************)
(* sylar/log.{h,cc}: loggers that are reconfigured by the listener of the  *)
(* configuration variable "logs" while other threads log through them.     *)
(*                                                                         *)
(* Every method of Logger is one step, under the logger's spin lock; the   *)
(* listener calls them one after the other, inside setValue() (Config).    *)
(* Of a record its logger and level are kept, and where it has gone.       *)
(***************************************************************************)
EXTENDS Config, LogFormatter

CONSTANTS Reporters,     (* threads that log                                 *)
          Loggers,       (* the names the application asks loggers by        *)
          Levels,        (* the levels of the records                        *)
          Patterns,      (* the patterns setFormatter() is called with       *)
          MaxRecords     (* bound: records each of them logs                 *)

LOGS == <<"logs">>
DefaultPattern == <<"%", "m", "%", "n">>
DEBUG == 1
DefaultFormatter == LogFormatterOf(DefaultPattern, FALSE)

(* "logs", the one variable of its type, is looked up before main(), with no *)
(* definitions.  What is said of the default pattern is a fact, which TLC    *)
(* computes.                                                                 *)
ASSUME LogAssumption ==
    /\ LOGS \in Names \ LateNames /\ Default[LOGS] = <<>>
    /\ \A n \in Names : Wanted[n] = "logs" <=> n = LOGS
    /\ Levels \subseteq 1 .. 5 /\ MaxRecords \in Nat
    /\ Patterns \cup {DefaultPattern} \subseteq Seq(STRING) /\ ~DefaultFormatter.m_error

VARIABLES m_loggers,   (* LoggerManager: m_level, m_formatter, m_appenders   *)
                       (* of each logger that exists, by name                *)
          event,       (* the record a thread is about to log, or None       *)
          records,     (* how many it has logged                             *)
          dropped,     (* history: a record got no appender although the     *)
                       (* root is configured to have one                     *)
          applied      (* history: the definitions as the listener has       *)
                       (* applied them, by name                              *)

logVars == <<m_loggers, event, records, dropped, applied>>
vars    == <<configVars, logVars>>

Stdout == [type |-> "stdout", file |-> "none", m_level |-> DEBUG,
           m_formatter |-> DefaultFormatter, m_hasFormatter |-> FALSE]

LoggerOf(appenders) ==
    [m_level |-> DEBUG, m_formatter |-> DefaultFormatter, m_appenders |-> appenders]

Init ==
    /\ ConfigInit
    /\ m_loggers = [n \in {"root"} |-> LoggerOf(<<Stdout>>)]
    /\ event = [t \in Reporters |-> None] /\ records = [t \in Reporters |-> 0]
    /\ dropped = FALSE /\ applied = <<>>

(* getLogger() creates a logger that does not exist.                         *)
getLogger(n) == IF n \in DOMAIN m_loggers THEN m_loggers[n] ELSE LoggerOf(<<>>)

(* The loggers, with g as the one of the name n.                             *)
WithLogger(n, g) ==
    [m \in DOMAIN m_loggers \cup {n} |-> IF m = n THEN g ELSE m_loggers[m]]

-----------------------------------------------------------------------------
(* Logger's methods, on the logger g.                                        *)

setLevel(g, level) == [g EXCEPT !.m_level = level]

(* Mutant: every pattern is accepted.                                        *)
SetFormatterUnchecked(g, f) == [g EXCEPT !.m_formatter = f]

(* A pattern with an error is refused; appenders without a formatter of      *)
(* their own follow the logger.                                              *)
setFormatter(g, f) ==
    IF f.m_error THEN g
    ELSE [g EXCEPT !.m_formatter = f,
                   !.m_appenders = [i \in 1 .. Len(@) |->
                       IF @[i].m_hasFormatter THEN @[i]
                       ELSE [@[i] EXCEPT !.m_formatter = f]]]

clearAppenders(g) == [g EXCEPT !.m_appenders = <<>>]

(* The appender the listener makes of its definition, f being what its       *)
(* pattern gives, and addAppender(), which lends it the logger's formatter.  *)
addAppender(g, a, f) ==
    LET own == a.formatter # <<>> /\ ~f.m_error
    IN  [g EXCEPT !.m_appenders = Append(@,
            [type |-> a.type, file |-> a.file, m_level |-> a.level,
             m_formatter |-> IF own THEN f ELSE g.m_formatter,
             m_hasFormatter |-> own])]

-----------------------------------------------------------------------------
(* The listener LogIniter registers.                                         *)

Op(op, n, arg) == [op |-> op, logger |-> n, arg |-> arg]

(* Mutant: the old appenders stay.                                           *)
DefineAdds(d) ==
    <<Op("setLevel", d.name, d.level)>>
        \o [i \in 1 .. Len(d.appenders) |-> Op("addAppender", d.name, d.appenders[i])]

Define(d) ==
    <<Op("setLevel", d.name, d.level)>>
        \o (IF d.formatter = <<>> THEN <<>> ELSE <<Op("setFormatter", d.name, d.formatter)>>)
        \o <<Op("clearAppenders", d.name, 0)>>
        \o [i \in 1 .. Len(d.appenders) |-> Op("addAppender", d.name, d.appenders[i])]
Undefine(n) == <<Op("setLevel", n, 0), Op("clearAppenders", n, 0)>>

(* What it does: definitions that are new or differ, then those that are     *)
(* gone.                                                                     *)
Differs(old, new) ==
    {n \in DOMAIN new : n \notin DOMAIN old \/ ~SameDefine(new[n], old[n])}
Plan(old, new) ==
    LET changed == SetToSeq(Differs(old, new))
        gone    == SetToSeq(DOMAIN old \ DOMAIN new)
    IN  FlattenSeq([i \in 1 .. Len(changed) |-> Define(new[changed[i]])]
                       \o [i \in 1 .. Len(gone) |-> Undefine(gone[i])])

(* The definitions that have then been applied: a name that does not differ  *)
(* keeps the one it had.                                                     *)
Applies(old, new) ==
    [n \in DOMAIN new |-> IF n \in DOMAIN applied \ Differs(old, new)
                          THEN applied[n] ELSE new[n]]

(* setValue() calls the listener.                                            *)
LogConfChanged(t) ==
    LET old == s_datas[job[t].name].m_val
        new == job[t].value
    IN  /\ pc[t] = "listen" /\ job[t].plan = <<>>
        /\ job[t].cbs # {} /\ NextListener(t) = LogListener
        /\ job' = [job EXCEPT ![t].cbs = @ \ {LogListener}, ![t].plan = Plan(old, new)]
        /\ applied' = Applies(old, new)
        /\ UNCHANGED <<s_datas, readers, pc, calls, copy, want, raced, m_loggers,
                       event, records, dropped>>

(* One call of a method by the listener.                                     *)
PlanStep(t) ==
    /\ job[t].plan # <<>>
    /\ \E beyond \in BOOLEAN :
           LET s == Head(job[t].plan)
               g == getLogger(s.logger)
               becomes(h) == m_loggers' = WithLogger(s.logger, h)
           IN  \/ s.op = "setLevel" /\ becomes(setLevel(g, s.arg))
               \/ s.op = "setFormatter" /\ becomes(setFormatter(g, LogFormatterOf(s.arg, beyond)))
               \/ s.op = "clearAppenders" /\ becomes(clearAppenders(g))
               \/ /\ s.op = "addAppender"
                  /\ becomes(addAppender(g, s.arg, LogFormatterOf(s.arg.formatter, beyond)))
    /\ job' = [job EXCEPT ![t].plan = Tail(@)]
    /\ UNCHANGED <<s_datas, readers, pc, calls, copy, want, raced, event, records,
                   dropped, applied>>

-----------------------------------------------------------------------------
(* Logging.                                                                  *)

(* The appenders that write a record of the level.                           *)
Writers(g, level) == {i \in 1 .. Len(g.m_appenders) : level >= g.m_appenders[i].m_level}

(* Logger::log(): the logger's appenders, or, when it has none, the root's,  *)
(* if the level is high enough for each logger on the way.                   *)
Accepts(n, level) == level >= m_loggers[n].m_level
(* Mutant: a logger without appenders does not turn to the root.             *)
ReachesOwn(n, level) == Writers(m_loggers[n], level)

Reaches(n, level) ==
    IF m_loggers[n].m_appenders # <<>> THEN Writers(m_loggers[n], level)
    ELSE IF n # "root" /\ Accepts("root", level)
    THEN Writers(m_loggers["root"], level) ELSE {}

(* SYLAR_LOG_LEVEL: the level is tested before the event is made ...         *)
Report(t, n, level) ==
    /\ event[t] = None /\ records[t] < MaxRecords
    /\ records' = [records EXCEPT ![t] = @ + 1]
    /\ m_loggers' = WithLogger(n, getLogger(n))
    /\ event' = IF level >= getLogger(n).m_level
                THEN [event EXCEPT ![t] = [logger |-> n, level |-> level]] ELSE event
    /\ UNCHANGED <<configVars, dropped, applied>>

(* Has the root appenders, by a configuration that has been applied?         *)
RootConfigured ==
    /\ Settled(LOGS)
    /\ "root" \in DOMAIN applied /\ applied["root"].appenders # <<>>

(* ... and LogEventWrap's destructor logs it.                                *)
Log(t) ==
    /\ event[t] # None
    /\ LET n == event[t].logger
           l == event[t].level
       IN  dropped' = (dropped \/ (/\ RootConfigured /\ Reaches(n, l) = {}
                                   /\ Accepts(n, l) /\ Accepts("root", l)))
    /\ event' = [event EXCEPT ![t] = None]
    /\ UNCHANGED <<configVars, m_loggers, records, applied>>

(* setFormatter() by the application, on the root.                           *)
SetFormatter(t, p, beyond) ==
    /\ event[t] = None /\ records[t] < MaxRecords
    /\ records' = [records EXCEPT ![t] = @ + 1]
    /\ m_loggers' = WithLogger("root", setFormatter(m_loggers["root"], LogFormatterOf(p, beyond)))
    /\ UNCHANGED <<configVars, event, dropped, applied>>

Step(t) == \/ ConfigStep(t) /\ UNCHANGED logVars
           \/ LogConfChanged(t) \/ PlanStep(t)

Next ==
    \/ \E t \in Threads : Step(t) \/ (ConfigCall(t) /\ UNCHANGED logVars)
    \/ \E t \in Reporters :
           \/ \E n \in Loggers, level \in Levels : Report(t, n, level)
           \/ \E p \in Patterns, beyond \in BOOLEAN : SetFormatter(t, p, beyond)
           \/ Log(t)

(* Threads keep running within a call; no thread has to make one.            *)
Spec == Init /\ [][Next]_vars /\ \A t \in Threads : WF_vars(Step(t))

-----------------------------------------------------------------------------
(* Properties.                                                               *)

Formatters == [pattern : Seq(STRING), m_error : BOOLEAN]
TypeOK ==
    /\ DOMAIN s_datas \subseteq Names
    /\ \A n \in DOMAIN s_datas : s_datas[n].type = Wanted[n]
    /\ readers \in [Names -> SUBSET Threads]
    /\ pc \in [Threads -> {"idle", "load", "compare", "listen", "store"}]
    /\ calls \in [Threads -> Nat] /\ records \in [Reporters -> 0 .. MaxRecords]
    /\ "root" \in DOMAIN m_loggers
    /\ \A n \in DOMAIN m_loggers : /\ m_loggers[n].m_level \in 0 .. 5
                                   /\ m_loggers[n].m_formatter \in Formatters
    /\ \A n \in Names : readers[n] = {t \in Threads : pc[t] = "listen" /\ job[t].name = n}

(* When reloads have not overlapped, every logger has the level that is       *)
(* configured, and exactly the appenders of the last definition of its name   *)
(* that operator== told from the one before it: a change of appenders only    *)
(* leaves a logger as it was.  One that is no longer configured has none.     *)
LoggersMirrorConfig ==
    Settled(LOGS) =>
        LET defs == s_datas[LOGS].m_val
        IN  /\ Same("logs", applied, defs)
            /\ \A n \in DOMAIN defs :
                   /\ n \in DOMAIN m_loggers /\ m_loggers[n].m_level = defs[n].level
                   /\ Len(m_loggers[n].m_appenders) = Len(applied[n].appenders)
                   /\ \A i \in 1 .. Len(applied[n].appenders) :
                          LET a == applied[n].appenders[i]
                              b == m_loggers[n].m_appenders[i]
                          IN  a.type = b.type /\ a.file = b.file /\ a.level = b.m_level
            /\ \A n \in DOMAIN m_loggers \ (DOMAIN defs \cup {"root"}) :
                   m_loggers[n].m_appenders = <<>>

(* An appender writes with the formatter it has, without looking: every       *)
(* appender of a logger has one that is free of errors, and one that has none *)
(* of its own has the logger's, whichever was set last.                       *)
AppendersFormat ==
    \A n \in DOMAIN m_loggers :
        /\ ~m_loggers[n].m_formatter.m_error
        /\ \A i \in 1 .. Len(m_loggers[n].m_appenders) :
               LET a == m_loggers[n].m_appenders[i]
               IN  /\ ~a.m_formatter.m_error
                   /\ a.m_hasFormatter \/ a.m_formatter = m_loggers[n].m_formatter

(* A record that the loggers accept reaches an appender when the root has     *)
(* been given one: records can be lost only in a reload, between              *)
(* clearAppenders() and addAppender(), or after reloads that overlapped.      *)
DroppedOnlyInReload == ~dropped

(* A call of setValue() or LoadFromYaml() returns: nobody waits for a lock    *)
(* for ever, although listeners run under the read lock.                      *)
CallsReturn == \A t \in Threads : pc[t] # "idle" ~> pc[t] = "idle"
=============================================================================
