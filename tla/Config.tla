------------------------------- MODULE Config -------------------------------
(***************************************************************************)
(* sylar/config.{h,cc} with the locks of sylar/mutex.h: the registry of    *)
(* configuration variables, setValue() with its listeners, and             *)
(* LoadFromYaml().                                                         *)
(*                                                                         *)
(* A section under the write lock of a ConfigVar, or under the registry's  *)
(* lock, is one step; setValue() holds the read lock over several, because *)
(* it calls the listeners under it: readers is who does.  A listener is a  *)
(* copy of the value that the application keeps, as s_connect_timeout in   *)
(* hook.cc, except LogListener, whose steps module Log adds.               *)
(***************************************************************************)
EXTENDS LexicalCast

CONSTANTS
    Threads,      (* threads that use the configuration                     *)
    None,
    Names,        (* names: sequences of keys, "a.b" is <<"a", "b">>        *)
    Wanted,       (* [Names -> Types]: the type each name is looked up with *)
    Default,      (* [Names -> values]: and the default value               *)
    LateNames,    (* the names that are not looked up before main()         *)
    BadKeys,      (* keys with a character that find_first_not_of() finds   *)
    Docs,         (* YAML documents: their nodes in order, [path, text]     *)
    Direct,       (* {<<name, value>>}: calls of setValue()                 *)
    Listeners,    (* ids of listeners other than LogListener                *)
    Listened,     (* the name they listen to                                *)
    MaxCalls      (* bound: [Threads -> calls the thread makes]             *)

LogListener == 0

ASSUME ConfigAssumption ==
    /\ Wanted \in [Names -> Types] /\ DOMAIN Default = Names /\ LateNames \subseteq Names
    /\ Listeners \subseteq Nat \ {LogListener} /\ Listened \in Names
    /\ MaxCalls \in [Threads -> Nat] /\ \A d \in Direct : d[1] \in Names

(* A text that is meant for a variable is one of its type, and what the      *)
(* program sets itself is a value that a text could give: the level of an    *)
(* appender, which no text has, is not set.                                  *)
ASSUME ValueAssumption ==
    /\ \A n \in Names : IsValue(Wanted[n], Default[n])
    /\ \A d \in Direct : IsValue(Wanted[d[1]], d[2])
    /\ \A doc \in Docs :
           /\ IsSequence(doc)
           /\ \A i \in DOMAIN doc :
                  doc[i].path \in Names => IsText(Wanted[doc[i].path], doc[i].text)

VARIABLES
    s_datas,     (* Config: the ConfigVars by name: type, m_val, m_cbs         *)
    readers,     (* the threads that hold the read lock of each ConfigVar      *)
    pc, job,     (* what a thread does: the nodes left to load, the name and   *)
                 (* value to set, the listeners left to call, the plan of the  *)
                 (* log listener                                               *)
    calls,       (* calls each thread has made                                 *)
    copy,        (* what each listener has been told                           *)
    want,        (* history: what was asked for last, of each name             *)
    raced        (* history: calls that change a name have overlapped          *)

configVars == <<s_datas, readers, pc, job, calls, copy, want, raced>>

NoJob == [nodes |-> <<>>, name |-> None, value |-> None, cbs |-> {}, plan |-> <<>>]

(* The variable that Lookup() creates.                                       *)
ConfigVarOf(n) ==
    [type |-> Wanted[n], m_val |-> Default[n],
     m_cbs |-> IF Wanted[n] = "logs" THEN {LogListener} ELSE {}]

ConfigInit ==
    /\ s_datas = [n \in Names \ LateNames |-> ConfigVarOf(n)]
    /\ readers = [n \in Names |-> {}]
    /\ pc = [t \in Threads |-> "idle"] /\ job = [t \in Threads |-> NoJob]
    /\ calls = [t \in Threads |-> 0]
    /\ copy = [l \in Listeners |-> Default[Listened]]
    /\ want = Default /\ raced = [n \in Names |-> FALSE]

ValidName(path) == \A i \in 1 .. Len(path) : path[i] \notin BadKeys
Busy(n) == {t \in Threads : pc[t] \in {"listen", "store"} /\ job[t].name = n}

-----------------------------------------------------------------------------
(* Lookup(), LookupBase() and the listeners.                                 *)

Begins(t) ==
    /\ pc[t] = "idle" /\ calls[t] < MaxCalls[t]
    /\ calls' = [calls EXCEPT ![t] = @ + 1]

(* Lookup<T>(name, default): what is there already is returned, or null if   *)
(* it is of another type; a name that is not valid throws.                   *)
Lookup(t, n) ==
    /\ Begins(t)
    /\ s_datas' = IF n \in DOMAIN s_datas \/ ~ValidName(n) THEN s_datas
                  ELSE [m \in DOMAIN s_datas \cup {n} |->
                            IF m = n THEN ConfigVarOf(n) ELSE s_datas[m]]
    /\ UNCHANGED <<readers, pc, job, copy, want, raced>>

(* Does it find a ConfigVar of that name?                                    *)
LookupBase(n) == n \in DOMAIN s_datas

(* addListener(), with the value the application reads when it registers.    *)
addListener(t, l) ==
    /\ Begins(t)
    /\ LookupBase(Listened) /\ readers[Listened] = {}
    /\ s_datas' = [s_datas EXCEPT ![Listened].m_cbs = @ \cup {l}]
    /\ copy' = [copy EXCEPT ![l] = s_datas[Listened].m_val]
    /\ raced' = [raced EXCEPT ![Listened] = @ \/ Busy(Listened) # {}]
    /\ UNCHANGED <<readers, pc, job, want>>

(* delListener() of an id.                                                   *)
delListener(t, ids) ==
    /\ Begins(t)
    /\ LookupBase(Listened) /\ readers[Listened] = {}
    /\ s_datas' = [s_datas EXCEPT ![Listened].m_cbs = @ \ ids]
    /\ UNCHANGED <<readers, pc, job, copy, want, raced>>

(* clearListener(): all of them.  On "logs" it would take LogListener along, *)
(* which the program does not do.                                            *)
clearListener(t) == Wanted[Listened] # "logs" /\ delListener(t, Listeners)

-----------------------------------------------------------------------------
(* setValue().                                                               *)

(* The call of setValue() is over; the rest of a document follows.           *)
Finished(t) ==
    /\ pc' = [pc EXCEPT ![t] = IF job[t].nodes = <<>> THEN "idle" ELSE "load"]
    /\ job' = [job EXCEPT ![t] = [NoJob EXCEPT !.nodes = job[t].nodes]]

setValue(t, n, v) ==
    /\ Begins(t) /\ LookupBase(n)
    /\ pc' = [pc EXCEPT ![t] = "compare"]
    /\ job' = [job EXCEPT ![t].name = n, ![t].value = v]
    /\ UNCHANGED <<s_datas, readers, copy, want, raced>>

(* The read lock is taken; without a change, as operator== tells, the call   *)
(* returns, else the listeners will be called, in the order of their ids.    *)
(* A call that returns at once has not changed what a call on its way asks.  *)
Compare(t) ==
    LET n == job[t].name
        x == s_datas[n]
        same == Same(x.type, job[t].value, x.m_val)
    IN  /\ pc[t] = "compare"
        /\ want' = IF same /\ Busy(n) # {} THEN want
                   ELSE [want EXCEPT ![n] = job[t].value]
        /\ IF same
           THEN Finished(t) /\ UNCHANGED <<readers, raced>>
           ELSE /\ raced' = [raced EXCEPT ![n] = @ \/ Busy(n) # {}]
                /\ readers' = [readers EXCEPT ![n] = @ \cup {t}]
                /\ pc' = [pc EXCEPT ![t] = "listen"]
                /\ job' = [job EXCEPT ![t].cbs = x.m_cbs]
        /\ UNCHANGED <<s_datas, calls, copy>>

(* m_cbs is a map: the ids in ascending order.                               *)
NextListener(t) == CHOOSE l \in job[t].cbs : \A k \in job[t].cbs : l <= k

(* Mutant: the listener gets the value that is still stored.                 *)
CallListenerOld(t) ==
    /\ pc[t] = "listen" /\ job[t].plan = <<>>
    /\ job[t].cbs # {} /\ NextListener(t) # LogListener
    /\ copy' = [copy EXCEPT ![NextListener(t)] = s_datas[job[t].name].m_val]
    /\ job' = [job EXCEPT ![t].cbs = @ \ {NextListener(t)}]
    /\ UNCHANGED <<s_datas, readers, pc, calls, want, raced>>

(* The next listener is called.                                              *)
CallListener(t) ==
    /\ pc[t] = "listen" /\ job[t].plan = <<>>
    /\ job[t].cbs # {} /\ NextListener(t) # LogListener
    /\ copy' = [copy EXCEPT ![NextListener(t)] = job[t].value]
    /\ job' = [job EXCEPT ![t].cbs = @ \ {NextListener(t)}]
    /\ UNCHANGED <<s_datas, readers, pc, calls, want, raced>>

(* Mutant: the read lock is not released.                                    *)
UnlockForgotten(t) ==
    /\ pc[t] = "listen" /\ job[t].cbs = {} /\ job[t].plan = <<>>
    /\ pc' = [pc EXCEPT ![t] = "store"]
    /\ UNCHANGED <<s_datas, readers, job, calls, copy, want, raced>>

(* All listeners have been called: the read lock is released ...             *)
Unlock(t) ==
    /\ pc[t] = "listen" /\ job[t].cbs = {} /\ job[t].plan = <<>>
    /\ readers' = [readers EXCEPT ![job[t].name] = @ \ {t}]
    /\ pc' = [pc EXCEPT ![t] = "store"]
    /\ UNCHANGED <<s_datas, job, calls, copy, want, raced>>

(* ... and under the write lock the value is stored.                         *)
Store(t) ==
    LET n == job[t].name
    IN  /\ pc[t] = "store" /\ readers[n] = {}
        /\ s_datas' = [s_datas EXCEPT ![n].m_val = job[t].value]
        /\ Finished(t)
        /\ UNCHANGED <<readers, calls, copy, want, raced>>

-----------------------------------------------------------------------------
(* LoadFromYaml().                                                           *)

(* A key that is not valid hides everything below it.                        *)
ListAllMember(doc) == Kept(doc, {node \in ToSet(doc) : ValidName(node.path)})

LoadFromYaml(t, doc) ==
    /\ Begins(t)
    /\ pc' = [pc EXCEPT ![t] = "load"]
    /\ job' = [job EXCEPT ![t].nodes = ListAllMember(doc)]
    /\ UNCHANGED <<s_datas, readers, copy, want, raced>>

(* One node: a name nobody has looked up is passed over, and so is a text    *)
(* that fromString() cannot convert.                                         *)
LoadNode(t) ==
    /\ pc[t] = "load" /\ job[t].nodes # <<>>
    /\ LET node == Head(job[t].nodes)
           x    == s_datas[node.path]
           rest == Tail(job[t].nodes)
       IN  IF LookupBase(node.path) /\ Cast(x.type, node.text).ok
           THEN /\ pc' = [pc EXCEPT ![t] = "compare"]
                /\ job' = [job EXCEPT ![t].nodes = rest, ![t].name = node.path,
                                      ![t].value = Cast(x.type, node.text).value]
           ELSE pc' = pc /\ job' = [job EXCEPT ![t].nodes = rest]
    /\ UNCHANGED <<s_datas, readers, calls, copy, want, raced>>

LoadEnds(t) ==
    /\ pc[t] = "load" /\ job[t].nodes = <<>>
    /\ pc' = [pc EXCEPT ![t] = "idle"]
    /\ UNCHANGED <<s_datas, readers, job, calls, copy, want, raced>>

(* The steps of a thread within a call.                                      *)
ConfigStep(t) ==
    Compare(t) \/ CallListener(t) \/ Unlock(t) \/ Store(t) \/ LoadNode(t) \/ LoadEnds(t)

ConfigCall(t) ==
    \/ \E n \in LateNames : Lookup(t, n)
    \/ \E l \in Listeners : addListener(t, l) \/ delListener(t, {l})
    \/ clearListener(t)
    \/ \E d \in Direct : setValue(t, d[1], d[2])
    \/ \E doc \in Docs : LoadFromYaml(t, doc)

-----------------------------------------------------------------------------
(* Properties.                                                               *)

Settled(n) == ~raced[n] /\ \A t \in Threads : job[t].name # n

(* When calls on a name have not overlapped, the value is the one that was    *)
(* asked for last, as far as operator== tells them apart (that of LogDefine   *)
(* does not look at appenders: a change of "logs" in them alone is dropped),  *)
(* and every listener of the application has been told of it.  setValue()     *)
(* calls the listeners before it stores the value, under two locks.           *)
ListenersCurrent ==
    \A n \in DOMAIN s_datas : Settled(n) =>
        /\ Same(s_datas[n].type, s_datas[n].m_val, want[n])
        /\ n = Listened =>
               \A l \in s_datas[n].m_cbs \ {LogListener} : copy[l] = s_datas[n].m_val

(* What toString() gives for a value converts back to that value, whatever    *)
(* texts, duplicate and broken entries included, have been loaded before: a   *)
(* configuration that was saved can be loaded again.                          *)
SavedLoads ==
    \A n \in DOMAIN s_datas :
        LET x == s_datas[n]
        IN  Cast(x.type, Text(x.type, x.m_val)) = Converted(x.m_val)
=============================================================================
