------------------------------ MODULE LogProofs ------------------------------
(***************************************************************************)
(* Theorems about modules Config and Log.                                  *)
(***************************************************************************)
EXTENDS Log, NatLemmas, FiniteSetTheorems, SequenceTheorems, TLAPS

VarFields == {"type", "m_val", "m_cbs"}
JobFields == {"nodes", "name", "value", "cbs", "plan"}
Setting   == {"compare", "listen", "store"}

(* The listeners a variable may have. *)
ListenersOf(n) == IF n = Listened THEN Listeners \cup {LogListener} ELSE {LogListener}

-----------------------------------------------------------------------------
(* The inductive invariant of setValue() and its listeners *)

(* A thread in setValue() is there for a variable that exists. *)
Shape ==
    /\ DOMAIN s_datas \subseteq Names
    /\ \A n \in DOMAIN s_datas : /\ DOMAIN s_datas[n] = VarFields
                                 /\ s_datas[n].m_cbs \subseteq ListenersOf(n)
    /\ DOMAIN readers = Names /\ DOMAIN want = Names /\ DOMAIN copy = Listeners
    /\ raced \in [Names -> BOOLEAN]
    /\ DOMAIN pc = Threads /\ DOMAIN job = Threads
    /\ \A t \in Threads :
           /\ pc[t] \in {"idle", "load"} \cup Setting /\ DOMAIN job[t] = JobFields
           /\ pc[t] \in Setting => job[t].name \in DOMAIN s_datas
           /\ pc[t] = "listen" => job[t].cbs \subseteq ListenersOf(job[t].name)

(* The read lock is held by the threads that call listeners. *)
Locks == \A n \in Names :
             readers[n] = {t \in Threads : pc[t] = "listen" /\ job[t].name = n}

Untouched == \A n \in Names \ DOMAIN s_datas : want[n] = Default[n]

(* Without a race one thread at a time is past the comparison.  What it    *)
(* sets is what is wanted, and the listeners it has passed have got it;    *)
(* when there is none, all is told, and what is stored is the same as what *)
(* is wanted.                                                              *)
Current(n) ==
    ~raced[n] =>
        /\ \A t, u \in Busy(n) : t = u
        /\ \A t \in Busy(n) : want[n] = job[t].value
        /\ Busy(n) = {} => Same(s_datas[n].type, s_datas[n].m_val, want[n])
        /\ n = Listened =>
               \A l \in s_datas[n].m_cbs \ {LogListener} :
                   /\ Busy(n) = {} => copy[l] = s_datas[n].m_val
                   /\ \A t \in Busy(n) : \/ copy[l] = job[t].value
                                         \/ pc[t] = "listen" /\ l \in job[t].cbs

ConfigInv == Shape /\ Locks /\ Untouched /\ \A n \in DOMAIN s_datas : Current(n)

(* The next listener is one that is left, for as long as there is one. *)
LEMMA NextListenerLeft ==
    ASSUME Shape, NEW t \in Threads, pc[t] = "listen", job[t].cbs # {}
    PROVE  NextListener(t) \in job[t].cbs
<1> DEFINE S == job[t].cbs
<1>1. S \subseteq Nat /\ S # {}
  <2>1. ListenersOf(job[t].name) \subseteq Nat
    BY ConfigAssumption DEF ListenersOf, LogListener
  <2>2. S \subseteq ListenersOf(job[t].name)
    BY DEF Shape
  <2>3. QED
    BY <2>1, <2>2
<1>2. NextListener(t) = CHOOSE l \in S : \A k \in S : l <= k
  BY DEF NextListener
<1> HIDE DEF S
<1>3. PICK l \in S : \A k \in S \ {l} : l < k
  BY <1>1, LeastNat
<1>4. \A k \in S : l <= k
  BY <1>1, <1>3
<1>5. NextListener(t) \in S
  BY <1>2, <1>4
<1>6. QED
  BY <1>5 DEF S

(* A value is the same as itself. *)
LEMMA SameReflexive ==
    ASSUME NEW type, NEW v
    PROVE  Same(type, v, v)
BY DEF Same, SameDefine

LEMMA SameSymmetric ==
    ASSUME NEW type, NEW v, NEW w, Same(type, v, w)
    PROVE  Same(type, w, v)
BY DEF Same, SameDefine

(* A step that changes nothing about a name keeps it current. *)
LEMMA FrameCurrent ==
    ASSUME NEW n, Current(n), s_datas'[n] = s_datas[n], copy' = copy,
           want'[n] = want[n], raced'[n] = raced[n], Busy(n)' = Busy(n),
           \A u \in Busy(n) : /\ pc'[u] = pc[u] /\ job'[u].value = job[u].value
                              /\ job'[u].cbs = job[u].cbs
    PROVE  Current(n)'
<1> DEFINE B == Busy(n)
<1>1. Busy(n)' = B
  OBVIOUS
<1> HIDE DEF B
<1>2. QED
  BY <1>1 DEF Current, B

LEMMA ConfigInitial == ConfigInit => ConfigInv
<1> SUFFICES ASSUME ConfigInit
             PROVE  ConfigInv
  OBVIOUS
<1>1. \A n \in Names : Busy(n) = {}
  BY DEF ConfigInit, Busy
<1>2. \A n \in DOMAIN s_datas :
          /\ n \in Names /\ DOMAIN s_datas[n] = VarFields
          /\ s_datas[n].m_cbs \subseteq {LogListener} /\ s_datas[n].m_val = Default[n]
  BY DEF ConfigInit, ConfigVarOf, VarFields
<1>3. Shape
  BY <1>2, ConfigAssumption DEF ConfigInit, Shape, NoJob, JobFields, ListenersOf, Setting
<1>4. Locks /\ Untouched
  BY ConfigAssumption DEF ConfigInit, Locks, Untouched
<1>5. \A n \in DOMAIN s_datas : Current(n)
  <2> SUFFICES ASSUME NEW n \in DOMAIN s_datas
               PROVE  Current(n)
    OBVIOUS
  <2>1. Busy(n) = {} /\ want[n] = s_datas[n].m_val
    BY <1>1, <1>2 DEF ConfigInit
  <2>2. \A l \in s_datas[n].m_cbs \ {LogListener} : FALSE
    BY <1>2
  <2>3. Same(s_datas[n].type, s_datas[n].m_val, want[n])
    BY <2>1, SameReflexive
  <2>4. QED
    BY <2>1, <2>2, <2>3 DEF Current
<1>6. QED
  BY <1>3, <1>4, <1>5 DEF ConfigInv

(* What is wanted may become a value that is the same as what is stored    *)
(* when no thread is past the comparison.                                  *)
Agrees(n) == \/ want'[n] = want[n]
             \/ Busy(n) = {} /\ Same(s_datas[n].type, s_datas[n].m_val, want'[n])

(* A step of one thread that is not past the comparison, before or after,  *)
(* and changes no variable.                                                *)
LEMMA OutsideAgrees ==
    ASSUME ConfigInv, NEW t \in Threads, NEW p, NEW j,
           pc[t] \notin {"listen", "store"}, p \in {"idle", "load", "compare"},
           DOMAIN pc' = Threads, DOMAIN job' = Threads, pc'[t] = p, job'[t] = j,
           \A u \in Threads \ {t} : pc'[u] = pc[u] /\ job'[u] = job[u],
           DOMAIN j = JobFields, p = "compare" => j.name \in DOMAIN s_datas,
           DOMAIN want' = Names, \A n \in DOMAIN s_datas : Agrees(n),
           \A n \in Names \ DOMAIN s_datas : want'[n] = want[n],
           UNCHANGED <<s_datas, readers, copy, raced>>
    PROVE  ConfigInv'
<1>1. Shape /\ Locks /\ Untouched /\ \A n \in DOMAIN s_datas : Current(n)
  BY DEF ConfigInv
<1>2. Shape'
  BY <1>1 DEF Shape, Setting
<1>3. Locks' /\ Untouched'
  BY <1>1 DEF Locks, Untouched
<1>4. ASSUME NEW n \in DOMAIN s_datas
      PROVE  Current(n)'
  <2>1. Busy(n)' = Busy(n)
    BY DEF Busy
  <2>2. \A u \in Busy(n) : u \in Threads \ {t}
    BY DEF Busy
  <2>3. CASE want'[n] = want[n]
    BY <1>1, <2>1, <2>2, <2>3, FrameCurrent
  <2>4. CASE Busy(n) = {} /\ Same(s_datas[n].type, s_datas[n].m_val, want'[n])
    <3>1. Busy(n)' = {}
      BY <2>1, <2>4
    <3>2. QED
      BY <1>1, <2>4, <3>1 DEF Current
  <2>5. QED
    BY <2>3, <2>4 DEF Agrees
<1>5. QED
  BY <1>2, <1>3, <1>4 DEF ConfigInv

LEMMA OutsideKeeps ==
    ASSUME ConfigInv, NEW t \in Threads, NEW p, NEW j,
           pc[t] \notin {"listen", "store"}, p \in {"idle", "load", "compare"},
           DOMAIN pc' = Threads, DOMAIN job' = Threads, pc'[t] = p, job'[t] = j,
           \A u \in Threads \ {t} : pc'[u] = pc[u] /\ job'[u] = job[u],
           DOMAIN j = JobFields, p = "compare" => j.name \in DOMAIN s_datas,
           UNCHANGED <<s_datas, readers, copy, want, raced>>
    PROVE  ConfigInv'
<1>1. DOMAIN want' = Names /\ \A n : want'[n] = want[n]
  BY DEF ConfigInv, Shape
<1>2. \A n \in DOMAIN s_datas : Agrees(n)
  BY <1>1 DEF Agrees
<1>3. QED
  BY <1>1, <1>2, OutsideAgrees

(* Steps of the log's part that change no more than a plan. *)
LEMMA PlanKeeps ==
    ASSUME ConfigInv, pc' = pc, DOMAIN job' = Threads,
           \A u \in Threads :
               /\ DOMAIN job'[u] = JobFields /\ job'[u].name = job[u].name
               /\ job'[u].value = job[u].value
               /\ job'[u].cbs \in {job[u].cbs, job[u].cbs \ {LogListener}},
           UNCHANGED <<s_datas, readers, copy, want, raced>>
    PROVE  ConfigInv'
<1>1. Shape /\ Locks /\ Untouched /\ \A n \in DOMAIN s_datas : Current(n)
  BY DEF ConfigInv
<1>2. Shape'
  BY <1>1 DEF Shape
<1>3. Locks' /\ Untouched'
  BY <1>1 DEF Locks, Untouched
<1>4. ASSUME NEW n \in DOMAIN s_datas
      PROVE  Current(n)'
  <2>1. Busy(n)' = Busy(n) /\ Busy(n) \subseteq Threads
    BY DEF Busy
  <2>2. \A u \in Busy(n), l \in s_datas[n].m_cbs \ {LogListener} :
            l \in job'[u].cbs <=> l \in job[u].cbs
    BY <2>1
  <2> DEFINE B == Busy(n)
  <2>3. Busy(n)' = B
    BY <2>1
  <2> HIDE DEF B
  <2>4. QED
    BY <1>1, <2>1, <2>2, <2>3 DEF Current, B
<1>5. QED
  BY <1>2, <1>3, <1>4 DEF ConfigInv

LEMMA LookupKeeps ==
    ASSUME ConfigInv, NEW t \in Threads, NEW n \in LateNames, Lookup(t, n)
    PROVE  ConfigInv'
<1>1. Shape /\ Locks /\ Untouched /\ \A m \in DOMAIN s_datas : Current(m)
  BY DEF ConfigInv
<1>2. UNCHANGED <<readers, pc, job, copy, want, raced>> /\ n \in Names
  BY ConfigAssumption DEF Lookup
<1>3. CASE s_datas' = s_datas
  <2>1. Shape' /\ Locks' /\ Untouched'
    BY <1>1, <1>2, <1>3 DEF Shape, Locks, Untouched
  <2>2. ASSUME NEW m \in DOMAIN s_datas
        PROVE  Current(m)'
    <3>1. Busy(m)' = Busy(m)
      BY <1>2 DEF Busy
    <3>2. QED
      BY <1>1, <1>2, <1>3, <3>1, FrameCurrent
  <2>3. QED
    BY <1>3, <2>1, <2>2 DEF ConfigInv
<1>4. CASE s_datas' # s_datas
  <2>1. /\ n \notin DOMAIN s_datas
        /\ s_datas' = [m \in DOMAIN s_datas \cup {n} |->
                           IF m = n THEN ConfigVarOf(n) ELSE s_datas[m]]
    BY <1>4 DEF Lookup
  <2>2. /\ DOMAIN s_datas' = DOMAIN s_datas \cup {n}
        /\ s_datas'[n] = ConfigVarOf(n)
        /\ \A m \in DOMAIN s_datas : s_datas'[m] = s_datas[m]
    BY <2>1
  <2>3. /\ DOMAIN ConfigVarOf(n) = VarFields /\ ConfigVarOf(n).m_val = Default[n]
        /\ ConfigVarOf(n).m_cbs \subseteq {LogListener}
    BY DEF ConfigVarOf, VarFields
  <2>4. Shape'
    BY <1>1, <1>2, <2>2, <2>3 DEF Shape, ListenersOf
  <2>5. Locks' /\ Untouched'
    BY <1>1, <1>2, <2>2 DEF Locks, Untouched
  <2>6. ASSUME NEW m \in DOMAIN s_datas
        PROVE  Current(m)'
    <3>1. Busy(m)' = Busy(m)
      BY <1>2 DEF Busy
    <3>2. QED
      BY <1>1, <1>2, <2>2, <3>1, FrameCurrent
  <2>7. Current(n)'
    <3>1. Busy(n)' = {}
      BY <1>1, <1>2, <2>1 DEF Busy, Shape, Setting
    <3>2. want'[n] = s_datas'[n].m_val
      BY <1>1, <1>2, <2>1, <2>2, <2>3 DEF Untouched
    <3>3. \A l \in s_datas'[n].m_cbs \ {LogListener} : FALSE
      BY <2>2, <2>3
    <3>4. Same(s_datas'[n].type, s_datas'[n].m_val, want'[n])
      BY <3>2, SameReflexive
    <3>5. QED
      BY <3>1, <3>3, <3>4 DEF Current
  <2>8. QED
    BY <2>2, <2>4, <2>5, <2>6, <2>7 DEF ConfigInv
<1>5. QED
  BY <1>3, <1>4

(* addListener() and delListener() wait for the read lock to be free: no   *)
(* thread is between the comparison and the last listener.                 *)
LEMMA ListenersKeep ==
    ASSUME ConfigInv, NEW t \in Threads, NEW l, NEW ids,
           (l \in Listeners /\ addListener(t, l)) \/ delListener(t, ids)
    PROVE  ConfigInv'
<1> DEFINE n == Listened
<1>1. Shape /\ Locks /\ Untouched /\ \A m \in DOMAIN s_datas : Current(m)
  BY DEF ConfigInv
<1>2. /\ UNCHANGED <<readers, pc, job, want>> /\ n \in DOMAIN s_datas /\ readers[n] = {}
      /\ n \in Names
  BY ConfigAssumption DEF addListener, delListener, LookupBase
<1>3. \A u \in Busy(n) : pc[u] = "store"
  BY <1>1, <1>2 DEF Locks, Busy
<1>4. PICK cbs : /\ s_datas' = [s_datas EXCEPT ![n].m_cbs = cbs]
                 /\ \/ l \in Listeners /\ cbs = s_datas[n].m_cbs \cup {l}
                    \/ cbs = s_datas[n].m_cbs \ ids
  BY DEF addListener, delListener
<1>5. /\ DOMAIN s_datas' = DOMAIN s_datas
      /\ \A m \in DOMAIN s_datas \ {n} : s_datas'[m] = s_datas[m]
      /\ s_datas'[n] = [s_datas[n] EXCEPT !.m_cbs = cbs]
  BY <1>2, <1>4
<1>6. /\ DOMAIN s_datas'[n] = VarFields /\ s_datas'[n].m_cbs = cbs
      /\ s_datas'[n].m_val = s_datas[n].m_val /\ s_datas'[n].type = s_datas[n].type
  BY <1>1, <1>2, <1>5 DEF Shape, VarFields
<1>7. cbs \subseteq ListenersOf(n)
  BY <1>1, <1>2, <1>4 DEF Shape, ListenersOf
<1>8. DOMAIN copy' = Listeners /\ raced' \in [Names -> BOOLEAN]
  <2>1. raced' = raced \/ raced' = [raced EXCEPT ![n] = raced[n] \/ Busy(n) # {}]
    BY DEF addListener, delListener
  <2>2. (raced[n] \/ Busy(n) # {}) \in BOOLEAN
    OBVIOUS
  <2>3. copy' = copy \/ copy' = [copy EXCEPT ![l] = s_datas[n].m_val]
    BY DEF addListener, delListener
  <2>4. QED
    BY <1>1, <2>1, <2>2, <2>3 DEF Shape
<1> HIDE DEF n
<1>9. Shape'
  BY <1>1, <1>2, <1>5, <1>6, <1>7, <1>8 DEF Shape
<1>10. Locks' /\ Untouched'
  BY <1>1, <1>2, <1>5 DEF Locks, Untouched
<1>11. \A m : Busy(m)' = Busy(m)
  BY <1>2 DEF Busy
<1>12. ASSUME NEW m \in DOMAIN s_datas, m # n
       PROVE  Current(m)'
  <2>1. raced'[m] = raced[m]
    BY <1>1, <1>12, ConfigAssumption DEF addListener, delListener, Shape, n
  <2>2. s_datas'[m] = s_datas[m] /\ want'[m] = want[m]
    BY <1>2, <1>5, <1>12
  <2> DEFINE B == Busy(m)
  <2>3. Busy(m)' = B
    BY <1>11
  <2> HIDE DEF B
  <2>4. QED
    BY <1>1, <1>2, <1>12, <2>1, <2>2, <2>3 DEF Current, B, n
<1>13. Current(n)'
  <2> DEFINE B == Busy(n)
  <2>1. Busy(n)' = B
    BY <1>11
  <2>2. CASE raced'[n]
    BY <2>2 DEF Current
  <2>3. CASE ~raced'[n]
    <3>1. ~raced[n]
      BY <1>1, <1>2, <2>3 DEF addListener, delListener, Shape, n
    <3>2. copy' = copy \/ (copy' = [copy EXCEPT ![l] = s_datas[n].m_val] /\ B = {})
      BY <1>1, <1>2, <2>3 DEF addListener, delListener, Shape, n
    <3>3. cbs \ {l} \subseteq s_datas[n].m_cbs
      BY <1>4
    <3>4. cbs \subseteq s_datas[n].m_cbs
          \/ (copy' = [copy EXCEPT ![l] = s_datas[n].m_val] /\ B = {})
      <4>1. CASE addListener(t, l)
        BY <1>1, <1>2, <2>3, <4>1 DEF addListener, Shape, n
      <4>2. CASE delListener(t, ids)
        <5>1. s_datas' = [s_datas EXCEPT ![n].m_cbs = s_datas[n].m_cbs \ ids]
          BY <4>2 DEF delListener, n
        <5>2. s_datas'[n].m_cbs = s_datas[n].m_cbs \ ids
          BY <1>1, <1>2, <5>1 DEF Shape, VarFields
        <5>3. QED
          BY <1>6, <5>2
      <4>3. QED
        BY <4>1, <4>2
    <3> HIDE DEF B
    <3>5. /\ \A v, u \in B : v = u
          /\ \A v \in B : want'[n] = job'[v].value
          /\ B = {} => Same(s_datas'[n].type, s_datas'[n].m_val, want'[n])
      BY <1>1, <1>2, <1>6, <3>1 DEF Current, B
    <3>6. ASSUME NEW k \in cbs \ {LogListener}
          PROVE  /\ B = {} => copy'[k] = s_datas'[n].m_val
                 /\ \A v \in B : \/ copy'[k] = job'[v].value
                                 \/ pc'[v] = "listen" /\ k \in job'[v].cbs
      <4>1. CASE k \in s_datas[n].m_cbs /\ (k # l \/ copy' = copy)
        <5>1. k \in Listeners /\ DOMAIN copy = Listeners
          BY <1>1, <1>7 DEF Shape, ListenersOf, n
        <5>2. copy'[k] = copy[k]
          BY <3>2, <4>1, <5>1
        <5>3. QED
          BY <1>1, <1>2, <1>6, <3>1, <4>1, <5>2 DEF Current, B, n
      <4>2. CASE ~(k \in s_datas[n].m_cbs /\ (k # l \/ copy' = copy))
        <5>1. k = l /\ copy' = [copy EXCEPT ![l] = s_datas[n].m_val] /\ B = {}
          BY <3>2, <3>3, <3>4, <4>2
        <5>2. k \in Listeners
          BY <1>7 DEF ListenersOf
        <5>3. copy'[k] = s_datas[n].m_val
          BY <1>1, <5>1, <5>2 DEF Shape
        <5>4. QED
          BY <1>6, <5>1, <5>3
      <4>3. QED
        BY <4>1, <4>2
    <3>7. QED
      BY <1>6, <2>1, <3>5, <3>6 DEF Current
  <2>4. QED
    BY <2>2, <2>3
<1>14. QED
  BY <1>5, <1>9, <1>10, <1>12, <1>13 DEF ConfigInv

(* A call that registers or removes listeners of the application. *)
ChangesListeners(t) ==
    \/ \E l \in Listeners : addListener(t, l)
    \/ \E ids \in SUBSET Listeners : delListener(t, ids)

(* setValue() returns without a change. *)
LEMMA FinishedKeeps ==
    ASSUME ConfigInv, NEW t \in Threads, Finished(t), pc[t] \notin {"listen", "store"},
           DOMAIN want' = Names, \A n \in DOMAIN s_datas : Agrees(n),
           \A n \in Names \ DOMAIN s_datas : want'[n] = want[n],
           UNCHANGED <<s_datas, readers, copy, raced>>
    PROVE  ConfigInv'
<1> DEFINE p == IF job[t].nodes = <<>> THEN "idle" ELSE "load"
           j == [NoJob EXCEPT !.nodes = job[t].nodes]
<1>1. p \in {"idle", "load", "compare"} /\ p # "compare" /\ DOMAIN j = JobFields
  BY DEF NoJob, JobFields
<1>2. pc' = [pc EXCEPT ![t] = p] /\ job' = [job EXCEPT ![t] = j]
  BY DEF Finished
<1> HIDE DEF p, j
<1>3. /\ DOMAIN pc' = Threads /\ DOMAIN job' = Threads /\ pc'[t] = p /\ job'[t] = j
      /\ \A u \in Threads \ {t} : pc'[u] = pc[u] /\ job'[u] = job[u]
  BY <1>2 DEF ConfigInv, Shape
<1>4. QED
  BY <1>1, <1>3, OutsideAgrees

(* setValue() takes the read lock and finds a change.  The history variable *)
(* raced remembers that another thread is past the comparison.              *)
LEMMA CompareKeeps ==
    ASSUME ConfigInv, NEW t \in Threads, Compare(t)
    PROVE  ConfigInv'
<1>0. PICK n : n = job[t].name
  OBVIOUS
<1> USE <1>0
<1> DEFINE j == [job[t] EXCEPT !.cbs = s_datas[n].m_cbs]
<1>1. Shape /\ Locks /\ Untouched /\ \A m \in DOMAIN s_datas : Current(m)
  BY DEF ConfigInv
<1>2. /\ pc[t] = "compare" /\ n \in DOMAIN s_datas /\ n \in Names
      /\ UNCHANGED <<s_datas, calls, copy>> /\ DOMAIN job[t] = JobFields
  BY <1>1 DEF Compare, Shape, Setting
<1>3. CASE Same(s_datas[n].type, job[t].value, s_datas[n].m_val)
  <2>1. Finished(t) /\ UNCHANGED <<s_datas, readers, copy, raced>>
    BY <1>2, <1>3 DEF Compare
  <2>2. want' = want \/ (Busy(n) = {} /\ want' = [want EXCEPT ![n] = job[t].value])
    BY <1>3 DEF Compare
  <2>3. /\ DOMAIN want' = Names
        /\ \A m \in Names \ {n} : want'[m] = want[m]
        /\ want'[n] = want[n] \/ (Busy(n) = {} /\ want'[n] = job[t].value)
    BY <1>1, <1>2, <2>2 DEF Shape
  <2>4. Same(s_datas[n].type, s_datas[n].m_val, job[t].value)
    BY <1>3, SameSymmetric
  <2>5. \A m \in DOMAIN s_datas : Agrees(m)
    BY <1>1, <2>3, <2>4 DEF Agrees, Shape
  <2>6. \A m \in Names \ DOMAIN s_datas : want'[m] = want[m]
    BY <1>2, <2>3
  <2>7. QED
    BY <1>2, <2>1, <2>3, <2>5, <2>6, FinishedKeeps
<1>4. CASE ~Same(s_datas[n].type, job[t].value, s_datas[n].m_val)
  <2>1. /\ raced' = [raced EXCEPT ![n] = raced[n] \/ Busy(n) # {}]
        /\ readers' = [readers EXCEPT ![n] = readers[n] \cup {t}]
        /\ want' = [want EXCEPT ![n] = job[t].value]
        /\ pc' = [pc EXCEPT ![t] = "listen"]
        /\ job' = [job EXCEPT ![t].cbs = s_datas[n].m_cbs]
    BY <1>4 DEF Compare
  <2>2. job' = [job EXCEPT ![t] = j]
    BY <2>1
  <2>3. /\ DOMAIN j = JobFields /\ j.name = n /\ j.cbs = s_datas[n].m_cbs
        /\ j.value = job[t].value
    BY <1>2 DEF JobFields
  <2> HIDE DEF j
  <2>4. /\ DOMAIN pc' = Threads /\ DOMAIN job' = Threads /\ pc'[t] = "listen"
        /\ job'[t] = j
        /\ \A u \in Threads \ {t} : pc'[u] = pc[u] /\ job'[u] = job[u]
    BY <1>1, <2>1, <2>2 DEF Shape
  <2>5. raced' \in [Names -> BOOLEAN] /\ DOMAIN readers' = Names /\ DOMAIN want' = Names
    <3>1. (raced[n] \/ Busy(n) # {}) \in BOOLEAN
      OBVIOUS
    <3>2. QED
      BY <1>1, <1>2, <2>1, <3>1 DEF Shape
  <2>6. Shape'
    <3>1. s_datas[n].m_cbs \subseteq ListenersOf(n)
      BY <1>1, <1>2 DEF Shape
    <3>2. QED
      BY <1>1, <1>2, <2>3, <2>4, <2>5, <3>1 DEF Shape, Setting
  <2>7. Locks'
    <3> SUFFICES ASSUME NEW m \in Names
                 PROVE  readers'[m] = {u \in Threads : pc'[u] = "listen" /\ job'[u].name = m}
      BY DEF Locks
    <3>1. readers[m] = {u \in Threads : pc[u] = "listen" /\ job[u].name = m}
      BY <1>1 DEF Locks
    <3>2. readers'[m] = IF m = n THEN readers[m] \cup {t} ELSE readers[m]
      BY <1>1, <2>1 DEF Shape
    <3>3. QED
      BY <1>2, <2>3, <2>4, <3>1, <3>2
  <2>8. Untouched'
    BY <1>1, <1>2, <2>1 DEF Untouched, Shape
  <2>9. /\ Busy(n)' = Busy(n) \cup {t}
        /\ \A m : m # n => Busy(m)' = Busy(m)
    BY <1>2, <2>3, <2>4 DEF Busy
  <2>10. ASSUME NEW m \in DOMAIN s_datas, m # n
         PROVE  Current(m)'
    <3>1. want'[m] = want[m] /\ raced'[m] = raced[m]
      BY <1>1, <2>1, <2>10 DEF Shape
    <3>2. \A u \in Busy(m) : u \in Threads \ {t}
      BY <1>2 DEF Busy
    <3>3. QED
      BY <1>1, <1>2, <2>4, <2>9, <2>10, <3>1, <3>2, FrameCurrent
  <2>11. Current(n)'
    <3>1. CASE raced'[n]
      BY <3>1 DEF Current
    <3>2. CASE ~raced'[n]
      <4>1. Busy(n) = {}
        BY <1>1, <1>2, <2>1, <3>2 DEF Shape
      <4>2. Busy(n)' = {t} /\ want'[n] = job[t].value
        BY <1>1, <1>2, <2>1, <2>9, <4>1 DEF Shape
      <4>3. \A l \in s_datas'[n].m_cbs : pc'[t] = "listen" /\ l \in job'[t].cbs
        BY <1>2, <2>3, <2>4
      <4>4. QED
        BY <2>3, <2>4, <4>2, <4>3 DEF Current
    <3>3. QED
      BY <3>1, <3>2
  <2>12. QED
    BY <1>2, <2>6, <2>7, <2>8, <2>10, <2>11 DEF ConfigInv
<1>5. QED
  BY <1>3, <1>4

(* A listener is told the value that is being set. *)
LEMMA CallListenerKeeps ==
    ASSUME ConfigInv, NEW t \in Threads, CallListener(t)
    PROVE  ConfigInv'
<1>0. PICK n : n = job[t].name
  OBVIOUS
<1> USE <1>0
<1> DEFINE k == NextListener(t)
           j == [job[t] EXCEPT !.cbs = job[t].cbs \ {k}]
<1>1. Shape /\ Locks /\ Untouched /\ \A m \in DOMAIN s_datas : Current(m)
  BY DEF ConfigInv
<1>2. /\ pc[t] = "listen" /\ n \in DOMAIN s_datas /\ DOMAIN job[t] = JobFields
      /\ UNCHANGED <<s_datas, readers, pc, calls, want, raced>>
      /\ job[t].cbs \subseteq ListenersOf(n)
      /\ copy' = [copy EXCEPT ![k] = job[t].value]
      /\ job' = [job EXCEPT ![t] = j]
  BY <1>1 DEF CallListener, Shape, Setting
<1>3. k \in job[t].cbs /\ k # LogListener
  BY <1>1, NextListenerLeft DEF CallListener
<1>4. n = Listened /\ k \in Listeners
  BY <1>2, <1>3 DEF ListenersOf
<1>5. DOMAIN j = JobFields /\ j.name = n /\ j.cbs = job[t].cbs \ {k} /\ j.value = job[t].value
  BY <1>2 DEF JobFields
<1> HIDE DEF j, k
<1>6. DOMAIN job' = Threads /\ job'[t] = j /\ \A u \in Threads \ {t} : job'[u] = job[u]
  BY <1>1, <1>2 DEF Shape
<1>7. Shape'
  <2>1. DOMAIN copy' = Listeners
    BY <1>1, <1>2 DEF Shape
  <2>2. QED
    BY <1>1, <1>2, <1>5, <1>6, <2>1 DEF Shape, Setting
<1>8. Locks' /\ Untouched'
  BY <1>1, <1>2, <1>5, <1>6 DEF Locks, Untouched
<1>9. \A m : Busy(m)' = Busy(m)
  BY <1>2, <1>5, <1>6 DEF Busy
<1>10. \A u \in Threads : job'[u].name = job[u].name /\ job'[u].value = job[u].value
  BY <1>5, <1>6
<1>11. ASSUME NEW m \in DOMAIN s_datas, m # n
       PROVE  Current(m)'
  <2> DEFINE B == Busy(m)
  <2>1. Busy(m)' = B /\ B \subseteq Threads
    BY <1>9 DEF Busy
  <2> HIDE DEF B
  <2>2. QED
    BY <1>1, <1>2, <1>4, <1>10, <1>11, <2>1 DEF Current, B
<1>12. Current(n)'
  <2>1. t \in Busy(n)
    BY <1>2 DEF Busy
  <2> DEFINE B == Busy(n)
  <2>2. Busy(n)' = B /\ t \in B /\ B \subseteq Threads
    BY <1>9, <2>1 DEF Busy
  <2> HIDE DEF B
  <2>3. CASE raced[n]
    BY <1>2, <2>3 DEF Current
  <2>4. CASE ~raced[n]
    <3>1. /\ \A v, u \in B : v = u
          /\ want[n] = job[t].value
          /\ \A l \in s_datas[n].m_cbs \ {LogListener} :
                 copy[l] = job[t].value \/ l \in job[t].cbs
      BY <1>1, <1>2, <1>4, <2>2, <2>4 DEF Current, B
    <3>2. B = {t}
      BY <2>2, <3>1
    <3>3. \A l \in s_datas[n].m_cbs \ {LogListener} :
             copy'[l] = job[t].value \/ l \in job'[t].cbs
      <4>1. ASSUME NEW l \in s_datas[n].m_cbs \ {LogListener}
            PROVE  copy'[l] = job[t].value \/ l \in job'[t].cbs
        <5>1. l \in Listeners /\ DOMAIN copy = Listeners
          BY <1>1, <1>2, <1>4 DEF Shape, ListenersOf
        <5>2. QED
          BY <1>2, <1>5, <1>6, <3>1, <5>1
      <4>2. QED
        BY <4>1
    <3>4. QED
      BY <1>2, <1>10, <2>2, <3>1, <3>2, <3>3 DEF Current
  <2>5. QED
    BY <2>3, <2>4
<1>13. QED
  BY <1>2, <1>7, <1>8, <1>11, <1>12 DEF ConfigInv

(* The read lock is released when no listener is left. *)
LEMMA UnlockKeeps ==
    ASSUME ConfigInv, NEW t \in Threads, Unlock(t)
    PROVE  ConfigInv'
<1> DEFINE n == job[t].name
<1>1. Shape /\ Locks /\ Untouched /\ \A m \in DOMAIN s_datas : Current(m)
  BY DEF ConfigInv
<1>2. /\ pc[t] = "listen" /\ n \in DOMAIN s_datas /\ job[t].cbs = {}
      /\ UNCHANGED <<s_datas, job, calls, copy, want, raced>>
      /\ readers' = [readers EXCEPT ![n] = readers[n] \ {t}]
      /\ pc' = [pc EXCEPT ![t] = "store"]
  BY <1>1 DEF Unlock, Shape, Setting
<1>3. /\ DOMAIN pc' = Threads /\ pc'[t] = "store"
      /\ \A u \in Threads \ {t} : pc'[u] = pc[u]
  BY <1>1, <1>2 DEF Shape
<1>4. Shape'
  BY <1>1, <1>2, <1>3 DEF Shape, Setting
<1>5. Untouched'
  BY <1>1, <1>2 DEF Untouched
<1>6. Locks'
  <2> SUFFICES ASSUME NEW m \in Names
               PROVE  readers'[m] = {u \in Threads : pc'[u] = "listen" /\ job'[u].name = m}
    BY DEF Locks
  <2>1. readers[m] = {u \in Threads : pc[u] = "listen" /\ job[u].name = m}
    BY <1>1 DEF Locks
  <2>2. readers'[m] = IF m = n THEN readers[m] \ {t} ELSE readers[m]
    BY <1>1, <1>2 DEF Shape
  <2>3. QED
    BY <1>2, <1>3, <2>1, <2>2
<1>7. \A m : Busy(m)' = Busy(m)
  BY <1>2, <1>3 DEF Busy
<1>8. ASSUME NEW m \in DOMAIN s_datas
      PROVE  Current(m)'
  <2> DEFINE B == Busy(m)
  <2>1. Busy(m)' = B /\ B \subseteq Threads
    BY <1>7 DEF Busy
  <2> HIDE DEF B
  <2>2. QED
    BY <1>1, <1>2, <1>3, <2>1 DEF Current, B
<1>9. QED
  BY <1>2, <1>4, <1>5, <1>6, <1>8 DEF ConfigInv

(* The value is stored, and the thread leaves setValue(). *)
LEMMA StoreKeeps ==
    ASSUME ConfigInv, NEW t \in Threads, Store(t)
    PROVE  ConfigInv'
<1>0. PICK n : n = job[t].name
  OBVIOUS
<1>1. Shape /\ Locks /\ Untouched /\ \A m \in DOMAIN s_datas : Current(m)
  BY DEF ConfigInv
<1>2. PICK p, j : /\ p \in {"idle", "load"} /\ DOMAIN j = JobFields
                  /\ pc' = [pc EXCEPT ![t] = p] /\ job' = [job EXCEPT ![t] = j]
  <2> DEFINE p == IF job[t].nodes = <<>> THEN "idle" ELSE "load"
             j == [NoJob EXCEPT !.nodes = job[t].nodes]
  <2>1. p \in {"idle", "load"} /\ DOMAIN j = JobFields
    BY DEF NoJob, JobFields
  <2>2. pc' = [pc EXCEPT ![t] = p] /\ job' = [job EXCEPT ![t] = j]
    BY DEF Store, Finished
  <2> HIDE DEF p, j
  <2>3. QED
    BY <2>1, <2>2
<1>3. /\ pc[t] = "store" /\ n \in DOMAIN s_datas /\ n \in Names
      /\ s_datas' = [s_datas EXCEPT ![n].m_val = job[t].value]
      /\ UNCHANGED <<readers, calls, copy, want, raced>>
  BY <1>0, <1>1 DEF Store, Shape, Setting
<1>4. /\ DOMAIN pc' = Threads /\ DOMAIN job' = Threads /\ pc'[t] = p /\ job'[t] = j
      /\ \A u \in Threads \ {t} : pc'[u] = pc[u] /\ job'[u] = job[u]
  BY <1>1, <1>2 DEF Shape
<1>5. /\ DOMAIN s_datas' = DOMAIN s_datas
      /\ \A m \in DOMAIN s_datas \ {n} : s_datas'[m] = s_datas[m]
      /\ s_datas'[n] = [s_datas[n] EXCEPT !.m_val = job[t].value]
  BY <1>3
<1>6. /\ DOMAIN s_datas'[n] = VarFields /\ s_datas'[n].m_cbs = s_datas[n].m_cbs
      /\ s_datas'[n].m_val = job[t].value
  BY <1>1, <1>3, <1>5 DEF Shape, VarFields
<1>7. Shape'
  BY <1>1, <1>2, <1>3, <1>4, <1>5, <1>6 DEF Shape, Setting
<1>8. Locks' /\ Untouched'
  BY <1>1, <1>2, <1>3, <1>4, <1>5 DEF Locks, Untouched
<1>9. /\ Busy(n)' = Busy(n) \ {t} /\ t \in Busy(n)
      /\ \A m : m # n => Busy(m)' = Busy(m)
  BY <1>0, <1>2, <1>3, <1>4 DEF Busy
<1>10. ASSUME NEW m \in DOMAIN s_datas, m # n
       PROVE  Current(m)'
  <2>1. \A u \in Busy(m) : u \in Threads \ {t}
    BY <1>0, <1>10 DEF Busy
  <2>2. QED
    BY <1>1, <1>3, <1>4, <1>5, <1>9, <1>10, <2>1, FrameCurrent
<1>11. Current(n)'
  <2>1. CASE raced[n]
    BY <1>3, <2>1 DEF Current
  <2>2. CASE ~raced[n]
    <3>1. /\ \A v, u \in Busy(n) : v = u
          /\ want[n] = job[t].value
          /\ n = Listened => \A l \in s_datas[n].m_cbs \ {LogListener} : copy[l] = job[t].value
      BY <1>1, <1>3, <1>9, <2>2 DEF Current
    <3>2. Busy(n)' = {}
      BY <1>9, <3>1
    <3>3. Same(s_datas'[n].type, s_datas'[n].m_val, want'[n])
      BY <1>3, <1>6, <3>1, SameReflexive
    <3>4. QED
      BY <1>3, <1>6, <3>1, <3>2, <3>3 DEF Current
  <2>3. QED
    BY <2>1, <2>2
<1>12. QED
  BY <1>5, <1>7, <1>8, <1>10, <1>11 DEF ConfigInv

(* The beginning of setValue(), and LoadFromYaml() with its nodes. *)
LEMMA LoadKeeps ==
    ASSUME ConfigInv, NEW t \in Threads,
           \/ \E d \in Direct : setValue(t, d[1], d[2])
           \/ \E doc \in Docs : LoadFromYaml(t, doc)
           \/ LoadNode(t)
           \/ LoadEnds(t)
    PROVE  ConfigInv'
<1>1. DOMAIN pc = Threads /\ DOMAIN job = Threads /\ DOMAIN job[t] = JobFields
  BY DEF ConfigInv, Shape
<1>2. ASSUME NEW d \in Direct, setValue(t, d[1], d[2])
      PROVE  ConfigInv'
  <2> DEFINE j == [job[t] EXCEPT !.name = d[1], !.value = d[2]]
  <2>1. /\ pc[t] = "idle" /\ d[1] \in DOMAIN s_datas
        /\ pc' = [pc EXCEPT ![t] = "compare"] /\ job' = [job EXCEPT ![t] = j]
        /\ UNCHANGED <<s_datas, readers, copy, want, raced>>
    BY <1>2 DEF setValue, Begins, LookupBase
  <2>2. DOMAIN j = JobFields /\ j.name = d[1]
    BY <1>1 DEF JobFields
  <2> HIDE DEF j
  <2>3. QED
    BY <1>1, <2>1, <2>2, OutsideKeeps
<1>3. ASSUME NEW doc \in Docs, LoadFromYaml(t, doc)
      PROVE  ConfigInv'
  <2> DEFINE j == [job[t] EXCEPT !.nodes = ListAllMember(doc)]
  <2>1. /\ pc[t] = "idle"
        /\ pc' = [pc EXCEPT ![t] = "load"] /\ job' = [job EXCEPT ![t] = j]
        /\ UNCHANGED <<s_datas, readers, copy, want, raced>>
    BY <1>3 DEF LoadFromYaml, Begins
  <2>2. DOMAIN j = JobFields
    BY <1>1 DEF JobFields
  <2> HIDE DEF j
  <2>3. QED
    BY <1>1, <2>1, <2>2, OutsideKeeps
<1>4. ASSUME LoadNode(t)
      PROVE  ConfigInv'
  <2> DEFINE node == Head(job[t].nodes)
             v    == Cast(s_datas[node.path].type, node.text).value
             rest == Tail(job[t].nodes)
             j    == [job[t] EXCEPT !.nodes = rest]
             k    == [job[t] EXCEPT !.nodes = rest, !.name = node.path, !.value = v]
  <2>1. pc[t] = "load" /\ UNCHANGED <<s_datas, readers, calls, copy, want, raced>>
    BY <1>4 DEF LoadNode
  <2>2. \/ /\ node.path \in DOMAIN s_datas
           /\ pc' = [pc EXCEPT ![t] = "compare"] /\ job' = [job EXCEPT ![t] = k]
        \/ pc' = pc /\ job' = [job EXCEPT ![t] = j]
    BY <1>4 DEF LoadNode, LookupBase
  <2>3. DOMAIN j = JobFields /\ DOMAIN k = JobFields /\ k.name = node.path
    BY <1>1 DEF JobFields
  <2> HIDE DEF node, v, rest, j, k
  <2>4. CASE pc' = pc /\ job' = [job EXCEPT ![t] = j]
    BY <1>1, <2>1, <2>3, <2>4, OutsideKeeps
  <2>5. CASE /\ node.path \in DOMAIN s_datas
             /\ pc' = [pc EXCEPT ![t] = "compare"] /\ job' = [job EXCEPT ![t] = k]
    BY <1>1, <2>1, <2>3, <2>5, OutsideKeeps
  <2>6. QED
    BY <2>2, <2>4, <2>5
<1>5. ASSUME LoadEnds(t)
      PROVE  ConfigInv'
  BY <1>1, <1>5, OutsideKeeps DEF LoadEnds
<1>6. QED
  BY <1>2, <1>3, <1>4, <1>5

(* The log listener and its calls. *)
LEMMA LogListenerKeeps ==
    ASSUME ConfigInv, NEW t \in Threads, LogConfChanged(t) \/ PlanStep(t)
    PROVE  ConfigInv'
<1>1. /\ DOMAIN job = Threads /\ \A u \in Threads : DOMAIN job[u] = JobFields
      /\ UNCHANGED <<s_datas, readers, pc, copy, want, raced>>
  BY DEF ConfigInv, Shape, LogConfChanged, PlanStep
<1>2. DOMAIN job' = Threads /\ \A u \in Threads \ {t} : job'[u] = job[u]
  BY <1>1 DEF LogConfChanged, PlanStep
<1>3. /\ DOMAIN job'[t] = JobFields /\ job'[t].name = job[t].name
      /\ job'[t].value = job[t].value
      /\ job'[t].cbs \in {job[t].cbs, job[t].cbs \ {LogListener}}
  <2>1. CASE LogConfChanged(t)
    <3> DEFINE q == Plan(s_datas[job[t].name].m_val, job[t].value)
    <3>1. job'[t] = [job[t] EXCEPT !.cbs = job[t].cbs \ {LogListener}, !.plan = q]
      BY <1>1, <2>1 DEF LogConfChanged
    <3> HIDE DEF q
    <3>2. QED
      BY <1>1, <3>1 DEF JobFields
  <2>2. CASE PlanStep(t)
    <3> DEFINE q == Tail(job[t].plan)
    <3>1. job'[t] = [job[t] EXCEPT !.plan = q]
      BY <1>1, <2>2 DEF PlanStep
    <3> HIDE DEF q
    <3>2. QED
      BY <1>1, <3>1 DEF JobFields
  <2>3. QED
    BY <2>1, <2>2
<1>4. QED
  BY <1>1, <1>2, <1>3, PlanKeeps

LEMMA ConfigKept == ConfigInv /\ [Next]_vars => ConfigInv'
<1> SUFFICES ASSUME ConfigInv, [Next]_vars
             PROVE  ConfigInv'
  OBVIOUS
<1>1. ASSUME UNCHANGED configVars
      PROVE  ConfigInv'
  <2>1. \A u \in Threads : /\ DOMAIN job'[u] = JobFields /\ job'[u] = job[u]
    BY <1>1 DEF ConfigInv, Shape, configVars
  <2>2. QED
    BY <1>1, <2>1, PlanKeeps DEF configVars, ConfigInv, Shape
<1>2. CASE UNCHANGED vars
  BY <1>1, <1>2 DEF vars
<1>3. ASSUME NEW t \in Threads, Step(t)
      PROVE  ConfigInv'
  BY <1>3, CompareKeeps, CallListenerKeeps, UnlockKeeps, StoreKeeps, LoadKeeps,
     LogListenerKeeps DEF Step, ConfigStep
<1>4. ASSUME NEW t \in Threads, ConfigCall(t)
      PROVE  ConfigInv'
  BY <1>4, LookupKeeps, ListenersKeep, LoadKeeps DEF ConfigCall, clearListener
<1>5. ASSUME NEW t \in Reporters, NEW n \in Loggers, NEW level \in Levels,
             Report(t, n, level)
      PROVE  ConfigInv'
  BY <1>1, <1>5 DEF Report
<1>6. ASSUME NEW t \in Reporters, NEW p \in Patterns, NEW beyond \in BOOLEAN,
             SetFormatter(t, p, beyond)
      PROVE  ConfigInv'
  BY <1>1, <1>6 DEF SetFormatter
<1>7. ASSUME NEW t \in Reporters, Log(t)
      PROVE  ConfigInv'
  BY <1>1, <1>7 DEF Log
<1>8. QED
  BY <1>2, <1>3, <1>4, <1>5, <1>6, <1>7 DEF Next

(* Whatever the threads, names, documents and listeners: when calls on a   *)
(* name have not overlapped, the value is, by operator== of its type, the  *)
(* one that was asked for last, and every listener that is registered has  *)
(* been told of it.  Of "logs" operator== compares no appenders.           *)
THEOREM ListenersStayCurrent == Spec => []ListenersCurrent
<1>1. Init => ConfigInv
  BY ConfigInitial DEF Init
<1>2. ConfigInv /\ [Next]_vars => ConfigInv'
  BY ConfigKept
<1>3. ConfigInv => ListenersCurrent
  <2> SUFFICES ASSUME ConfigInv, NEW n \in DOMAIN s_datas, Settled(n)
               PROVE  /\ Same(s_datas[n].type, s_datas[n].m_val, want[n])
                      /\ n = Listened =>
                             \A l \in s_datas[n].m_cbs \ {LogListener} :
                                 copy[l] = s_datas[n].m_val
    BY DEF ListenersCurrent
  <2>1. Busy(n) = {} /\ ~raced[n] /\ Current(n)
    BY DEF Settled, Busy, ConfigInv
  <2>2. QED
    BY <2>1 DEF Current
<1>4. QED
  BY <1>1, <1>2, <1>3, PTL DEF Spec

-----------------------------------------------------------------------------
(* The formatters of loggers and appenders *)

LoggerFields   == {"m_level", "m_formatter", "m_appenders"}
AppenderFields == {"type", "file", "m_level", "m_formatter", "m_hasFormatter"}

(* The appender a formats for a logger with the formatter f. *)
Formats(a, f) ==
    /\ DOMAIN a = AppenderFields
    /\ ~a.m_formatter.m_error
    /\ a.m_hasFormatter \/ a.m_formatter = f

(* A logger all of whose appenders do. *)
GoodLogger(g) ==
    /\ DOMAIN g = LoggerFields
    /\ ~g.m_formatter.m_error
    /\ \E S : g.m_appenders \in Seq(S)
    /\ \A i \in 1 .. Len(g.m_appenders) : Formats(g.m_appenders[i], g.m_formatter)

LoggersInv ==
    /\ "root" \in DOMAIN m_loggers
    /\ \A n \in DOMAIN m_loggers : GoodLogger(m_loggers[n])

LEMMA NewLoggers == GoodLogger(LoggerOf(<<>>)) /\ GoodLogger(LoggerOf(<<Stdout>>))
<1>1. ~DefaultFormatter.m_error
  BY LogAssumption
<1> HIDE DEF DefaultFormatter
<1>2. <<>> \in Seq({}) /\ Len(<<>>) = 0
  OBVIOUS
<1>3. GoodLogger(LoggerOf(<<>>))
  BY <1>1, <1>2 DEF GoodLogger, LoggerOf, LoggerFields
<1>4. Formats(Stdout, DefaultFormatter)
  BY <1>1 DEF Formats, Stdout, AppenderFields
<1> HIDE DEF Stdout
<1> DEFINE s == <<Stdout>>
<1>5. s \in Seq({Stdout}) /\ Len(s) = 1 /\ s[1] = Stdout
  OBVIOUS
<1> HIDE DEF s
<1>6. GoodLogger(LoggerOf(s))
  <2>1. /\ DOMAIN LoggerOf(s) = LoggerFields /\ LoggerOf(s).m_formatter = DefaultFormatter
        /\ LoggerOf(s).m_appenders = s
    BY DEF LoggerOf, LoggerFields
  <2>2. \A i \in 1 .. Len(s) : Formats(s[i], DefaultFormatter)
    BY <1>4, <1>5
  <2>3. QED
    BY <1>1, <1>5, <2>1, <2>2 DEF GoodLogger
<1>7. QED
  BY <1>3, <1>6 DEF s

(* setLevel() and clearAppenders(). *)
LEMMA SimpleMethods ==
    ASSUME NEW g, GoodLogger(g)
    PROVE  GoodLogger(clearAppenders(g)) /\ \A level : GoodLogger(setLevel(g, level))
<1>1. <<>> \in Seq({}) /\ Len(<<>>) = 0
  OBVIOUS
<1>2. QED
  BY <1>1 DEF GoodLogger, clearAppenders, setLevel, LoggerFields

(* setFormatter(): a pattern with an error changes nothing, another one is *)
(* the logger's and that of the appenders that have none of their own.     *)
LEMMA SetFormatterGood ==
    ASSUME NEW g, GoodLogger(g), NEW f, f.m_error \in BOOLEAN
    PROVE  GoodLogger(setFormatter(g, f))
<1>1. CASE f.m_error
  BY <1>1 DEF setFormatter
<1>2. CASE ~f.m_error
  <2> DEFINE s    == g.m_appenders
             b(i) == IF s[i].m_hasFormatter THEN s[i] ELSE [s[i] EXCEPT !.m_formatter = f]
             r    == [i \in 1 .. Len(s) |-> b(i)]
             h    == [g EXCEPT !.m_formatter = f, !.m_appenders = r]
  <2>1. setFormatter(g, f) = h
    BY <1>2 DEF setFormatter
  <2>2. DOMAIN g = LoggerFields /\ Len(s) \in Nat
    BY DEF GoodLogger
  <2>3. \A i \in 1 .. Len(s) : Formats(b(i), f)
    <3> SUFFICES ASSUME NEW i \in 1 .. Len(s)
                 PROVE  Formats(b(i), f)
      OBVIOUS
    <3>1. Formats(s[i], g.m_formatter)
      BY DEF GoodLogger
    <3>2. CASE s[i].m_hasFormatter
      BY <3>1, <3>2 DEF Formats
    <3>3. CASE ~s[i].m_hasFormatter
      <4> DEFINE a == s[i]
      <4>1. DOMAIN a = AppenderFields
        BY <3>1 DEF Formats
      <4> HIDE DEF a
      <4>2. LET c == [a EXCEPT !.m_formatter = f]
            IN  DOMAIN c = AppenderFields /\ c.m_formatter = f
        BY <4>1 DEF AppenderFields
      <4>3. b(i) = [a EXCEPT !.m_formatter = f]
        BY <3>3 DEF a
      <4>4. QED
        BY <1>2, <4>2, <4>3 DEF Formats
    <3>4. QED
      BY <3>2, <3>3
  <2> HIDE DEF s, b
  <2>4. r \in Seq({b(i) : i \in 1 .. Len(s)}) /\ Len(r) = Len(s)
        /\ \A i \in 1 .. Len(s) : r[i] = b(i)
    BY <2>2
  <2> HIDE DEF r
  <2>5. DOMAIN h = LoggerFields /\ h.m_formatter = f /\ h.m_appenders = r
    BY <2>2 DEF LoggerFields
  <2> HIDE DEF h
  <2>6. QED
    BY <1>2, <2>1, <2>3, <2>4, <2>5 DEF GoodLogger
<1>3. QED
  BY <1>1, <1>2

(* addAppender(): an appender whose pattern is missing or has an error is  *)
(* lent the logger's formatter.                                            *)
LEMMA AddAppenderGood ==
    ASSUME NEW g, GoodLogger(g), NEW a, NEW f, f.m_error \in BOOLEAN
    PROVE  GoodLogger(addAppender(g, a, f))
<1> DEFINE own == a.formatter # <<>> /\ ~f.m_error
           x   == [type |-> a.type, file |-> a.file, m_level |-> a.level,
                   m_formatter |-> IF own THEN f ELSE g.m_formatter,
                   m_hasFormatter |-> own]
           s   == g.m_appenders
           r   == Append(s, x)
           h   == [g EXCEPT !.m_appenders = r]
<1>1. addAppender(g, a, f) = h
  BY DEF addAppender
<1>2. ~g.m_formatter.m_error /\ DOMAIN g = LoggerFields
  BY DEF GoodLogger
<1>3. Formats(x, g.m_formatter)
  BY <1>2 DEF Formats, AppenderFields
<1>4. PICK S : s \in Seq(S)
  BY DEF GoodLogger
<1>5. \A i \in 1 .. Len(s) : Formats(s[i], g.m_formatter)
  BY DEF GoodLogger
<1> HIDE DEF x, s
<1>6. s \in Seq(S \cup {x}) /\ x \in S \cup {x} /\ Len(s) \in Nat
  BY <1>4
<1>7. r \in Seq(S \cup {x}) /\ Len(r) = Len(s) + 1
  BY <1>6
<1>8. r[Len(s) + 1] = x /\ \A i \in 1 .. Len(s) : r[i] = s[i]
  BY <1>6
<1> HIDE DEF r
<1>9. \A i \in 1 .. Len(r) : Formats(r[i], g.m_formatter)
  BY <1>3, <1>5, <1>6, <1>7, <1>8
<1>10. DOMAIN h = LoggerFields /\ h.m_formatter = g.m_formatter /\ h.m_appenders = r
  BY <1>2 DEF LoggerFields
<1> HIDE DEF h
<1>11. QED
  BY <1>1, <1>2, <1>7, <1>9, <1>10 DEF GoodLogger

(* A step that replaces one logger by a good one. *)
LEMMA ReplaceLogger ==
    ASSUME LoggersInv, NEW n, NEW g, GoodLogger(g),
           m_loggers' = WithLogger(n, g)
    PROVE  LoggersInv'
BY DEF LoggersInv, WithLogger

LEMMA FormatterErrors ==
    ASSUME NEW p, NEW b
    PROVE  LogFormatterOf(p, b).m_error \in BOOLEAN
BY DEF LogFormatterOf

LEMMA LoggersKept == LoggersInv /\ [Next]_vars => LoggersInv'
<1> SUFFICES ASSUME LoggersInv, [Next]_vars
             PROVE  LoggersInv'
  OBVIOUS
<1>1. ASSUME m_loggers' = m_loggers
      PROVE  LoggersInv'
  BY <1>1 DEF LoggersInv
<1>2. CASE UNCHANGED vars
  BY <1>1, <1>2 DEF vars, logVars
<1>3. \A n : GoodLogger(getLogger(n))
  BY NewLoggers DEF getLogger, LoggersInv
<1>4. ASSUME NEW t \in Threads, PlanStep(t)
      PROVE  LoggersInv'
  <2> DEFINE s == Head(job[t].plan)
             g == getLogger(s.logger)
  <2>1. PICK beyond \in BOOLEAN :
            \E h :
                /\ m_loggers' = WithLogger(s.logger, h)
                /\ \/ h = setLevel(g, s.arg)
                   \/ h = setFormatter(g, LogFormatterOf(s.arg, beyond))
                   \/ h = clearAppenders(g)
                   \/ h = addAppender(g, s.arg, LogFormatterOf(s.arg.formatter, beyond))
    BY <1>4 DEF PlanStep
  <2>2. PICK h :
            /\ m_loggers' = WithLogger(s.logger, h)
            /\ \/ h = setLevel(g, s.arg)
               \/ h = setFormatter(g, LogFormatterOf(s.arg, beyond))
               \/ h = clearAppenders(g)
               \/ h = addAppender(g, s.arg, LogFormatterOf(s.arg.formatter, beyond))
    BY <2>1
  <2>3. GoodLogger(g)
    BY <1>3
  <2> HIDE DEF g
  <2>4. GoodLogger(h)
    BY <2>2, <2>3, SimpleMethods, SetFormatterGood, AddAppenderGood, FormatterErrors
  <2>5. QED
    BY <2>2, <2>4, ReplaceLogger
<1>5. ASSUME NEW t \in Threads, Step(t)
      PROVE  LoggersInv'
  BY <1>1, <1>4, <1>5 DEF Step, logVars, LogConfChanged
<1>6. ASSUME NEW t \in Reporters, NEW n \in Loggers, NEW level \in Levels,
             Report(t, n, level)
      PROVE  LoggersInv'
  <2>1. m_loggers' = WithLogger(n, getLogger(n))
    BY <1>6 DEF Report
  <2>2. QED
    BY <1>3, <2>1, ReplaceLogger
<1>7. ASSUME NEW t \in Reporters, NEW p \in Patterns, NEW beyond \in BOOLEAN,
             SetFormatter(t, p, beyond)
      PROVE  LoggersInv'
  <2> DEFINE h == setFormatter(m_loggers["root"], LogFormatterOf(p, beyond))
  <2>1. m_loggers' = WithLogger("root", h)
    BY <1>7 DEF SetFormatter
  <2>2. GoodLogger(h)
    BY SetFormatterGood, FormatterErrors DEF LoggersInv
  <2> HIDE DEF h
  <2>3. QED
    BY <2>1, <2>2, ReplaceLogger
<1>8. ASSUME NEW t \in Threads, UNCHANGED logVars
      PROVE  LoggersInv'
  BY <1>1, <1>8 DEF logVars
<1>9. ASSUME NEW t \in Reporters, Log(t)
      PROVE  LoggersInv'
  BY <1>1, <1>9 DEF Log
<1>10. QED
  BY <1>2, <1>5, <1>6, <1>7, <1>8, <1>9 DEF Next

(* Whatever the documents and the patterns, and however reloads, records   *)
(* and setFormatter() interleave: every appender of a logger has a         *)
(* formatter that is free of errors, its own or the logger's.              *)
THEOREM AppendersAlwaysFormat == Spec => []AppendersFormat
<1>1. Init => LoggersInv
  BY NewLoggers DEF Init, LoggersInv
<1>2. LoggersInv /\ [Next]_vars => LoggersInv'
  BY LoggersKept
<1>3. LoggersInv => AppendersFormat
  BY DEF LoggersInv, GoodLogger, Formats, AppendersFormat
<1>4. QED
  BY <1>1, <1>2, <1>3, PTL DEF Spec

-----------------------------------------------------------------------------
(* The conversions of LexicalCast *)

(* What Kept() gives is a sequence of what it keeps, and all of it when    *)
(* nothing is left out.                                                    *)
LEMMA KeptElements ==
    ASSUME NEW T, NEW s \in Seq(T), NEW S
    PROVE  /\ Kept(s, S) \in Seq(S \cap T)
           /\ (\A i \in 1 .. Len(s) : s[i] \in S) => Kept(s, S) = s
<1> DEFINE kept[i \in 0 .. Len(s)] ==
               IF i = 0 THEN <<>>
               ELSE IF s[i] \in S THEN Append(kept[i - 1], s[i]) ELSE kept[i - 1]
           At(f, i) == IF i = 0 THEN <<>>
                       ELSE IF s[i] \in S THEN Append(f[i - 1], s[i]) ELSE f[i - 1]
           Fun(n) == \E f : f = [i \in 0 .. n |-> At(f, i)]
<1>1. Len(s) \in Nat /\ \A i \in 1 .. Len(s) : s[i] \in T
  BY LenProperties, ElementOfSeq
<1>2. Kept(s, S) = kept[Len(s)]
  BY DEF Kept
<1>3. \A n \in Nat : Fun(n)
  <2> SUFFICES ASSUME {n \in Nat : ~Fun(n)} # {}
               PROVE  FALSE
    OBVIOUS
  <2>1. PICK n \in {m \in Nat : ~Fun(m)} : \A m \in {l \in Nat : ~Fun(l)} \ {n} : n < m
    <3> HIDE DEF Fun
    <3>1. QED
      BY LeastNat
  <2>2. n \in Nat /\ ~Fun(n)
    OBVIOUS
  <2>3. CASE n = 0
    <3> DEFINE f == [i \in 0 .. 0 |-> <<>>]
    <3>1. f = [i \in 0 .. n |-> At(f, i)]
      BY <2>3
    <3>2. QED
      BY <2>2, <3>1
  <2>4. CASE n # 0
    <3>1. n - 1 \in Nat /\ ~(n < n - 1) /\ n - 1 # n
      BY <2>2, <2>4
    <3>2. Fun(n - 1)
      <4> HIDE DEF Fun
      <4>1. QED
        BY <2>1, <3>1
    <3>3. PICK f : f = [i \in 0 .. n - 1 |-> At(f, i)]
      BY <3>2
    <3> DEFINE g == [i \in 0 .. n |-> At(f, i)]
    <3>4. \A i \in 0 .. n : At(g, i) = At(f, i)
      <4>1. \A i \in 0 .. n - 1 : f[i] = At(f, i) /\ g[i] = At(f, i)
        <5>1. \A i \in 0 .. n - 1 : i \in 0 .. n
          BY <2>2
        <5> HIDE DEF At
        <5>2. QED
          BY <3>3, <5>1
      <4> HIDE DEF g
      <4>2. \A i \in 0 .. n : i # 0 => i - 1 \in 0 .. n - 1
        BY <2>2
      <4>3. QED
        BY <4>1, <4>2
    <3>5. g = [i \in 0 .. n |-> At(g, i)]
      BY <3>4
    <3>6. QED
      BY <2>2, <3>5
  <2>5. QED
    BY <2>3, <2>4
<1>4. PICK f : f = [i \in 0 .. Len(s) |-> At(f, i)]
  <2>1. Fun(Len(s))
    <3> HIDE DEF Fun
    <3>1. QED
      BY <1>1, <1>3
  <2>2. QED
    BY <2>1
<1>5. kept = [i \in 0 .. Len(s) |->
                  IF i = 0 THEN <<>>
                  ELSE IF s[i] \in S THEN Append(kept[i - 1], s[i]) ELSE kept[i - 1]]
  BY <1>4, Zenon
<1> HIDE DEF kept
<1> DEFINE Ok(i) == /\ kept[i] \in Seq(S \cap T)
                    /\ (\A j \in 1 .. Len(s) : s[j] \in S) =>
                           Len(kept[i]) = i /\ \A j \in 1 .. i : kept[i][j] = s[j]
<1>6. Ok(0)
  <2>1. kept[0] = <<>>
    BY <1>1, <1>5
  <2>2. QED
    BY <2>1
<1>7. \A i \in 1 .. Len(s) : Ok(i - 1) => Ok(i)
  <2> SUFFICES ASSUME NEW i \in 1 .. Len(s), Ok(i - 1)
               PROVE  Ok(i)
    OBVIOUS
  <2>1. i \in 0 .. Len(s) /\ i # 0
    BY <1>1
  <2>2. kept[i] = IF i = 0 THEN <<>>
                  ELSE IF s[i] \in S THEN Append(kept[i - 1], s[i]) ELSE kept[i - 1]
    BY <1>5, <2>1, Zenon
  <2> DEFINE q == kept[i - 1]
  <2>3. kept[i] = IF s[i] \in S THEN Append(q, s[i]) ELSE q
    BY <2>1, <2>2
  <2>4. q \in Seq(S \cap T)
    OBVIOUS
  <2>5. (\A j \in 1 .. Len(s) : s[j] \in S) =>
            Len(q) = i - 1 /\ \A j \in 1 .. i - 1 : q[j] = s[j]
    OBVIOUS
  <2> HIDE DEF q
  <2>6. kept[i] \in Seq(S \cap T)
    BY <1>1, <2>3, <2>4
  <2>7. ASSUME \A j \in 1 .. Len(s) : s[j] \in S
        PROVE  Len(kept[i]) = i /\ \A j \in 1 .. i : kept[i][j] = s[j]
    <3>1. kept[i] = Append(q, s[i]) /\ Len(q) = i - 1 /\ s[i] \in S \cap T
      BY <1>1, <2>3, <2>5, <2>7
    <3>2. \A j \in 1 .. i - 1 : q[j] = s[j]
      BY <2>5, <2>7
    <3>3. Len(kept[i]) = i /\ kept[i][i] = s[i] /\ \A j \in 1 .. i - 1 : kept[i][j] = q[j]
      BY <1>1, <2>4, <3>1
    <3>4. QED
      BY <1>1, <3>2, <3>3
  <2>8. QED
    BY <2>6, <2>7
<1>8. \A i \in 0 .. Len(s) : Ok(i)
  <2> DEFINE Bad == {i \in 0 .. Len(s) : ~Ok(i)}
  <2> SUFFICES ASSUME Bad # {}
               PROVE  FALSE
    OBVIOUS
  <2>1. Bad \subseteq Nat /\ \A i \in Bad : i \in 0 .. Len(s) /\ ~Ok(i)
    BY <1>1
  <2>2. PICK i \in Bad : \A j \in Bad \ {i} : i < j
    <3> HIDE DEF Bad
    <3>1. QED
      BY <2>1, LeastNat
  <2>3. i \in 1 .. Len(s) /\ ~Ok(i)
    <3> HIDE DEF Ok
    <3>1. QED
      BY <1>1, <1>6, <2>1
  <2>4. Ok(i - 1)
    <3>1. i - 1 \in 0 .. Len(s) /\ ~(i < i - 1) /\ i - 1 # i
      BY <1>1, <2>3
    <3> HIDE DEF Ok
    <3>2. QED
      BY <2>2, <3>1
  <2> HIDE DEF Ok
  <2>5. QED
    BY <1>7, <2>3, <2>4
<1>9. Ok(Len(s))
  <2> HIDE DEF Ok
  <2>1. QED
    BY <1>1, <1>8
<1>10. ASSUME \A i \in 1 .. Len(s) : s[i] \in S
       PROVE  Kept(s, S) = s
  <2> DEFINE q == kept[Len(s)]
  <2>1. q \in Seq(S \cap T) /\ Len(q) = Len(s) /\ \A j \in 1 .. Len(s) : q[j] = s[j]
    BY <1>9, <1>10
  <2>2. q = Kept(s, S)
    BY <1>2
  <2> HIDE DEF q
  <2>3. q = s
    BY <2>1, SeqEqual
  <2>4. QED
    BY <2>2, <2>3
<1>11. QED
  BY <1>2, <1>9, <1>10

(* SetToSeq() lists every element of a finite set once. *)
LEMMA SetToSeqLists ==
    ASSUME NEW S, IsFiniteSet(S)
    PROVE  /\ SetToSeq(S) \in Seq(S)
           /\ \A e \in S : \E i \in 1 .. Len(SetToSeq(S)) : SetToSeq(S)[i] = e
           /\ \A i, j \in 1 .. Len(SetToSeq(S)) : SetToSeq(S)[i] = SetToSeq(S)[j] => i = j
<1> DEFINE n == Cardinality(S)
           q == SetToSeq(S)
<1>1. n \in Nat /\ ExistsBijection(1 .. n, S)
  BY FS_CardinalityType
<1>2. IsFiniteSet(1 .. n) /\ Cardinality(1 .. n) = n
  BY <1>1, FS_Interval
<1>3. q = CHOOSE f \in [1 .. n -> S] : IsInjective(f)
  BY DEF SetToSeq
<1> HIDE DEF n, q
<1>4. \E f \in [1 .. n -> S] : IsInjective(f)
  BY <1>1 DEF ExistsBijection, Bijection, Injection, IsInjective
<1>5. q \in [1 .. n -> S] /\ IsInjective(q)
  BY <1>3, <1>4
<1>6. q \in Injection(1 .. n, S)
  BY <1>5 DEF Injection, IsInjective
<1>7. q \in Surjection(1 .. n, S)
  BY <1>2, <1>6, FS_Injection DEF n
<1>8. q \in Seq(S) /\ Len(q) = n
  BY <1>1, <1>5
<1>9. \A i, j \in 1 .. n : q[i] = q[j] => i = j
  BY <1>5 DEF IsInjective
<1>10. QED
  BY <1>7, <1>8, <1>9 DEF Surjection, q

(* The image of an interval is finite. *)
LEMMA ImageFinite ==
    ASSUME NEW n \in Nat, NEW f
    PROVE  IsFiniteSet({f[i] : i \in 1 .. n})
<1> DEFINE T == {f[i] : i \in 1 .. n}
           g == [i \in 1 .. n |-> f[i]]
<1>1. g \in Surjection(1 .. n, T)
  BY DEF Surjection
<1>2. IsFiniteSet(1 .. n)
  BY FS_Interval
<1> HIDE DEF T, g
<1>3. IsFiniteSet(T)
  BY <1>1, <1>2, FS_Surjection
<1>4. QED
  BY <1>3 DEF T

(* The first place of k, which FirstWith() takes. *)
LEMMA FirstPlace ==
    ASSUME NEW n, NEW P, P \subseteq 1 .. n, P # {}
    PROVE  \E i \in P : \A j \in 1 .. i - 1 : j \notin P
<1>1. P \subseteq Nat
  OBVIOUS
<1>2. PICK i \in P : \A j \in P \ {i} : i < j
  BY <1>1, LeastNat
<1>3. \A j \in 1 .. i - 1 : j # i /\ ~(i < j)
  BY <1>1
<1>4. QED
  BY <1>2, <1>3

(* A sequence made element by element. *)
LEMMA MadeSequence ==
    ASSUME NEW n \in Nat, NEW f
    PROVE  LET s == [i \in 1 .. n |-> f[i]]
           IN  IsSequence(s) /\ Len(s) = n /\ DOMAIN s = 1 .. n /\ \A i \in 1 .. n : s[i] = f[i]
<1> DEFINE s == [i \in 1 .. n |-> f[i]]
           T == {f[i] : i \in 1 .. n}
<1>1. s \in Seq(T) /\ Len(s) = n /\ DOMAIN s = 1 .. n /\ \A i \in 1 .. n : s[i] = f[i]
  OBVIOUS
<1>2. ToSet(s) = T
  BY <1>1 DEF ToSet
<1>3. QED
  BY <1>1, <1>2 DEF IsSequence

LEMMA SequenceFacts ==
    ASSUME NEW s, IsSequence(s)
    PROVE  /\ Len(s) \in Nat /\ DOMAIN s = 1 .. Len(s)
           /\ s \in Seq(ToSet(s)) /\ s = [i \in 1 .. Len(s) |-> s[i]]
BY DEF IsSequence

LEMMA SeqIsSequence ==
    ASSUME NEW T, NEW s \in Seq(T)
    PROVE  IsSequence(s)
BY DEF IsSequence, ToSet

-----------------------------------------------------------------------------
(* Levels *)

LEMMA FiveTuple ==
    ASSUME NEW S, NEW a \in S, NEW b \in S, NEW c \in S, NEW d \in S, NEW e \in S
    PROVE  <<a, b, c, d, e>> \in Seq(S)
OBVIOUS

LEMMA NamesOfLevels ==
    LET L == LevelNames
        M == SmallNames
    IN  /\ Len(L) = 5 /\ Len(M) = 5 /\ Len(L \o M) = 10
        /\ \A i \in 1 .. 10 : (L \o M)[i] = IF i <= 5 THEN L[i] ELSE M[i - 5]
        /\ L[1] = "DEBUG" /\ L[2] = "INFO" /\ L[3] = "WARN" /\ L[4] = "ERROR"
        /\ M[1] = "debug" /\ M[2] = "info" /\ M[3] = "warn" /\ M[4] = "error"
        /\ L[5] = "FATAL" /\ M[5] = "fatal"
<1> DEFINE L == LevelNames
           M == SmallNames
           S == {"DEBUG", "INFO", "WARN", "ERROR", "FATAL",
                 "debug", "info", "warn", "error", "fatal"}
<1>1. /\ "DEBUG" \in S /\ "INFO" \in S /\ "WARN" \in S /\ "ERROR" \in S /\ "FATAL" \in S
      /\ "debug" \in S /\ "info" \in S /\ "warn" \in S /\ "error" \in S /\ "fatal" \in S
  OBVIOUS
<1> HIDE DEF S
<1>2. L \in Seq(S) /\ M \in Seq(S)
  BY <1>1, FiveTuple, Zenon DEF LevelNames, SmallNames
<1>3. Len(L) = 5 /\ Len(M) = 5
  BY DEF LevelNames, SmallNames
<1>4. /\ L[1] = "DEBUG" /\ L[2] = "INFO" /\ L[3] = "WARN" /\ L[4] = "ERROR"
      /\ M[1] = "debug" /\ M[2] = "info" /\ M[3] = "warn" /\ M[4] = "error"
      /\ L[5] = "FATAL" /\ M[5] = "fatal"
  BY DEF LevelNames, SmallNames
<1> HIDE DEF L, M
<1>5. /\ Len(L \o M) = 10
      /\ \A i \in 1 .. 10 : (L \o M)[i] = IF i <= 5 THEN L[i] ELSE M[i - 5]
  <2>1. /\ Len(L \o M) = Len(L) + Len(M)
        /\ \A i \in 1 .. Len(L) + Len(M) :
               (L \o M)[i] = IF i <= Len(L) THEN L[i] ELSE M[i - Len(L)]
    BY <1>2, ConcatProperties, Zenon
  <2>2. QED
    BY <1>3, <2>1
<1>6. QED
  BY <1>3, <1>4, <1>5 DEF L, M

LEMMA FromStringLevel == \A s : FromString(s) \in 0 .. 5
<1> SUFFICES ASSUME NEW s
             PROVE  FromString(s) \in 0 .. 5
  OBVIOUS
<1>1. CASE ~Contains(LevelNames \o SmallNames, s)
  BY <1>1 DEF FromString
<1>2. CASE Contains(LevelNames \o SmallNames, s)
  <2>1. PICK i \in 1 .. 10 : s = IF i <= 5 THEN LevelNames[i] ELSE SmallNames[i - 5]
    BY <1>2, NamesOfLevels DEF Contains
  <2>2. i <= 5 => i \in 1 .. 5
    OBVIOUS
  <2>3. ~(i <= 5) => i - 5 \in 1 .. 5
    OBVIOUS
  <2>4. \E n \in 1 .. 5 : s \in {LevelNames[n], SmallNames[n]}
    BY <2>1, <2>2, <2>3
  <2>5. FromString(s) \in 1 .. 5
    BY <1>2, <2>4 DEF FromString
  <2>6. QED
    BY <2>5
<1>3. QED
  BY <1>1, <1>2

(* The name of a level is read as that level. *)
LEMMA LevelLoads == \A n \in 0 .. 5 : FromString(LevelName(n)) = n
<1> DEFINE L == LevelNames
           M == SmallNames
<1>1. FromString(LevelName(0)) = 0
  <2>1. LevelName(0) = "UNKNOW"
    BY DEF LevelName
  <2>2. \A i \in 1 .. 5 : L[i] # "UNKNOW" /\ M[i] # "UNKNOW"
    BY NamesOfLevels
  <2>3. \A i \in 1 .. 10 : (L \o M)[i] # "UNKNOW"
    <3> SUFFICES ASSUME NEW i \in 1 .. 10
                 PROVE  (L \o M)[i] # "UNKNOW"
      OBVIOUS
    <3>1. (L \o M)[i] = IF i <= 5 THEN L[i] ELSE M[i - 5]
      BY NamesOfLevels
    <3> HIDE DEF L, M
    <3>2. CASE i <= 5
      BY <2>2, <3>1, <3>2
    <3>3. CASE i > 5
      <4>1. i - 5 \in 1 .. 5 /\ ~(i <= 5)
        BY <3>3
      <4>2. QED
        BY <2>2, <3>1, <4>1
    <3>4. i <= 5 \/ i > 5
      OBVIOUS
    <3>5. QED
      BY <3>2, <3>3, <3>4
  <2>4. ~Contains(L \o M, "UNKNOW")
    BY <2>3, NamesOfLevels DEF Contains
  <2>5. QED
    BY <2>1, <2>4 DEF FromString
<1>2. \A n \in 1 .. 5 : FromString(LevelName(n)) = n
  <2> SUFFICES ASSUME NEW n \in 1 .. 5
               PROVE  FromString(LevelName(n)) = n
    OBVIOUS
  <2>1. LevelName(n) = L[n]
    BY DEF LevelName
  <2>2. Contains(L \o M, L[n])
    <3>1. n \in 1 .. 10 /\ n <= 5
      OBVIOUS
    <3>2. n \in 1 .. Len(L \o M) /\ (L \o M)[n] = L[n]
      BY <3>1, NamesOfLevels
    <3>3. QED
      BY <3>2 DEF Contains
  <2>3. \A m \in 1 .. 5 : L[n] \in {L[m], M[m]} => m = n
    BY NamesOfLevels
  <2>4. FromString(L[n]) = CHOOSE m \in 1 .. 5 : L[n] \in {L[m], M[m]}
    BY <2>2 DEF FromString
  <2>5. QED
    BY <2>1, <2>3, <2>4
<1>3. QED
  BY <1>1, <1>2

-----------------------------------------------------------------------------
(* Definitions of loggers *)

Good(a) == a.type = "stdout" \/ (a.type = "file" /\ a.file # "none")

(* The appenders a definition keeps. *)
LEMMA KeptAppenders ==
    ASSUME NEW s, IsSequence(s)
    PROVE  LET k == Kept(s, {a \in ToSet(s) : Good(a)})
           IN  /\ Len(k) \in Nat /\ \A i \in 1 .. Len(k) : Good(k[i])
               /\ (\A i \in 1 .. Len(s) : Good(s[i])) => k = s
<1> DEFINE S == {a \in ToSet(s) : Good(a)}
           k == Kept(s, S)
<1>1. s \in Seq(ToSet(s)) /\ DOMAIN s = 1 .. Len(s)
  BY SequenceFacts
<1>2. \A a \in S : Good(a)
  OBVIOUS
<1>3. \A i \in 1 .. Len(s) : Good(s[i]) => s[i] \in S
  BY <1>1 DEF ToSet
<1> HIDE DEF S
<1>4. k \in Seq(S \cap ToSet(s)) /\ ((\A i \in 1 .. Len(s) : s[i] \in S) => k = s)
  BY <1>1, KeptElements
<1> HIDE DEF k
<1>5. Len(k) \in Nat /\ \A i \in 1 .. Len(k) : k[i] \in S
  BY <1>4, LenProperties, ElementOfSeq
<1>6. /\ Len(k) \in Nat /\ \A i \in 1 .. Len(k) : Good(k[i])
      /\ (\A i \in 1 .. Len(s) : Good(s[i])) => k = s
  BY <1>2, <1>3, <1>4, <1>5
<1>7. QED
  BY <1>6 DEF k, S

LEMMA DefineIsValue ==
    ASSUME NEW item, item.formatter \in Seq(STRING), IsSequence(item.appenders)
    PROVE  IsLogDefine(item.name, LogDefine(item))
<1> DEFINE s == item.appenders
           k == Kept(s, {a \in ToSet(s) : Good(a)})
           f == [i \in 1 .. Len(k) |-> LogAppenderDefine(k[i])]
           d == LogDefine(item)
<1>1. d = [name |-> item.name, level |-> FromString(item.level),
           formatter |-> item.formatter, appenders |-> f]
  BY DEF LogDefine, Good
<1>2. Len(k) \in Nat /\ \A i \in 1 .. Len(k) : Good(k[i])
  BY KeptAppenders
<1> HIDE DEF k
<1>3. IsSequence(f) /\ DOMAIN f = 1 .. Len(k) /\ \A i \in 1 .. Len(k) : f[i] = LogAppenderDefine(k[i])
  <2> DEFINE g == [i \in 1 .. Len(k) |-> f[i]]
  <2>1. g = f
    OBVIOUS
  <2> HIDE DEF f
  <2>2. IsSequence(g)
    BY <1>2, MadeSequence
  <2>3. IsSequence(f)
    BY <2>1, <2>2
  <2>4. QED
    BY <2>3 DEF f
<1> HIDE DEF f, d
<1>4. /\ d.name = item.name /\ d.level \in 0 .. 5 /\ d.formatter = item.formatter
      /\ d.appenders = f
  BY <1>1, FromStringLevel
<1>5. ASSUME NEW i \in 1 .. Len(k)
      PROVE  LET a == f[i]
             IN  /\ a = [type |-> a.type, level |-> 0, formatter |-> a.formatter,
                         file |-> a.file]
                 /\ \/ a.type = "stdout" /\ a.file = "none"
                    \/ a.type = "file" /\ a.file # "none"
  <2>1. Good(k[i]) /\ f[i] = LogAppenderDefine(k[i])
    BY <1>2, <1>3
  <2>2. QED
    BY <2>1 DEF LogAppenderDefine, Good
<1>6. d = [name |-> item.name, level |-> d.level, formatter |-> d.formatter,
           appenders |-> d.appenders]
  BY <1>1
<1>7. IsLogDefine(item.name, d)
  BY <1>3, <1>4, <1>5, <1>6 DEF IsLogDefine
<1>8. QED
  BY <1>7 DEF d

(* A definition that is written can be read again. *)
LEMMA DefineLoads ==
    ASSUME NEW n, NEW d, IsLogDefine(n, d)
    PROVE  LogDefine(LogItem(d)) = d /\ LogItem(d).name = n /\ LogItem(d).ok = TRUE
<1> DEFINE s    == d.appenders
           b(i) == [type |-> s[i].type, file |-> s[i].file, formatter |-> s[i].formatter]
           f    == [i \in 1 .. Len(s) |-> b(i)]
           item == LogItem(d)
           k    == Kept(f, {a \in ToSet(f) : Good(a)})
           r    == [i \in 1 .. Len(k) |-> LogAppenderDefine(k[i])]
<1>1. /\ d = [name |-> n, level |-> d.level, formatter |-> d.formatter, appenders |-> s]
      /\ d.level \in 0 .. 5 /\ IsSequence(s)
  BY DEF IsLogDefine
<1>2. /\ Len(s) \in Nat /\ DOMAIN s = 1 .. Len(s) /\ s = [i \in 1 .. Len(s) |-> s[i]]
  BY <1>1, SequenceFacts
<1>3. \A i \in 1 .. Len(s) :
          LET a == s[i]
          IN  /\ a = [type |-> a.type, level |-> 0, formatter |-> a.formatter,
                      file |-> a.file]
              /\ \/ a.type = "stdout" /\ a.file = "none"
                 \/ a.type = "file" /\ a.file # "none"
  BY <1>2 DEF IsLogDefine
<1>4. d.name = n
  BY <1>1
<1>5. item = [ok |-> TRUE, name |-> d.name, level |-> LevelName(d.level),
              formatter |-> d.formatter, appenders |-> f]
  BY DEF LogItem
<1> HIDE DEF s, item
<1>6. ASSUME NEW i \in 1 .. Len(s)
      PROVE  Good(b(i)) /\ LogAppenderDefine(b(i)) = s[i]
  <2> DEFINE a == s[i]
  <2>1. /\ a = [type |-> a.type, level |-> 0, formatter |-> a.formatter, file |-> a.file]
        /\ \/ a.type = "stdout" /\ a.file = "none"
           \/ a.type = "file" /\ a.file # "none"
    BY <1>3
  <2>2. b(i) = [type |-> a.type, file |-> a.file, formatter |-> a.formatter]
    OBVIOUS
  <2> HIDE DEF a, b
  <2>3. b(i).type = a.type /\ b(i).file = a.file /\ b(i).formatter = a.formatter
    BY <2>2
  <2>4. Good(b(i))
    BY <2>1, <2>3 DEF Good
  <2>5. LogAppenderDefine(b(i)) =
            [type |-> a.type, level |-> 0, formatter |-> a.formatter, file |-> a.file]
    BY <2>1, <2>3 DEF LogAppenderDefine
  <2>6. QED
    BY <2>1, <2>4, <2>5 DEF a
<1> HIDE DEF b
<1>7. IsSequence(f) /\ Len(f) = Len(s) /\ \A i \in 1 .. Len(s) : f[i] = b(i)
  <2> DEFINE g == [i \in 1 .. Len(s) |-> f[i]]
  <2>1. g = f /\ \A i \in 1 .. Len(s) : f[i] = b(i)
    OBVIOUS
  <2> HIDE DEF f
  <2>2. IsSequence(g) /\ Len(g) = Len(s)
    BY <1>2, MadeSequence
  <2> HIDE DEF g
  <2>3. QED
    BY <2>1, <2>2
<1> HIDE DEF f
<1>8. k = f
  BY <1>6, <1>7, KeptAppenders
<1>9. LogDefine(item) = [name |-> item.name, level |-> FromString(item.level),
                         formatter |-> item.formatter, appenders |-> r]
  BY <1>5 DEF LogDefine, Good
<1>10. r = s
  <2>1. r = [i \in 1 .. Len(s) |-> LogAppenderDefine(f[i])]
    BY <1>7, <1>8
  <2>2. \A i \in 1 .. Len(s) : LogAppenderDefine(f[i]) = s[i]
    BY <1>6, <1>7
  <2> HIDE DEF r, k
  <2>3. QED
    BY <1>2, <2>1, <2>2
<1> HIDE DEF r
<1>11. /\ item.name = n /\ item.ok = TRUE /\ item.level = LevelName(d.level)
       /\ item.formatter = d.formatter
  BY <1>4, <1>5
<1>12. FromString(item.level) = d.level
  BY <1>1, <1>11, LevelLoads
<1>13. LogDefine(item) = [name |-> n, level |-> d.level, formatter |-> d.formatter,
                          appenders |-> s]
  BY <1>9, <1>10, <1>11, <1>12
<1>14. LogDefine(item) = d /\ item.name = n /\ item.ok = TRUE
  BY <1>1, <1>11, <1>13
<1>15. QED
  BY <1>14 DEF item

-----------------------------------------------------------------------------
(* Values and texts *)

(* The item FirstWith() takes, by name of logger ... *)
LEMMA FirstByName ==
    ASSUME NEW text, Len(text) \in Nat, NEW n \in {text[i].name : i \in 1 .. Len(text)}
    PROVE  \E i \in 1 .. Len(text) : /\ text[i].name = n
                                     /\ FirstWith(text, LAMBDA it : it.name, n) = text[i]
<1> DEFINE P == {i \in 1 .. Len(text) : text[i].name = n}
           Is(i) == text[i].name = n /\ \A j \in 1 .. i - 1 : text[j].name # n
<1>1. P \subseteq 1 .. Len(text) /\ P # {}
  OBVIOUS
<1>2. PICK i \in P : \A j \in 1 .. i - 1 : j \notin P
  <2> HIDE DEF P
  <2>1. QED
    BY <1>1, FirstPlace
<1>3. i \in 1 .. Len(text) /\ Is(i)
  <2>1. \A j \in 1 .. i - 1 : j \in 1 .. Len(text)
    OBVIOUS
  <2>2. QED
    BY <1>2, <2>1
<1>4. FirstWith(text, LAMBDA it : it.name, n) = text[CHOOSE j \in 1 .. Len(text) : Is(j)]
  BY DEF FirstWith
<1>5. \A j : Is(j) => text[j].name = n
  OBVIOUS
<1> HIDE DEF Is
<1>6. QED
  BY <1>3, <1>4, <1>5

(* ... and by key of a map. *)
LEMMA FirstByKey ==
    ASSUME NEW text, Len(text) \in Nat, NEW n \in {text[i].key : i \in 1 .. Len(text)}
    PROVE  \E i \in 1 .. Len(text) : /\ text[i].key = n
                                     /\ FirstWith(text, LAMBDA it : it.key, n) = text[i]
<1> DEFINE P == {i \in 1 .. Len(text) : text[i].key = n}
           Is(i) == text[i].key = n /\ \A j \in 1 .. i - 1 : text[j].key # n
<1>1. P \subseteq 1 .. Len(text) /\ P # {}
  OBVIOUS
<1>2. PICK i \in P : \A j \in 1 .. i - 1 : j \notin P
  <2> HIDE DEF P
  <2>1. QED
    BY <1>1, FirstPlace
<1>3. i \in 1 .. Len(text) /\ Is(i)
  <2>1. \A j \in 1 .. i - 1 : j \in 1 .. Len(text)
    OBVIOUS
  <2>2. QED
    BY <1>2, <2>1
<1>4. FirstWith(text, LAMBDA it : it.key, n) = text[CHOOSE j \in 1 .. Len(text) : Is(j)]
  BY DEF FirstWith
<1>5. \A j : Is(j) => text[j].key = n
  OBVIOUS
<1> HIDE DEF Is
<1>6. QED
  BY <1>3, <1>4, <1>5

(* What a text converts to is a value of the type. *)
LEMMA CastIsValue ==
    ASSUME NEW type \in Types, NEW text, IsText(type, text), Cast(type, text).ok
    PROVE  IsValue(type, Cast(type, text).value)
<1> DEFINE n == Len(text)
<1>1. n \in Nat /\ DOMAIN text = 1 .. n
  BY SequenceFacts DEF IsText
<1>2. ~(\E i \in 1 .. n : ~text[i].ok)
  BY DEF Cast, Throws
<1>3. CASE type = "int"
  BY <1>3 DEF IsValue
<1>4. CASE type = "vector"
  <2> DEFINE f == [i \in 1 .. n |-> text[i].val]
             g == [i \in 1 .. n |-> f[i]]
  <2>1. Cast(type, text) = Converted(f)
    BY <1>2, <1>4 DEF Cast
  <2>2. g = f
    OBVIOUS
  <2> HIDE DEF f
  <2>3. IsSequence(g)
    BY <1>1, MadeSequence
  <2>4. QED
    BY <1>4, <2>1, <2>2, <2>3 DEF IsValue, Converted
<1>5. CASE type = "set"
  <2> DEFINE f == [i \in 1 .. n |-> text[i].val]
  <2>1. Cast(type, text) = Converted({f[i] : i \in 1 .. n})
    BY <1>2, <1>5 DEF Cast
  <2> HIDE DEF f
  <2>2. IsFiniteSet({f[i] : i \in 1 .. n})
    BY <1>1, ImageFinite
  <2>3. QED
    BY <1>5, <2>1, <2>2 DEF IsValue, Converted
<1>6. CASE type = "map"
  <2> DEFINE f == [i \in 1 .. n |-> text[i].key]
             D == {text[i].key : i \in 1 .. n}
             v == [k \in D |-> FirstWith(text, LAMBDA it : it.key, k).val]
  <2>1. Cast(type, text) = Converted(v)
    BY <1>2, <1>6 DEF Cast
  <2>2. D = {f[i] : i \in 1 .. n}
    OBVIOUS
  <2>3. DOMAIN v = D /\ v = [k \in D |-> v[k]]
    OBVIOUS
  <2> HIDE DEF f, D, v
  <2>4. IsFiniteSet(D)
    BY <1>1, <2>2, ImageFinite
  <2>5. QED
    BY <1>6, <2>1, <2>3, <2>4 DEF IsValue, Converted
<1>7. CASE type = "logs"
  <2> DEFINE f == [i \in 1 .. n |-> text[i].name]
             D == {text[i].name : i \in 1 .. n}
             v == LogDefines(text)
  <2>1. Cast(type, text) = Converted(v)
    BY <1>2, <1>7 DEF Cast
  <2>2. D = {f[i] : i \in 1 .. n}
    OBVIOUS
  <2>3. /\ DOMAIN v = D /\ v = [k \in D |-> v[k]]
        /\ \A k \in D : v[k] = LogDefine(FirstWith(text, LAMBDA it : it.name, k))
    BY DEF LogDefines
  <2>4. IsFiniteSet(D)
    <3> HIDE DEF f, D
    <3>1. QED
      BY <1>1, <2>2, ImageFinite
  <2>5. ASSUME NEW k \in D
        PROVE  IsLogDefine(k, v[k])
    <3>1. PICK i \in 1 .. n : /\ text[i].name = k
                              /\ FirstWith(text, LAMBDA it : it.name, k) = text[i]
      BY <1>1, FirstByName
    <3>2. text[i].formatter \in Seq(STRING) /\ IsSequence(text[i].appenders)
      BY <1>1, <1>7 DEF IsText
    <3>3. v[k] = LogDefine(text[i])
      BY <2>3, <3>1
    <3> HIDE DEF v
    <3>4. QED
      BY <3>1, <3>2, <3>3, DefineIsValue
  <2> HIDE DEF D, v
  <2>6. QED
    BY <1>7, <2>1, <2>3, <2>4, <2>5 DEF IsValue, Converted
<1>8. QED
  BY <1>3, <1>4, <1>5, <1>6, <1>7 DEF Types

LEMMA ItemFields == \A k, v : LET it == Item(k, v)
                             IN  it.ok = TRUE /\ it.key = k /\ it.val = v
BY DEF Item

(* A value that is written can be read again. *)
LEMMA TextLoads ==
    ASSUME NEW type \in Types, NEW v, IsValue(type, v)
    PROVE  Cast(type, Text(type, v)) = Converted(v)
<1> DEFINE text == Text(type, v)
<1>1. CASE type = "int"
  <2>1. text = <<Item(0, v)>>
    BY <1>1 DEF Text
  <2> HIDE DEF text
  <2>2. Len(text) = 1 /\ text[1] = Item(0, v)
    BY <2>1
  <2>3. text[1].ok = TRUE /\ text[1].val = v
    BY <2>2 DEF Item
  <2>4. Cast(type, text) = Converted(v)
    BY <1>1, <2>2, <2>3 DEF Cast
  <2>5. QED
    BY <2>4 DEF text
<1>2. CASE type = "vector"
  <2>1. IsSequence(v)
    BY <1>2 DEF IsValue
  <2>2. Len(v) \in Nat /\ v = [i \in 1 .. Len(v) |-> v[i]]
    BY <2>1, SequenceFacts
  <2>3. text = [i \in 1 .. Len(v) |-> Item(0, v[i])]
    BY <1>2 DEF Text
  <2> HIDE DEF text
  <2>4. Len(text) = Len(v) /\ \A i \in 1 .. Len(v) : text[i] = Item(0, v[i])
    BY <2>2, <2>3
  <2>5. \A i \in 1 .. Len(v) : text[i].ok = TRUE /\ text[i].val = v[i]
    BY <2>4, ItemFields
  <2>6. Cast(type, text) = Converted([i \in 1 .. Len(text) |-> text[i].val])
    BY <1>2, <2>4, <2>5 DEF Cast
  <2>7. [i \in 1 .. Len(text) |-> text[i].val] = v
    BY <2>2, <2>4, <2>5
  <2>8. QED
    BY <2>6, <2>7 DEF text
<1>3. CASE type = "set"
  <2> DEFINE s == SetToSeq(v)
  <2>1. s \in Seq(v) /\ \A e \in v : \E i \in 1 .. Len(s) : s[i] = e
    BY <1>3, SetToSeqLists DEF IsValue
  <2>2. text = [i \in 1 .. Len(s) |-> Item(0, s[i])]
    BY <1>3 DEF Text
  <2> HIDE DEF text, s
  <2>3. Len(s) \in Nat /\ \A i \in 1 .. Len(s) : s[i] \in v
    BY <2>1, LenProperties, ElementOfSeq
  <2>4. Len(text) = Len(s) /\ \A i \in 1 .. Len(s) : text[i] = Item(0, s[i])
    BY <2>2, <2>3
  <2>5. \A i \in 1 .. Len(s) : text[i].ok = TRUE /\ text[i].val = s[i]
    BY <2>4, ItemFields
  <2>6. Cast(type, text) = Converted({text[i].val : i \in 1 .. Len(text)})
    BY <1>3, <2>4, <2>5 DEF Cast
  <2>7. {text[i].val : i \in 1 .. Len(text)} = v
    BY <2>1, <2>3, <2>4, <2>5
  <2>8. QED
    BY <2>6, <2>7 DEF text
<1>4. CASE type = "map"
  <2> DEFINE D == DOMAIN v
             s == SetToSeq(D)
  <2>1. IsFiniteSet(D) /\ v = [k \in D |-> v[k]]
    BY <1>4 DEF IsValue
  <2>2. s \in Seq(D) /\ \A e \in D : \E i \in 1 .. Len(s) : s[i] = e
    BY <2>1, SetToSeqLists
  <2>3. text = [i \in 1 .. Len(s) |-> Item(s[i], v[s[i]])]
    BY <1>4 DEF Text
  <2> HIDE DEF text, D, s
  <2>4. Len(s) \in Nat /\ \A i \in 1 .. Len(s) : s[i] \in D
    BY <2>2, LenProperties, ElementOfSeq
  <2>5. Len(text) = Len(s) /\ \A i \in 1 .. Len(s) : text[i] = Item(s[i], v[s[i]])
    BY <2>3, <2>4
  <2>6. \A i \in 1 .. Len(s) : text[i].ok = TRUE /\ text[i].key = s[i] /\ text[i].val = v[s[i]]
    BY <2>5, ItemFields
  <2> DEFINE E == {text[i].key : i \in 1 .. Len(text)}
             w == [k \in E |-> FirstWith(text, LAMBDA it : it.key, k).val]
  <2>7. Cast(type, text) = Converted(w)
    BY <1>4, <2>5, <2>6 DEF Cast
  <2>8. E = D
    BY <2>2, <2>4, <2>5, <2>6
  <2>9. ASSUME NEW k \in E
        PROVE  FirstWith(text, LAMBDA it : it.key, k).val = v[k]
    <3>1. PICK i \in 1 .. Len(text) : /\ text[i].key = k
                                      /\ FirstWith(text, LAMBDA it : it.key, k) = text[i]
      BY <2>4, <2>5, FirstByKey
    <3>2. QED
      BY <2>5, <2>6, <3>1
  <2>10. w = [k \in E |-> v[k]]
    BY <2>9
  <2> HIDE DEF w, E
  <2>11. QED
    BY <2>1, <2>7, <2>8, <2>10 DEF text
<1>5. CASE type = "logs"
  <2> DEFINE D == DOMAIN v
             s == SetToSeq(D)
  <2>1. IsFiniteSet(D) /\ v = [k \in D |-> v[k]] /\ \A k \in D : IsLogDefine(k, v[k])
    BY <1>5 DEF IsValue
  <2>2. s \in Seq(D) /\ \A e \in D : \E i \in 1 .. Len(s) : s[i] = e
    BY <2>1, SetToSeqLists
  <2>3. text = [i \in 1 .. Len(s) |-> LogItem(v[s[i]])]
    BY <1>5 DEF Text
  <2> HIDE DEF text, D, s
  <2>4. Len(s) \in Nat /\ \A i \in 1 .. Len(s) : s[i] \in D
    BY <2>2, LenProperties, ElementOfSeq
  <2>5. Len(text) = Len(s) /\ \A i \in 1 .. Len(s) : text[i] = LogItem(v[s[i]])
    BY <2>3, <2>4
  <2>6. \A i \in 1 .. Len(s) : /\ text[i].ok = TRUE /\ text[i].name = s[i]
                               /\ LogDefine(text[i]) = v[s[i]]
    <3> SUFFICES ASSUME NEW i \in 1 .. Len(s)
                 PROVE  /\ text[i].ok = TRUE /\ text[i].name = s[i]
                        /\ LogDefine(text[i]) = v[s[i]]
      OBVIOUS
    <3> DEFINE d == v[s[i]]
    <3>1. IsLogDefine(s[i], d) /\ text[i] = LogItem(d)
      BY <2>1, <2>4, <2>5
    <3> HIDE DEF d
    <3>2. LogDefine(LogItem(d)) = d /\ LogItem(d).name = s[i] /\ LogItem(d).ok = TRUE
      BY <3>1, DefineLoads
    <3>3. QED
      BY <3>1, <3>2 DEF d
  <2> DEFINE E == {text[i].name : i \in 1 .. Len(text)}
             w == LogDefines(text)
  <2>7. Cast(type, text) = Converted(w)
    BY <1>5, <2>5, <2>6 DEF Cast
  <2>8. E = D
    BY <2>2, <2>4, <2>5, <2>6
  <2>9. ASSUME NEW k \in E
        PROVE  LogDefine(FirstWith(text, LAMBDA it : it.name, k)) = v[k]
    <3>1. PICK i \in 1 .. Len(text) : /\ text[i].name = k
                                      /\ FirstWith(text, LAMBDA it : it.name, k) = text[i]
      BY <2>4, <2>5, FirstByName
    <3>2. QED
      BY <2>5, <2>6, <3>1
  <2>10. w = [k \in E |-> v[k]]
    BY <2>9 DEF LogDefines
  <2> HIDE DEF w, E
  <2>11. QED
    BY <2>1, <2>7, <2>8, <2>10 DEF text
<1>6. QED
  BY <1>1, <1>2, <1>3, <1>4, <1>5 DEF Types

-----------------------------------------------------------------------------
(* The values of the variables *)

Nodes == UNION {ToSet(doc) : doc \in Docs}

Values == \A n \in DOMAIN s_datas : /\ s_datas[n].type = Wanted[n]
                                    /\ IsValue(Wanted[n], s_datas[n].m_val)

(* What the thread t is about to load and to set. *)
Loading(t) == /\ job[t].nodes \in Seq(Nodes)
              /\ pc[t] \in Setting => IsValue(Wanted[job[t].name], job[t].value)

SavedInv == Values /\ \A t \in Threads : Loading(t)

LEMMA NodesAreTexts ==
    ASSUME NEW node \in Nodes, node.path \in Names
    PROVE  IsText(Wanted[node.path], node.text)
<1>1. PICK doc \in Docs : node \in ToSet(doc)
  BY DEF Nodes
<1>2. PICK i \in DOMAIN doc : node = doc[i]
  BY <1>1 DEF ToSet
<1>3. QED
  BY <1>2, ValueAssumption

LEMMA MembersAreNodes ==
    ASSUME NEW doc \in Docs
    PROVE  ListAllMember(doc) \in Seq(Nodes)
<1> DEFINE S == {node \in ToSet(doc) : ValidName(node.path)}
<1>1. doc \in Seq(ToSet(doc))
  BY ValueAssumption DEF IsSequence
<1>2. ToSet(doc) \subseteq Nodes
  BY DEF Nodes
<1>3. ListAllMember(doc) = Kept(doc, S)
  BY DEF ListAllMember
<1> HIDE DEF S
<1>4. Kept(doc, S) \in Seq(S \cap ToSet(doc))
  BY <1>1, KeptElements
<1>5. S \cap ToSet(doc) \subseteq Nodes
  BY <1>2
<1>6. QED
  BY <1>3, <1>4, <1>5

(* A step of the thread t that changes no value. *)
LEMMA ThreadSaves ==
    ASSUME SavedInv, ConfigInv, NEW t \in Threads, Loading(t)',
           DOMAIN s_datas' = DOMAIN s_datas,
           \A n \in DOMAIN s_datas : /\ s_datas'[n].type = s_datas[n].type
                                     /\ \/ s_datas'[n].m_val = s_datas[n].m_val
                                        \/ IsValue(Wanted[n], s_datas'[n].m_val),
           \A u \in Threads \ {t} : pc'[u] = pc[u] /\ job'[u] = job[u]
    PROVE  SavedInv'
<1>1. Values'
  BY DEF SavedInv, Values
<1>2. ASSUME NEW u \in Threads
      PROVE  Loading(u)'
  <2>1. CASE u = t
    BY <2>1
  <2>2. CASE u # t
    BY <2>2 DEF SavedInv, Loading
  <2>3. QED
    BY <2>1, <2>2
<1>3. QED
  BY <1>1, <1>2 DEF SavedInv

LEMMA FinishedSaves ==
    ASSUME SavedInv, ConfigInv, NEW t \in Threads, Finished(t)
    PROVE  /\ Loading(t)'
           /\ \A u \in Threads \ {t} : pc'[u] = pc[u] /\ job'[u] = job[u]
<1>1. DOMAIN pc = Threads /\ DOMAIN job = Threads /\ job[t].nodes \in Seq(Nodes)
  BY DEF ConfigInv, Shape, SavedInv, Loading
<1>2. pc'[t] \in {"idle", "load"} /\ job'[t].nodes = job[t].nodes
  BY <1>1 DEF Finished, NoJob
<1>3. \A u \in Threads \ {t} : pc'[u] = pc[u] /\ job'[u] = job[u]
  BY <1>1 DEF Finished
<1>4. QED
  BY <1>1, <1>2, <1>3 DEF Loading, Setting

LEMMA StepSaves ==
    ASSUME SavedInv, ConfigInv, NEW t \in Threads, Step(t)
    PROVE  SavedInv'
<1>1. /\ DOMAIN pc = Threads /\ DOMAIN job = Threads /\ DOMAIN job[t] = JobFields
      /\ pc[t] \in {"idle", "load"} \cup Setting
      /\ pc[t] \in Setting => job[t].name \in DOMAIN s_datas
      /\ Loading(t)
      /\ \A n \in DOMAIN s_datas : DOMAIN s_datas[n] = VarFields /\ n \in Names
  BY DEF ConfigInv, Shape, SavedInv
(* Steps that leave what is loaded and set alone. *)
<1>2. ASSUME s_datas' = s_datas, pc'[t] = pc[t] \/ pc[t] \in Setting,
             \A u \in Threads \ {t} : pc'[u] = pc[u] /\ job'[u] = job[u],
             job'[t].nodes = job[t].nodes, job'[t].name = job[t].name,
             job'[t].value = job[t].value
      PROVE  SavedInv'
  <2>1. Loading(t)'
    BY <1>1, <1>2 DEF Loading
  <2>2. QED
    BY <1>2, <2>1, ThreadSaves
<1>3. CASE Compare(t)
  <2>1. s_datas' = s_datas
    BY <1>3 DEF Compare
  <2>2. CASE Finished(t)
    BY <2>1, <2>2, FinishedSaves, ThreadSaves
  <2>3. CASE ~Finished(t)
    <3> DEFINE cbs == s_datas[job[t].name].m_cbs
    <3>1. /\ pc[t] = "compare" /\ pc' = [pc EXCEPT ![t] = "listen"]
          /\ job' = [job EXCEPT ![t].cbs = cbs]
      BY <1>3, <2>3 DEF Compare
    <3> HIDE DEF cbs
    <3>2. job'[t] = [job[t] EXCEPT !.cbs = cbs]
      BY <1>1, <3>1
    <3>3. /\ job'[t].nodes = job[t].nodes /\ job'[t].name = job[t].name
          /\ job'[t].value = job[t].value
      BY <1>1, <3>2 DEF JobFields
    <3>4. \A u \in Threads \ {t} : pc'[u] = pc[u] /\ job'[u] = job[u]
      BY <1>1, <3>1
    <3>5. QED
      BY <1>2, <2>1, <3>1, <3>3, <3>4 DEF Setting
  <2>4. QED
    BY <2>2, <2>3
<1>4. CASE CallListener(t)
  <2> DEFINE cbs == job[t].cbs \ {NextListener(t)}
  <2>1. pc' = pc /\ s_datas' = s_datas /\ job' = [job EXCEPT ![t].cbs = cbs]
    BY <1>4 DEF CallListener
  <2> HIDE DEF cbs
  <2>2. job'[t] = [job[t] EXCEPT !.cbs = cbs] /\ \A u \in Threads \ {t} : job'[u] = job[u]
    BY <1>1, <2>1
  <2>3. /\ job'[t].nodes = job[t].nodes /\ job'[t].name = job[t].name
        /\ job'[t].value = job[t].value
    BY <1>1, <2>2 DEF JobFields
  <2>4. QED
    BY <1>2, <2>1, <2>2, <2>3
<1>5. CASE Unlock(t)
  <2>1. /\ s_datas' = s_datas /\ job' = job /\ pc[t] = "listen"
        /\ pc' = [pc EXCEPT ![t] = "store"]
    BY <1>5 DEF Unlock
  <2>2. \A u \in Threads \ {t} : pc'[u] = pc[u]
    BY <1>1, <2>1
  <2>3. QED
    BY <1>2, <2>1, <2>2 DEF Setting
<1>6. CASE Store(t)
  <2>1. PICK n : n = job[t].name
    OBVIOUS
  <2>2. /\ n \in DOMAIN s_datas /\ IsValue(Wanted[n], job[t].value) /\ Finished(t)
        /\ s_datas' = [s_datas EXCEPT ![n].m_val = job[t].value]
    BY <1>1, <1>6, <2>1 DEF Store, Loading, Setting
  <2>3. /\ DOMAIN s_datas' = DOMAIN s_datas
        /\ \A m \in DOMAIN s_datas \ {n} : s_datas'[m] = s_datas[m]
        /\ s_datas'[n] = [s_datas[n] EXCEPT !.m_val = job[t].value]
    BY <2>2
  <2>4. s_datas'[n].m_val = job[t].value /\ s_datas'[n].type = s_datas[n].type
    BY <1>1, <2>2, <2>3 DEF VarFields
  <2>5. Loading(t)' /\ \A u \in Threads \ {t} : pc'[u] = pc[u] /\ job'[u] = job[u]
    BY <2>2, FinishedSaves
  <2>6. \A m \in DOMAIN s_datas : /\ s_datas'[m].type = s_datas[m].type
                                  /\ \/ s_datas'[m].m_val = s_datas[m].m_val
                                     \/ IsValue(Wanted[m], s_datas'[m].m_val)
    BY <2>2, <2>3, <2>4
  <2>7. QED
    BY <2>3, <2>5, <2>6, ThreadSaves
<1>7. CASE LoadNode(t)
  <2> DEFINE q    == job[t].nodes
             rest == Tail(q)
  <2>1. s_datas' = s_datas /\ pc[t] = "load" /\ q # <<>>
    BY <1>7 DEF LoadNode
  <2>2. q \in Seq(Nodes)
    BY <1>1 DEF Loading
  <2>3. PICK node \in Nodes : node = Head(q)
    BY <2>1, <2>2
  <2>4. rest \in Seq(Nodes)
    BY <2>1, <2>2
  <2>5. CASE ~(LookupBase(node.path) /\ Cast(s_datas[node.path].type, node.text).ok)
    <3>1. pc' = pc /\ job' = [job EXCEPT ![t].nodes = rest]
      BY <1>7, <2>3, <2>5 DEF LoadNode
    <3> HIDE DEF rest
    <3>2. /\ job'[t] = [job[t] EXCEPT !.nodes = rest]
          /\ \A u \in Threads \ {t} : job'[u] = job[u]
      BY <1>1, <3>1
    <3>3. job'[t].nodes = rest
      BY <1>1, <3>2 DEF JobFields
    <3>4. Loading(t)'
      BY <2>1, <2>4, <3>1, <3>3 DEF Loading, Setting
    <3>5. QED
      BY <2>1, <3>1, <3>2, <3>4, ThreadSaves
  <2>6. CASE LookupBase(node.path) /\ Cast(s_datas[node.path].type, node.text).ok
    <3> DEFINE w == Cast(s_datas[node.path].type, node.text).value
    <3>1. /\ pc' = [pc EXCEPT ![t] = "compare"]
          /\ job' = [job EXCEPT ![t].nodes = rest, ![t].name = node.path, ![t].value = w]
      BY <1>7, <2>3, <2>6 DEF LoadNode
    <3>2. IsValue(Wanted[node.path], w)
      <4>1. node.path \in DOMAIN s_datas /\ node.path \in Names
        BY <1>1, <2>6 DEF LookupBase
      <4>2. s_datas[node.path].type = Wanted[node.path] /\ Wanted[node.path] \in Types
        BY <4>1, ConfigAssumption DEF SavedInv, Values
      <4>3. IsText(Wanted[node.path], node.text)
        BY <4>1, NodesAreTexts
      <4>4. QED
        BY <2>6, <4>2, <4>3, CastIsValue
    <3> HIDE DEF rest, w
    <3>3. /\ job'[t] = [job[t] EXCEPT !.nodes = rest, !.name = node.path, !.value = w]
          /\ \A u \in Threads \ {t} : pc'[u] = pc[u] /\ job'[u] = job[u]
      BY <1>1, <3>1
    <3>4. job'[t].nodes = rest /\ job'[t].name = node.path /\ job'[t].value = w
      BY <1>1, <3>3 DEF JobFields
    <3>5. Loading(t)'
      BY <2>4, <3>2, <3>4 DEF Loading
    <3>6. QED
      BY <2>1, <3>3, <3>5, ThreadSaves
  <2>7. QED
    BY <2>5, <2>6
<1>8. CASE LoadEnds(t)
  <2>1. s_datas' = s_datas /\ job' = job /\ pc' = [pc EXCEPT ![t] = "idle"]
    BY <1>8 DEF LoadEnds
  <2>2. pc'[t] = "idle" /\ \A u \in Threads \ {t} : pc'[u] = pc[u]
    BY <1>1, <2>1
  <2>3. Loading(t)'
    BY <1>1, <2>1, <2>2 DEF Loading, Setting
  <2>4. QED
    BY <2>1, <2>2, <2>3, ThreadSaves
<1>9. CASE LogConfChanged(t)
  <2> DEFINE cbs == job[t].cbs \ {LogListener}
             q   == Plan(s_datas[job[t].name].m_val, job[t].value)
  <2>1. /\ s_datas' = s_datas /\ pc' = pc
        /\ job' = [job EXCEPT ![t].cbs = cbs, ![t].plan = q]
    BY <1>9 DEF LogConfChanged
  <2> HIDE DEF cbs, q
  <2>2. /\ job'[t] = [job[t] EXCEPT !.cbs = cbs, !.plan = q]
        /\ \A u \in Threads \ {t} : job'[u] = job[u]
    BY <1>1, <2>1
  <2>3. /\ job'[t].nodes = job[t].nodes /\ job'[t].name = job[t].name
        /\ job'[t].value = job[t].value
    BY <1>1, <2>2 DEF JobFields
  <2>4. QED
    BY <1>2, <2>1, <2>2, <2>3
<1>10. CASE PlanStep(t)
  <2> DEFINE q == Tail(job[t].plan)
  <2>1. s_datas' = s_datas /\ pc' = pc /\ job' = [job EXCEPT ![t].plan = q]
    BY <1>10 DEF PlanStep
  <2> HIDE DEF q
  <2>2. /\ job'[t] = [job[t] EXCEPT !.plan = q]
        /\ \A u \in Threads \ {t} : job'[u] = job[u]
    BY <1>1, <2>1
  <2>3. /\ job'[t].nodes = job[t].nodes /\ job'[t].name = job[t].name
        /\ job'[t].value = job[t].value
    BY <1>1, <2>2 DEF JobFields
  <2>4. QED
    BY <1>2, <2>1, <2>2, <2>3
<1>11. QED
  BY <1>3, <1>4, <1>5, <1>6, <1>7, <1>8, <1>9, <1>10 DEF Step, ConfigStep

LEMMA CallSaves ==
    ASSUME SavedInv, ConfigInv, NEW t \in Threads, ConfigCall(t)
    PROVE  SavedInv'
<1>1. /\ DOMAIN pc = Threads /\ DOMAIN job = Threads /\ DOMAIN job[t] = JobFields
      /\ Loading(t)
      /\ \A n \in DOMAIN s_datas : DOMAIN s_datas[n] = VarFields /\ n \in Names
  BY DEF ConfigInv, Shape, SavedInv
<1>2. ASSUME NEW n \in LateNames, Lookup(t, n)
      PROVE  SavedInv'
  <2>1. UNCHANGED <<pc, job>> /\ n \in Names
    BY <1>2, ConfigAssumption DEF Lookup
  <2>2. \A u \in Threads : Loading(u)'
    BY <2>1 DEF SavedInv, Loading
  <2>3. CASE s_datas' = s_datas
    BY <2>2, <2>3 DEF SavedInv, Values
  <2>4. CASE s_datas' # s_datas
    <3>1. s_datas' = [m \in DOMAIN s_datas \cup {n} |->
                          IF m = n THEN ConfigVarOf(n) ELSE s_datas[m]]
      BY <1>2, <2>4 DEF Lookup
    <3>2. ConfigVarOf(n).type = Wanted[n] /\ ConfigVarOf(n).m_val = Default[n]
      BY DEF ConfigVarOf
    <3>3. IsValue(Wanted[n], Default[n])
      BY <2>1, ValueAssumption
    <3>4. Values'
      BY <3>1, <3>2, <3>3 DEF SavedInv, Values
    <3>5. QED
      BY <2>2, <3>4 DEF SavedInv
  <2>5. QED
    BY <2>3, <2>4
<1>3. ASSUME ChangesListeners(t)
      PROVE  SavedInv'
  <2>1. UNCHANGED <<pc, job>> /\ Listened \in DOMAIN s_datas
    BY <1>3 DEF ChangesListeners, addListener, delListener, LookupBase
  <2>2. PICK cbs : s_datas' = [s_datas EXCEPT ![Listened].m_cbs = cbs]
    BY <1>3 DEF ChangesListeners, addListener, delListener
  <2>3. /\ DOMAIN s_datas' = DOMAIN s_datas
        /\ \A m \in DOMAIN s_datas \ {Listened} : s_datas'[m] = s_datas[m]
        /\ s_datas'[Listened] = [s_datas[Listened] EXCEPT !.m_cbs = cbs]
    BY <2>1, <2>2
  <2>4. /\ s_datas'[Listened].m_val = s_datas[Listened].m_val
        /\ s_datas'[Listened].type = s_datas[Listened].type
    BY <1>1, <2>1, <2>3 DEF VarFields
  <2>5. Loading(t)'
    BY <1>1, <2>1 DEF Loading
  <2>6. QED
    BY <2>1, <2>3, <2>4, <2>5, ThreadSaves
<1>4. ASSUME NEW d \in Direct, setValue(t, d[1], d[2])
      PROVE  SavedInv'
  <2>1. /\ s_datas' = s_datas /\ pc' = [pc EXCEPT ![t] = "compare"]
        /\ job' = [job EXCEPT ![t].name = d[1], ![t].value = d[2]]
    BY <1>4 DEF setValue
  <2>2. IsValue(Wanted[d[1]], d[2])
    BY ValueAssumption
  <2>3. /\ job'[t] = [job[t] EXCEPT !.name = d[1], !.value = d[2]]
        /\ \A u \in Threads \ {t} : pc'[u] = pc[u] /\ job'[u] = job[u]
    BY <1>1, <2>1
  <2>4. job'[t].nodes = job[t].nodes /\ job'[t].name = d[1] /\ job'[t].value = d[2]
    BY <1>1, <2>3 DEF JobFields
  <2>5. Loading(t)'
    BY <1>1, <2>2, <2>4 DEF Loading
  <2>6. QED
    BY <2>1, <2>3, <2>5, ThreadSaves
<1>5. ASSUME NEW doc \in Docs, LoadFromYaml(t, doc)
      PROVE  SavedInv'
  <2> DEFINE q == ListAllMember(doc)
  <2>1. /\ s_datas' = s_datas /\ pc' = [pc EXCEPT ![t] = "load"]
        /\ job' = [job EXCEPT ![t].nodes = q]
    BY <1>5 DEF LoadFromYaml
  <2>2. q \in Seq(Nodes)
    BY MembersAreNodes
  <2> HIDE DEF q
  <2>3. /\ job'[t] = [job[t] EXCEPT !.nodes = q] /\ pc'[t] = "load"
        /\ \A u \in Threads \ {t} : pc'[u] = pc[u] /\ job'[u] = job[u]
    BY <1>1, <2>1
  <2>4. job'[t].nodes = q
    BY <1>1, <2>3 DEF JobFields
  <2>5. Loading(t)'
    BY <2>2, <2>3, <2>4 DEF Loading, Setting
  <2>6. QED
    BY <2>1, <2>3, <2>5, ThreadSaves
<1>6. QED
  BY <1>2, <1>3, <1>4, <1>5 DEF ConfigCall, clearListener, ChangesListeners

LEMMA SavedKept == ConfigInv /\ SavedInv /\ [Next]_vars => SavedInv'
<1> SUFFICES ASSUME ConfigInv, SavedInv, [Next]_vars
             PROVE  SavedInv'
  OBVIOUS
<1>1. ASSUME UNCHANGED configVars
      PROVE  SavedInv'
  BY <1>1 DEF SavedInv, Values, Loading, configVars
<1>2. CASE UNCHANGED vars
  BY <1>1, <1>2 DEF vars
<1>3. ASSUME NEW t \in Reporters, NEW n \in Loggers, NEW level \in Levels,
             Report(t, n, level)
      PROVE  SavedInv'
  BY <1>1, <1>3 DEF Report
<1>4. ASSUME NEW t \in Reporters, NEW p \in Patterns, NEW beyond \in BOOLEAN,
             SetFormatter(t, p, beyond)
      PROVE  SavedInv'
  BY <1>1, <1>4 DEF SetFormatter
<1>5. ASSUME NEW t \in Reporters, Log(t)
      PROVE  SavedInv'
  BY <1>1, <1>5 DEF Log
<1>6. QED
  BY <1>2, <1>3, <1>4, <1>5, StepSaves, CallSaves DEF Next

LEMMA SavedInitial == Init => SavedInv
<1> SUFFICES ASSUME Init
             PROVE  SavedInv
  OBVIOUS
<1>1. \A n \in Names : /\ ConfigVarOf(n).type = Wanted[n]
                       /\ IsValue(Wanted[n], ConfigVarOf(n).m_val)
  BY ValueAssumption DEF ConfigVarOf
<1>2. Values
  BY <1>1 DEF Init, ConfigInit, Values
<1>3. \A t \in Threads : Loading(t)
  <2>1. <<>> \in Seq(Nodes)
    OBVIOUS
  <2>2. QED
    BY <2>1 DEF Init, ConfigInit, Loading, NoJob, Setting
<1>4. QED
  BY <1>2, <1>3 DEF SavedInv

(* Whatever the documents and the values, and however calls overlap: what  *)
(* toString() gives for a variable's value converts back to that value.    *)
THEOREM SavedAlwaysLoads == Spec => []SavedLoads
<1>1. Init => ConfigInv /\ SavedInv
  BY ConfigInitial, SavedInitial DEF Init
<1>2. ConfigInv /\ SavedInv /\ [Next]_vars => (ConfigInv /\ SavedInv)'
  BY ConfigKept, SavedKept
<1>3. ConfigInv /\ SavedInv => SavedLoads
  <2> SUFFICES ASSUME ConfigInv, SavedInv, NEW n \in DOMAIN s_datas
               PROVE  LET x == s_datas[n]
                      IN  Cast(x.type, Text(x.type, x.m_val)) = Converted(x.m_val)
    BY DEF SavedLoads
  <2>1. Wanted[n] \in Types
    BY ConfigAssumption DEF ConfigInv, Shape
  <2>2. s_datas[n].type = Wanted[n] /\ IsValue(Wanted[n], s_datas[n].m_val)
    BY DEF SavedInv, Values
  <2>3. QED
    BY <2>1, <2>2, TextLoads
<1>4. QED
  BY <1>1, <1>2, <1>3, PTL DEF Spec
-----------------------------------------------------------------------------
(* What a plan has left to do *)

(* A method and its argument. *)
IsOp(s) == /\ s.op = "setLevel" => s.arg \in 0 .. 5
           /\ s.op = "setFormatter" => s.arg \in Seq(STRING)

(* A thread has a plan only after it has called the log listener. *)
PlanOf(t) ==
    /\ pc[t] = "listen" /\ LogListener \in job[t].cbs => job[t].name = LOGS
    /\ job[t].plan # <<>> => /\ pc[t] = "listen" /\ job[t].name = LOGS
                             /\ LogListener \notin job[t].cbs
    /\ pc[t] = "store" => job[t].cbs = {}
    /\ IsSequence(job[t].plan)
    /\ \A i \in 1 .. Len(job[t].plan) : IsOp(job[t].plan[i])

(* Only "logs" has that listener. *)
Planned ==
    /\ LOGS \in DOMAIN s_datas
    /\ \A n \in DOMAIN s_datas : LogListener \in s_datas[n].m_cbs <=> n = LOGS
    /\ \A t \in Threads : PlanOf(t)

Appended(L, n)       == IF n \in DOMAIN L THEN L[n].m_appenders ELSE <<>>
AppendersOf(defs, n) == IF n \in DOMAIN defs THEN defs[n].appenders ELSE <<>>
Made(a, b)           == a.type = b.type /\ a.file = b.file /\ a.level = b.m_level

(* The plan p clears the appenders of n at the place c, or has done so if  *)
(* c is 0, and then adds those of the definitions apps, of which base have *)
(* been added; that is all it does to the appenders of n.                  *)
Builds(L, p, n, apps, c, base) ==
    /\ c \in 0 .. Len(p) /\ base \in 0 .. Len(apps)
    /\ c = 0 => LET x == Appended(L, n)
                IN  Len(x) = base /\ \A i \in 1 .. base : Made(apps[i], x[i])
    /\ c > 0 => base = 0 /\ p[c].op = "clearAppenders" /\ p[c].logger = n
    /\ \A j \in 1 .. c - 1 : p[j].logger = n => p[j].op \in {"setLevel", "setFormatter"}
    /\ \A j \in 1 .. Len(apps) - base :
           /\ c + j \in 1 .. Len(p)
           /\ p[c + j].op = "addAppender" /\ p[c + j].logger = n
           /\ p[c + j].arg = apps[base + j]
    /\ \A q \in 1 .. Len(p) : q > c + Len(apps) - base => p[q].logger # n

(* The plan p sets the level of n, or has done so. *)
SetsLevel(p, n, q) == p[q].op = "setLevel" /\ p[q].logger = n
Raises(L, p, n, level) ==
    /\ \A q \in 1 .. Len(p) : SetsLevel(p, n, q) => p[q].arg = level
    /\ (\A q \in 1 .. Len(p) : ~SetsLevel(p, n, q)) =>
           n \in DOMAIN L /\ L[n].m_level = level

(* Once the plan p has been carried out, the loggers L mirror defs. *)
Pending(L, p, defs) ==
    \A n : n \in DOMAIN defs \/ n # "root" =>
        /\ \E c, base : Builds(L, p, n, AppendersOf(defs, n), c, base)
        /\ n \in DOMAIN defs => Raises(L, p, n, defs[n].level)

(* ap are definitions that operator== does not tell from defs, and the     *)
(* loggers L mirror them once the plan p has been carried out.             *)
Due(L, ap, p, defs) ==
    IsValue("logs", ap) /\ Same("logs", ap, defs) /\ Pending(L, p, ap)

(* What has been applied is what is stored, or the value that is being set *)
(* once the listener has made its plan.                                    *)
Mirrored ==
    ~raced[LOGS] =>
        /\ Busy(LOGS) = {} => Due(m_loggers, applied, <<>>, s_datas[LOGS].m_val)
        /\ \A t \in Busy(LOGS) :
               IF LogListener \in job[t].cbs
               THEN Due(m_loggers, applied, <<>>, s_datas[LOGS].m_val)
               ELSE Due(m_loggers, applied, job[t].plan, job[t].value)

-----------------------------------------------------------------------------
(* The plan that is made *)

(* The block of operations on n: the level, maybe a formatter, the         *)
(* appenders cleared at the place c, and then added.                       *)
Block(b, n, c, level, apps) ==
    /\ c \in 2 .. 3 /\ Len(b) = c + Len(apps)
    /\ \A k \in 1 .. Len(b) : b[k].logger = n /\ IsOp(b[k])
    /\ b[1].op = "setLevel" /\ b[1].arg = level
    /\ \A k \in 2 .. c - 1 : b[k].op = "setFormatter"
    /\ b[c].op = "clearAppenders"
    /\ \A k \in 1 .. Len(apps) : b[c + k].op = "addAppender" /\ b[c + k].arg = apps[k]

LEMMA DefineBlock ==
    ASSUME NEW n, NEW d, IsLogDefine(n, d), NEW b, b = Define(d)
    PROVE  IsSequence(b) /\ \E c : Block(b, n, c, d.level, d.appenders)
<1> DEFINE apps == d.appenders
           A  == Op("setLevel", n, d.level)
           F  == Op("setFormatter", n, d.formatter)
           C  == Op("clearAppenders", n, 0)
           f  == IF d.formatter = <<>> THEN <<>> ELSE <<F>>
           g  == [i \in 1 .. Len(apps) |-> Op("addAppender", n, apps[i])]
           T  == {A, F, C} \cup {Op("addAppender", n, apps[i]) : i \in 1 .. Len(apps)}
<1>1. /\ d.name = n /\ d.level \in 0 .. 5 /\ d.formatter \in Seq(STRING)
      /\ Len(apps) \in Nat
  BY SequenceFacts DEF IsLogDefine
<1>2. b = <<A>> \o f \o <<C>> \o g
  BY <1>1 DEF Define
<1>3. /\ A.op = "setLevel" /\ A.logger = n /\ A.arg = d.level
      /\ F.op = "setFormatter" /\ F.logger = n /\ F.arg = d.formatter
      /\ C.op = "clearAppenders" /\ C.logger = n
  BY DEF Op
<1>4. \A i \in 1 .. Len(apps) : LET o == Op("addAppender", n, apps[i])
                              IN  o.op = "addAppender" /\ o.logger = n /\ o.arg = apps[i]
  BY DEF Op
<1>5. A \in T /\ F \in T /\ C \in T
  OBVIOUS
<1>6. /\ g \in Seq(T) /\ Len(g) = Len(apps)
      /\ \A i \in 1 .. Len(apps) : g[i] = Op("addAppender", n, apps[i])
  BY <1>1
<1> HIDE DEF A, F, C, T, g
<1>7. PICK c \in 2 .. 3 :
          /\ b \in Seq(T) /\ Len(b) = c + Len(g)
          /\ b[1] = A /\ b[c] = C /\ (c = 3 => b[2] = F)
          /\ \A i \in 1 .. Len(g) : b[c + i] = g[i]
  <2>1. CASE d.formatter = <<>>
    <3>1. b = <<A, C>> \o g
      BY <1>2, <1>5, <1>6, <2>1
    <3> DEFINE h == <<A, C>>
    <3>2. h \in Seq(T) /\ Len(h) = 2 /\ h[1] = A /\ h[2] = C
      BY <1>5
    <3> HIDE DEF h
    <3>3. b = h \o g
      BY <3>1 DEF h
    <3>4. /\ b \in Seq(T) /\ Len(b) = Len(h) + Len(g)
          /\ \A i \in 1 .. Len(h) : b[i] = h[i]
          /\ \A i \in 1 .. Len(g) : b[Len(h) + i] = g[i]
      <4>1. h \in Seq(T) /\ g \in Seq(T)
        BY <1>6, <3>2
      <4>2. QED
        BY <3>3, <4>1, Joined
    <3>5. QED
      BY <3>2, <3>4
  <2>2. CASE d.formatter # <<>>
    <3>1. b = <<A, F, C>> \o g
      BY <1>2, <1>5, <1>6, <2>2
    <3> DEFINE h == <<A, F, C>>
    <3>2. h \in Seq(T) /\ Len(h) = 3 /\ h[1] = A /\ h[2] = F /\ h[3] = C
      BY <1>5
    <3> HIDE DEF h
    <3>3. b = h \o g
      BY <3>1 DEF h
    <3>4. /\ b \in Seq(T) /\ Len(b) = Len(h) + Len(g)
          /\ \A i \in 1 .. Len(h) : b[i] = h[i]
          /\ \A i \in 1 .. Len(g) : b[Len(h) + i] = g[i]
      <4>1. h \in Seq(T) /\ g \in Seq(T)
        BY <1>6, <3>2
      <4>2. QED
        BY <3>3, <4>1, Joined
    <3>5. QED
      BY <3>2, <3>4
  <2>3. QED
    BY <2>1, <2>2
<1>8. IsSequence(b)
  BY <1>7, SeqIsSequence
<1>9. \A k \in 1 .. Len(b) : k = 1 \/ k = c \/ (c = 3 /\ k = 2) \/ k - c \in 1 .. Len(g)
  BY <1>1, <1>6, <1>7
<1>10. \A k \in 1 .. Len(b) : k - c \in 1 .. Len(g) => b[k] = g[k - c]
  <2> SUFFICES ASSUME NEW k \in 1 .. Len(b), k - c \in 1 .. Len(g)
               PROVE  b[k] = g[k - c]
    OBVIOUS
  <2>1. PICK i \in 1 .. Len(g) : i = k - c
    OBVIOUS
  <2>2. b[c + i] = g[i] /\ c + i = k
    BY <1>7, <2>1
  <2>3. QED
    BY <2>1, <2>2
<1>11. ASSUME NEW k \in 1 .. Len(b)
       PROVE  b[k].logger = n /\ IsOp(b[k])
  <2>1. CASE k = 1
    BY <1>1, <1>3, <1>7, <2>1 DEF IsOp
  <2>2. CASE k = c
    BY <1>3, <1>7, <2>2 DEF IsOp
  <2>3. CASE c = 3 /\ k = 2
    BY <1>1, <1>3, <1>7, <2>3 DEF IsOp
  <2>4. CASE k - c \in 1 .. Len(g)
    <3>1. PICK i \in 1 .. Len(apps) : b[k] = Op("addAppender", n, apps[i])
      BY <1>6, <1>10, <2>4
    <3>2. QED
      BY <3>1 DEF Op, IsOp
  <2>5. QED
    BY <1>9, <2>1, <2>2, <2>3, <2>4
<1>12. \A k \in 1 .. Len(apps) : b[c + k].op = "addAppender" /\ b[c + k].arg = apps[k]
  BY <1>4, <1>6, <1>7
<1>13. \A k \in 2 .. c - 1 : b[k].op = "setFormatter"
  BY <1>3, <1>7
<1>14. Block(b, n, c, d.level, apps)
  BY <1>3, <1>6, <1>7, <1>11, <1>12, <1>13 DEF Block
<1>15. QED
  BY <1>8, <1>14

LEMMA UndefineBlock ==
    ASSUME NEW n, NEW b, b = Undefine(n)
    PROVE  IsSequence(b) /\ \E c : Block(b, n, c, 0, <<>>)
<1> DEFINE A == Op("setLevel", n, 0)
           C == Op("clearAppenders", n, 0)
           T == {A, C}
<1>1. /\ A.op = "setLevel" /\ A.logger = n /\ A.arg = 0
      /\ C.op = "clearAppenders" /\ C.logger = n
  BY DEF Op
<1>2. b = <<A, C>>
  BY DEF Undefine
<1>3. A \in T /\ C \in T
  OBVIOUS
<1> HIDE DEF A, C, T
<1>4. b \in Seq(T) /\ Len(b) = 2 /\ b[1] = A /\ b[2] = C
  BY <1>2, <1>3
<1>5. IsSequence(b)
  BY <1>4, SeqIsSequence
<1>6. Block(b, n, 2, 0, <<>>)
  BY <1>1, <1>4 DEF Block, IsOp
<1>7. QED
  BY <1>5, <1>6

(* The loggers a change of the definitions from old to new is about. *)
Touched(old, new) ==
    Differs(old, new) \cup (DOMAIN old \ DOMAIN new)

(* The operations on n are the block b, behind the place a. *)
BlockAt(p, n, a, b) ==
    /\ a \in Nat /\ a + Len(b) <= Len(p)
    /\ \A k \in 1 .. Len(b) : p[a + k] = b[k]
    /\ \A q \in 1 .. Len(p) : p[q].logger = n => q - a \in 1 .. Len(b)

(* A plan has one block of each logger it is about. *)
LEMMA PlanShape ==
    ASSUME NEW old, NEW new, IsValue("logs", old), IsValue("logs", new),
           NEW p, p = Plan(old, new)
    PROVE  /\ IsSequence(p) /\ \A q \in 1 .. Len(p) : IsOp(p[q])
           /\ \A n \in Touched(old, new) :
                  \E a, b, c, level : /\ BlockAt(p, n, a, b)
                                      /\ Block(b, n, c, level, AppendersOf(new, n))
                                      /\ n \in DOMAIN new => level = new[n].level
           /\ \A q \in 1 .. Len(p) : p[q].logger \in Touched(old, new)
<1> DEFINE D == Differs(old, new)
           G == DOMAIN old \ DOMAIN new
           changed == SetToSeq(D)
           gone    == SetToSeq(G)
           d  == [i \in 1 .. Len(changed) |-> Define(new[changed[i]])]
           g  == [i \in 1 .. Len(gone) |-> Undefine(gone[i])]
           ss == d \o g
           nn == changed \o gone
           N  == Len(changed) + Len(gone)
<1>1. p = FlattenSeq(ss)
  BY DEF Plan
<1>2. /\ IsFiniteSet(DOMAIN old) /\ IsFiniteSet(DOMAIN new)
      /\ \A n \in DOMAIN new : IsLogDefine(n, new[n])
  BY DEF IsValue
<1>3. IsFiniteSet(D) /\ IsFiniteSet(G) /\ D \subseteq DOMAIN new /\ G \cap D = {}
      /\ G \cap DOMAIN new = {} /\ Touched(old, new) = D \cup G
  BY <1>2, FS_Subset DEF Touched, Differs
<1> HIDE DEF D, G
<1>4. /\ changed \in Seq(D)
      /\ \A e \in D : \E i \in 1 .. Len(changed) : changed[i] = e
      /\ \A i, j \in 1 .. Len(changed) : changed[i] = changed[j] => i = j
  BY <1>3, SetToSeqLists
<1>5. /\ gone \in Seq(G)
      /\ \A e \in G : \E i \in 1 .. Len(gone) : gone[i] = e
      /\ \A i, j \in 1 .. Len(gone) : gone[i] = gone[j] => i = j
  BY <1>3, SetToSeqLists
<1> HIDE DEF changed, gone
<1>6. /\ Len(changed) \in Nat /\ \A i \in 1 .. Len(changed) : changed[i] \in D
      /\ Len(gone) \in Nat /\ \A i \in 1 .. Len(gone) : gone[i] \in G
  BY <1>4, <1>5, LenProperties, ElementOfSeq
<1> DEFINE T == (UNION {ToSet(Define(new[n])) : n \in D})
                    \cup (UNION {ToSet(Undefine(n)) : n \in G})
<1>7. \A n \in D : /\ Define(new[n]) \in Seq(T)
                   /\ \E c : Block(Define(new[n]), n, c, new[n].level, new[n].appenders)
  <2> SUFFICES ASSUME NEW n \in D
               PROVE  /\ Define(new[n]) \in Seq(T)
                      /\ \E c : Block(Define(new[n]), n, c, new[n].level, new[n].appenders)
    OBVIOUS
  <2>1. IsLogDefine(n, new[n])
    BY <1>2, <1>3
  <2>2. PICK b : b = Define(new[n])
    OBVIOUS
  <2>3. IsSequence(b) /\ \E c : Block(b, n, c, new[n].level, new[n].appenders)
    BY <2>1, <2>2, DefineBlock
  <2>4. ToSet(b) \subseteq T
    BY <2>2
  <2> HIDE DEF T
  <2>5. b \in Seq(T)
    BY <2>3, <2>4 DEF IsSequence
  <2>6. QED
    BY <2>2, <2>3, <2>5
<1>8. \A n \in G : /\ Undefine(n) \in Seq(T)
                   /\ \E c : Block(Undefine(n), n, c, 0, <<>>)
  <2> SUFFICES ASSUME NEW n \in G
               PROVE  /\ Undefine(n) \in Seq(T)
                      /\ \E c : Block(Undefine(n), n, c, 0, <<>>)
    OBVIOUS
  <2>1. PICK b : b = Undefine(n)
    OBVIOUS
  <2>2. IsSequence(b) /\ \E c : Block(b, n, c, 0, <<>>)
    BY <2>1, UndefineBlock
  <2>3. ToSet(b) \subseteq T
    BY <2>1
  <2> HIDE DEF T
  <2>4. b \in Seq(T)
    BY <2>2, <2>3 DEF IsSequence
  <2>5. QED
    BY <2>1, <2>2, <2>4
<1> HIDE DEF T
<1>9. /\ d \in Seq(Seq(T)) /\ Len(d) = Len(changed)
      /\ \A i \in 1 .. Len(changed) : d[i] = Define(new[changed[i]])
  BY <1>6, <1>7
<1>10. /\ g \in Seq(Seq(T)) /\ Len(g) = Len(gone)
       /\ \A i \in 1 .. Len(gone) : g[i] = Undefine(gone[i])
  BY <1>6, <1>8
<1> HIDE DEF d, g
<1>11. /\ ss \in Seq(Seq(T)) /\ Len(ss) = N
       /\ \A k \in 1 .. Len(changed) : ss[k] = d[k]
       /\ \A k \in 1 .. Len(gone) : ss[Len(changed) + k] = g[k]
  <2>1. d \in Seq(Seq(T)) /\ g \in Seq(Seq(T))
    BY <1>9, <1>10
  <2>2. /\ ss \in Seq(Seq(T)) /\ Len(ss) = Len(d) + Len(g)
        /\ \A k \in 1 .. Len(d) : ss[k] = d[k]
        /\ \A k \in 1 .. Len(g) : ss[Len(d) + k] = g[k]
    BY <2>1, Joined
  <2>3. Len(d) = Len(changed) /\ Len(g) = Len(gone)
    BY <1>9, <1>10
  <2> HIDE DEF ss
  <2>4. QED
    BY <2>2, <2>3
<1>12. /\ nn \in Seq(D \cup G) /\ Len(nn) = N /\ N \in Nat
       /\ \A k \in 1 .. Len(changed) : nn[k] = changed[k]
       /\ \A k \in 1 .. Len(gone) : nn[Len(changed) + k] = gone[k]
  <2>1. changed \in Seq(D \cup G) /\ gone \in Seq(D \cup G)
    BY <1>4, <1>5
  <2>2. QED
    BY <1>6, <2>1, Joined
<1> HIDE DEF ss, nn
<1>13. \A i \in 1 .. N : \/ i \in 1 .. Len(changed)
                         \/ \E k \in 1 .. Len(gone) : i = Len(changed) + k
  <2> SUFFICES ASSUME NEW i \in 1 .. N, i \notin 1 .. Len(changed)
               PROVE  \E k \in 1 .. Len(gone) : i = Len(changed) + k
    OBVIOUS
  <2>1. i - Len(changed) \in 1 .. Len(gone) /\ i = Len(changed) + (i - Len(changed))
    BY <1>6
  <2>2. QED
    BY <2>1
(* Every block is one of its logger. *)
<1>14. ASSUME NEW i \in 1 .. N
       PROVE  \E c, level : /\ Block(ss[i], nn[i], c, level, AppendersOf(new, nn[i]))
                            /\ nn[i] \in DOMAIN new => level = new[nn[i]].level
  <2>1. CASE i \in 1 .. Len(changed)
    <3>1. ss[i] = Define(new[changed[i]]) /\ nn[i] = changed[i] /\ changed[i] \in D
      BY <1>6, <1>9, <1>11, <1>12, <2>1
    <3>2. AppendersOf(new, nn[i]) = new[nn[i]].appenders
      BY <1>3, <3>1 DEF AppendersOf
    <3>3. PICK c : Block(ss[i], nn[i], c, new[nn[i]].level, new[nn[i]].appenders)
      BY <1>7, <3>1
    <3>4. QED
      BY <3>2, <3>3
  <2>2. CASE \E k \in 1 .. Len(gone) : i = Len(changed) + k
    <3>1. PICK k \in 1 .. Len(gone) : i = Len(changed) + k
      BY <2>2
    <3>2. ss[i] = Undefine(gone[k]) /\ nn[i] = gone[k] /\ gone[k] \in G
      BY <1>6, <1>10, <1>11, <1>12, <3>1
    <3>3. AppendersOf(new, nn[i]) = <<>> /\ nn[i] \notin DOMAIN new
      BY <1>3, <3>2 DEF AppendersOf
    <3>4. PICK c : Block(ss[i], nn[i], c, 0, <<>>)
      BY <1>8, <3>2
    <3>5. QED
      BY <3>3, <3>4
  <2>3. QED
    BY <1>13, <2>1, <2>2
(* No logger has two blocks. *)
<1>15. ASSUME NEW i \in 1 .. N, NEW j \in 1 .. N, nn[i] = nn[j]
       PROVE  i = j
  <2>1. CASE i \in 1 .. Len(changed) /\ j \in 1 .. Len(changed)
    BY <1>4, <1>12, <1>15, <2>1
  <2>2. ASSUME NEW k \in 1 .. Len(gone), NEW l \in 1 .. Len(changed),
               nn[Len(changed) + k] = nn[l]
        PROVE  FALSE
    BY <1>3, <1>6, <1>12, <2>2
  <2>3. CASE ~(i \in 1 .. Len(changed)) /\ ~(j \in 1 .. Len(changed))
    BY <1>5, <1>12, <1>13, <1>15, <2>3
  <2>4. QED
    BY <1>13, <1>15, <2>1, <2>2, <2>3
<1>16. \A n \in D \cup G : \E i \in 1 .. N : nn[i] = n
  <2>1. ASSUME NEW n \in D
        PROVE  \E i \in 1 .. N : nn[i] = n
    <3>1. PICK i \in 1 .. Len(changed) : changed[i] = n
      BY <1>4, <2>1
    <3>2. i \in 1 .. N
      BY <1>6
    <3>3. QED
      BY <1>12, <3>1, <3>2
  <2>2. ASSUME NEW n \in G
        PROVE  \E i \in 1 .. N : nn[i] = n
    <3>1. PICK i \in 1 .. Len(gone) : gone[i] = n
      BY <1>5, <2>2
    <3>2. Len(changed) + i \in 1 .. N
      BY <1>6
    <3>3. QED
      BY <1>12, <3>1, <3>2
  <2>3. QED
    BY <2>1, <2>2
<1> HIDE DEF N
<1>17. p \in Seq(T) /\ \E at : Consists(p, ss, at)
  BY <1>1, <1>11, FlattenedBlocks
<1>18. PICK at :
           /\ \A i \in 1 .. N :
                  /\ at[i] \in Nat /\ at[i] + Len(ss[i]) <= Len(p)
                  /\ \A k \in 1 .. Len(ss[i]) : p[at[i] + k] = ss[i][k]
           /\ \A q \in 1 .. Len(p) :
                  \E i \in 1 .. N : \E k \in 1 .. Len(ss[i]) : q = at[i] + k
  <2>1. PICK at : Consists(p, ss, at)
    BY <1>17
  <2>2. Len(ss) = N
    BY <1>11
  <2>3. QED
    BY <2>1, <2>2 DEF Consists
<1>19. \A i \in 1 .. N : /\ nn[i] \in D \cup G /\ Len(ss[i]) \in Nat
                         /\ \A k \in 1 .. Len(ss[i]) : /\ ss[i][k].logger = nn[i]
                                                       /\ IsOp(ss[i][k])
  <2>1. \A i \in 1 .. N : nn[i] \in D \cup G /\ Len(ss[i]) \in Nat
    BY <1>11, <1>12, ElementOfSeq, LenProperties
  <2>2. \A i \in 1 .. N : \A k \in 1 .. Len(ss[i]) : ss[i][k].logger = nn[i] /\ IsOp(ss[i][k])
    BY <1>14 DEF Block
  <2>3. QED
    BY <2>1, <2>2
<1>20. ASSUME NEW q \in 1 .. Len(p)
       PROVE  \E i \in 1 .. N : /\ p[q].logger = nn[i] /\ IsOp(p[q])
                                /\ \E k \in 1 .. Len(ss[i]) : q = at[i] + k
  <2>1. PICK i \in 1 .. N : \E k \in 1 .. Len(ss[i]) : q = at[i] + k
    BY <1>18
  <2>2. PICK k \in 1 .. Len(ss[i]) : q = at[i] + k
    BY <2>1
  <2>3. p[q] = ss[i][k]
    BY <1>18, <2>2
  <2>4. QED
    BY <1>19, <2>2, <2>3
<1>21. ASSUME NEW n \in D \cup G
       PROVE  \E a, b, c, level : /\ BlockAt(p, n, a, b)
                                  /\ Block(b, n, c, level, AppendersOf(new, n))
                                  /\ n \in DOMAIN new => level = new[n].level
  <2>1. PICK i \in 1 .. N : nn[i] = n
    BY <1>16
  <2> DEFINE a == at[i]
             b == ss[i]
  <2>2. /\ a \in Nat /\ a + Len(b) <= Len(p)
        /\ \A k \in 1 .. Len(b) : p[a + k] = b[k]
    BY <1>18
  <2>3. ASSUME NEW q \in 1 .. Len(p), p[q].logger = n
        PROVE  q - a \in 1 .. Len(b)
    <3>1. PICK j \in 1 .. N : p[q].logger = nn[j] /\ \E k \in 1 .. Len(ss[j]) : q = at[j] + k
      BY <1>20
    <3>2. j = i
      BY <1>15, <2>1, <2>3, <3>1
    <3>3. PICK k \in 1 .. Len(b) : q = a + k
      BY <3>1, <3>2
    <3> HIDE DEF a, b
    <3>4. QED
      BY <2>2, <3>3
  <2>4. BlockAt(p, n, a, b)
    BY <2>2, <2>3 DEF BlockAt
  <2>5. PICK c, level : /\ Block(b, n, c, level, AppendersOf(new, n))
                        /\ n \in DOMAIN new => level = new[n].level
    BY <1>14, <2>1
  <2> HIDE DEF a, b
  <2>6. QED
    BY <2>4, <2>5
<1>22. IsSequence(p) /\ \A q \in 1 .. Len(p) : IsOp(p[q]) /\ p[q].logger \in D \cup G
  <2>1. IsSequence(p)
    BY <1>17, SeqIsSequence
  <2>2. \A q \in 1 .. Len(p) : IsOp(p[q]) /\ p[q].logger \in D \cup G
    BY <1>19, <1>20
  <2>3. QED
    BY <2>1, <2>2
<1>23. QED
  BY <1>3, <1>21, <1>22
(* With nothing left to do the loggers mirror the definitions. *)
LEMMA NothingPending ==
    ASSUME NEW L, NEW defs, IsValue("logs", defs), NEW p, p = <<>>, Pending(L, p, defs),
           NEW n, n \in DOMAIN defs \/ n # "root"
    PROVE  LET x  == Appended(L, n)
               apps == AppendersOf(defs, n)
           IN  /\ Len(apps) \in Nat /\ Len(x) = Len(apps)
               /\ \A i \in 1 .. Len(apps) : Made(apps[i], x[i])
               /\ n \in DOMAIN defs => n \in DOMAIN L /\ L[n].m_level = defs[n].level
<1> DEFINE x  == Appended(L, n)
           apps == AppendersOf(defs, n)
<1>1. Len(apps) \in Nat
  BY SequenceFacts DEF AppendersOf, IsValue, IsLogDefine
<1>2. PICK c, base : Builds(L, p, n, apps, c, base)
  BY DEF Pending
<1>3. Len(p) = 0
  OBVIOUS
<1> HIDE DEF apps, x
<1>4. c = 0 /\ base \in 0 .. Len(apps) /\ \A j \in 1 .. Len(apps) - base : FALSE
  BY <1>2, <1>3 DEF Builds
<1>5. base = Len(apps)
  <2>1. CASE base < Len(apps)
    <3>1. 1 \in 1 .. Len(apps) - base
      BY <1>1, <1>4, <2>1
    <3>2. QED
      BY <1>4, <3>1
  <2>2. QED
    BY <1>1, <1>4, <2>1
<1>6. Len(x) = Len(apps) /\ \A i \in 1 .. Len(apps) : Made(apps[i], x[i])
  BY <1>2, <1>4, <1>5 DEF Builds, x
<1>7. n \in DOMAIN defs => n \in DOMAIN L /\ L[n].m_level = defs[n].level
  <2> SUFFICES ASSUME n \in DOMAIN defs
               PROVE  n \in DOMAIN L /\ L[n].m_level = defs[n].level
    OBVIOUS
  <2>1. Raises(L, p, n, defs[n].level)
    BY DEF Pending
  <2>2. QED
    BY <1>3, <2>1 DEF Raises
<1>8. QED
  BY <1>1, <1>6, <1>7 DEF x, apps

(* The definitions applied after the plan for new, if was were before it.  *)
Takes(now, was, old, new) ==
    now = [n \in DOMAIN new |-> IF n \in DOMAIN was \ Differs(old, new)
                                THEN was[n] ELSE new[n]]

(* Loggers that mirror the definitions applied so far mirror those that    *)
(* then have been applied, once the plan has been carried out.             *)
LEMMA PlanPends ==
    ASSUME NEW L, NEW old, NEW new, NEW was, IsValue("logs", old), IsValue("logs", new),
           IsValue("logs", was), Same("logs", was, old),
           NEW e, e = <<>>, Pending(L, e, was),
           NEW now, Takes(now, was, old, new),
           NEW p, p = Plan(old, new)
    PROVE  Pending(L, p, now)
<1> SUFFICES ASSUME NEW n, n \in DOMAIN now \/ n # "root"
             PROVE  /\ \E c, base : Builds(L, p, n, AppendersOf(now, n), c, base)
                    /\ n \in DOMAIN now => Raises(L, p, n, now[n].level)
  BY DEF Pending
<1>0. /\ DOMAIN was = DOMAIN old /\ DOMAIN now = DOMAIN new
      /\ n \in DOMAIN old \cap DOMAIN new =>
             now[n] = IF n \in Differs(old, new) THEN new[n] ELSE was[n]
      /\ n \in DOMAIN new \ DOMAIN old => now[n] = new[n]
  BY DEF Same, Takes
<1> DEFINE apps == AppendersOf(now, n)
           x  == Appended(L, n)
<1>1. Len(apps) \in Nat
  BY <1>0, SequenceFacts DEF AppendersOf, IsValue, IsLogDefine
<1>2. /\ Len(p) \in Nat
      /\ \A m \in Touched(old, new) :
             \E a, b, c, level : /\ BlockAt(p, m, a, b)
                                 /\ Block(b, m, c, level, AppendersOf(new, m))
                                 /\ m \in DOMAIN new => level = new[m].level
      /\ \A q \in 1 .. Len(p) : p[q].logger \in Touched(old, new)
  BY PlanShape, SequenceFacts
<1>3. CASE n \in Touched(old, new)
  <2>0. /\ AppendersOf(now, n) = AppendersOf(new, n)
        /\ n \in DOMAIN now => n \in DOMAIN new /\ now[n] = new[n]
    BY <1>0, <1>3 DEF Touched, AppendersOf
  <2>1. PICK a, b, c, level : /\ BlockAt(p, n, a, b)
                              /\ Block(b, n, c, level, apps)
                              /\ n \in DOMAIN now => level = now[n].level
    <3>1. PICK a, b, c, level : /\ BlockAt(p, n, a, b)
                                /\ Block(b, n, c, level, AppendersOf(new, n))
                                /\ n \in DOMAIN new => level = new[n].level
      BY <1>2, <1>3
    <3>2. QED
      BY <2>0, <3>1
  <2> HIDE DEF apps, x
  <2>2. /\ a \in Nat /\ c \in 2 .. 3 /\ Len(b) = c + Len(apps) /\ a + c + Len(apps) <= Len(p)
        /\ \A k \in 1 .. Len(b) : p[a + k] = b[k]
        /\ \A q \in 1 .. Len(p) : p[q].logger = n => q - a \in 1 .. Len(b)
    BY <1>1, <2>1 DEF BlockAt, Block
  <2>3. /\ \A k \in 1 .. Len(b) : b[k].logger = n
        /\ b[1].op = "setLevel" /\ b[1].arg = level
        /\ \A k \in 2 .. c - 1 : b[k].op = "setFormatter"
        /\ b[c].op = "clearAppenders"
        /\ \A k \in 1 .. Len(apps) : b[c + k].op = "addAppender" /\ b[c + k].arg = apps[k]
    BY <2>1 DEF Block
  <2>4. a + c \in 0 .. Len(p) /\ 0 \in 0 .. Len(apps) /\ a + c > 0
    BY <1>1, <1>2, <2>2
  <2>5. p[a + c].op = "clearAppenders" /\ p[a + c].logger = n
    <3>1. c \in 1 .. Len(b)
      BY <1>1, <2>2
    <3>2. QED
      BY <2>2, <2>3, <3>1
  <2>6. ASSUME NEW q \in 1 .. Len(p), p[q].logger = n
        PROVE  \E k \in 1 .. Len(b) : q = a + k /\ p[q] = b[k]
    <3>1. PICK k \in 1 .. Len(b) : k = q - a
      BY <2>2, <2>6
    <3>2. q = a + k
      BY <2>2, <3>1
    <3>3. QED
      BY <2>2, <3>2
  <2>7. ASSUME NEW j \in 1 .. a + c - 1, p[j].logger = n
        PROVE  p[j].op \in {"setLevel", "setFormatter"}
    <3>1. j \in 1 .. Len(p)
      BY <1>2, <2>2, <2>4
    <3>2. PICK k \in 1 .. Len(b) : j = a + k /\ p[j] = b[k]
      BY <2>6, <2>7, <3>1
    <3>3. k = 1 \/ k \in 2 .. c - 1
      BY <2>2, <3>2
    <3>4. QED
      BY <2>3, <3>2, <3>3
  <2>8. ASSUME NEW j \in 1 .. Len(apps) - 0
        PROVE  /\ a + c + j \in 1 .. Len(p)
               /\ p[a + c + j].op = "addAppender" /\ p[a + c + j].logger = n
               /\ p[a + c + j].arg = apps[0 + j]
    <3>1. c + j \in 1 .. Len(b) /\ a + (c + j) = a + c + j /\ a + c + j \in 1 .. Len(p)
          /\ j \in 1 .. Len(apps) /\ 0 + j = j
      BY <1>1, <1>2, <2>2
    <3>2. p[a + (c + j)] = b[c + j]
      BY <2>2, <3>1
    <3>3. QED
      BY <2>3, <3>1, <3>2
  <2>9. ASSUME NEW q \in 1 .. Len(p), q > a + c + Len(apps) - 0, p[q].logger = n
        PROVE  FALSE
    <3>1. PICK k \in 1 .. Len(b) : q = a + k
      BY <2>6, <2>9
    <3>2. QED
      BY <1>1, <2>2, <2>9, <3>1
  <2>10. Builds(L, p, n, apps, a + c, 0)
    <3>1. PICK m : m = a + c
      OBVIOUS
    <3>2. m \in 0 .. Len(p) /\ m # 0 /\ p[m].op = "clearAppenders" /\ p[m].logger = n
      BY <2>2, <2>4, <2>5, <3>1
    <3>3. \A j \in 1 .. m - 1 : p[j].logger = n => p[j].op \in {"setLevel", "setFormatter"}
      <4> SUFFICES ASSUME NEW j \in 1 .. m - 1, p[j].logger = n
                   PROVE  p[j].op \in {"setLevel", "setFormatter"}
        OBVIOUS
      <4>1. j \in 1 .. a + c - 1
        BY <2>2, <3>1
      <4>2. QED
        BY <2>7, <4>1
    <3>4. \A j \in 1 .. Len(apps) - 0 :
              /\ m + j \in 1 .. Len(p)
              /\ p[m + j].op = "addAppender" /\ p[m + j].logger = n
              /\ p[m + j].arg = apps[0 + j]
      BY <2>8, <3>1
    <3>5. \A q \in 1 .. Len(p) : q > m + Len(apps) - 0 => p[q].logger # n
      BY <2>9, <3>1
    <3>6. Builds(L, p, n, apps, m, 0)
      BY <2>4, <3>2, <3>3, <3>4, <3>5, Zenon DEF Builds
    <3>7. QED
      BY <3>1, <3>6
  <2>11. ASSUME n \in DOMAIN now
         PROVE  Raises(L, p, n, now[n].level)
    <3>1. ASSUME NEW q \in 1 .. Len(p), SetsLevel(p, n, q)
          PROVE  p[q].arg = now[n].level
      <4>1. PICK k \in 1 .. Len(b) : p[q] = b[k]
        BY <2>6, <3>1 DEF SetsLevel
      <4>2. k = 1 \/ k \in 2 .. c - 1 \/ k = c \/ \E i \in 1 .. Len(apps) : k = c + i
        <5>1. k > c => k - c \in 1 .. Len(apps) /\ k = c + (k - c)
          BY <1>1, <2>2
        <5>2. k > c \/ k = c \/ k = 1 \/ k \in 2 .. c - 1
          BY <2>2
        <5>3. QED
          BY <5>1, <5>2
      <4>3. b[k].op = "setLevel"
        BY <3>1, <4>1 DEF SetsLevel
      <4>4. k = 1
        BY <2>3, <4>2, <4>3
      <4>5. QED
        BY <2>1, <2>3, <2>11, <4>1, <4>4
    <3>2. a + 1 \in 1 .. Len(p) /\ SetsLevel(p, n, a + 1)
      <4>1. 1 \in 1 .. Len(b) /\ a + 1 \in 1 .. Len(p)
        BY <1>1, <1>2, <2>2
      <4>2. QED
        BY <2>2, <2>3, <4>1 DEF SetsLevel
    <3>3. QED
      BY <3>1, <3>2 DEF Raises
  <2>12. QED
    BY <2>10, <2>11 DEF apps
<1>4. CASE n \notin Touched(old, new)
  <2>1. \A q \in 1 .. Len(p) : p[q].logger # n
    BY <1>2, <1>4
  <2>2. /\ n \in DOMAIN now => n \in DOMAIN was /\ now[n] = was[n]
        /\ n \notin DOMAIN now => n \notin DOMAIN was
    BY <1>0, <1>4 DEF Touched, Differs
  <2>3. apps = AppendersOf(was, n)
    BY <2>2 DEF AppendersOf
  <2> HIDE DEF apps
  <2>4. /\ Len(x) = Len(apps) /\ \A i \in 1 .. Len(apps) : Made(apps[i], x[i])
        /\ n \in DOMAIN now => n \in DOMAIN L /\ L[n].m_level = now[n].level
    BY <2>2, <2>3, NothingPending
  <2>5. Builds(L, p, n, apps, 0, Len(apps))
    <3>1. 0 \in 0 .. Len(p) /\ Len(apps) \in 0 .. Len(apps) /\ ~(0 > 0)
      BY <1>1, <1>2
    <3>2. \A j \in 1 .. 0 - 1 : FALSE
      OBVIOUS
    <3>3. \A j \in 1 .. Len(apps) - Len(apps) : FALSE
      BY <1>1
    <3>4. QED
      BY <2>1, <2>4, <3>1, <3>2, <3>3 DEF Builds
  <2>6. n \in DOMAIN now => Raises(L, p, n, now[n].level)
    BY <2>1, <2>4 DEF Raises, SetsLevel
  <2>7. QED
    BY <2>5, <2>6 DEF apps
<1>5. QED
  BY <1>3, <1>4

(* The definitions applied then are those of the new value, as operator==   *)
(* tells them apart.                                                        *)
LEMMA AppliedSame ==
    ASSUME NEW old, NEW new, NEW was, IsValue("logs", old), IsValue("logs", new),
           IsValue("logs", was), Same("logs", was, old),
           NEW now, Takes(now, was, old, new)
    PROVE  IsValue("logs", now) /\ Same("logs", now, new)
<1>1. /\ DOMAIN was = DOMAIN old /\ \A n \in DOMAIN was : SameDefine(was[n], old[n])
      /\ DOMAIN now = DOMAIN new
  BY DEF Same, Takes
<1>2. ASSUME NEW n \in DOMAIN new
      PROVE  IsLogDefine(n, now[n]) /\ SameDefine(now[n], new[n])
  <2>1. IsLogDefine(n, new[n]) /\ (n \in DOMAIN was => IsLogDefine(n, was[n]))
    BY DEF IsValue
  <2>2. CASE n \in DOMAIN was \ Differs(old, new)
    <3>1. now[n] = was[n] /\ SameDefine(new[n], old[n])
      BY <1>1, <2>2 DEF Differs, Takes
    <3>2. SameDefine(now[n], new[n])
      BY <1>1, <2>2, <3>1 DEF SameDefine
    <3>3. QED
      BY <2>1, <2>2, <3>1, <3>2
  <2>3. CASE n \notin DOMAIN was \ Differs(old, new)
    BY <2>1, <2>3 DEF SameDefine, Takes
  <2>4. QED
    BY <2>2, <2>3
<1>3. IsFiniteSet(DOMAIN now) /\ now = [n \in DOMAIN now |-> now[n]]
  BY <1>1 DEF IsValue, Takes
<1>4. QED
  BY <1>1, <1>2, <1>3 DEF IsValue, Same

-----------------------------------------------------------------------------
(* One operation of the plan *)

(* The appenders y are the appenders x, but for their formatters. *)
Alike(x, y) ==
    /\ Len(y) = Len(x)
    /\ \A i \in 1 .. Len(x) : /\ y[i].type = x[i].type /\ y[i].file = x[i].file
                              /\ y[i].m_level = x[i].m_level

(* What the operation s makes of appenders x and a level l. *)
Effect(s, x, y, l, m) ==
    \/ s.op = "setLevel" /\ m = s.arg /\ Alike(x, y)
    \/ s.op = "setFormatter" /\ m = l /\ Alike(x, y)
    \/ s.op = "clearAppenders" /\ m = l /\ Len(y) = 0
    \/ /\ s.op = "addAppender" /\ m = l /\ Len(y) = Len(x) + 1
       /\ \A i \in 1 .. Len(x) : y[i] = x[i]
       /\ Made(s.arg, y[Len(x) + 1])

LEMMA TailFacts ==
    ASSUME NEW p, IsSequence(p), p # <<>>
    PROVE  LET r == Tail(p)
           IN  /\ Len(p) \in Nat \ {0} /\ Head(p) = p[1]
               /\ IsSequence(r) /\ Len(r) = Len(p) - 1
               /\ \A q \in 1 .. Len(r) : q + 1 \in 1 .. Len(p) /\ r[q] = p[q + 1]
<1> DEFINE r == Tail(p)
<1>1. p \in Seq(ToSet(p))
  BY SequenceFacts
<1>2. PICK T : p \in Seq(T)
  BY <1>1
<1>3. /\ Len(p) \in Nat \ {0} /\ Head(p) = p[1] /\ r \in Seq(T) /\ Len(r) = Len(p) - 1
      /\ \A q \in 1 .. Len(r) : q + 1 \in 1 .. Len(p) /\ r[q] = p[q + 1]
  BY <1>2
<1>4. IsSequence(r)
  BY <1>3, SeqIsSequence
<1>5. QED
  BY <1>3, <1>4

(* The operation at the head of a plan leaves the rest to do. *)
LEMMA OperationPends ==
    ASSUME NEW L, NEW M, NEW defs, IsValue("logs", defs),
           NEW p, IsSequence(p), p # <<>>, Pending(L, p, defs),
           NEW s, s = Head(p), NEW l,
           s.logger \in DOMAIN L => l = L[s.logger].m_level,
           DOMAIN M = DOMAIN L \cup {s.logger},
           \A m \in DOMAIN L \ {s.logger} : M[m] = L[m],
           Effect(s, Appended(L, s.logger), Appended(M, s.logger), l, M[s.logger].m_level)
    PROVE  Pending(M, Tail(p), defs)
<1> DEFINE r == Tail(p)
<1> SUFFICES ASSUME NEW n, n \in DOMAIN defs \/ n # "root"
             PROVE  /\ \E c, base : Builds(M, r, n, AppendersOf(defs, n), c, base)
                    /\ n \in DOMAIN defs => Raises(M, r, n, defs[n].level)
  BY DEF Pending
<1> DEFINE apps == AppendersOf(defs, n)
           x == Appended(L, n)
           y == Appended(M, n)
<1>1. Len(apps) \in Nat
  BY SequenceFacts DEF AppendersOf, IsValue, IsLogDefine
<1>2. /\ Len(p) \in Nat \ {0} /\ s = p[1] /\ Len(r) = Len(p) - 1
      /\ \A q \in 1 .. Len(r) : q + 1 \in 1 .. Len(p) /\ r[q] = p[q + 1]
  BY TailFacts
<1>3. PICK c, base : Builds(L, p, n, apps, c, base)
  BY DEF Pending
<1>4. s.logger # n => y = x
  BY DEF Appended
<1>5. n \in DOMAIN defs => Raises(L, p, n, defs[n].level)
  BY DEF Pending
<1> HIDE DEF r, apps
<1>6. /\ c \in 0 .. Len(p) /\ base \in 0 .. Len(apps)
      /\ c = 0 => Len(x) = base /\ \A i \in 1 .. base : Made(apps[i], x[i])
      /\ c > 0 => base = 0 /\ p[c].op = "clearAppenders" /\ p[c].logger = n
      /\ \A j \in 1 .. c - 1 : p[j].logger = n => p[j].op \in {"setLevel", "setFormatter"}
      /\ \A j \in 1 .. Len(apps) - base :
             /\ c + j \in 1 .. Len(p)
             /\ p[c + j].op = "addAppender" /\ p[c + j].logger = n
             /\ p[c + j].arg = apps[base + j]
      /\ \A q \in 1 .. Len(p) : q > c + Len(apps) - base => p[q].logger # n
  BY <1>3 DEF Builds
<1>7. \E d, b : Builds(M, r, n, apps, d, b)
  <2>1. CASE c = 0 /\ base < Len(apps)
    <3>1. 1 \in 1 .. Len(apps) - base
      BY <1>1, <1>6, <2>1
    <3>2. s.op = "addAppender" /\ s.logger = n /\ s.arg = apps[base + 1]
      BY <1>2, <1>6, <2>1, <3>1
    <3>3. /\ Len(y) = base + 1 /\ \A i \in 1 .. base : y[i] = x[i]
          /\ Made(apps[base + 1], y[base + 1])
      BY <1>6, <2>1, <3>2 DEF Effect
    <3> HIDE DEF x, y
    <3>4. \A i \in 1 .. base + 1 : Made(apps[i], y[i])
      BY <1>6, <2>1, <3>3
    <3>5. ASSUME NEW j \in 1 .. Len(apps) - (base + 1)
          PROVE  /\ 0 + j \in 1 .. Len(r)
                 /\ r[0 + j].op = "addAppender" /\ r[0 + j].logger = n
                 /\ r[0 + j].arg = apps[base + 1 + j]
      <4>1. j + 1 \in 1 .. Len(apps) - base /\ 0 + (j + 1) = j + 1 /\ 0 + j = j
            /\ base + (j + 1) = base + 1 + j
        BY <1>1, <1>6
      <4>2. /\ j + 1 \in 1 .. Len(p)
            /\ p[j + 1].op = "addAppender" /\ p[j + 1].logger = n
            /\ p[j + 1].arg = apps[base + 1 + j]
        BY <1>6, <2>1, <4>1
      <4>3. j \in 1 .. Len(r)
        BY <1>1, <1>2, <1>6, <4>2
      <4>4. QED
        BY <1>2, <4>1, <4>2, <4>3
    <3>6. ASSUME NEW q \in 1 .. Len(r), q > 0 + Len(apps) - (base + 1)
          PROVE  r[q].logger # n
      <4>1. q + 1 > c + Len(apps) - base /\ q + 1 \in 1 .. Len(p) /\ r[q] = p[q + 1]
        BY <1>1, <1>2, <1>6, <2>1, <3>6
      <4>2. QED
        BY <1>6, <4>1
    <3>7. Builds(M, r, n, apps, 0, base + 1)
      <4>1. 0 \in 0 .. Len(r) /\ base + 1 \in 0 .. Len(apps) /\ ~(0 > 0)
        BY <1>1, <1>2, <1>6, <2>1
      <4>2. \A j \in 1 .. 0 - 1 : FALSE
        OBVIOUS
      <4>3. QED
        BY <3>3, <3>4, <3>5, <3>6, <4>1, <4>2, Zenon DEF Builds, y
    <3>8. QED
      BY <3>7
  <2>2. CASE c = 0 /\ base = Len(apps)
    <3>1. \A q \in 1 .. Len(p) : p[q].logger # n
      BY <1>1, <1>6, <2>2
    <3>2. y = x
      <4>1. 1 \in 1 .. Len(p)
        BY <1>2
      <4>2. QED
        BY <1>2, <1>4, <3>1, <4>1
    <3> HIDE DEF x, y
    <3>3. Len(y) = base /\ \A i \in 1 .. base : Made(apps[i], y[i])
      BY <1>6, <2>2, <3>2
    <3>4. \A q \in 1 .. Len(r) : r[q].logger # n
      BY <1>2, <3>1
    <3>5. /\ 0 \in 0 .. Len(r) /\ base \in 0 .. Len(apps) /\ ~(0 > 0)
          /\ \A j \in 1 .. 0 - 1 : FALSE
          /\ \A j \in 1 .. Len(apps) - base : FALSE
      BY <1>1, <1>2, <1>6, <2>2
    <3>6. Builds(M, r, n, apps, 0, base)
      BY <3>3, <3>4, <3>5, Zenon DEF Builds, y
    <3>7. QED
      BY <3>6
  <2>3. CASE c = 1
    <3>1. base = 0 /\ s.op = "clearAppenders" /\ s.logger = n
      BY <1>2, <1>6, <2>3
    <3>2. Len(y) = 0
      BY <3>1 DEF Effect
    <3> HIDE DEF x, y
    <3>3. ASSUME NEW j \in 1 .. Len(apps) - 0
          PROVE  /\ 0 + j \in 1 .. Len(r)
                 /\ r[0 + j].op = "addAppender" /\ r[0 + j].logger = n
                 /\ r[0 + j].arg = apps[0 + j]
      <4>1. j \in 1 .. Len(apps) - base /\ 0 + j = j /\ base + j = j /\ c + j = j + 1
        BY <1>1, <2>3, <3>1
      <4>2. /\ j + 1 \in 1 .. Len(p)
            /\ p[j + 1].op = "addAppender" /\ p[j + 1].logger = n
            /\ p[j + 1].arg = apps[j]
        BY <1>6, <4>1
      <4>3. j \in 1 .. Len(r)
        BY <1>1, <1>2, <4>2
      <4>4. QED
        BY <1>2, <4>1, <4>2, <4>3
    <3>4. ASSUME NEW q \in 1 .. Len(r), q > 0 + Len(apps) - 0
          PROVE  r[q].logger # n
      <4>1. q + 1 > c + Len(apps) - base /\ q + 1 \in 1 .. Len(p) /\ r[q] = p[q + 1]
        BY <1>1, <1>2, <2>3, <3>1, <3>4
      <4>2. QED
        BY <1>6, <4>1
    <3>5. /\ 0 \in 0 .. Len(r) /\ 0 \in 0 .. Len(apps) /\ ~(0 > 0)
          /\ \A j \in 1 .. 0 - 1 : FALSE
          /\ \A i \in 1 .. 0 : FALSE
      BY <1>1, <1>2
    <3>6. Builds(M, r, n, apps, 0, 0)
      BY <3>2, <3>3, <3>4, <3>5, Zenon DEF Builds, y
    <3>7. QED
      BY <3>6
  <2>4. CASE c > 1
    <3>1. PICK d : d = c - 1
      OBVIOUS
    <3>2. d \in 1 .. Len(r) /\ d \in 0 .. Len(r) /\ d # 0 /\ base = 0 /\ c = d + 1 /\ c \in Nat
      BY <1>2, <1>6, <2>4, <3>1
    <3>3. r[d].op = "clearAppenders" /\ r[d].logger = n
      BY <1>2, <1>6, <2>4, <3>2
    <3>4. ASSUME NEW j \in 1 .. d - 1, r[j].logger = n
          PROVE  r[j].op \in {"setLevel", "setFormatter"}
      <4>1. j \in 1 .. Len(r) /\ j + 1 \in 1 .. c - 1
        BY <1>2, <3>2
      <4>2. r[j] = p[j + 1]
        BY <1>2, <4>1
      <4>3. QED
        BY <1>6, <3>4, <4>1, <4>2
    <3>5. ASSUME NEW j \in 1 .. Len(apps) - 0
          PROVE  /\ d + j \in 1 .. Len(r)
                 /\ r[d + j].op = "addAppender" /\ r[d + j].logger = n
                 /\ r[d + j].arg = apps[0 + j]
      <4>1. /\ j \in 1 .. Len(apps) - base /\ 0 + j = j /\ base + j = j
            /\ c + j = (d + j) + 1 /\ d + j \in Nat /\ d + j > 0
        BY <1>1, <3>2
      <4>2. /\ (d + j) + 1 \in 1 .. Len(p)
            /\ p[(d + j) + 1].op = "addAppender" /\ p[(d + j) + 1].logger = n
            /\ p[(d + j) + 1].arg = apps[j]
        BY <1>6, <4>1
      <4>3. d + j \in 1 .. Len(r)
        BY <1>2, <4>1, <4>2
      <4>4. QED
        BY <1>2, <4>1, <4>2, <4>3
    <3>6. ASSUME NEW q \in 1 .. Len(r), q > d + Len(apps) - 0
          PROVE  r[q].logger # n
      <4>1. q + 1 > c + Len(apps) - base /\ q + 1 \in 1 .. Len(p) /\ r[q] = p[q + 1]
        <5>1. r[q] = p[q + 1] /\ q + 1 \in 1 .. Len(p)
          BY <1>2
        <5>2. QED
          BY <1>1, <3>2, <3>6, <5>1
      <4>2. QED
        BY <1>6, <4>1
    <3>7. 0 \in 0 .. Len(apps)
      BY <1>1
    <3>8. Builds(M, r, n, apps, d, 0)
      BY <3>2, <3>3, <3>4, <3>5, <3>6, <3>7, Zenon DEF Builds
    <3>9. QED
      BY <3>8
  <2>5. QED
    BY <1>1, <1>6, <2>1, <2>2, <2>3, <2>4
<1>8. ASSUME n \in DOMAIN defs
      PROVE  Raises(M, r, n, defs[n].level)
  <2> DEFINE level == defs[n].level
  <2>1. /\ \A q \in 1 .. Len(p) : SetsLevel(p, n, q) => p[q].arg = level
        /\ (\A q \in 1 .. Len(p) : ~SetsLevel(p, n, q)) => n \in DOMAIN L /\ L[n].m_level = level
    BY <1>5, <1>8 DEF Raises
  <2> HIDE DEF level
  <2>2. \A q \in 1 .. Len(r) : SetsLevel(r, n, q) <=> SetsLevel(p, n, q + 1)
    BY <1>2 DEF SetsLevel
  <2>3. \A q \in 1 .. Len(r) : SetsLevel(r, n, q) => r[q].arg = level
    BY <1>2, <2>1, <2>2
  <2>4. ASSUME \A q \in 1 .. Len(r) : ~SetsLevel(r, n, q)
        PROVE  n \in DOMAIN M /\ M[n].m_level = level
    <3>1. 1 \in 1 .. Len(p)
      BY <1>2
    <3>2. CASE SetsLevel(p, n, 1)
      <4>1. s.op = "setLevel" /\ s.logger = n /\ s.arg = level
        BY <1>2, <2>1, <3>1, <3>2 DEF SetsLevel
      <4>2. QED
        BY <4>1 DEF Effect
    <3>3. CASE ~SetsLevel(p, n, 1)
      <4>1. \A q \in 1 .. Len(p) : ~SetsLevel(p, n, q)
        <5> SUFFICES ASSUME NEW q \in 1 .. Len(p), q # 1
                     PROVE  ~SetsLevel(p, n, q)
          BY <3>3
        <5>1. q - 1 \in 1 .. Len(r) /\ (q - 1) + 1 = q
          BY <1>2
        <5>2. QED
          BY <2>2, <2>4, <5>1
      <4>2. n \in DOMAIN L /\ L[n].m_level = level
        BY <2>1, <4>1
      <4>3. CASE s.logger = n
        <5>1. s.op # "setLevel"
          BY <1>2, <3>3, <4>3 DEF SetsLevel
        <5>2. QED
          BY <4>2, <4>3, <5>1 DEF Effect
      <4>4. CASE s.logger # n
        BY <4>2, <4>4
      <4>5. QED
        BY <4>3, <4>4
    <3>4. QED
      BY <3>2, <3>3
  <2>5. QED
    BY <2>3, <2>4 DEF Raises, level
<1>9. QED
  BY <1>7, <1>8 DEF apps
(* The logger that the operation s makes of g. *)
Result(s, g, beyond, h) ==
    \/ s.op = "setLevel" /\ h = setLevel(g, s.arg)
    \/ s.op = "setFormatter" /\ h = setFormatter(g, LogFormatterOf(s.arg, beyond))
    \/ s.op = "clearAppenders" /\ h = clearAppenders(g)
    \/ /\ s.op = "addAppender"
       /\ h = addAppender(g, s.arg, LogFormatterOf(s.arg.formatter, beyond))

LEMMA SetFormatterAlike ==
    ASSUME NEW g, GoodLogger(g), NEW f, NEW h, h = setFormatter(g, f)
    PROVE  h.m_level = g.m_level /\ Alike(g.m_appenders, h.m_appenders)
<1> DEFINE x    == g.m_appenders
           b(i) == IF x[i].m_hasFormatter THEN x[i] ELSE [x[i] EXCEPT !.m_formatter = f]
           y    == [i \in 1 .. Len(x) |-> b(i)]
<1>1. /\ DOMAIN g = LoggerFields /\ Len(x) \in Nat
      /\ \A i \in 1 .. Len(x) : DOMAIN x[i] = AppenderFields
  BY DEF GoodLogger, Formats
<1>2. CASE f.m_error
  BY <1>2 DEF setFormatter, Alike
<1>3. CASE ~f.m_error
  <2>1. h = [g EXCEPT !.m_formatter = f, !.m_appenders = y]
    BY <1>3 DEF setFormatter
  <2>2. \A i \in 1 .. Len(x) : /\ b(i).type = x[i].type /\ b(i).file = x[i].file
                               /\ b(i).m_level = x[i].m_level
    BY <1>1 DEF AppenderFields
  <2> HIDE DEF x, b
  <2>3. Len(y) = Len(x) /\ \A i \in 1 .. Len(x) : y[i] = b(i)
    BY <1>1
  <2> HIDE DEF y
  <2>4. h.m_level = g.m_level /\ h.m_appenders = y
    BY <1>1, <2>1 DEF LoggerFields
  <2>5. QED
    BY <2>2, <2>3, <2>4 DEF Alike, x
<1>4. QED
  BY <1>2, <1>3

LEMMA ResultEffect ==
    ASSUME NEW s, NEW g, GoodLogger(g), NEW beyond, NEW h, Result(s, g, beyond, h)
    PROVE  Effect(s, g.m_appenders, h.m_appenders, g.m_level, h.m_level)
<1>1. DOMAIN g = LoggerFields
  BY DEF GoodLogger
<1>2. CASE s.op = "setLevel" /\ h = setLevel(g, s.arg)
  <2>1. h.m_level = s.arg /\ h.m_appenders = g.m_appenders
    BY <1>1, <1>2 DEF setLevel, LoggerFields
  <2>2. QED
    BY <1>2, <2>1 DEF Effect, Alike
<1>3. CASE s.op = "setFormatter" /\ h = setFormatter(g, LogFormatterOf(s.arg, beyond))
  BY <1>3, SetFormatterAlike DEF Effect
<1>4. CASE s.op = "clearAppenders" /\ h = clearAppenders(g)
  <2>1. h.m_level = g.m_level /\ h.m_appenders = <<>>
    BY <1>1, <1>4 DEF clearAppenders, LoggerFields
  <2>2. QED
    BY <1>4, <2>1 DEF Effect
<1>5. CASE /\ s.op = "addAppender"
           /\ h = addAppender(g, s.arg, LogFormatterOf(s.arg.formatter, beyond))
  <2> DEFINE x == g.m_appenders
  <2>1. PICK f : h = addAppender(g, s.arg, f)
    BY <1>5
  <2> DEFINE own == s.arg.formatter # <<>> /\ ~f.m_error
             new == [type |-> s.arg.type, file |-> s.arg.file, m_level |-> s.arg.level,
                     m_formatter |-> IF own THEN f ELSE g.m_formatter,
                     m_hasFormatter |-> own]
  <2>2. PICK a : h = [g EXCEPT !.m_appenders = Append(g.m_appenders, a)] /\ Made(s.arg, a)
    <3>1. h = [g EXCEPT !.m_appenders = Append(g.m_appenders, new)]
      BY <2>1 DEF addAppender
    <3>2. Made(s.arg, new)
      BY DEF Made
    <3> HIDE DEF new
    <3>3. QED
      BY <3>1, <3>2
  <2>3. h.m_level = g.m_level /\ h.m_appenders = Append(x, a)
    BY <1>1, <2>2 DEF LoggerFields
  <2>4. PICK S : x \in Seq(S)
    BY DEF GoodLogger
  <2> HIDE DEF x
  <2>5. x \in Seq(S \cup {a}) /\ a \in S \cup {a} /\ Len(x) \in Nat
    BY <2>4
  <2>6. LET y == Append(x, a)
        IN  /\ Len(y) = Len(x) + 1 /\ y[Len(x) + 1] = a
            /\ \A i \in 1 .. Len(x) : y[i] = x[i]
    BY <2>5
  <2>7. QED
    BY <1>5, <2>2, <2>3, <2>6 DEF Effect, x
<1>6. QED
  BY <1>2, <1>3, <1>4, <1>5 DEF Result

(* A step of a plan, on the logger of its first operation. *)
LEMMA PlanStepResult ==
    ASSUME NEW t \in Threads, PlanStep(t), NEW s, s = Head(job[t].plan)
    PROVE  \E beyond \in BOOLEAN : \E h : /\ m_loggers' = WithLogger(s.logger, h)
                                          /\ Result(s, getLogger(s.logger), beyond, h)
<1> DEFINE g == getLogger(s.logger)
<1>1. PICK beyond \in BOOLEAN :
          \/ s.op = "setLevel" /\ m_loggers' = WithLogger(s.logger, setLevel(g, s.arg))
          \/ /\ s.op = "setFormatter"
             /\ m_loggers' = WithLogger(s.logger, setFormatter(g, LogFormatterOf(s.arg, beyond)))
          \/ s.op = "clearAppenders" /\ m_loggers' = WithLogger(s.logger, clearAppenders(g))
          \/ /\ s.op = "addAppender"
             /\ m_loggers' = WithLogger(s.logger, addAppender(g, s.arg,
                                             LogFormatterOf(s.arg.formatter, beyond)))
  BY DEF PlanStep
<1> HIDE DEF g
<1>2. \E h : m_loggers' = WithLogger(s.logger, h) /\ Result(s, g, beyond, h)
  BY <1>1 DEF Result
<1>3. QED
  BY <1>2 DEF g

(* Loggers of which some have been created or reformatted. *)
LEMMA ReformattedPends ==
    ASSUME NEW L, NEW M, NEW p, NEW defs, Pending(L, p, defs),
           DOMAIN L \subseteq DOMAIN M,
           \A n : Alike(Appended(L, n), Appended(M, n)),
           \A n \in DOMAIN L : M[n].m_level = L[n].m_level
    PROVE  Pending(M, p, defs)
<1> SUFFICES ASSUME NEW n, n \in DOMAIN defs \/ n # "root"
             PROVE  /\ \E c, base : Builds(M, p, n, AppendersOf(defs, n), c, base)
                    /\ n \in DOMAIN defs => Raises(M, p, n, defs[n].level)
  BY DEF Pending
<1> DEFINE apps == AppendersOf(defs, n)
           x == Appended(L, n)
           y == Appended(M, n)
<1>1. PICK c, base : Builds(L, p, n, apps, c, base)
  BY DEF Pending
<1>2. /\ Len(y) = Len(x)
      /\ \A i \in 1 .. Len(x) : /\ y[i].type = x[i].type /\ y[i].file = x[i].file
                                /\ y[i].m_level = x[i].m_level
  BY DEF Alike
<1> HIDE DEF apps
<1>3. Builds(M, p, n, apps, c, base)
  <2>1. c = 0 => Len(y) = base /\ \A i \in 1 .. base : Made(apps[i], y[i])
    <3>1. c = 0 => Len(x) = base /\ \A i \in 1 .. base : Made(apps[i], x[i])
      BY <1>1 DEF Builds
    <3> HIDE DEF x, y
    <3>2. QED
      BY <1>2, <3>1 DEF Made
  <2>2. QED
    BY <1>1, <2>1 DEF Builds
<1>4. n \in DOMAIN defs => Raises(M, p, n, defs[n].level)
  BY DEF Pending, Raises
<1>5. QED
  BY <1>3, <1>4 DEF apps
-----------------------------------------------------------------------------
(* The loggers mirror the configuration *)

LEMMA NoPlan == IsSequence(<<>>) /\ Len(<<>>) = 0
<1>1. <<>> \in Seq({})
  OBVIOUS
<1>2. QED
  BY <1>1, SeqIsSequence

(* A step of the thread t that leaves the log listeners where they are. *)
LEMMA ThreadPlans ==
    ASSUME Planned, NEW t \in Threads, PlanOf(t)', DOMAIN s_datas' = DOMAIN s_datas,
           \A n \in DOMAIN s_datas : s_datas'[n].m_cbs = s_datas[n].m_cbs,
           \A u \in Threads \ {t} : pc'[u] = pc[u] /\ job'[u] = job[u]
    PROVE  Planned'
<1>1. ASSUME NEW u \in Threads
      PROVE  PlanOf(u)'
  <2>1. CASE u = t
    BY <2>1
  <2>2. CASE u # t
    <3>1. PlanOf(u) /\ pc'[u] = pc[u] /\ job'[u] = job[u]
      BY <2>2 DEF Planned
    <3>2. QED
      BY <3>1 DEF PlanOf
  <2>3. QED
    BY <2>1, <2>2
<1>2. QED
  BY <1>1 DEF Planned

(* A step that touches nothing the loggers depend on. *)
LEMMA FrameMirrored ==
    ASSUME Mirrored, m_loggers' = m_loggers, applied' = applied,
           s_datas'[LOGS].m_val = s_datas[LOGS].m_val,
           raced[LOGS] => raced'[LOGS], Busy(LOGS)' = Busy(LOGS),
           \A u \in Busy(LOGS) : /\ job'[u].plan = job[u].plan
                                 /\ job'[u].value = job[u].value
                                 /\ LogListener \in job'[u].cbs <=> LogListener \in job[u].cbs
    PROVE  Mirrored'
<1> DEFINE B == Busy(LOGS)
<1>1. Busy(LOGS)' = B
  OBVIOUS
<1> HIDE DEF B
<1>2. QED
  BY <1>1 DEF Mirrored, B

(* A step of a thread that is not past the comparison, before or after. *)
LEMMA OutsideMirrors ==
    ASSUME Planned, Mirrored, NEW t \in Threads,
           pc[t] \notin {"listen", "store"}, pc'[t] \notin {"listen", "store"},
           job'[t].plan \in {job[t].plan, <<>>},
           \A u \in Threads \ {t} : pc'[u] = pc[u] /\ job'[u] = job[u],
           s_datas' = s_datas, raced' = raced, UNCHANGED logVars
    PROVE  Planned' /\ Mirrored'
<1>1. job[t].plan = <<>>
  BY DEF Planned, PlanOf
<1>2. job'[t].plan = <<>>
  BY <1>1
<1>3. PlanOf(t)'
  BY <1>2, NoPlan DEF PlanOf
<1>4. Planned'
  BY <1>3, ThreadPlans
<1>5. Busy(LOGS)' = Busy(LOGS) /\ \A u \in Busy(LOGS) : u \in Threads \ {t}
  BY DEF Busy
<1>6. Mirrored'
  BY <1>5, FrameMirrored DEF logVars
<1>7. QED
  BY <1>4, <1>6

(* What Mirrored says of no thread, and of one, past the comparison. *)
LEMMA IdleMirrored ==
    ASSUME Mirrored, ~raced[LOGS], Busy(LOGS) = {}, NEW e, e = <<>>
    PROVE  Due(m_loggers, applied, e, s_datas[LOGS].m_val)
BY Zenon DEF Mirrored

LEMMA BusyMirrored ==
    ASSUME Mirrored, ~raced[LOGS], NEW t \in Busy(LOGS), NEW e, e = <<>>
    PROVE  /\ LogListener \in job[t].cbs => Due(m_loggers, applied, e, s_datas[LOGS].m_val)
           /\ LogListener \notin job[t].cbs => Due(m_loggers, applied, job[t].plan, job[t].value)
BY Zenon DEF Mirrored

LEMMA IdleMirrors ==
    ASSUME Busy(LOGS)' = {}, NEW e, e = <<>>,
           ~raced'[LOGS] => Due(m_loggers', applied', e, s_datas'[LOGS].m_val)
    PROVE  Mirrored'
BY Zenon DEF Mirrored

LEMMA BusyMirrors ==
    ASSUME NEW t, t \in Busy(LOGS)', Current(LOGS)', NEW e, e = <<>>,
           ~raced'[LOGS] =>
               /\ LogListener \in job'[t].cbs =>
                      Due(m_loggers', applied', e, s_datas'[LOGS].m_val)
               /\ LogListener \notin job'[t].cbs =>
                      Due(m_loggers', applied', job'[t].plan, job'[t].value)
    PROVE  Mirrored'
<1> DEFINE B == Busy(LOGS)
<1>1. ~raced'[LOGS] => \A u \in B' : u = t
  BY DEF Current
<1>2. t \in B'
  OBVIOUS
<1> HIDE DEF B
<1>3. QED
  BY <1>1, <1>2, Zenon DEF Mirrored, B

-----------------------------------------------------------------------------
(* The steps of a call, and the calls *)

MirrorInv == Planned /\ Mirrored

LEMMA FinishedMirrors ==
    ASSUME ConfigInv, MirrorInv, NEW t \in Threads, pc[t] = "compare", Finished(t),
           s_datas' = s_datas, raced' = raced, UNCHANGED logVars
    PROVE  MirrorInv'
<1>1. DOMAIN pc = Threads /\ DOMAIN job = Threads
  BY DEF ConfigInv, Shape
<1>2. pc'[t] \in {"idle", "load"} /\ job'[t].plan = <<>>
  BY <1>1 DEF Finished, NoJob
<1>3. \A u \in Threads \ {t} : pc'[u] = pc[u] /\ job'[u] = job[u]
  BY <1>1 DEF Finished
<1>4. QED
  BY <1>2, <1>3, OutsideMirrors DEF MirrorInv

LEMMA LoadMirrors ==
    ASSUME ConfigInv, MirrorInv, NEW t \in Threads, LoadNode(t) \/ LoadEnds(t),
           UNCHANGED logVars
    PROVE  MirrorInv'
<1>1. DOMAIN pc = Threads /\ DOMAIN job = Threads /\ DOMAIN job[t] = JobFields
  BY DEF ConfigInv, Shape
<1>2. s_datas' = s_datas /\ raced' = raced /\ pc[t] = "load"
  BY DEF LoadNode, LoadEnds
<1>3. CASE LoadNode(t)
  <2> DEFINE node == Head(job[t].nodes)
             rest == Tail(job[t].nodes)
             w    == Cast(s_datas[node.path].type, node.text).value
  <2>1. \/ pc' = pc /\ job' = [job EXCEPT ![t].nodes = rest]
        \/ /\ pc' = [pc EXCEPT ![t] = "compare"]
           /\ job' = [job EXCEPT ![t].nodes = rest, ![t].name = node.path, ![t].value = w]
    BY <1>3 DEF LoadNode
  <2> HIDE DEF node, rest, w
  <2>2. CASE pc' = pc /\ job' = [job EXCEPT ![t].nodes = rest]
    <3>1. /\ job'[t] = [job[t] EXCEPT !.nodes = rest]
          /\ \A u \in Threads \ {t} : job'[u] = job[u]
      BY <1>1, <2>2
    <3>2. job'[t].plan = job[t].plan
      BY <1>1, <3>1 DEF JobFields
    <3>3. QED
      BY <1>2, <2>2, <3>1, <3>2, OutsideMirrors DEF MirrorInv
  <2>3. CASE /\ pc' = [pc EXCEPT ![t] = "compare"]
             /\ job' = [job EXCEPT ![t].nodes = rest, ![t].name = node.path, ![t].value = w]
    <3>1. /\ job'[t] = [job[t] EXCEPT !.nodes = rest, !.name = node.path, !.value = w]
          /\ pc'[t] = "compare"
          /\ \A u \in Threads \ {t} : pc'[u] = pc[u] /\ job'[u] = job[u]
      BY <1>1, <2>3
    <3>2. job'[t].plan = job[t].plan
      BY <1>1, <3>1 DEF JobFields
    <3>3. QED
      BY <1>2, <3>1, <3>2, OutsideMirrors DEF MirrorInv
  <2>4. QED
    BY <2>1, <2>2, <2>3
<1>4. CASE LoadEnds(t)
  <2>1. job' = job /\ pc' = [pc EXCEPT ![t] = "idle"]
    BY <1>4 DEF LoadEnds
  <2>2. pc'[t] = "idle" /\ \A u \in Threads \ {t} : pc'[u] = pc[u]
    BY <1>1, <2>1
  <2>3. QED
    BY <1>2, <2>1, <2>2, OutsideMirrors DEF MirrorInv
<1>5. QED
  BY <1>3, <1>4

LEMMA CallMirrors ==
    ASSUME ConfigInv, MirrorInv, NEW t \in Threads, ConfigCall(t), UNCHANGED logVars
    PROVE  MirrorInv'
<1>1. /\ DOMAIN pc = Threads /\ DOMAIN job = Threads /\ DOMAIN job[t] = JobFields
      /\ \A n \in DOMAIN s_datas : DOMAIN s_datas[n] = VarFields /\ n \in Names
      /\ raced \in [Names -> BOOLEAN] /\ Planned /\ Mirrored
  BY DEF ConfigInv, Shape, MirrorInv
<1>2. LOGS \in DOMAIN s_datas /\ LOGS \in Names \ LateNames
  BY LogAssumption DEF MirrorInv, Planned
<1>3. m_loggers' = m_loggers /\ applied' = applied
  BY DEF logVars
(* Calls that change the variables and no thread. *)
<1>4. ASSUME UNCHANGED <<pc, job>>, LOGS \in DOMAIN s_datas',
             \A n \in DOMAIN s_datas' : LogListener \in s_datas'[n].m_cbs <=> n = LOGS,
             s_datas'[LOGS].m_val = s_datas[LOGS].m_val, raced[LOGS] => raced'[LOGS]
      PROVE  MirrorInv'
  <2>1. \A u \in Threads : PlanOf(u)'
    BY <1>1, <1>4 DEF Planned, PlanOf
  <2>2. Planned'
    BY <1>4, <2>1 DEF Planned
  <2>3. Busy(LOGS)' = Busy(LOGS)
    BY <1>4 DEF Busy
  <2>4. Mirrored'
    BY <1>1, <1>3, <1>4, <2>3, FrameMirrored
  <2>5. QED
    BY <2>2, <2>4 DEF MirrorInv
<1>5. ASSUME NEW n \in LateNames, Lookup(t, n)
      PROVE  MirrorInv'
  <2>1. UNCHANGED <<pc, job>> /\ raced' = raced /\ n # LOGS /\ n \in Names
    BY <1>2, <1>5, ConfigAssumption DEF Lookup
  <2>2. LogListener \notin ConfigVarOf(n).m_cbs
    <3>1. Wanted[n] # "logs"
      BY <2>1, LogAssumption
    <3>2. QED
      BY <3>1 DEF ConfigVarOf
  <2>3. \/ s_datas' = s_datas
        \/ s_datas' = [m \in DOMAIN s_datas \cup {n} |->
                           IF m = n THEN ConfigVarOf(n) ELSE s_datas[m]]
    BY <1>5 DEF Lookup
  <2>4. /\ \A m \in DOMAIN s_datas' : LogListener \in s_datas'[m].m_cbs <=> m = LOGS
        /\ LOGS \in DOMAIN s_datas' /\ s_datas'[LOGS].m_val = s_datas[LOGS].m_val
    BY <1>1, <1>2, <2>1, <2>2, <2>3 DEF Planned
  <2>5. QED
    BY <1>4, <2>1, <2>4
<1>6. ASSUME ChangesListeners(t)
      PROVE  MirrorInv'
  <2>1. /\ UNCHANGED <<pc, job>> /\ Listened \in DOMAIN s_datas
        /\ raced[LOGS] => raced'[LOGS]
    BY <1>1, <1>2, <1>6 DEF ChangesListeners, addListener, delListener, LookupBase
  <2>2. LogListener \notin Listeners
    BY ConfigAssumption
  <2>3. PICK cbs : /\ s_datas' = [s_datas EXCEPT ![Listened].m_cbs = cbs]
                   /\ LogListener \in cbs <=> LogListener \in s_datas[Listened].m_cbs
    BY <1>6, <2>2 DEF ChangesListeners, addListener, delListener
  <2>4. /\ DOMAIN s_datas' = DOMAIN s_datas
        /\ \A m \in DOMAIN s_datas \ {Listened} : s_datas'[m] = s_datas[m]
        /\ s_datas'[Listened] = [s_datas[Listened] EXCEPT !.m_cbs = cbs]
    BY <2>1, <2>3
  <2>5. /\ s_datas'[Listened].m_val = s_datas[Listened].m_val
        /\ s_datas'[Listened].m_cbs = cbs
    BY <1>1, <2>1, <2>4 DEF VarFields
  <2>6. \A m \in DOMAIN s_datas' : LogListener \in s_datas'[m].m_cbs <=> m = LOGS
    BY <1>1, <2>3, <2>4, <2>5 DEF Planned
  <2>7. LOGS \in DOMAIN s_datas' /\ s_datas'[LOGS].m_val = s_datas[LOGS].m_val
    BY <1>2, <2>4, <2>5
  <2>8. QED
    BY <1>4, <2>1, <2>6, <2>7
<1>7. ASSUME NEW d \in Direct, setValue(t, d[1], d[2])
      PROVE  MirrorInv'
  <2>1. /\ s_datas' = s_datas /\ raced' = raced /\ pc[t] = "idle"
        /\ pc' = [pc EXCEPT ![t] = "compare"]
        /\ job' = [job EXCEPT ![t].name = d[1], ![t].value = d[2]]
    BY <1>7 DEF setValue, Begins
  <2>2. /\ job'[t] = [job[t] EXCEPT !.name = d[1], !.value = d[2]]
        /\ pc'[t] = "compare"
        /\ \A u \in Threads \ {t} : pc'[u] = pc[u] /\ job'[u] = job[u]
    BY <1>1, <2>1
  <2>3. job'[t].plan = job[t].plan
    BY <1>1, <2>2 DEF JobFields
  <2>4. QED
    BY <1>1, <2>1, <2>2, <2>3, OutsideMirrors DEF MirrorInv
<1>8. ASSUME NEW doc \in Docs, LoadFromYaml(t, doc)
      PROVE  MirrorInv'
  <2> DEFINE q == ListAllMember(doc)
  <2>1. /\ s_datas' = s_datas /\ raced' = raced /\ pc[t] = "idle"
        /\ pc' = [pc EXCEPT ![t] = "load"]
        /\ job' = [job EXCEPT ![t].nodes = q]
    BY <1>8 DEF LoadFromYaml, Begins
  <2> HIDE DEF q
  <2>2. /\ job'[t] = [job[t] EXCEPT !.nodes = q] /\ pc'[t] = "load"
        /\ \A u \in Threads \ {t} : pc'[u] = pc[u] /\ job'[u] = job[u]
    BY <1>1, <2>1
  <2>3. job'[t].plan = job[t].plan
    BY <1>1, <2>2 DEF JobFields
  <2>4. QED
    BY <1>1, <2>1, <2>2, <2>3, OutsideMirrors DEF MirrorInv
<1>9. QED
  BY <1>5, <1>6, <1>7, <1>8 DEF ConfigCall, clearListener, ChangesListeners

(* A step of a thread that is past the comparison, and stays there for the *)
(* same name with the same plan.                                           *)
LEMMA ListenMirrors ==
    ASSUME MirrorInv, NEW t \in Threads, pc[t] = "listen",
           pc'[t] \in {"listen", "store"}, pc'[t] = "store" => job'[t].cbs = {},
           job'[t].name = job[t].name, job'[t].value = job[t].value,
           job'[t].plan = job[t].plan, job'[t].plan # <<>> => pc'[t] = "listen",
           LogListener \in job'[t].cbs <=> LogListener \in job[t].cbs,
           \A u \in Threads \ {t} : pc'[u] = pc[u] /\ job'[u] = job[u],
           s_datas' = s_datas, raced' = raced, UNCHANGED logVars
    PROVE  MirrorInv'
<1>1. PlanOf(t)'
  BY DEF MirrorInv, Planned, PlanOf
<1>2. Planned'
  BY <1>1, ThreadPlans DEF MirrorInv
<1>3. Busy(LOGS)' = Busy(LOGS)
  BY DEF Busy
<1>4. \A u \in Busy(LOGS) :
          /\ job'[u].plan = job[u].plan /\ job'[u].value = job[u].value
          /\ LogListener \in job'[u].cbs <=> LogListener \in job[u].cbs
  BY DEF Busy
<1>5. Mirrored'
  BY <1>3, <1>4, FrameMirrored DEF MirrorInv, logVars
<1>6. QED
  BY <1>2, <1>5 DEF MirrorInv

LEMMA CompareMirrors ==
    ASSUME ConfigInv, ConfigInv', MirrorInv, NEW t \in Threads, Compare(t),
           UNCHANGED logVars
    PROVE  MirrorInv'
<1>1. /\ DOMAIN pc = Threads /\ DOMAIN job = Threads /\ DOMAIN job[t] = JobFields
      /\ raced \in [Names -> BOOLEAN] /\ DOMAIN s_datas \subseteq Names
      /\ pc[t] = "compare" /\ s_datas' = s_datas /\ job[t].name \in DOMAIN s_datas
  BY DEF ConfigInv, Shape, Compare, Setting
<1>2. Planned /\ Mirrored /\ job[t].plan = <<>> /\ LOGS \in DOMAIN s_datas
  BY <1>1 DEF MirrorInv, Planned, PlanOf
<1>3. PICK n : n = job[t].name
  OBVIOUS
<1>4. CASE Finished(t) /\ raced' = raced
  BY <1>1, <1>4, FinishedMirrors
<1>5. CASE ~(Finished(t) /\ raced' = raced)
  <2> DEFINE cbs == s_datas[n].m_cbs
  <2>1. /\ raced' = [raced EXCEPT ![n] = @ \/ Busy(n) # {}]
        /\ pc' = [pc EXCEPT ![t] = "listen"] /\ job' = [job EXCEPT ![t].cbs = cbs]
    BY <1>3, <1>5 DEF Compare
  <2>2. LogListener \in cbs <=> n = LOGS
    BY <1>1, <1>2, <1>3 DEF Planned
  <2> HIDE DEF cbs
  <2>3. /\ job'[t] = [job[t] EXCEPT !.cbs = cbs] /\ pc'[t] = "listen"
        /\ \A u \in Threads \ {t} : pc'[u] = pc[u] /\ job'[u] = job[u]
    BY <1>1, <2>1
  <2>4. /\ job'[t].name = n /\ job'[t].plan = <<>> /\ job'[t].value = job[t].value
        /\ job'[t].cbs = cbs
    BY <1>1, <1>2, <1>3, <2>3 DEF JobFields
  <2>5. PlanOf(t)'
    BY <2>2, <2>3, <2>4, NoPlan DEF PlanOf
  <2>6. Planned'
    BY <1>1, <1>2, <2>3, <2>5, ThreadPlans
  <2>7. CASE n # LOGS
    <3>1. Busy(LOGS)' = Busy(LOGS) /\ \A u \in Busy(LOGS) : u \in Threads \ {t}
      <4>1. job[t].name # LOGS /\ job'[t].name # LOGS
        BY <1>3, <2>4, <2>7
      <4>2. QED
        BY <2>3, <4>1 DEF Busy
    <3>2. raced'[LOGS] = raced[LOGS]
      BY <1>1, <1>2, <2>1, <2>7
    <3>3. Mirrored'
      BY <1>1, <1>2, <2>3, <3>1, <3>2, FrameMirrored DEF logVars
    <3>4. QED
      BY <2>6, <3>3 DEF MirrorInv
  <2>8. CASE n = LOGS
    <3>1. t \in Busy(LOGS)'
      BY <2>3, <2>4, <2>8 DEF Busy
    <3>2. Current(LOGS)'
      BY <1>1, <1>2 DEF ConfigInv
    <3>3. ~raced'[LOGS] => ~raced[LOGS] /\ Busy(LOGS) = {}
      BY <1>1, <1>2, <2>1, <2>8
    <3>4. PICK e : e = <<>>
      OBVIOUS
    <3>5. ~raced'[LOGS] => Due(m_loggers', applied', e, s_datas'[LOGS].m_val)
      <4>1. m_loggers' = m_loggers /\ applied' = applied
        BY DEF logVars
      <4>2. QED
        BY <1>1, <1>2, <3>3, <3>4, <4>1, IdleMirrored
    <3>6. LogListener \in job'[t].cbs
      BY <2>2, <2>4, <2>8
    <3>7. Mirrored'
      BY <3>1, <3>2, <3>4, <3>5, <3>6, BusyMirrors
    <3>8. QED
      BY <2>6, <3>7 DEF MirrorInv
  <2>9. QED
    BY <2>7, <2>8
<1>6. QED
  BY <1>4, <1>5

LEMMA ListenerMirrors ==
    ASSUME ConfigInv, MirrorInv, NEW t \in Threads, CallListener(t) \/ Unlock(t),
           UNCHANGED logVars
    PROVE  MirrorInv'
<1>1. /\ DOMAIN pc = Threads /\ DOMAIN job = Threads /\ DOMAIN job[t] = JobFields
      /\ pc[t] = "listen" /\ job[t].plan = <<>> /\ s_datas' = s_datas /\ raced' = raced
  BY DEF ConfigInv, Shape, CallListener, Unlock
<1>2. CASE CallListener(t)
  <2> DEFINE cbs == job[t].cbs \ {NextListener(t)}
  <2>1. /\ pc' = pc /\ job' = [job EXCEPT ![t].cbs = cbs]
        /\ LogListener \in cbs <=> LogListener \in job[t].cbs
    BY <1>2 DEF CallListener
  <2> HIDE DEF cbs
  <2>2. /\ job'[t] = [job[t] EXCEPT !.cbs = cbs]
        /\ \A u \in Threads \ {t} : job'[u] = job[u]
    BY <1>1, <2>1
  <2>3. /\ job'[t].name = job[t].name /\ job'[t].value = job[t].value
        /\ job'[t].plan = job[t].plan /\ job'[t].cbs = cbs
    BY <1>1, <2>2 DEF JobFields
  <2>4. QED
    BY <1>1, <2>1, <2>2, <2>3, ListenMirrors
<1>3. CASE Unlock(t)
  <2>1. pc' = [pc EXCEPT ![t] = "store"] /\ job' = job /\ job[t].cbs = {}
    BY <1>3 DEF Unlock
  <2>2. pc'[t] = "store" /\ \A u \in Threads \ {t} : pc'[u] = pc[u]
    BY <1>1, <2>1
  <2>3. QED
    BY <1>1, <2>1, <2>2, ListenMirrors
<1>4. QED
  BY <1>2, <1>3

LEMMA StoreMirrors ==
    ASSUME ConfigInv, ConfigInv', MirrorInv, NEW t \in Threads, Store(t),
           UNCHANGED logVars
    PROVE  MirrorInv'
<1>1. /\ DOMAIN pc = Threads /\ DOMAIN job = Threads /\ pc[t] = "store"
      /\ \A m \in DOMAIN s_datas : DOMAIN s_datas[m] = VarFields
      /\ raced' = raced /\ job[t].name \in DOMAIN s_datas
  BY DEF ConfigInv, Shape, Store, Setting
<1>2. Planned /\ Mirrored /\ job[t].plan = <<>> /\ job[t].cbs = {} /\ LOGS \in DOMAIN s_datas
  BY <1>1 DEF MirrorInv, Planned, PlanOf
<1>3. PICK n : n = job[t].name
  OBVIOUS
<1>4. Finished(t) /\ s_datas' = [s_datas EXCEPT ![n].m_val = job[t].value]
  BY <1>3 DEF Store
<1>5. pc'[t] \in {"idle", "load"} /\ job'[t].plan = <<>>
  BY <1>1, <1>4 DEF Finished, NoJob
<1>6. \A u \in Threads \ {t} : pc'[u] = pc[u] /\ job'[u] = job[u]
  BY <1>1, <1>4 DEF Finished
<1>7. /\ DOMAIN s_datas' = DOMAIN s_datas
      /\ \A m \in DOMAIN s_datas \ {n} : s_datas'[m] = s_datas[m]
      /\ s_datas'[n] = [s_datas[n] EXCEPT !.m_val = job[t].value]
  BY <1>1, <1>3, <1>4
<1>8. s_datas'[n].m_val = job[t].value /\ s_datas'[n].m_cbs = s_datas[n].m_cbs
  BY <1>1, <1>3, <1>7 DEF VarFields
<1>9. PlanOf(t)'
  BY <1>5, NoPlan DEF PlanOf
<1>10. Planned'
  BY <1>2, <1>6, <1>7, <1>8, <1>9, ThreadPlans
<1>11. m_loggers' = m_loggers /\ applied' = applied
  BY DEF logVars
<1>12. CASE n # LOGS
  <2>1. Busy(LOGS)' = Busy(LOGS) /\ \A u \in Busy(LOGS) : u \in Threads \ {t}
    BY <1>3, <1>5, <1>6, <1>12 DEF Busy
  <2>2. Mirrored'
    BY <1>1, <1>2, <1>6, <1>7, <1>11, <1>12, <2>1, FrameMirrored
  <2>3. QED
    BY <1>10, <2>2 DEF MirrorInv
<1>13. CASE n = LOGS
  <2>1. t \in Busy(LOGS)
    BY <1>1, <1>3, <1>13 DEF Busy
  <2>2. CASE raced[LOGS]
    BY <1>1, <1>10, <2>2 DEF Mirrored, MirrorInv
  <2>3. CASE ~raced[LOGS]
    <3>1. \A u \in Busy(LOGS) : u = t
      BY <1>2, <2>1, <2>3 DEF ConfigInv, Current
    <3>2. Busy(LOGS)' = {}
      <4>1. ASSUME NEW u, u \in Busy(LOGS)'
            PROVE  FALSE
        <5>1. u \in Threads \ {t}
          BY <1>5, <4>1 DEF Busy
        <5>2. u \in Busy(LOGS)
          BY <1>6, <4>1, <5>1 DEF Busy
        <5>3. QED
          BY <3>1, <5>1, <5>2
      <4>2. QED
        BY <4>1
    <3>3. PICK e : e = <<>>
      OBVIOUS
    <3>4. Due(m_loggers, applied, job[t].plan, job[t].value)
      BY <1>2, <2>1, <2>3, <3>3, BusyMirrored
    <3>5. ~raced'[LOGS] => Due(m_loggers', applied', e, s_datas'[LOGS].m_val)
      BY <1>2, <1>8, <1>11, <1>13, <3>3, <3>4
    <3>6. Mirrored'
      BY <3>2, <3>3, <3>5, IdleMirrors
    <3>7. QED
      BY <1>10, <3>6 DEF MirrorInv
  <2>4. QED
    BY <2>2, <2>3
<1>14. QED
  BY <1>12, <1>13

LEMMA LogListenerMirrors ==
    ASSUME ConfigInv, ConfigInv', SavedInv, MirrorInv, NEW t \in Threads, LogConfChanged(t)
    PROVE  MirrorInv'
<1>1. /\ DOMAIN pc = Threads /\ DOMAIN job = Threads /\ DOMAIN job[t] = JobFields
      /\ pc[t] = "listen" /\ job[t].cbs # {} /\ NextListener(t) = LogListener
      /\ s_datas' = s_datas /\ pc' = pc /\ raced' = raced /\ m_loggers' = m_loggers
  BY DEF ConfigInv, Shape, LogConfChanged
<1>2. Planned /\ Mirrored /\ PlanOf(t) /\ LOGS \in DOMAIN s_datas
  BY DEF MirrorInv, Planned
<1>3. LogListener \in job[t].cbs
  BY <1>1, NextListenerLeft DEF ConfigInv
<1>4. job[t].name = LOGS
  BY <1>1, <1>2, <1>3 DEF PlanOf
<1>5. PICK old, new : old = s_datas[LOGS].m_val /\ new = job[t].value
  OBVIOUS
<1>6. IsValue("logs", old) /\ IsValue("logs", new)
  <2>1. LOGS \in Names /\ Wanted[LOGS] = "logs"
    BY LogAssumption
  <2>2. IsValue(Wanted[LOGS], old) /\ IsValue(Wanted[LOGS], new)
    BY <1>1, <1>2, <1>4, <1>5 DEF SavedInv, Values, Loading, Setting
  <2>3. QED
    BY <2>1, <2>2
<1> DEFINE cbs == job[t].cbs \ {LogListener}
<1>7. PICK p : p = Plan(old, new)
  OBVIOUS
<1>8. /\ job' = [job EXCEPT ![t].cbs = cbs, ![t].plan = p]
      /\ Takes(applied', applied, old, new)
  BY <1>4, <1>5, <1>7 DEF LogConfChanged, Applies, Takes
<1>9. LogListener \notin cbs
  OBVIOUS
<1> HIDE DEF cbs
<1>10. /\ job'[t] = [job[t] EXCEPT !.cbs = cbs, !.plan = p]
       /\ \A u \in Threads \ {t} : job'[u] = job[u]
  BY <1>1, <1>8
<1>11. /\ job'[t].name = LOGS /\ job'[t].value = new /\ job'[t].plan = p
       /\ job'[t].cbs = cbs
  BY <1>1, <1>4, <1>5, <1>10 DEF JobFields
<1>12. IsSequence(p) /\ \A q \in 1 .. Len(p) : IsOp(p[q])
  BY <1>6, <1>7, PlanShape
<1>13. PlanOf(t)'
  BY <1>1, <1>9, <1>11, <1>12 DEF PlanOf
<1>14. Planned'
  BY <1>1, <1>2, <1>10, <1>13, ThreadPlans
<1>15. t \in Busy(LOGS) /\ t \in Busy(LOGS)'
  BY <1>1, <1>4, <1>11 DEF Busy
<1>16. Current(LOGS)'
  BY <1>1, <1>2 DEF ConfigInv
<1>17. PICK e : e = <<>>
  OBVIOUS
<1>18. ~raced'[LOGS] => Due(m_loggers', applied', job'[t].plan, job'[t].value)
  <2> SUFFICES ASSUME ~raced[LOGS]
               PROVE  Due(m_loggers, applied', p, new)
    BY <1>1, <1>11
  <2>1. Due(m_loggers, applied, e, old)
    BY <1>2, <1>3, <1>5, <1>15, <1>17, BusyMirrored
  <2>2. /\ IsValue("logs", applied) /\ Same("logs", applied, old)
        /\ Pending(m_loggers, e, applied)
    BY <2>1 DEF Due
  <2>3. Pending(m_loggers, p, applied')
    BY <1>6, <1>7, <1>8, <1>17, <2>2, PlanPends
  <2>4. IsValue("logs", applied') /\ Same("logs", applied', new)
    BY <1>6, <1>8, <2>2, AppliedSame
  <2>5. QED
    BY <2>3, <2>4 DEF Due
<1>19. Mirrored'
  BY <1>9, <1>11, <1>15, <1>16, <1>17, <1>18, BusyMirrors
<1>20. QED
  BY <1>14, <1>19 DEF MirrorInv

LEMMA PlanStepMirrors ==
    ASSUME ConfigInv, ConfigInv', SavedInv, LoggersInv, MirrorInv,
           NEW t \in Threads, PlanStep(t)
    PROVE  MirrorInv'
<1>1. /\ DOMAIN pc = Threads /\ DOMAIN job = Threads /\ DOMAIN job[t] = JobFields
      /\ s_datas' = s_datas /\ pc' = pc /\ raced' = raced /\ applied' = applied
      /\ job[t].plan # <<>>
  BY DEF ConfigInv, Shape, PlanStep
<1>2. Planned /\ Mirrored /\ PlanOf(t) /\ LOGS \in DOMAIN s_datas
  BY DEF MirrorInv, Planned
<1>3. PICK p : p = job[t].plan
  OBVIOUS
<1>4. PICK r : r = Tail(p)
  OBVIOUS
<1>5. job' = [job EXCEPT ![t].plan = r]
  BY <1>3, <1>4 DEF PlanStep
<1>6. /\ pc[t] = "listen" /\ job[t].name = LOGS /\ LogListener \notin job[t].cbs
      /\ IsSequence(p) /\ p # <<>> /\ \A q \in 1 .. Len(p) : IsOp(p[q])
  BY <1>1, <1>2, <1>3 DEF PlanOf
<1>7. /\ job'[t] = [job[t] EXCEPT !.plan = r]
      /\ \A u \in Threads \ {t} : job'[u] = job[u]
  BY <1>1, <1>5
<1>8. /\ job'[t].name = LOGS /\ job'[t].value = job[t].value /\ job'[t].plan = r
      /\ job'[t].cbs = job[t].cbs
  BY <1>1, <1>6, <1>7 DEF JobFields
<1>9. /\ IsSequence(r)
      /\ \A q \in 1 .. Len(r) : q + 1 \in 1 .. Len(p) /\ r[q] = p[q + 1]
  BY <1>4, <1>6, TailFacts
<1>10. PlanOf(t)'
  <2>1. \A q \in 1 .. Len(r) : IsOp(r[q])
    BY <1>6, <1>9
  <2>2. QED
    BY <1>1, <1>6, <1>8, <1>9, <2>1 DEF PlanOf
<1>11. Planned'
  BY <1>1, <1>2, <1>7, <1>10, ThreadPlans
<1>12. t \in Busy(LOGS) /\ t \in Busy(LOGS)'
  BY <1>1, <1>6, <1>8 DEF Busy
<1>13. Current(LOGS)'
  BY <1>1, <1>2 DEF ConfigInv
<1>14. PICK e : e = <<>>
  OBVIOUS
<1>15. ~raced'[LOGS] => Due(m_loggers', applied', job'[t].plan, job'[t].value)
  <2> SUFFICES ASSUME ~raced[LOGS]
               PROVE  Due(m_loggers', applied, r, job[t].value)
    BY <1>1, <1>8
  <2>0. Due(m_loggers, applied, p, job[t].value)
    BY <1>2, <1>3, <1>6, <1>12, <1>14, BusyMirrored
  <2>1. IsValue("logs", applied) /\ Pending(m_loggers, p, applied)
    BY <2>0 DEF Due
  <2>2. PICK s : s = Head(p)
    OBVIOUS
  <2>3. PICK g : g = getLogger(s.logger)
    OBVIOUS
  <2>4. PICK beyond, h : /\ m_loggers' = WithLogger(s.logger, h)
                         /\ Result(s, g, beyond, h)
    BY <1>3, <2>2, <2>3, PlanStepResult
  <2>5. GoodLogger(g)
    BY <2>3, NewLoggers DEF getLogger, LoggersInv
  <2>6. Effect(s, g.m_appenders, h.m_appenders, g.m_level, h.m_level)
    BY <2>4, <2>5, ResultEffect
  <2>7. /\ DOMAIN m_loggers' = DOMAIN m_loggers \cup {s.logger}
        /\ \A m \in DOMAIN m_loggers \ {s.logger} : m_loggers'[m] = m_loggers[m]
        /\ m_loggers'[s.logger] = h
    BY <2>4 DEF WithLogger
  <2>8. Appended(m_loggers, s.logger) = g.m_appenders
    BY <2>3 DEF Appended, getLogger, LoggerOf
  <2>9. Appended(m_loggers', s.logger) = h.m_appenders
    BY <2>7 DEF Appended
  <2>10. s.logger \in DOMAIN m_loggers => g.m_level = m_loggers[s.logger].m_level
    BY <2>3 DEF getLogger
  <2>12. Effect(s, Appended(m_loggers, s.logger), Appended(m_loggers', s.logger),
                g.m_level, m_loggers'[s.logger].m_level)
    BY <2>6, <2>7, <2>8, <2>9
  <2>13. Pending(m_loggers', r, applied)
    BY <1>4, <1>6, <2>1, <2>2, <2>7, <2>10, <2>12, OperationPends
  <2>14. QED
    BY <2>0, <2>13 DEF Due
<1>16. Mirrored'
  BY <1>6, <1>8, <1>12, <1>13, <1>14, <1>15, BusyMirrors
<1>17. QED
  BY <1>11, <1>16 DEF MirrorInv

(* A step that leaves the configuration alone, and changes no appender and *)
(* no level.                                                               *)
LEMMA LoggerMirrors ==
    ASSUME LoggersInv, MirrorInv, UNCHANGED configVars, applied' = applied,
           NEW n, NEW h, m_loggers' = WithLogger(n, h),
           h.m_level = getLogger(n).m_level,
           Alike(getLogger(n).m_appenders, h.m_appenders)
    PROVE  MirrorInv'
<1>1. s_datas' = s_datas /\ pc' = pc /\ job' = job /\ raced' = raced
  BY DEF configVars
<1>2. Planned'
  <2>1. \A t \in Threads : PlanOf(t)'
    BY <1>1 DEF MirrorInv, Planned, PlanOf
  <2>2. QED
    BY <1>1, <2>1 DEF MirrorInv, Planned
<1>3. /\ DOMAIN m_loggers' = DOMAIN m_loggers \cup {n} /\ m_loggers'[n] = h
      /\ \A m \in DOMAIN m_loggers \ {n} : m_loggers'[m] = m_loggers[m]
  BY DEF WithLogger
<1>4. ASSUME NEW m
      PROVE  Alike(Appended(m_loggers, m), Appended(m_loggers', m))
  <2>1. CASE m # n
    <3>1. Appended(m_loggers', m) = Appended(m_loggers, m)
      BY <1>3, <2>1 DEF Appended
    <3>2. QED
      BY <3>1 DEF Alike
  <2>2. CASE m = n
    <3>1. Appended(m_loggers, m) = getLogger(n).m_appenders
      BY <2>2 DEF Appended, getLogger, LoggerOf
    <3>2. Appended(m_loggers', m) = h.m_appenders
      BY <1>3, <2>2 DEF Appended
    <3>3. QED
      BY <3>1, <3>2
  <2>3. QED
    BY <2>1, <2>2
<1>5. \A m \in DOMAIN m_loggers : m_loggers'[m].m_level = m_loggers[m].m_level
  BY <1>3 DEF getLogger
<1>6. ASSUME NEW p, NEW defs, Due(m_loggers, applied, p, defs)
      PROVE  Due(m_loggers', applied', p, defs)
  <2>1. Pending(m_loggers, p, applied)
    BY <1>6 DEF Due
  <2>2. Pending(m_loggers', p, applied)
    BY <1>3, <1>4, <1>5, <2>1, ReformattedPends
  <2>3. QED
    BY <1>6, <2>2 DEF Due
<1>7. Mirrored'
  <2>1. Busy(LOGS)' = Busy(LOGS)
    BY <1>1 DEF Busy
  <2> DEFINE B == Busy(LOGS)
  <2>2. B' = B
    BY <2>1
  <2>3. Mirrored
    BY DEF MirrorInv
  <2> HIDE DEF B
  <2>4. QED
    BY <1>1, <1>6, <2>2, <2>3, Zenon DEF Mirrored, B
<1>8. QED
  BY <1>2, <1>7 DEF MirrorInv

LEMMA MirrorKept ==
    ConfigInv /\ ConfigInv' /\ SavedInv /\ LoggersInv /\ MirrorInv /\ [Next]_vars => MirrorInv'
<1> SUFFICES ASSUME ConfigInv, ConfigInv', SavedInv, LoggersInv, MirrorInv, [Next]_vars
             PROVE  MirrorInv'
  OBVIOUS
<1>1. ASSUME UNCHANGED configVars, m_loggers' = m_loggers, applied' = applied
      PROVE  MirrorInv'
  <2>1. s_datas' = s_datas /\ pc' = pc /\ job' = job /\ raced' = raced
    BY <1>1 DEF configVars
  <2>2. \A t \in Threads : PlanOf(t)'
    BY <2>1 DEF MirrorInv, Planned, PlanOf
  <2>3. Planned'
    BY <2>1, <2>2 DEF MirrorInv, Planned
  <2>4. Busy(LOGS)' = Busy(LOGS)
    BY <2>1 DEF Busy
  <2>5. Mirrored'
    BY <1>1, <2>1, <2>4, FrameMirrored DEF MirrorInv
  <2>6. QED
    BY <2>3, <2>5 DEF MirrorInv
<1>2. CASE UNCHANGED vars
  BY <1>1, <1>2 DEF vars, logVars
<1>3. ASSUME NEW t \in Threads, Step(t)
      PROVE  MirrorInv'
  BY <1>3, CompareMirrors, ListenerMirrors, StoreMirrors, LoadMirrors,
     LogListenerMirrors, PlanStepMirrors DEF Step, ConfigStep
<1>4. ASSUME NEW t \in Reporters, NEW n \in Loggers, NEW level \in Levels,
             Report(t, n, level)
      PROVE  MirrorInv'
  <2>1. /\ UNCHANGED configVars /\ applied' = applied
        /\ m_loggers' = WithLogger(n, getLogger(n))
    BY <1>4 DEF Report
  <2>2. Alike(getLogger(n).m_appenders, getLogger(n).m_appenders)
    BY DEF Alike
  <2>3. QED
    BY <2>1, <2>2, LoggerMirrors
<1>5. ASSUME NEW t \in Reporters, NEW p \in Patterns, NEW beyond \in BOOLEAN,
             SetFormatter(t, p, beyond)
      PROVE  MirrorInv'
  <2>1. PICK f : f = LogFormatterOf(p, beyond)
    OBVIOUS
  <2>2. PICK h : h = setFormatter(getLogger("root"), f)
    OBVIOUS
  <2>3. /\ UNCHANGED configVars /\ applied' = applied
        /\ m_loggers' = WithLogger("root", h)
    BY <1>5, <2>1, <2>2 DEF SetFormatter, LoggersInv, getLogger
  <2>4. GoodLogger(getLogger("root"))
    BY DEF LoggersInv, getLogger
  <2>5. /\ h.m_level = getLogger("root").m_level
        /\ Alike(getLogger("root").m_appenders, h.m_appenders)
    BY <2>2, <2>4, SetFormatterAlike
  <2>6. QED
    BY <2>3, <2>5, LoggerMirrors
<1>6. ASSUME NEW t \in Reporters, Log(t)
      PROVE  MirrorInv'
  BY <1>1, <1>6 DEF Log
<1>7. QED
  BY <1>2, <1>3, <1>4, <1>5, <1>6, CallMirrors DEF Next

LEMMA MirrorInitial == Init => MirrorInv
<1> SUFFICES ASSUME Init
             PROVE  MirrorInv
  OBVIOUS
<1>1. /\ s_datas = [n \in Names \ LateNames |-> ConfigVarOf(n)]
      /\ pc = [t \in Threads |-> "idle"] /\ job = [t \in Threads |-> NoJob]
      /\ m_loggers = [n \in {"root"} |-> LoggerOf(<<Stdout>>)]
  BY DEF Init, ConfigInit
<1>2. LOGS \in Names \ LateNames /\ Default[LOGS] = <<>>
  BY LogAssumption
<1>3. \A n \in Names : /\ ConfigVarOf(n).m_val = Default[n]
                       /\ LogListener \in ConfigVarOf(n).m_cbs <=> n = LOGS
  BY LogAssumption DEF ConfigVarOf
<1>4. \A t \in Threads : PlanOf(t)
  <2>1. NoJob.plan = <<>>
    BY DEF NoJob
  <2>2. QED
    BY <1>1, <2>1, NoPlan DEF PlanOf
<1>5. Planned
  BY <1>1, <1>2, <1>3, <1>4 DEF Planned
<1>6. PICK e : e = <<>>
  OBVIOUS
<1>7. Len(e) = 0 /\ DOMAIN e = {}
  BY <1>6
<1>8. Pending(m_loggers, e, e)
  <2> SUFFICES ASSUME NEW n, n \in DOMAIN e \/ n # "root"
               PROVE  /\ \E c, base : Builds(m_loggers, e, n, AppendersOf(e, n), c, base)
                      /\ n \in DOMAIN e => Raises(m_loggers, e, n, e[n].level)
    BY DEF Pending
  <2>1. n # "root" /\ n \notin DOMAIN e
    BY <1>7
  <2>2. AppendersOf(e, n) = e /\ Appended(m_loggers, n) = e
    BY <1>1, <1>6, <2>1 DEF AppendersOf, Appended
  <2>3. Builds(m_loggers, e, n, AppendersOf(e, n), 0, 0)
    BY <1>7, <2>2 DEF Builds
  <2>4. QED
    BY <2>1, <2>3
<1>9. s_datas[LOGS].m_val = e /\ applied = e
  BY <1>1, <1>2, <1>3, <1>6 DEF Init
<1>10. Due(m_loggers, applied, e, e)
  <2>1. IsValue("logs", e)
    BY <1>6, <1>7, FS_EmptySet DEF IsValue
  <2>2. QED
    BY <1>8, <1>9, <2>1, SameReflexive DEF Due
<1>11. Busy(LOGS) = {}
  BY <1>1 DEF Busy
<1>12. Mirrored
  BY <1>6, <1>9, <1>11, <1>10, Zenon DEF Mirrored
<1>13. QED
  BY <1>5, <1>12 DEF MirrorInv

LogInv == ConfigInv /\ SavedInv /\ LoggersInv /\ MirrorInv

LEMMA LogInitial == Init => LogInv
<1>1. Init => SavedInv
  BY SavedInitial
<1>2. Init => ConfigInv
  BY ConfigInitial DEF Init
<1>3. Init => LoggersInv
  BY NewLoggers DEF Init, LoggersInv
<1>4. QED
  BY <1>1, <1>2, <1>3, MirrorInitial DEF LogInv

LEMMA LogKept == LogInv /\ [Next]_vars => LogInv'
BY ConfigKept, SavedKept, LoggersKept, MirrorKept DEF LogInv

(* Of a configuration that has settled. *)
LEMMA LogInvMirrors == LogInv => LoggersMirrorConfig
<1> SUFFICES ASSUME LogInv, Settled(LOGS)
             PROVE  LET defs == s_datas[LOGS].m_val
                    IN  /\ Same("logs", applied, defs)
                        /\ \A n \in DOMAIN defs :
                               /\ n \in DOMAIN m_loggers /\ m_loggers[n].m_level = defs[n].level
                               /\ Len(m_loggers[n].m_appenders) = Len(applied[n].appenders)
                               /\ \A i \in 1 .. Len(applied[n].appenders) :
                                      Made(applied[n].appenders[i], m_loggers[n].m_appenders[i])
                        /\ \A n \in DOMAIN m_loggers \ (DOMAIN defs \cup {"root"}) :
                               m_loggers[n].m_appenders = <<>>
  BY DEF LoggersMirrorConfig, Made
<1>1. PICK defs : defs = s_datas[LOGS].m_val
  OBVIOUS
<1>2. PICK e : e = <<>>
  OBVIOUS
<1>3. Busy(LOGS) = {} /\ ~raced[LOGS]
  BY DEF Settled, Busy
<1>4. Due(m_loggers, applied, e, defs)
  BY <1>1, <1>2, <1>3, IdleMirrored DEF LogInv, MirrorInv
<1>5. IsValue("logs", applied) /\ Same("logs", applied, defs) /\ Pending(m_loggers, e, applied)
  BY <1>4 DEF Due
<1>6. /\ DOMAIN applied = DOMAIN defs
      /\ \A n \in DOMAIN defs : applied[n].level = defs[n].level
  BY <1>5 DEF Same, SameDefine
<1>7. ASSUME NEW n \in DOMAIN defs
      PROVE  /\ n \in DOMAIN m_loggers /\ m_loggers[n].m_level = defs[n].level
             /\ Len(m_loggers[n].m_appenders) = Len(applied[n].appenders)
             /\ \A i \in 1 .. Len(applied[n].appenders) :
                    Made(applied[n].appenders[i], m_loggers[n].m_appenders[i])
  BY <1>2, <1>5, <1>6, NothingPending DEF Appended, AppendersOf
<1>8. ASSUME NEW n \in DOMAIN m_loggers \ (DOMAIN defs \cup {"root"})
      PROVE  m_loggers[n].m_appenders = <<>>
  <2>1. Len(m_loggers[n].m_appenders) = 0
    BY <1>2, <1>5, <1>6, NothingPending DEF Appended, AppendersOf
  <2>2. PICK S : m_loggers[n].m_appenders \in Seq(S)
    BY DEF LogInv, LoggersInv, GoodLogger
  <2>3. QED
    BY <2>1, <2>2
<1>9. QED
  BY <1>1, <1>5, <1>7, <1>8

(* Whatever the documents and however often they are loaded: once a change *)
(* of "logs" that no other has overlapped is over, every logger has the    *)
(* level that is configured and the appenders of the last definition of    *)
(* its name that operator== told from the one before it.                   *)
THEOREM LoggersAlwaysMirror == Spec => []LoggersMirrorConfig
<1>1. QED
  BY LogInitial, LogKept, LogInvMirrors, PTL DEF Spec

-----------------------------------------------------------------------------
(* Records reach an appender *)

Records ==
    /\ DOMAIN event = Reporters
    /\ \A t \in Reporters : event[t] # None => /\ event[t].logger \in DOMAIN m_loggers
                                               /\ event[t].level \in Levels

(* A configured appender takes records of every level. *)
LEMMA ConfiguredWrite ==
    ASSUME LogInv, Settled(LOGS), NEW n \in DOMAIN applied,
           m_loggers[n].m_appenders # <<>> \/ applied[n].appenders # <<>>,
           NEW l \in Levels
    PROVE  n \in DOMAIN m_loggers /\ Writers(m_loggers[n], l) # {}
<1>1. PICK d : d = applied[n]
  OBVIOUS
<1>2. PICK x, y : x = m_loggers[n].m_appenders /\ y = d.appenders
  OBVIOUS
<1>3. /\ n \in DOMAIN m_loggers /\ Len(x) = Len(y)
      /\ \A i \in 1 .. Len(y) : y[i].level = x[i].m_level
  BY <1>1, <1>2, LogInvMirrors DEF LoggersMirrorConfig, Same
<1>4. IsLogDefine(n, d)
  <2>1. PICK e : e = <<>>
    OBVIOUS
  <2>2. Busy(LOGS) = {} /\ ~raced[LOGS]
    BY DEF Settled, Busy
  <2>3. Due(m_loggers, applied, e, s_datas[LOGS].m_val)
    BY <2>1, <2>2, IdleMirrored DEF LogInv, MirrorInv
  <2>4. QED
    BY <1>1, <2>3 DEF Due, IsValue
<1>5. y \in Seq(ToSet(y)) /\ \A i \in DOMAIN y : y[i].level = 0
  BY <1>2, <1>4 DEF IsLogDefine, IsSequence
<1>6. PICK S : x \in Seq(S)
  BY <1>2, <1>3 DEF LogInv, LoggersInv, GoodLogger
<1>7. PICK T : y \in Seq(T)
  BY <1>5
<1>8. Len(y) \in Nat /\ Len(y) > 0 /\ DOMAIN y = 1 .. Len(y)
  BY <1>1, <1>2, <1>3, <1>6, <1>7
<1>9. 1 \in 1 .. Len(x) /\ x[1].m_level = 0
  BY <1>3, <1>5, <1>8
<1>10. l >= 0
  BY LogAssumption
<1>11. 1 \in Writers(m_loggers[n], l)
  BY <1>2, <1>9, <1>10 DEF Writers
<1>12. QED
  BY <1>3, <1>11

LEMMA ConfiguredReach ==
    ASSUME LogInv, RootConfigured, NEW n \in DOMAIN m_loggers, NEW l \in Levels,
           Accepts("root", l)
    PROVE  Reaches(n, l) # {}
<1>1. Settled(LOGS) /\ "root" \in DOMAIN applied /\ applied["root"].appenders # <<>>
  BY DEF RootConfigured
<1>2. Writers(m_loggers["root"], l) # {}
  BY <1>1, ConfiguredWrite
<1>3. CASE m_loggers[n].m_appenders # <<>>
  <2>1. CASE n = "root"
    BY <1>2, <1>3, <2>1 DEF Reaches
  <2>2. CASE n # "root"
    <3>1. n \in DOMAIN applied
      BY <1>1, <1>3, <2>2, LogInvMirrors DEF LoggersMirrorConfig, Same
    <3>2. QED
      BY <1>1, <1>3, <3>1, ConfiguredWrite DEF Reaches
  <2>3. QED
    BY <2>1, <2>2
<1>4. CASE m_loggers[n].m_appenders = <<>>
  <2>1. CASE n = "root"
    <3>1. PICK g : g = m_loggers["root"]
      OBVIOUS
    <3>2. Len(g.m_appenders) = 0
      BY <1>4, <2>1, <3>1
    <3>3. Writers(g, l) = {}
      BY <3>2 DEF Writers
    <3>4. QED
      BY <1>2, <3>1, <3>3
  <2>2. CASE n # "root"
    BY <1>2, <1>4, <2>2 DEF Reaches
  <2>3. QED
    BY <2>1, <2>2
<1>5. QED
  BY <1>3, <1>4

(* Loggers are created and never removed. *)
LEMMA LoggersStay ==
    ASSUME [Next]_vars
    PROVE  DOMAIN m_loggers \subseteq DOMAIN m_loggers'
<1>1. ASSUME NEW n, NEW h, m_loggers' = WithLogger(n, h)
      PROVE  DOMAIN m_loggers \subseteq DOMAIN m_loggers'
  BY <1>1 DEF WithLogger
<1>2. ASSUME m_loggers' = m_loggers
      PROVE  DOMAIN m_loggers \subseteq DOMAIN m_loggers'
  BY <1>2
<1>3. CASE UNCHANGED vars
  BY <1>2, <1>3 DEF vars, logVars
<1>4. ASSUME NEW t \in Threads, Step(t)
      PROVE  DOMAIN m_loggers \subseteq DOMAIN m_loggers'
  BY <1>1, <1>2, <1>4, PlanStepResult DEF Step, logVars, LogConfChanged
<1>5. ASSUME UNCHANGED logVars
      PROVE  DOMAIN m_loggers \subseteq DOMAIN m_loggers'
  BY <1>2, <1>5 DEF logVars
<1>6. ASSUME NEW t \in Reporters, NEW n \in Loggers, NEW level \in Levels,
             Report(t, n, level)
      PROVE  DOMAIN m_loggers \subseteq DOMAIN m_loggers'
  BY <1>1, <1>6 DEF Report
<1>7. ASSUME NEW t \in Reporters, NEW p \in Patterns, NEW beyond \in BOOLEAN,
             SetFormatter(t, p, beyond)
      PROVE  DOMAIN m_loggers \subseteq DOMAIN m_loggers'
  BY <1>1, <1>7 DEF SetFormatter
<1>8. ASSUME NEW t \in Reporters, Log(t)
      PROVE  DOMAIN m_loggers \subseteq DOMAIN m_loggers'
  BY <1>2, <1>8 DEF Log
<1>9. QED
  BY <1>3, <1>4, <1>5, <1>6, <1>7, <1>8 DEF Next

DroppedInv == Records /\ ~dropped

LEMMA DroppedKept == LogInv /\ DroppedInv /\ [Next]_vars => DroppedInv'
<1> SUFFICES ASSUME LogInv, DroppedInv, [Next]_vars
             PROVE  DroppedInv'
  OBVIOUS
<1>1. DOMAIN m_loggers \subseteq DOMAIN m_loggers'
  BY LoggersStay
<1>2. ASSUME event' = event, dropped' = dropped
      PROVE  DroppedInv'
  BY <1>1, <1>2 DEF DroppedInv, Records
<1>3. CASE UNCHANGED vars
  BY <1>2, <1>3 DEF vars, logVars
<1>4. ASSUME NEW t \in Threads, Step(t)
      PROVE  DroppedInv'
  BY <1>2, <1>4 DEF Step, logVars, LogConfChanged, PlanStep
<1>5. ASSUME UNCHANGED logVars
      PROVE  DroppedInv'
  BY <1>2, <1>5 DEF logVars
<1>6. ASSUME NEW t \in Reporters, NEW n \in Loggers, NEW level \in Levels,
             Report(t, n, level)
      PROVE  DroppedInv'
  <2> DEFINE ev == [logger |-> n, level |-> level]
  <2>1. /\ dropped' = dropped /\ m_loggers' = WithLogger(n, getLogger(n))
        /\ event' = event \/ event' = [event EXCEPT ![t] = ev]
    BY <1>6 DEF Report
  <2>2. n \in DOMAIN m_loggers'
    BY <2>1 DEF WithLogger
  <2>3. ev.logger = n /\ ev.level = level
    OBVIOUS
  <2> HIDE DEF ev
  <2>4. QED
    BY <1>1, <1>2, <2>1, <2>2, <2>3 DEF DroppedInv, Records
<1>7. ASSUME NEW t \in Reporters, NEW p \in Patterns, NEW beyond \in BOOLEAN,
             SetFormatter(t, p, beyond)
      PROVE  DroppedInv'
  BY <1>2, <1>7 DEF SetFormatter
<1>8. ASSUME NEW t \in Reporters, Log(t)
      PROVE  DroppedInv'
  <2>1. PICK n, l : n = event[t].logger /\ l = event[t].level
    OBVIOUS
  <2>2. /\ dropped' = (dropped \/ (/\ RootConfigured /\ Reaches(n, l) = {}
                                   /\ Accepts(n, l) /\ Accepts("root", l)))
        /\ event[t] # None /\ event' = [event EXCEPT ![t] = None]
    BY <1>8, <2>1 DEF Log
  <2>3. n \in DOMAIN m_loggers /\ l \in Levels
    BY <2>1, <2>2 DEF DroppedInv, Records
  <2>4. ~dropped'
    BY <2>2, <2>3, ConfiguredReach DEF DroppedInv
  <2>5. Records'
    BY <1>1, <2>2 DEF DroppedInv, Records
  <2>6. QED
    BY <2>4, <2>5 DEF DroppedInv
<1>9. QED
  BY <1>3, <1>4, <1>5, <1>6, <1>7, <1>8 DEF Next

(* However records and reloads interleave: a record that the loggers       *)
(* accept reaches an appender whenever a configuration that has been       *)
(* applied gives the root one, so none is lost outside a reload.           *)
THEOREM NeverDroppedOutsideReload == Spec => []DroppedOnlyInReload
<1>1. Init => DroppedInv
  BY DEF Init, DroppedInv, Records
<1>2. DroppedInv => DroppedOnlyInReload
  BY DEF DroppedInv, DroppedOnlyInReload
<1>3. QED
  BY <1>1, <1>2, LogInitial, LogKept, DroppedKept, PTL DEF Spec

-----------------------------------------------------------------------------
(* Types *)

ThreadStates == {"idle", "load", "compare", "listen", "store"}
TypedThreads ==
    /\ readers \in [Names -> SUBSET Threads] /\ pc \in [Threads -> ThreadStates]
    /\ calls \in [Threads -> Nat] /\ records \in [Reporters -> 0 .. MaxRecords]
TypedLogger(g) == g.m_level \in 0 .. 5 /\ g.m_formatter \in Formatters
TypedLoggers == \A n \in DOMAIN m_loggers : TypedLogger(m_loggers[n])

LEMMA FormatterTyped ==
    ASSUME NEW p \in Seq(STRING), NEW b
    PROVE  LogFormatterOf(p, b) \in Formatters
<1>1. PICK m : LogFormatterOf(p, b) = [pattern |-> p, m_error |-> m]
  BY DEF LogFormatterOf
<1>2. m = LogFormatterOf(p, b).m_error
  BY <1>1
<1>3. m \in BOOLEAN
  BY <1>2, FormatterErrors
<1>4. QED
  BY <1>1, <1>3 DEF Formatters

LEMMA NewTyped == \A apps : TypedLogger(LoggerOf(apps))
<1>1. DefaultPattern \in Seq(STRING)
  BY LogAssumption
<1>2. DefaultFormatter \in Formatters
  BY <1>1, FormatterTyped DEF DefaultFormatter
<1> HIDE DEF DefaultFormatter
<1>3. QED
  BY <1>2 DEF TypedLogger, LoggerOf, DEBUG

LEMMA SetFormatterTyped ==
    ASSUME NEW g, GoodLogger(g), TypedLogger(g), NEW f \in Formatters,
           NEW h, h = setFormatter(g, f)
    PROVE  TypedLogger(h)
<1>1. DOMAIN g = LoggerFields
  BY DEF GoodLogger
<1>2. CASE f.m_error
  BY <1>2 DEF setFormatter
<1>3. CASE ~f.m_error
  <2>1. PICK x : h = [g EXCEPT !.m_formatter = f, !.m_appenders = x]
    BY <1>3 DEF setFormatter
  <2>2. h.m_level = g.m_level /\ h.m_formatter = f
    BY <1>1, <2>1 DEF LoggerFields
  <2>3. QED
    BY <2>2 DEF TypedLogger
<1>4. QED
  BY <1>2, <1>3

LEMMA ResultTyped ==
    ASSUME NEW s, IsOp(s), NEW g, GoodLogger(g), TypedLogger(g), NEW beyond, NEW h,
           Result(s, g, beyond, h)
    PROVE  TypedLogger(h)
<1>1. DOMAIN g = LoggerFields
  BY DEF GoodLogger
<1>2. CASE s.op = "setLevel" /\ h = setLevel(g, s.arg)
  <2>1. h.m_level = s.arg /\ h.m_formatter = g.m_formatter
    BY <1>1, <1>2 DEF setLevel, LoggerFields
  <2>2. QED
    BY <1>2, <2>1 DEF TypedLogger, IsOp
<1>3. CASE s.op = "setFormatter" /\ h = setFormatter(g, LogFormatterOf(s.arg, beyond))
  <2>1. LogFormatterOf(s.arg, beyond) \in Formatters
    BY <1>3, FormatterTyped DEF IsOp
  <2>2. QED
    BY <1>3, <2>1, SetFormatterTyped
<1>4. CASE s.op = "clearAppenders" /\ h = clearAppenders(g)
  <2>1. h.m_level = g.m_level /\ h.m_formatter = g.m_formatter
    BY <1>1, <1>4 DEF clearAppenders, LoggerFields
  <2>2. QED
    BY <2>1 DEF TypedLogger
<1>5. CASE /\ s.op = "addAppender"
           /\ h = addAppender(g, s.arg, LogFormatterOf(s.arg.formatter, beyond))
  <2>1. PICK x : h = [g EXCEPT !.m_appenders = x]
    BY <1>5 DEF addAppender
  <2>2. h.m_level = g.m_level /\ h.m_formatter = g.m_formatter
    BY <1>1, <2>1 DEF LoggerFields
  <2>3. QED
    BY <2>2 DEF TypedLogger
<1>6. QED
  BY <1>2, <1>3, <1>4, <1>5 DEF Result

LEMMA TypedLoggersKept == LogInv /\ TypedLoggers /\ [Next]_vars => TypedLoggers'
<1> SUFFICES ASSUME LogInv, TypedLoggers, [Next]_vars
             PROVE  TypedLoggers'
  OBVIOUS
<1>1. ASSUME NEW n, NEW h, m_loggers' = WithLogger(n, h), TypedLogger(h)
      PROVE  TypedLoggers'
  BY <1>1 DEF WithLogger, TypedLoggers
<1>2. ASSUME m_loggers' = m_loggers
      PROVE  TypedLoggers'
  BY <1>2 DEF TypedLoggers
<1>3. \A n : TypedLogger(getLogger(n)) /\ GoodLogger(getLogger(n))
  BY NewTyped, NewLoggers DEF getLogger, TypedLoggers, LogInv, LoggersInv
<1>4. CASE UNCHANGED vars
  BY <1>2, <1>4 DEF vars, logVars
<1>5. ASSUME NEW t \in Threads, PlanStep(t)
      PROVE  TypedLoggers'
  <2>1. PICK p : p = job[t].plan
    OBVIOUS
  <2>2. PICK s : s = Head(p)
    OBVIOUS
  <2>3. /\ IsSequence(p) /\ p # <<>> /\ \A q \in 1 .. Len(p) : IsOp(p[q])
    BY <1>5, <2>1 DEF PlanStep, LogInv, MirrorInv, Planned, PlanOf
  <2>4. Len(p) \in Nat \ {0} /\ s = p[1]
    BY <2>2, <2>3, TailFacts
  <2>5. IsOp(s)
    BY <2>3, <2>4
  <2>6. PICK beyond, h : /\ m_loggers' = WithLogger(s.logger, h)
                         /\ Result(s, getLogger(s.logger), beyond, h)
    BY <1>5, <2>1, <2>2, PlanStepResult
  <2>7. TypedLogger(h)
    BY <1>3, <2>5, <2>6, ResultTyped
  <2>8. QED
    BY <1>1, <2>6, <2>7
<1>6. ASSUME NEW t \in Threads, Step(t)
      PROVE  TypedLoggers'
  BY <1>2, <1>5, <1>6 DEF Step, logVars, LogConfChanged
<1>7. ASSUME UNCHANGED logVars
      PROVE  TypedLoggers'
  BY <1>2, <1>7 DEF logVars
<1>8. ASSUME NEW t \in Reporters, NEW n \in Loggers, NEW level \in Levels,
             Report(t, n, level)
      PROVE  TypedLoggers'
  BY <1>1, <1>3, <1>8 DEF Report
<1>9. ASSUME NEW t \in Reporters, NEW p \in Patterns, NEW beyond \in BOOLEAN,
             SetFormatter(t, p, beyond)
      PROVE  TypedLoggers'
  <2>1. PICK h : h = setFormatter(m_loggers["root"], LogFormatterOf(p, beyond))
    OBVIOUS
  <2>2. m_loggers' = WithLogger("root", h)
    BY <1>9, <2>1 DEF SetFormatter
  <2>3. LogFormatterOf(p, beyond) \in Formatters
    BY LogAssumption, FormatterTyped
  <2>4. TypedLogger(h)
    BY <2>1, <2>3, SetFormatterTyped DEF LogInv, LoggersInv, TypedLoggers
  <2>5. QED
    BY <1>1, <2>2, <2>4
<1>10. ASSUME NEW t \in Reporters, Log(t)
      PROVE  TypedLoggers'
  BY <1>2, <1>10 DEF Log
<1>11. QED
  BY <1>4, <1>6, <1>7, <1>8, <1>9, <1>10 DEF Next

LEMMA TypedThreadsKept == TypedThreads /\ [Next]_vars => TypedThreads'
<1> SUFFICES ASSUME TypedThreads, [Next]_vars
             PROVE  TypedThreads'
  OBVIOUS
<1> USE DEF TypedThreads, ThreadStates
<1>1. CASE UNCHANGED vars
  BY <1>1 DEF vars, configVars, logVars
<1>2. ASSUME NEW t \in Threads, Finished(t)
      PROVE  pc' \in [Threads -> ThreadStates]
  BY <1>2 DEF Finished
<1>3. ASSUME NEW t \in Threads, ConfigStep(t), UNCHANGED logVars
      PROVE  TypedThreads'
  <2>1. records' = records
    BY <1>3 DEF logVars
  <2>2. CASE Compare(t)
    BY <1>2, <2>1, <2>2 DEF Compare
  <2>3. CASE CallListener(t)
    BY <2>1, <2>3 DEF CallListener
  <2>4. CASE Unlock(t)
    BY <2>1, <2>4 DEF Unlock
  <2>5. CASE Store(t)
    BY <1>2, <2>1, <2>5 DEF Store
  <2>6. CASE LoadNode(t)
    BY <2>1, <2>6 DEF LoadNode
  <2>7. CASE LoadEnds(t)
    BY <2>1, <2>7 DEF LoadEnds
  <2>8. QED
    BY <1>3, <2>2, <2>3, <2>4, <2>5, <2>6, <2>7 DEF ConfigStep
<1>4. ASSUME NEW t \in Threads, ConfigCall(t), UNCHANGED logVars
      PROVE  TypedThreads'
  <2>1. calls' \in [Threads -> Nat]
    <3>1. Begins(t)
      BY <1>4 DEF ConfigCall, Lookup, addListener, clearListener, delListener, setValue, LoadFromYaml
    <3>2. QED
      BY <3>1 DEF Begins
  <2>2. readers' = readers /\ records' = records
    BY <1>4 DEF logVars, ConfigCall, Lookup, addListener, clearListener, delListener,
        setValue, LoadFromYaml
  <2>3. pc' = pc \/ pc' = [pc EXCEPT ![t] = "compare"] \/ pc' = [pc EXCEPT ![t] = "load"]
    BY <1>4 DEF ConfigCall, Lookup, addListener, clearListener, delListener, setValue, LoadFromYaml
  <2>4. QED
    BY <2>1, <2>2, <2>3
<1>5. ASSUME NEW t \in Threads, LogConfChanged(t) \/ PlanStep(t)
      PROVE  TypedThreads'
  BY <1>5 DEF LogConfChanged, PlanStep
<1>6. ASSUME NEW t \in Reporters, records[t] < MaxRecords,
             records' = [records EXCEPT ![t] = @ + 1]
      PROVE  records' \in [Reporters -> 0 .. MaxRecords]
  <2>1. records[t] + 1 \in 0 .. MaxRecords
    BY <1>6, LogAssumption
  <2>2. QED
    BY <1>6, <2>1
<1>7. ASSUME NEW t \in Reporters, NEW n \in Loggers, NEW level \in Levels,
             Report(t, n, level)
      PROVE  TypedThreads'
  BY <1>6, <1>7 DEF Report, configVars
<1>8. ASSUME NEW t \in Reporters, NEW p \in Patterns, NEW beyond \in BOOLEAN,
             SetFormatter(t, p, beyond)
      PROVE  TypedThreads'
  BY <1>6, <1>8 DEF SetFormatter, configVars
<1>9. ASSUME NEW t \in Reporters, Log(t)
      PROVE  TypedThreads'
  BY <1>9 DEF Log, configVars
<1>10. QED
  BY <1>1, <1>3, <1>4, <1>5, <1>7, <1>8, <1>9 DEF Next, Step

(* Variables keep the type they were looked up with, the read lock of one  *)
(* is held by exactly the threads that call its listeners, and every       *)
(* logger keeps a level and a formatter.                                   *)
THEOREM LogTypes == Spec => []TypeOK
<1>1. Init => TypedThreads /\ TypedLoggers
  <2> SUFFICES ASSUME Init
               PROVE  TypedThreads /\ TypedLoggers
    OBVIOUS
  <2>1. TypedThreads
    BY LogAssumption DEF Init, ConfigInit, TypedThreads, ThreadStates
  <2>2. TypedLoggers
    BY NewTyped DEF Init, TypedLoggers
  <2>3. QED
    BY <2>1, <2>2
<1>2. LogInv /\ TypedThreads /\ TypedLoggers => TypeOK
  <2> SUFFICES ASSUME LogInv, TypedThreads, TypedLoggers
               PROVE  TypeOK
    OBVIOUS
  <2>1. /\ DOMAIN s_datas \subseteq Names
        /\ \A n \in DOMAIN s_datas : s_datas[n].type = Wanted[n]
        /\ \A n \in Names : readers[n] = {t \in Threads : pc[t] = "listen" /\ job[t].name = n}
    BY DEF LogInv, ConfigInv, Shape, Locks, SavedInv, Values
  <2>2. /\ "root" \in DOMAIN m_loggers
        /\ \A n \in DOMAIN m_loggers : /\ m_loggers[n].m_level \in 0 .. 5
                                       /\ m_loggers[n].m_formatter \in Formatters
    BY DEF LogInv, LoggersInv, TypedLoggers, TypedLogger
  <2>3. QED
    BY <2>1, <2>2 DEF TypeOK, TypedThreads, ThreadStates
<1>3. QED
  BY <1>1, <1>2, LogInitial, LogKept, TypedThreadsKept, TypedLoggersKept, PTL DEF Spec
=============================================================================
