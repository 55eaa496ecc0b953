------------------------------ MODULE IOEvents ------------------------------
(***************************************************************************)
(* sylar/iomanager.{h,cc}: the FdContexts of an IOManager, the operations  *)
(* that register, delete and cancel events, and the part of idle() that    *)
(* handles what epoll_wait() returns.                                      *)
(*                                                                         *)
(* Everything done under FdContext::mutex is one action.  A poller is a    *)
(* scheduling thread in its idle fiber; between epoll_wait() and the       *)
(* handling of each event of its batch it holds no lock.  A waiter is a    *)
(* task that is to run when an event happens: the fiber that called        *)
(* addEvent() or the callback it passed.                                   *)
(***************************************************************************)
EXTENDS Integers, FiniteSets

CONSTANTS
    Fds,         (* file descriptors, each with its FdContext               *)
    Waiters,     (* fibers and callbacks                                    *)
    None,        (* no waiter: the reset EventContext                       *)
    Pollers,     (* scheduling threads                                      *)
    Uses,        (* the events the application registers on each fd         *)
    HangUps,     (* the fds whose peer may hang up                          *)
    Deletable    (* the fds on which it also calls delEvent()               *)

READ   == "READ"
WRITE  == "WRITE"
HUP    == "HUP"          (* EPOLLERR | EPOLLHUP *)
Events == {READ, WRITE}

ASSUME IOEventsAssumption ==
    /\ None \notin Waiters
    /\ Uses \in [Fds -> SUBSET Events]
    /\ HangUps \subseteq Fds /\ Deletable \subseteq Fds
    /\ IsFiniteSet(Fds)

VARIABLES
    events,      (* FdContext::events                                       *)
    context,     (* FdContext::read and ::write: the waiter of the event    *)
    m_pendingEventCount,
    task,        (* "waiting" in an EventContext, or "free": scheduled (and *)
                 (* what the Scheduler then does with it is its business),  *)
                 (* running, or not used yet                                *)
    batch,       (* what epoll_wait() returned to a poller, not yet handled *)
    interest,    (* epoll: the events of the fd's registration, {} if none  *)
    ready,       (* the kernel's state of the fd                            *)
    rdllist,     (* epoll's ready list                                      *)
    aborted      (* an assertion has failed or a null scheduler was used    *)

appVars    == <<events, context, m_pendingEventCount, task>>
kernelVars == <<interest, rdllist>>
vars == <<events, context, m_pendingEventCount, task, batch, interest, ready,
          rdllist, aborted>>

TypeOK ==
    /\ events \in [Fds -> SUBSET Events]
    /\ context \in [Fds -> [Events -> Waiters \cup {None}]]
    /\ m_pendingEventCount \in Nat
    /\ task \in [Waiters -> {"free", "waiting"}]
    /\ batch \in [Pollers -> [Fds -> SUBSET (Events \cup {HUP})]]
    /\ interest \in [Fds -> SUBSET Events]
    /\ ready \in [Fds -> SUBSET (Events \cup {HUP})]
    /\ rdllist \subseteq Fds
    /\ aborted \in BOOLEAN

Init ==
    /\ events = [f \in Fds |-> {}]
    /\ context = [f \in Fds |-> [e \in Events |-> None]]
    /\ m_pendingEventCount = 0
    /\ task = [w \in Waiters |-> "free"]
    /\ batch = [p \in Pollers |-> [f \in Fds |-> {}]]
    /\ interest = [f \in Fds |-> {}]
    /\ ready = [f \in Fds |-> {}]
    /\ rdllist = {}
    /\ aborted = FALSE

-----------------------------------------------------------------------------
(* epoll, edge triggered (EPOLLET) *)

(* EPOLL_CTL_ADD or _MOD: the fd is listed at once if it is ready.         *)
epoll_ctl_set(f, new) ==
    /\ interest' = [interest EXCEPT ![f] = new]
    /\ rdllist' = IF ready[f] \cap (new \cup {HUP}) # {} THEN rdllist \cup {f} ELSE rdllist

(* EPOLL_CTL_DEL *)
epoll_ctl_del(f) ==
    /\ interest' = [interest EXCEPT ![f] = {}]
    /\ rdllist' = rdllist \ {f}

LeftForgotten(f, left) == epoll_ctl_del(f)

(* MOD the registration to what is left, or DEL it when nothing is. *)
epoll_ctl_left(f, left) == IF left # {} THEN epoll_ctl_set(f, left) ELSE epoll_ctl_del(f)

(* The peer sends, reads or closes. *)
Edge(f, x) ==
    /\ ~aborted
    /\ ready' = [ready EXCEPT ![f] = @ \cup {x}]
    /\ rdllist' = IF interest[f] # {} /\ x \in interest[f] \cup {HUP}
                  THEN rdllist \cup {f} ELSE rdllist
    /\ UNCHANGED <<appVars, batch, interest, aborted>>

(* The program consumes the input or fills the output buffer of the fd. *)
Drain(f, e) ==
    /\ ~aborted
    /\ e \in ready[f]
    /\ ready' = [ready EXCEPT ![f] = @ \ {e}]
    /\ UNCHANGED <<appVars, batch, kernelVars, aborted>>

(* epoll_wait() in idle(): each listed fd is reported once per edge.  The  *)
(* fds fit in one batch (MAX_EVENTS is 256).                               *)
epoll_wait(p) ==
    /\ ~aborted
    /\ \A f \in Fds : batch[p][f] = {}
    /\ rdllist # {}
    /\ batch' = [batch EXCEPT ![p] =
                   [f \in Fds |-> IF f \in rdllist /\ interest[f] # {}
                                  THEN ready[f] \cap (interest[f] \cup {HUP}) ELSE {}]]
    /\ rdllist' = {}
    /\ UNCHANGED <<appVars, interest, ready, aborted>>

-----------------------------------------------------------------------------
(* FdContext *)

(* SYLAR_ASSERT fails, or triggerEvent() uses a null scheduler: the        *)
(* process ends.                                                           *)
Abort == aborted' = TRUE /\ UNCHANGED <<appVars, batch, interest, ready, rdllist>>

(* What triggerEvent() needs: the event is registered and has a waiter.    *)
Triggerable(f, es) == es \subseteq events[f] /\ \A e \in es : context[f][e] # None

(* triggerEvent() for each of es, with the decrement that follows it: the  *)
(* bits are cleared, the waiters scheduled and their contexts reset.       *)
BitsKept(f, es) == events[f]
BitsCleared(f, es) == events[f] \ es

CountKept(es) == m_pendingEventCount
CountAll(es)  == m_pendingEventCount - Cardinality(Events)
CountDown(es) == m_pendingEventCount - Cardinality(es)

triggerEvent(f, es) ==
    /\ events' = [events EXCEPT ![f] = BitsCleared(f, es)]
    /\ context' = [context EXCEPT ![f] = [e \in Events |-> IF e \in es THEN None ELSE @[e]]]
    /\ task' = [w \in Waiters |-> IF \E e \in es : context[f][e] = w THEN "free" ELSE task[w]]
    /\ m_pendingEventCount' = CountDown(es)

-----------------------------------------------------------------------------
(* The application *)

(* addEvent() asserts that the event is not registered and its context is  *)
(* reset.  It gives up, changing nothing, when epoll_ctl() fails: it MODs  *)
(* an fd that is not in epoll or ADDs one that is.                         *)
addEvent(w, f, e) ==
    /\ ~aborted
    /\ task[w] = "free"
    /\ IF e \in events[f] \/ context[f][e] # None THEN Abort
       ELSE /\ events[f] # {} <=> interest[f] # {}
            /\ epoll_ctl_set(f, events[f] \cup {e})
            /\ m_pendingEventCount' = m_pendingEventCount + 1
            /\ events' = [events EXCEPT ![f] = @ \cup {e}]
            /\ context' = [context EXCEPT ![f][e] = w]
            /\ task' = [task EXCEPT ![w] = "waiting"]
            /\ UNCHANGED <<batch, ready, aborted>>

(* The event is registered and epoll_ctl() MODs or DELs a registration     *)
(* that exists; otherwise the operations below return false.               *)
CanRemove(f, e) == e \in events[f] /\ interest[f] # {}

(* delEvent() resets the event's context but leaves its bit in events.     *)
(* The waiter is dropped: it is free to be used for another event.         *)
delEvent(f, e) ==
    /\ ~aborted
    /\ f \in Deletable
    /\ CanRemove(f, e)
    /\ epoll_ctl_left(f, events[f] \ {e})
    /\ m_pendingEventCount' = m_pendingEventCount - 1
    /\ context' = [context EXCEPT ![f][e] = None]
    /\ task' = [w \in Waiters |-> IF context[f][e] = w THEN "free" ELSE task[w]]
    /\ UNCHANGED <<events, batch, ready, aborted>>

cancelEvent(f, e) ==
    /\ ~aborted
    /\ CanRemove(f, e)
    /\ IF ~Triggerable(f, {e}) THEN Abort
       ELSE /\ epoll_ctl_left(f, events[f] \ {e})
            /\ triggerEvent(f, {e})
            /\ UNCHANGED <<batch, ready, aborted>>

cancelAll(f) ==
    /\ ~aborted
    /\ events[f] # {} /\ interest[f] # {}
    /\ IF ~Triggerable(f, events[f]) THEN Abort
       ELSE /\ epoll_ctl_del(f)
            /\ triggerEvent(f, events[f])
            /\ UNCHANGED <<batch, ready, aborted>>

-----------------------------------------------------------------------------
(* idle() *)

(* The events a report stands for: an error or a hang-up stands for every  *)
(* registered one.                                                         *)
RealIgnoresHup(f, report) == report \cap Events
RealEvents(f, report) == (report \cap Events) \cup (IF HUP \in report THEN events[f] ELSE {})

(* One report of the batch, under the mutex of its FdContext: nothing when *)
(* none of its events is registered (any more) or when epoll_ctl() fails;  *)
(* else the events that are left stay in epoll and the others trigger.     *)
HandleEvent(p, f) ==
    LET real == RealEvents(f, batch[p][f])
    IN  /\ ~aborted
        /\ batch[p][f] # {}
        /\ IF events[f] \cap real = {} \/ interest[f] = {}
           THEN /\ batch' = [batch EXCEPT ![p][f] = {}]
                /\ UNCHANGED <<appVars, kernelVars, ready, aborted>>
           ELSE IF ~Triggerable(f, real) THEN Abort
           ELSE /\ batch' = [batch EXCEPT ![p][f] = {}]
                /\ epoll_ctl_left(f, events[f] \ real)
                /\ triggerEvent(f, real)
                /\ UNCHANGED <<ready, aborted>>

-----------------------------------------------------------------------------
(* The application adds no event that already has a waiter                 *)
(* (iomanager.cc:172).                                                     *)
AppNext ==
    \/ \E w \in Waiters, f \in Fds : \E e \in Uses[f] : context[f][e] = None /\ addEvent(w, f, e)
    \/ \E f \in Fds : \E e \in Uses[f] : delEvent(f, e)
    \/ \E f \in Fds : \E e \in Uses[f] : cancelEvent(f, e)
    \/ \E f \in Fds : cancelAll(f)

KernelNext ==
    \/ \E f \in Fds : \E x \in Uses[f] : Edge(f, x)
    \/ \E f \in HangUps : Edge(f, HUP)
    \/ \E f \in Fds : \E e \in Uses[f] : Drain(f, e)

PollNext(p) == epoll_wait(p) \/ \E f \in Fds : HandleEvent(p, f)

Next == AppNext \/ KernelNext \/ \E p \in Pollers : PollNext(p)

Spec == Init /\ [][Next]_vars

(* Every poller keeps polling and handles what it was given. *)
FairSpec == Spec /\ \A p \in Pollers : WF_vars(PollNext(p))

-----------------------------------------------------------------------------
(* Properties *)

(* No assertion of addEvent(), triggerEvent() or cancelAll() fails and no  *)
(* reset EventContext is triggered, although reports are handled after     *)
(* other threads have changed the FdContext (iomanager.cc:141, 178, 328).  *)
NeverAborts == ~aborted

(* m_pendingEventCount, on which IOManager::stopping() relies, is the      *)
(* number of waiters in EventContexts.                                     *)
PendingExact ==
    m_pendingEventCount = Cardinality({fe \in Fds \X Events : context[fe[1]][fe[2]] # None})

(* A waiter sits in at most one EventContext, has not been scheduled while *)
(* it does, and epoll watches the event it waits for: it can be woken and  *)
(* is woken once.                                                          *)
WaitersArmed ==
    /\ \A f \in Fds, e \in Events :
         context[f][e] # None =>
            /\ task[context[f][e]] = "waiting"
            /\ e \in events[f]
            /\ e \in interest[f]
    /\ \A f, g \in Fds, e, d \in Events :
         context[f][e] # None /\ context[f][e] = context[g][d] => f = g /\ e = d
    /\ \A w \in Waiters :
         task[w] = "waiting" => \E f \in Fds, e \in Events : context[f][e] = w

(* No lost wake-up under edge triggering: when an fd is ready for an event *)
(* that has a waiter, epoll has it listed or a poller holds a report that  *)
(* will trigger the event.                                                 *)
NoLostWakeup ==
    \A f \in Fds, e \in Events :
        context[f][e] # None /\ ready[f] \cap {e, HUP} # {} =>
            f \in rdllist \/ \E p \in Pollers : batch[p][f] \cap {e, HUP} # {}

(* Once the peer has hung up, every waiter of the fd is woken              *)
(* (iomanager.cc:427-434).                                                 *)
HangUpWakes ==
    \A f \in Fds : \A e \in Uses[f] :
        context[f][e] # None /\ HUP \in ready[f] ~> context[f][e] = None \/ aborted
=============================================================================
