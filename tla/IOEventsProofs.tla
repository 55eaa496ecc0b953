--------------------------- MODULE IOEventsProofs ---------------------------
(***************************************************************************)
(* Proofs about IOEvents, for every set of fds, waiters and pollers: no    *)
(* waiter is ever disarmed or lost, an application that keeps to one kind  *)
(* of event per fd never aborts, and the count of pending events is exact  *)
(* when it keeps to one kind where it calls delEvent().                    *)
(***************************************************************************)
EXTENDS IOEvents, FiniteSetTheorems, TLAPS

Types ==
    /\ events \in [Fds -> SUBSET Events]
    /\ context \in [Fds -> [Events -> Waiters \cup {None}]]
    /\ task \in [Waiters -> {"free", "waiting"}]
    /\ batch \in [Pollers -> [Fds -> SUBSET (Events \cup {HUP})]]
    /\ interest \in [Fds -> SUBSET Events]
    /\ ready \in [Fds -> SUBSET (Events \cup {HUP})]
    /\ rdllist \subseteq Fds

(* The parts of WaitersArmed: a waiter in a context is waiting and watched  *)
(* by epoll, sits nowhere else, and whoever waits sits in a context.        *)
Watched ==
    \A f \in Fds, e \in Events :
        context[f][e] # None =>
            task[context[f][e]] = "waiting" /\ e \in events[f] /\ e \in interest[f]
Unique ==
    \A f, g \in Fds, e, d \in Events :
        context[f][e] # None /\ context[f][e] = context[g][d] => f = g /\ e = d
Placed ==
    \A w \in Waiters :
        task[w] = "waiting" => \E f \in Fds, e \in Events : context[f][e] = w

ArmedInv == Types /\ Watched /\ Unique /\ Placed

(* What the actions on an FdContext change, in one form: the waiters of es  *)
(* leave the contexts of f, and only left stays in epoll.                   *)
Removed(f, es) ==
    /\ context' = [context EXCEPT ![f] = [e \in Events |-> IF e \in es THEN None ELSE context[f][e]]]
    /\ task' = [w \in Waiters |-> IF \E e \in es : context[f][e] = w THEN "free" ELSE task[w]]
    /\ interest' = [interest EXCEPT ![f] = events[f] \ es]
    /\ rdllist' = IF events[f] \ es # {}
                  THEN IF ready[f] \cap ((events[f] \ es) \cup {HUP}) # {}
                       THEN rdllist \cup {f} ELSE rdllist
                  ELSE rdllist \ {f}

LEMMA HupNoEvent == HUP \notin Events
BY DEF HUP, Events, READ, WRITE

LEMMA ArmedInit == Init => ArmedInv
BY IOEventsAssumption DEF Init, ArmedInv, Types, Watched, Unique, Placed

LEMMA ArmedSame ==
    ArmedInv /\ UNCHANGED <<events, context, task, batch, interest, ready, rdllist>>
        => ArmedInv'
BY DEF ArmedInv, Types, Watched, Unique, Placed

(* Removing waiters of one fd keeps the invariant. *)
LEMMA ArmedRemoved ==
    ASSUME ArmedInv,
           NEW f \in Fds, NEW es \in SUBSET Events,
           Removed(f, es),
           events' = events \/ events' = [events EXCEPT ![f] = @ \ es],
           batch' \in [Pollers -> [Fds -> SUBSET (Events \cup {HUP})]],
           ready' = ready
    PROVE  ArmedInv'
<1> USE DEF ArmedInv
<1>1. Types'
  <2>1. /\ context' \in [Fds -> [Events -> Waiters \cup {None}]]
        /\ task' \in [Waiters -> {"free", "waiting"}]
        /\ interest' \in [Fds -> SUBSET Events]
        /\ rdllist' \subseteq Fds
    BY DEF Types, Removed
  <2>2. events' \in [Fds -> SUBSET Events]
    BY ZenonT(30) DEF Types
  <2>3. QED
    BY <2>1, <2>2 DEF Types
<1>2. ASSUME NEW g \in Fds, NEW d \in Events, context'[g][d] # None
      PROVE  /\ context'[g][d] = context[g][d]
             /\ g # f \/ d \notin es
  BY <1>2 DEF Types, Removed
<1>3. Watched'
  <2> SUFFICES ASSUME NEW g \in Fds, NEW d \in Events, context'[g][d] # None
               PROVE  /\ task'[context'[g][d]] = "waiting"
                      /\ d \in events'[g] /\ d \in interest'[g]
    BY DEF Watched
  <2>1. context'[g][d] = context[g][d] /\ (g # f \/ d \notin es)
    BY <1>2
  <2>2. /\ context[g][d] \in Waiters /\ task[context[g][d]] = "waiting"
        /\ d \in events[g] /\ d \in interest[g]
    BY <2>1 DEF Watched, Types
  <2>3. d \in events'[g] /\ d \in interest'[g]
    BY <2>1, <2>2 DEF Types, Removed
  <2>4. ~ \E e \in es : context[f][e] = context[g][d]
    BY <2>1, <2>2, IOEventsAssumption DEF Unique
  <2>5. QED
    BY <2>1, <2>2, <2>3, <2>4 DEF Removed
<1>4. Unique'
  BY <1>2 DEF Unique
<1>5. Placed'
  <2> SUFFICES ASSUME NEW w \in Waiters, task'[w] = "waiting"
               PROVE  \E g \in Fds, d \in Events : context'[g][d] = w
    BY DEF Placed
  <2>1. task[w] = "waiting" /\ ~ \E e \in es : context[f][e] = w
    BY DEF Removed
  <2>2. PICK g \in Fds, d \in Events : context[g][d] = w
    BY <2>1 DEF Placed
  <2>3. context'[g][d] = w
    BY <2>1, <2>2 DEF Types, Removed
  <2>4. QED
    BY <2>3
<1>6. QED
  BY <1>1, <1>3, <1>4, <1>5

-----------------------------------------------------------------------------
(* The actions that remove waiters are Removed *)

LEMMA LeftIsRemoved ==
    ASSUME Types, NEW f \in Fds, NEW es \in SUBSET Events,
           epoll_ctl_left(f, events[f] \ es)
    PROVE  /\ interest' = [interest EXCEPT ![f] = events[f] \ es]
           /\ rdllist' = IF events[f] \ es # {}
                         THEN IF ready[f] \cap ((events[f] \ es) \cup {HUP}) # {}
                              THEN rdllist \cup {f} ELSE rdllist
                         ELSE rdllist \ {f}
BY DEF epoll_ctl_left, epoll_ctl_set, epoll_ctl_del

LEMMA TriggerIsRemoved ==
    ASSUME Types, NEW f \in Fds, NEW es \in SUBSET Events,
           triggerEvent(f, es), epoll_ctl_left(f, events[f] \ es)
    PROVE  Removed(f, es) /\ events' = [events EXCEPT ![f] = @ \ es]
<1>1. events' = [events EXCEPT ![f] = @ \ es]
  BY DEF triggerEvent, BitsCleared
<1>2. /\ context' = [context EXCEPT ![f] = [e \in Events |-> IF e \in es THEN None ELSE context[f][e]]]
      /\ task' = [w \in Waiters |-> IF \E e \in es : context[f][e] = w THEN "free" ELSE task[w]]
  BY DEF triggerEvent, Types
<1>3. QED
  BY <1>1, <1>2, LeftIsRemoved DEF Removed

LEMMA DelIsRemoved ==
    ASSUME Types, NEW f \in Fds, NEW e \in Events, delEvent(f, e)
    PROVE  Removed(f, {e})
<1>1. context' = [context EXCEPT ![f] = [d \in Events |-> IF d \in {e} THEN None ELSE context[f][d]]]
  BY DEF delEvent, Types
<1>2. task' = [w \in Waiters |-> IF \E d \in {e} : context[f][d] = w THEN "free" ELSE task[w]]
  BY DEF delEvent
<1>3. epoll_ctl_left(f, events[f] \ {e})
  BY DEF delEvent
<1>4. /\ interest' = [interest EXCEPT ![f] = events[f] \ {e}]
      /\ rdllist' = IF events[f] \ {e} # {}
                    THEN IF ready[f] \cap ((events[f] \ {e}) \cup {HUP}) # {}
                         THEN rdllist \cup {f} ELSE rdllist
                    ELSE rdllist \ {f}
  BY <1>3 DEF epoll_ctl_left, epoll_ctl_set, epoll_ctl_del
<1>5. QED
  BY <1>1, <1>2, <1>4 DEF Removed

LEMMA CancelIsRemoved ==
    ASSUME Types, NEW f \in Fds, NEW e \in Events, cancelEvent(f, e)
    PROVE  \/ Abort
           \/ /\ Removed(f, {e}) /\ events' = [events EXCEPT ![f] = @ \ {e}]
              /\ UNCHANGED <<batch, ready, aborted>>
BY TriggerIsRemoved DEF cancelEvent

LEMMA CancelAllIsRemoved ==
    ASSUME Types, NEW f \in Fds, cancelAll(f)
    PROVE  \/ Abort
           \/ /\ Removed(f, events[f]) /\ events' = [events EXCEPT ![f] = @ \ events[f]]
              /\ UNCHANGED <<batch, ready, aborted>>
<1>1. events[f] \in SUBSET Events
  BY DEF Types
<1>2. epoll_ctl_del(f) => epoll_ctl_left(f, events[f] \ events[f])
  BY DEF epoll_ctl_left
<1>3. QED
  BY <1>1, <1>2, TriggerIsRemoved DEF cancelAll

(* A handled report does nothing to the waiters, aborts, or removes the     *)
(* waiters of the events it stands for.                                     *)
LEMMA HandleIsRemoved ==
    ASSUME Types, NEW p \in Pollers, NEW f \in Fds, HandleEvent(p, f)
    PROVE  LET real == RealEvents(f, batch[p][f])
           IN  \/ Abort
               \/ /\ events[f] \cap real = {} \/ interest[f] = {}
                  /\ batch' = [batch EXCEPT ![p][f] = {}]
                  /\ UNCHANGED <<events, context, task, interest, ready, rdllist, aborted>>
               \/ /\ Removed(f, real) /\ events' = [events EXCEPT ![f] = @ \ real]
                  /\ batch' = [batch EXCEPT ![p][f] = {}]
                  /\ UNCHANGED <<ready, aborted>>
<1>1. RealEvents(f, batch[p][f]) \in SUBSET Events
  BY DEF Types, RealEvents
<1>2. QED
  BY <1>1, TriggerIsRemoved DEF HandleEvent, appVars, kernelVars

LEMMA AbortSame ==
    Abort => UNCHANGED <<events, context, task, batch, interest, ready, rdllist>>
BY DEF Abort, appVars

-----------------------------------------------------------------------------
(* The step of ArmedInv *)

LEMMA ArmedAdd ==
    ASSUME ArmedInv, NEW w \in Waiters, NEW f \in Fds, NEW e \in Events, addEvent(w, f, e)
    PROVE  ArmedInv'
<1> USE DEF ArmedInv
<1>1. CASE Abort
  BY <1>1, AbortSame, ArmedSame
<1>2. CASE ~Abort
  <2>1. /\ task[w] = "free" /\ context[f][e] = None
        /\ interest' = [interest EXCEPT ![f] = events[f] \cup {e}]
        /\ rdllist' \subseteq rdllist \cup {f}
        /\ events' = [events EXCEPT ![f] = @ \cup {e}]
        /\ context' = [context EXCEPT ![f][e] = w]
        /\ task' = [task EXCEPT ![w] = "waiting"]
        /\ UNCHANGED <<batch, ready>>
    BY <1>2 DEF addEvent, epoll_ctl_set
  <2>2. Types'
    BY <2>1 DEF Types
  <2>3. \A g \in Fds, d \in Events :
           context'[g][d] = IF g = f /\ d = e THEN w ELSE context[g][d]
    BY <2>1 DEF Types
  <2>4. \A g \in Fds, d \in Events : context[g][d] # w
    BY <2>1, IOEventsAssumption DEF Watched
  <2>5. Watched'
    BY <2>1, <2>3, <2>4 DEF Watched, Types
  <2>6. Unique'
    BY <2>3, <2>4 DEF Unique
  <2>7. Placed'
    <3> SUFFICES ASSUME NEW v \in Waiters, task'[v] = "waiting"
                 PROVE  \E g \in Fds, d \in Events : context'[g][d] = v
      BY DEF Placed
    <3>1. CASE v = w
      BY <2>3, <3>1
    <3>2. CASE v # w
      <4>1. PICK g \in Fds, d \in Events : context[g][d] = v
        BY <2>1, <3>2 DEF Placed, Types
      <4>2. context'[g][d] = v
        BY <2>1, <2>3, <4>1, IOEventsAssumption
      <4>3. QED
        BY <4>2
    <3>3. QED
      BY <3>1, <3>2
  <2>8. QED
    BY <2>2, <2>5, <2>6, <2>7
<1>3. QED
  BY <1>1, <1>2

LEMMA ArmedStep == ArmedInv /\ [Next]_vars => ArmedInv'
<1> SUFFICES ASSUME ArmedInv, [Next]_vars
             PROVE  ArmedInv'
  OBVIOUS
<1>t. Types /\ \A f \in Fds : Uses[f] \subseteq Events
  BY IOEventsAssumption DEF ArmedInv
<1>1. CASE UNCHANGED vars
  BY <1>1, ArmedSame DEF vars
<1>2. ASSUME NEW w \in Waiters, NEW f \in Fds, NEW e \in Uses[f],
             context[f][e] = None, addEvent(w, f, e)
      PROVE  ArmedInv'
  BY <1>2, <1>t, ArmedAdd
<1>3. ASSUME NEW f \in Fds, NEW e \in Uses[f], delEvent(f, e)
      PROVE  ArmedInv'
  <2>1. Removed(f, {e}) /\ UNCHANGED <<events, batch, ready>>
    BY <1>3, <1>t, DelIsRemoved DEF delEvent
  <2>2. QED
    BY <1>t, <2>1, ArmedRemoved DEF Types
<1>4. ASSUME NEW f \in Fds, NEW e \in Uses[f], cancelEvent(f, e)
      PROVE  ArmedInv'
  <2>1. CASE Abort
    BY <2>1, AbortSame, ArmedSame
  <2>2. CASE ~Abort
    <3>1. /\ Removed(f, {e}) /\ events' = [events EXCEPT ![f] = @ \ {e}]
          /\ UNCHANGED <<batch, ready>>
      BY <1>4, <1>t, <2>2, CancelIsRemoved
    <3>2. QED
      BY <1>t, <3>1, ArmedRemoved DEF Types
  <2>3. QED
    BY <2>1, <2>2
<1>5. ASSUME NEW f \in Fds, cancelAll(f)
      PROVE  ArmedInv'
  <2>1. CASE Abort
    BY <2>1, AbortSame, ArmedSame
  <2>2. CASE ~Abort
    <3>1. /\ Removed(f, events[f]) /\ events' = [events EXCEPT ![f] = @ \ events[f]]
          /\ UNCHANGED <<batch, ready>>
      BY <1>5, <1>t, <2>2, CancelAllIsRemoved
    <3>2. PICK es \in SUBSET Events : es = events[f]
      BY <1>t DEF Types
    <3>3. Removed(f, es)
      BY <3>1, <3>2 DEF Removed
    <3>4. QED
      BY <1>t, <3>1, <3>2, <3>3, ArmedRemoved DEF Types
  <2>3. QED
    BY <2>1, <2>2
<1>6. ASSUME NEW f \in Fds, NEW x \in Uses[f] \cup {HUP}, Edge(f, x)
      PROVE  ArmedInv'
  <2>1. Types'
    BY <1>6, <1>t DEF Edge, Types, appVars
  <2>2. QED
    BY <1>6, <2>1 DEF Edge, appVars, ArmedInv, Watched, Unique, Placed
<1>7. ASSUME NEW f \in Fds, NEW e \in Uses[f], Drain(f, e)
      PROVE  ArmedInv'
  <2>1. Types'
    BY <1>7, <1>t DEF Drain, Types, appVars, kernelVars
  <2>2. QED
    BY <1>7, <2>1 DEF Drain, appVars, kernelVars, ArmedInv, Watched, Unique, Placed
<1>8. ASSUME NEW p \in Pollers, epoll_wait(p)
      PROVE  ArmedInv'
  <2>1. Types'
    BY <1>8, <1>t DEF epoll_wait, Types, appVars
  <2>2. QED
    BY <1>8, <2>1 DEF epoll_wait, appVars, ArmedInv, Watched, Unique, Placed
<1>9. ASSUME NEW p \in Pollers, NEW f \in Fds, HandleEvent(p, f)
      PROVE  ArmedInv'
  <2>1. CASE Abort
    BY <2>1, AbortSame, ArmedSame
  <2>2. CASE /\ batch' = [batch EXCEPT ![p][f] = {}]
             /\ UNCHANGED <<events, context, task, interest, ready, rdllist>>
    <3>1. Types'
      BY <1>t, <2>2 DEF Types
    <3>2. QED
      BY <2>2, <3>1 DEF ArmedInv, Watched, Unique, Placed
  <2>3. CASE /\ Removed(f, RealEvents(f, batch[p][f]))
             /\ events' = [events EXCEPT ![f] = @ \ RealEvents(f, batch[p][f])]
             /\ batch' = [batch EXCEPT ![p][f] = {}]
             /\ UNCHANGED <<ready, aborted>>
    <3>1. PICK es \in SUBSET Events : es = RealEvents(f, batch[p][f])
      BY <1>t DEF Types, RealEvents
    <3>2. Removed(f, es) /\ events' = [events EXCEPT ![f] = @ \ es]
      BY <2>3, <3>1 DEF Removed
    <3>3. batch' \in [Pollers -> [Fds -> SUBSET (Events \cup {HUP})]]
      BY <1>t, <2>3 DEF Types
    <3>4. QED
      BY <2>3, <3>2, <3>3, ArmedRemoved
  <2>4. QED
    BY <1>9, <1>t, <2>1, <2>2, <2>3, HandleIsRemoved
<1>10. QED
  BY <1>1, <1>2, <1>3, <1>4, <1>5, <1>6, <1>7, <1>8, <1>9, IOEventsAssumption
     DEF Next, AppNext, KernelNext, PollNext

(* WaitersArmed: a waiter is in one EventContext, has not been scheduled    *)
(* while it is there, and epoll watches its event, whatever the pollers and *)
(* the cancellations do.                                                    *)
THEOREM WaitersStayArmed == Spec => []WaitersArmed
<1>1. Spec => []ArmedInv
  BY ArmedInit, ArmedStep, PTL DEF Spec
<1>2. ArmedInv => WaitersArmed
  BY DEF ArmedInv, WaitersArmed, Watched, Unique, Placed
<1>3. QED
  BY <1>1, <1>2, PTL

-----------------------------------------------------------------------------
(* No edge is lost *)

LEMMA LostInit == Init => NoLostWakeup
BY DEF Init, NoLostWakeup

(* Removing waiters of f keeps the others coming: MOD lists f when it is    *)
(* ready for what is left.                                                  *)
LEMMA LostRemoved ==
    ASSUME ArmedInv, NoLostWakeup,
           NEW f \in Fds, NEW es \in SUBSET Events,
           Removed(f, es),
           ready' = ready,
           batch' \in [Pollers -> [Fds -> SUBSET (Events \cup {HUP})]],
           \A q \in Pollers, g \in Fds : g # f => batch'[q][g] = batch[q][g]
    PROVE  NoLostWakeup'
<1> SUFFICES ASSUME NEW g \in Fds, NEW d \in Events,
                    context'[g][d] # None, ready'[g] \cap {d, HUP} # {}
             PROVE  g \in rdllist' \/ \E p \in Pollers : batch'[p][g] \cap {d, HUP} # {}
  BY DEF NoLostWakeup
<1>1. CASE g = f
  <2>1. d \notin es /\ context[f][d] # None
    BY <1>1 DEF Removed, ArmedInv, Types
  <2>2. d \in events[f] \ es
    BY <2>1 DEF ArmedInv, Watched
  <2>3. f \in rdllist'
    BY <1>1, <2>2 DEF Removed
  <2>4. QED
    BY <1>1, <2>3
<1>2. CASE g # f
  <2>1. context[g][d] # None /\ ready[g] \cap {d, HUP} # {}
    BY <1>2 DEF Removed, ArmedInv, Types
  <2>2. g \in rdllist \/ \E p \in Pollers : batch[p][g] \cap {d, HUP} # {}
    BY <2>1 DEF NoLostWakeup
  <2>3. g \in rdllist => g \in rdllist'
    BY <1>2 DEF Removed
  <2>4. QED
    BY <1>2, <2>2, <2>3
<1>3. QED
  BY <1>1, <1>2

LEMMA LostSame ==
    NoLostWakeup /\ UNCHANGED <<context, batch, ready, rdllist>> => NoLostWakeup'
BY DEF NoLostWakeup

LEMMA LostStep == ArmedInv /\ NoLostWakeup /\ [Next]_vars => NoLostWakeup'
<1> SUFFICES ASSUME ArmedInv, NoLostWakeup, [Next]_vars
             PROVE  NoLostWakeup'
  OBVIOUS
<1>t. Types /\ \A f \in Fds : Uses[f] \subseteq Events
  BY IOEventsAssumption DEF ArmedInv
<1>1. CASE UNCHANGED vars
  BY <1>1, LostSame DEF vars
<1>2. ASSUME NEW w \in Waiters, NEW f \in Fds, NEW e \in Uses[f],
             context[f][e] = None, addEvent(w, f, e)
      PROVE  NoLostWakeup'
  <2>1. CASE Abort
    BY <2>1, AbortSame, LostSame
  <2>2. CASE ~Abort
    <3>1. /\ rdllist' = IF ready[f] \cap ((events[f] \cup {e}) \cup {HUP}) # {}
                        THEN rdllist \cup {f} ELSE rdllist
          /\ context' = [context EXCEPT ![f][e] = w]
          /\ UNCHANGED <<batch, ready>>
      BY <1>2, <2>2 DEF addEvent, epoll_ctl_set
    <3> SUFFICES ASSUME NEW g \in Fds, NEW d \in Events,
                        context'[g][d] # None, ready'[g] \cap {d, HUP} # {}
                 PROVE  g \in rdllist' \/ \E p \in Pollers : batch'[p][g] \cap {d, HUP} # {}
      BY DEF NoLostWakeup
    <3>2. CASE g = f
      <4>1. d = e \/ d \in events[f]
        BY <3>1, <3>2, <1>t DEF Types, ArmedInv, Watched
      <4>2. QED
        BY <3>1, <3>2, <4>1
    <3>3. CASE g # f
      <4>1. context[g][d] # None
        BY <3>1, <3>3, <1>t DEF Types
      <4>2. QED
        BY <3>1, <4>1 DEF NoLostWakeup
    <3>4. QED
      BY <3>2, <3>3
  <2>3. QED
    BY <2>1, <2>2
<1>3. ASSUME NEW f \in Fds, NEW e \in Uses[f], delEvent(f, e)
      PROVE  NoLostWakeup'
  <2>1. Removed(f, {e}) /\ UNCHANGED <<batch, ready>>
    BY <1>3, <1>t, DelIsRemoved DEF delEvent
  <2>2. QED
    BY <1>t, <2>1, LostRemoved DEF Types
<1>4. ASSUME NEW f \in Fds, NEW e \in Uses[f], cancelEvent(f, e)
      PROVE  NoLostWakeup'
  <2>1. CASE Abort
    BY <2>1, AbortSame, LostSame
  <2>2. CASE ~Abort
    <3>1. Removed(f, {e}) /\ UNCHANGED <<batch, ready>>
      BY <1>4, <1>t, <2>2, CancelIsRemoved
    <3>2. QED
      BY <1>t, <3>1, LostRemoved DEF Types
  <2>3. QED
    BY <2>1, <2>2
<1>5. ASSUME NEW f \in Fds, cancelAll(f)
      PROVE  NoLostWakeup'
  <2>1. CASE Abort
    BY <2>1, AbortSame, LostSame
  <2>2. CASE ~Abort
    <3>1. Removed(f, events[f]) /\ UNCHANGED <<batch, ready>>
      BY <1>5, <1>t, <2>2, CancelAllIsRemoved
    <3>2. PICK es \in SUBSET Events : es = events[f]
      BY <1>t DEF Types
    <3>3. Removed(f, es)
      BY <3>1, <3>2 DEF Removed
    <3>4. QED
      BY <1>t, <3>1, <3>3, LostRemoved DEF Types
  <2>3. QED
    BY <2>1, <2>2
<1>6. ASSUME NEW f \in Fds, NEW x \in Uses[f] \cup {HUP}, Edge(f, x)
      PROVE  NoLostWakeup'
  <2> SUFFICES ASSUME NEW g \in Fds, NEW d \in Events,
                      context'[g][d] # None, ready'[g] \cap {d, HUP} # {}
               PROVE  g \in rdllist' \/ \E p \in Pollers : batch'[p][g] \cap {d, HUP} # {}
    BY DEF NoLostWakeup
  <2>1. context[g][d] # None /\ d \in interest[g]
    BY <1>6 DEF Edge, appVars, ArmedInv, Watched
  <2>2. CASE g = f /\ x \in {d, HUP}
    BY <1>6, <2>1, <2>2 DEF Edge
  <2>3. CASE ~(g = f /\ x \in {d, HUP})
    <3>1. ready[g] \cap {d, HUP} # {}
      BY <1>6, <2>3, <1>t DEF Edge, Types
    <3>2. QED
      BY <1>6, <2>1, <3>1 DEF Edge, NoLostWakeup
  <2>4. QED
    BY <2>2, <2>3
<1>7. ASSUME NEW f \in Fds, NEW e \in Uses[f], Drain(f, e)
      PROVE  NoLostWakeup'
  <2>1. \A g \in Fds : ready'[g] \subseteq ready[g]
    BY <1>7, <1>t DEF Drain, Types
  <2>2. QED
    BY <1>7, <2>1 DEF Drain, appVars, kernelVars, NoLostWakeup
<1>8. ASSUME NEW p \in Pollers, epoll_wait(p)
      PROVE  NoLostWakeup'
  <2> SUFFICES ASSUME NEW g \in Fds, NEW d \in Events,
                      context'[g][d] # None, ready'[g] \cap {d, HUP} # {}
               PROVE  \E q \in Pollers : batch'[q][g] \cap {d, HUP} # {}
    BY DEF NoLostWakeup
  <2>1. /\ context[g][d] # None /\ d \in interest[g] /\ interest[g] # {}
        /\ ready[g] \cap {d, HUP} # {}
    BY <1>8 DEF epoll_wait, appVars, ArmedInv, Watched
  <2>2. CASE g \in rdllist
    <3>1. batch'[p][g] = ready[g] \cap (interest[g] \cup {HUP})
      BY <1>8, <1>t, <2>1, <2>2 DEF epoll_wait, Types
    <3>2. QED
      BY <2>1, <3>1
  <2>3. CASE g \notin rdllist
    <3>1. PICK q \in Pollers : batch[q][g] \cap {d, HUP} # {}
      BY <2>1, <2>3 DEF NoLostWakeup
    <3>2. q # p
      BY <1>8, <3>1 DEF epoll_wait
    <3>3. batch'[q][g] = batch[q][g]
      BY <1>8, <1>t, <3>2 DEF epoll_wait, Types
    <3>4. QED
      BY <3>1, <3>3
  <2>4. QED
    BY <2>2, <2>3
<1>9. ASSUME NEW p \in Pollers, NEW f \in Fds, HandleEvent(p, f)
      PROVE  NoLostWakeup'
  <2>1. CASE Abort
    BY <2>1, AbortSame, LostSame
  <2>2. CASE /\ events[f] \cap RealEvents(f, batch[p][f]) = {} \/ interest[f] = {}
             /\ batch' = [batch EXCEPT ![p][f] = {}]
             /\ UNCHANGED <<events, context, task, interest, ready, rdllist, aborted>>
    <3> SUFFICES ASSUME NEW g \in Fds, NEW d \in Events,
                        context[g][d] # None, ready[g] \cap {d, HUP} # {}
                 PROVE  g \in rdllist \/ \E q \in Pollers : batch'[q][g] \cap {d, HUP} # {}
      BY <2>2 DEF NoLostWakeup
    <3>1. CASE g \in rdllist
      BY <3>1
    <3>2. CASE g \notin rdllist
      <4>1. PICK q \in Pollers : batch[q][g] \cap {d, HUP} # {}
        BY <3>2 DEF NoLostWakeup
      <4>2. d \in events[g] /\ d \in interest[g]
        BY DEF ArmedInv, Watched
      <4>3. ~(q = p /\ g = f)
        BY <2>2, <4>1, <4>2 DEF RealEvents
      <4>4. batch'[q][g] = batch[q][g]
        BY <2>2, <4>3, <1>t DEF Types
      <4>5. QED
        BY <4>1, <4>4
    <3>3. QED
      BY <3>1, <3>2
  <2>3. CASE /\ Removed(f, RealEvents(f, batch[p][f]))
             /\ events' = [events EXCEPT ![f] = @ \ RealEvents(f, batch[p][f])]
             /\ batch' = [batch EXCEPT ![p][f] = {}]
             /\ UNCHANGED <<ready, aborted>>
    <3>1. PICK es \in SUBSET Events : es = RealEvents(f, batch[p][f])
      BY <1>t DEF Types, RealEvents
    <3>2. Removed(f, es)
      BY <2>3, <3>1 DEF Removed
    <3>3. /\ batch' \in [Pollers -> [Fds -> SUBSET (Events \cup {HUP})]]
          /\ \A q \in Pollers, g \in Fds : g # f => batch'[q][g] = batch[q][g]
      BY <1>t, <2>3 DEF Types
    <3>4. QED
      BY <2>3, <3>2, <3>3, LostRemoved
  <2>4. QED
    BY <1>9, <1>t, <2>1, <2>2, <2>3, HandleIsRemoved
<1>10. QED
  BY <1>1, <1>2, <1>3, <1>4, <1>5, <1>6, <1>7, <1>8, <1>9, IOEventsAssumption
     DEF Next, AppNext, KernelNext, PollNext

(* NoLostWakeup: with edge-triggered epoll, an fd that is ready for an      *)
(* event somebody waits for is listed by epoll or in the hands of a poller  *)
(* whose report triggers that event.                                        *)
THEOREM NoEdgeIsLost == Spec => []NoLostWakeup
<1>1. Spec => []ArmedInv
  BY ArmedInit, ArmedStep, PTL DEF Spec
<1>2. QED
  BY <1>1, LostInit, LostStep, PTL DEF Spec

-----------------------------------------------------------------------------
(* One kind of event per fd *)

(* The application registers one kind of event on each fd and never calls   *)
(* delEvent().                                                              *)
OneKind == Deletable = {} /\ \A f \in Fds : \A d, e \in Uses[f] : d = e

OneKindInv ==
    /\ \A f \in Fds : events[f] \subseteq Uses[f] /\ interest[f] = events[f]
    /\ \A f \in Fds : \A e \in events[f] : context[f][e] # None
    /\ \A p \in Pollers, f \in Fds : batch[p][f] \subseteq Uses[f] \cup {HUP}
    /\ ~aborted

LEMMA OneKindInit == Init => OneKindInv
BY DEF Init, OneKindInv

LEMMA OneKindRemoved ==
    ASSUME Types, OneKindInv, NEW f \in Fds, NEW es \in SUBSET Events, Removed(f, es),
           events' = [events EXCEPT ![f] = @ \ es], ~aborted',
           \A p \in Pollers, g \in Fds : batch'[p][g] \subseteq batch[p][g]
    PROVE  OneKindInv'
<1>1. \A g \in Fds : events'[g] \subseteq Uses[g] /\ interest'[g] = events'[g]
  BY DEF Types, Removed, OneKindInv
<1>2. \A g \in Fds : \A e \in events'[g] : context'[g][e] # None
  BY DEF Types, Removed, OneKindInv
<1>3. \A p \in Pollers, g \in Fds : batch'[p][g] \subseteq Uses[g] \cup {HUP}
  BY DEF OneKindInv
<1>4. QED
  BY <1>1, <1>2, <1>3 DEF OneKindInv

LEMMA OneKindStep == OneKind /\ Types /\ OneKindInv /\ [Next]_vars => OneKindInv'
<1> SUFFICES ASSUME OneKind, Types, OneKindInv, [Next]_vars
             PROVE  OneKindInv'
  OBVIOUS
<1>t. \A f \in Fds : Uses[f] \subseteq Events
  BY IOEventsAssumption
<1>1. CASE UNCHANGED vars
  BY <1>1 DEF vars, OneKindInv
<1>2. ASSUME NEW w \in Waiters, NEW f \in Fds, NEW e \in Uses[f],
             context[f][e] = None, addEvent(w, f, e)
      PROVE  OneKindInv'
  <2>1. e \notin events[f] /\ e \in Events
    BY <1>2, <1>t DEF addEvent, OneKindInv
  <2>2. /\ interest' = [interest EXCEPT ![f] = events[f] \cup {e}]
        /\ events' = [events EXCEPT ![f] = @ \cup {e}]
        /\ context' = [context EXCEPT ![f][e] = w]
        /\ UNCHANGED <<batch, aborted>>
    BY <1>2, <2>1 DEF addEvent, epoll_ctl_set
  <2>3. \A g \in Fds : events'[g] \subseteq Uses[g] /\ interest'[g] = events'[g]
    BY <2>2 DEF OneKindInv, Types
  <2>4. \A g \in Fds : \A d \in events'[g] : context'[g][d] # None
    BY <2>1, <2>2, IOEventsAssumption DEF OneKindInv, Types
  <2>5. QED
    BY <2>2, <2>3, <2>4 DEF OneKindInv
<1>3. ASSUME NEW f \in Fds, NEW e \in Uses[f], delEvent(f, e)
      PROVE  OneKindInv'
  BY <1>3 DEF delEvent, OneKind
<1>4. ASSUME NEW f \in Fds, NEW e \in Uses[f], cancelEvent(f, e)
      PROVE  OneKindInv'
  <2>1. e \in Events /\ {e} \in SUBSET Events /\ Triggerable(f, {e})
    BY <1>4, <1>t DEF cancelEvent, CanRemove, Triggerable, OneKindInv
  <2>2. /\ epoll_ctl_left(f, events[f] \ {e}) /\ triggerEvent(f, {e})
        /\ UNCHANGED <<batch, ready, aborted>>
    BY <1>4, <2>1 DEF cancelEvent
  <2>3. Removed(f, {e}) /\ events' = [events EXCEPT ![f] = @ \ {e}]
    BY <2>1, <2>2, TriggerIsRemoved
  <2>4. QED
    BY <2>1, <2>2, <2>3, OneKindRemoved DEF OneKindInv
<1>5. ASSUME NEW f \in Fds, cancelAll(f)
      PROVE  OneKindInv'
  <2>1. Triggerable(f, events[f])
    BY DEF Triggerable, OneKindInv
  <2>2. PICK es \in SUBSET Events : es = events[f]
    BY DEF Types
  <2>3. /\ epoll_ctl_left(f, events[f] \ es) /\ triggerEvent(f, es)
        /\ UNCHANGED <<batch, ready, aborted>>
    <3>1. epoll_ctl_del(f) /\ triggerEvent(f, events[f]) /\ UNCHANGED <<batch, ready, aborted>>
      BY <1>5, <2>1 DEF cancelAll
    <3>2. QED
      BY <2>2, <3>1 DEF epoll_ctl_left, triggerEvent, BitsCleared, CountDown
  <2>4. Removed(f, es) /\ events' = [events EXCEPT ![f] = @ \ es]
    BY <2>3, TriggerIsRemoved
  <2>5. QED
    BY <2>3, <2>4, OneKindRemoved DEF OneKindInv
<1>6. ASSUME NEW f \in Fds, NEW x \in Uses[f] \cup {HUP}, Edge(f, x)
      PROVE  OneKindInv'
  BY <1>6 DEF Edge, appVars, OneKindInv
<1>7. ASSUME NEW f \in Fds, NEW e \in Uses[f], Drain(f, e)
      PROVE  OneKindInv'
  BY <1>7 DEF Drain, appVars, kernelVars, OneKindInv
<1>8. ASSUME NEW p \in Pollers, epoll_wait(p)
      PROVE  OneKindInv'
  <2>1. \A q \in Pollers, g \in Fds : batch'[q][g] \subseteq Uses[g] \cup {HUP}
    BY <1>8 DEF epoll_wait, OneKindInv, Types
  <2>2. QED
    BY <1>8, <2>1 DEF epoll_wait, appVars, OneKindInv
<1>9. ASSUME NEW p \in Pollers, NEW f \in Fds, HandleEvent(p, f)
      PROVE  OneKindInv'
  <2>1. PICK real \in SUBSET Events : real = RealEvents(f, batch[p][f])
    BY DEF Types, RealEvents
  <2>2. real \subseteq Uses[f]
    BY <2>1, HupNoEvent DEF RealEvents, OneKindInv
  <2>3. \A q \in Pollers, g \in Fds :
           [batch EXCEPT ![p][f] = {}][q][g] \subseteq batch[q][g]
    BY DEF Types
  <2>4. CASE events[f] \cap real = {} \/ interest[f] = {}
    <3>1. /\ batch' = [batch EXCEPT ![p][f] = {}]
          /\ UNCHANGED <<events, context, interest, aborted>>
      BY <1>9, <2>1, <2>4 DEF HandleEvent, appVars, kernelVars
    <3>2. \A q \in Pollers, g \in Fds : batch'[q][g] \subseteq Uses[g] \cup {HUP}
      BY <2>3, <3>1 DEF OneKindInv
    <3>3. QED
      BY <3>1, <3>2 DEF OneKindInv
  <2>5. CASE ~(events[f] \cap real = {} \/ interest[f] = {})
    <3>1. real \subseteq events[f]
      BY <2>2, <2>5 DEF OneKind, OneKindInv
    <3>2. Triggerable(f, real)
      BY <3>1 DEF Triggerable, OneKindInv
    <3>3. /\ batch' = [batch EXCEPT ![p][f] = {}]
          /\ epoll_ctl_left(f, events[f] \ real) /\ triggerEvent(f, real)
          /\ UNCHANGED <<ready, aborted>>
      BY <1>9, <2>1, <2>5, <3>2 DEF HandleEvent
    <3>4. Removed(f, real) /\ events' = [events EXCEPT ![f] = @ \ real]
      BY <3>3, TriggerIsRemoved
    <3>5. QED
      BY <2>3, <3>3, <3>4, OneKindRemoved DEF OneKindInv
  <2>6. QED
    BY <2>4, <2>5
<1>10. QED
  BY <1>1, <1>2, <1>3, <1>4, <1>5, <1>6, <1>7, <1>8, <1>9, IOEventsAssumption
     DEF Next, AppNext, KernelNext, PollNext

(* NeverAborts, for an application that registers one kind of event on each *)
(* fd and never calls delEvent(): however stale the reports, triggerEvent() *)
(* always finds its event registered with a waiter, and addEvent() always   *)
(* finds it free.                                                           *)
THEOREM OneKindNeverAborts == Spec => [](OneKind => NeverAborts)
<1>1. Spec => []ArmedInv
  BY ArmedInit, ArmedStep, PTL DEF Spec
<1>2. ArmedInv => Types
  BY DEF ArmedInv
<1>3. Init => (OneKind => OneKindInv)
  BY OneKindInit
<1>4. Types /\ (OneKind => OneKindInv) /\ [Next]_vars => (OneKind => OneKindInv)'
  BY OneKindStep DEF OneKind
<1>5. (OneKind => OneKindInv) => (OneKind => NeverAborts)
  BY DEF OneKindInv, NeverAborts
<1>6. QED
  BY <1>1, <1>2, <1>3, <1>4, <1>5, PTL DEF Spec

-----------------------------------------------------------------------------
(* The count of pending events *)

(* delEvent() leaves the event's bit set, so on an fd with two kinds of     *)
(* event it can be called again for the event it has deleted, and counts it *)
(* twice.  The application deletes events only on fds of one kind.          *)
DeletesOneKind == \A f \in Deletable : \A d, e \in Uses[f] : d = e

DeletedInv ==
    \A f \in Deletable :
        events[f] \subseteq Uses[f] /\ \A e \in interest[f] : context[f][e] # None

CountInv == PendingExact /\ DeletedInv

(* The EventContexts in use, which PendingExact counts. *)
InUse == {fe \in Fds \X Events : context[fe[1]][fe[2]] # None}

LEMMA EventsFinite == IsFiniteSet(Events) /\ \A es \in SUBSET Events : IsFiniteSet(es)
<1>1. IsFiniteSet({READ}) /\ {READ} \cup {WRITE} = Events
  BY FS_Singleton DEF Events
<1>2. IsFiniteSet(Events)
  BY <1>1, FS_AddElement
<1>3. QED
  BY <1>2, FS_Subset

LEMMA InUseFinite == IsFiniteSet(InUse) /\ Cardinality(InUse) \in Nat
<1>1. IsFiniteSet(Fds \X Events)
  BY EventsFinite, FS_Product, IOEventsAssumption
<1>2. IsFiniteSet(InUse)
  BY <1>1, FS_Subset DEF InUse
<1>3. QED
  BY <1>2, FS_CardinalityType

(* addEvent() fills one more context. *)
LEMMA CountAdd ==
    ASSUME Types, PendingExact, NEW w \in Waiters, NEW f \in Fds, NEW e \in Events,
           context[f][e] = None, context' = [context EXCEPT ![f][e] = w],
           m_pendingEventCount' = m_pendingEventCount + 1
    PROVE  PendingExact'
<1>1. \A g \in Fds, d \in Events :
         context'[g][d] = IF g = f /\ d = e THEN w ELSE context[g][d]
  BY DEF Types
<1>2. InUse' = InUse \cup {<<f, e>>} /\ <<f, e>> \notin InUse
  BY <1>1, IOEventsAssumption DEF InUse
<1>3. Cardinality(InUse') = Cardinality(InUse) + 1
  BY <1>2, InUseFinite, FS_AddElement
<1>4. QED
  BY <1>3 DEF PendingExact, InUse

(* An action that empties contexts in use counts each of them down. *)
LEMMA CountRemoved ==
    ASSUME Types, PendingExact, NEW f \in Fds, NEW es \in SUBSET Events,
           \A e \in es : context[f][e] # None, Removed(f, es),
           m_pendingEventCount' = m_pendingEventCount - Cardinality(es)
    PROVE  PendingExact'
<1>1. \A g \in Fds, d \in Events :
         context'[g][d] = IF g = f /\ d \in es THEN None ELSE context[g][d]
  BY DEF Types, Removed
<1>2. InUse' = InUse \ ({f} \X es) /\ InUse \cap ({f} \X es) = {f} \X es
  BY <1>1 DEF InUse
<1>3. Cardinality({f} \X es) = Cardinality(es)
  <2>1. IsFiniteSet(es) /\ Cardinality(es) \in Nat
    BY EventsFinite, FS_CardinalityType
  <2>2. IsFiniteSet({f}) /\ Cardinality({f}) = 1
    BY FS_Singleton
  <2>3. Cardinality({f} \X es) = Cardinality({f}) * Cardinality(es)
    BY <2>1, <2>2, FS_Product
  <2>4. QED
    BY <2>1, <2>2, <2>3
<1>4. Cardinality(InUse') = Cardinality(InUse) - Cardinality(es)
  <2> DEFINE D == {f} \X es
  <2>1. IsFiniteSet(InUse)
    BY InUseFinite
  <2> HIDE DEF D
  <2>2. Cardinality(InUse \ D) = Cardinality(InUse) - Cardinality(InUse \cap D)
    BY <2>1, FS_Difference
  <2>3. QED
    BY <1>2, <1>3, <2>2 DEF D
<1>5. QED
  BY <1>4 DEF PendingExact, InUse

(* What removes a registered event of a one-kind fd leaves nothing watched. *)
LEMMA DeletedRemoved ==
    ASSUME DeletesOneKind, Types, DeletedInv, NEW f \in Fds, NEW es \in SUBSET Events,
           events[f] \cap es # {}, Removed(f, es),
           events' = events \/ events' = [events EXCEPT ![f] = @ \ es]
    PROVE  DeletedInv'
<1> SUFFICES ASSUME NEW g \in Deletable
             PROVE  /\ events'[g] \subseteq Uses[g]
                    /\ \A e \in interest'[g] : context'[g][e] # None
  BY DEF DeletedInv
<1>1. g \in Fds
  BY IOEventsAssumption
<1>2. events'[g] \subseteq Uses[g]
  BY <1>1 DEF Types, DeletedInv
<1>3. CASE g = f
  <2>1. interest'[f] = events[f] \ es
    BY DEF Types, Removed
  <2>2. events[f] \ es = {}
    BY <1>3 DEF DeletesOneKind, DeletedInv
  <2>3. QED
    BY <1>2, <1>3, <2>1, <2>2
<1>4. CASE g # f
  BY <1>1, <1>2, <1>4 DEF Types, Removed, DeletedInv
<1>5. QED
  BY <1>3, <1>4

LEMMA CountInit == Init => CountInv
<1>1. ASSUME Init
      PROVE  InUse = {}
  BY <1>1 DEF Init, InUse
<1>2. Init => PendingExact
  BY <1>1, FS_EmptySet DEF Init, PendingExact, InUse
<1>3. Init => DeletedInv
  BY IOEventsAssumption DEF Init, DeletedInv
<1>4. QED
  BY <1>2, <1>3 DEF CountInv

LEMMA CountSame ==
    CountInv /\ UNCHANGED <<events, context, m_pendingEventCount, interest>> => CountInv'
BY DEF CountInv, PendingExact, DeletedInv

(* Triggering events that have a waiter keeps the count. *)
LEMMA CountTrigger ==
    ASSUME DeletesOneKind, Types, CountInv, NEW f \in Fds, NEW es \in SUBSET Events,
           events[f] \cap es # {}, Triggerable(f, es),
           triggerEvent(f, es), epoll_ctl_left(f, events[f] \ es)
    PROVE  CountInv'
<1>1. Removed(f, es) /\ events' = [events EXCEPT ![f] = @ \ es]
  BY TriggerIsRemoved
<1>2. m_pendingEventCount' = m_pendingEventCount - Cardinality(es)
  BY DEF triggerEvent, CountDown
<1>3. PendingExact'
  BY <1>1, <1>2, CountRemoved DEF CountInv, Triggerable
<1>4. DeletedInv'
  BY <1>1, DeletedRemoved DEF CountInv
<1>5. QED
  BY <1>3, <1>4 DEF CountInv

LEMMA CountStep == DeletesOneKind /\ ArmedInv /\ CountInv /\ [Next]_vars => CountInv'
<1> SUFFICES ASSUME DeletesOneKind, ArmedInv, CountInv, [Next]_vars
             PROVE  CountInv'
  OBVIOUS
<1>t. Types /\ \A f \in Fds : Uses[f] \subseteq Events
  BY IOEventsAssumption DEF ArmedInv
<1>a. CASE Abort
  BY <1>a, CountSame DEF Abort, appVars
<1>1. CASE UNCHANGED vars
  BY <1>1, CountSame DEF vars
<1>2. ASSUME NEW w \in Waiters, NEW f \in Fds, NEW e \in Uses[f],
             context[f][e] = None, addEvent(w, f, e)
      PROVE  CountInv'
  <2>1. CASE ~Abort
    <3>1. /\ events[f] # {} <=> interest[f] # {}
          /\ interest' = [interest EXCEPT ![f] = events[f] \cup {e}]
          /\ events' = [events EXCEPT ![f] = @ \cup {e}]
          /\ context' = [context EXCEPT ![f][e] = w]
          /\ m_pendingEventCount' = m_pendingEventCount + 1
          /\ e \notin events[f] /\ e \in Events
      BY <1>2, <1>t, <2>1 DEF addEvent, epoll_ctl_set
    <3>2. PendingExact'
      BY <1>2, <1>t, <3>1, CountAdd DEF CountInv
    <3>3. DeletedInv'
      <4> SUFFICES ASSUME NEW g \in Deletable
                   PROVE  /\ events'[g] \subseteq Uses[g]
                          /\ \A d \in interest'[g] : context'[g][d] # None
        BY DEF DeletedInv
      <4>1. g \in Fds
        BY IOEventsAssumption
      <4>2. CASE g = f
        <5>1. events[f] = {}
          BY <3>1, <4>2 DEF DeletesOneKind, DeletedInv, CountInv
        <5>2. interest'[f] = {e} /\ events'[f] = {e} /\ context'[f][e] = w
          BY <1>t, <3>1, <5>1 DEF Types
        <5>3. QED
          BY <4>2, <5>2, IOEventsAssumption
      <4>3. CASE g # f
        BY <1>t, <3>1, <4>1, <4>3 DEF Types, DeletedInv, CountInv
      <4>4. QED
        BY <4>2, <4>3
    <3>4. QED
      BY <3>2, <3>3 DEF CountInv
  <2>2. QED
    BY <1>a, <2>1
<1>3. ASSUME NEW f \in Fds, NEW e \in Uses[f], delEvent(f, e)
      PROVE  CountInv'
  <2>1. /\ Removed(f, {e}) /\ UNCHANGED events
        /\ f \in Deletable /\ e \in events[f] /\ interest[f] # {}
        /\ m_pendingEventCount' = m_pendingEventCount - 1
        /\ {e} \in SUBSET Events
    BY <1>3, <1>t, DelIsRemoved DEF delEvent, CanRemove
  <2>2. context[f][e] # None
    <3>1. PICK d \in interest[f] : context[f][d] # None
      BY <2>1 DEF CountInv, DeletedInv
    <3>2. d \in Events
      BY <1>t DEF Types
    <3>3. d \in Uses[f]
      BY <2>1, <3>1, <3>2 DEF ArmedInv, Watched, CountInv, DeletedInv
    <3>4. QED
      BY <2>1, <3>1, <3>3 DEF DeletesOneKind
  <2>3. Cardinality({e}) = 1
    BY FS_Singleton
  <2>4. PendingExact'
    BY <1>t, <2>1, <2>2, <2>3, CountRemoved DEF CountInv
  <2>5. DeletedInv'
    BY <1>t, <2>1, DeletedRemoved DEF CountInv
  <2>6. QED
    BY <2>4, <2>5 DEF CountInv
<1>4. ASSUME NEW f \in Fds, NEW e \in Uses[f], cancelEvent(f, e)
      PROVE  CountInv'
  <2>1. CASE ~Abort
    <3>1. /\ {e} \in SUBSET Events /\ events[f] \cap {e} # {} /\ Triggerable(f, {e})
          /\ triggerEvent(f, {e}) /\ epoll_ctl_left(f, events[f] \ {e})
      BY <1>4, <1>t, <2>1 DEF cancelEvent, CanRemove
    <3>2. QED
      BY <1>t, <3>1, CountTrigger
  <2>2. QED
    BY <1>a, <2>1
<1>5. ASSUME NEW f \in Fds, cancelAll(f)
      PROVE  CountInv'
  <2>1. CASE ~Abort
    <3>1. PICK es \in SUBSET Events : es = events[f]
      BY <1>t DEF Types
    <3>2. /\ events[f] # {} /\ Triggerable(f, events[f])
          /\ triggerEvent(f, events[f]) /\ epoll_ctl_del(f)
      BY <1>5, <2>1 DEF cancelAll
    <3>3. /\ events[f] \cap es # {} /\ Triggerable(f, es)
          /\ triggerEvent(f, es) /\ epoll_ctl_left(f, events[f] \ es)
      BY <3>1, <3>2 DEF epoll_ctl_left
    <3>4. QED
      BY <1>t, <3>3, CountTrigger
  <2>2. QED
    BY <1>a, <2>1
<1>6. ASSUME NEW f \in Fds, NEW x \in Uses[f] \cup {HUP}, Edge(f, x)
      PROVE  CountInv'
  BY <1>6, CountSame DEF Edge, appVars
<1>7. ASSUME NEW f \in Fds, NEW e \in Uses[f], Drain(f, e)
      PROVE  CountInv'
  BY <1>7, CountSame DEF Drain, appVars, kernelVars
<1>8. ASSUME NEW p \in Pollers, epoll_wait(p)
      PROVE  CountInv'
  BY <1>8, CountSame DEF epoll_wait, appVars
<1>9. ASSUME NEW p \in Pollers, NEW f \in Fds, HandleEvent(p, f)
      PROVE  CountInv'
  <2>1. PICK real \in SUBSET Events : real = RealEvents(f, batch[p][f])
    BY <1>t DEF Types, RealEvents
  <2>2. CASE events[f] \cap real = {} \/ interest[f] = {}
    BY <1>9, <2>1, <2>2, CountSame DEF HandleEvent, appVars, kernelVars
  <2>3. CASE ~(events[f] \cap real = {} \/ interest[f] = {}) /\ ~Abort
    <3>1. /\ Triggerable(f, real)
          /\ triggerEvent(f, real) /\ epoll_ctl_left(f, events[f] \ real)
      BY <1>9, <2>1, <2>3 DEF HandleEvent
    <3>2. QED
      BY <1>t, <2>3, <3>1, CountTrigger
  <2>4. QED
    BY <1>a, <2>2, <2>3
<1>10. QED
  BY <1>1, <1>2, <1>3, <1>4, <1>5, <1>6, <1>7, <1>8, <1>9, IOEventsAssumption
     DEF Next, AppNext, KernelNext, PollNext

LEMMA CountAlways == Spec => [](DeletesOneKind => CountInv)
<1>1. Spec => []ArmedInv
  BY ArmedInit, ArmedStep, PTL DEF Spec
<1>2. Init => (DeletesOneKind => CountInv)
  BY CountInit
<1>3. ArmedInv /\ (DeletesOneKind => CountInv) /\ [Next]_vars => (DeletesOneKind => CountInv)'
  BY CountStep DEF DeletesOneKind
<1>4. QED
  BY <1>1, <1>2, <1>3, PTL DEF Spec

(* PendingExact: m_pendingEventCount, which stopping() compares with 0, is  *)
(* the number of fibers and callbacks in EventContexts, if delEvent() is    *)
(* called only on fds with one kind of event.  Reports that find their      *)
(* events gone, and cancellations that race with them, never count an event *)
(* twice.                                                                   *)
THEOREM PendingCountExact == Spec => [](DeletesOneKind => PendingExact)
<1>1. (DeletesOneKind => CountInv) => (DeletesOneKind => PendingExact)
  BY DEF CountInv
<1>2. QED
  BY <1>1, CountAlways, PTL

AbortedType == aborted \in BOOLEAN

LEMMA AbortedStep == AbortedType /\ [Next]_vars => AbortedType'
BY DEF AbortedType, Next, AppNext, KernelNext, PollNext, vars, Abort, addEvent, delEvent,
       cancelEvent, cancelAll, Edge, Drain, epoll_wait, HandleEvent

(* TypeOK, under the same condition: m_pendingEventCount, a size_t in the   *)
(* code, never goes below zero.                                             *)
THEOREM IOEventsTypeCorrect == Spec => [](DeletesOneKind => TypeOK)
<1>1. Spec => []ArmedInv
  BY ArmedInit, ArmedStep, PTL DEF Spec
<1>2. Init => AbortedType
  BY DEF Init, AbortedType
<1>3. Spec => []AbortedType
  BY <1>2, AbortedStep, PTL DEF Spec
<1>4. ArmedInv /\ AbortedType /\ (DeletesOneKind => CountInv) => (DeletesOneKind => TypeOK)
  BY InUseFinite DEF ArmedInv, Types, AbortedType, CountInv, PendingExact, InUse, TypeOK
<1>5. QED
  BY <1>1, <1>3, <1>4, CountAlways, PTL

=============================================================================
