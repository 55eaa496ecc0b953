----------------------------- MODULE HttpProofs -----------------------------
(***************************************************************************)
(* For every number of connections, every set of fibers, every dispatch    *)
(* and every scenario: the connection pool of Http is exact, whatever the  *)
(* parser makes of what is received, and doRequest() reports OK with the   *)
(* whole response to its own request.                                      *)
(*                                                                         *)
(* The second rests on what the parser does with a response that is read   *)
(* in pieces: At() says where it is after any number of tokens of what     *)
(* dump() wrote, and OwnInv who waits for what on which connection.        *)
(***************************************************************************)
EXTENDS Http, NatLemmas, FiniteSetTheorems, SequenceTheorems, TLAPS

ConnFields == {"sock", "cli", "srv", "up", "down", "reset", "m_request", "pc", "p",
               "clean", "final"}
FiberFields == {"pc", "conn", "id", "pooled", "p", "result"}
IsConn(k) == DOMAIN k = ConnFields /\ k.m_request \in Nat
IsFiber(r) ==
    /\ DOMAIN r = FiberFields
    /\ r.conn \in Conns \cup {0} /\ r.pooled \in BOOLEAN
    /\ r.conn # 0 <=> r.pc \in {"send", "recv", "release"}

Types ==
    /\ DOMAIN conns = Conns /\ \A c \in Conns : IsConn(conns[c])
    /\ DOMAIN fiber = Fibers /\ \A f \in Fibers : IsFiber(fiber[f])
    /\ m_conns \in Seq(Conns)
    /\ "fibers" \in DOMAIN left /\ left.fibers \subseteq Fibers

(* PoolExact needs to know that a connection somebody has is not free.     *)
Busy == {f \in Fibers : fiber[f].conn # 0}
HeldBy == {f \in Busy : fiber[f].pooled}
Taken == \A f \in Busy : conns[fiber[f].conn].cli # "none"
PoolInv == Types /\ Taken /\ PoolExact

-----------------------------------------------------------------------------
(* The operators on a connection *)

(* A new connection is open and has not been used. *)
LEMMA NewConnFields ==
    ASSUME NEW s
    PROVE  /\ IsConn(NewConn(s)) /\ NewConn(s).cli = "open"
           /\ IsConn(Unused) /\ Unused.cli = "none"
BY DEF NewConn, Unused, IsConn, ConnFields

(* Settling a connection does not change its client's end, and nothing of  *)
(* one that is open.                                                       *)
LEMMA SettledFields ==
    ASSUME NEW k, IsConn(k)
    PROVE  /\ IsConn(Settled(k)) /\ Settled(k).cli = k.cli
           /\ k.cli # "closed" => Settled(k) = k
<1>1. IsConn(Unused)
  BY NewConnFields
<1>2. QED
  BY <1>1 DEF Settled, IsConn, ConnFields

(* An update of one connection leaves the others alone. *)
LEMMA UpdateConn ==
    ASSUME Types, NEW c \in Conns, NEW k, IsConn(k), Update(c, k)
    PROVE  /\ DOMAIN conns' = Conns /\ \A d \in Conns : IsConn(conns'[d])
           /\ \A d \in Conns \ {c} : conns'[d] = conns[d]
           /\ conns'[c].cli = k.cli
           /\ k.cli # "closed" => conns'[c].m_request = k.m_request
BY SettledFields DEF Update, Types

(* NextConn is a connection nobody has used. *)
LEMMA NextConnFree ==
    ASSUME Free # {}
    PROVE  NextConn \in Free /\ NextConn \in Conns /\ conns[NextConn].cli = "none"
<1>1. Free \subseteq Nat
  BY HttpAssumption DEF Free, Conns
<1>2. PICK c \in Free : \A d \in Free \ {c} : c < d
  BY <1>1, LeastNat
<1>3. \A d \in Free : c <= d
  BY <1>1, <1>2
<1>4. QED
  BY <1>3 DEF NextConn, Free

(* A connection is never too old. *)
LEMMA NeverExpired == ~(CreateTime + MaxAliveTime > Now) /\ ~Expired
BY HttpAssumption DEF Expired, CreateTime

-----------------------------------------------------------------------------
(* The invariant *)

(* The pool's connections stay as they are, and no used one becomes free.  *)
KeepsMine ==
    /\ \A c \in ToSet(m_conns) :
           conns'[c].cli = conns[c].cli /\ conns'[c].m_request = conns[c].m_request
    /\ \A c \in Conns : conns[c].cli # "none" => conns'[c].cli # "none"

LEMMA PoolInit == HttpInit => PoolInv
<1> SUFFICES ASSUME HttpInit
             PROVE  PoolInv
  OBVIOUS
<1>1. Types
  <2>1. 0 \notin Conns
    BY HttpAssumption DEF Conns
  <2>2. /\ DOMAIN conns = Conns /\ \A c \in Conns : IsConn(conns[c])
    BY NewConnFields DEF HttpInit
  <2>3. DOMAIN fiber = Fibers /\ \A f \in Fibers : IsFiber(fiber[f])
    BY DEF HttpInit, Idle, IsFiber, FiberFields
  <2>4. QED
    BY <2>2, <2>3, HttpAssumption DEF HttpInit, Types
<1>2. Busy = {} /\ HeldBy = {}
  BY DEF Busy, HeldBy, HttpInit, Idle
<1>3. Cardinality({}) = 0
  BY FS_EmptySet
<1>4. Len(m_conns) = 0 /\ DOMAIN m_conns = {} /\ m_total = 0
  BY DEF HttpInit
<1>5. PoolExact
  <2>1. ToSet(m_conns) = {}
    BY <1>4, Zenon DEF ToSet
  <2>2. m_total = Len(m_conns) + Cardinality(HeldBy)
    BY <1>2, <1>3, <1>4
  <2>3. QED
    BY <2>1, <2>2, <1>2, <1>4 DEF PoolExact, Busy, HeldBy
<1>6. QED
  BY <1>1, <1>2, <1>5 DEF PoolInv, Taken

(* A step that leaves the pool, the fibers' connections and the state of   *)
(* these connections alone keeps the invariant.                            *)
LEMMA PoolKept ==
    ASSUME PoolInv, Types', KeepsMine,
           UNCHANGED <<m_conns, m_total>>,
           \A f \in Fibers : fiber'[f].conn = fiber[f].conn /\ fiber'[f].pooled = fiber[f].pooled
    PROVE  PoolInv'
<1>1. Busy' = Busy /\ HeldBy' = HeldBy
  BY DEF Busy, HeldBy
<1>2. Taken'
  BY <1>1 DEF Taken, KeepsMine, PoolInv, Types, IsFiber, Busy
<1>3. ToSet(m_conns) \subseteq Conns
  BY ElementOfSeq DEF PoolInv, Types, ToSet
<1>4. PoolExact'
  <2>1. \A c \in ToSet(m_conns)' : (conns[c].m_request < MaxRequest /\ conns[c].cli = "open")'
    BY <1>3 DEF PoolInv, PoolExact, KeepsMine
  <2>2. m_total' = Len(m_conns') + Cardinality(HeldBy')
    BY <1>1 DEF PoolInv, PoolExact, HeldBy, Busy
  <2>3. \A f, g \in Busy' : fiber'[f].conn = fiber'[g].conn => f = g
    BY <1>1 DEF PoolInv, PoolExact, Busy
  <2>4. \A f \in Busy' : fiber'[f].conn \notin ToSet(m_conns)'
    BY <1>1 DEF PoolInv, PoolExact, Busy
  <2>5. \A i, j \in DOMAIN m_conns' : m_conns'[i] = m_conns'[j] => i = j
    BY DEF PoolInv, PoolExact
  <2>6. QED
    BY <2>1, <2>2, <2>3, <2>4, <2>5 DEF PoolExact, Busy, HeldBy
<1>5. QED
  BY <1>2, <1>4 DEF PoolInv

LEMMA MembersAreConns == Types => ToSet(m_conns) \subseteq Conns
BY ElementOfSeq DEF Types, ToSet

(* An update of a connection that is not in the pool, or that leaves the   *)
(* client's end alone.                                                     *)
LEMMA PoolUpdate ==
    ASSUME PoolInv, NEW c \in Conns, NEW k, IsConn(k), Update(c, k),
           c \in ToSet(m_conns) => k.cli = conns[c].cli /\ k.m_request = conns[c].m_request,
           k.cli = "none" => conns[c].cli = "none",
           UNCHANGED <<m_conns, m_total>>,
           DOMAIN fiber' = Fibers,
           \A f \in Fibers : /\ IsFiber(fiber'[f])
                             /\ fiber'[f].conn = fiber[f].conn
                             /\ fiber'[f].pooled = fiber[f].pooled,
           "fibers" \in DOMAIN left' /\ left'.fibers \subseteq Fibers
    PROVE  PoolInv'
<1>1. Types
  BY DEF PoolInv
<1>2. /\ DOMAIN conns' = Conns /\ \A d \in Conns : IsConn(conns'[d])
      /\ \A d \in Conns \ {c} : conns'[d] = conns[d]
      /\ conns'[c].cli = k.cli
      /\ k.cli # "closed" => conns'[c].m_request = k.m_request
  BY <1>1, UpdateConn
<1>3. Types'
  BY <1>1, <1>2 DEF Types
<1>4. KeepsMine
  <2>1. \A d \in ToSet(m_conns) : conns[d].cli = "open"
    BY DEF PoolInv, PoolExact
  <2>2. QED
    BY <1>1, <1>2, <2>1, MembersAreConns DEF KeepsMine
<1>5. QED
  BY <1>3, <1>4, PoolKept

(* The connection a fiber has is not in the pool. *)
LEMMA MineIsOut ==
    ASSUME PoolInv, NEW f \in Fibers, fiber[f].pc \in {"send", "recv", "release"}
    PROVE  /\ f \in Busy /\ fiber[f].conn \in Conns
           /\ fiber[f].conn \notin ToSet(m_conns)
           /\ IsConn(conns[fiber[f].conn]) /\ conns[fiber[f].conn].cli # "none"
<1>1. f \in Busy /\ fiber[f].conn \in Conns
  BY DEF PoolInv, Types, IsFiber, Busy
<1>2. QED
  BY <1>1 DEF PoolInv, PoolExact, Taken, Types, Busy

-----------------------------------------------------------------------------
(* The steps of a fiber *)

LEMMA PoolSend ==
    ASSUME PoolInv, NEW f \in Fibers, sendRequest(f)
    PROVE  PoolInv'
<1> DEFINE c == fiber[f].conn
           k == conns[c]
<1>1. fiber[f].pc = "send" /\ UNCHANGED <<m_conns, m_total, left>>
  BY DEF sendRequest
<1>2. c \in Conns /\ c \notin ToSet(m_conns) /\ IsConn(k) /\ k.cli # "none"
  BY <1>1, MineIsOut
<1>3. PICK j : IsConn(j) /\ j.cli = k.cli /\ Update(c, j)
  BY <1>2 DEF sendRequest, Reused, Unaccepted, IsConn, ConnFields
<1>4. /\ DOMAIN fiber' = Fibers
      /\ \A g \in Fibers : /\ IsFiber(fiber'[g])
                            /\ fiber'[g].conn = fiber[g].conn
                            /\ fiber'[g].pooled = fiber[g].pooled
  BY <1>1 DEF PoolInv, Types, sendRequest, IsFiber, FiberFields
<1>5. "fibers" \in DOMAIN left' /\ left'.fibers \subseteq Fibers
  BY <1>1 DEF PoolInv, Types
<1> HIDE DEF c, k
<1>6. QED
  BY <1>1, <1>2, <1>3, <1>4, <1>5, PoolUpdate DEF k

LEMMA PoolGivesUp ==
    ASSUME PoolInv, NEW f \in Fibers, fiber[f].pc = "recv",
           NEW k, IsConn(k), GivesUp(f, k),
           UNCHANGED <<m_conns, m_total>>,
           "fibers" \in DOMAIN left' /\ left'.fibers \subseteq Fibers
    PROVE  PoolInv'
<1>1. /\ fiber[f].conn \in Conns /\ fiber[f].conn \notin ToSet(m_conns)
  BY MineIsOut
<1>2. PICK j : IsConn(j) /\ j.cli = "closed" /\ Update(fiber[f].conn, j)
  BY DEF GivesUp, Unaccepted, IsConn, ConnFields
<1>3. /\ DOMAIN fiber' = Fibers
      /\ \A g \in Fibers : /\ IsFiber(fiber'[g])
                            /\ fiber'[g].conn = fiber[g].conn
                            /\ fiber'[g].pooled = fiber[g].pooled
  BY DEF PoolInv, Types, GivesUp, IsFiber, FiberFields
<1>4. QED
  BY <1>1, <1>2, <1>3, PoolUpdate

LEMMA PoolRecv ==
    ASSUME PoolInv, NEW f \in Fibers, recvResponse(f)
    PROVE  PoolInv'
<1> DEFINE c == fiber[f].conn
           k == conns[c]
<1>1. fiber[f].pc = "recv" /\ UNCHANGED <<m_conns, m_total>>
  BY DEF recvResponse
<1>2. c \in Conns /\ c \notin ToSet(m_conns) /\ IsConn(k) /\ k.cli # "none"
  BY <1>1, MineIsOut
<1>3. CASE RecvData(f)
  <2>1. "fibers" \in DOMAIN left' /\ left'.fibers \subseteq Fibers
    BY <1>3 DEF RecvData, Cut, PoolInv, Types
  <2>2. PICK n, q : \/ GivesUp(f, [k EXCEPT !.down = SubSeq(@, n + 1, Len(@))])
                    \/ /\ Update(c, [k EXCEPT !.down = SubSeq(@, n + 1, Len(@))])
                       /\ fiber' = [fiber EXCEPT ![f].p = q,
                               ![f].pc = IF q.m_finished THEN "release" ELSE @,
                               ![f].result = IF q.m_finished THEN "OK" ELSE @]
    BY <1>3, Zenon DEF RecvData
  <2> DEFINE rest == [k EXCEPT !.down = SubSeq(@, n + 1, Len(@))]
  <2>3. IsConn(rest) /\ rest.cli = k.cli
    BY <1>2 DEF IsConn, ConnFields
  <2>4. CASE GivesUp(f, rest)
    BY <1>1, <2>1, <2>3, <2>4, PoolGivesUp
  <2>5. CASE /\ Update(c, rest)
             /\ fiber' = [fiber EXCEPT ![f].p = q,
                               ![f].pc = IF q.m_finished THEN "release" ELSE @,
                               ![f].result = IF q.m_finished THEN "OK" ELSE @]
    <3>1. /\ DOMAIN fiber' = Fibers
          /\ \A g \in Fibers : /\ IsFiber(fiber'[g])
                                /\ fiber'[g].conn = fiber[g].conn
                                /\ fiber'[g].pooled = fiber[g].pooled
      BY <1>1, <2>5 DEF PoolInv, Types, IsFiber, FiberFields
    <3> HIDE DEF rest
    <3>2. QED
      BY <1>1, <1>2, <2>1, <2>3, <2>5, <3>1, PoolUpdate
  <2>6. QED
    BY <2>2, <2>4, <2>5
<1>4. CASE RecvEnds(f)
  BY <1>1, <1>2, <1>4, PoolGivesUp DEF RecvEnds, PoolInv, Types
<1>5. CASE RecvTimeout(f)
  <2>1. "fibers" \in DOMAIN left' /\ left'.fibers \subseteq Fibers
    BY <1>5 DEF RecvTimeout, PoolInv, Types
  <2>2. PICK j : IsConn(j) /\ GivesUp(f, j)
    BY <1>2, <1>5 DEF RecvTimeout, IsConn, ConnFields
  <2>3. QED
    BY <1>1, <2>1, <2>2, PoolGivesUp
<1>6. QED
  BY <1>3, <1>4, <1>5 DEF recvResponse

(* The fibers with a pooled connection, counted. *)
LEMMA HeldFinite == IsFiniteSet(HeldBy) /\ Cardinality(HeldBy) \in Nat
<1>1. HeldBy \subseteq Fibers /\ IsFiniteSet(Fibers)
  BY HttpAssumption DEF HeldBy, Busy
<1>2. QED
  BY <1>1, FS_Subset, FS_CardinalityType

(* What is left of a sequence without its first entry, when no entry comes *)
(* twice.                                                                  *)
LEMMA PopFront ==
    ASSUME NEW S, NEW s \in Seq(S), s # <<>>,
           \A i, j \in DOMAIN s : s[i] = s[j] => i = j
    PROVE  LET t == SubSeq(s, 2, Len(s))
           IN  /\ t \in Seq(S) /\ Len(t) = Len(s) - 1
               /\ s[1] \in S /\ s[1] \in ToSet(s)
               /\ ToSet(t) = ToSet(s) \ {s[1]}
               /\ \A i, j \in DOMAIN t : t[i] = t[j] => i = j
<1> DEFINE n == Len(s)
           t == SubSeq(s, 2, n)
<1>1. /\ n \in Nat /\ DOMAIN s = 1 .. n
      /\ \A i \in 1 .. n : s[i] \in S
  BY LenProperties, ElementOfSeq
<1>2. n # 0
  BY EmptySeq
<1>3. t \in Seq(S) /\ Len(t) = n - 1 /\ \A i \in 1 .. n - 1 : t[i] = s[i + 1]
  <2>1. \A i \in 2 .. n : s[i] \in S
    BY <1>1
  <2>2. /\ t \in Seq(S)
        /\ Len(t) = IF 2 <= n THEN n - 2 + 1 ELSE 0
        /\ \A i \in 1 .. n - 2 + 1 : t[i] = s[2 + i - 1]
    BY <1>1, <2>1, SubSeqProperties
  <2> HIDE DEF t, n
  <2>3. QED
    BY <1>1, <1>2, <2>2
<1> HIDE DEF t, n
<1>4. DOMAIN t = 1 .. n - 1
  BY <1>3, LenProperties
<1>5. s[1] \in S /\ 1 \in DOMAIN s
  BY <1>1, <1>2
<1>6. ASSUME NEW i \in 1 .. n - 1, NEW j \in 1 .. n - 1, t[i] = t[j]
      PROVE  i = j
  <2>1. i + 1 \in DOMAIN s /\ j + 1 \in DOMAIN s /\ s[i + 1] = s[j + 1]
    BY <1>1, <1>3, <1>6
  <2>2. i + 1 = j + 1
    BY <2>1
  <2>3. QED
    BY <1>1, <2>2
<1>7. ToSet(t) = ToSet(s) \ {s[1]}
  <2>1. ASSUME NEW i \in 1 .. n - 1
        PROVE  t[i] \in ToSet(s) \ {s[1]}
    <3>1. i + 1 \in DOMAIN s /\ i + 1 # 1 /\ t[i] = s[i + 1]
      BY <1>1, <1>3
    <3>2. QED
      BY <1>5, <3>1 DEF ToSet
  <2>2. ASSUME NEW i \in DOMAIN s, s[i] # s[1]
        PROVE  s[i] \in ToSet(t)
    <3>1. i - 1 \in 1 .. n - 1 /\ t[i - 1] = s[i]
      BY <1>1, <1>3, <2>2
    <3>2. QED
      BY <1>4, <3>1 DEF ToSet
  <2>3. QED
    BY <1>4, <2>1, <2>2 DEF ToSet
<1>8. QED
  BY <1>3, <1>4, <1>5, <1>6, <1>7 DEF t, n, ToSet

(* getConnection() finds the first connection usable: the ones that wait   *)
(* are connected and none is ever too old.                                 *)
LEMMA GetTakesFirst ==
    ASSUME PoolInv, NEW f \in Fibers, NEW m, getConnection(f, m)
    PROVE  /\ fiber[f].pc = "idle" /\ left' = [left EXCEPT !.requests = @ - 1]
           /\ log' = Append(log, [msg |-> m, answer |-> NotFoundServlet])
           /\ UNCHANGED <<m_total, dispatch>>
           /\ m_conns' = SubSeq(m_conns, 2, Len(m_conns))
           /\ DOMAIN conns' = Conns /\ \A c \in Conns : conns'[c] = conns[c]
           /\ LET none == m_conns = <<>>
              IN  fiber' = [fiber EXCEPT ![f].id = Len(log) + 1, ![f].pooled = TRUE,
                               ![f].pc = IF none THEN "connect" ELSE "send",
                               ![f].conn = IF none THEN 0 ELSE m_conns[1]]
<1> DEFINE good == {i \in DOMAIN m_conns : Usable(m_conns[i])}
           n    == IF good = {} THEN Len(m_conns) + 1
                   ELSE CHOOSE i \in good : \A j \in good : i <= j
<1>1. /\ m_conns \in Seq(Conns) /\ Len(m_conns) \in Nat
      /\ DOMAIN m_conns = 1 .. Len(m_conns)
      /\ \A i \in 1 .. Len(m_conns) : m_conns[i] \in Conns
  BY LenProperties, ElementOfSeq DEF PoolInv, Types
<1>2. good = 1 .. Len(m_conns)
  <2>1. \A i \in DOMAIN m_conns : conns[m_conns[i]].cli = "open"
    BY DEF PoolInv, PoolExact, ToSet
  <2>2. QED
    BY <1>1, <2>1, NeverExpired DEF Usable
<1>3. n = 1
  <2> HIDE DEF good
  <2>1. CASE good = {}
    BY <1>1, <1>2, <2>1
  <2>2. CASE good # {}
    <3>1. 1 \in good /\ \A j \in good : 1 <= j
      BY <1>1, <1>2, <2>2
    <3>2. \A i \in good : (\A j \in good : i <= j) => i = 1
      BY <1>1, <1>2, <3>1
    <3>3. QED
      BY <2>2, <3>1, <3>2
  <2>3. QED
    BY <2>1, <2>2
<1>4. /\ fiber[f].pc = "idle" /\ UNCHANGED dispatch
      /\ log' = Append(log, [msg |-> m, answer |-> NotFoundServlet])
      /\ left' = [left EXCEPT !.requests = @ - 1]
      /\ m_total' = m_total - (n - 1)
      /\ conns' = [c \in Conns |-> IF c \in {m_conns[i] : i \in 1 .. n - 1}
                                   THEN Settled([conns[c] EXCEPT !.cli = "closed"])
                                   ELSE conns[c]]
      /\ m_conns' = SubSeq(m_conns, n + 1, Len(m_conns))
      /\ fiber' = [fiber EXCEPT ![f].id = Len(log) + 1, ![f].pooled = TRUE,
                       ![f].pc = IF good = {} THEN "connect" ELSE "send",
                       ![f].conn = IF good = {} THEN 0 ELSE m_conns[n]]
  BY Zenon DEF getConnection
<1> HIDE DEF n, good
<1>5. /\ m_total' = m_total
      /\ m_conns' = SubSeq(m_conns, 2, Len(m_conns))
      /\ \A c \in Conns : conns'[c] = conns[c]
      /\ DOMAIN conns' = Conns
  <2>1. m_total \in Nat
    BY <1>1, HeldFinite DEF PoolInv, PoolExact, HeldBy, Busy
  <2>2. {m_conns[i] : i \in 1 .. n - 1} = {}
    BY <1>3
  <2>3. DOMAIN conns' = Conns /\ \A c \in Conns : conns'[c] = conns[c]
    BY <1>4, <2>2, Zenon
  <2>4. n - 1 = 0 /\ n + 1 = 2
    BY <1>3
  <2>5. m_total' = m_total
    <3>1. m_total' = m_total - (n - 1)
      BY <1>4
    <3>2. QED
      BY <2>1, <2>4, <3>1
  <2>6. m_conns' = SubSeq(m_conns, 2, Len(m_conns))
    BY <1>4, <2>4, Zenon
  <2>7. QED
    BY <2>3, <2>5, <2>6
<1>6. good = {} <=> m_conns = <<>>
  BY <1>1, <1>2, SMTT(30)
<1>7. QED
  BY <1>3, <1>4, <1>5, <1>6, Zenon

LEMMA PoolGet ==
    ASSUME PoolInv, NEW f \in Fibers, NEW m, getConnection(f, m)
    PROVE  PoolInv'
<1>1. /\ m_conns \in Seq(Conns) /\ Len(m_conns) \in Nat
      /\ DOMAIN m_conns = 1 .. Len(m_conns)
      /\ \A i \in 1 .. Len(m_conns) : m_conns[i] \in Conns
  BY LenProperties, ElementOfSeq DEF PoolInv, Types
<1> DEFINE none == m_conns = <<>>
<1>4. /\ fiber[f].pc = "idle" /\ left' = [left EXCEPT !.requests = @ - 1]
      /\ fiber' = [fiber EXCEPT ![f].id = Len(log) + 1, ![f].pooled = TRUE,
                               ![f].pc = IF none THEN "connect" ELSE "send",
                               ![f].conn = IF none THEN 0 ELSE m_conns[1]]
  BY GetTakesFirst
<1>5. /\ m_total' = m_total
      /\ m_conns' = SubSeq(m_conns, 2, Len(m_conns))
      /\ \A c \in Conns : conns'[c] = conns[c]
      /\ DOMAIN conns' = Conns
  BY GetTakesFirst
<1>6. m_conns' \in Seq(Conns)
  <2>1. \A i \in 2 .. Len(m_conns) : m_conns[i] \in Conns
    BY <1>1
  <2>2. QED
    BY <1>1, <1>5, <2>1, SubSeqProperties
<1>7. /\ DOMAIN fiber' = Fibers
      /\ \A g \in Fibers : IsFiber(fiber'[g])
      /\ \A g \in Fibers \ {f} : fiber'[g] = fiber[g]
      /\ fiber[f].conn = 0 /\ fiber'[f].pooled
      /\ fiber'[f].conn = IF m_conns = <<>> THEN 0 ELSE m_conns[1]
  <2>2. DOMAIN fiber = Fibers /\ \A g \in Fibers : IsFiber(fiber[g])
    BY DEF PoolInv, Types
  <2>3. 0 \notin Conns /\ (m_conns # <<>> => m_conns[1] \in Conns)
    BY <1>1, HttpAssumption DEF Conns
  <2>4. QED
    BY <1>4, <2>2, <2>3, ZenonT(30) DEF IsFiber, FiberFields
<1>8. Types'
  <2>1. "fibers" \in DOMAIN left' /\ left'.fibers \subseteq Fibers
    BY <1>4 DEF PoolInv, Types
  <2>2. QED
    BY <1>5, <1>6, <1>7, <2>1 DEF PoolInv, Types
<1>9. CASE m_conns = <<>>
  <2>1. m_conns' = m_conns
    BY <1>5, <1>9
  <2>2. Busy' = Busy /\ HeldBy' = HeldBy
    BY <1>7, <1>9 DEF Busy, HeldBy
  <2>3. ToSet(m_conns) = {}
    <3>1. DOMAIN m_conns = {}
      BY <1>9
    <3>2. QED
      BY <3>1, Zenon DEF ToSet
  <2>4. Taken'
    BY <1>5, <1>7, <2>2 DEF PoolInv, Taken, Busy, Types, IsFiber
  <2>5. PoolExact'
    <3>1. m_total' = Len(m_conns') + Cardinality(HeldBy')
      BY <1>5, <2>1, <2>2 DEF PoolInv, PoolExact, HeldBy, Busy
    <3>2. \A g, h \in Busy' : fiber'[g].conn = fiber'[h].conn => g = h
      BY <1>7, <1>9, <2>2 DEF PoolInv, PoolExact, Busy
    <3>3. ToSet(m_conns)' = {} /\ DOMAIN m_conns' = {}
      BY <1>9, <2>1, <2>3
    <3>4. QED
      BY <3>1, <3>2, <3>3 DEF PoolExact, HeldBy, Busy
  <2>6. QED
    BY <1>8, <2>4, <2>5 DEF PoolInv
<1>10. CASE m_conns # <<>>
  <2>1. \A i, j \in DOMAIN m_conns : m_conns[i] = m_conns[j] => i = j
    BY DEF PoolInv, PoolExact
  <2>a. /\ m_conns[1] \in Conns /\ m_conns[1] \in ToSet(m_conns)
        /\ Len(m_conns') = Len(m_conns) - 1
        /\ ToSet(m_conns') = ToSet(m_conns) \ {m_conns[1]}
        /\ \A i, j \in DOMAIN m_conns' : m_conns'[i] = m_conns'[j] => i = j
    BY <1>1, <1>5, <1>10, <2>1, PopFront
  <2>b. m_conns[1] # 0 /\ fiber'[f].conn = m_conns[1]
    BY <1>7, <1>10, <2>a, HttpAssumption DEF Conns
  <2>2. Busy' = Busy \cup {f} /\ HeldBy' = HeldBy \cup {f} /\ f \notin HeldBy /\ f \notin Busy
    BY <1>7, <2>b DEF Busy, HeldBy
  <2>3. ToSet(m_conns)' = ToSet(m_conns) \ {m_conns[1]}
    BY <2>a
  <2>4. Taken'
    <3>1. \A g \in Busy : conns'[fiber'[g].conn].cli # "none"
      BY <1>5, <1>7, <2>2 DEF PoolInv, Taken, Busy, Types, IsFiber
    <3>2. conns'[fiber'[f].conn].cli # "none"
      BY <1>5, <2>a, <2>b DEF PoolInv, PoolExact
    <3>3. QED
      BY <2>2, <3>1, <3>2 DEF Taken
  <2>5. PoolExact'
    <3>1. m_total' = Len(m_conns') + Cardinality(HeldBy')
      <4>1. Cardinality(HeldBy') = Cardinality(HeldBy) + 1
        BY <2>2, HeldFinite, FS_AddElement
      <4>2. m_total = Len(m_conns) + Cardinality(HeldBy)
        BY DEF PoolInv, PoolExact, HeldBy, Busy
      <4>3. QED
        BY <1>1, <1>5, <2>a, <4>1, <4>2, HeldFinite
    <3>2. \A g \in Busy : fiber'[g].conn = fiber[g].conn /\ fiber[g].conn \notin ToSet(m_conns)
      BY <1>7, <2>2 DEF PoolInv, PoolExact, Busy
    <3>3. \A g, h \in Busy' : fiber'[g].conn = fiber'[h].conn => g = h
      BY <2>a, <2>b, <2>2, <3>2 DEF PoolInv, PoolExact, Busy
    <3>4. \A g \in Busy' : fiber'[g].conn \notin ToSet(m_conns)'
      BY <2>a, <2>b, <2>2, <2>3, <3>2
    <3>5. \A i, j \in DOMAIN m_conns' : m_conns'[i] = m_conns'[j] => i = j
      BY <2>a
    <3>6. \A c \in ToSet(m_conns)' : conns'[c].m_request < MaxRequest /\ conns'[c].cli = "open"
      BY <1>5, <2>3, MembersAreConns DEF PoolInv, PoolExact
    <3>7. QED
      BY <3>1, <3>3, <3>4, <3>5, <3>6 DEF PoolExact, HeldBy, Busy
  <2>6. QED
    BY <1>8, <2>4, <2>5 DEF PoolInv
<1>11. QED
  BY <1>9, <1>10

LEMMA PoolDirect ==
    ASSUME PoolInv, NEW f \in Fibers, NEW m, DoRequest(f, m)
    PROVE  PoolInv'
<1>1. /\ UNCHANGED <<m_conns, m_total, conns>> /\ fiber[f].pc = "idle"
      /\ left' = [left EXCEPT !.direct = @ - 1]
      /\ fiber' = [fiber EXCEPT ![f].id = Len(log) + 1, ![f].pc = "connect"]
  BY DEF DoRequest
<1>2. /\ DOMAIN fiber' = Fibers
      /\ \A g \in Fibers : /\ IsFiber(fiber'[g])
                            /\ fiber'[g].conn = fiber[g].conn
                            /\ fiber'[g].pooled = fiber[g].pooled
  BY <1>1 DEF PoolInv, Types, IsFiber, FiberFields
<1>3. Types'
  BY <1>1, <1>2 DEF PoolInv, Types
<1>4. KeepsMine
  BY <1>1 DEF KeepsMine
<1>5. QED
  BY <1>1, <1>2, <1>3, <1>4, PoolKept

(* A connection that is made is nobody's yet, and changes no other. *)
LEMMA FreshConn ==
    ASSUME PoolInv, Free # {}, NEW k, IsConn(k), k.cli = "open",
           conns' = [conns EXCEPT ![NextConn] = k]
    PROVE  /\ NextConn \in Conns /\ NextConn \notin ToSet(m_conns) /\ NextConn # 0
           /\ \A g \in Busy : fiber[g].conn # NextConn
           /\ DOMAIN conns' = Conns /\ \A c \in Conns : IsConn(conns'[c])
           /\ \A c \in Conns \ {NextConn} : conns'[c] = conns[c]
           /\ conns'[NextConn].cli = "open"
           /\ KeepsMine
<1>1. NextConn \in Conns /\ conns[NextConn].cli = "none"
  BY NextConnFree
<1>2. NextConn \notin ToSet(m_conns) /\ \A g \in Busy : fiber[g].conn # NextConn
  BY <1>1 DEF PoolInv, PoolExact, Taken
<1>3. /\ DOMAIN conns' = Conns /\ \A c \in Conns : IsConn(conns'[c])
      /\ \A c \in Conns \ {NextConn} : conns'[c] = conns[c]
      /\ conns'[NextConn].cli = "open"
  BY <1>1 DEF PoolInv, Types
<1>4. KeepsMine
  BY <1>1, <1>2, <1>3, MembersAreConns DEF KeepsMine, PoolInv
<1>5. NextConn # 0
  BY <1>1, HttpAssumption DEF Conns
<1>6. QED
  BY <1>1, <1>2, <1>3, <1>4, <1>5

(* A fiber that fails to connect had no connection. *)
LEMMA PoolConnectFails ==
    ASSUME PoolInv, NEW f \in Fibers, fiber[f].pc = "connect",
           fiber' = [fiber EXCEPT ![f] = Idle],
           UNCHANGED <<m_conns, m_total, conns>>,
           "fibers" \in DOMAIN left' /\ left'.fibers \subseteq Fibers
    PROVE  PoolInv'
<1>1. fiber[f].conn = 0
  BY DEF PoolInv, Types, IsFiber
<1>2. IsFiber(Idle) /\ Idle.conn = 0
  BY DEF IsFiber, FiberFields, Idle
<1>3. Types'
  BY <1>2 DEF PoolInv, Types
<1>4. Busy' = Busy /\ HeldBy' = HeldBy /\ \A g \in Busy : fiber'[g] = fiber[g]
  BY <1>1, <1>2 DEF Busy, HeldBy, PoolInv, Types
<1>5. Taken'
  BY <1>4 DEF Taken, PoolInv
<1>6. PoolExact'
  <2>1. m_total' = Len(m_conns') + Cardinality(HeldBy')
    BY <1>4 DEF PoolInv, PoolExact, HeldBy, Busy
  <2>2. \A g, h \in Busy' : fiber'[g].conn = fiber'[h].conn => g = h
    BY <1>4 DEF PoolInv, PoolExact, Busy
  <2>3. \A g \in Busy' : fiber'[g].conn \notin ToSet(m_conns)'
    BY <1>4 DEF PoolInv, PoolExact, Busy
  <2>4. QED
    BY <2>1, <2>2, <2>3 DEF PoolInv, PoolExact, HeldBy, Busy
<1>7. QED
  BY <1>3, <1>5, <1>6 DEF PoolInv

LEMMA PoolConnects ==
    ASSUME PoolInv, NEW f \in Fibers, fiber[f].pc = "connect", NEW s, Free # {},
           conns' = [conns EXCEPT ![NextConn] = NewConn(s)],
           m_total' = m_total + IF fiber[f].pooled THEN 1 ELSE 0,
           fiber' = [fiber EXCEPT ![f].pc = "send", ![f].conn = NextConn],
           UNCHANGED <<m_conns, left>>
    PROVE  PoolInv'
<1>1. IsConn(NewConn(s)) /\ NewConn(s).cli = "open"
  BY NewConnFields
<1>2. /\ NextConn \in Conns /\ NextConn \notin ToSet(m_conns) /\ NextConn # 0
      /\ \A g \in Busy : fiber[g].conn # NextConn
      /\ DOMAIN conns' = Conns /\ \A c \in Conns : IsConn(conns'[c])
      /\ \A c \in Conns \ {NextConn} : conns'[c] = conns[c]
      /\ conns'[NextConn].cli = "open"
      /\ KeepsMine
  BY <1>1, FreshConn
<1>3. /\ DOMAIN fiber' = Fibers /\ \A g \in Fibers : IsFiber(fiber'[g])
      /\ \A g \in Fibers \ {f} : fiber'[g] = fiber[g]
      /\ fiber[f].conn = 0 /\ fiber'[f].conn = NextConn /\ fiber'[f].pooled = fiber[f].pooled
  BY <1>2 DEF PoolInv, Types, IsFiber, FiberFields
<1>4. Types'
  BY <1>2, <1>3 DEF PoolInv, Types
<1>5. /\ Busy' = Busy \cup {f} /\ f \notin Busy
      /\ HeldBy' = IF fiber[f].pooled THEN HeldBy \cup {f} ELSE HeldBy
  BY <1>2, <1>3 DEF Busy, HeldBy
<1>6. \A g \in Busy : fiber'[g] = fiber[g]
  BY <1>3, <1>5 DEF Busy
<1>7. Taken'
  <2>1. \A g \in Busy : conns'[fiber'[g].conn].cli # "none"
    BY <1>2, <1>6 DEF KeepsMine, PoolInv, Taken, Types, IsFiber, Busy
  <2>2. QED
    BY <1>2, <1>3, <1>5, <2>1 DEF Taken
<1>8. PoolExact'
  <2>1. m_total' = Len(m_conns') + Cardinality(HeldBy')
    <3>1. m_total = Len(m_conns) + Cardinality(HeldBy) /\ Len(m_conns) \in Nat
      BY LenProperties DEF PoolInv, PoolExact, HeldBy, Busy, Types
    <3>2. fiber[f].pooled => Cardinality(HeldBy') = Cardinality(HeldBy) + 1
      BY <1>5, HeldFinite, FS_AddElement DEF HeldBy
    <3>3. CASE fiber[f].pooled
      BY <3>1, <3>2, <3>3, HeldFinite
    <3>4. CASE ~fiber[f].pooled
      BY <1>5, <3>1, <3>4, HeldFinite
    <3>5. QED
      BY <3>3, <3>4
  <2>2. \A g, h \in Busy' : fiber'[g].conn = fiber'[h].conn => g = h
    BY <1>2, <1>3, <1>5, <1>6 DEF PoolInv, PoolExact, Busy
  <2>3. \A g \in Busy' : fiber'[g].conn \notin ToSet(m_conns)'
    BY <1>2, <1>3, <1>5, <1>6 DEF PoolInv, PoolExact, Busy
  <2>4. \A c \in ToSet(m_conns)' : conns'[c].m_request < MaxRequest /\ conns'[c].cli = "open"
    BY <1>2 DEF PoolInv, PoolExact, KeepsMine
  <2>5. \A i, j \in DOMAIN m_conns' : m_conns'[i] = m_conns'[j] => i = j
    BY DEF PoolInv, PoolExact
  <2>6. QED
    BY <2>1, <2>2, <2>3, <2>4, <2>5 DEF PoolExact, HeldBy, Busy
<1>9. QED
  BY <1>4, <1>7, <1>8 DEF PoolInv

LEMMA PoolConnect ==
    ASSUME PoolInv, NEW f \in Fibers, Connect(f)
    PROVE  PoolInv'
<1>1. fiber[f].pc = "connect" /\ UNCHANGED m_conns
  BY DEF Connect
<1>2. CASE \E s \in Socks :
              /\ Free # {}
              /\ conns' = [conns EXCEPT ![NextConn] = NewConn(s)]
              /\ m_total' = m_total + IF fiber[f].pooled THEN 1 ELSE 0
              /\ fiber' = [fiber EXCEPT ![f].pc = "send", ![f].conn = NextConn]
              /\ UNCHANGED left
  BY <1>1, <1>2, PoolConnects
<1>3. CASE /\ left' = IF \E s \in Socks : Open(s) THEN [left EXCEPT !.timeouts = @ - 1] ELSE left
           /\ fiber' = [fiber EXCEPT ![f] = Idle]
           /\ UNCHANGED <<conns, m_total>>
  <2>1. "fibers" \in DOMAIN left' /\ left'.fibers \subseteq Fibers
    BY <1>3 DEF PoolInv, Types
  <2>2. QED
    BY <1>1, <1>3, <2>1, PoolConnectFails
<1>4. QED
  BY <1>2, <1>3 DEF Connect

(* The connection of a fiber that is done with it is dropped or goes back  *)
(* to the pool.                                                            *)
LEMMA PoolGivesBack ==
    ASSUME PoolInv, NEW f \in Fibers, fiber[f].pc = "release",
           NEW k, IsConn(k), Update(fiber[f].conn, k), k.cli # "none",
           fiber' = [fiber EXCEPT ![f] = Idle],
           m_conns' = m_conns \/
               /\ m_conns' = Append(m_conns, fiber[f].conn)
               /\ k.cli = "open" /\ k.m_request < MaxRequest /\ fiber[f].pooled,
           m_total' = m_total - IF fiber[f].pooled /\ m_conns' = m_conns THEN 1 ELSE 0,
           UNCHANGED left
    PROVE  PoolInv'
<1> DEFINE c == fiber[f].conn
<1>1. f \in Busy /\ c \in Conns /\ c \notin ToSet(m_conns)
  BY MineIsOut
<1>2. /\ DOMAIN conns' = Conns /\ \A d \in Conns : IsConn(conns'[d])
      /\ \A d \in Conns \ {c} : conns'[d] = conns[d]
      /\ conns'[c].cli = k.cli
      /\ k.cli # "closed" => conns'[c].m_request = k.m_request
  BY <1>1, UpdateConn DEF PoolInv
<1>3. IsFiber(Idle) /\ Idle.conn = 0
  BY DEF IsFiber, FiberFields, Idle
<1>4. /\ DOMAIN fiber' = Fibers /\ \A g \in Fibers : IsFiber(fiber'[g])
      /\ \A g \in Fibers \ {f} : fiber'[g] = fiber[g]
      /\ fiber'[f].conn = 0
  BY <1>3 DEF PoolInv, Types
<1>5. m_conns \in Seq(Conns) /\ Len(m_conns) \in Nat /\ DOMAIN m_conns = 1 .. Len(m_conns)
  BY LenProperties DEF PoolInv, Types
<1>6. Types'
  BY <1>1, <1>2, <1>4, <1>5, AppendProperties DEF PoolInv, Types
<1>7. /\ Busy' = Busy \ {f} /\ HeldBy' = HeldBy \ {f}
      /\ f \in HeldBy <=> fiber[f].pooled
      /\ \A g \in Busy' : fiber'[g] = fiber[g] /\ fiber[g].conn # c
  BY <1>1, <1>4 DEF Busy, HeldBy, PoolInv, PoolExact
<1>8. Taken'
  BY <1>2, <1>7 DEF PoolInv, Taken, Busy, Types, IsFiber
<1>9. /\ m_total = Len(m_conns) + Cardinality(HeldBy)
      /\ Cardinality(HeldBy) \in Nat
      /\ Cardinality(HeldBy') = Cardinality(HeldBy) - IF fiber[f].pooled THEN 1 ELSE 0
  <2>1. m_total = Len(m_conns) + Cardinality(HeldBy)
    BY DEF PoolInv, PoolExact, HeldBy, Busy
  <2>2. Cardinality(HeldBy) \in Nat
    BY HeldFinite
  <2>3. Cardinality(HeldBy') = Cardinality(HeldBy) - IF fiber[f].pooled THEN 1 ELSE 0
    <3>1. CASE fiber[f].pooled
      BY <1>7, <3>1, HeldFinite, FS_RemoveElement
    <3>2. CASE ~fiber[f].pooled
      <4>1. HeldBy' = HeldBy
        BY <1>7, <3>2
      <4>2. QED
        BY <2>2, <3>2, <4>1
    <3>3. QED
      BY <3>1, <3>2
  <2>4. QED
    BY <2>1, <2>2, <2>3
<1>10. \A g, h \in Busy' : fiber'[g].conn = fiber'[h].conn => g = h
  BY <1>7 DEF PoolInv, PoolExact, Busy
<1>11. \A d \in ToSet(m_conns) : conns'[d].m_request < MaxRequest /\ conns'[d].cli = "open"
  BY <1>1, <1>2, MembersAreConns DEF PoolInv, PoolExact
<1>12. \A g \in Busy' : fiber'[g].conn \notin ToSet(m_conns) \cup {c}
  BY <1>7 DEF PoolInv, PoolExact, Busy
<1> HIDE DEF c
<1>13. CASE m_conns' = m_conns
  <2>1. m_total' = Len(m_conns') + Cardinality(HeldBy')
    BY <1>5, <1>9, <1>13
  <2>2. PoolExact'
    BY <1>10, <1>11, <1>12, <1>13, <2>1 DEF PoolExact, PoolInv, HeldBy, Busy
  <2>3. QED
    BY <1>6, <1>8, <2>2 DEF PoolInv
<1>14. CASE /\ m_conns' = Append(m_conns, c)
            /\ k.cli = "open" /\ k.m_request < MaxRequest /\ fiber[f].pooled
  <2>1. /\ Len(m_conns') = Len(m_conns) + 1 /\ DOMAIN m_conns' = 1 .. Len(m_conns) + 1
        /\ \A i \in 1 .. Len(m_conns) : m_conns'[i] = m_conns[i]
        /\ m_conns'[Len(m_conns) + 1] = c
    <3>1. /\ Append(m_conns, c) \in Seq(Conns)
          /\ Len(Append(m_conns, c)) = Len(m_conns) + 1
          /\ \A i \in 1 .. Len(m_conns) : Append(m_conns, c)[i] = m_conns[i]
          /\ Append(m_conns, c)[Len(m_conns) + 1] = c
      BY <1>1, <1>5, AppendProperties DEF c
    <3>2. DOMAIN Append(m_conns, c) = 1 .. Len(m_conns) + 1
      BY <3>1, LenProperties
    <3>3. QED
      BY <1>14, <3>1, <3>2, Zenon
  <2>2. m_conns' # m_conns
    BY <1>5, <2>1
  <2>3. m_total' = Len(m_conns') + Cardinality(HeldBy')
    <3>1. m_total' = m_total
      BY <1>5, <1>9, <2>2
    <3>2. Cardinality(HeldBy') = Cardinality(HeldBy) - 1
      BY <1>9, <1>14
    <3>3. QED
      BY <1>5, <1>9, <2>1, <3>1, <3>2
  <2>4. \A i \in DOMAIN m_conns' : i \in DOMAIN m_conns \/ i = Len(m_conns) + 1
    BY <1>5, <2>1
  <2>5. ToSet(m_conns') \subseteq ToSet(m_conns) \cup {c}
    BY <1>5, <2>1, <2>4 DEF ToSet
  <2>6. ASSUME NEW i \in DOMAIN m_conns', NEW j \in DOMAIN m_conns', m_conns'[i] = m_conns'[j]
        PROVE  i = j
    <3>1. \A l \in DOMAIN m_conns : m_conns[l] # c
      BY <1>1 DEF ToSet
    <3>2. \A l, r \in DOMAIN m_conns : m_conns[l] = m_conns[r] => l = r
      BY DEF PoolInv, PoolExact
    <3>3. QED
      BY <1>5, <2>1, <2>4, <2>6, <3>1, <3>2
  <2>7. \A d \in ToSet(m_conns') : conns'[d].m_request < MaxRequest /\ conns'[d].cli = "open"
    BY <1>2, <1>11, <1>14, <2>5
  <2>8. PoolExact'
    BY <1>10, <1>12, <2>3, <2>5, <2>6, <2>7 DEF PoolExact, HeldBy, Busy
  <2>9. QED
    BY <1>6, <1>8, <2>8 DEF PoolInv
<1>15. QED
  BY <1>13, <1>14 DEF c

LEMMA PoolRelease ==
    ASSUME PoolInv, NEW f \in Fibers, ReleasePtr(f) \/ Destroy(f)
    PROVE  PoolInv'
<1> DEFINE c == fiber[f].conn
           k == conns[c]
           drop == k.cli # "open" \/ Expired \/ Worn(k)
<1>1. fiber[f].pc = "release" /\ fiber' = [fiber EXCEPT ![f] = Idle] /\ UNCHANGED left
  BY DEF ReleasePtr, Destroy
<1>2. IsConn(k) /\ k.cli # "none"
  BY <1>1, MineIsOut
<1>3. CASE ReleasePtr(f)
  <2>1. /\ fiber[f].pooled
        /\ Update(c, [k EXCEPT !.m_request = @ + 1, !.cli = IF drop THEN "closed" ELSE @])
        /\ m_total' = m_total - IF drop THEN 1 ELSE 0
        /\ m_conns' = IF drop THEN m_conns ELSE Append(m_conns, c)
    BY <1>3 DEF ReleasePtr
  <2> DEFINE j == [k EXCEPT !.m_request = @ + 1, !.cli = IF drop THEN "closed" ELSE @]
  <2>2. /\ IsConn(j) /\ j.cli # "none"
        /\ ~drop => j.cli = "open" /\ j.m_request < MaxRequest
    BY <1>2, HttpAssumption DEF IsConn, ConnFields, Worn
  <2>3. ~drop => m_conns' # m_conns
    <3>1. m_conns \in Seq(Conns) /\ Len(m_conns) \in Nat
      BY LenProperties DEF PoolInv, Types
    <3>2. Len(Append(m_conns, c)) = Len(m_conns) + 1
      BY <3>1
    <3>3. QED
      BY <2>1, <3>1, <3>2
  <2> HIDE DEF j, drop
  <2>4. QED
    BY <1>1, <2>1, <2>2, <2>3, PoolGivesBack DEF j
<1>4. CASE Destroy(f)
  <2>1. /\ ~fiber[f].pooled /\ UNCHANGED <<m_conns, m_total>>
        /\ Update(c, [k EXCEPT !.cli = "closed"])
    BY <1>4 DEF Destroy
  <2>2. IsConn([k EXCEPT !.cli = "closed"]) /\ [k EXCEPT !.cli = "closed"].cli = "closed"
    BY <1>2 DEF IsConn, ConnFields
  <2>3. m_total \in Nat
    <3>1. Len(m_conns) \in Nat
      BY LenProperties DEF PoolInv, Types
    <3>2. QED
      BY <3>1, HeldFinite DEF PoolInv, PoolExact, HeldBy, Busy
  <2>4. m_total' = m_total - IF fiber[f].pooled /\ m_conns' = m_conns THEN 1 ELSE 0
    BY <2>1, <2>3
  <2> DEFINE j == [k EXCEPT !.cli = "closed"]
  <2>5. IsConn(j) /\ Update(c, j) /\ j.cli # "none"
    BY <2>1, <2>2
  <2> HIDE DEF j, k
  <2>6. QED
    BY <1>1, <2>1, <2>4, <2>5, PoolGivesBack
<1>5. QED
  BY <1>3, <1>4

-----------------------------------------------------------------------------
(* The steps of the server and of the rest of the world *)

(* The server's end changes, the client's does not. *)
LEMMA PoolServer ==
    ASSUME PoolInv, NEW c \in Conns, NEW k, Update(c, k),
           IsConn(k), k.cli = conns[c].cli, k.m_request = conns[c].m_request,
           UNCHANGED <<m_conns, m_total, fiber>>,
           "fibers" \in DOMAIN left' /\ left'.fibers \subseteq Fibers
    PROVE  PoolInv'
<1>1. DOMAIN fiber' = Fibers /\ \A f \in Fibers : IsFiber(fiber'[f])
  BY DEF PoolInv, Types
<1>2. QED
  BY <1>1, PoolUpdate

LEMMA ClosedFields ==
    ASSUME NEW k, IsConn(k)
    PROVE  IsConn(Closed(k)) /\ Closed(k).cli = k.cli /\ Closed(k).m_request = k.m_request
BY DEF Closed, IsConn, ConnFields

LEMMA PoolRecvRequest ==
    ASSUME PoolInv, NEW c \in Conns, recvRequest(c)
    PROVE  PoolInv'
<1>1. UNCHANGED <<m_conns, m_total, fiber>>
  BY DEF recvRequest
<1>2. IsConn(conns[c]) /\ "fibers" \in DOMAIN left /\ left.fibers \subseteq Fibers
  BY DEF PoolInv, Types
<1>3. CASE SessionData(c)
  <2> DEFINE k == conns[c]
  <2>1. PICK n \in 1 .. Len(k.up) :
            LET q    == http_parser_execute(k.p, SubSeq(k.up, 1, n))
                rest == [k EXCEPT !.up = SubSeq(@, n + 1, Len(@)), !.p = q,
                                  !.clean = @ /\ ~q.cut]
            IN  /\ left' = Cut(k.up, n)
                /\ Update(c, IF RequestError(q) THEN Closed(rest)
                             ELSE [rest EXCEPT !.pc = IF q.m_finished THEN "handle" ELSE @])
    BY <1>3 DEF SessionData
  <2> DEFINE q    == http_parser_execute(k.p, SubSeq(k.up, 1, n))
             rest == [k EXCEPT !.up = SubSeq(@, n + 1, Len(@)), !.p = q, !.clean = @ /\ ~q.cut]
             next == [rest EXCEPT !.pc = IF q.m_finished THEN "handle" ELSE @]
  <2>2. /\ left' = Cut(k.up, n)
        /\ Update(c, IF RequestError(q) THEN Closed(rest) ELSE next)
    BY <2>1
  <2>3. "fibers" \in DOMAIN left' /\ left'.fibers \subseteq Fibers
    BY <1>2, <2>2 DEF Cut
  <2> HIDE DEF q
  <2>4. IsConn(rest) /\ rest.cli = k.cli /\ rest.m_request = k.m_request
    BY <1>2 DEF IsConn, ConnFields
  <2> HIDE DEF rest
  <2>5. IsConn(next) /\ next.cli = k.cli /\ next.m_request = k.m_request
    BY <2>4 DEF IsConn, ConnFields
  <2>6. IsConn(Closed(rest)) /\ Closed(rest).cli = k.cli /\ Closed(rest).m_request = k.m_request
    BY <2>4, ClosedFields
  <2> HIDE DEF next
  <2>7. Update(c, Closed(rest)) \/ Update(c, next)
    BY <2>2
  <2>8. QED
    BY <1>1, <2>3, <2>5, <2>6, <2>7, PoolServer
<1>4. CASE SessionEnds(c)
  BY <1>1, <1>2, <1>4, ClosedFields, PoolServer DEF SessionEnds
<1>5. CASE SessionTimeout(c)
  <2>1. left' = [left EXCEPT !.timeouts = @ - 1] /\ Update(c, Closed([conns[c] EXCEPT !.clean = FALSE]))
    BY <1>5 DEF SessionTimeout
  <2> DEFINE k == [conns[c] EXCEPT !.clean = FALSE]
  <2>2. IsConn(k) /\ k.cli = conns[c].cli /\ k.m_request = conns[c].m_request
    BY <1>2 DEF IsConn, ConnFields
  <2>3. Update(c, Closed(k))
    BY <2>1
  <2>4. "fibers" \in DOMAIN left' /\ left'.fibers \subseteq Fibers
    BY <1>2, <2>1
  <2> HIDE DEF k
  <2>5. QED
    BY <1>1, <2>2, <2>3, <2>4, ClosedFields, PoolServer
<1>6. QED
  BY <1>3, <1>4, <1>5 DEF recvRequest

LEMMA PoolSession ==
    ASSUME PoolInv, NEW c \in Conns, Session(c)
    PROVE  PoolInv'
<1>1. IsConn(conns[c]) /\ "fibers" \in DOMAIN left /\ left.fibers \subseteq Fibers
  BY DEF PoolInv, Types
<1>2. CASE handleClient(c)
  <2>1. PICK down, p, pc, clean :
            Update(c, [conns[c] EXCEPT !.down = down, !.p = p, !.pc = pc, !.clean = clean])
    BY <1>2, Zenon DEF handleClient
  <2> DEFINE k == [conns[c] EXCEPT !.down = down, !.p = p, !.pc = pc, !.clean = clean]
  <2>2. IsConn(k) /\ k.cli = conns[c].cli /\ k.m_request = conns[c].m_request
    BY <1>1 DEF IsConn, ConnFields
  <2>3. UNCHANGED <<m_conns, m_total, fiber, left>>
    BY <1>2 DEF handleClient
  <2>4. Update(c, k)
    BY <2>1
  <2> HIDE DEF k
  <2>5. QED
    BY <1>1, <2>2, <2>3, <2>4, PoolServer
<1>3. CASE SessionClose(c)
  BY <1>1, <1>3, ClosedFields, PoolServer DEF SessionClose
<1>4. QED
  BY <1>2, <1>3, PoolRecvRequest DEF Session

LEMMA PoolAccept ==
    ASSUME PoolInv, NEW s \in Socks, NEW c \in Conns, startAccept(s, c)
    PROVE  PoolInv'
<1>1. UNCHANGED <<m_conns, m_total, fiber, left>>
  BY DEF startAccept
<1>2. IsConn(conns[c]) /\ "fibers" \in DOMAIN left /\ left.fibers \subseteq Fibers
  BY DEF PoolInv, Types
<1> DEFINE k == [conns[c] EXCEPT !.srv = "open", !.pc = "recv"]
<1>3. IsConn(k) /\ k.cli = conns[c].cli /\ k.m_request = conns[c].m_request
  BY <1>2 DEF IsConn, ConnFields
<1>4. Update(c, k)
  BY DEF startAccept
<1> HIDE DEF k
<1>5. QED
  BY <1>1, <1>2, <1>3, <1>4, PoolServer

(* A foreign client gets a connection that is nobody's. *)
LEMMA PoolForeignSends ==
    ASSUME PoolInv, NEW s, NEW ms, ForeignSends(s, ms)
    PROVE  PoolInv'
<1>1. /\ UNCHANGED <<m_conns, m_total, fiber>> /\ Free # {}
      /\ left' = [left EXCEPT !.foreign = {}]
  BY DEF ForeignSends
<1>2. PICK up : conns' = [conns EXCEPT ![NextConn] =
                            [NewConn(s) EXCEPT !.pc = "foreign", !.up = up]]
  BY Zenon DEF ForeignSends
<1> DEFINE k == [NewConn(s) EXCEPT !.pc = "foreign", !.up = up]
<1>3. IsConn(k) /\ k.cli = "open"
  BY NewConnFields DEF IsConn, ConnFields
<1>4. conns' = [conns EXCEPT ![NextConn] = k]
  BY <1>2
<1> HIDE DEF k
<1>5. DOMAIN conns' = Conns /\ (\A c \in Conns : IsConn(conns'[c])) /\ KeepsMine
  BY <1>1, <1>3, <1>4, FreshConn
<1>6. Types'
  BY <1>1, <1>5 DEF PoolInv, Types
<1>7. QED
  BY <1>1, <1>5, <1>6, PoolKept

LEMMA PoolForeignLeaves ==
    ASSUME PoolInv, NEW c \in Conns, ForeignLeaves(c)
    PROVE  PoolInv'
<1>1. UNCHANGED <<m_conns, m_total, fiber, left>> /\ c \notin ToSet(m_conns)
  BY DEF ForeignLeaves
<1>2. IsConn(conns[c])
  BY DEF PoolInv, Types
<1> DEFINE k == [conns[c] EXCEPT !.cli = "closed"]
<1>3. IsConn(k) /\ k.cli = "closed"
  BY <1>2 DEF IsConn, ConnFields
<1>4. Update(c, k)
  BY DEF ForeignLeaves
<1>5. /\ "fibers" \in DOMAIN left' /\ left'.fibers \subseteq Fibers
      /\ DOMAIN fiber' = Fibers /\ \A f \in Fibers : IsFiber(fiber'[f])
  BY <1>1 DEF PoolInv, Types
<1> HIDE DEF k
<1>6. QED
  BY <1>1, <1>3, <1>4, <1>5, PoolUpdate

(* Steps that touch neither the pool nor a connection. *)
LEMMA PoolSame ==
    ASSUME PoolInv, UNCHANGED <<m_conns, m_total, conns, fiber>>,
           "fibers" \in DOMAIN left' /\ left'.fibers \subseteq Fibers
    PROVE  PoolInv'
<1>1. Types'
  BY DEF PoolInv, Types
<1>2. KeepsMine
  BY DEF KeepsMine
<1>3. QED
  BY <1>1, <1>2, PoolKept

LEMMA PoolStep == PoolInv /\ [HttpNext]_vars => PoolInv'
<1> SUFFICES ASSUME PoolInv, [HttpNext]_vars
             PROVE  PoolInv'
  OBVIOUS
<1>1. "fibers" \in DOMAIN left /\ left.fibers \subseteq Fibers
  BY DEF PoolInv, Types
<1>2. CASE UNCHANGED vars
  BY <1>1, <1>2, PoolSame DEF vars, httpVars
<1>3. CASE \E f \in left.fibers, m \in left.wanted : getConnection(f, m) \/ DoRequest(f, m)
  BY <1>1, <1>3, PoolGet, PoolDirect
<1>4. CASE \E f \in Fibers : doRequest(f)
  BY <1>4, PoolConnect, PoolSend, PoolRecv, PoolRelease DEF doRequest
<1>5. CASE \E c \in Conns : Session(c)
  BY <1>5, PoolSession
<1>6. CASE \E s \in Socks : Server(s)
  <2>1. CASE UNCHANGED httpVars
    BY <1>1, <2>1, PoolSame DEF httpVars
  <2>2. CASE \E s \in Socks : \E c \in Conns : startAccept(s, c)
    BY <2>2, PoolAccept
  <2>3. QED
    BY <1>6, <2>1, <2>2 DEF Server
<1>7. CASE \E s \in Socks, ms \in left.foreign : ForeignSends(s, ms)
  BY <1>7, PoolForeignSends
<1>8. CASE \E c \in Conns : ForeignLeaves(c)
  BY <1>8, PoolForeignLeaves
<1>9. CASE ChangeServlets
  BY <1>1, <1>9, PoolSame DEF ChangeServlets
<1>10. CASE Serve
  BY <1>1, <1>10, PoolSame DEF Serve
<1>11. QED
  BY <1>2, <1>3, <1>4, <1>5, <1>6, <1>7, <1>8, <1>9, <1>10 DEF HttpNext

(* HttpConnectionPool is exact: with any number of fibers and connections, *)
(* whatever the two ends send, close or time out, a connection is with one *)
(* fiber or once in m_conns, m_total counts the pool's, and those that     *)
(* wait are connected and not used up.                                     *)
THEOREM PoolIsExact == HttpSpec => []PoolExact
<1>1. PoolInv => PoolExact
  BY DEF PoolInv
<1>2. QED
  BY <1>1, PoolInit, PoolStep, PTL DEF HttpSpec

-----------------------------------------------------------------------------
(* The parser *)

ParserFields ==
    {"type", "state", "flags", "length", "version", "status", "name", "val", "mark", "buf",
     "errno", "upgrade", "exit", "got", "cut", "m_path", "m_headers", "m_body", "m_field",
     "m_finished"}
States ==
    {"s_dead", "s_start", "s_res_status", "s_req_url", "s_req_path", "s_header_field_start",
     "s_header_field", "s_header_value_start", "s_header_value", "s_body_identity",
     "s_body_identity_eof", "s_chunk_size", "s_chunk_data", "s_chunk_data_done"}
Marks == {"none", "url", "field", "value", "body"}
Begins(t) == t.k \in {"method", "http"}

(* A parser has begun a message before it is in one, and before it has     *)
(* finished one.                                                           *)
Typed(p) ==
    /\ DOMAIN p = ParserFields /\ p.state \in States /\ p.mark \in Marks
    /\ {p.errno, p.exit, p.upgrade, p.m_finished, p.cut} \subseteq BOOLEAN
Sound(p) ==
    /\ Typed(p) /\ p.got \in Seq(Nat)
    /\ p.m_finished \/ p.state # "s_start" => p.got # <<>>

(* What reporting a text leaves alone. *)
LEMMA CallbackKeeps ==
    ASSUME NEW p, Typed(p), NEW r, r = Callback(p)
    PROVE  /\ Typed(r) /\ r.mark = "none" /\ r.buf = <<>>
           /\ \A x \in ParserFields \ {"mark", "buf", "errno", "m_path", "m_headers",
                                       "m_body", "m_field"} : r[x] = p[x]
<1> DEFINE q == CASE p.mark = "url"   -> on_url(p)
               [] p.mark = "field" -> on_header_field(p)
               [] p.mark = "value" -> on_header_value(p)
               [] p.mark = "body"  -> on_body(p)
               [] p.mark = "none"  -> p
<1>1. q \in {p, Fails(p), [p EXCEPT !.m_path = p.buf], [p EXCEPT !.m_field = p.buf],
             on_header_value(p), on_body(p)}
  BY DEF Typed, Marks, on_url, on_header_field
<1> HIDE DEF q
<1>2. /\ Typed(q)
      /\ \A x \in ParserFields \ {"errno", "m_path", "m_headers", "m_body", "m_field"} : q[x] = p[x]
  BY <1>1 DEF Typed, ParserFields, Fails, on_header_value, on_body
<1>3. r = [q EXCEPT !.mark = "none", !.buf = <<>>]
  BY Zenon DEF Callback, q
<1>4. QED
  BY <1>2, <1>3 DEF Typed, ParserFields, Marks

(* What marking a text leaves alone. *)
LEMMA MarkKeeps ==
    ASSUME NEW p, Typed(p), NEW m \in Marks, NEW t, NEW r, r = Mark(p, m, t)
    PROVE  /\ Typed(r) /\ r.mark = m
           /\ \A x \in ParserFields \ {"mark", "buf"} : r[x] = p[x]
BY DEF Mark, Typed, ParserFields

LEMMA MarkBuf ==
    ASSUME NEW p, Typed(p), NEW m \in Marks, NEW t, NEW r, r = Mark(p, m, t)
    PROVE  r.buf = IF p.mark = m THEN Append(p.buf, <<t.w, t.i>>) ELSE <<<<t.w, t.i>>>>
BY DEF Mark, Typed, ParserFields

(* The end of a message changes no text. *)
LEMMA DoneKeeps ==
    ASSUME NEW p, Typed(p), NEW r, r = message_done(p)
    PROVE  /\ Typed(r) /\ r.m_finished = TRUE /\ r.state \in {"s_start", "s_dead"}
           /\ r.exit = p.upgrade
           /\ \A x \in ParserFields \ {"m_finished", "state", "exit"} : r[x] = p[x]
BY DEF message_done, on_message_complete, Typed, ParserFields, States

(* The end of the headers ends the message or begins its body.             *)
LEMMA HeadersDoneKeeps ==
    ASSUME NEW p, Typed(p), NEW r, r = headers_almost_done(p)
    PROVE  /\ Typed(r)
           /\ \A x \in ParserFields \ {"m_finished", "state", "exit", "errno", "upgrade"} :
                  r[x] = p[x]
<1> DEFINE u == /\ {"upgrade", "connection-upgrade"} \subseteq p.flags
                /\ p.type = "request" \/ p.status = "101"
           q == [p EXCEPT !.upgrade = u]
<1>1. u \in BOOLEAN
  OBVIOUS
<1> HIDE DEF u
<1>2. Typed(q) /\ \A x \in ParserFields \ {"upgrade"} : q[x] = p[x]
  BY <1>1 DEF Typed, ParserFields
<1>3. headers_almost_done(p) \in {message_done(p), Fails(p), headers_done(q)}
  BY DEF headers_almost_done, u
<1> HIDE DEF q
<1>4. headers_done(q) \in {message_done(q), [q EXCEPT !.state = "s_chunk_size"],
          [q EXCEPT !.state = "s_body_identity"], [q EXCEPT !.state = "s_body_identity_eof"]}
  BY DEF headers_done
<1>5. /\ Typed(message_done(p)) /\ Typed(message_done(q))
      /\ \A x \in ParserFields \ {"m_finished", "state", "exit"} :
             message_done(p)[x] = p[x] /\ message_done(q)[x] = q[x]
  BY <1>2, DoneKeeps
<1>6. /\ Typed(Fails(p)) /\ \A x \in ParserFields \ {"errno"} : Fails(p)[x] = p[x]
  BY DEF Fails, Typed, ParserFields
<1>7. ASSUME NEW s \in States
      PROVE  /\ Typed([q EXCEPT !.state = s])
             /\ \A x \in ParserFields \ {"state"} : [q EXCEPT !.state = s][x] = q[x]
  BY <1>2 DEF Typed, ParserFields
<1>8. {"s_chunk_size", "s_body_identity", "s_body_identity_eof"} \subseteq States
  BY DEF States
<1> DEFINE Kept(s) == /\ Typed(s)
                      /\ \A x \in ParserFields \ {"m_finished", "state", "exit", "errno", "upgrade"} :
                             s[x] = p[x]
<1>9. /\ Kept(message_done(p)) /\ Kept(message_done(q)) /\ Kept(Fails(p))
      /\ \A s \in States : Kept([q EXCEPT !.state = s])
  BY <1>2, <1>5, <1>6, <1>7
<1> HIDE DEF Kept
<1>10. Kept(headers_almost_done(p))
  BY <1>3, <1>4, <1>8, <1>9
<1>11. QED
  BY <1>10 DEF Kept

(* A token begins a message, or leaves those that have been begun. *)
Moves(p, r, t) ==
    /\ Typed(r) /\ r.type = p.type
    /\ \/ r.got = p.got /\ (p.state = "s_start" => r.state = "s_start")
                        /\ (p.state = "s_start" => r.m_finished = p.m_finished)
       \/ p.state = "s_start" /\ Begins(t) /\ r.got = Append(p.got, t.i)

LEMMA SwitchMoves ==
    ASSUME NEW p, Typed(p), NEW t
    PROVE  Moves(p, Switch(p, t), t)
<1> DEFINE r == Switch(p, t)
           Keeps(q) == Typed(q) /\ q.got = p.got /\ q.type = p.type
<1>f. Keeps(Fails(p)) /\ Fails(p).state = p.state /\ Fails(p).m_finished = p.m_finished
  BY DEF Fails, Typed, ParserFields
<1>p. Keeps(p)
  OBVIOUS
<1>1. CASE p.errno \/ p.exit \/ p.state = "s_dead"
  <2>1. r \in {p, Fails(p)}
    BY <1>1 DEF Switch, Typed
  <2>2. QED
    BY <2>1, <1>f DEF Moves
<1>2. CASE ~(p.errno \/ p.exit) /\ p.state = "s_start"
  <2>1. r = StartReq(p, t) \/ r = StartRes(p, t)
    BY <1>2 DEF Switch, Typed
  <2>2. r \in {p, Fails(p)} \/ /\ Begins(t)
                               /\ \/ r = [Begun(p, t) EXCEPT !.state = "s_req_url"]
                                  \/ r = [Begun(p, t) EXCEPT !.state = "s_res_status", !.version = t.w]
    BY <2>1 DEF StartReq, StartRes, Begins
  <2>3. Typed(Begun(p, t)) /\ Begun(p, t).got = Append(p.got, t.i) /\ Begun(p, t).type = p.type
    BY DEF Begun, Typed, ParserFields
  <2> HIDE DEF r
  <2>4. CASE r \in {p, Fails(p)}
    BY <1>2, <1>f, <2>4 DEF Moves, r
  <2>5. CASE r \notin {p, Fails(p)}
    <3>1. Typed(r) /\ r.got = Append(p.got, t.i) /\ r.type = p.type
      BY <2>2, <2>3, <2>5, ZenonT(60) DEF Typed, ParserFields, States
    <3>2. QED
      BY <1>2, <2>2, <2>5, <3>1 DEF Moves, r
  <2>6. QED
    BY <2>4, <2>5
<1>3. CASE ~(p.errno \/ p.exit) /\ p.state \notin {"s_dead", "s_start"}
  <2>m. ASSUME NEW m \in Marks, NEW q, q = Mark(p, m, t)
        PROVE  Keeps(q)
    <3>1. Typed(q) /\ \A x \in ParserFields \ {"mark", "buf"} : q[x] = p[x]
      BY <2>m, MarkKeeps
    <3>2. QED
      BY <3>1 DEF ParserFields
  <2>c. ASSUME NEW s, Keeps(s), NEW q, q = Callback(s)
        PROVE  Keeps(q)
    BY <2>c, CallbackKeeps DEF ParserFields
  <2>d. ASSUME NEW s, Keeps(s), NEW q, q = message_done(s)
        PROVE  Keeps(q)
    <3>1. Typed(q) /\ \A x \in ParserFields \ {"m_finished", "state", "exit"} : q[x] = s[x]
      BY <2>d, DoneKeeps
    <3>2. QED
      BY <2>d, <3>1 DEF ParserFields
  <2>h. ASSUME NEW q, q = headers_almost_done(p)
        PROVE  Keeps(q)
    BY <2>h, HeadersDoneKeeps DEF ParserFields
  <2>u. {"url", "field", "value", "body"} \subseteq Marks
    BY DEF Marks
  <2>v. PICK u, fd, v, b : /\ u = Mark(p, "url", t) /\ fd = Mark(p, "field", t)
                           /\ v = Mark(p, "value", t) /\ b = Mark(p, "body", t)
    OBVIOUS
  <2>w. Keeps(u) /\ Keeps(fd) /\ Keeps(v) /\ Keeps(b)
    BY <2>m, <2>u, <2>v
  <2>1. ASSUME p.state \in {"s_res_status", "s_req_url"}
        PROVE  Keeps(r)
    <3>1. \/ r = Fails(p) \/ r = [p EXCEPT !.status = t.w, !.state = "s_header_field_start"]
          \/ r = [u EXCEPT !.state = "s_req_path"]
      BY <1>3, <2>1, <2>v DEF Switch, StatusLine, Url
    <3> HIDE DEF r
    <3>2. Keeps([p EXCEPT !.status = t.w, !.state = "s_header_field_start"])
      BY <1>p DEF Typed, ParserFields, States
    <3>3. Keeps([u EXCEPT !.state = "s_req_path"])
      BY <2>w DEF Typed, ParserFields, States
    <3>4. QED
      BY <1>f, <3>1, <3>2, <3>3
  <2>2. ASSUME p.state = "s_req_path"
        PROVE  Keeps(r)
    <3>1. PICK c : c = Callback(p)
      OBVIOUS
    <3>2. \/ r \in {Fails(p), u}
          \/ r = [c EXCEPT !.version = t.w, !.state = "s_header_field_start"]
      BY <1>3, <2>2, <2>v, <3>1 DEF Switch, Path, Version
    <3>3. Keeps(c)
      BY <1>p, <2>c, <3>1
    <3> HIDE DEF r
    <3>4. Keeps([c EXCEPT !.version = t.w, !.state = "s_header_field_start"])
      BY <3>3 DEF Typed, ParserFields, States
    <3>5. QED
      BY <1>f, <2>w, <3>2, <3>4
  <2>3. ASSUME p.state = "s_header_field_start"
        PROVE  Keeps(r)
    <3>1. \/ r \in {Fails(p), headers_almost_done(p)}
          \/ r = [fd EXCEPT !.state = "s_header_field", !.name = <<<<t.w, t.i>>>>]
      BY <1>3, <2>3, <2>v DEF Switch, FieldStart
    <3> HIDE DEF r
    <3>2. Keeps([fd EXCEPT !.state = "s_header_field", !.name = <<<<t.w, t.i>>>>])
      BY <2>w DEF Typed, ParserFields, States
    <3>3. QED
      BY <1>f, <2>h, <3>1, <3>2
  <2>4. ASSUME p.state = "s_header_field"
        PROVE  Keeps(r)
    <3>1. PICK s : s = [p EXCEPT !.state = "s_header_value_start", !.val = <<>>]
      OBVIOUS
    <3>2. \/ r = Fails(p) \/ r = [fd EXCEPT !.name = Append(@, <<t.w, t.i>>)]
          \/ r = Callback(s)
      BY <1>3, <2>4, <2>v, <3>1 DEF Switch, Field
    <3>3. Keeps(s)
      BY <1>p, <3>1 DEF Typed, ParserFields, States
    <3> HIDE DEF r
    <3>4. Keeps([fd EXCEPT !.name = Append(@, <<t.w, t.i>>)])
      BY <2>w DEF Typed, ParserFields
    <3>5. QED
      BY <1>f, <2>c, <3>2, <3>3, <3>4
  <2>5. ASSUME p.state = "s_header_value_start"
        PROVE  Keeps(r)
    <3>1. PICK s : s = [p EXCEPT !.mark = "value", !.buf = <<>>, !.state = "s_header_field_start"]
      OBVIOUS
    <3>2. \/ r = Fails(p) \/ r = Callback(s)
          \/ \E a : r = [v EXCEPT !.state = "s_header_value", !.val = <<<<t.w, t.i>>>>, !.flags = a]
      BY <1>3, <2>5, <2>v, <3>1 DEF Switch, ValueStart
    <3>3. Keeps(s)
      BY <1>p, <3>1 DEF Typed, ParserFields, States, Marks
    <3> HIDE DEF r
    <3>4. CASE r = Fails(p) \/ r = Callback(s)
      BY <1>f, <2>c, <3>3, <3>4
    <3>5. CASE \E a : r = [v EXCEPT !.state = "s_header_value", !.val = <<<<t.w, t.i>>>>, !.flags = a]
      BY <2>w, <3>5 DEF Typed, ParserFields, States
    <3>6. QED
      BY <3>2, <3>4, <3>5
  <2>6. ASSUME p.state = "s_header_value"
        PROVE  Keeps(r)
    <3>1. \/ r = Fails(p) \/ r = [v EXCEPT !.val = Append(@, <<t.w, t.i>>)]
          \/ \E a, n : r = Callback([p EXCEPT !.state = "s_header_field_start", !.flags = a,
                                             !.length = n])
      BY <1>3, <2>6, <2>v DEF Switch, Value
    <3>2. \A a, n : Keeps([p EXCEPT !.state = "s_header_field_start", !.flags = a, !.length = n])
      BY <1>p DEF Typed, ParserFields, States
    <3> HIDE DEF r
    <3>3. Keeps([v EXCEPT !.val = Append(@, <<t.w, t.i>>)])
      BY <2>w DEF Typed, ParserFields
    <3>4. CASE r = Fails(p) \/ r = [v EXCEPT !.val = Append(@, <<t.w, t.i>>)]
      BY <1>f, <3>3, <3>4
    <3>5. CASE \E a, n : r = Callback([p EXCEPT !.state = "s_header_field_start", !.flags = a,
                                               !.length = n])
      <4> HIDE DEF Keeps
      <4>1. PICK s : Keeps(s) /\ r = Callback(s)
        BY <3>2, <3>5
      <4>2. QED
        BY <2>c, <4>1
    <3>6. QED
      BY <3>1, <3>4, <3>5
  <2>7. ASSUME p.state \in {"s_body_identity", "s_body_identity_eof", "s_chunk_data"}
        PROVE  Keeps(r)
    <3>1. PICK q : q = [b EXCEPT !.length = @ - 1]
      OBVIOUS
    <3>2. r \in {Fails(p), q, b, message_done(Callback(q)), [q EXCEPT !.state = "s_chunk_data_done"]}
      BY <1>3, <2>7, <2>v, <3>1 DEF Switch, Body, ChunkData
    <3> HIDE DEF r
    <3>3. Keeps(q) /\ Keeps([q EXCEPT !.state = "s_chunk_data_done"])
      BY <2>w, <3>1 DEF Typed, ParserFields, States
    <3>4. Keeps(Callback(q))
      BY <2>c, <3>3
    <3>5. Keeps(message_done(Callback(q)))
      BY <2>d, <3>4
    <3>6. QED
      BY <1>f, <2>w, <3>2, <3>3, <3>5
  <2>8. ASSUME p.state \in {"s_chunk_size", "s_chunk_data_done"}
        PROVE  Keeps(r)
    <3>1. PICK s : s = [p EXCEPT !.state = "s_chunk_size"]
      OBVIOUS
    <3>2. \/ r \in {Fails(p), Callback(s)}
          \/ r = [p EXCEPT !.length = 0, !.flags = @ \cup {"trailing"},
                           !.state = "s_header_field_start"]
          \/ r = [p EXCEPT !.length = Numbers[t.w], !.state = "s_chunk_data"]
      BY <1>3, <2>8, <3>1 DEF Switch, ChunkSize, ChunkDataDone
    <3> HIDE DEF r
    <3>3. Keeps(s)
      BY <1>p, <3>1 DEF Typed, ParserFields, States
    <3>4. Keeps(Callback(s))
      BY <2>c, <3>3
    <3>5. QED
      BY <1>p, <1>f, <3>2, <3>4, ZenonT(60) DEF Typed, ParserFields, States
  <2>9. Keeps(r)
    BY <1>3, <2>1, <2>2, <2>3, <2>4, <2>5, <2>6, <2>7, <2>8 DEF Typed, States
  <2>10. QED
    BY <1>3, <2>9 DEF Moves, Keeps
<1>4. QED
  BY <1>1, <1>2, <1>3

(* http_parser_execute() reads the tokens one after the other. *)
Runs(run, p, data) ==
    /\ run[0] = Resume(p)
    /\ \A i \in 1 .. Len(data) : run[i] = Switch(run[i - 1], data[i])

LEMMA ExecuteRuns ==
    ASSUME NEW p, NEW data, Len(data) \in Nat
    PROVE  \E run : /\ Runs(run, p, data)
                    /\ http_parser_execute(p, data) =
                           IF p.errno THEN p
                           ELSE IF run[Len(data)].errno \/ run[Len(data)].exit THEN run[Len(data)]
                           ELSE Callback(run[Len(data)])
<1> DEFINE At(f, i) == IF i = 0 THEN Resume(p) ELSE Switch(f[i - 1], data[i])
           Fun(n)   == \E f : f = [i \in 0 .. n |-> At(f, i)]
           Funs     == {n \in Nat : Fun(n)}
           run[i \in 0 .. Len(data)] == IF i = 0 THEN Resume(p) ELSE Switch(run[i - 1], data[i])
<1>1. 0 \in Funs
  <2> DEFINE f == [i \in 0 .. 0 |-> Resume(p)]
  <2>1. f = [i \in 0 .. 0 |-> At(f, i)]
    OBVIOUS
  <2>2. Fun(0)
    BY <2>1
  <2> HIDE DEF Fun
  <2>3. QED
    BY <2>2
<1>2. ASSUME NEW n \in Nat, n \in Funs
      PROVE  n + 1 \in Funs
  <2>1. PICK f : f = [i \in 0 .. n |-> At(f, i)]
    BY <1>2
  <2> DEFINE g == [i \in 0 .. n + 1 |-> At(f, i)]
  <2>2. \A i \in 0 .. n + 1 : At(g, i) = At(f, i)
    <3>1. \A i \in 0 .. n : f[i] = At(f, i) /\ g[i] = At(f, i)
      <4>1. \A i \in 0 .. n : i \in 0 .. n + 1
        BY <1>2
      <4> HIDE DEF At
      <4>2. QED
        BY <2>1, <4>1
    <3> HIDE DEF g
    <3>2. \A i \in 0 .. n + 1 : i # 0 => i - 1 \in 0 .. n
      BY <1>2
    <3>3. QED
      BY <3>1, <3>2
  <2>3. g = [i \in 0 .. n + 1 |-> At(g, i)]
    BY <2>2
  <2>4. Fun(n + 1)
    BY <2>3
  <2> HIDE DEF Fun
  <2>5. QED
    BY <2>4
<1>3. Nat \subseteq Funs
  <2> HIDE DEF Funs
  <2>1. QED
    BY <1>1, <1>2, InductiveSet
<1>4. PICK f : f = [i \in 0 .. Len(data) |-> At(f, i)]
  <2>1. Len(data) \in Funs
    <3> HIDE DEF Funs
    <3>1. QED
      BY <1>3
  <2>2. QED
    BY <2>1
<1>5. run = [i \in 0 .. Len(data) |-> IF i = 0 THEN Resume(p) ELSE Switch(run[i - 1], data[i])]
  BY <1>4, Zenon
<1>6. http_parser_execute(p, data) =
          IF p.errno THEN p
          ELSE IF run[Len(data)].errno \/ run[Len(data)].exit THEN run[Len(data)]
          ELSE Callback(run[Len(data)])
  BY Zenon DEF http_parser_execute
<1> HIDE DEF run
<1>7. Runs(run, p, data)
  <2>1. 0 \in 0 .. Len(data) /\ \A i \in 1 .. Len(data) : i \in 0 .. Len(data) /\ i # 0
    OBVIOUS
  <2>2. QED
    BY <1>5, <2>1, Zenon DEF Runs
<1>8. QED
  BY <1>6, <1>7

(* A call begins: nothing but the mark changes. *)
LEMMA ResumeKeeps ==
    ASSUME NEW p, Typed(p), NEW r, r = Resume(p)
    PROVE  /\ Typed(r) /\ r.buf = <<>>
           /\ r.mark = CASE p.state = "s_req_path"     -> "url"
                         [] p.state = "s_header_field" -> "field"
                         [] p.state = "s_header_value" -> "value"
                         [] OTHER -> "none"
           /\ r.cut = (p.cut \/ r.mark # "none")
           /\ \A x \in ParserFields \ {"mark", "buf", "cut"} : r[x] = p[x]
BY ZenonT(60) DEF Resume, Typed, ParserFields, Marks

(* The numbers of the messages that begin in s. *)
Ids(s) == {s[i].i : i \in {j \in 1 .. Len(s) : Begins(s[j])}}

LEMMA AppendedIds ==
    ASSUME NEW g \in Seq(Nat), NEW x \in Nat
    PROVE  /\ Append(g, x) \in Seq(Nat) /\ Append(g, x) # <<>>
           /\ ToSet(Append(g, x)) = ToSet(g) \cup {x}
<1> DEFINE h == Append(g, x)
<1>1. /\ h \in Seq(Nat) /\ Len(h) = Len(g) + 1 /\ Len(g) \in Nat /\ h # <<>>
      /\ \A i \in 1 .. Len(g) : h[i] = g[i]
      /\ h[Len(g) + 1] = x /\ DOMAIN h = 1 .. Len(g) + 1 /\ DOMAIN g = 1 .. Len(g)
  BY AppendProperties, LenProperties
<1> HIDE DEF h
<1>2. \A i \in 1 .. Len(g) + 1 : i \in 1 .. Len(g) \/ i = Len(g) + 1
  BY <1>1
<1>3. \A i \in 1 .. Len(g) : i \in 1 .. Len(g) + 1
  BY <1>1
<1>4. Len(g) + 1 \in 1 .. Len(g) + 1
  BY <1>1
<1>5. ToSet(h) = ToSet(g) \cup {x}
  BY <1>1, <1>2, <1>3, <1>4 DEF ToSet
<1>6. QED
  BY <1>1, <1>5 DEF h

(* What execute() has begun. *)
LEMMA ExecuteIds ==
    ASSUME NEW p, Sound(p), NEW data, Len(data) \in Nat, Ids(data) \subseteq Nat,
           NEW q, q = http_parser_execute(p, data)
    PROVE  /\ Sound(q) /\ q.type = p.type
           /\ ToSet(q.got) \subseteq ToSet(p.got) \cup Ids(data)
<1>1. PICK run : /\ Runs(run, p, data)
                 /\ q = IF p.errno THEN p
                        ELSE IF run[Len(data)].errno \/ run[Len(data)].exit THEN run[Len(data)]
                        ELSE Callback(run[Len(data)])
  BY ExecuteRuns
<1> DEFINE Ok(r) == /\ Sound(r) /\ r.type = p.type
                    /\ ToSet(r.got) \subseteq ToSet(p.got) \cup Ids(data)
           S == {i \in Nat : i <= Len(data) => Ok(run[i])}
<1>2. 0 \in S
  <2>1. run[0] = Resume(p)
    BY <1>1 DEF Runs
  <2>2. Typed(run[0]) /\ \A x \in ParserFields \ {"mark", "buf", "cut"} : run[0][x] = p[x]
    BY <2>1, ResumeKeeps DEF Sound
  <2>3. /\ run[0].got = p.got /\ run[0].state = p.state /\ run[0].m_finished = p.m_finished
        /\ run[0].type = p.type
    BY <2>2 DEF ParserFields
  <2>4. QED
    BY <2>2, <2>3 DEF Sound
<1>3. ASSUME NEW i \in Nat, i \in S
      PROVE  i + 1 \in S
  <2> SUFFICES ASSUME i + 1 <= Len(data)
               PROVE  Ok(run[i + 1])
    OBVIOUS
  <2>1. i <= Len(data) /\ i + 1 \in 1 .. Len(data) /\ (i + 1) - 1 = i
    OBVIOUS
  <2> DEFINE a == run[i]
             b == run[i + 1]
             t == data[i + 1]
  <2>2. Ok(a)
    BY <1>3, <2>1
  <2>3. b = Switch(a, t)
    BY <1>1, <2>1 DEF Runs
  <2>4. Moves(a, b, t)
    BY <2>2, <2>3, SwitchMoves DEF Sound
  <2>5. Begins(t) => t.i \in Ids(data)
    BY <2>1 DEF Ids
  <2> HIDE DEF a, b, t
  <2>6. ASSUME b.got = a.got /\ (a.state = "s_start" => b.state = "s_start")
                             /\ (a.state = "s_start" => b.m_finished = a.m_finished)
        PROVE  Ok(b)
    <3>1. Typed(b) /\ b.type = a.type
      BY <2>4 DEF Moves
    <3>2. /\ a.got \in Seq(Nat) /\ a.type = p.type
          /\ a.m_finished \/ a.state # "s_start" => a.got # <<>>
      BY <2>2 DEF Sound
    <3>3. b.m_finished \/ b.state # "s_start" => b.got # <<>>
      <4>1. CASE a.state = "s_start"
        BY <2>6, <3>2, <4>1, Zenon
      <4>2. CASE a.state # "s_start"
        BY <2>6, <3>2, <4>2, Zenon
      <4>3. QED
        BY <4>1, <4>2
    <3>4. Sound(b)
      BY <2>6, <3>1, <3>2, <3>3, Zenon DEF Sound
    <3>5. ToSet(b.got) \subseteq ToSet(p.got) \cup Ids(data)
      BY <2>2, <2>6, Zenon
    <3>6. QED
      BY <3>1, <3>2, <3>4, <3>5, Zenon
  <2>7. ASSUME a.state = "s_start" /\ Begins(t) /\ b.got = Append(a.got, t.i)
        PROVE  Ok(b)
    <3>1. t.i \in Nat /\ t.i \in Ids(data) /\ a.got \in Seq(Nat)
      BY <2>2, <2>5, <2>7 DEF Sound
    <3>2. b.got \in Seq(Nat) /\ b.got # <<>> /\ ToSet(b.got) = ToSet(a.got) \cup {t.i}
      BY <2>7, <3>1, AppendedIds
    <3>3. Typed(b) /\ b.type = a.type
      BY <2>4 DEF Moves
    <3>4. Sound(b)
      BY <3>2, <3>3, Zenon DEF Sound
    <3>5. ToSet(a.got) \subseteq ToSet(p.got) \cup Ids(data) /\ a.type = p.type
      BY <2>2
    <3>6. ToSet(b.got) \subseteq ToSet(p.got) \cup Ids(data)
      BY <3>1, <3>2, <3>5, Zenon
    <3>7. QED
      BY <3>3, <3>4, <3>5, <3>6, Zenon
  <2>8. Ok(b)
    <3> HIDE DEF Ok
    <3>1. QED
      BY <2>4, <2>6, <2>7, Zenon DEF Moves
  <2>9. QED
    BY <2>8 DEF b
<1>4. Nat \subseteq S
  <2> HIDE DEF S
  <2>1. QED
    BY <1>2, <1>3, InductiveSet
<1> DEFINE e == run[Len(data)]
<1>5. Ok(e)
  <2>1. Len(data) \in S
    <3> HIDE DEF S
    <3>1. QED
      BY <1>4
  <2>2. QED
    BY <2>1
<1>6. q = p \/ q = e \/ q = Callback(e)
  BY <1>1
<1> HIDE DEF e
<1>7. CASE q = Callback(e)
  <2>1. /\ Typed(q)
        /\ \A x \in ParserFields \ {"mark", "buf", "errno", "m_path", "m_headers",
                                   "m_body", "m_field"} : q[x] = e[x]
    BY <1>5, <1>7, CallbackKeeps DEF Sound
  <2>2. q.got = e.got /\ q.state = e.state /\ q.m_finished = e.m_finished /\ q.type = e.type
    BY <2>1 DEF ParserFields
  <2>3. QED
    BY <1>5, <2>1, <2>2 DEF Sound
<1>8. QED
  BY <1>5, <1>6, <1>7

-----------------------------------------------------------------------------
(* What dump() writes *)

Kinds == {"method", "url", "version", "http", "code", "field", "colon", "value", "crlf",
          "size", "body"}
Text  == STRING \cup {"crlf", ":", "n0", "n1", "n2", "body", "GET", "/", "404", "html",
                      "content-type", "server", "sylar", "connection", "close", "keep-alive",
                      "content-length"}
Token == [k : Kinds, w : Text, i : Nat]
RestToken == {t \in Token : ~Begins(t)}
Fields == Seq(Text \X Text)
IsMessage(m) == m.headers \in Fields /\ m.body \in Lengths
Chunked(m) == Pair("transfer-encoding", "chunked") \in ToSet(m.headers)
HeadLen(m) == 6 * Len(m.headers) + 1

LEMMA RestTokensAre ==
    /\ Crlf \in RestToken /\ Tok("colon", ":", 1) \in RestToken
    /\ Tok("size", "n1", 1) \in RestToken /\ Tok("size", "n0", 1) \in RestToken
    /\ \A i \in Nat : Tok("body", "body", i) \in RestToken
    /\ \A w \in Text, i \in Nat : /\ Tok("field", w, i) \in RestToken
                                   /\ Tok("value", w, i) \in RestToken
<1>1. \A k \in {"crlf", "colon", "size", "body", "field", "value"}, w \in Text, i \in Nat :
          Tok(k, w, i) \in RestToken
  <2> SUFFICES ASSUME NEW k \in {"crlf", "colon", "size", "body", "field", "value"},
                      NEW w \in Text, NEW i \in Nat
               PROVE  Tok(k, w, i) \in RestToken
    OBVIOUS
  <2>1. k \in Kinds /\ k \notin {"method", "http"}
    BY DEF Kinds
  <2>2. QED
    BY <2>1 DEF Tok, Token, RestToken, Begins
<1>2. "crlf" \in Text /\ ":" \in Text /\ "n0" \in Text /\ "n1" \in Text /\ "body" \in Text
  BY DEF Text
<1>3. 1 \in Nat
  OBVIOUS
<1>4. QED
  BY <1>1, <1>2, <1>3 DEF Crlf

LEMMA LengthsAre == Lengths = {0, 1, 2} /\ Words[1] = "n0" /\ Words[2] = "n1" /\ Words[3] = "n2"
BY DEF Lengths, Words

(* A header is a line of six tokens. *)
LEMMA LineTokens ==
    ASSUME NEW h \in Text \X Text, NEW l, l = Line(h)
    PROVE  /\ l \in Seq(RestToken) /\ Len(l) = 6
           /\ l[1] = Tok("field", h[1], 1) /\ l[2] = Tok("field", h[1], 2)
           /\ l[3] = Tok("colon", ":", 1)
           /\ l[4] = Tok("value", h[2], 1) /\ l[5] = Tok("value", h[2], 2) /\ l[6] = Crlf
<1>1. h[1] \in Text /\ h[2] \in Text
  OBVIOUS
<1> DEFINE a == Tok("field", h[1], 1)
           b == Tok("field", h[1], 2)
           c == Tok("colon", ":", 1)
           d == Tok("value", h[2], 1)
           e == Tok("value", h[2], 2)
<1>2. {a, b, c, d, e, Crlf} \subseteq RestToken
  BY <1>1, RestTokensAre
<1>3. l = <<a, b>> \o <<c>> \o <<d, e>> \o <<Crlf>>
  BY DEF Line, Both
<1> HIDE DEF a, b, c, d, e
<1> DEFINE x == <<a, b>> \o <<c>>
           y == x \o <<d, e>>
<1>4. x \in Seq(RestToken) /\ Len(x) = 3 /\ x[1] = a /\ x[2] = b /\ x[3] = c
  BY <1>2
<1>5. l = y \o <<Crlf>>
  BY <1>3
<1> HIDE DEF x
<1>6. /\ y \in Seq(RestToken) /\ Len(y) = 5
      /\ y[1] = a /\ y[2] = b /\ y[3] = c /\ y[4] = d /\ y[5] = e
  <2>1. <<d, e>> \in Seq(RestToken) /\ Len(<<d, e>>) = 2 /\ <<d, e>>[1] = d /\ <<d, e>>[2] = e
    BY <1>2
  <2>2. PICK z : z = <<d, e>>
    OBVIOUS
  <2>3. /\ y \in Seq(RestToken) /\ Len(y) = 3 + 2 /\ \A k \in 1 .. 3 : y[k] = x[k]
        /\ \A k \in 1 .. 2 : y[3 + k] = z[k]
    <3>1. x \in Seq(RestToken) /\ z \in Seq(RestToken) /\ y = x \o z
      BY <1>4, <2>1, <2>2
    <3> HIDE DEF y
    <3>2. /\ y \in Seq(RestToken) /\ Len(y) = Len(x) + Len(z)
          /\ \A k \in 1 .. Len(x) : y[k] = x[k]
          /\ \A k \in 1 .. Len(z) : y[Len(x) + k] = z[k]
      BY <3>1
    <3>3. QED
      BY <1>4, <2>1, <2>2, <3>2
  <2> HIDE DEF y
  <2>4. y[3 + 1] = z[1] /\ y[3 + 2] = z[2]
    BY <2>3
  <2>5. QED
    BY <1>4, <2>1, <2>2, <2>3, <2>4
<1> HIDE DEF y
<1>7. l \in Seq(RestToken) /\ Len(l) = 6 /\ l[6] = Crlf /\ \A k \in 1 .. 5 : l[k] = y[k]
  <2>1. <<Crlf>> \in Seq(RestToken) /\ Len(<<Crlf>>) = 1 /\ <<Crlf>>[1] = Crlf
    BY <1>2
  <2>2. PICK z : z = <<Crlf>>
    OBVIOUS
  <2>3. /\ l \in Seq(RestToken) /\ Len(l) = 5 + 1 /\ \A k \in 1 .. 5 : l[k] = y[k]
        /\ \A k \in 1 .. 1 : l[5 + k] = z[k]
    <3>1. y \in Seq(RestToken) /\ z \in Seq(RestToken) /\ l = y \o z
      BY <1>5, <1>6, <2>1, <2>2
    <3>2. /\ l \in Seq(RestToken) /\ Len(l) = Len(y) + Len(z)
          /\ \A k \in 1 .. Len(y) : l[k] = y[k]
          /\ \A k \in 1 .. Len(z) : l[Len(y) + k] = z[k]
      BY <3>1
    <3>3. QED
      BY <1>6, <2>1, <2>2, <3>2
  <2>4. l[5 + 1] = z[1]
    BY <2>3
  <2>5. QED
    BY <2>1, <2>2, <2>3, <2>4
<1>8. QED
  BY <1>6, <1>7 DEF a, b, c, d, e

(* The header lines. *)
Lines(h) == [i \in DOMAIN h |-> Line(h[i])]

LEMMA HeadTokens ==
    ASSUME NEW h \in Fields, NEW s, s = FlattenSeq(Lines(h))
    PROVE  /\ s \in Seq(RestToken) /\ Len(s) = 6 * Len(h)
           /\ \A i \in 1 .. Len(h) : \A k \in 1 .. 6 : s[6 * (i - 1) + k] = Line(h[i])[k]
<1>1. Len(h) \in Nat /\ DOMAIN h = 1 .. Len(h) /\ \A i \in 1 .. Len(h) : h[i] \in Text \X Text
  BY LenProperties, ElementOfSeq DEF Fields
<1> DEFINE ss == Lines(h)
<1>2. \A i \in 1 .. Len(h) : Line(h[i]) \in Seq(RestToken) /\ Len(Line(h[i])) = 6
  BY <1>1, LineTokens
<1>3. ss = [i \in 1 .. Len(h) |-> Line(h[i])] /\ ss \in Seq(Seq(RestToken)) /\ Len(ss) = Len(h)
  BY <1>1, <1>2 DEF Lines
<1>4. \A i \in 1 .. Len(ss) : ss[i] = Line(h[i]) /\ Len(ss[i]) = 6
  BY <1>2, <1>3
<1> HIDE DEF ss
<1>5. s = FlattenSeq(ss)
  BY DEF ss
<1>6. /\ s \in Seq(RestToken) /\ Len(s) = 6 * Len(ss)
      /\ \A i \in 1 .. Len(ss) : \A k \in 1 .. 6 : s[6 * (i - 1) + k] = ss[i][k]
  <2>1. ss \in Seq(Seq(RestToken)) /\ AllOf(ss, 6) /\ 6 \in Nat
    BY <1>3, <1>4 DEF AllOf
  <2>2. s \in Seq(RestToken) /\ InBlocks(s, ss, 6)
    BY <1>5, <2>1, EqualBlocks, Zenon
  <2>3. QED
    BY <2>2 DEF InBlocks
<1>7. QED
  BY <1>3, <1>4, <1>6

(* The body in chunks of one byte. *)
LEMMA ChunkTokens ==
    ASSUME NEW n \in Nat
    PROVE  Chunks(n) \in Seq(RestToken)
<1> DEFINE ss == [i \in 1 .. n |-> <<Tok("size", "n1", 1), Tok("body", "body", i), Crlf>>]
           a == FlattenSeq(ss)
           z == <<Tok("size", "n0", 1), Crlf>>
<1>1. /\ Tok("size", "n1", 1) \in RestToken /\ Tok("size", "n0", 1) \in RestToken
      /\ Crlf \in RestToken /\ \A i \in 1 .. n : Tok("body", "body", i) \in RestToken
  BY RestTokensAre
<1>2. ss \in Seq(Seq(RestToken)) /\ \A i \in 1 .. Len(ss) : Len(ss[i]) = 3
  BY <1>1
<1>3. a \in Seq(RestToken)
  <2> HIDE DEF ss
  <2>1. ss \in Seq(Seq(RestToken)) /\ AllOf(ss, 3) /\ 3 \in Nat
    BY <1>2 DEF AllOf
  <2>2. QED
    BY <2>1, EqualBlocks, Zenon
<1>4. z \in Seq(RestToken)
  BY <1>1
<1>5. Chunks(n) = a \o z
  BY DEF Chunks
<1> HIDE DEF a, z
<1>6. QED
  BY <1>3, <1>4, <1>5

(* What follows the first line of a message: its header lines and b.       *)
RestIs(m, b, s) ==
    /\ s \in Seq(RestToken) /\ Len(s) = HeadLen(m) + Len(b)
    /\ \A i \in 1 .. Len(m.headers) : \A k \in 1 .. 6 :
           s[6 * (i - 1) + k] = Line(m.headers[i])[k]
    /\ s[HeadLen(m)] = Crlf
    /\ \A i \in 1 .. Len(b) : s[HeadLen(m) + i] = b[i]

LEMMA RestTokens ==
    ASSUME NEW m, IsMessage(m), NEW b \in Seq(RestToken)
    PROVE  RestIs(m, b, HeadLines(m) \o b)
<1> DEFINE a == FlattenSeq(Lines(m.headers))
           n == Len(m.headers)
           s == HeadLines(m) \o b
<1>1. n \in Nat /\ m.body \in Nat
  BY LengthsAre, LenProperties DEF IsMessage, Fields
<1>2. /\ a \in Seq(RestToken) /\ Len(a) = 6 * n
      /\ \A i \in 1 .. n : \A k \in 1 .. 6 : a[6 * (i - 1) + k] = Line(m.headers[i])[k]
  BY HeadTokens, ZenonT(60) DEF IsMessage
<1>3. Crlf \in RestToken
  BY RestTokensAre
<1>4. b \in Seq(RestToken)
  OBVIOUS
<1>5. s = a \o <<Crlf>> \o b
  BY DEF HeadLines, Lines
<1> HIDE DEF a, s
<1>6. /\ s \in Seq(RestToken) /\ Len(s) = 6 * n + 1 + Len(b)
      /\ \A i \in 1 .. 6 * n : s[i] = a[i]
      /\ s[6 * n + 1] = Crlf
      /\ \A i \in 1 .. Len(b) : s[6 * n + 1 + i] = b[i]
  <2> DEFINE c == a \o <<Crlf>>
  <2>1. /\ c \in Seq(RestToken) /\ Len(c) = 6 * n + 1 /\ c[6 * n + 1] = Crlf
        /\ \A i \in 1 .. 6 * n : c[i] = a[i]
    BY <1>1, <1>2, <1>3
  <2>2. s = c \o b
    BY <1>5
  <2> HIDE DEF c
  <2>3. PICK x \in Nat : x = 6 * n + 1
    BY <1>1
  <2>4. Len(b) \in Nat
    BY <1>4, LenProperties
  <2>a. /\ s \in Seq(RestToken) /\ Len(s) = Len(c) + Len(b)
        /\ \A k \in 1 .. Len(c) : s[k] = c[k]
        /\ \A k \in 1 .. Len(b) : s[Len(c) + k] = b[k]
    <3>1. c \in Seq(RestToken) /\ b \in Seq(RestToken)
      BY <1>4, <2>1
    <3>2. QED
      BY <2>2, <3>1
  <2>5. s \in Seq(RestToken) /\ Len(s) = x + Len(b)
    BY <2>1, <2>3, <2>a
  <2>6. \A i \in 1 .. x : s[i] = c[i]
    BY <2>1, <2>3, <2>a
  <2>7. \A i \in 1 .. Len(b) : s[x + i] = b[i]
    BY <2>1, <2>3, <2>a
  <2>8. \A i \in 1 .. 6 * n : i \in 1 .. x
    BY <1>1, <2>3
  <2>9. 6 * n + 1 \in 1 .. x
    BY <1>1, <2>3
  <2>10. QED
    BY <2>1, <2>3, <2>5, <2>6, <2>7, <2>8, <2>9
<1>7. ASSUME NEW i \in 1 .. n, NEW k \in 1 .. 6
      PROVE  s[6 * (i - 1) + k] = Line(m.headers[i])[k]
  <2>1. 6 * (i - 1) + k \in 1 .. 6 * n
    BY <1>1
  <2>2. QED
    BY <1>2, <1>6, <2>1
<1>8. /\ HeadLen(m) = 6 * n + 1 /\ Len(s) = HeadLen(m) + Len(b) /\ s[HeadLen(m)] = Crlf
      /\ \A i \in 1 .. Len(b) : s[HeadLen(m) + i] = b[i]
  BY <1>6 DEF HeadLen
<1>9. QED
  BY <1>6, <1>7, <1>8 DEF RestIs, s, n

LEMMA HeadIsSeq ==
    ASSUME NEW m, IsMessage(m)
    PROVE  HeadLines(m) \in Seq(RestToken)
<1>1. PICK a : a = FlattenSeq(Lines(m.headers))
  OBVIOUS
<1>2. a \in Seq(RestToken)
  BY <1>1, HeadTokens, ZenonT(60) DEF IsMessage
<1>3. HeadLines(m) = a \o <<Crlf>>
  BY <1>1 DEF HeadLines, Lines
<1>4. QED
  BY <1>2, <1>3, RestTokensAre

LEMMA BodyTokens ==
    ASSUME NEW n \in Nat, NEW b, b = Bytes(n)
    PROVE  b \in Seq(RestToken) /\ Len(b) = n /\ \A i \in 1 .. n : b[i] = Tok("body", "body", i)
<1>1. \A i \in 1 .. n : Tok("body", "body", i) \in RestToken
  BY RestTokensAre
<1>2. QED
  BY <1>1 DEF Bytes

-----------------------------------------------------------------------------
(* A response as it is read *)

Part == Text \X Nat
IsLength(h) == h[1] = "content-length"
IsResponse(m) ==
    /\ IsMessage(m)
    /\ m.body > 0 => \E x \in 1 .. Len(m.headers) :
                         m.headers[x] = Pair("content-length", Words[m.body + 1])

(* A parser in the middle of the response m to request id. *)
Reading(p, m, id) ==
    /\ Typed(p) /\ p.type = "response" /\ ~p.errno /\ ~p.exit /\ ~p.m_finished
    /\ p.got = <<id>> /\ p.status = m.status
    /\ p.m_body \in Seq(Part) /\ p.buf \in Seq(Part)

(* It has read b bytes of the body. *)
Carries(p, b) == Len(p.m_body) + (IF p.mark = "body" THEN Len(p.buf) ELSE 0) = b

(* What i headers, and the beginning of one more when o is i + 1, say.     *)
Learnt(flags, length, m, i, o) ==
    /\ "trailing" \notin flags
    /\ "chunked" \in flags <=>
           \E x \in 1 .. i : m.headers[x] = Pair("transfer-encoding", "chunked")
    /\ "content-length" \in flags <=> \E x \in 1 .. o : IsLength(m.headers[x])
    /\ \A x \in 1 .. i : IsLength(m.headers[x]) =>
           m.headers[x][2] \in DOMAIN Numbers /\ length = Numbers[m.headers[x][2]]
    /\ (\A x \in 1 .. i : ~IsLength(m.headers[x])) => length = NoLength

(* q tokens of the line of header h have been read. *)
InLine(p, h, q) ==
    /\ q = 0 => p.state = "s_header_field_start"
    /\ q = 1 => p.state = "s_header_field" /\ p.name = <<<<h[1], 1>>>>
    /\ q = 2 => p.state = "s_header_field" /\ p.name = Whole(h[1])
    /\ q = 3 => p.state = "s_header_value_start" /\ p.name = Whole(h[1])
    /\ q = 4 => p.state = "s_header_value" /\ p.name = Whole(h[1]) /\ p.val = <<<<h[2], 1>>>>
    /\ q = 5 => p.state = "s_header_value" /\ p.name = Whole(h[1]) /\ p.val = Whole(h[2])
Opened(i, q) == IF q \in {4, 5} THEN i + 1 ELSE i
Once(m, i, q) ==
    q \in {4, 5} /\ IsLength(m.headers[i + 1]) =>
        /\ m.headers[i + 1][2] \in DOMAIN Numbers
        /\ \A x \in 1 .. i : ~IsLength(m.headers[x])
InHead(p, m, id, i, q) ==
    /\ Reading(p, m, id) /\ Carries(p, 0) /\ p.mark # "body"
    /\ Learnt(p.flags, p.length, m, i, Opened(i, q))
    /\ InLine(p, m.headers[i + 1], q) /\ Once(m, i, q)

LEMMA MarkReads ==
    ASSUME NEW m, NEW id, NEW p, Reading(p, m, id), NEW k \in Marks, NEW t, <<t.w, t.i>> \in Part,
           NEW r, r = Mark(p, k, t)
    PROVE  /\ Reading(r, m, id) /\ r.mark = k
           /\ Len(r.buf) = IF p.mark = k THEN Len(p.buf) + 1 ELSE 1
           /\ \A x \in ParserFields \ {"mark", "buf"} : r[x] = p[x]
<1>1. /\ Typed(r) /\ r.mark = k
      /\ \A x \in ParserFields \ {"mark", "buf"} : r[x] = p[x]
  BY MarkKeeps DEF Reading
<1>2. r.buf = IF p.mark = k THEN Append(p.buf, <<t.w, t.i>>) ELSE <<<<t.w, t.i>>>>
  BY MarkBuf DEF Reading
<1>3. p.buf \in Seq(Part)
  BY DEF Reading
<1>4. PICK b, a : b = p.buf /\ a = <<t.w, t.i>>
  OBVIOUS
<1>5. /\ Append(b, a) \in Seq(Part) /\ Len(Append(b, a)) = Len(b) + 1
      /\ <<a>> \in Seq(Part) /\ Len(<<a>>) = 1
  <2>1. b \in Seq(Part) /\ a \in Part
    BY <1>3, <1>4
  <2>2. QED
    BY <2>1
<1>6. r.buf \in Seq(Part) /\ Len(r.buf) = IF p.mark = k THEN Len(p.buf) + 1 ELSE 1
  BY <1>2, <1>4, <1>5
<1>7. Reading(r, m, id)
  BY <1>1, <1>6 DEF Reading, ParserFields
<1>8. QED
  BY <1>1, <1>6, <1>7

LEMMA CallbackReads ==
    ASSUME NEW m, NEW id, NEW p, Reading(p, m, id), NEW r, r = Callback(p)
    PROVE  /\ Reading(r, m, id) /\ r.mark = "none"
           /\ \A b : Carries(p, b) => Carries(r, b)
           /\ \A x \in {"state", "flags", "length", "name", "val", "upgrade"} : r[x] = p[x]
<1>1. /\ Typed(r) /\ r.mark = "none" /\ r.buf = <<>>
      /\ \A x \in ParserFields \ {"mark", "buf", "errno", "m_path", "m_headers",
                                  "m_body", "m_field"} : r[x] = p[x]
  BY CallbackKeeps DEF Reading
<1> DEFINE q == CASE p.mark = "url"   -> on_url(p)
               [] p.mark = "field" -> on_header_field(p)
               [] p.mark = "value" -> on_header_value(p)
               [] p.mark = "body"  -> on_body(p)
               [] p.mark = "none"  -> p
<1>2. q \in {p, [p EXCEPT !.m_field = p.buf], on_header_value(p)} \/ (p.mark = "body" /\ q = on_body(p))
  BY DEF Reading, Typed, Marks, on_url, on_header_field
<1>a. p.mark = "body" => q = on_body(p)
  OBVIOUS
<1> HIDE DEF q
<1>3. DOMAIN q = ParserFields /\ ~q.errno
  BY <1>2 DEF Reading, Typed, ParserFields, on_header_value, on_body
<1>4. q.m_body = IF p.mark = "body" THEN p.m_body \o p.buf ELSE p.m_body
  BY <1>2, <1>a DEF Reading, Typed, ParserFields, on_header_value, on_body
<1>5. r = [q EXCEPT !.mark = "none", !.buf = <<>>]
  BY Zenon DEF Callback, q
<1>6. ~r.errno /\ r.m_body = IF p.mark = "body" THEN p.m_body \o p.buf ELSE p.m_body
  BY <1>3, <1>4, <1>5 DEF ParserFields
<1>7. PICK a, b : a = p.m_body /\ b = p.buf
  OBVIOUS
<1>8. a \in Seq(Part) /\ b \in Seq(Part)
  BY <1>7 DEF Reading
<1>9. a \o b \in Seq(Part) /\ Len(a \o b) = Len(a) + Len(b) /\ Len(a) \in Nat /\ Len(b) \in Nat
  BY <1>8
<1>10. /\ r.m_body \in Seq(Part)
       /\ Len(r.m_body) = Len(p.m_body) + IF p.mark = "body" THEN Len(p.buf) ELSE 0
  <2>1. CASE p.mark = "body"
    BY <1>6, <1>7, <1>9, <2>1
  <2>2. CASE p.mark # "body"
    <3>1. r.m_body = a
      BY <1>6, <1>7, <2>2
    <3>2. Len(a) + 0 = Len(a)
      BY <1>9
    <3>3. QED
      BY <1>7, <1>8, <2>2, <3>1, <3>2
  <2>3. QED
    BY <2>1, <2>2
<1>11. Reading(r, m, id)
  <2>1. r.buf \in Seq(Part)
    BY <1>1
  <2>2. QED
    BY <1>1, <1>6, <1>10, <2>1 DEF Reading, ParserFields
<1>12. \A b0 : Carries(p, b0) => Carries(r, b0)
  <2>1. Len(r.m_body) \in Nat /\ r.mark # "body"
    BY <1>1, <1>10, LenProperties
  <2>2. Len(r.m_body) + 0 = Len(r.m_body)
    BY <2>1
  <2> SUFFICES ASSUME NEW b0, Carries(p, b0)
               PROVE  Carries(r, b0)
    OBVIOUS
  <2>3. Len(r.m_body) = b0
    BY <1>10 DEF Carries
  <2>4. QED
    BY <2>1, <2>2, <2>3 DEF Carries
<1>13. QED
  BY <1>1, <1>11, <1>12 DEF ParserFields

LEMMA ReadsOn ==
    ASSUME NEW m, NEW id, NEW p, Reading(p, m, id), NEW r, DOMAIN r = ParserFields,
           r.state \in States,
           \A x \in ParserFields \ {"state", "flags", "length", "name", "val", "upgrade"} : r[x] = p[x],
           r.upgrade \in BOOLEAN
    PROVE  Reading(r, m, id) /\ \A b : Carries(p, b) => Carries(r, b)
BY DEF Reading, Typed, ParserFields, Carries

(* Marking a text of the head does not change the body. *)
LEMMA CarriesNone ==
    ASSUME NEW m, NEW id, NEW p, NEW r, Reading(p, m, id), Reading(r, m, id), Carries(p, 0),
           r.m_body = p.m_body, r.mark # "body"
    PROVE  Carries(r, 0)
<1>1. Len(p.m_body) \in Nat /\ Len(p.buf) \in Nat
  BY LenProperties DEF Reading
<1>2. PICK x \in Nat, y \in Nat : x = Len(p.m_body) /\ y = IF p.mark = "body" THEN Len(p.buf) ELSE 0
  BY <1>1
<1>3. x + y = 0
  BY <1>2 DEF Carries
<1>4. Len(p.m_body) = 0
  <2>1. x \in Nat /\ y \in Nat
    BY <1>2
  <2>2. x = 0
    BY <1>3, <2>1
  <2>3. QED
    BY <1>2, <2>2
<1>5. QED
  BY <1>4 DEF Carries

LEMMA WholeWord ==
    /\ \A w : Append(<<<<w, 1>>>>, <<w, 2>>) = Whole(w)
    /\ \A w, v : Whole(w) = Whole(v) => w = v
    /\ \A w : Head(Whole(w))[1] = w
<1>1. \A w, v : Whole(w) = Whole(v) => w = v
  <2> SUFFICES ASSUME NEW w, NEW v, Whole(w) = Whole(v)
               PROVE  w = v
    OBVIOUS
  <2>1. <<<<w, 1>>, <<w, 2>>>>[1] = <<w, 1>> /\ <<<<v, 1>>, <<v, 2>>>>[1] = <<v, 1>>
    OBVIOUS
  <2>2. <<w, 1>> = <<v, 1>>
    BY <2>1 DEF Whole
  <2>3. QED
    BY <2>2
<1>2. ASSUME NEW w
      PROVE  Head(Whole(w))[1] = w
  <2>1. PICK a, b : a = <<w, 1>> /\ b = <<w, 2>>
    OBVIOUS
  <2>2. Head(<<a, b>>) = a
    OBVIOUS
  <2>3. a[1] = w
    BY <2>1
  <2>4. QED
    BY <2>1, <2>2, <2>3 DEF Whole
<1>3. ASSUME NEW w
      PROVE  Append(<<<<w, 1>>>>, <<w, 2>>) = Whole(w)
  <2>1. PICK a, b : a = <<w, 1>> /\ b = <<w, 2>>
    OBVIOUS
  <2>2. Append(<<a>>, b) = <<a, b>>
    <3> DEFINE s == Append(<<a>>, b)
               t == <<a, b>>
    <3>1. s \in Seq({a, b}) /\ Len(s) = 2 /\ s[1] = a /\ s[2] = b
      OBVIOUS
    <3>2. t \in Seq({a, b}) /\ Len(t) = 2 /\ t[1] = a /\ t[2] = b
      OBVIOUS
    <3> HIDE DEF s, t
    <3>3. \A i \in 1 .. Len(s) : s[i] = t[i]
      BY <3>1, <3>2
    <3>4. s = t
      BY <3>1, <3>2, <3>3, SeqEqual
    <3>5. QED
      BY <3>4 DEF s, t
  <2>3. QED
    BY <2>1, <2>2 DEF Whole
<1>4. QED
  BY <1>1, <1>2, <1>3

LEMMA TokenFields ==
    /\ \A k, w, i : Tok(k, w, i).k = k /\ Tok(k, w, i).w = w /\ Tok(k, w, i).i = i
    /\ Crlf.k = "crlf"
    /\ \A w \in Text : <<w, 1>> \in Part /\ <<w, 2>> \in Part
BY DEF Tok, Crlf, Part

(* The first part of a header's name. *)
LEMMA HeadStep0 ==
    ASSUME NEW m, NEW id, NEW i \in Nat, NEW p, InHead(p, m, id, i, 0),
           NEW h, h = m.headers[i + 1], h[1] \in Text,
           NEW t, t = Tok("field", h[1], 1), NEW r, r = Switch(p, t)
    PROVE  InHead(r, m, id, i, 1)
<1>1. t.k = "field" /\ t.w = h[1] /\ t.i = 1 /\ <<t.w, t.i>> \in Part
  <2>1. t.k = "field" /\ t.w = h[1] /\ t.i = 1
    BY DEF Tok
  <2>2. <<h[1], 1>> \in Part
    BY DEF Part
  <2>3. QED
    BY <2>1, <2>2
<1>2. PICK u : u = Mark(p, "field", t)
  OBVIOUS
<1>3. Reading(p, m, id) /\ Carries(p, 0) /\ p.state = "s_header_field_start"
  BY DEF InHead, InLine
<1>4. r = [u EXCEPT !.state = "s_header_field", !.name = <<<<t.w, t.i>>>>]
  BY <1>1, <1>2, <1>3 DEF Switch, FieldStart, Reading
<1>5. "field" \in Marks /\ "s_header_field" \in States
  BY DEF Marks, States
<1>6. /\ Reading(u, m, id) /\ u.mark = "field"
      /\ \A x \in ParserFields \ {"mark", "buf"} : u[x] = p[x]
  BY <1>1, <1>2, <1>3, <1>5, MarkReads
<1>7. /\ DOMAIN r = ParserFields /\ r.state = "s_header_field" /\ r.name = <<<<h[1], 1>>>>
      /\ \A x \in ParserFields \ {"state", "name"} : r[x] = u[x]
  <2>1. PICK w : w = <<<<t.w, t.i>>>>
    OBVIOUS
  <2>2. r = [u EXCEPT !.state = "s_header_field", !.name = w]
    BY <1>4, <2>1
  <2>3. w = <<<<h[1], 1>>>>
    BY <1>1, <2>1
  <2>4. QED
    BY <1>6, <2>2, <2>3 DEF Reading, Typed, ParserFields
<1>8. r.upgrade \in BOOLEAN
  BY <1>6, <1>7 DEF Reading, Typed, ParserFields
<1>9. Reading(r, m, id)
  BY <1>5, <1>6, <1>7, <1>8, ReadsOn
<1>10. r.flags = p.flags /\ r.length = p.length /\ r.m_body = p.m_body /\ r.mark = "field"
  BY <1>6, <1>7 DEF ParserFields
<1>11. Carries(r, 0)
  BY <1>3, <1>9, <1>10, CarriesNone
<1>12. Learnt(r.flags, r.length, m, i, Opened(i, 1)) /\ Once(m, i, 1)
  BY <1>10 DEF InHead, Opened, Once
<1>13. InLine(r, m.headers[i + 1], 1)
  BY <1>7 DEF InLine
<1>14. QED
  BY <1>9, <1>10, <1>11, <1>12, <1>13 DEF InHead

(* The second part of a header's name. *)
LEMMA HeadStep1 ==
    ASSUME NEW m, NEW id, NEW i \in Nat, NEW p, InHead(p, m, id, i, 1),
           NEW h, h = m.headers[i + 1], h[1] \in Text,
           NEW t, t = Tok("field", h[1], 2), NEW r, r = Switch(p, t)
    PROVE  InHead(r, m, id, i, 2)
<1>1. t.k = "field" /\ t.w = h[1] /\ t.i = 2 /\ <<t.w, t.i>> \in Part
  <2>1. t.k = "field" /\ t.w = h[1] /\ t.i = 2
    BY DEF Tok
  <2>2. <<h[1], 2>> \in Part
    BY DEF Part
  <2>3. QED
    BY <2>1, <2>2
<1>2. PICK u : u = Mark(p, "field", t)
  OBVIOUS
<1>3. /\ Reading(p, m, id) /\ Carries(p, 0) /\ p.state = "s_header_field"
      /\ p.name = <<<<h[1], 1>>>>
  BY DEF InHead, InLine
<1>4. r = [u EXCEPT !.name = Append(@, <<t.w, t.i>>)]
  BY <1>1, <1>2, <1>3 DEF Switch, Field, Reading
<1>5. "field" \in Marks
  BY DEF Marks
<1>6. /\ Reading(u, m, id) /\ u.mark = "field"
      /\ \A x \in ParserFields \ {"mark", "buf"} : u[x] = p[x]
  BY <1>1, <1>2, <1>3, <1>5, MarkReads
<1>7. /\ DOMAIN r = ParserFields /\ r.name = Append(u.name, <<h[1], 2>>)
      /\ \A x \in ParserFields \ {"name"} : r[x] = u[x]
  <2>1. PICK v : v = Append(u.name, <<h[1], 2>>)
    OBVIOUS
  <2>2. r = [u EXCEPT !.name = v]
    BY <1>1, <1>4, <2>1
  <2>3. DOMAIN u = ParserFields /\ "name" \in ParserFields
    BY <1>6 DEF Reading, Typed, ParserFields
  <2>4. /\ DOMAIN r = ParserFields /\ r.name = v
        /\ \A x \in ParserFields \ {"name"} : r[x] = u[x]
    BY <2>2, <2>3
  <2>5. QED
    BY <2>1, <2>4, Zenon
<1>8. r.upgrade \in BOOLEAN /\ r.state = "s_header_field" /\ "s_header_field" \in States
  BY <1>3, <1>6, <1>7 DEF Reading, Typed, ParserFields, States
<1>9. Reading(r, m, id)
  BY <1>6, <1>7, <1>8, ReadsOn
<1>10. r.flags = p.flags /\ r.length = p.length /\ r.m_body = p.m_body /\ r.mark = "field"
  BY <1>6, <1>7 DEF ParserFields
<1>11. Carries(r, 0)
  BY <1>3, <1>9, <1>10, CarriesNone
<1>12. Learnt(r.flags, r.length, m, i, Opened(i, 2)) /\ Once(m, i, 2)
  BY <1>10 DEF InHead, Opened, Once
<1>13. r.name = Whole(h[1])
  <2>1. u.name = <<<<h[1], 1>>>>
    BY <1>3, <1>6 DEF ParserFields
  <2>2. QED
    BY <1>7, <2>1, WholeWord
<1>14. InLine(r, m.headers[i + 1], 2)
  BY <1>8, <1>13 DEF InLine
<1>15. QED
  BY <1>9, <1>10, <1>11, <1>12, <1>14 DEF InHead

(* The colon: the name is reported. *)
LEMMA HeadStep2 ==
    ASSUME NEW m, NEW id, NEW i \in Nat, NEW p, InHead(p, m, id, i, 2),
           NEW h, h = m.headers[i + 1],
           NEW t, t = Tok("colon", ":", 1), NEW r, r = Switch(p, t)
    PROVE  InHead(r, m, id, i, 3)
<1>1. t.k = "colon"
  BY TokenFields
<1>2. PICK u : u = [p EXCEPT !.state = "s_header_value_start", !.val = <<>>]
  OBVIOUS
<1>3. Reading(p, m, id) /\ Carries(p, 0) /\ p.state = "s_header_field" /\ p.name = Whole(h[1])
  BY DEF InHead, InLine
<1>4. r = Callback(u)
  BY <1>1, <1>2, <1>3 DEF Switch, Field, Reading
<1>5. "s_header_value_start" \in States
  BY DEF States
<1>6. /\ DOMAIN u = ParserFields /\ u.state = "s_header_value_start"
      /\ \A x \in ParserFields \ {"state", "val"} : u[x] = p[x]
  BY <1>2, <1>3 DEF Reading, Typed, ParserFields
<1>7. u.upgrade \in BOOLEAN
  BY <1>3, <1>6 DEF Reading, Typed, ParserFields
<1>8. Reading(u, m, id) /\ Carries(u, 0)
  BY <1>3, <1>5, <1>6, <1>7, ReadsOn
<1>9. /\ Reading(r, m, id) /\ Carries(r, 0) /\ r.mark = "none"
      /\ \A x \in {"state", "flags", "length", "name", "val", "upgrade"} : r[x] = u[x]
  BY <1>4, <1>8, CallbackReads
<1>10. /\ r.flags = p.flags /\ r.length = p.length /\ r.name = Whole(h[1])
       /\ r.state = "s_header_value_start"
  BY <1>3, <1>6, <1>9 DEF ParserFields
<1>11. Learnt(r.flags, r.length, m, i, Opened(i, 3)) /\ Once(m, i, 3)
  BY <1>10 DEF InHead, Opened, Once
<1>12. InLine(r, m.headers[i + 1], 3)
  BY <1>10 DEF InLine
<1>13. QED
  BY <1>9, <1>11, <1>12 DEF InHead

LEMMA NumbersAre ==
    /\ DOMAIN Numbers = {"n0", "n1", "n2"}
    /\ Numbers["n0"] = 0 /\ Numbers["n1"] = 1 /\ Numbers["n2"] = 2
BY DEF Numbers

(* The first part of a value: a length must be a number and given once.    *)
LEMMA HeadStep3 ==
    ASSUME NEW m, NEW id, NEW i \in Nat, NEW p, InHead(p, m, id, i, 3),
           NEW h, h = m.headers[i + 1], h[1] \in Text, h[2] \in Text,
           NEW t, t = Tok("value", h[2], 1), NEW r, r = Switch(p, t)
    PROVE  r.errno \/ InHead(r, m, id, i, 4)
<1>1. t.k = "value" /\ t.w = h[2] /\ t.i = 1 /\ <<t.w, t.i>> \in Part
  <2>1. t.k = "value" /\ t.w = h[2] /\ t.i = 1
    BY DEF Tok
  <2>2. <<h[2], 1>> \in Part
    BY DEF Part
  <2>3. QED
    BY <2>1, <2>2
<1>2. PICK u : u = Mark(p, "value", t)
  OBVIOUS
<1>3. /\ Reading(p, m, id) /\ Carries(p, 0) /\ p.state = "s_header_value_start"
      /\ p.name = Whole(h[1])
  BY DEF InHead, InLine
<1>a. p.name = Whole("content-length") <=> IsLength(h)
  BY <1>3, WholeWord DEF IsLength
<1> DEFINE refused == IsLength(h) /\ ("content-length" \in p.flags \/ h[2] \notin DOMAIN Numbers)
           more == (IF p.name = Whole("upgrade") THEN {"upgrade"} ELSE {})
                       \cup (IF IsLength(h) THEN {"content-length"} ELSE {})
<1>4. r = IF refused THEN Fails(p)
          ELSE [u EXCEPT !.state = "s_header_value", !.val = <<<<t.w, t.i>>>>,
                         !.flags = u.flags \cup more]
  <2>1. r = ValueStart(p, t)
    BY <1>3 DEF Switch, Reading
  <2>2. r = IF refused THEN Fails(p)
            ELSE [u EXCEPT !.state = "s_header_value", !.val = <<<<t.w, t.i>>>>,
                           !.flags = @ \cup (IF p.name = Whole("upgrade") THEN {"upgrade"} ELSE {})
                                       \cup (IF IsLength(h) THEN {"content-length"} ELSE {})]
    BY <1>1, <1>2, <1>a, <2>1 DEF ValueStart
  <2>3. u.flags \cup (IF p.name = Whole("upgrade") THEN {"upgrade"} ELSE {})
                \cup (IF IsLength(h) THEN {"content-length"} ELSE {}) = u.flags \cup more
    OBVIOUS
  <2>4. QED
    BY <2>2, <2>3
<1> HIDE DEF more
<1>5. CASE refused
  <2>1. r = Fails(p) /\ Typed(p)
    BY <1>3, <1>4, <1>5 DEF Reading
  <2>2. r.errno
    BY <2>1 DEF Fails, Typed, ParserFields
  <2>3. QED
    BY <2>2
<1>6. CASE ~refused
  <2>1. r = [u EXCEPT !.state = "s_header_value", !.val = <<<<t.w, t.i>>>>,
                      !.flags = u.flags \cup more]
    BY <1>4, <1>6
  <2>2. "value" \in Marks /\ "s_header_value" \in States
    BY DEF Marks, States
  <2>3. /\ Reading(u, m, id) /\ u.mark = "value"
        /\ \A x \in ParserFields \ {"mark", "buf"} : u[x] = p[x]
    BY <1>1, <1>2, <1>3, <2>2, MarkReads
  <2>4. /\ DOMAIN r = ParserFields /\ r.state = "s_header_value" /\ r.val = <<<<h[2], 1>>>>
        /\ r.flags = u.flags \cup more
        /\ \A x \in ParserFields \ {"state", "val", "flags"} : r[x] = u[x]
    <3>1. PICK w : w = <<<<t.w, t.i>>>>
      OBVIOUS
    <3>2. r = [u EXCEPT !.state = "s_header_value", !.val = w, !.flags = u.flags \cup more]
      BY <2>1, <3>1
    <3>3. w = <<<<h[2], 1>>>>
      BY <1>1, <3>1
    <3>4. QED
      BY <2>3, <3>2, <3>3 DEF Reading, Typed, ParserFields
  <2>5. r.upgrade \in BOOLEAN
    BY <2>3, <2>4 DEF Reading, Typed, ParserFields
  <2>6. Reading(r, m, id)
    BY <2>2, <2>3, <2>4, <2>5, ReadsOn
  <2>7. /\ r.flags = p.flags \cup more /\ r.length = p.length /\ r.m_body = p.m_body
        /\ r.mark = "value" /\ r.name = Whole(h[1])
    BY <1>3, <2>3, <2>4 DEF ParserFields
  <2>8. Carries(r, 0)
    BY <1>3, <2>6, <2>7, CarriesNone
  <2>9. Learnt(p.flags, p.length, m, i, i)
    BY DEF InHead, Opened
  <2>10. more \subseteq {"upgrade", "content-length"} /\ ("content-length" \in more <=> IsLength(h))
    BY DEF more
  <2>11. Learnt(r.flags, r.length, m, i, i + 1)
    <3>1. "trailing" \notin r.flags /\ ("chunked" \in r.flags <=> "chunked" \in p.flags)
      BY <2>7, <2>9, <2>10 DEF Learnt
    <3>2. "content-length" \in r.flags <=> \E x \in 1 .. i + 1 : IsLength(m.headers[x])
      <4>1. "content-length" \in r.flags <=> (\E x \in 1 .. i : IsLength(m.headers[x])) \/ IsLength(h)
        BY <2>7, <2>9, <2>10 DEF Learnt
      <4>2. \A x : x \in 1 .. i + 1 <=> x \in 1 .. i \/ x = i + 1
        OBVIOUS
      <4>3. QED
        BY <4>1, <4>2
    <3>3. QED
      BY <2>7, <2>9, <3>1, <3>2 DEF Learnt
  <2>12. Once(m, i, 4)
    BY <1>6, <2>9 DEF Once, Learnt
  <2>13. InLine(r, m.headers[i + 1], 4) /\ Opened(i, 4) = i + 1
    BY <2>4, <2>7 DEF InLine, Opened
  <2>14. QED
    BY <2>6, <2>7, <2>8, <2>11, <2>12, <2>13 DEF InHead
<1>7. QED
  BY <1>5, <1>6

(* The second part of a value. *)
LEMMA HeadStep4 ==
    ASSUME NEW m, NEW id, NEW i \in Nat, NEW p, InHead(p, m, id, i, 4),
           NEW h, h = m.headers[i + 1], h[2] \in Text,
           NEW t, t = Tok("value", h[2], 2), NEW r, r = Switch(p, t)
    PROVE  InHead(r, m, id, i, 5)
<1>1. t.k = "value" /\ t.w = h[2] /\ t.i = 2 /\ <<t.w, t.i>> \in Part
  <2>1. t.k = "value" /\ t.w = h[2] /\ t.i = 2
    BY DEF Tok
  <2>2. <<h[2], 2>> \in Part
    BY DEF Part
  <2>3. QED
    BY <2>1, <2>2
<1>2. PICK u : u = Mark(p, "value", t)
  OBVIOUS
<1>3. /\ Reading(p, m, id) /\ Carries(p, 0) /\ p.state = "s_header_value"
      /\ p.name = Whole(h[1]) /\ p.val = <<<<h[2], 1>>>>
  BY DEF InHead, InLine
<1>4. r = [u EXCEPT !.val = Append(@, <<t.w, t.i>>)]
  BY <1>1, <1>2, <1>3 DEF Switch, Value, Reading
<1>5. "value" \in Marks
  BY DEF Marks
<1>6. /\ Reading(u, m, id) /\ u.mark = "value"
      /\ \A x \in ParserFields \ {"mark", "buf"} : u[x] = p[x]
  BY <1>1, <1>2, <1>3, <1>5, MarkReads
<1>7. /\ DOMAIN r = ParserFields /\ r.val = Append(u.val, <<h[2], 2>>)
      /\ \A x \in ParserFields \ {"val"} : r[x] = u[x]
  <2>1. PICK v : v = Append(u.val, <<h[2], 2>>)
    OBVIOUS
  <2>2. r = [u EXCEPT !.val = v]
    BY <1>1, <1>4, <2>1
  <2>3. DOMAIN u = ParserFields /\ "val" \in ParserFields
    BY <1>6 DEF Reading, Typed, ParserFields
  <2>4. /\ DOMAIN r = ParserFields /\ r.val = v
        /\ \A x \in ParserFields \ {"val"} : r[x] = u[x]
    BY <2>2, <2>3
  <2>5. QED
    BY <2>1, <2>4, Zenon
<1>8. r.upgrade \in BOOLEAN /\ r.state = "s_header_value" /\ "s_header_value" \in States
  BY <1>3, <1>6, <1>7 DEF Reading, Typed, ParserFields, States
<1>9. Reading(r, m, id)
  BY <1>6, <1>7, <1>8, ReadsOn
<1>10. /\ r.flags = p.flags /\ r.length = p.length /\ r.m_body = p.m_body /\ r.mark = "value"
       /\ r.name = Whole(h[1])
  BY <1>3, <1>6, <1>7 DEF ParserFields
<1>11. Carries(r, 0)
  BY <1>3, <1>9, <1>10, CarriesNone
<1>12. Learnt(r.flags, r.length, m, i, Opened(i, 5)) /\ Once(m, i, 5)
  BY <1>10 DEF InHead, Opened, Once
<1>13. r.val = Whole(h[2])
  <2>1. u.val = <<<<h[2], 1>>>>
    BY <1>3, <1>6 DEF ParserFields
  <2>2. QED
    BY <1>7, <2>1, WholeWord
<1>14. InLine(r, m.headers[i + 1], 5)
  BY <1>8, <1>10, <1>13 DEF InLine
<1>15. QED
  BY <1>9, <1>10, <1>11, <1>12, <1>14 DEF InHead

(* The end of the line: the header means something. *)
LEMMA HeadStep5 ==
    ASSUME NEW m, NEW id, NEW i \in Nat, NEW p, InHead(p, m, id, i, 5),
           NEW h, h = m.headers[i + 1], h \in Text \X Text,
           NEW r, r = Switch(p, Crlf)
    PROVE  InHead(r, m, id, i + 1, 0)
<1>3. /\ Reading(p, m, id) /\ Carries(p, 0) /\ p.state = "s_header_value"
      /\ p.name = Whole(h[1]) /\ p.val = Whole(h[2])
  BY DEF InHead, InLine
<1>a. p.name = Whole("content-length") <=> IsLength(h)
  BY <1>3, WholeWord DEF IsLength
<1> DEFINE more == Meaning(p)
           len  == IF IsLength(h) THEN Numbers[h[2]] ELSE p.length
<1>1. more \subseteq {"keep-alive", "close", "connection-upgrade", "chunked"}
  BY DEF Meaning
<1>2. "chunked" \in more <=> h = Pair("transfer-encoding", "chunked")
  <2>1. "chunked" \in more <=> /\ p.name = Whole("transfer-encoding")
                               /\ p.val = Whole("chunked")
    <3>1. CASE p.name = Whole("transfer-encoding") /\ p.val = Whole("chunked")
      <4>1. p.name # Whole("connection")
        BY <3>1, WholeWord
      <4>2. QED
        BY <3>1, <4>1 DEF Meaning
    <3>2. CASE ~(p.name = Whole("transfer-encoding") /\ p.val = Whole("chunked"))
      <4>1. more \in {{"keep-alive"}, {"close"}, {"connection-upgrade"}, {}}
        BY <3>2 DEF Meaning
      <4>2. QED
        BY <3>2, <4>1
    <3>3. QED
      BY <3>1, <3>2
  <2>2. "chunked" \in more <=> h[1] = "transfer-encoding" /\ h[2] = "chunked"
    BY <1>3, <2>1, WholeWord
  <2>3. h = <<h[1], h[2]>>
    OBVIOUS
  <2>4. QED
    BY <2>2, <2>3 DEF Pair
<1> HIDE DEF more
<1>4. PICK u : u = [p EXCEPT !.state = "s_header_field_start", !.flags = p.flags \cup more,
                             !.length = len]
  OBVIOUS
<1>5. r = Callback(u)
  <2>1. r = Value(p, Crlf)
    BY <1>3 DEF Switch, Reading
  <2>2. Head(p.val)[1] = h[2]
    BY <1>3, WholeWord
  <2>3. r = Callback([p EXCEPT !.state = "s_header_field_start", !.flags = @ \cup Meaning(p),
                 !.length = IF p.name = Whole("content-length")
                            THEN Numbers[Head(p.val)[1]] ELSE @])
    BY <2>1, TokenFields DEF Value
  <2>4. QED
    BY <1>a, <1>4, <2>2, <2>3 DEF more
<1> HIDE DEF len
<1>6. "s_header_field_start" \in States
  BY DEF States
<1>7. /\ DOMAIN u = ParserFields /\ u.state = "s_header_field_start"
      /\ u.flags = p.flags \cup more /\ u.length = len
      /\ \A x \in ParserFields \ {"state", "flags", "length"} : u[x] = p[x]
  BY <1>3, <1>4 DEF Reading, Typed, ParserFields
<1>8. u.upgrade \in BOOLEAN
  BY <1>3, <1>7 DEF Reading, Typed, ParserFields
<1>9. Reading(u, m, id) /\ Carries(u, 0)
  BY <1>3, <1>6, <1>7, <1>8, ReadsOn
<1>10. /\ Reading(r, m, id) /\ Carries(r, 0) /\ r.mark = "none"
       /\ \A x \in {"state", "flags", "length", "name", "val", "upgrade"} : r[x] = u[x]
  BY <1>5, <1>9, CallbackReads
<1>11. r.state = "s_header_field_start" /\ r.flags = p.flags \cup more /\ r.length = len
  BY <1>7, <1>10
<1>12. Learnt(p.flags, p.length, m, i, i + 1)
  BY DEF InHead, Opened
<1>13. \A x : x \in 1 .. i + 1 <=> x \in 1 .. i \/ x = i + 1
  OBVIOUS
<1>14. Learnt(r.flags, r.length, m, i + 1, i + 1)
  <2>1. "trailing" \notin r.flags
    BY <1>1, <1>11, <1>12 DEF Learnt
  <2>2. "chunked" \in r.flags <=>
            \E x \in 1 .. i + 1 : m.headers[x] = Pair("transfer-encoding", "chunked")
    <3>1. "chunked" \in r.flags <=>
              (\E x \in 1 .. i : m.headers[x] = Pair("transfer-encoding", "chunked"))
              \/ h = Pair("transfer-encoding", "chunked")
      BY <1>2, <1>11, <1>12 DEF Learnt
    <3>2. QED
      BY <1>13, <3>1
  <2>3. "content-length" \in r.flags <=> \E x \in 1 .. i + 1 : IsLength(m.headers[x])
    BY <1>1, <1>11, <1>12 DEF Learnt
  <2>4. /\ \A x \in 1 .. i + 1 : IsLength(m.headers[x]) =>
               m.headers[x][2] \in DOMAIN Numbers /\ r.length = Numbers[m.headers[x][2]]
        /\ (\A x \in 1 .. i + 1 : ~IsLength(m.headers[x])) => r.length = NoLength
    <3>1. CASE IsLength(h)
      <4>1. h[2] \in DOMAIN Numbers /\ \A x \in 1 .. i : ~IsLength(m.headers[x])
        BY <3>1 DEF InHead, Once
      <4>2. r.length = Numbers[h[2]]
        BY <1>11, <3>1 DEF len
      <4>3. i + 1 \in 1 .. i + 1
        OBVIOUS
      <4>4. QED
        BY <1>13, <3>1, <4>1, <4>2, <4>3
    <3>2. CASE ~IsLength(h)
      <4>1. r.length = p.length
        BY <1>11, <3>2 DEF len
      <4>2. QED
        BY <1>12, <1>13, <3>2, <4>1 DEF Learnt
    <3>3. QED
      BY <3>1, <3>2
  <2>5. QED
    BY <2>1, <2>2, <2>3, <2>4 DEF Learnt
<1>15. /\ InLine(r, m.headers[(i + 1) + 1], 0) /\ Opened(i + 1, 0) = i + 1
       /\ Once(m, i + 1, 0)
  BY <1>11 DEF InLine, Opened, Once
<1>16. QED
  BY <1>10, <1>14, <1>15 DEF InHead

(* b bytes of a body have been read. *)
InBytes(p, m, id, b) ==
    /\ Reading(p, m, id) /\ Carries(p, b)
    /\ p.state = "s_body_identity" /\ p.length = m.body - b

(* All of the response has been read. *)
Ended(p, m, id) ==
    /\ Typed(p) /\ p.type = "response" /\ p.mark # "body"
    /\ p.m_finished =>
           p.got = <<id>> /\ p.status = m.status /\ Len(p.m_body) = m.body

LEMMA DoneEnds ==
    ASSUME NEW m, NEW id, NEW p, Reading(p, m, id), p.mark # "body", Carries(p, m.body),
           NEW r, r = message_done(p)
    PROVE  Ended(r, m, id)
<1>1. /\ Typed(r) /\ r.m_finished = TRUE
      /\ \A x \in ParserFields \ {"m_finished", "state", "exit"} : r[x] = p[x]
  <2>1. Typed(p)
    BY DEF Reading
  <2>2. QED
    BY <2>1, DoneKeeps
<1>2. /\ r.type = p.type /\ r.mark = p.mark /\ r.got = p.got /\ r.status = p.status
      /\ r.m_body = p.m_body
  BY <1>1 DEF ParserFields
<1>3. Len(p.m_body) = m.body
  <2>1. Len(p.m_body) \in Nat
    BY LenProperties DEF Reading
  <2>2. Len(p.m_body) + 0 = m.body
    BY DEF Carries
  <2>3. QED
    BY <2>1, <2>2
<1>4. QED
  BY <1>1, <1>2, <1>3 DEF Reading, Ended

LEMMA WordNumbers == \A b \in Lengths : b > 0 => Numbers[Words[b + 1]] = b /\ b \notin {0, NoLength}
<1> SUFFICES ASSUME NEW b \in {1, 2}
             PROVE  Numbers[Words[b + 1]] = b /\ b \notin {0, NoLength}
  BY LengthsAre
<1>1. CASE b = 1
  BY <1>1, LengthsAre, NumbersAre DEF NoLength
<1>2. CASE b = 2
  BY <1>2, LengthsAre, NumbersAre DEF NoLength
<1>3. QED
  BY <1>1, <1>2

LEMMA ChunkedHeader ==
    ASSUME NEW m, IsMessage(m)
    PROVE  Chunked(m) <=> \E x \in 1 .. Len(m.headers) :
                              m.headers[x] = Pair("transfer-encoding", "chunked")
<1>1. DOMAIN m.headers = 1 .. Len(m.headers)
  BY LenProperties DEF IsMessage, Fields
<1>2. QED
  BY <1>1 DEF Chunked, ToSet

(* The empty line behind the headers. *)
LEMMA HeadEnds ==
    ASSUME NEW m, IsResponse(m), NEW id, NEW p, InHead(p, m, id, Len(m.headers), 0),
           NEW r, r = Switch(p, Crlf)
    PROVE  \/ r.errno
           \/ m.body > 0 /\ InBytes(r, m, id, 0)
           \/ m.body = 0 /\ Ended(r, m, id)
<1> DEFINE n == Len(m.headers)
<1>1. /\ Reading(p, m, id) /\ Carries(p, 0) /\ p.mark # "body"
      /\ p.state = "s_header_field_start" /\ Learnt(p.flags, p.length, m, n, n)
  BY DEF InHead, InLine, Opened
<1>2. r = headers_almost_done(p)
  BY <1>1, TokenFields DEF Switch, FieldStart, Reading
<1>3. "trailing" \notin p.flags /\ ("chunked" \in p.flags <=> Chunked(m))
  BY <1>1, ChunkedHeader DEF Learnt, IsResponse
<1> DEFINE u == /\ {"upgrade", "connection-upgrade"} \subseteq p.flags
                /\ p.type = "request" \/ p.status = "101"
<1>4. u \in BOOLEAN
  OBVIOUS
<1>5. PICK q : q = [p EXCEPT !.upgrade = u]
  OBVIOUS
<1>6. r = Fails(p) \/ r = headers_done(q)
  BY <1>2, <1>3, <1>5 DEF headers_almost_done
<1> HIDE DEF u
<1>7. /\ DOMAIN q = ParserFields /\ q.upgrade \in BOOLEAN
      /\ \A x \in ParserFields \ {"upgrade"} : q[x] = p[x]
  BY <1>1, <1>4, <1>5 DEF Reading, Typed, ParserFields
<1>8. q.state \in States /\ q.mark = p.mark /\ q.flags = p.flags /\ q.length = p.length
  BY <1>1, <1>7 DEF Reading, Typed, ParserFields
<1>9. Reading(q, m, id) /\ Carries(q, 0) /\ q.mark # "body"
  BY <1>1, <1>7, <1>8, ReadsOn
<1>10. ASSUME NEW s \in States, NEW v, v = [q EXCEPT !.state = s]
       PROVE  /\ Reading(v, m, id) /\ Carries(v, 0) /\ v.mark # "body"
              /\ v.state = s /\ v.length = q.length
  <2>1. /\ DOMAIN v = ParserFields /\ v.state = s
        /\ \A x \in ParserFields \ {"state"} : v[x] = q[x]
    BY <1>7, <1>10
  <2>2. v.upgrade \in BOOLEAN /\ v.mark = q.mark /\ v.length = q.length
    BY <1>7, <2>1 DEF ParserFields
  <2>3. QED
    BY <1>9, <1>10, <2>1, <2>2, ReadsOn
<1>11. {"s_chunk_size", "s_body_identity", "s_body_identity_eof"} \subseteq States
  BY DEF States
<1>12. CASE r = Fails(p)
  BY <1>1, <1>12 DEF Fails, Reading, Typed, ParserFields
<1>13. CASE r = headers_done(q) /\ Chunked(m) /\ m.body = 0
  <2>1. r = [q EXCEPT !.state = "s_chunk_size"]
    BY <1>3, <1>8, <1>13 DEF headers_done
  <2>2. Reading(r, m, id) /\ r.mark # "body"
    BY <1>10, <1>11, <2>1
  <2>3. Ended(r, m, id)
    BY <2>2 DEF Ended, Reading
  <2>4. QED
    BY <1>13, <2>3
<1>14. CASE r = headers_done(q) /\ ~Chunked(m) /\ m.body > 0
  <2>1. q.length = m.body /\ m.body \notin {0, NoLength} /\ m.body \in Nat
    <3>1. m.body \in Lengths /\ m.body \in Nat
      BY LengthsAre DEF IsResponse, IsMessage
    <3>2. PICK x \in 1 .. n : m.headers[x] = Pair("content-length", Words[m.body + 1])
      BY <1>14 DEF IsResponse
    <3>3. IsLength(m.headers[x]) /\ m.headers[x][2] = Words[m.body + 1]
      BY <3>2 DEF IsLength, Pair
    <3>4. p.length = Numbers[Words[m.body + 1]]
      BY <1>1, <3>3 DEF Learnt
    <3>5. QED
      BY <1>8, <1>14, <3>1, <3>4, WordNumbers
  <2>2. r = [q EXCEPT !.state = "s_body_identity"]
    BY <1>3, <1>8, <1>14, <2>1 DEF headers_done
  <2>3. /\ Reading(r, m, id) /\ Carries(r, 0) /\ r.state = "s_body_identity"
        /\ r.length = m.body
    BY <1>10, <1>11, <2>1, <2>2
  <2>4. InBytes(r, m, id, 0)
    BY <2>1, <2>3 DEF InBytes
  <2>5. QED
    BY <1>14, <2>4
<1>15. CASE r = headers_done(q) /\ ~Chunked(m) /\ m.body = 0
  <2>1. \/ r = [q EXCEPT !.state = "s_body_identity"]
        \/ r = [q EXCEPT !.state = "s_body_identity_eof"]
        \/ r = message_done(q)
    BY <1>3, <1>8, <1>15 DEF headers_done
  <2>2. CASE r = message_done(q)
    <3>1. Carries(q, m.body)
      BY <1>9, <1>15
    <3>2. Ended(r, m, id)
      BY <1>9, <2>2, <3>1, DoneEnds
    <3>3. QED
      BY <1>15, <3>2
  <2>3. CASE r # message_done(q)
    <3>1. Reading(r, m, id) /\ r.mark # "body"
      BY <1>10, <1>11, <2>1, <2>3
    <3>2. Ended(r, m, id)
      BY <3>1 DEF Ended, Reading
    <3>3. QED
      BY <1>15, <3>2
  <2>4. QED
    BY <2>2, <2>3
<1>16. m.body > 0 \/ m.body = 0
  BY LengthsAre DEF IsResponse, IsMessage
<1>17. Chunked(m) /\ m.body > 0 => r = Fails(p)
  <2> SUFFICES ASSUME Chunked(m), m.body > 0
               PROVE  r = Fails(p)
    OBVIOUS
  <2>1. PICK x \in 1 .. n : m.headers[x] = Pair("content-length", Words[m.body + 1])
    BY DEF IsResponse
  <2>2. IsLength(m.headers[x])
    BY <2>1 DEF IsLength, Pair
  <2>3. "content-length" \in p.flags
    BY <1>1, <2>2 DEF Learnt
  <2>4. QED
    BY <1>2, <1>3, <2>3 DEF headers_almost_done
<1>18. QED
  BY <1>6, <1>12, <1>13, <1>14, <1>15, <1>16, <1>17

(* A byte of the body is marked. *)
OneByteMore(r, p, m, id, b) ==
    /\ Reading(r, m, id) /\ Carries(r, b + 1)
    /\ r.length = p.length - 1 /\ r.state = p.state
ByteMarked(p, t) == [Mark(p, "body", t) EXCEPT !.length = @ - 1]

LEMMA MarkByte ==
    ASSUME NEW m, NEW id, NEW b \in Nat, NEW p, Reading(p, m, id), Carries(p, b),
           NEW t, <<t.w, t.i>> \in Part, NEW r, r = ByteMarked(p, t)
    PROVE  OneByteMore(r, p, m, id, b)
<1>1. PICK u : u = Mark(p, "body", t)
  OBVIOUS
<1>2. /\ Reading(u, m, id) /\ u.mark = "body"
      /\ Len(u.buf) = IF p.mark = "body" THEN Len(p.buf) + 1 ELSE 1
      /\ \A x \in ParserFields \ {"mark", "buf"} : u[x] = p[x]
  <2>1. "body" \in Marks
    BY DEF Marks
  <2>2. QED
    BY <1>1, <2>1, MarkReads
<1>3. r = [u EXCEPT !.length = @ - 1]
  BY <1>1 DEF ByteMarked
<1>4. /\ DOMAIN r = ParserFields /\ r.length = u.length - 1
      /\ \A x \in ParserFields \ {"length"} : r[x] = u[x]
  BY <1>2, <1>3 DEF Reading, Typed, ParserFields
<1>5. r.upgrade \in BOOLEAN /\ r.state \in States /\ r.flags = p.flags /\ r.state = p.state
  BY <1>2, <1>4 DEF Reading, Typed, ParserFields
<1>6. Reading(r, m, id)
  <2>1. \A x \in ParserFields \ {"state", "flags", "length", "name", "val", "upgrade"} : r[x] = u[x]
    BY <1>4
  <2>2. Reading(u, m, id) /\ DOMAIN r = ParserFields
    BY <1>2, <1>4
  <2>3. QED
    BY <1>5, <2>1, <2>2 DEF Reading, Typed, ParserFields
<1>7. r.m_body = p.m_body /\ r.mark = "body" /\ r.buf = u.buf /\ u.length = p.length
  BY <1>2, <1>4 DEF ParserFields
<1>8. Carries(r, b + 1)
  <2>1. PICK x, y : x = Len(p.m_body) /\ y = Len(p.buf)
    OBVIOUS
  <2>2. x \in Nat /\ y \in Nat
    BY <2>1, LenProperties DEF Reading
  <2>3. CASE p.mark = "body"
    <3>1. x + y = b /\ Len(r.buf) = y + 1
      BY <1>2, <1>7, <2>1, <2>3 DEF Carries
    <3>2. x + (y + 1) = b + 1
      BY <2>2, <3>1
    <3>3. QED
      BY <1>7, <2>1, <3>1, <3>2 DEF Carries
  <2>4. CASE p.mark # "body"
    <3>1. x + 0 = b /\ Len(r.buf) = 1
      BY <1>2, <1>7, <2>1, <2>4 DEF Carries
    <3>2. x + 1 = b + 1
      BY <2>2, <3>1
    <3>3. QED
      BY <1>7, <2>1, <3>1, <3>2 DEF Carries
  <2>5. QED
    BY <2>3, <2>4
<1>9. QED
  BY <1>4, <1>5, <1>6, <1>7, <1>8 DEF OneByteMore

LEMMA ByteToken ==
    ASSUME NEW i \in Nat, NEW t, t = Tok("body", "body", i)
    PROVE  t.k = "body" /\ <<t.w, t.i>> \in Part
<1>1. t.k = "body" /\ t.w = "body" /\ t.i = i
  BY DEF Tok
<1>2. <<"body", i>> \in Part
  BY DEF Part, Text
<1>3. QED
  BY <1>1, <1>2

(* A byte of a body with a length. *)
LEMMA BytesStep ==
    ASSUME NEW m, m.body \in Nat, NEW id, NEW b \in Nat, b < m.body,
           NEW p, InBytes(p, m, id, b),
           NEW t, t = Tok("body", "body", b + 1), NEW r, r = Switch(p, t)
    PROVE  IF b + 1 < m.body THEN InBytes(r, m, id, b + 1) ELSE Ended(r, m, id)
<1>1. Reading(p, m, id) /\ Carries(p, b) /\ p.state = "s_body_identity" /\ p.length = m.body - b
  BY DEF InBytes
<1>2. t.k = "body" /\ <<t.w, t.i>> \in Part
  BY ByteToken
<1>3. PICK q : q = ByteMarked(p, t)
  OBVIOUS
<1>4. r = IF q.length = 0 THEN message_done(Callback(q)) ELSE q
  BY <1>1, <1>2, <1>3 DEF Switch, Body, Reading, ByteMarked
<1>5. /\ Reading(q, m, id) /\ Carries(q, b + 1) /\ q.length = p.length - 1
      /\ q.state = p.state
  <2>1. Reading(p, m, id) /\ Carries(p, b) /\ <<t.w, t.i>> \in Part
    BY <1>1, <1>2
  <2>2. OneByteMore(q, p, m, id, b)
    BY <1>3, <2>1, MarkByte
  <2>3. QED
    BY <2>2 DEF OneByteMore
<1>6. q.length = m.body - (b + 1)
  BY <1>1, <1>5
<1>7. CASE b + 1 < m.body
  <2>1. q.length # 0
    BY <1>6, <1>7
  <2>2. QED
    BY <1>1, <1>4, <1>5, <1>6, <1>7, <2>1 DEF InBytes
<1>8. CASE ~(b + 1 < m.body)
  <2>1. q.length = 0 /\ b + 1 = m.body
    BY <1>6, <1>8
  <2>2. PICK c : c = Callback(q)
    OBVIOUS
  <2>3. Reading(c, m, id) /\ c.mark = "none" /\ Carries(c, b + 1)
    BY <1>5, <2>2, CallbackReads
  <2>4. r = message_done(c)
    BY <1>4, <2>1, <2>2
  <2>5. Carries(c, m.body) /\ c.mark # "body"
    BY <2>1, <2>3
  <2>6. QED
    BY <1>8, <2>3, <2>4, <2>5, DoneEnds
<1>9. QED
  BY <1>7, <1>8

(* Nothing of a response has been read, or its version only. *)
Starting(p) ==
    /\ Typed(p) /\ p.type = "response" /\ ~p.errno /\ ~p.exit /\ ~p.m_finished
    /\ p.got = <<>> /\ p.state = "s_start" /\ p.mark = "none"
    /\ p.m_body = <<>> /\ p.buf = <<>>
AtStatus(p, id) ==
    /\ Reading(p, [status |-> p.status], id) /\ Carries(p, 0) /\ p.mark # "body"
    /\ p.state = "s_res_status" /\ p.flags = {} /\ p.length = NoLength

LEMMA StartStep ==
    ASSUME NEW id, NEW p, Starting(p), NEW v, NEW t, t = Tok("http", v, id),
           NEW r, r = Switch(p, t)
    PROVE  AtStatus(r, id)
<1>1. t.k = "http" /\ t.i = id
  BY DEF Tok
<1>2. r = [Begun(p, t) EXCEPT !.state = "s_res_status", !.version = t.w]
  BY <1>1 DEF Starting, Switch, StartRes
<1>3. PICK u : u = Begun(p, t)
  OBVIOUS
<1>4. /\ DOMAIN u = ParserFields /\ u.flags = {} /\ u.length = NoLength
      /\ u.got = Append(p.got, id)
      /\ \A x \in ParserFields \ {"flags", "length", "got"} : u[x] = p[x]
  BY <1>1, <1>3 DEF Begun, Starting, Typed, ParserFields
<1>5. /\ DOMAIN r = ParserFields /\ r.state = "s_res_status"
      /\ \A x \in ParserFields \ {"state", "version"} : r[x] = u[x]
  BY <1>2, <1>3, <1>4 DEF ParserFields
<1>6. /\ r.flags = {} /\ r.length = NoLength /\ r.type = p.type /\ r.errno = p.errno
      /\ r.exit = p.exit /\ r.m_finished = p.m_finished /\ r.mark = p.mark
      /\ r.m_body = p.m_body /\ r.buf = p.buf /\ r.upgrade = p.upgrade /\ r.cut = p.cut
      /\ r.got = Append(p.got, id)
  BY <1>4, <1>5 DEF ParserFields
<1>7. r.got = <<id>>
  <2>1. Append(<<>>, id) = <<id>>
    OBVIOUS
  <2>2. QED
    BY <1>6, <2>1 DEF Starting
<1>8. Typed(r)
  BY <1>5, <1>6 DEF Typed, States, Starting
<1>9. r.m_body = <<>> /\ r.buf = <<>> /\ <<>> \in Seq(Part) /\ r.mark = "none"
  BY <1>6 DEF Starting
<1>10. Reading(r, [status |-> r.status], id)
  BY <1>6, <1>7, <1>8, <1>9 DEF Reading, Starting
<1>11. Carries(r, 0)
  <2>1. Len(r.m_body) = 0 /\ r.mark # "body"
    BY <1>9
  <2>2. QED
    BY <2>1 DEF Carries
<1>12. QED
  BY <1>5, <1>6, <1>9, <1>10, <1>11 DEF AtStatus

LEMMA StatusStep ==
    ASSUME NEW m, NEW id, NEW p, AtStatus(p, id), NEW t, t = Tok("code", m.status, 1),
           NEW r, r = Switch(p, t)
    PROVE  InHead(r, m, id, 0, 0)
<1>1. t.k = "code" /\ t.w = m.status
  BY DEF Tok
<1>2. /\ Reading(p, [status |-> p.status], id) /\ Carries(p, 0) /\ p.mark # "body"
      /\ p.state = "s_res_status" /\ p.flags = {} /\ p.length = NoLength
  BY DEF AtStatus
<1>3. r = [p EXCEPT !.status = t.w, !.state = "s_header_field_start"]
  BY <1>1, <1>2 DEF Switch, StatusLine, Reading
<1>4. /\ DOMAIN r = ParserFields /\ r.state = "s_header_field_start" /\ r.status = m.status
      /\ \A x \in ParserFields \ {"state", "status"} : r[x] = p[x]
  BY <1>1, <1>2, <1>3 DEF Reading, Typed, ParserFields
<1>5. /\ r.flags = p.flags /\ r.length = p.length /\ r.type = p.type /\ r.errno = p.errno
      /\ r.exit = p.exit /\ r.m_finished = p.m_finished /\ r.mark = p.mark
      /\ r.m_body = p.m_body /\ r.buf = p.buf /\ r.upgrade = p.upgrade /\ r.cut = p.cut
      /\ r.got = p.got
  BY <1>4 DEF ParserFields
<1>6. Typed(r)
  BY <1>2, <1>4, <1>5 DEF Typed, States, Reading
<1>7. Reading(r, m, id) /\ Carries(r, 0)
  BY <1>2, <1>4, <1>5, <1>6 DEF Reading, Carries
<1>8. Learnt(r.flags, r.length, m, 0, Opened(0, 0)) /\ Once(m, 0, 0)
  BY <1>2, <1>5 DEF Learnt, Opened, Once
<1>9. InLine(r, m.headers[0 + 1], 0)
  BY <1>4 DEF InLine
<1>10. QED
  BY <1>2, <1>5, <1>7, <1>8, <1>9 DEF InHead

(* A response, token by token. *)
DumpLen(m) == 2 + HeadLen(m) + m.body
DumpIs(m, id, D) ==
    /\ D[1] = Tok("http", m.version, id) /\ D[2] = Tok("code", m.status, 1)
    /\ \A i \in 1 .. Len(m.headers) : \A k \in 1 .. 6 :
           D[2 + 6 * (i - 1) + k] = Line(m.headers[i])[k]
    /\ D[2 + HeadLen(m)] = Crlf
    /\ \A b \in 1 .. m.body : D[2 + HeadLen(m) + b] = Tok("body", "body", b)

(* Two tokens and then others. *)
LEMMA TwoAndMore ==
    ASSUME NEW T, NEW a, NEW b, NEW s \in Seq(T), NEW c, c = <<a, b>>, NEW D, D = c \o s
    PROVE  /\ D \in Seq(T \cup {a, b}) /\ Len(s) \in Nat /\ Len(D) = 2 + Len(s)
           /\ D[1] = a /\ D[2] = b /\ \A x \in 1 .. Len(s) : D[2 + x] = s[x]
<1> DEFINE U == T \cup {a, b}
<1>1. c \in Seq(U) /\ Len(c) = 2 /\ c[1] = a /\ c[2] = b
  OBVIOUS
<1>2. s \in Seq(U) /\ Len(s) \in Nat
  <2>1. T \subseteq U
    OBVIOUS
  <2> HIDE DEF U
  <2>2. QED
    BY <2>1, SeqMonotonic, LenProperties
<1> HIDE DEF U
<1>4. /\ D \in Seq(U) /\ Len(D) = Len(c) + Len(s)
      /\ \A k \in 1 .. Len(c) : D[k] = c[k]
      /\ \A k \in 1 .. Len(s) : D[Len(c) + k] = s[k]
  <2>1. c \in Seq(U) /\ s \in Seq(U)
    BY <1>1, <1>2
  <2>2. QED
    BY <2>1
<1>5. D[1] = c[1] /\ D[2] = c[2]
  BY <1>1, <1>4
<1>6. QED
  BY <1>1, <1>2, <1>4, <1>5 DEF U

LEMMA DumpTokens ==
    ASSUME NEW m, IsMessage(m), NEW id, NEW D, D = ResponseDump(m, id)
    PROVE  (\E T : D \in Seq(T)) /\ Len(D) = DumpLen(m) /\ DumpIs(m, id, D)
           /\ DumpLen(m) \in Nat
<1> DEFINE n == Len(m.headers)
           o == Bytes(m.body)
           s == HeadLines(m) \o o
           l == HeadLen(m)
<1>1. n \in Nat /\ m.body \in Nat /\ l = 6 * n + 1 /\ l \in Nat
  BY LengthsAre, LenProperties DEF IsMessage, Fields, HeadLen
<1>2. o \in Seq(RestToken) /\ Len(o) = m.body /\ \A i \in 1 .. m.body : o[i] = Tok("body", "body", i)
  BY <1>1, BodyTokens
<1>3. PICK a, b : a = Tok("http", m.version, id) /\ b = Tok("code", m.status, 1)
  OBVIOUS
<1>4. PICK c : c = <<a, b>> /\ D = c \o s
  BY <1>3 DEF ResponseDump
<1> HIDE DEF o
<1>5. RestIs(m, o, s)
  BY <1>2, RestTokens
<1>6. s \in Seq(RestToken) /\ Len(s) = l + m.body
  BY <1>5, <1>2 DEF RestIs
<1> HIDE DEF s
<1>7. /\ D \in Seq(RestToken \cup {a, b}) /\ Len(D) = 2 + Len(s)
      /\ D[1] = a /\ D[2] = b /\ \A x \in 1 .. Len(s) : D[2 + x] = s[x]
  BY <1>4, <1>6, TwoAndMore
<1>8. Len(D) = DumpLen(m) /\ DumpLen(m) \in Nat
  <2>1. PICK x, y : x = HeadLen(m) /\ y = m.body
    OBVIOUS
  <2>2. x \in Nat /\ y \in Nat
    BY <1>1, <2>1
  <2>3. Len(D) = 2 + (x + y) /\ DumpLen(m) = 2 + x + y
    BY <1>6, <1>7, <2>1 DEF DumpLen
  <2>4. QED
    BY <2>2, <2>3
<1>9. ASSUME NEW i \in 1 .. n, NEW k \in 1 .. 6
      PROVE  D[2 + 6 * (i - 1) + k] = Line(m.headers[i])[k]
  <2>1. 6 * (i - 1) + k \in 1 .. Len(s) /\ 2 + (6 * (i - 1) + k) = 2 + 6 * (i - 1) + k
    BY <1>1, <1>6
  <2>2. s[6 * (i - 1) + k] = Line(m.headers[i])[k]
    BY <1>5 DEF RestIs
  <2>3. QED
    BY <1>7, <2>1, <2>2
<1> HIDE DEF l
<1>10. D[2 + l] = Crlf
  <2>1. l \in 1 .. Len(s)
    BY <1>1, <1>6
  <2>2. s[l] = Crlf
    BY <1>5 DEF RestIs, l
  <2>3. QED
    BY <1>7, <2>1, <2>2
<1>11. ASSUME NEW x \in 1 .. m.body
       PROVE  D[2 + l + x] = Tok("body", "body", x)
  <2>1. l + x \in 1 .. Len(s) /\ 2 + (l + x) = 2 + l + x
    BY <1>1, <1>6
  <2>2. s[l + x] = o[x]
    BY <1>5, <1>2 DEF RestIs, l
  <2>3. QED
    BY <1>7, <1>2, <2>1, <2>2
<1>12. DumpIs(m, id, D)
  BY <1>3, <1>7, <1>9, <1>10, <1>11 DEF DumpIs, l
<1>13. QED
  BY <1>7, <1>8, <1>12

(* The parser has read j tokens of the response m to request id. *)
At(p, m, id, j) ==
    \/ j = 0 /\ Starting(p)
    \/ j = 1 /\ AtStatus(p, id)
    \/ \E i \in 0 .. Len(m.headers), q \in 0 .. 5 :
           (i = Len(m.headers) => q = 0) /\ j = 2 + 6 * i + q /\ InHead(p, m, id, i, q)
    \/ \E b \in 0 .. m.body : b < m.body /\ j = 2 + HeadLen(m) + b /\ InBytes(p, m, id, b)
    \/ j = DumpLen(m) /\ Ended(p, m, id)

LEMMA AtHead ==
    ASSUME NEW p, NEW m, NEW id, NEW i \in 0 .. Len(m.headers), NEW q \in 0 .. 5,
           i = Len(m.headers) => q = 0, InHead(p, m, id, i, q), NEW j, j = 2 + 6 * i + q
    PROVE  At(p, m, id, j)
BY Zenon DEF At

LEMMA AtBytes ==
    ASSUME NEW p, NEW m, NEW id, NEW b \in 0 .. m.body, b < m.body,
           InBytes(p, m, id, b), NEW j, j = 2 + HeadLen(m) + b
    PROVE  At(p, m, id, j)
BY Zenon DEF At

LEMMA AtEnd ==
    ASSUME NEW p, NEW m, NEW id, Ended(p, m, id), NEW j, j = DumpLen(m)
    PROVE  At(p, m, id, j)
BY Zenon DEF At

(* A header line, token by token. *)
LEMMA AtLine ==
    ASSUME NEW m, IsMessage(m), NEW id, NEW D, DumpIs(m, id, D),
           NEW i \in Nat, i < Len(m.headers), NEW q \in 0 .. 5, NEW p, InHead(p, m, id, i, q),
           NEW r, r = Switch(p, D[2 + 6 * i + q + 1])
    PROVE  r.errno \/ At(r, m, id, 2 + 6 * i + q + 1)
<1> DEFINE n == Len(m.headers)
<1>1. n \in Nat /\ i + 1 \in 1 .. n /\ i \in 0 .. n /\ i + 1 \in 0 .. n /\ i # n
  BY LenProperties DEF IsMessage, Fields
<1>2. PICK h : h = m.headers[i + 1]
  OBVIOUS
<1>3. h \in Text \X Text /\ h[1] \in Text /\ h[2] \in Text
  <2>1. m.headers \in Seq(Text \X Text)
    BY DEF IsMessage, Fields
  <2>2. h \in Text \X Text
    BY <1>1, <1>2, <2>1, ElementOfSeq
  <2>3. QED
    BY <2>2
<1>4. D[2 + 6 * i + q + 1] = Line(h)[q + 1]
  <2>1. q + 1 \in 1 .. 6
    OBVIOUS
  <2>2. D[2 + 6 * ((i + 1) - 1) + (q + 1)] = Line(m.headers[i + 1])[q + 1]
    BY <1>1, <2>1 DEF DumpIs
  <2>3. 2 + 6 * ((i + 1) - 1) + (q + 1) = 2 + 6 * i + q + 1
    OBVIOUS
  <2>4. QED
    BY <1>2, <2>2, <2>3
<1>5. PICK t : t = D[2 + 6 * i + q + 1]
  OBVIOUS
<1>6. r = Switch(p, t)
  BY <1>5
<1>7. PICK l : l = Line(h)
  OBVIOUS
<1>8. t = l[q + 1]
  BY <1>4, <1>5, <1>7
<1>9. /\ l[1] = Tok("field", h[1], 1) /\ l[2] = Tok("field", h[1], 2)
      /\ l[3] = Tok("colon", ":", 1)
      /\ l[4] = Tok("value", h[2], 1) /\ l[5] = Tok("value", h[2], 2) /\ l[6] = Crlf
  BY <1>3, <1>7, LineTokens
<1>10. ASSUME q < 5, InHead(r, m, id, i, q + 1)
       PROVE  At(r, m, id, 2 + 6 * i + q + 1)
  <2>1. q + 1 \in 0 .. 5 /\ 2 + 6 * i + q + 1 = 2 + 6 * i + (q + 1)
    BY <1>10
  <2>2. QED
    BY <1>1, <1>10, <2>1, AtHead
<1>11. CASE q = 0
  <2>1. t = Tok("field", h[1], 1) /\ 0 + 1 = 1
    BY <1>8, <1>9, <1>11
  <2>2. InHead(p, m, id, i, 0)
    BY <1>11
  <2>3. InHead(r, m, id, i, 1)
    BY <1>2, <1>3, <1>6, <2>1, <2>2, HeadStep0
  <2>4. QED
    BY <1>10, <1>11, <2>1, <2>3
<1>12. CASE q = 1
  <2>1. t = Tok("field", h[1], 2) /\ 1 + 1 = 2
    BY <1>8, <1>9, <1>12
  <2>2. InHead(p, m, id, i, 1)
    BY <1>12
  <2>3. InHead(r, m, id, i, 2)
    BY <1>2, <1>3, <1>6, <2>1, <2>2, HeadStep1
  <2>4. QED
    BY <1>10, <1>12, <2>1, <2>3
<1>13. CASE q = 2
  <2>1. t = Tok("colon", ":", 1) /\ 2 + 1 = 3
    BY <1>8, <1>9, <1>13
  <2>2. InHead(p, m, id, i, 2)
    BY <1>13
  <2>3. InHead(r, m, id, i, 3)
    BY <1>2, <1>6, <2>1, <2>2, HeadStep2
  <2>4. QED
    BY <1>10, <1>13, <2>1, <2>3
<1>14. CASE q = 3
  <2>1. t = Tok("value", h[2], 1) /\ 3 + 1 = 4
    BY <1>8, <1>9, <1>14
  <2>2. InHead(p, m, id, i, 3)
    BY <1>14
  <2>3. r.errno \/ InHead(r, m, id, i, 4)
    BY <1>2, <1>3, <1>6, <2>1, <2>2, HeadStep3
  <2>4. QED
    BY <1>10, <1>14, <2>1, <2>3
<1>15. CASE q = 4
  <2>1. t = Tok("value", h[2], 2) /\ 4 + 1 = 5
    BY <1>8, <1>9, <1>15
  <2>2. InHead(p, m, id, i, 4)
    BY <1>15
  <2>3. InHead(r, m, id, i, 5)
    BY <1>2, <1>3, <1>6, <2>1, <2>2, HeadStep4
  <2>4. QED
    BY <1>10, <1>15, <2>1, <2>3
<1>16. CASE q = 5
  <2>1. t = Crlf
    BY <1>8, <1>9, <1>16
  <2>2. InHead(p, m, id, i, 5) /\ r = Switch(p, Crlf)
    BY <1>6, <1>16, <2>1
  <2>3. InHead(r, m, id, i + 1, 0)
    BY <1>2, <1>3, <2>2, HeadStep5
  <2>4. 2 + 6 * i + q + 1 = 2 + 6 * (i + 1) + 0
    BY <1>16
  <2>5. QED
    BY <1>1, <2>3, <2>4, AtHead
<1>17. QED
  BY <1>11, <1>12, <1>13, <1>14, <1>15, <1>16

(* The empty line behind the headers. *)
LEMMA AtHeadEnd ==
    ASSUME NEW m, IsResponse(m), NEW id, NEW D, DumpIs(m, id, D),
           NEW p, InHead(p, m, id, Len(m.headers), 0),
           NEW r, r = Switch(p, D[2 + HeadLen(m)])
    PROVE  r.errno \/ At(r, m, id, 2 + HeadLen(m))
<1>1. r = Switch(p, Crlf)
  BY DEF DumpIs
<1>2. m.body \in Nat /\ HeadLen(m) \in Nat /\ 0 \in 0 .. m.body
  BY LengthsAre, LenProperties DEF IsResponse, IsMessage, Fields, HeadLen
<1>3. PICK l \in Nat : l = 2 + HeadLen(m)
  BY <1>2
<1>4. l = l + 0
  OBVIOUS
<1>5. ASSUME m.body > 0, InBytes(r, m, id, 0)
      PROVE  At(r, m, id, l)
  <2>1. l = 2 + HeadLen(m) + 0 /\ 0 < m.body
    BY <1>2, <1>3, <1>4, <1>5
  <2>2. QED
    BY <1>2, <1>5, <2>1, AtBytes
<1>6. ASSUME m.body = 0, Ended(r, m, id)
      PROVE  At(r, m, id, l)
  <2>1. l = DumpLen(m)
    BY <1>3, <1>4, <1>6 DEF DumpLen
  <2>2. QED
    BY <1>6, <2>1, AtEnd
<1>7. \/ r.errno
      \/ m.body > 0 /\ InBytes(r, m, id, 0)
      \/ m.body = 0 /\ Ended(r, m, id)
  BY <1>1, HeadEnds
<1>8. QED
  BY <1>3, <1>5, <1>6, <1>7

(* A byte of a body with a length. *)
LEMMA AtByte ==
    ASSUME NEW m, IsMessage(m), NEW id, NEW D, DumpIs(m, id, D),
           NEW b \in Nat, b < m.body, NEW p, InBytes(p, m, id, b),
           NEW r, r = Switch(p, D[2 + HeadLen(m) + b + 1])
    PROVE  At(r, m, id, 2 + HeadLen(m) + b + 1)
<1>1. m.body \in Nat /\ HeadLen(m) \in Nat /\ b + 1 \in 1 .. m.body /\ b + 1 \in 0 .. m.body
  BY LengthsAre, LenProperties DEF IsMessage, Fields, HeadLen
<1>2. 2 + HeadLen(m) + b + 1 = 2 + HeadLen(m) + (b + 1)
  BY <1>1
<1>3. D[2 + HeadLen(m) + (b + 1)] = Tok("body", "body", b + 1)
  BY <1>1 DEF DumpIs
<1>4. PICK t : t = Tok("body", "body", b + 1)
  OBVIOUS
<1>5. r = Switch(p, t)
  BY <1>2, <1>3, <1>4
<1>6. IF b + 1 < m.body THEN InBytes(r, m, id, b + 1) ELSE Ended(r, m, id)
  BY <1>1, <1>4, <1>5, BytesStep
<1>7. CASE b + 1 < m.body
  BY <1>1, <1>2, <1>6, <1>7, AtBytes
<1>8. CASE ~(b + 1 < m.body)
  <2>1. b + 1 = m.body
    BY <1>1, <1>8
  <2>2. 2 + HeadLen(m) + b + 1 = DumpLen(m)
    BY <1>2, <2>1 DEF DumpLen
  <2>3. QED
    BY <1>6, <1>8, <2>2, AtEnd
<1>9. QED
  BY <1>7, <1>8

(* The next token of a response, wherever in it the parser is. *)
LEMMA AtStep ==
    ASSUME NEW m, IsResponse(m), NEW id, NEW D, DumpIs(m, id, D), NEW j \in Nat, j < DumpLen(m),
           NEW p, At(p, m, id, j), NEW t, t = D[j + 1], NEW r, r = Switch(p, t)
    PROVE  r.errno \/ At(r, m, id, j + 1)
<1>1. IsMessage(m) /\ Len(m.headers) \in Nat /\ m.body \in Nat /\ HeadLen(m) \in Nat
      /\ DumpLen(m) \in Nat /\ HeadLen(m) = 6 * Len(m.headers) + 1
  BY LengthsAre, LenProperties DEF IsResponse, IsMessage, Fields, HeadLen, DumpLen
<1>2. CASE j = 0 /\ Starting(p)
  <2>1. t = Tok("http", m.version, id) /\ j + 1 = 1
    BY <1>2 DEF DumpIs
  <2>2. AtStatus(r, id)
    BY <1>2, <2>1, StartStep
  <2>3. QED
    BY <2>1, <2>2, Zenon DEF At
<1>3. CASE j = 1 /\ AtStatus(p, id)
  <2>1. t = Tok("code", m.status, 1) /\ j + 1 = 2 + 6 * 0 + 0
    BY <1>3 DEF DumpIs
  <2>2. InHead(r, m, id, 0, 0)
    BY <1>3, <2>1, StatusStep
  <2>3. 0 \in 0 .. Len(m.headers) /\ 0 \in 0 .. 5
    BY <1>1
  <2>4. QED
    BY <2>1, <2>2, <2>3, AtHead
<1>4. ASSUME NEW i \in 0 .. Len(m.headers), NEW q \in 0 .. 5,
             i = Len(m.headers) => q = 0, j = 2 + 6 * i + q, InHead(p, m, id, i, q)
      PROVE  r.errno \/ At(r, m, id, j + 1)
  <2>1. CASE i < Len(m.headers)
    <3>1. i \in Nat /\ j + 1 = 2 + 6 * i + q + 1
      BY <1>4
    <3>2. r = Switch(p, D[2 + 6 * i + q + 1])
      BY <3>1
    <3>3. r.errno \/ At(r, m, id, 2 + 6 * i + q + 1)
      BY <1>1, <1>4, <2>1, <3>1, <3>2, AtLine
    <3>4. QED
      BY <3>1, <3>3
  <2>2. CASE i = Len(m.headers)
    <3>1. q = 0 /\ j + 1 = 2 + HeadLen(m)
      BY <1>1, <1>4, <2>2
    <3>2. InHead(p, m, id, Len(m.headers), 0)
      BY <1>4, <2>2, <3>1
    <3>3. r = Switch(p, D[2 + HeadLen(m)])
      BY <3>1
    <3>4. r.errno \/ At(r, m, id, 2 + HeadLen(m))
      BY <3>2, <3>3, AtHeadEnd
    <3>5. QED
      BY <3>1, <3>4
  <2>3. QED
    BY <1>1, <2>1, <2>2
<1>5. ASSUME NEW b \in 0 .. m.body, b < m.body, j = 2 + HeadLen(m) + b,
             InBytes(p, m, id, b)
      PROVE  r.errno \/ At(r, m, id, j + 1)
  <2>1. b \in Nat /\ j + 1 = 2 + HeadLen(m) + b + 1
    BY <1>1, <1>5
  <2>2. r = Switch(p, D[2 + HeadLen(m) + b + 1])
    BY <2>1
  <2>3. At(r, m, id, 2 + HeadLen(m) + b + 1)
    BY <1>1, <1>5, <2>1, <2>2, AtByte
  <2>4. QED
    BY <2>1, <2>3
<1>6. j # DumpLen(m)
  BY <1>1
<1>7. QED
  BY <1>2, <1>3, <1>4, <1>5, <1>6, Zenon DEF At

(* r is p as far as the response goes, and no byte of a body is marked. *)
Alike(r, p, m, id) ==
    /\ \A s : Reading(p, s, id) =>
           Reading(r, s, id) /\ \A b : Carries(p, b) => Carries(r, b)
    /\ r.mark # "body" /\ r.state = p.state /\ r.flags = p.flags /\ r.length = p.length
    /\ r.name = p.name /\ r.val = p.val /\ r.status = p.status
    /\ Starting(p) => Starting(r)
    /\ Ended(p, m, id) => Ended(r, m, id)

LEMMA AlikeAt ==
    ASSUME NEW m, NEW id, NEW j, NEW p, At(p, m, id, j), NEW r, Alike(r, p, m, id)
    PROVE  At(r, m, id, j)
<1>1. AtStatus(p, id) => AtStatus(r, id)
  BY Zenon DEF AtStatus, Alike
<1>2. ASSUME NEW i, NEW q, InHead(p, m, id, i, q)
      PROVE  InHead(r, m, id, i, q)
  <2>1. InLine(p, m.headers[i + 1], q) => InLine(r, m.headers[i + 1], q)
    BY Zenon DEF InLine, Alike
  <2>2. QED
    BY <1>2, <2>1, Zenon DEF InHead, Alike
<1>3. ASSUME NEW b, InBytes(p, m, id, b)
      PROVE  InBytes(r, m, id, b)
  BY <1>3, Zenon DEF InBytes, Alike
<1>4. (Starting(p) => Starting(r)) /\ (Ended(p, m, id) => Ended(r, m, id))
  BY Zenon DEF Alike
<1>5. QED
  BY <1>1, <1>2, <1>3, <1>4, Zenon DEF At

LEMMA CallbackAlike ==
    ASSUME NEW m, NEW id, NEW p, Typed(p), NEW r, r = Callback(p)
    PROVE  Alike(r, p, m, id)
<1>1. /\ Typed(r) /\ r.mark = "none" /\ r.buf = <<>>
      /\ \A x \in ParserFields \ {"mark", "buf", "errno", "m_path", "m_headers",
                                  "m_body", "m_field"} : r[x] = p[x]
  BY CallbackKeeps
<1>2. /\ r.state = p.state /\ r.flags = p.flags /\ r.length = p.length
      /\ r.name = p.name /\ r.val = p.val /\ r.status = p.status /\ r.type = p.type
      /\ r.m_finished = p.m_finished /\ r.got = p.got /\ r.exit = p.exit
  BY <1>1 DEF ParserFields
<1>3. ASSUME NEW s, Reading(p, s, id)
      PROVE  Reading(r, s, id) /\ \A b : Carries(p, b) => Carries(r, b)
  BY <1>3, CallbackReads
<1>4. p.mark = "none" => r.m_body = p.m_body /\ r.errno = p.errno
  <2>1. p.mark = "none" => r = [p EXCEPT !.mark = "none", !.buf = <<>>]
    BY DEF Callback
  <2>2. QED
    BY <2>1 DEF Typed, ParserFields
<1>5. Starting(p) => Starting(r)
  BY <1>1, <1>2, <1>4 DEF Starting
<1>6. p.mark # "body" => r.m_body = p.m_body
  <2> DEFINE q == CASE p.mark = "url"   -> on_url(p)
                    [] p.mark = "field" -> on_header_field(p)
                    [] p.mark = "value" -> on_header_value(p)
                    [] p.mark = "body"  -> on_body(p)
                    [] p.mark = "none"  -> p
  <2> SUFFICES ASSUME p.mark # "body"
               PROVE  r.m_body = p.m_body
    OBVIOUS
  <2>1. q \in {p, [p EXCEPT !.m_path = p.buf], [p EXCEPT !.errno = TRUE],
               [p EXCEPT !.m_field = p.buf], on_header_value(p)}
    BY DEF Typed, Marks, on_url, on_header_field, Fails
  <2> HIDE DEF q
  <2>2. DOMAIN q = ParserFields /\ q.m_body = p.m_body
    BY <2>1 DEF Typed, ParserFields, on_header_value
  <2>3. r = [q EXCEPT !.mark = "none", !.buf = <<>>]
    BY Zenon DEF Callback, q
  <2>4. QED
    BY <2>2, <2>3 DEF ParserFields
<1>8. Ended(p, m, id) => Ended(r, m, id)
  BY <1>1, <1>2, <1>6 DEF Ended
<1>9. QED
  BY <1>1, <1>2, <1>3, <1>5, <1>8 DEF Alike

LEMMA ResumeAlike ==
    ASSUME NEW m, NEW id, NEW p, Typed(p), p.mark = "none", NEW r, r = Resume(p)
    PROVE  Alike(r, p, m, id)
<1>1. /\ Typed(r) /\ r.buf = <<>> /\ r.mark \in {"none", "url", "field", "value"}
      /\ p.state = "s_start" => r.mark = "none"
      /\ \A x \in ParserFields \ {"mark", "buf", "cut"} : r[x] = p[x]
  <2>1. /\ Typed(r) /\ r.buf = <<>>
        /\ r.mark = CASE p.state = "s_req_path"     -> "url"
                      [] p.state = "s_header_field" -> "field"
                      [] p.state = "s_header_value" -> "value"
                      [] OTHER -> "none"
        /\ \A x \in ParserFields \ {"mark", "buf", "cut"} : r[x] = p[x]
    BY ResumeKeeps
  <2>2. QED
    BY <2>1
<1>2. /\ r.state = p.state /\ r.flags = p.flags /\ r.length = p.length
      /\ r.name = p.name /\ r.val = p.val /\ r.status = p.status /\ r.type = p.type
      /\ r.m_finished = p.m_finished /\ r.got = p.got /\ r.exit = p.exit
      /\ r.errno = p.errno /\ r.m_body = p.m_body
  BY <1>1 DEF ParserFields
<1>3. ASSUME NEW s, Reading(p, s, id)
      PROVE  Reading(r, s, id) /\ \A b : Carries(p, b) => Carries(r, b)
  <2>1. r.buf \in Seq(Part)
    BY <1>1
  <2>2. Reading(r, s, id)
    BY <1>1, <1>2, <1>3, <2>1 DEF Reading
  <2>3. r.mark # "body"
    BY <1>1
  <2>4. \A b : Carries(p, b) => Carries(r, b)
    BY <1>2, <2>3 DEF Carries
  <2>5. QED
    BY <2>2, <2>4
<1>4. Starting(p) => Starting(r)
  BY <1>1, <1>2 DEF Starting
<1>5. Ended(p, m, id) => Ended(r, m, id)
  BY <1>1, <1>2 DEF Ended
<1>6. QED
  BY <1>1, <1>2, <1>3, <1>4, <1>5 DEF Alike

(* A response that has not been read to the end is neither left nor        *)
(* finished.                                                               *)
LEMMA AtTyped ==
    ASSUME NEW m, NEW id, NEW j, NEW p, At(p, m, id, j)
    PROVE  /\ Typed(p)
           /\ p.exit \/ p.m_finished => j = DumpLen(m) /\ Ended(p, m, id)
<1>1. Starting(p) => Typed(p) /\ ~p.exit /\ ~p.m_finished
  BY Zenon DEF Starting
<1>2. ASSUME NEW s, Reading(p, s, id)
      PROVE  Typed(p) /\ ~p.exit /\ ~p.m_finished
  BY <1>2, Zenon DEF Reading
<1>3. Ended(p, m, id) => Typed(p)
  BY Zenon DEF Ended
<1>4. QED
  BY <1>1, <1>2, <1>3, Zenon DEF At, AtStatus, InHead, InBytes

(* What execute() has read of a response after a read of any length.       *)
LEMMA ExecuteAt ==
    ASSUME NEW m, IsResponse(m), NEW id, NEW D, DumpIs(m, id, D), NEW j \in Nat,
           NEW p, At(p, m, id, j), ~p.errno, p.mark = "none",
           NEW data, Len(data) \in Nat, j + Len(data) <= DumpLen(m), DumpLen(m) \in Nat,
           \A x \in 1 .. Len(data) : data[x] = D[j + x],
           NEW q, q = http_parser_execute(p, data)
    PROVE  \/ q.errno
           \/ /\ At(q, m, id, j + Len(data))
              /\ q.mark = "none" \/ j + Len(data) = DumpLen(m)
<1>1. PICK run : /\ Runs(run, p, data)
                 /\ q = IF p.errno THEN p
                        ELSE IF run[Len(data)].errno \/ run[Len(data)].exit THEN run[Len(data)]
                        ELSE Callback(run[Len(data)])
  BY ExecuteRuns
<1> DEFINE Ok(i) == run[i].errno \/ At(run[i], m, id, j + i)
           S == {i \in Nat : i <= Len(data) => Ok(i)}
<1>2. 0 \in S
  <2>1. run[0] = Resume(p) /\ j + 0 = j
    BY <1>1 DEF Runs
  <2>2. Typed(p)
    BY AtTyped
  <2>3. Alike(run[0], p, m, id)
    BY <2>1, <2>2, ResumeAlike
  <2>4. At(run[0], m, id, j)
    BY <2>3, AlikeAt
  <2>5. QED
    BY <2>1, <2>4
<1>3. ASSUME NEW i \in Nat, i \in S
      PROVE  i + 1 \in S
  <2> SUFFICES ASSUME i + 1 <= Len(data)
               PROVE  Ok(i + 1)
    OBVIOUS
  <2>1. i <= Len(data) /\ i + 1 \in 1 .. Len(data) /\ (i + 1) - 1 = i
    OBVIOUS
  <2>2. run[i + 1] = Switch(run[i], data[i + 1])
    BY <1>1, <2>1 DEF Runs
  <2>3. data[i + 1] = D[j + (i + 1)]
    BY <2>1
  <2>4. Ok(i)
    BY <1>3, <2>1
  <2>5. CASE run[i].errno
    BY <2>2, <2>5 DEF Switch
  <2>6. CASE At(run[i], m, id, j + i)
    <3>1. PICK a, b, t, y : a = run[i] /\ b = run[i + 1] /\ t = data[i + 1] /\ y = j + i
      OBVIOUS
    <3>2. y \in Nat /\ y < DumpLen(m) /\ y + 1 = j + (i + 1)
      BY <2>1, <3>1
    <3>3. t = D[y + 1] /\ b = Switch(a, t) /\ At(a, m, id, y)
      BY <2>2, <2>3, <2>6, <3>1, <3>2
    <3>4. b.errno \/ At(b, m, id, y + 1)
      BY <3>2, <3>3, AtStep
    <3>5. QED
      BY <3>1, <3>2, <3>4
  <2>7. QED
    BY <2>4, <2>5, <2>6
<1>4. Ok(Len(data))
  <2> HIDE DEF Ok
  <2>1. Nat \subseteq S
    <3> HIDE DEF S
    <3>1. QED
      BY <1>2, <1>3, InductiveSet
  <2>2. QED
    BY <2>1
<1>5. PICK a, y : a = run[Len(data)] /\ y = j + Len(data)
  OBVIOUS
<1>6. a.errno \/ At(a, m, id, y)
  BY <1>4, <1>5
<1>7. q = IF a.errno \/ a.exit THEN a ELSE Callback(a)
  BY <1>1, <1>5
<1>8. CASE a.errno
  BY <1>7, <1>8
<1>9. CASE ~a.errno /\ a.exit
  <2>1. q = a /\ At(q, m, id, y) /\ q.exit
    BY <1>6, <1>7, <1>9
  <2>2. y = DumpLen(m)
    BY <2>1, AtTyped
  <2>3. QED
    BY <1>5, <2>1, <2>2
<1>10. CASE ~a.errno /\ ~a.exit
  <2>1. q = Callback(a) /\ At(a, m, id, y)
    BY <1>6, <1>7, <1>10
  <2>2. Typed(a)
    BY <2>1, AtTyped
  <2>3. Alike(q, a, m, id)
    BY <2>1, <2>2, CallbackAlike
  <2>4. At(q, m, id, y)
    BY <2>1, <2>3, AlikeAt
  <2>5. q.mark = "none"
    BY <2>1, <2>2, CallbackKeeps
  <2>6. QED
    BY <1>5, <2>4, <2>5
<1>11. QED
  BY <1>8, <1>9, <1>10

-----------------------------------------------------------------------------
(* Whose response it is *)

(* What servlets answer, and what is asked for as it is kept.               *)
Answers == [status : Text, body : Lengths, headers : Fields]
LogOk == log \in Seq([msg : Request, answer : Answers])
LeftOk ==
    /\ {"wanted", "foreign"} \subseteq DOMAIN left
    /\ \A m \in left.wanted : m \in Request
    /\ \A ms \in left.foreign : ms \in Seq(Request)
DispatchOk ==
    /\ DOMAIN dispatch = {"m_datas", "m_globs", "m_default"} /\ dispatch.m_default \in Answers
    /\ \A u \in DOMAIN dispatch.m_datas : dispatch.m_datas[u] \in Answers
    /\ dispatch.m_globs \in Seq(Text \X Answers)

(* The requests whose first token is on the way to the server or has been  *)
(* read and not been answered.                                             *)
Pending(k) == Ids(k.up) \cup ToSet(k.p.got)
Wire(k, n) ==
    /\ k.up \in Seq(Token) /\ Sound(k.p) /\ Pending(k) \subseteq 1 .. n
    /\ k.pc = "handle" => k.p.got # <<>>

(* Nothing is asked and nothing is answered. *)
Quiet(k) == Pending(k) = {} /\ k.down = <<>>

(* The request of r is on its way, and it is the only one. *)
Waiting(r, k) ==
    /\ r.p = HttpResponseParser /\ k.down = <<>> /\ Pending(k) \subseteq {r.id}
    /\ \A x, y \in 1 .. Len(k.up) : Begins(k.up[x]) /\ Begins(k.up[y]) => x = y
    /\ k.p.got = <<>> \/ Ids(k.up) = {}

(* Its answer m is: j tokens have been read and the others are on the way. *)
Arrives(r, k, m, j) ==
    /\ At(r.p, m, r.id, j) /\ ~r.p.errno /\ ~r.p.m_finished
    /\ r.p.mark = "none" \/ j = DumpLen(m)
    /\ (\E T : k.down \in Seq(T)) /\ j + Len(k.down) = DumpLen(m)
    /\ \A x \in 1 .. Len(k.down) : k.down[x] = ResponseDump(m, r.id)[j + x]
Receiving(r, k, a) ==
    /\ Pending(k) = {}
    /\ \E m, j : /\ IsResponse(m) /\ m.status = a.status /\ m.body = a.body
                 /\ j \in Nat /\ Arrives(r, k, m, j)

(* The answer that was read is a.                                          *)
Own(r, a) == r.p.got = <<r.id>> /\ r.p.status = a.status /\ Len(r.p.m_body) = a.body

(* What a fiber r may rely on: its connection k, the answer a to it.       *)
Mine(r, k, a) ==
    /\ r.pc \in {"idle", "connect", "send"} => r.p = HttpResponseParser
    /\ r.pc = "send" => k.cli = "open" /\ Quiet(k)
    /\ r.pc = "recv" => k.cli = "open" /\ (Waiting(r, k) \/ Receiving(r, k, a))
    /\ r.pc = "release" /\ k.cli = "open" => Quiet(k)
    /\ r.result = "OK" => r.pc = "release" /\ k.cli = "open" /\ Own(r, a)

Active == {f \in Fibers : fiber[f].pc # "idle"}
WiresOk == \A c \in Conns : Wire(conns[c], Len(log))
IdsOk ==
    /\ \A f \in Active : fiber[f].id \in 1 .. Len(log)
    /\ \A f, g \in Active : fiber[f].id = fiber[g].id => f = g
    /\ \A f \in Active : \A c \in Conns :
           fiber[f].id \in Pending(conns[c]) => c = fiber[f].conn
MineOk == \A f \in Fibers : Mine(fiber[f], conns[fiber[f].conn], log[fiber[f].id].answer)
PoolQuiet == \A c \in ToSet(m_conns) : Quiet(conns[c])
DataOk == LogOk /\ LeftOk /\ DispatchOk
OwnInv == PoolInv /\ DataOk /\ WiresOk /\ IdsOk /\ MineOk /\ PoolQuiet

-----------------------------------------------------------------------------
(* Requests, answers and servlets *)

LEMMA TextFields == Headers \subseteq Fields /\ STRING \subseteq Text
<1>1. STRING \X STRING \subseteq Text \X Text
  BY DEF Text
<1>2. QED
  BY <1>1, SeqMonotonic DEF Headers, Fields, Text

LEMMA AnswersAre == Servlet \subseteq Answers /\ NotFoundServlet \in Answers
<1>1. Servlet \subseteq Answers
  BY TextFields DEF Servlet, Answers
<1>2. NotFoundServlet \in Answers
  <2>1. <<Pair("content-type", "html")>> \in Fields
    BY DEF Fields, Pair, Text
  <2>2. 1 \in Lengths /\ "404" \in Text
    BY LengthsAre DEF Text
  <2>3. QED
    BY <2>1, <2>2 DEF NotFoundServlet, Answers
<1>3. QED
  BY <1>1, <1>2

LEMMA RequestsAre ==
    ASSUME NEW m \in Request
    PROVE  IsMessage(m) /\ m.path \in Text /\ m.version \in Text
BY TextFields DEF Request, IsMessage

LEMMA DataInit == HttpInit => DataOk
<1> SUFFICES ASSUME HttpInit
             PROVE  DataOk
  OBVIOUS
<1>1. LogOk
  BY DEF HttpInit, LogOk
<1>2. LeftOk
  <2>1. left \in Scenarios
    BY DEF HttpInit
  <2>2. QED
    BY <2>1, MessageAssumption DEF LeftOk
<1>3. DispatchOk
  <2>1. STRING \X Servlet \subseteq Text \X Answers
    BY AnswersAre, TextFields
  <2>2. Registered.m_globs \in Seq(Text \X Answers)
    BY <2>1, MessageAssumption, SeqMonotonic
  <2>3. QED
    BY <2>2, AnswersAre, MessageAssumption DEF HttpInit, DispatchOk
<1>4. QED
  BY <1>1, <1>2, <1>3 DEF DataOk

(* Registering and removing a servlet. *)
IsDispatch(d) ==
    /\ DOMAIN d = {"m_datas", "m_globs", "m_default"} /\ d.m_default \in Answers
    /\ \A u \in DOMAIN d.m_datas : d.m_datas[u] \in Answers
    /\ d.m_globs \in Seq(Text \X Answers)

LEMMA ExactServlets ==
    ASSUME NEW d, IsDispatch(d), NEW u, NEW a \in Answers
    PROVE  /\ IsDispatch(addServlet(d, u, a)) /\ IsDispatch(delServlet(d, u))
           /\ IsDispatch(setDefault(d, a))
<1>1. PICK e : e = [x \in DOMAIN d.m_datas \cup {u} |-> IF x = u THEN a ELSE d.m_datas[x]]
  OBVIOUS
<1>2. \A x \in DOMAIN e : e[x] \in Answers
  BY <1>1 DEF IsDispatch
<1>3. addServlet(d, u, a) = [d EXCEPT !.m_datas = e]
  BY <1>1 DEF addServlet
<1>4. IsDispatch(addServlet(d, u, a))
  BY <1>2, <1>3 DEF IsDispatch
<1>5. PICK g : g = [x \in DOMAIN d.m_datas \ {u} |-> d.m_datas[x]]
  OBVIOUS
<1>6. \A x \in DOMAIN g : g[x] \in Answers
  BY <1>5 DEF IsDispatch
<1>7. delServlet(d, u) = [d EXCEPT !.m_datas = g]
  BY <1>5 DEF delServlet
<1>8. IsDispatch(delServlet(d, u))
  BY <1>6, <1>7 DEF IsDispatch
<1>9. IsDispatch(setDefault(d, a))
  BY DEF setDefault, IsDispatch
<1>10. QED
  BY <1>4, <1>8, <1>9

LEMMA RemovedAt ==
    ASSUME NEW T, NEW s \in Seq(T), NEW i \in 1 .. Len(s)
    PROVE  RemoveAt(s, i) \in Seq(T)
<1>1. SubSeq(s, 1, i - 1) \in Seq(T) /\ SubSeq(s, i + 1, Len(s)) \in Seq(T)
  OBVIOUS
<1>2. PICK a, b : a = SubSeq(s, 1, i - 1) /\ b = SubSeq(s, i + 1, Len(s))
  OBVIOUS
<1>3. a \o b \in Seq(T)
  BY <1>1, <1>2
<1>4. QED
  BY <1>2, <1>3 DEF RemoveAt

LEMMA WithoutOne ==
    ASSUME NEW T, NEW gs \in Seq(T), NEW u
    PROVE  Without(gs, u) \in Seq(T)
<1>1. DOMAIN gs = 1 .. Len(gs)
  BY LenProperties
<1> DEFINE i == CHOOSE i \in DOMAIN gs : gs[i][1] = u
<1>2. CASE \E g \in ToSet(gs) : g[1] = u
  <2>1. \E x \in DOMAIN gs : gs[x][1] = u
    BY <1>2 DEF ToSet
  <2>2. i \in 1 .. Len(gs)
    BY <1>1, <2>1
  <2>3. Without(gs, u) = RemoveAt(gs, i)
    BY <1>2, Zenon DEF Without
  <2> HIDE DEF i
  <2>4. QED
    BY <2>2, <2>3, RemovedAt
<1>3. CASE ~\E g \in ToSet(gs) : g[1] = u
  <2>1. Without(gs, u) = gs
    BY <1>3, Zenon DEF Without
  <2>2. QED
    BY <2>1
<1>4. QED
  BY <1>2, <1>3

LEMMA GlobServlets ==
    ASSUME NEW d, IsDispatch(d), NEW u \in Text, NEW a \in Answers
    PROVE  IsDispatch(delGlobServlet(d, u)) /\ IsDispatch(addGlobServlet(d, u, a))
<1> DEFINE hs == Without(d.m_globs, u)
<1>1. d.m_globs \in Seq(Text \X Answers)
  BY DEF IsDispatch
<1>2. hs \in Seq(Text \X Answers)
  BY <1>1, WithoutOne
<1>3. delGlobServlet(d, u) = [d EXCEPT !.m_globs = hs]
  BY Zenon DEF delGlobServlet
<1> HIDE DEF hs
<1>4. PICK e : e = delGlobServlet(d, u)
  OBVIOUS
<1>5. IsDispatch(e) /\ e.m_globs = hs
  BY <1>2, <1>3, <1>4 DEF IsDispatch
<1>6. <<u, a>> \in Text \X Answers
  OBVIOUS
<1>7. PICK t : t = Append(hs, <<u, a>>)
  OBVIOUS
<1>8. t \in Seq(Text \X Answers)
  BY <1>2, <1>6, <1>7, AppendProperties
<1>9. addGlobServlet(d, u, a) = [e EXCEPT !.m_globs = t]
  BY <1>4, <1>5, <1>7 DEF addGlobServlet
<1>10. IsDispatch(addGlobServlet(d, u, a))
  BY <1>5, <1>8, <1>9 DEF IsDispatch
<1>11. QED
  BY <1>4, <1>5, <1>10

(* What getMatchedServlet() finds can be answered. *)
LEMMA MatchedServlet ==
    ASSUME NEW d, IsDispatch(d), NEW path
    PROVE  getMatchedServlet(d, path) \in Answers
<1> DEFINE hits == {i \in DOMAIN d.m_globs : <<d.m_globs[i][1], path>> \in FnMatch}
           least == CHOOSE i \in hits : \A j \in hits : i <= j
<1>1. d.m_globs \in Seq(Text \X Answers) /\ DOMAIN d.m_globs = 1 .. Len(d.m_globs)
  BY LenProperties DEF IsDispatch
<1>2. hits # {} => d.m_globs[least][2] \in Answers
  <2> SUFFICES ASSUME hits # {}
               PROVE  d.m_globs[least][2] \in Answers
    OBVIOUS
  <2>1. hits \subseteq Nat
    BY <1>1
  <2> HIDE DEF hits
  <2>2. PICK i \in hits : \A j \in hits \ {i} : i < j
    BY <2>1, LeastNat
  <2>3. \A j \in hits : i <= j
    BY <2>1, <2>2
  <2>4. least \in hits
    BY <2>3
  <2> HIDE DEF least
  <2>5. least \in 1 .. Len(d.m_globs)
    BY <1>1, <2>4 DEF hits
  <2>6. d.m_globs[least] \in Text \X Answers
    BY <1>1, <2>5, ElementOfSeq
  <2>7. QED
    BY <2>6
<1>3. path \in DOMAIN d.m_datas => d.m_datas[path] \in Answers
  BY DEF IsDispatch
<1>4. getMatchedServlet(d, path) =
          IF path \in DOMAIN d.m_datas THEN d.m_datas[path]
          ELSE IF hits # {} THEN d.m_globs[least][2] ELSE d.m_default
  BY Zenon DEF getMatchedServlet
<1> HIDE DEF hits, least
<1>5. QED
  BY <1>2, <1>3, <1>4 DEF IsDispatch

(* What is answered can be read. *)
LEMMA AnswerIsResponse ==
    ASSUME NEW v, NEW close, NEW a \in Answers, NEW m, m = HttpResponse(v, close, a)
    PROVE  IsResponse(m) /\ m.status = a.status /\ m.body = a.body
<1>1. a.headers \in Fields /\ a.body \in Lengths /\ a.body \in Nat
  BY LengthsAre DEF Answers
<1>2. PICK u, c : u = <<Pair("server", "sylar"), Connection(close)>> /\ c = ContentLength(a.body)
  OBVIOUS
<1>3. u \in Seq(Text \X Text) /\ Len(u) = 2
  BY <1>2 DEF Pair, Connection, Text
<1>4. c \in Seq(Text \X Text) /\ (a.body > 0 => Len(c) = 1 /\ c[1] = Pair("content-length", Words[a.body + 1]))
  <2>1. Words[a.body + 1] \in Text
    BY <1>1, LengthsAre DEF Text
  <2>2. QED
    BY <1>2, <2>1 DEF ContentLength, Pair, Text
<1>5. PICK h : h = Without(a.headers, "connection")
  OBVIOUS
<1>6. h \in Seq(Text \X Text)
  BY <1>1, <1>5, WithoutOne DEF Fields
<1>7. PICK e : e = h \o u \o c
  OBVIOUS
<1>8. m.version = v /\ m.status = a.status /\ m.body = a.body /\ m.headers = e
  BY <1>2, <1>5, <1>7 DEF HttpResponse
<1>9. /\ e \in Seq(Text \X Text) /\ Len(e) = Len(h) + Len(u) + Len(c)
      /\ \A x \in 1 .. Len(c) : e[Len(h) + Len(u) + x] = c[x]
  <2>1. PICK g : g = h \o u
    OBVIOUS
  <2>2. g \in Seq(Text \X Text) /\ Len(g) = Len(h) + Len(u)
    <3>1. h \in Seq(Text \X Text) /\ u \in Seq(Text \X Text)
      BY <1>3, <1>6
    <3>2. QED
      BY <2>1, <3>1
  <2>3. /\ e \in Seq(Text \X Text) /\ Len(e) = Len(g) + Len(c)
        /\ \A x \in 1 .. Len(c) : e[Len(g) + x] = c[x]
    BY <1>4, <1>7, <2>1, <2>2
  <2>4. QED
    BY <2>2, <2>3
<1>10. m.body > 0 => \E x \in 1 .. Len(m.headers) :
                         m.headers[x] = Pair("content-length", Words[m.body + 1])
  <2> SUFFICES ASSUME m.body > 0
               PROVE  \E x \in 1 .. Len(e) : e[x] = Pair("content-length", Words[m.body + 1])
    BY <1>8
  <2>1. Len(c) = 1 /\ c[1] = Pair("content-length", Words[m.body + 1])
    BY <1>4, <1>8
  <2>2. Len(h) \in Nat /\ Len(u) \in Nat
    BY <1>3, <1>6, LenProperties
  <2>3. Len(h) + Len(u) + 1 \in 1 .. Len(e) /\ 1 \in 1 .. Len(c)
    BY <1>9, <2>1, <2>2
  <2>4. e[Len(h) + Len(u) + 1] = c[1]
    BY <1>9, <2>3
  <2>5. QED
    BY <2>1, <2>3, <2>4
<1>11. IsMessage(m)
  BY <1>1, <1>8, <1>9 DEF IsMessage, Fields
<1>12. QED
  BY <1>8, <1>10, <1>11 DEF IsResponse

-----------------------------------------------------------------------------
(* What is on the way to the server *)

LEMMA TokensBegin ==
    /\ RestToken \subseteq Token /\ \A t \in RestToken : ~Begins(t)
    /\ \A t \in Token : t.i \in Nat
BY DEF RestToken, Token

(* The first token of a request, and none behind it, says whose it is. *)
OneBegins(s, id) ==
    /\ s \in Seq(Token) /\ Len(s) \in Nat /\ Len(s) >= 1
    /\ Begins(s[1]) /\ s[1].i = id
    /\ \A x \in 1 .. Len(s) : Begins(s[x]) => x = 1

LEMMA MoreBehind ==
    ASSUME NEW s, NEW id, OneBegins(s, id), NEW t, t \in Seq(RestToken), NEW r, r = s \o t
    PROVE  OneBegins(r, id)
<1>1. t \in Seq(Token)
  BY TokensBegin, SeqMonotonic
<1>2. s \in Seq(Token)
  BY DEF OneBegins
<1>3. /\ r \in Seq(Token) /\ Len(s) \in Nat /\ Len(t) \in Nat /\ Len(r) = Len(s) + Len(t)
      /\ \A k \in 1 .. Len(s) : r[k] = s[k]
      /\ \A k \in 1 .. Len(t) : r[Len(s) + k] = t[k]
  BY <1>1, <1>2, Joined
<1>4. \A k \in 1 .. Len(t) : ~Begins(t[k])
  BY <1>3, TokensBegin, ElementOfSeq
<1>5. Len(s) >= 1 /\ Begins(s[1]) /\ s[1].i = id /\ \A x \in 1 .. Len(s) : Begins(s[x]) => x = 1
  BY DEF OneBegins
<1>6. Len(r) \in Nat /\ Len(r) >= 1 /\ r[1] = s[1]
  BY <1>3, <1>5
<1>7. ASSUME NEW x \in 1 .. Len(r), Begins(r[x])
      PROVE  x = 1
  <2>1. CASE x \in 1 .. Len(s)
    BY <1>3, <1>5, <1>7, <2>1
  <2>2. CASE x \notin 1 .. Len(s)
    <3>1. PICK k \in 1 .. Len(t) : x = Len(s) + k
      <4>1. x - Len(s) \in 1 .. Len(t) /\ x = Len(s) + (x - Len(s))
        BY <1>3, <2>2
      <4>2. QED
        BY <4>1
    <3>2. QED
      BY <1>3, <1>4, <1>7, <3>1
  <2>3. QED
    BY <2>1, <2>2
<1>8. QED
  BY <1>3, <1>5, <1>6, <1>7 DEF OneBegins

LEMMA HeadBegins ==
    ASSUME NEW m \in Request, NEW id \in Nat, NEW o \in Seq(RestToken)
    PROVE  OneBegins(RequestHead(m, id) \o o, id)
<1>1. IsMessage(m) /\ m.path \in Text /\ m.version \in Text
  BY RequestsAre
<1>2. PICK a, b, c, d : /\ a = <<Tok("method", "GET", id)>> /\ b = Both("url", m.path)
                        /\ c = <<Tok("version", m.version, 1)>> /\ d = HeadLines(m)
  OBVIOUS
<1>3. OneBegins(a, id)
  <2>1. PICK t : t = Tok("method", "GET", id)
    OBVIOUS
  <2>2. t \in Token /\ Begins(t) /\ t.i = id
    BY <2>1 DEF Token, Tok, Kinds, Text, Begins
  <2>3. a = <<t>>
    BY <1>2, <2>1
  <2>4. a \in Seq(Token) /\ Len(a) = 1 /\ a[1] = t
    BY <2>2, <2>3
  <2>5. QED
    BY <2>2, <2>4 DEF OneBegins
<1>4. b \in Seq(RestToken)
  <2>1. PICK t, u : t = Tok("url", m.path, 1) /\ u = Tok("url", m.path, 2)
    OBVIOUS
  <2>2. t \in RestToken /\ u \in RestToken
    BY <1>1, <2>1 DEF RestToken, Token, Tok, Kinds, Begins
  <2>3. b = <<t, u>>
    BY <1>2, <2>1 DEF Both
  <2>4. QED
    BY <2>2, <2>3
<1>5. c \in Seq(RestToken)
  <2>1. PICK t : t = Tok("version", m.version, 1)
    OBVIOUS
  <2>2. t \in RestToken
    BY <1>1, <2>1 DEF RestToken, Token, Tok, Kinds, Begins
  <2>3. c = <<t>>
    BY <1>2, <2>1
  <2>4. QED
    BY <2>2, <2>3
<1>6. d \in Seq(RestToken)
  BY <1>1, <1>2, HeadIsSeq
<1>7. PICK e : e = a \o b
  OBVIOUS
<1>8. OneBegins(e, id)
  BY <1>3, <1>4, <1>7, MoreBehind
<1>9. PICK f : f = e \o c
  OBVIOUS
<1>10. OneBegins(f, id)
  BY <1>5, <1>8, <1>9, MoreBehind
<1>11. PICK g : g = f \o d
  OBVIOUS
<1>12. OneBegins(g, id)
  BY <1>6, <1>10, <1>11, MoreBehind
<1>13. RequestHead(m, id) = g
  BY <1>2, <1>7, <1>9, <1>11 DEF RequestHead
<1>14. PICK h : h = g \o o
  OBVIOUS
<1>15. OneBegins(h, id)
  BY <1>12, <1>14, MoreBehind
<1>16. QED
  BY <1>13, <1>14, <1>15

LEMMA RequestTokens ==
    ASSUME NEW m \in Request, NEW id \in Nat
    PROVE  OneBegins(RequestDump(m, id), id) /\ OneBegins(ForeignDump(m, id), id)
<1>1. m.body \in Nat
  BY LengthsAre, RequestsAre DEF IsMessage
<1>2. Bytes(m.body) \in Seq(RestToken) /\ Chunks(m.body) \in Seq(RestToken)
  BY <1>1, BodyTokens, ChunkTokens
<1>3. PICK b, c : b = Bytes(m.body) /\ c = Chunks(m.body)
  OBVIOUS
<1>4. OneBegins(RequestHead(m, id) \o b, id) /\ OneBegins(RequestHead(m, id) \o c, id)
  BY <1>2, <1>3, HeadBegins
<1>5. /\ RequestDump(m, id) = RequestHead(m, id) \o b
      /\ \/ ForeignDump(m, id) = RequestHead(m, id) \o b
         \/ ForeignDump(m, id) = RequestHead(m, id) \o c
  BY <1>3 DEF RequestDump, ForeignDump
<1>6. QED
  BY <1>4, <1>5

LEMMA IdsAreNat ==
    ASSUME NEW s \in Seq(Token)
    PROVE  Ids(s) \subseteq Nat
<1>1. \A x \in 1 .. Len(s) : s[x] \in Token
  BY ElementOfSeq
<1>2. QED
  BY <1>1, TokensBegin DEF Ids

(* At most one token begins a message. *)
AtMostOne(s) == \A x, y \in 1 .. Len(s) : Begins(s[x]) /\ Begins(s[y]) => x = y

(* What is sent behind what no message begins in. *)
Behind(r, s, t, id) ==
    s \in Seq(Token) /\ Ids(s) = {} /\ OneBegins(t, id) /\ r = s \o t

LEMMA IdsSent ==
    ASSUME NEW s, NEW t, NEW id, NEW r, Behind(r, s, t, id)
    PROVE  r \in Seq(Token) /\ Ids(r) = {id} /\ AtMostOne(r)
<1> USE DEF Behind
<1>1. t \in Seq(Token) /\ Len(t) \in Nat /\ Len(t) >= 1 /\ Begins(t[1]) /\ t[1].i = id
      /\ \A x \in 1 .. Len(t) : Begins(t[x]) => x = 1
  BY DEF OneBegins
<1>2. /\ r \in Seq(Token) /\ Len(s) \in Nat /\ Len(t) \in Nat /\ Len(r) = Len(s) + Len(t)
      /\ \A k \in 1 .. Len(s) : r[k] = s[k]
      /\ \A k \in 1 .. Len(t) : r[Len(s) + k] = t[k]
  <2>1. s \in Seq(Token) /\ t \in Seq(Token)
    BY <1>1
  <2>2. QED
    BY <2>1, Joined
<1>3. \A k \in 1 .. Len(s) : ~Begins(s[k])
  BY DEF Ids
<1>4. ASSUME NEW x \in 1 .. Len(r), Begins(r[x])
      PROVE  x = Len(s) + 1
  <2>1. x \notin 1 .. Len(s)
    BY <1>2, <1>3, <1>4
  <2>2. PICK k \in 1 .. Len(t) : x = Len(s) + k
    <3>1. x - Len(s) \in 1 .. Len(t) /\ x = Len(s) + (x - Len(s))
      BY <1>2, <2>1
    <3>2. QED
      BY <3>1
  <2>3. QED
    BY <1>1, <1>2, <1>4, <2>2
<1>5. Len(s) + 1 \in 1 .. Len(r) /\ r[Len(s) + 1] = t[1]
  BY <1>1, <1>2
<1>6. Ids(r) = {id}
  BY <1>1, <1>4, <1>5 DEF Ids
<1>7. AtMostOne(r)
  BY <1>4 DEF AtMostOne
<1>8. QED
  BY <1>2, <1>6, <1>7

(* What is read and what is left to read. *)
Splits(s, n, a, b) ==
    s \in Seq(Token) /\ n \in 1 .. Len(s) /\ a = SubSeq(s, 1, n) /\ b = SubSeq(s, n + 1, Len(s))

LEMMA IdsRead ==
    ASSUME NEW s, NEW n, NEW a, NEW b, Splits(s, n, a, b)
    PROVE  /\ a \in Seq(Token) /\ b \in Seq(Token) /\ Len(a) \in Nat
           /\ Ids(a) \subseteq Ids(s) /\ Ids(b) \subseteq Ids(s)
           /\ AtMostOne(s) => AtMostOne(b) /\ (Ids(a) = {} \/ Ids(b) = {})
<1> USE DEF Splits
<1>1. Len(s) \in Nat /\ n \in Nat /\ n <= Len(s) /\ 1 <= n
  BY LenProperties
<1>2. a \in Seq(Token) /\ Len(a) = n /\ \A x \in 1 .. n : a[x] = s[x]
  BY <1>1, SubSeqProperties
<1>3. b \in Seq(Token) /\ Len(b) = Len(s) - n /\ \A x \in 1 .. Len(s) - n : b[x] = s[n + x]
  BY <1>1, SubSeqProperties
<1>4. Ids(a) \subseteq Ids(s)
  BY <1>1, <1>2 DEF Ids
<1>5. \A x \in 1 .. Len(b) : n + x \in 1 .. Len(s)
  BY <1>1, <1>3
<1>6. Ids(b) \subseteq Ids(s)
  BY <1>3, <1>5 DEF Ids
<1>7. ASSUME AtMostOne(s)
      PROVE  AtMostOne(b)
  <2>1. ASSUME NEW x \in 1 .. Len(b), NEW y \in 1 .. Len(b), Begins(b[x]), Begins(b[y])
        PROVE  x = y
    <3>1. n + x = n + y
      BY <1>3, <1>5, <1>7, <2>1 DEF AtMostOne
    <3>2. QED
      BY <1>1, <1>3, <3>1
  <2>2. QED
    BY <2>1 DEF AtMostOne
<1>8. ASSUME AtMostOne(s), Ids(a) # {}, Ids(b) # {}
      PROVE  FALSE
  <2>1. PICK x \in 1 .. Len(a) : Begins(a[x])
    BY <1>8 DEF Ids
  <2>2. PICK y \in 1 .. Len(b) : Begins(b[y])
    BY <1>8 DEF Ids
  <2>3. x \in 1 .. Len(s) /\ n + y \in 1 .. Len(s) /\ x # n + y
    BY <1>1, <1>2, <1>3, <1>5
  <2>4. Begins(s[x]) /\ Begins(s[n + y])
    BY <1>2, <1>3, <2>1, <2>2
  <2>5. QED
    BY <1>8, <2>3, <2>4 DEF AtMostOne
<1>9. QED
  BY <1>2, <1>3, <1>4, <1>6, <1>7, <1>8

-----------------------------------------------------------------------------
(* A connection *)

LEMMA NothingBegins == Ids(<<>>) = {} /\ ToSet(<<>>) = {}
BY DEF Ids, ToSet

LEMMA NewParsers ==
    /\ Sound(HttpRequestParser) /\ HttpRequestParser.got = <<>>
    /\ Starting(HttpResponseParser)
<1>1. \A type : Typed(http_parser_init(type)) /\ http_parser_init(type).got = <<>>
  BY DEF Typed, http_parser_init, ParserFields, States, Marks
<1>2. /\ \A type : ~http_parser_init(type).m_finished /\ http_parser_init(type).state = "s_start"
      /\ Starting(HttpResponseParser)
  BY <1>1 DEF Starting, http_parser_init, HttpResponseParser
<1>3. PICK p : p = HttpRequestParser
  OBVIOUS
<1>4. Typed(p) /\ p.got = <<>> /\ ~p.m_finished /\ p.state = "s_start"
  BY <1>1, <1>2, <1>3 DEF HttpRequestParser
<1>5. <<>> \in Seq(Nat)
  OBVIOUS
<1>6. Sound(p)
  BY <1>4, <1>5, Zenon DEF Sound
<1>7. QED
  BY <1>2, <1>3, <1>4, <1>6

(* The parser begins nothing: only what it has begun is pending. *)
LEMMA NoneGot ==
    ASSUME NEW p, Sound(p)
    PROVE  ToSet(p.got) = {} <=> p.got = <<>>
<1>1. p.got \in Seq(Nat)
  BY DEF Sound
<1>2. p.got # <<>> => 1 \in DOMAIN p.got
  BY <1>1
<1>3. QED
  BY <1>2, NothingBegins DEF ToSet

LEMMA NewWires ==
    ASSUME NEW s, NEW n
    PROVE  Wire(NewConn(s), n) /\ Quiet(NewConn(s)) /\ Wire(Unused, n) /\ Pending(Unused) = {}
<1>1. \A k : k.up = <<>> /\ k.p = HttpRequestParser => Pending(k) = {}
  BY NothingBegins, NewParsers DEF Pending
<1>2. /\ NewConn(s).up = <<>> /\ NewConn(s).p = HttpRequestParser /\ NewConn(s).down = <<>>
      /\ NewConn(s).pc = "none"
      /\ Unused.up = <<>> /\ Unused.p = HttpRequestParser /\ Unused.pc = "none"
  BY DEF NewConn, Unused
<1>3. Pending(NewConn(s)) = {} /\ Pending(Unused) = {}
  BY <1>1, <1>2
<1>4. <<>> \in Seq(Token)
  OBVIOUS
<1>5. QED
  BY <1>2, <1>3, <1>4, NewParsers DEF Wire, Quiet

LEMMA LongerLog ==
    ASSUME NEW k, NEW n \in Nat, NEW l \in Nat, n <= l, Wire(k, n)
    PROVE  Wire(k, l)
<1>1. 1 .. n \subseteq 1 .. l
  OBVIOUS
<1>2. QED
  BY <1>1, Zenon DEF Wire

(* A step that asks for nothing, and leaves alone what the client of an    *)
(* open connection waits for.                                              *)
Passes(j, k) ==
    /\ Pending(j) \subseteq Pending(k) /\ j.cli = k.cli
    /\ k.cli = "open" => j.down = k.down /\ \A r : Waiting(r, k) => Waiting(r, j)

LEMMA MinePasses ==
    ASSUME NEW j, NEW k, Passes(j, k), NEW r, NEW a, Mine(r, k, a)
    PROVE  Mine(r, j, a)
<1>1. Quiet(k) /\ k.cli = "open" => Quiet(j)
  BY DEF Quiet, Passes
<1>2. k.cli = "open" /\ Receiving(r, k, a) => Receiving(r, j, a)
  <2>1. k.cli = "open" => j.down = k.down /\ (Pending(k) = {} => Pending(j) = {})
    BY DEF Passes
  <2> SUFFICES ASSUME k.cli = "open", Receiving(r, k, a)
               PROVE  Receiving(r, j, a)
    OBVIOUS
  <2>2. PICK m, i : /\ IsResponse(m) /\ m.status = a.status /\ m.body = a.body
                    /\ i \in Nat /\ Arrives(r, k, m, i)
    BY Zenon DEF Receiving
  <2>3. Arrives(r, j, m, i)
    BY <2>1, <2>2, Zenon DEF Arrives
  <2>4. Pending(j) = {}
    BY <2>1, Zenon DEF Receiving
  <2>5. QED
    BY <2>2, <2>3, <2>4, Zenon DEF Receiving
<1>3. j.cli = k.cli /\ (k.cli = "open" => (Waiting(r, k) => Waiting(r, j)))
  BY DEF Passes
<1>4. QED
  BY <1>1, <1>2, <1>3, Zenon DEF Mine

LEMMA QuietPasses ==
    ASSUME NEW j, NEW k, Passes(j, k), Quiet(k), k.cli = "open"
    PROVE  Quiet(j)
BY DEF Quiet, Passes

(* The data on the way and the server's parser stay.                       *)
SameWire(j, k) == j.up = k.up /\ j.p = k.p /\ j.down = k.down

LEMMA SamePending ==
    ASSUME NEW j, NEW k, SameWire(j, k)
    PROVE  /\ Pending(j) = Pending(k) /\ (Quiet(k) => Quiet(j))
           /\ \A n : Wire(k, n) /\ (j.pc = k.pc \/ j.pc # "handle") => Wire(j, n)
           /\ j.cli = k.cli => Passes(j, k)
<1>1. Pending(j) = Pending(k)
  BY Zenon DEF Pending, SameWire
<1>2. Quiet(k) => Quiet(j)
  BY <1>1, Zenon DEF Quiet, SameWire
<1>3. ASSUME NEW n, Wire(k, n), j.pc = k.pc \/ j.pc # "handle"
      PROVE  Wire(j, n)
  BY <1>1, <1>3, Zenon DEF Wire, SameWire
<1>4. ASSUME NEW r, Waiting(r, k)
      PROVE  Waiting(r, j)
  BY <1>1, <1>4, Zenon DEF Waiting, SameWire
<1>5. j.cli = k.cli => Passes(j, k)
  BY <1>1, <1>4, Zenon DEF Passes, SameWire
<1>6. QED
  BY <1>1, <1>2, <1>3, <1>5

(* Settling a connection. *)
LEMMA SettledWire ==
    ASSUME NEW j, IsConn(j), NEW s, s = Settled(j)
    PROVE  /\ Pending(s) \subseteq Pending(j) /\ s.cli = j.cli
           /\ j.cli # "closed" => s = j
           /\ \A n : Wire(j, n) => Wire(s, n)
           /\ \A k : Passes(j, k) => Passes(s, k)
<1>1. s.cli = j.cli /\ (j.cli # "closed" => s = j)
  BY SettledFields
<1>2. CASE s = j
  BY <1>1, <1>2
<1>3. CASE s # j
  <2>1. s = [Unused EXCEPT !.cli = "closed", !.srv = "closed", !.clean = j.clean]
        /\ j.cli = "closed"
    BY <1>3 DEF Settled
  <2>2. s.up = Unused.up /\ s.p = Unused.p /\ s.down = Unused.down /\ s.pc = Unused.pc
    BY <2>1 DEF Unused, NewConn
  <2>3. Pending(Unused) = {} /\ \A n : Wire(Unused, n)
    BY NewWires
  <2>4. SameWire(s, Unused)
    BY <2>2 DEF SameWire
  <2>5. Pending(s) = {} /\ \A n : Wire(s, n)
    BY <2>2, <2>3, <2>4, SamePending
  <2>6. ASSUME NEW k, Passes(j, k)
        PROVE  Passes(s, k)
    <3>1. k.cli = "closed"
      BY <2>1, <2>6 DEF Passes
    <3>2. QED
      BY <1>1, <2>1, <2>5, <3>1 DEF Passes
  <2>7. QED
    BY <1>1, <2>5, <2>6
<1>4. QED
  BY <1>2, <1>3

(* The server reads. *)
LEMMA ServerReads ==
    ASSUME NEW l, l \in Nat, NEW k, Wire(k, l), NEW n \in 1 .. Len(k.up),
           NEW q, q = http_parser_execute(k.p, SubSeq(k.up, 1, n)),
           NEW j, j.up = SubSeq(k.up, n + 1, Len(k.up)), j.p = q, j.down = k.down,
           j.cli = k.cli, j.pc = "handle" => q.m_finished
    PROVE  Wire(j, l) /\ Passes(j, k)
<1>1. k.up \in Seq(Token) /\ Sound(k.p) /\ Pending(k) \subseteq 1 .. l
  BY DEF Wire
<1>2. PICK a, b : a = SubSeq(k.up, 1, n) /\ b = SubSeq(k.up, n + 1, Len(k.up))
  OBVIOUS
<1>3. /\ a \in Seq(Token) /\ b \in Seq(Token) /\ Len(a) \in Nat
      /\ Ids(a) \subseteq Ids(k.up) /\ Ids(b) \subseteq Ids(k.up)
      /\ AtMostOne(k.up) => AtMostOne(b) /\ (Ids(a) = {} \/ Ids(b) = {})
  <2>1. Splits(k.up, n, a, b)
    BY <1>1, <1>2, Zenon DEF Splits
  <2>2. QED
    BY <2>1, IdsRead, Zenon
<1>4. q = http_parser_execute(k.p, a) /\ j.up = b
  BY <1>2
<1>5. Ids(a) \subseteq Nat
  BY <1>3, IdsAreNat
<1>6. Sound(q) /\ ToSet(q.got) \subseteq ToSet(k.p.got) \cup Ids(a)
  BY <1>1, <1>3, <1>4, <1>5, ExecuteIds
<1>7. Pending(j) \subseteq Pending(k)
  BY <1>3, <1>4, <1>6 DEF Pending
<1>8. j.pc = "handle" => q.got # <<>>
  BY <1>6 DEF Sound
<1>9. Wire(j, l)
  BY <1>1, <1>3, <1>4, <1>6, <1>7, <1>8 DEF Wire
<1>10. ASSUME NEW r, Waiting(r, k)
       PROVE  Waiting(r, j)
  <2>1. AtMostOne(k.up)
    BY <1>10 DEF Waiting, AtMostOne
  <2>2. AtMostOne(b) /\ (Ids(a) = {} \/ Ids(b) = {})
    BY <1>3, <2>1
  <2>3. q.got = <<>> \/ Ids(b) = {}
    <3>1. CASE Ids(b) = {}
      BY <3>1
    <3>2. CASE Ids(b) # {}
      <4>1. Ids(a) = {} /\ Ids(k.up) # {}
        BY <1>3, <2>2, <3>2
      <4>2. k.p.got = <<>>
        BY <1>10, <4>1 DEF Waiting
      <4>3. ToSet(q.got) = {}
        BY <1>6, <4>1, <4>2, NothingBegins
      <4>4. QED
        BY <1>6, <4>3, NoneGot
    <3>3. QED
      BY <3>1, <3>2
  <2>4. r.p = HttpResponseParser /\ k.down = <<>> /\ Pending(k) \subseteq {r.id}
    BY <1>10 DEF Waiting
  <2>5. QED
    BY <1>4, <1>7, <2>2, <2>3, <2>4 DEF Waiting, AtMostOne
<1>11. QED
  BY <1>7, <1>9, <1>10 DEF Passes

-----------------------------------------------------------------------------
(* The invariant: what a step leaves alone *)

(* A fiber without a connection relies on nothing. *)
LEMMA MineAlone ==
    ASSUME NEW r, NEW k, NEW a, Mine(r, k, a), r.pc \notin {"send", "recv", "release"}, NEW l, NEW b
    PROVE  Mine(r, l, b)
BY Zenon DEF Mine

LEMMA MineKept ==
    ASSUME OwnInv, NEW g \in Fibers, fiber'[g] = fiber[g],
           fiber[g].conn \in Conns => conns'[fiber[g].conn] = conns[fiber[g].conn],
           g \in Active => log'[fiber[g].id].answer = log[fiber[g].id].answer
    PROVE  Mine(fiber[g], conns[fiber[g].conn], log[fiber[g].id].answer)'
<1>1. Mine(fiber[g], conns[fiber[g].conn], log[fiber[g].id].answer) /\ IsFiber(fiber[g])
  BY DEF OwnInv, MineOk, PoolInv, Types
<1>2. CASE fiber[g].pc \notin {"send", "recv", "release"}
  BY <1>1, <1>2, MineAlone
<1>3. CASE fiber[g].pc \in {"send", "recv", "release"}
  <2>1. g \in Active /\ fiber[g].conn \in Conns
    BY <1>1, <1>3 DEF Active, IsFiber
  <2>2. /\ fiber'[g] = fiber[g] /\ conns'[fiber'[g].conn] = conns[fiber[g].conn]
        /\ log'[fiber'[g].id].answer = log[fiber[g].id].answer
    BY <2>1
  <2>3. QED
    BY <1>1, <2>2
<1>4. QED
  BY <1>2, <1>3

LEMMA IdsShrink ==
    ASSUME IdsOk, Len(log) \in Nat, Len(log') \in Nat, Len(log) <= Len(log'),
           \A f \in Active' : /\ f \in Active /\ fiber'[f].id = fiber[f].id
                              /\ fiber'[f].conn = fiber[f].conn \/ fiber[f].conn \notin Conns,
           \A c \in Conns : Pending(conns'[c]) \subseteq Pending(conns[c])
    PROVE  IdsOk'
<1>1. \A f \in Active' : fiber'[f].id \in 1 .. Len(log')
  BY DEF IdsOk
<1>2. \A f, g \in Active' : fiber'[f].id = fiber'[g].id => f = g
  BY Zenon DEF IdsOk
<1>3. \A f \in Active' : \A c \in Conns :
          fiber'[f].id \in Pending(conns'[c]) => c = fiber'[f].conn
  BY Zenon DEF IdsOk
<1>4. QED
  BY <1>1, <1>2, <1>3, Zenon DEF IdsOk

LEMMA WiresKept ==
    ASSUME Len(log) \in Nat, Len(log') \in Nat, Len(log) <= Len(log'),
           \A c \in Conns : Wire(conns'[c], Len(log))
    PROVE  WiresOk'
BY LongerLog DEF WiresOk

LEMMA LogLength == LogOk => Len(log) \in Nat /\ DOMAIN log = 1 .. Len(log)
BY LenProperties DEF LogOk

LEMMA OwnInit == HttpInit => OwnInv
<1> SUFFICES ASSUME HttpInit
             PROVE  OwnInv
  OBVIOUS
<1>1. PoolInv /\ DataOk
  BY PoolInit, DataInit
<1>2. \A c \in Conns : conns[c] = Unused
  BY DEF HttpInit
<1>3. WiresOk
  BY <1>2, NewWires DEF WiresOk
<1>4. \A f \in Fibers : fiber[f] = Idle
  BY DEF HttpInit
<1>5. Active = {}
  BY <1>4 DEF Active, Idle
<1>6. IdsOk
  BY <1>5 DEF IdsOk
<1>7. \A k, a : Mine(Idle, k, a)
  BY DEF Mine, Idle
<1>8. MineOk
  BY <1>4, <1>7 DEF MineOk
<1>9. PoolQuiet
  <2>1. m_conns = <<>>
    BY DEF HttpInit
  <2>2. QED
    BY <2>1, NothingBegins DEF PoolQuiet
<1>10. QED
  BY <1>1, <1>3, <1>6, <1>8, <1>9 DEF OwnInv

(* A fiber that is idle. *)
LEMMA IdleIsFree == Idle.pc = "idle" /\ \A k, a : Mine(Idle, k, a)
BY DEF Mine, Idle

(* Steps that touch neither a connection nor a fiber. *)
LEMMA OwnSame ==
    ASSUME OwnInv, PoolInv', DataOk', UNCHANGED <<m_conns, conns, fiber, log>>
    PROVE  OwnInv'
<1>1. Active' = Active
  BY DEF Active
<1>2. WiresOk'
  BY DEF OwnInv, WiresOk
<1>3. IdsOk'
  BY <1>1 DEF OwnInv, IdsOk
<1>4. MineOk'
  BY DEF OwnInv, MineOk
<1>5. PoolQuiet'
  BY DEF OwnInv, PoolQuiet
<1>6. QED
  BY <1>2, <1>3, <1>4, <1>5 DEF OwnInv

(* The server's end of a connection. *)
LEMMA OwnServer ==
    ASSUME OwnInv, PoolInv', DataOk', NEW c \in Conns, NEW j, IsConn(j), Update(c, j),
           Wire(j, Len(log)), Passes(j, conns[c]), UNCHANGED <<m_conns, fiber, log>>
    PROVE  OwnInv'
<1>1. Types /\ LogOk
  BY DEF OwnInv, PoolInv, DataOk
<1>2. PICK s : s = Settled(j)
  OBVIOUS
<1>3. conns'[c] = s /\ \A d \in Conns \ {c} : conns'[d] = conns[d]
  BY <1>1, <1>2 DEF Update, Types
<1>4. /\ Wire(s, Len(log)) /\ Passes(s, conns[c])
  BY <1>2, SettledWire
<1>5. Pending(s) \subseteq Pending(conns[c])
  BY <1>4 DEF Passes
<1>6. Active' = Active /\ Len(log) \in Nat
  BY <1>1, LogLength DEF Active
<1>7. WiresOk'
  <2>1. \A d \in Conns : Wire(conns'[d], Len(log))
    BY <1>3, <1>4 DEF OwnInv, WiresOk
  <2>2. QED
    BY <1>6, <2>1, WiresKept
<1>8. IdsOk'
  <2>1. \A d \in Conns : Pending(conns'[d]) \subseteq Pending(conns[d])
    BY <1>3, <1>5
  <2>2. IdsOk /\ Len(log) <= Len(log')
    BY <1>6 DEF OwnInv
  <2>3. QED
    BY <1>6, <2>1, <2>2, IdsShrink
<1>9. MineOk'
  <2>1. ASSUME NEW g \in Fibers
        PROVE  Mine(fiber[g], conns[fiber[g].conn], log[fiber[g].id].answer)'
    <3>1. CASE fiber[g].conn # c
      <4>1. fiber[g].conn \in Conns => conns'[fiber[g].conn] = conns[fiber[g].conn]
        BY <1>3, <3>1
      <4>2. QED
        BY <4>1, MineKept
    <3>2. CASE fiber[g].conn = c
      <4>1. Mine(fiber[g], conns[c], log[fiber[g].id].answer)
        BY <3>2 DEF OwnInv, MineOk
      <4>2. Mine(fiber[g], s, log[fiber[g].id].answer)
        BY <1>4, <4>1, MinePasses
      <4>3. QED
        BY <1>3, <3>2, <4>2
    <3>3. QED
      BY <3>1, <3>2
  <2>2. QED
    BY <2>1 DEF MineOk
<1>10. PoolQuiet'
  <2>1. ToSet(m_conns) \subseteq Conns /\ \A d \in ToSet(m_conns) : conns[d].cli = "open" /\ Quiet(conns[d])
    BY <1>1, MembersAreConns DEF OwnInv, PoolInv, PoolExact, PoolQuiet
  <2>2. c \in ToSet(m_conns) => Quiet(s)
    BY <1>4, <2>1, QuietPasses
  <2>3. QED
    BY <1>3, <2>1, <2>2 DEF PoolQuiet
<1>11. QED
  BY <1>7, <1>8, <1>9, <1>10 DEF OwnInv

-----------------------------------------------------------------------------
(* The server's steps *)

LeftSame ==
    /\ DOMAIN left' = DOMAIN left /\ left'.wanted = left.wanted
    /\ left'.foreign \subseteq left.foreign

LEMMA DataKept ==
    ASSUME OwnInv, LeftSame, UNCHANGED <<dispatch, log>>
    PROVE  DataOk'
<1>1. LeftOk'
  BY DEF LeftOk, LeftSame, OwnInv, DataOk
<1>2. QED
  BY <1>1 DEF OwnInv, DataOk, LogOk, DispatchOk

LEMMA LeftUnchanged == UNCHANGED left => LeftSame
BY DEF LeftSame

(* A connection whose wire stays. *)
LEMMA OwnClosed ==
    ASSUME OwnInv, PoolInv', DataOk', NEW c \in Conns, NEW j, IsConn(j), Update(c, j),
           SameWire(j, conns[c]), j.cli = conns[c].cli, j.pc = conns[c].pc \/ j.pc # "handle",
           UNCHANGED <<m_conns, fiber, log>>
    PROVE  OwnInv'
<1>1. Wire(conns[c], Len(log))
  BY DEF OwnInv, WiresOk
<1>2. Wire(j, Len(log)) /\ Passes(j, conns[c])
  BY <1>1, SamePending
<1>3. QED
  BY <1>2, OwnServer

LEMMA ClosedWire ==
    ASSUME NEW k, IsConn(k)
    PROVE  SameWire(Closed(k), k) /\ Closed(k).pc = k.pc
BY DEF SameWire, Closed, IsConn, ConnFields

LEMMA OwnAccept ==
    ASSUME OwnInv, PoolInv', NEW s, NEW c \in Conns, startAccept(s, c)
    PROVE  OwnInv'
<1>1. UNCHANGED <<m_conns, fiber, log, left, dispatch>>
  BY DEF startAccept
<1>2. IsConn(conns[c])
  BY DEF OwnInv, PoolInv, Types
<1>3. PICK j : j = [conns[c] EXCEPT !.srv = "open", !.pc = "recv"]
  OBVIOUS
<1>4. IsConn(j) /\ SameWire(j, conns[c]) /\ j.cli = conns[c].cli /\ j.pc # "handle"
  BY <1>2, <1>3 DEF IsConn, ConnFields, SameWire
<1>5. Update(c, j)
  BY <1>3 DEF startAccept
<1>6. DataOk'
  BY <1>1, DataKept, LeftUnchanged
<1>7. QED
  BY <1>1, <1>4, <1>5, <1>6, OwnClosed

LEMMA OwnSessionData ==
    ASSUME OwnInv, PoolInv', NEW c \in Conns, SessionData(c),
           conns[c].pc = "recv", UNCHANGED <<m_conns, fiber, log, dispatch>>
    PROVE  OwnInv'
<1> DEFINE k == conns[c]
<1>1. IsConn(k) /\ Wire(k, Len(log)) /\ Len(log) \in Nat
  BY LogLength DEF OwnInv, PoolInv, Types, WiresOk, DataOk
<1>2. PICK n \in 1 .. Len(k.up) :
            LET q    == http_parser_execute(k.p, SubSeq(k.up, 1, n))
                rest == [k EXCEPT !.up = SubSeq(@, n + 1, Len(@)), !.p = q,
                                  !.clean = @ /\ ~q.cut]
            IN  /\ left' = Cut(k.up, n)
                /\ Update(c, IF RequestError(q) THEN Closed(rest)
                             ELSE [rest EXCEPT !.pc = IF q.m_finished THEN "handle" ELSE @])
  BY DEF SessionData
<1>3. PICK q : q = http_parser_execute(k.p, SubSeq(k.up, 1, n))
  OBVIOUS
<1>4. PICK rest : rest = [k EXCEPT !.up = SubSeq(@, n + 1, Len(@)), !.p = q,
                                   !.clean = @ /\ ~q.cut]
  OBVIOUS
<1>5. PICK next : next = [rest EXCEPT !.pc = IF q.m_finished THEN "handle" ELSE @]
  OBVIOUS
<1>6. /\ left' = Cut(k.up, n)
      /\ Update(c, IF RequestError(q) THEN Closed(rest) ELSE next)
  BY <1>2, <1>3, <1>4, <1>5
<1>7. LeftSame
  BY <1>6 DEF LeftSame, Cut, OwnInv, DataOk, LeftOk
<1>8. DataOk'
  BY <1>7, DataKept
<1>9. /\ IsConn(rest) /\ rest.up = SubSeq(k.up, n + 1, Len(k.up)) /\ rest.p = q
      /\ rest.down = k.down /\ rest.cli = k.cli /\ rest.pc = "recv"
  BY <1>1, <1>4 DEF IsConn, ConnFields
<1>10. /\ IsConn(next) /\ next.up = SubSeq(k.up, n + 1, Len(k.up)) /\ next.p = q
       /\ next.down = k.down /\ next.cli = k.cli /\ (next.pc = "handle" => q.m_finished)
  BY <1>5, <1>9 DEF IsConn, ConnFields
<1>11. /\ IsConn(Closed(rest)) /\ Closed(rest).up = SubSeq(k.up, n + 1, Len(k.up))
       /\ Closed(rest).p = q /\ Closed(rest).down = k.down /\ Closed(rest).cli = k.cli
       /\ Closed(rest).pc # "handle"
  <2>1. SameWire(Closed(rest), rest) /\ Closed(rest).pc = rest.pc
    BY <1>9, ClosedWire
  <2>2. IsConn(Closed(rest)) /\ Closed(rest).cli = rest.cli
    BY <1>9, ClosedFields
  <2>3. QED
    BY <1>9, <2>1, <2>2 DEF SameWire
<1>12. ASSUME NEW j, IsConn(j), j.up = SubSeq(k.up, n + 1, Len(k.up)), j.p = q,
              j.down = k.down, j.cli = k.cli, j.pc = "handle" => q.m_finished, Update(c, j)
       PROVE  OwnInv'
  <2> HIDE DEF k
  <2>1. Wire(j, Len(log)) /\ Passes(j, k)
    BY <1>1, <1>3, <1>12, ServerReads
  <2>2. QED
    BY <1>8, <1>12, <2>1, OwnServer DEF k
<1> HIDE DEF k
<1>13. CASE RequestError(q)
  BY <1>6, <1>11, <1>12, <1>13
<1>14. CASE ~RequestError(q)
  BY <1>6, <1>10, <1>12, <1>14
<1>15. QED
  BY <1>13, <1>14

LEMMA OwnRecvRequest ==
    ASSUME OwnInv, PoolInv', NEW c \in Conns, recvRequest(c)
    PROVE  OwnInv'
<1>1. UNCHANGED <<m_conns, fiber, log, dispatch>> /\ conns[c].pc = "recv"
  BY DEF recvRequest
<1>2. IsConn(conns[c])
  BY DEF OwnInv, PoolInv, Types
<1>3. CASE SessionData(c)
  BY <1>1, <1>3, OwnSessionData
<1>4. CASE SessionEnds(c)
  <2>1. Update(c, Closed(conns[c])) /\ UNCHANGED left
    BY <1>4 DEF SessionEnds
  <2>2. DataOk'
    BY <1>1, <2>1, DataKept, LeftUnchanged
  <2>3. /\ IsConn(Closed(conns[c])) /\ Closed(conns[c]).cli = conns[c].cli
        /\ SameWire(Closed(conns[c]), conns[c]) /\ Closed(conns[c]).pc = conns[c].pc
    BY <1>2, ClosedFields, ClosedWire
  <2>4. QED
    BY <1>1, <2>1, <2>2, <2>3, OwnClosed
<1>5. CASE SessionTimeout(c)
  <2>1. PICK k : k = [conns[c] EXCEPT !.clean = FALSE]
    OBVIOUS
  <2>2. left' = [left EXCEPT !.timeouts = @ - 1] /\ Update(c, Closed(k))
    BY <1>5, <2>1 DEF SessionTimeout
  <2>3. LeftSame
    BY <2>2 DEF LeftSame, OwnInv, DataOk, LeftOk
  <2>4. DataOk'
    BY <1>1, <2>3, DataKept
  <2>5. IsConn(k) /\ SameWire(k, conns[c]) /\ k.cli = conns[c].cli /\ k.pc = conns[c].pc
    BY <1>2, <2>1 DEF IsConn, ConnFields, SameWire
  <2>6. PICK j : j = Closed(k)
    OBVIOUS
  <2>7. IsConn(j) /\ j.cli = k.cli /\ SameWire(j, k) /\ j.pc = k.pc
    BY <2>5, <2>6, ClosedFields, ClosedWire
  <2>8. SameWire(j, conns[c]) /\ j.cli = conns[c].cli /\ j.pc = conns[c].pc
    BY <2>5, <2>7 DEF SameWire
  <2>9. QED
    BY <1>1, <2>2, <2>4, <2>6, <2>7, <2>8, OwnClosed
<1>6. QED
  BY <1>3, <1>4, <1>5 DEF recvRequest

LEMMA OwnSessionClose ==
    ASSUME OwnInv, PoolInv', NEW c \in Conns, SessionClose(c)
    PROVE  OwnInv'
<1>1. UNCHANGED <<m_conns, fiber, log, left, dispatch>> /\ Update(c, Closed(conns[c]))
  BY DEF SessionClose
<1>2. IsConn(conns[c])
  BY DEF OwnInv, PoolInv, Types
<1>3. DataOk'
  BY <1>1, DataKept, LeftUnchanged
<1>4. /\ IsConn(Closed(conns[c])) /\ Closed(conns[c]).cli = conns[c].cli
      /\ SameWire(Closed(conns[c]), conns[c]) /\ Closed(conns[c]).pc = conns[c].pc
  BY <1>2, ClosedFields, ClosedWire
<1>5. QED
  BY <1>1, <1>3, <1>4, OwnClosed

(* The answer to the request that waits begins to arrive. *)
LEMMA AnswerArrives ==
    ASSUME NEW r, NEW k, Waiting(r, k), NEW l, Wire(k, l), k.p.got # <<>>,
           NEW v, NEW close, NEW a \in Answers, NEW m, m = HttpResponse(v, close, a),
           NEW j, j.up = k.up, j.p = HttpRequestParser, j.down = k.down \o ResponseDump(m, r.id)
    PROVE  Receiving(r, j, a)
<1>1. IsResponse(m) /\ m.status = a.status /\ m.body = a.body
  BY AnswerIsResponse
<1>2. PICK D : D = ResponseDump(m, r.id)
  OBVIOUS
<1>3. (\E T : D \in Seq(T)) /\ Len(D) = DumpLen(m) /\ DumpLen(m) \in Nat
  BY <1>1, <1>2, DumpTokens DEF IsResponse
<1>4. j.down = D
  <2>1. k.down = <<>>
    BY DEF Waiting
  <2>2. <<>> \o D = D
    BY <1>3
  <2>3. QED
    BY <1>2, <2>1, <2>2
<1>5. Pending(j) = {}
  <2>1. Ids(k.up) = {}
    BY DEF Waiting
  <2>2. QED
    BY <2>1, NewParsers, NothingBegins DEF Pending
<1>6. Starting(r.p)
  BY NewParsers DEF Waiting
<1>7. At(r.p, m, r.id, 0)
  BY <1>6, Zenon DEF At
<1>8. ~r.p.errno /\ ~r.p.m_finished /\ r.p.mark = "none"
  BY <1>6 DEF Starting
<1>9. /\ (\E T : j.down \in Seq(T)) /\ 0 + Len(j.down) = DumpLen(m)
      /\ \A x \in 1 .. Len(j.down) : j.down[x] = ResponseDump(m, r.id)[0 + x]
  <2>1. \A x \in 1 .. Len(D) : 0 + x = x
    BY <1>3
  <2>2. QED
    BY <1>2, <1>3, <1>4, <2>1
<1>10. Arrives(r, j, m, 0)
  BY <1>7, <1>8, <1>9, Zenon DEF Arrives
<1>11. 0 \in Nat
  OBVIOUS
<1>12. QED
  BY <1>1, <1>5, <1>10, <1>11, Zenon DEF Receiving

(* What the fiber of a connection that is answered relies on. *)
LEMMA MineAnswered ==
    ASSUME NEW r, NEW k, NEW old, Mine(r, k, old), NEW l, Wire(k, l),
           NEW id, id \in ToSet(k.p.got), k.p.got # <<>>,
           NEW v, NEW close, NEW a \in Answers, NEW m, m = HttpResponse(v, close, a),
           NEW j, j.up = k.up, j.p = HttpRequestParser, j.cli = k.cli,
           k.cli = "open" => j.down = k.down \o ResponseDump(m, id),
           NEW b, r.id = id => b = a
    PROVE  Mine(r, j, b)
<1>1. id \in Pending(k) /\ ~Quiet(k) /\ Pending(k) # {}
  BY DEF Pending, Quiet
<1>2. r.pc # "send" /\ (r.pc = "release" => k.cli # "open") /\ (r.result = "OK" => FALSE)
  BY <1>1 DEF Mine
<1>3. ASSUME r.pc = "recv"
      PROVE  j.cli = "open" /\ Receiving(r, j, b)
  <2>1. k.cli = "open" /\ Waiting(r, k)
    BY <1>1, <1>3 DEF Mine, Receiving
  <2>2. r.id = id
    BY <1>1, <2>1 DEF Waiting
  <2>3. j.down = k.down \o ResponseDump(m, r.id) /\ b = a
    BY <2>1, <2>2
  <2>4. QED
    BY <2>1, <2>3, AnswerArrives
<1>4. r.pc \in {"idle", "connect", "send"} => r.p = HttpResponseParser
  BY DEF Mine
<1>5. QED
  BY <1>2, <1>3, <1>4 DEF Mine

LEMMA AnswerLogged ==
    ASSUME LogOk, NEW id \in 1 .. Len(log), NEW a \in Answers, log' = [log EXCEPT ![id].answer = a]
    PROVE  /\ LogOk' /\ Len(log') = Len(log) /\ log'[id].answer = a
           /\ \A i \in 1 .. Len(log) : i # id => log'[i].answer = log[i].answer
<1> DEFINE R == [msg : Request, answer : Answers]
<1>1. log \in Seq(R) /\ Len(log) \in Nat /\ DOMAIN log = 1 .. Len(log)
  BY LogLength DEF LogOk
<1>2. log[id] \in R
  BY <1>1, ElementOfSeq
<1>3. PICK e : e = [log[id] EXCEPT !.answer = a]
  OBVIOUS
<1>4. e \in R /\ e.answer = a
  BY <1>2, <1>3
<1> HIDE DEF R
<1>5. log' = [log EXCEPT ![id] = e]
  BY <1>3
<1>6. log' \in Seq(R) /\ Len(log') = Len(log)
  BY <1>1, <1>4, <1>5, ExceptSeq
<1>7. log'[id] = e /\ \A i \in 1 .. Len(log) : i # id => log'[i] = log[i]
  BY <1>1, <1>5
<1>8. QED
  BY <1>4, <1>6, <1>7 DEF LogOk, R

LEMMA OwnHandle ==
    ASSUME OwnInv, PoolInv', NEW c \in Conns, handleClient(c)
    PROVE  OwnInv'
<1> DEFINE k == conns[c]
           close  == isClose(k.p) \/ ~left.keepalive
           answer == getMatchedServlet(dispatch, k.p.m_path)
           rsp    == HttpResponse(k.p.version, close, answer)
           id     == Last(k.p.got)
           j0     == [k EXCEPT
               !.down = IF k.cli = "open" THEN @ \o ResponseDump(rsp, id) ELSE @,
               !.p = HttpRequestParser,
               !.pc = IF close THEN "close" ELSE "recv",
               !.clean = @ /\ Framed(rsp)]
<1>1. /\ k.pc = "handle" /\ Update(c, j0) /\ log' = [log EXCEPT ![id].answer = answer]
      /\ UNCHANGED <<m_conns, m_total, fiber, dispatch, left>>
  BY Zenon DEF handleClient
<1>2. IsConn(k) /\ Wire(k, Len(log)) /\ Len(log) \in Nat /\ LogOk /\ Types /\ IsDispatch(dispatch)
  BY LogLength DEF OwnInv, PoolInv, Types, WiresOk, DataOk, DispatchOk, IsDispatch
<1>3. answer \in Answers
  BY <1>2, MatchedServlet
<1>4. k.p.got # <<>> /\ id \in ToSet(k.p.got)
  <2>1. k.p.got # <<>> /\ k.p.got \in Seq(Nat)
    BY <1>1, <1>2 DEF Wire, Sound
  <2> HIDE DEF k
  <2>2. Len(k.p.got) \in DOMAIN k.p.got
    BY <2>1
  <2>3. QED
    BY <2>1, <2>2 DEF Last, ToSet
<1>5. id \in Pending(k) /\ id \in 1 .. Len(log)
  BY <1>2, <1>4 DEF Wire, Pending
<1> HIDE DEF answer, close, id
<1>6. PICK m : m = HttpResponse(k.p.version, close, answer)
  OBVIOUS
<1>7. PICK j : j = j0
  OBVIOUS
<1>8. /\ IsConn(j) /\ j.up = k.up /\ j.p = HttpRequestParser /\ j.cli = k.cli /\ j.pc # "handle"
      /\ k.cli = "open" => j.down = k.down \o ResponseDump(m, id)
  <2> DEFINE down == IF k.cli = "open" THEN k.down \o ResponseDump(m, id) ELSE k.down
             clean == k.clean /\ Framed(m)
             pc == IF close THEN "close" ELSE "recv"
  <2>1. j = [k EXCEPT !.down = down, !.p = HttpRequestParser, !.pc = pc, !.clean = clean]
    BY <1>6, <1>7, Zenon
  <2>2. pc # "handle"
    OBVIOUS
  <2> HIDE DEF down, clean, pc
  <2>3. /\ IsConn(j) /\ j.up = k.up /\ j.p = HttpRequestParser /\ j.cli = k.cli /\ j.pc = pc
        /\ j.down = down
    BY <1>2, <2>1 DEF IsConn, ConnFields
  <2>4. QED
    BY <2>2, <2>3 DEF down
<1>9. Update(c, j)
  BY <1>1, <1>7
<1> HIDE DEF j0
<1>10. PICK s : s = Settled(j)
  OBVIOUS
<1>11. conns'[c] = s /\ \A d \in Conns \ {c} : conns'[d] = conns[d]
  BY <1>2, <1>9, <1>10 DEF Update, Types
<1>12. Pending(j) \subseteq Pending(k) /\ Wire(j, Len(log))
  <2>1. Pending(j) \subseteq Pending(k)
    BY <1>8, NewParsers, NothingBegins DEF Pending
  <2>2. QED
    BY <1>2, <1>8, <2>1, NewParsers DEF Wire
<1>13. /\ Pending(s) \subseteq Pending(k) /\ Wire(s, Len(log)) /\ s.cli = j.cli
       /\ j.cli # "closed" => s = j
  BY <1>8, <1>10, <1>12, SettledWire
<1>14. /\ LogOk' /\ Len(log') = Len(log) /\ log'[id].answer = answer
       /\ \A i \in 1 .. Len(log) : i # id => log'[i].answer = log[i].answer
  BY <1>1, <1>2, <1>3, <1>5, AnswerLogged
<1>15. DataOk'
  <2>1. LeftOk' /\ DispatchOk'
    BY <1>1 DEF OwnInv, DataOk, LeftOk, DispatchOk
  <2>2. QED
    BY <1>14, <2>1 DEF DataOk
<1>16. Active' = Active
  BY <1>1 DEF Active
<1>17. WiresOk'
  <2>1. \A d \in Conns : Wire(conns'[d], Len(log))
    BY <1>11, <1>13 DEF OwnInv, WiresOk
  <2>2. QED
    BY <1>2, <1>14, <2>1, WiresKept
<1>18. IdsOk'
  <2>1. \A d \in Conns : Pending(conns'[d]) \subseteq Pending(conns[d])
    BY <1>11, <1>13
  <2>2. IdsOk /\ Len(log) <= Len(log') /\ Len(log') \in Nat
    BY <1>2, <1>14 DEF OwnInv
  <2>3. \A f \in Active' : f \in Active /\ fiber'[f].id = fiber[f].id /\ fiber'[f].conn = fiber[f].conn
    BY <1>1, <1>16
  <2>4. QED
    BY <1>2, <2>1, <2>2, <2>3, IdsShrink
<1>19. MineOk'
  <2>1. ASSUME NEW g \in Fibers
        PROVE  Mine(fiber[g], conns[fiber[g].conn], log[fiber[g].id].answer)'
    <3>1. CASE fiber[g].conn # c
      <4>1. fiber[g].conn \in Conns => conns'[fiber[g].conn] = conns[fiber[g].conn]
        BY <1>11, <3>1
      <4>2. ASSUME g \in Active
            PROVE  log'[fiber[g].id].answer = log[fiber[g].id].answer
        <5>1. fiber[g].id \in 1 .. Len(log) /\ fiber[g].id # id
          BY <1>5, <3>1, <4>2 DEF OwnInv, IdsOk
        <5>2. QED
          BY <1>14, <5>1
      <4>3. fiber'[g] = fiber[g]
        BY <1>1
      <4>4. QED
        BY <4>1, <4>2, <4>3, MineKept
    <3>2. CASE fiber[g].conn = c
      <4>1. PICK r, b : r = fiber[g] /\ b = log'[fiber[g].id].answer
        OBVIOUS
      <4>2. Mine(r, k, log[fiber[g].id].answer)
        BY <3>2, <4>1 DEF OwnInv, MineOk
      <4>3. r.id = id => b = answer
        BY <1>14, <4>1
      <4> HIDE DEF k
      <4>4. Mine(r, j, b)
        BY <1>2, <1>3, <1>4, <1>6, <1>8, <4>2, <4>3, MineAnswered
      <4>5. Mine(r, s, b)
        <5>1. CASE j.cli # "closed"
          BY <1>13, <4>4, <5>1
        <5>2. CASE j.cli = "closed"
          BY <1>13, <4>4, <5>2 DEF Mine
        <5>3. QED
          BY <5>1, <5>2
      <4>6. fiber'[g] = r /\ conns'[fiber'[g].conn] = s /\ log'[fiber'[g].id].answer = b
        BY <1>1, <1>11, <3>2, <4>1
      <4>7. QED
        BY <4>5, <4>6
    <3>3. QED
      BY <3>1, <3>2
  <2>2. QED
    BY <2>1 DEF MineOk
<1>20. PoolQuiet'
  <2>1. ToSet(m_conns) \subseteq Conns /\ \A d \in ToSet(m_conns) : Quiet(conns[d])
    BY <1>2, MembersAreConns DEF OwnInv, PoolQuiet
  <2>2. c \notin ToSet(m_conns)
    BY <1>5, <2>1 DEF Quiet
  <2>3. QED
    BY <1>1, <1>11, <2>1, <2>2 DEF PoolQuiet
<1>21. QED
  BY <1>15, <1>17, <1>18, <1>19, <1>20 DEF OwnInv

-----------------------------------------------------------------------------
(* The client's steps *)

LEMMA LogAppended ==
    ASSUME LogOk, NEW m \in Request, log' = Append(log, [msg |-> m, answer |-> NotFoundServlet])
    PROVE  /\ LogOk' /\ Len(log) \in Nat /\ Len(log') = Len(log) + 1
           /\ \A i \in 1 .. Len(log) : log'[i] = log[i]
<1> DEFINE R == [msg : Request, answer : Answers]
<1>1. log \in Seq(R) /\ Len(log) \in Nat
  BY LogLength DEF LogOk
<1>2. PICK e : e = [msg |-> m, answer |-> NotFoundServlet]
  OBVIOUS
<1>3. e \in R
  BY <1>2, AnswersAre
<1> HIDE DEF R
<1>4. /\ Append(log, e) \in Seq(R) /\ Len(Append(log, e)) = Len(log) + 1
      /\ \A i \in 1 .. Len(log) : Append(log, e)[i] = log[i]
  BY <1>1, <1>3, AppendProperties
<1>5. QED
  BY <1>1, <1>2, <1>4 DEF LogOk, R

(* doRequest() begins with an id nobody knows. *)
LEMMA OwnStart ==
    ASSUME OwnInv, PoolInv', NEW f \in Fibers, fiber[f].pc = "idle", NEW m \in Request,
           log' = Append(log, [msg |-> m, answer |-> NotFoundServlet]),
           LeftSame, UNCHANGED dispatch,
           \A c \in Conns : conns'[c] = conns[c],
           \A g \in Fibers \ {f} : fiber'[g] = fiber[g],
           fiber'[f].id = Len(log) + 1, fiber'[f].p = fiber[f].p, fiber'[f].result = fiber[f].result,
           \/ fiber'[f].pc = "connect"
           \/ fiber'[f].pc = "send" /\ fiber'[f].conn \in ToSet(m_conns),
           ToSet(m_conns') \subseteq ToSet(m_conns)
    PROVE  OwnInv'
<1>1. /\ LogOk' /\ Len(log) \in Nat /\ Len(log') = Len(log) + 1
      /\ \A i \in 1 .. Len(log) : log'[i] = log[i]
  BY LogAppended DEF OwnInv, DataOk
<1>2. DataOk'
  <2>1. LeftOk' /\ DispatchOk'
    BY DEF OwnInv, DataOk, LeftOk, DispatchOk, LeftSame
  <2>2. QED
    BY <1>1, <2>1 DEF DataOk
<1>3. ToSet(m_conns) \subseteq Conns /\ \A c \in ToSet(m_conns) : conns[c].cli = "open" /\ Quiet(conns[c])
  BY MembersAreConns DEF OwnInv, PoolInv, PoolExact, PoolQuiet
<1>4. WiresOk'
  <2>1. \A d \in Conns : Wire(conns'[d], Len(log))
    BY DEF OwnInv, WiresOk
  <2>2. Len(log') \in Nat /\ Len(log) <= Len(log')
    BY <1>1
  <2>3. QED
    BY <1>1, <2>1, <2>2, WiresKept
<1>5. PoolQuiet'
  BY <1>3 DEF PoolQuiet
<1>6. Active' = Active \cup {f} /\ f \notin Active /\ \A g \in Active : fiber'[g] = fiber[g]
  BY DEF Active
<1>7. IdsOk'
  <2>1. \A g \in Active : fiber[g].id \in 1 .. Len(log)
    BY DEF OwnInv, IdsOk
  <2>2. \A g \in Active' : fiber'[g].id \in 1 .. Len(log')
    BY <1>1, <1>6, <2>1
  <2>3. \A g \in Active : fiber[g].id # Len(log) + 1
    BY <1>1, <2>1
  <2>4. \A g, h \in Active' : fiber'[g].id = fiber'[h].id => g = h
    BY <1>6, <2>3 DEF OwnInv, IdsOk
  <2>5. \A c \in Conns : Len(log) + 1 \notin Pending(conns[c])
    <3>1. Len(log) + 1 \notin 1 .. Len(log)
      BY <1>1
    <3>2. QED
      BY <3>1 DEF OwnInv, WiresOk, Wire
  <2>6. ASSUME NEW g \in Active', NEW c \in Conns, fiber'[g].id \in Pending(conns'[c])
        PROVE  c = fiber'[g].conn
    <3>1. fiber'[g].id \in Pending(conns[c])
      BY <2>6
    <3>2. g # f
      BY <2>5, <3>1
    <3>3. g \in Active /\ fiber'[g] = fiber[g]
      BY <1>6, <3>2
    <3>4. QED
      BY <3>1, <3>3 DEF OwnInv, IdsOk
  <2>7. QED
    BY <2>2, <2>4, <2>6 DEF IdsOk
<1>8. MineOk'
  <2>1. ASSUME NEW g \in Fibers
        PROVE  Mine(fiber[g], conns[fiber[g].conn], log[fiber[g].id].answer)'
    <3>1. CASE g # f
      <4>1. fiber'[g] = fiber[g] /\ (fiber[g].conn \in Conns => conns'[fiber[g].conn] = conns[fiber[g].conn])
        BY <3>1
      <4>2. g \in Active => log'[fiber[g].id].answer = log[fiber[g].id].answer
        BY <1>1 DEF OwnInv, IdsOk
      <4>3. QED
        BY <4>1, <4>2, MineKept
    <3>2. CASE g = f
      <4>1. fiber'[f].p = HttpResponseParser /\ fiber'[f].result # "OK"
        BY DEF OwnInv, MineOk, Mine
      <4>2. fiber'[f].pc = "send" => /\ conns'[fiber'[f].conn].cli = "open"
                                     /\ Quiet(conns'[fiber'[f].conn])
        BY <1>3
      <4>3. Mine(fiber'[f], conns'[fiber'[f].conn], log'[fiber'[f].id].answer)
        BY <4>1, <4>2 DEF Mine
      <4>4. QED
        BY <3>2, <4>3
    <3>3. QED
      BY <3>1, <3>2
  <2>2. QED
    BY <2>1 DEF MineOk
<1>9. QED
  BY <1>2, <1>4, <1>5, <1>7, <1>8 DEF OwnInv

LEMMA OwnGet ==
    ASSUME OwnInv, PoolInv', NEW f \in Fibers, NEW m \in left.wanted, getConnection(f, m)
    PROVE  OwnInv'
<1>1. /\ fiber[f].pc = "idle" /\ left' = [left EXCEPT !.requests = @ - 1]
      /\ log' = Append(log, [msg |-> m, answer |-> NotFoundServlet])
      /\ UNCHANGED <<m_total, dispatch>>
      /\ m_conns' = SubSeq(m_conns, 2, Len(m_conns))
      /\ \A c \in Conns : conns'[c] = conns[c]
  BY GetTakesFirst DEF OwnInv
<1> DEFINE none == m_conns = <<>>
           pc   == IF none THEN "connect" ELSE "send"
           conn == IF none THEN 0 ELSE m_conns[1]
<1>2. fiber' = [fiber EXCEPT ![f].id = Len(log) + 1, ![f].pooled = TRUE,
                             ![f].pc = pc, ![f].conn = conn]
  BY GetTakesFirst DEF OwnInv
<1>3. /\ m_conns \in Seq(Conns) /\ PoolInv /\ DOMAIN fiber = Fibers
      /\ DOMAIN fiber[f] = FiberFields
      /\ \A i, j \in DOMAIN m_conns : m_conns[i] = m_conns[j] => i = j
  BY DEF OwnInv, PoolInv, Types, IsFiber, PoolExact
<1>4. ~none => conn \in ToSet(m_conns) /\ ToSet(m_conns') = ToSet(m_conns) \ {conn}
  BY <1>1, <1>3, PopFront
<1>5. none => m_conns' = m_conns
  BY <1>1
<1>6. ToSet(m_conns') \subseteq ToSet(m_conns)
  BY <1>4, <1>5
<1>7. pc = "connect" \/ (pc = "send" /\ conn \in ToSet(m_conns))
  <2>1. CASE none
    <3>1. pc = "connect"
      BY <2>1
    <3>2. QED
      BY <3>1, Zenon
  <2>2. CASE ~none
    <3>1. pc = "send"
      BY <2>2, Zenon
    <3>2. QED
      BY <1>4, <2>2, <3>1, Zenon
  <2>3. QED
    BY <2>1, <2>2
<1> HIDE DEF pc, conn
<1>8. /\ \A g \in Fibers \ {f} : fiber'[g] = fiber[g]
      /\ fiber'[f].id = Len(log) + 1 /\ fiber'[f].p = fiber[f].p
      /\ fiber'[f].result = fiber[f].result /\ fiber'[f].pc = pc /\ fiber'[f].conn = conn
  BY <1>2, <1>3 DEF FiberFields
<1>9. LeftSame /\ m \in Request
  BY <1>1 DEF LeftSame, OwnInv, DataOk, LeftOk
<1>10. QED
  BY <1>1, <1>6, <1>7, <1>8, <1>9, OwnStart

LEMMA OwnDirect ==
    ASSUME OwnInv, PoolInv', NEW f \in Fibers, NEW m \in left.wanted, DoRequest(f, m)
    PROVE  OwnInv'
<1>1. /\ fiber[f].pc = "idle" /\ left' = [left EXCEPT !.direct = @ - 1]
      /\ log' = Append(log, [msg |-> m, answer |-> NotFoundServlet])
      /\ UNCHANGED <<m_conns, conns, dispatch>>
      /\ fiber' = [fiber EXCEPT ![f].id = Len(log) + 1, ![f].pc = "connect"]
  BY DEF DoRequest
<1>2. DOMAIN fiber = Fibers /\ DOMAIN fiber[f] = FiberFields
  BY DEF OwnInv, PoolInv, Types, IsFiber
<1>3. /\ \A g \in Fibers \ {f} : fiber'[g] = fiber[g]
      /\ fiber'[f].id = Len(log) + 1 /\ fiber'[f].p = fiber[f].p
      /\ fiber'[f].result = fiber[f].result /\ fiber'[f].pc = "connect"
  BY <1>1, <1>2 DEF FiberFields
<1>4. LeftSame /\ m \in Request
  BY <1>1 DEF LeftSame, OwnInv, DataOk, LeftOk
<1>5. QED
  BY <1>1, <1>3, <1>4, OwnStart

(* A step of a fiber f on the connection c, which no other fiber has. *)
LEMMA OwnFiber ==
    ASSUME OwnInv, PoolInv', DataOk', NEW f \in Fibers, NEW c,
           \A g \in Fibers \ {f} : fiber'[g] = fiber[g] /\ fiber[g].conn # c,
           \A d \in Conns \ {c} : conns'[d] = conns[d], log' = log,
           c \in Conns => Wire(conns'[c], Len(log)), IdsOk', PoolQuiet',
           Mine(fiber[f], conns[fiber[f].conn], log[fiber[f].id].answer)'
    PROVE  OwnInv'
<1>1. WiresOk'
  <2>1. \A d \in Conns : Wire(conns'[d], Len(log))
    BY DEF OwnInv, WiresOk
  <2>2. QED
    BY <2>1 DEF WiresOk
<1>2. MineOk'
  <2>1. ASSUME NEW g \in Fibers
        PROVE  Mine(fiber[g], conns[fiber[g].conn], log[fiber[g].id].answer)'
    <3>1. CASE g = f
      BY <3>1
    <3>2. CASE g # f
      <4>1. fiber'[g] = fiber[g] /\ (fiber[g].conn \in Conns => conns'[fiber[g].conn] = conns[fiber[g].conn])
        BY <3>2
      <4>2. g \in Active => log'[fiber[g].id].answer = log[fiber[g].id].answer
        OBVIOUS
      <4>3. QED
        BY <4>1, <4>2, MineKept
    <3>3. QED
      BY <3>1, <3>2
  <2>2. QED
    BY <2>1 DEF MineOk
<1>3. QED
  BY <1>1, <1>2 DEF OwnInv

(* The connection of a fiber is its own. *)
LEMMA OnlyMine ==
    ASSUME PoolInv, NEW f \in Fibers, fiber[f].pc \in {"send", "recv", "release"}
    PROVE  \A g \in Fibers \ {f} : fiber[g].conn # fiber[f].conn
<1>1. f \in Busy /\ fiber[f].conn \in Conns
  BY MineIsOut
<1>2. ASSUME NEW g \in Fibers \ {f}, fiber[g].conn = fiber[f].conn
      PROVE  FALSE
  <2>1. g \in Busy
    BY <1>1, <1>2 DEF Busy
  <2>2. QED
    BY <1>1, <1>2, <2>1 DEF PoolInv, PoolExact, Busy
<1>3. QED
  BY <1>2

(* A step of a fiber that asks for nothing.                                *)
LEMMA OwnGoesOn ==
    ASSUME OwnInv, PoolInv', LeftSame, UNCHANGED <<dispatch, log>>,
           NEW f \in Fibers, fiber[f].pc \in {"send", "recv", "release"},
           NEW j, IsConn(j), Update(fiber[f].conn, j), NEW n, n = Len(log), Wire(j, n),
           Pending(j) \subseteq Pending(conns[fiber[f].conn]),
           \A g \in Fibers \ {f} : fiber'[g] = fiber[g],
           \/ fiber'[f] = Idle
           \/ /\ fiber'[f].id = fiber[f].id /\ fiber'[f].conn = fiber[f].conn
              /\ Mine(fiber'[f], Settled(j), log[fiber[f].id].answer),
           \A d \in ToSet(m_conns') :
               d \in ToSet(m_conns) \/ (d = fiber[f].conn /\ Quiet(j) /\ j.cli = "open")
    PROVE  OwnInv'
<1>1. PICK c : c = fiber[f].conn
  OBVIOUS
<1>2. c \in Conns /\ c \notin ToSet(m_conns) /\ f \in Busy
  BY <1>1, MineIsOut DEF OwnInv
<1>3. \A g \in Fibers \ {f} : fiber'[g] = fiber[g] /\ fiber[g].conn # c
  BY <1>1, OnlyMine DEF OwnInv
<1>4. Types /\ Len(log) \in Nat /\ n \in Nat
  BY LogLength DEF OwnInv, PoolInv, DataOk
<1>5. PICK s : s = Settled(j)
  OBVIOUS
<1>6. conns'[c] = s /\ \A d \in Conns \ {c} : conns'[d] = conns[d]
  BY <1>1, <1>2, <1>4, <1>5 DEF Update, Types
<1>7. /\ Pending(s) \subseteq Pending(j) /\ Wire(s, n) /\ (j.cli # "closed" => s = j)
  BY <1>5, SettledWire
<1>8. DataOk'
  BY DataKept
<1>9. \A d \in Conns : Pending(conns'[d]) \subseteq Pending(conns[d])
  BY <1>1, <1>6, <1>7
<1>10. f \in Active
  BY DEF Active
<1>11. \A g \in Active' : g \in Active /\ fiber'[g].id = fiber[g].id /\ fiber'[g].conn = fiber[g].conn
  BY <1>10, IdleIsFree DEF Active
<1>12. IdsOk'
  BY <1>4, <1>9, <1>11, IdsShrink DEF OwnInv
<1>13. PoolQuiet'
  <2>1. ToSet(m_conns) \subseteq Conns /\ \A d \in ToSet(m_conns) : Quiet(conns[d])
    BY <1>4, MembersAreConns DEF OwnInv, PoolQuiet
  <2>2. ASSUME NEW d \in ToSet(m_conns')
        PROVE  Quiet(conns'[d])
    <3>1. CASE d \in ToSet(m_conns)
      BY <1>2, <1>6, <2>1, <3>1
    <3>2. CASE d = c /\ Quiet(j) /\ j.cli = "open"
      BY <1>6, <1>7, <3>2
    <3>3. QED
      BY <1>1, <2>2, <3>1, <3>2
  <2>3. QED
    BY <2>2 DEF PoolQuiet
<1>14. Mine(fiber'[f], conns'[fiber'[f].conn], log'[fiber'[f].id].answer)
  <2>1. CASE fiber'[f] = Idle
    BY <2>1, IdleIsFree
  <2>2. CASE /\ fiber'[f].id = fiber[f].id /\ fiber'[f].conn = fiber[f].conn
             /\ Mine(fiber'[f], Settled(j), log[fiber[f].id].answer)
    BY <1>1, <1>5, <1>6, <2>2
  <2>3. QED
    BY <2>1, <2>2
<1>15. QED
  BY <1>2, <1>3, <1>4, <1>6, <1>7, <1>8, <1>12, <1>13, <1>14, OwnFiber

LEMMA OwnRelease ==
    ASSUME OwnInv, PoolInv', NEW f \in Fibers, ReleasePtr(f) \/ Destroy(f)
    PROVE  OwnInv'
<1> DEFINE c == fiber[f].conn
           k == conns[c]
<1>1. /\ fiber[f].pc = "release" /\ fiber' = [fiber EXCEPT ![f] = Idle]
      /\ UNCHANGED <<dispatch, log, left>>
  BY DEF ReleasePtr, Destroy
<1>2. c \in Conns /\ IsConn(k) /\ Wire(k, Len(log)) /\ m_conns \in Seq(Conns)
  BY <1>1, MineIsOut DEF OwnInv, WiresOk, PoolInv, Types
<1>3. k.cli = "open" => Quiet(k)
  BY <1>1 DEF OwnInv, MineOk, Mine
<1>4. /\ \A g \in Fibers \ {f} : fiber'[g] = fiber[g]
      /\ fiber'[f] = Idle
  BY <1>1 DEF OwnInv, PoolInv, Types
<1> HIDE DEF c, k
<1>5. PICK j, used, cli :
         /\ j = [k EXCEPT !.m_request = used, !.cli = cli] /\ Update(c, j) /\ used \in Nat
         /\ m_conns' = m_conns \/ (m_conns' = Append(m_conns, c) /\ k.cli = "open" /\ cli = k.cli)
  <2>1. CASE ReleasePtr(f)
    <3> DEFINE drop == k.cli # "open" \/ Expired \/ Worn(k)
               cli  == IF drop THEN "closed" ELSE k.cli
    <3>1. /\ Update(c, [k EXCEPT !.m_request = k.m_request + 1, !.cli = cli])
          /\ m_conns' = IF drop THEN m_conns ELSE Append(m_conns, c)
      BY <2>1, Zenon DEF ReleasePtr, c, k
    <3>2. k.m_request + 1 \in Nat
      BY <1>2 DEF IsConn
    <3>3. ~drop => k.cli = "open" /\ cli = k.cli
      OBVIOUS
    <3> HIDE DEF drop, cli
    <3>4. QED
      BY <3>1, <3>2, <3>3
  <2>2. CASE Destroy(f)
    <3>1. Update(c, [k EXCEPT !.cli = "closed"]) /\ m_conns' = m_conns
      BY <2>2 DEF Destroy, c, k
    <3>2. k.m_request \in Nat /\ [k EXCEPT !.cli = "closed"] = [k EXCEPT !.m_request = k.m_request, !.cli = "closed"]
      BY <1>2 DEF IsConn, ConnFields
    <3>3. QED
      BY <3>1, <3>2
  <2>3. QED
    BY <2>1, <2>2
<1>6. IsConn(j) /\ SameWire(j, k) /\ j.pc = k.pc /\ j.cli = cli
  BY <1>2, <1>5 DEF IsConn, ConnFields, SameWire
<1>7. Pending(j) = Pending(k) /\ (Quiet(k) => Quiet(j)) /\ Wire(j, Len(log))
  BY <1>2, <1>6, SamePending
<1>8. \A d \in ToSet(m_conns') : d \in ToSet(m_conns) \/ (d = c /\ Quiet(j) /\ j.cli = "open")
  <2>1. CASE m_conns' = m_conns
    <3>1. ToSet(m_conns') = ToSet(m_conns)
      BY <2>1, Zenon
    <3>2. QED
      BY <3>1, Zenon
  <2>2. CASE m_conns' = Append(m_conns, c) /\ k.cli = "open" /\ cli = k.cli
    <3>1. ToSet(m_conns') = ToSet(m_conns) \cup {c}
      <4>1. Conns \subseteq Nat
        BY HttpAssumption DEF Conns
      <4>2. m_conns \in Seq(Nat) /\ c \in Nat
        BY <1>2, <4>1, SeqMonotonic
      <4>3. QED
        BY <2>2, <4>2, AppendedIds
    <3>2. QED
      BY <1>3, <1>6, <1>7, <2>2, <3>1
  <2>3. QED
    BY <1>5, <2>1, <2>2
<1>9. LeftSame
  BY <1>1, LeftUnchanged
<1>10. fiber[f].conn = c /\ conns[fiber[f].conn] = k
  BY DEF c, k
<1>11. QED
  BY <1>1, <1>4, <1>5, <1>6, <1>7, <1>8, <1>9, <1>10, OwnGoesOn

(* Nothing is taken for an answer once the connection is closed. *)
LEMMA OwnGivesUp ==
    ASSUME OwnInv, PoolInv', LeftSame, UNCHANGED <<dispatch, log, m_conns>>,
           NEW f \in Fibers, fiber[f].pc = "recv", NEW k, IsConn(k), GivesUp(f, k),
           k.up = conns[fiber[f].conn].up, k.p = conns[fiber[f].conn].p,
           k.pc = conns[fiber[f].conn].pc
    PROVE  OwnInv'
<1>1. PICK j : j = [Unaccepted(k) EXCEPT !.cli = "closed"]
  OBVIOUS
<1>2. /\ Update(fiber[f].conn, j)
      /\ fiber' = [fiber EXCEPT ![f].pc = "release", ![f].result = "TIMEOUT"]
  BY <1>1 DEF GivesUp
<1>3. IsConn(j) /\ j.up = k.up /\ j.p = k.p /\ j.pc = k.pc /\ j.cli = "closed"
  BY <1>1 DEF IsConn, ConnFields, Unaccepted
<1>4. PICK old : old = conns[fiber[f].conn] /\ Wire(old, Len(log)) /\ DOMAIN fiber = Fibers
                 /\ DOMAIN fiber[f] = FiberFields
  BY MineIsOut DEF OwnInv, WiresOk, PoolInv, Types, IsFiber
<1>5. Pending(j) = Pending(old)
  BY <1>3, <1>4 DEF Pending
<1>6. Wire(j, Len(log))
  BY <1>3, <1>4, <1>5 DEF Wire
<1>7. /\ \A g \in Fibers \ {f} : fiber'[g] = fiber[g]
      /\ fiber'[f].id = fiber[f].id /\ fiber'[f].conn = fiber[f].conn
      /\ fiber'[f].pc = "release" /\ fiber'[f].result = "TIMEOUT"
  BY <1>2, <1>4 DEF FiberFields
<1>8. Settled(j).cli = "closed"
  BY <1>3, SettledFields
<1>9. \A a : Mine(fiber'[f], Settled(j), a)
  BY <1>7, <1>8 DEF Mine
<1>10. \A d \in ToSet(m_conns') : d \in ToSet(m_conns)
  OBVIOUS
<1>11. Pending(j) \subseteq Pending(conns[fiber[f].conn])
  BY <1>4, <1>5
<1>12. QED
  BY <1>2, <1>3, <1>6, <1>7, <1>9, <1>10, <1>11, OwnGoesOn

(* A part of the answer is read. *)
LEMMA AnswerRead ==
    ASSUME NEW r, NEW k, NEW a, Receiving(r, k, a), NEW n \in 1 .. Len(k.down),
           NEW q, q = http_parser_execute(r.p, SubSeq(k.down, 1, n)), ~q.errno,
           NEW j, j.down = SubSeq(k.down, n + 1, Len(k.down)), Pending(j) = Pending(k),
           NEW s, s.p = q, s.id = r.id
    PROVE  IF q.m_finished THEN Quiet(j) /\ Own(s, a) ELSE Receiving(s, j, a)
<1>1. PICK m, i : /\ IsResponse(m) /\ m.status = a.status /\ m.body = a.body
                  /\ i \in Nat /\ Arrives(r, k, m, i)
  BY Zenon DEF Receiving
<1>2. Pending(j) = {}
  BY DEF Receiving
<1>3. PICK D : D = ResponseDump(m, r.id)
  OBVIOUS
<1>4. DumpIs(m, r.id, D) /\ DumpLen(m) \in Nat
  BY <1>1, <1>3, DumpTokens DEF IsResponse
<1>5. /\ At(r.p, m, r.id, i) /\ ~r.p.errno /\ (r.p.mark = "none" \/ i = DumpLen(m))
      /\ (\E T : k.down \in Seq(T)) /\ i + Len(k.down) = DumpLen(m)
      /\ \A x \in 1 .. Len(k.down) : k.down[x] = D[i + x]
  BY <1>1, <1>3, Zenon DEF Arrives
<1>6. PICK T : k.down \in Seq(T)
  BY <1>5
<1>7. PICK down : down = k.down
  OBVIOUS
<1>8. PICK data, rest : data = SubSeq(down, 1, n) /\ rest = SubSeq(down, n + 1, Len(down))
  OBVIOUS
<1>9. Len(down) \in Nat /\ n \in Nat /\ 1 <= n /\ n <= Len(down) /\ down \in Seq(T)
  BY <1>6, <1>7, LenProperties
<1>10. /\ Len(data) = n /\ \A x \in 1 .. n : data[x] = down[x]
       /\ rest \in Seq(T) /\ Len(rest) = Len(down) - n
       /\ \A x \in 1 .. Len(down) - n : rest[x] = down[n + x]
  <2>1. \A x \in 1 .. Len(down) : down[x] \in T
    BY <1>9, ElementOfSeq
  <2>2. /\ Len(data) = n /\ \A x \in 1 .. n : data[x] = down[x]
    BY <1>8, <1>9, <2>1, SubSeqProperties
  <2>3. /\ rest \in Seq(T) /\ Len(rest) = Len(down) - n
        /\ \A x \in 1 .. Len(down) - n : rest[x] = down[n + x]
    BY <1>8, <1>9, <2>1, SubSeqProperties
  <2>4. QED
    BY <2>2, <2>3
<1>11. r.p.mark = "none"
  BY <1>1, <1>4, <1>5, <1>7, <1>9
<1>12. /\ Len(data) \in Nat /\ i + Len(data) <= DumpLen(m)
       /\ \A x \in 1 .. Len(data) : data[x] = D[i + x]
  <2>1. PICK all, w : all = DumpLen(m) /\ w = Len(down)
    OBVIOUS
  <2>2. i \in Nat /\ all \in Nat /\ w \in Nat /\ n \in Nat /\ n <= w /\ i + w = all
    BY <1>1, <1>4, <1>5, <1>7, <1>9, <2>1
  <2>3. i + n <= all
    BY <2>2
  <2>4. Len(data) = n /\ n \in Nat
    BY <1>9, <1>10
  <2>5. \A x \in 1 .. n : x \in 1 .. Len(down)
    BY <1>9
  <2>6. \A x \in 1 .. n : data[x] = D[i + x]
    BY <1>5, <1>7, <1>10, <2>5
  <2>7. QED
    BY <2>1, <2>3, <2>4, <2>6
<1>13. q = http_parser_execute(r.p, data) /\ j.down = rest
  BY <1>7, <1>8
<1>14. At(q, m, r.id, i + Len(data)) /\ (q.mark = "none" \/ i + Len(data) = DumpLen(m))
  <2>1. /\ IsResponse(m) /\ i \in Nat /\ At(r.p, m, r.id, i) /\ ~r.p.errno
    BY <1>1, <1>5
  <2>2. \/ q.errno
        \/ At(q, m, r.id, i + Len(data)) /\ (q.mark = "none" \/ i + Len(data) = DumpLen(m))
    BY <1>4, <1>11, <1>12, <1>13, <2>1, ExecuteAt
  <2>3. QED
    BY <2>2
<1>15. CASE q.m_finished
  <2>1. i + Len(data) = DumpLen(m) /\ Ended(q, m, r.id)
    BY <1>14, <1>15, AtTyped
  <2>2. Len(rest) = 0
    BY <1>1, <1>5, <1>7, <1>9, <1>10, <2>1
  <2>3. rest = <<>>
    BY <1>10, <2>2, EmptySeq
  <2>4. q.got = <<r.id>> /\ q.status = m.status /\ Len(q.m_body) = m.body
    BY <1>15, <2>1 DEF Ended
  <2>5. Own(s, a)
    BY <1>1, <2>4, Zenon DEF Own
  <2>6. Quiet(j)
    BY <1>2, <1>13, <2>3, Zenon DEF Quiet
  <2>7. QED
    BY <1>15, <2>5, <2>6
<1>16. CASE ~q.m_finished
  <2>1. PICK l : l = i + Len(data)
    OBVIOUS
  <2>2. l \in Nat /\ l + Len(rest) = DumpLen(m)
    <3>1. PICK w : w = Len(down)
      OBVIOUS
    <3>2. i \in Nat /\ w \in Nat /\ n \in Nat /\ n <= w /\ l = i + n /\ Len(rest) = w - n
      BY <1>1, <1>9, <1>10, <2>1, <3>1
    <3>3. l \in Nat /\ l + (w - n) = i + w
      BY <3>2
    <3>4. QED
      BY <1>5, <1>7, <3>1, <3>2, <3>3
  <2>3. \A x \in 1 .. Len(rest) : rest[x] = D[l + x]
    <3>1. ASSUME NEW x \in 1 .. Len(rest)
          PROVE  rest[x] = D[l + x]
      <4>1. n + x \in 1 .. Len(down) /\ rest[x] = down[n + x] /\ i + (n + x) = l + x
        BY <1>1, <1>9, <1>10, <2>1
      <4>2. QED
        BY <1>5, <1>7, <4>1
    <3>2. QED
      BY <3>1
  <2>4. (\E U : j.down \in Seq(U)) /\ l + Len(j.down) = DumpLen(m)
    BY <1>10, <1>13, <2>2
  <2>5. \A x \in 1 .. Len(j.down) : j.down[x] = ResponseDump(m, s.id)[l + x]
    BY <1>3, <1>13, <2>3
  <2>6. At(s.p, m, s.id, l) /\ ~s.p.errno /\ ~s.p.m_finished /\ (s.p.mark = "none" \/ l = DumpLen(m))
    BY <1>14, <1>16, <2>1
  <2>7. Arrives(s, j, m, l)
    BY <2>4, <2>5, <2>6, Zenon DEF Arrives
  <2>8. Receiving(s, j, a)
    BY <1>1, <1>2, <2>2, <2>7, Zenon DEF Receiving
  <2>9. QED
    BY <1>16, <2>8
<1>17. QED
  BY <1>15, <1>16

LEMMA OwnRecvData ==
    ASSUME OwnInv, PoolInv', NEW f \in Fibers, fiber[f].pc = "recv", RecvData(f),
           UNCHANGED <<dispatch, log, m_conns>>
    PROVE  OwnInv'
<1> DEFINE c == fiber[f].conn
           k == conns[c]
<1>1. PICK n \in 1 .. Len(k.down) :
          LET q    == http_parser_execute(fiber[f].p, SubSeq(k.down, 1, n))
              rest == [k EXCEPT !.down = SubSeq(@, n + 1, Len(@))]
          IN  /\ left' = Cut(k.down, n)
              /\ IF ResponseError(q) THEN GivesUp(f, rest)
                 ELSE /\ Update(c, rest)
                      /\ fiber' = [fiber EXCEPT ![f].p = q,
                             ![f].pc = IF q.m_finished THEN "release" ELSE @,
                             ![f].result = IF q.m_finished THEN "OK" ELSE @]
  BY Zenon DEF RecvData
<1>2. PICK q, j : /\ q = http_parser_execute(fiber[f].p, SubSeq(k.down, 1, n))
                  /\ j = [k EXCEPT !.down = SubSeq(@, n + 1, Len(@))]
  OBVIOUS
<1>3. /\ left' = Cut(k.down, n)
      /\ IF q.errno THEN GivesUp(f, j)
         ELSE /\ Update(c, j)
              /\ fiber' = [fiber EXCEPT ![f].p = q,
                             ![f].pc = IF q.m_finished THEN "release" ELSE @,
                             ![f].result = IF q.m_finished THEN "OK" ELSE @]
  BY <1>1, <1>2, Zenon DEF ResponseError
<1>4. /\ c \in Conns /\ IsConn(k) /\ Wire(k, Len(log))
      /\ DOMAIN fiber = Fibers /\ DOMAIN fiber[f] = FiberFields
  BY MineIsOut DEF OwnInv, WiresOk, PoolInv, Types, IsFiber
<1>5. LeftSame
  BY <1>3 DEF LeftSame, Cut, OwnInv, DataOk, LeftOk
<1>6. /\ IsConn(j) /\ j.up = k.up /\ j.p = k.p /\ j.pc = k.pc /\ j.cli = k.cli
      /\ j.down = SubSeq(k.down, n + 1, Len(k.down))
  BY <1>2, <1>4 DEF IsConn, ConnFields
<1>7. PICK a : a = log[fiber[f].id].answer
  OBVIOUS
<1>8. /\ k.cli = "open" /\ (Waiting(fiber[f], k) \/ Receiving(fiber[f], k, a))
      /\ fiber[f].result # "OK"
  BY <1>7 DEF OwnInv, MineOk, Mine
<1>9. Receiving(fiber[f], k, a)
  <2>1. k.down # <<>>
    BY <1>1
  <2>2. QED
    BY <1>8, <2>1 DEF Waiting
<1>10. CASE q.errno
  <2>1. GivesUp(f, j)
    BY <1>3, <1>10
  <2>2. QED
    BY <1>5, <1>6, <2>1, OwnGivesUp
<1>11. CASE ~q.errno
  <2> DEFINE pc  == IF q.m_finished THEN "release" ELSE fiber[f].pc
             res == IF q.m_finished THEN "OK" ELSE fiber[f].result
  <2>1. Update(c, j) /\ fiber' = [fiber EXCEPT ![f].p = q, ![f].pc = pc, ![f].result = res]
    BY <1>3, <1>11
  <2>2. q.m_finished => pc = "release" /\ res = "OK"
    OBVIOUS
  <2>3. ~q.m_finished => pc = "recv" /\ res # "OK"
    BY <1>8
  <2> HIDE DEF pc, res, k
  <2>4. PICK s : s = fiber'[f]
    OBVIOUS
  <2>5. /\ s.p = q /\ s.pc = pc /\ s.result = res /\ s.id = fiber[f].id /\ s.conn = c
        /\ \A g \in Fibers \ {f} : fiber'[g] = fiber[g]
    BY <1>4, <2>1, <2>4 DEF FiberFields
  <2>6. Pending(j) = Pending(k)
    BY <1>6 DEF Pending
  <2>7. Wire(j, Len(log))
    BY <1>4, <1>6, <2>6 DEF Wire
  <2>8. PICK r : r = fiber[f]
    OBVIOUS
  <2>9. IF q.m_finished THEN Quiet(j) /\ Own(s, a) ELSE Receiving(s, j, a)
    <3>1. Receiving(r, k, a) /\ q = http_parser_execute(r.p, SubSeq(k.down, 1, n)) /\ s.id = r.id
      BY <1>2, <1>9, <2>5, <2>8
    <3>2. j.down = SubSeq(k.down, n + 1, Len(k.down)) /\ s.p = q
      BY <1>6, <2>5
    <3>3. QED
      BY <1>11, <2>6, <3>1, <3>2, AnswerRead
  <2>10. Mine(s, j, a)
    <3>1. CASE q.m_finished
      BY <1>6, <1>8, <2>2, <2>5, <2>9, <3>1 DEF Mine
    <3>2. CASE ~q.m_finished
      BY <1>6, <1>8, <2>3, <2>5, <2>9, <3>2 DEF Mine
    <3>3. QED
      BY <3>1, <3>2
  <2>11. Settled(j) = j
    BY <1>6, <1>8, SettledFields
  <2>12. /\ fiber'[f].id = fiber[f].id /\ fiber'[f].conn = fiber[f].conn
         /\ Mine(fiber'[f], Settled(j), log[fiber[f].id].answer)
    BY <1>7, <2>4, <2>5, <2>10, <2>11
  <2>13. Pending(j) \subseteq Pending(conns[fiber[f].conn])
    BY <2>6 DEF k
  <2>14. \A d \in ToSet(m_conns') : d \in ToSet(m_conns)
    OBVIOUS
  <2>15. Update(fiber[f].conn, j)
    BY <2>1
  <2> HIDE DEF c
  <2>16. QED
    BY <1>5, <1>6, <2>5, <2>7, <2>12, <2>13, <2>14, <2>15, OwnGoesOn
<1>12. QED
  BY <1>10, <1>11

LEMMA OwnRecv ==
    ASSUME OwnInv, PoolInv', NEW f \in Fibers, recvResponse(f)
    PROVE  OwnInv'
<1>1. fiber[f].pc = "recv" /\ UNCHANGED <<dispatch, log, m_conns>>
  BY DEF recvResponse
<1>2. PICK k : k = conns[fiber[f].conn] /\ IsConn(k)
  BY <1>1, MineIsOut DEF OwnInv
<1>3. CASE RecvData(f)
  BY <1>1, <1>3, OwnRecvData
<1>4. CASE RecvEnds(f)
  <2>1. GivesUp(f, k) /\ LeftSame
    BY <1>2, <1>4, LeftUnchanged DEF RecvEnds
  <2>2. QED
    BY <1>1, <1>2, <2>1, OwnGivesUp
<1>5. CASE RecvTimeout(f)
  <2>1. PICK j : j = [k EXCEPT !.clean = @ /\ Silent(k)]
    OBVIOUS
  <2>2. GivesUp(f, j) /\ left' = [left EXCEPT !.timeouts = @ - IF Silent(k) THEN 0 ELSE 1]
    BY <1>2, <1>5, <2>1 DEF RecvTimeout
  <2>3. LeftSame
    BY <2>2 DEF LeftSame, OwnInv, DataOk, LeftOk
  <2>4. IsConn(j) /\ j.up = k.up /\ j.p = k.p /\ j.pc = k.pc
    BY <1>2, <2>1 DEF IsConn, ConnFields
  <2>5. QED
    BY <1>1, <1>2, <2>2, <2>3, <2>4, OwnGivesUp
<1>6. QED
  BY <1>3, <1>4, <1>5 DEF recvResponse

LEMMA NoneIsOne ==
    ASSUME NEW s, Ids(s) = {}
    PROVE  AtMostOne(s)
<1>1. \A x \in 1 .. Len(s) : ~Begins(s[x])
  BY DEF Ids
<1>2. QED
  BY <1>1 DEF AtMostOne

(* The request is on its way, or there is nobody to read it. *)
Sends(j, k, m, id) ==
    /\ j.up = k.up \/ j.up = k.up \o RequestDump(m, id)
    /\ j.p = k.p /\ j.down = k.down /\ j.pc = k.pc /\ j.cli = k.cli

LEMMA Sent ==
    ASSUME NEW k, IsConn(k), NEW l, l \in Nat, Wire(k, l), Quiet(k), k.cli = "open",
           NEW m \in Request, NEW id, id \in 1 .. l, NEW j, Sends(j, k, m, id),
           NEW r, r.p = HttpResponseParser, r.id = id
    PROVE  Wire(j, l) /\ Pending(j) \subseteq {id} /\ Waiting(r, j)
<1> USE DEF Sends
<1>1. k.up \in Seq(Token) /\ Sound(k.p) /\ (k.pc = "handle" => k.p.got # <<>>)
  BY DEF Wire
<1>2. Ids(k.up) = {} /\ ToSet(k.p.got) = {} /\ k.down = <<>>
  BY DEF Quiet, Pending
<1>3. id \in Nat
  OBVIOUS
<1>4. j.up \in Seq(Token) /\ Ids(j.up) \subseteq {id} /\ AtMostOne(j.up)
  <2>1. CASE j.up = k.up
    BY <1>1, <1>2, <2>1, NoneIsOne
  <2>2. CASE j.up = k.up \o RequestDump(m, id)
    <3>1. PICK s, t, u : s = k.up /\ t = RequestDump(m, id) /\ u = j.up
      OBVIOUS
    <3>2. OneBegins(t, id)
      BY <1>3, <3>1, RequestTokens
    <3>3. u = s \o t /\ s \in Seq(Token) /\ Ids(s) = {}
      BY <1>1, <1>2, <2>2, <3>1
    <3>4. u \in Seq(Token) /\ Ids(u) = {id} /\ AtMostOne(u)
      <4>1. Behind(u, s, t, id)
        BY <3>2, <3>3, Zenon DEF Behind
      <4>2. QED
        BY <4>1, IdsSent
    <3>5. QED
      BY <3>1, <3>4
  <2>3. QED
    BY <2>1, <2>2
<1>5. Pending(j) \subseteq {id}
  BY <1>2, <1>4 DEF Pending
<1>6. k.p.got = <<>>
  BY <1>1, <1>2, NoneGot
<1>7. Wire(j, l)
  BY <1>1, <1>4, <1>5 DEF Wire
<1>8. Waiting(r, j)
  <2>1. \A x, y \in 1 .. Len(j.up) : Begins(j.up[x]) /\ Begins(j.up[y]) => x = y
    BY <1>4, Zenon DEF AtMostOne
  <2>2. r.p = HttpResponseParser /\ j.down = <<>> /\ Pending(j) \subseteq {r.id} /\ j.p.got = <<>>
    BY <1>2, <1>5, <1>6
  <2>3. QED
    BY <2>1, <2>2, Zenon DEF Waiting
<1>9. QED
  BY <1>5, <1>7, <1>8

LEMMA OwnSends ==
    ASSUME OwnInv, PoolInv', NEW f \in Fibers, fiber[f].pc = "send",
           UNCHANGED <<m_conns, dispatch, log, left>>, NEW j, IsConn(j),
           Update(fiber[f].conn, j), NEW k, k = conns[fiber[f].conn],
           Sends(j, k, log[fiber[f].id].msg, fiber[f].id),
           fiber' = [fiber EXCEPT ![f].pc = "recv"]
    PROVE  OwnInv'
<1>1. PICK c : c = fiber[f].conn
  OBVIOUS
<1>2. PICK id, m : id = fiber[f].id /\ m = log[id].msg
  OBVIOUS
<1>3. c \in Conns /\ c \notin ToSet(m_conns) /\ IsConn(k) /\ f \in Active
  BY <1>1, MineIsOut DEF OwnInv, Active
<1>4. Types /\ LogOk /\ Len(log) \in Nat /\ Wire(k, Len(log))
  BY <1>1, <1>3, LogLength DEF OwnInv, PoolInv, DataOk, WiresOk
<1>5. id \in 1 .. Len(log)
  BY <1>2, <1>3 DEF OwnInv, IdsOk
<1>6. m \in Request
  <2>1. log[id] \in [msg : Request, answer : Answers]
    BY <1>4, <1>5, ElementOfSeq DEF LogOk
  <2>2. QED
    BY <1>2, <2>1
<1>7. Quiet(k) /\ k.cli = "open" /\ fiber[f].p = HttpResponseParser /\ fiber[f].result # "OK"
  BY DEF OwnInv, MineOk, Mine
<1>8. PICK r : r = fiber'[f]
  OBVIOUS
<1>9. /\ r.pc = "recv" /\ r.p = fiber[f].p /\ r.id = id /\ r.conn = c /\ r.result = fiber[f].result
      /\ \A g \in Fibers \ {f} : fiber'[g] = fiber[g]
  BY <1>1, <1>2, <1>4, <1>8 DEF Types, IsFiber, FiberFields
<1>10. r.p = HttpResponseParser /\ Sends(j, k, m, id) /\ j.cli = "open"
  BY <1>2, <1>7, <1>9 DEF Sends
<1>11. Wire(j, Len(log)) /\ Pending(j) \subseteq {id} /\ Waiting(r, j)
  <2>1. IsConn(k) /\ Len(log) \in Nat /\ Wire(k, Len(log)) /\ Quiet(k) /\ k.cli = "open"
    BY <1>3, <1>4, <1>7
  <2>2. r.p = HttpResponseParser /\ r.id = id
    BY <1>9, <1>10
  <2>3. QED
    BY <1>5, <1>6, <1>10, <2>1, <2>2, Sent
<1>12. Settled(j) = j
  BY <1>10, SettledFields
<1>13. conns'[c] = j /\ \A d \in Conns \ {c} : conns'[d] = conns[d]
  BY <1>1, <1>3, <1>4, <1>12 DEF Update, Types
<1>14. Active' = Active /\ \A g \in Fibers : fiber'[g].id = fiber[g].id /\ fiber'[g].conn = fiber[g].conn
  BY <1>1, <1>2, <1>3, <1>8, <1>9 DEF Active
<1>15. IdsOk'
  <2>1. ASSUME NEW g \in Active, NEW d \in Conns, fiber[g].id \in Pending(conns'[d])
        PROVE  d = fiber[g].conn
    <3>1. CASE d = c
      <4>1. fiber[g].id = fiber[f].id
        BY <1>2, <1>11, <1>13, <2>1, <3>1
      <4>2. g = f
        BY <1>3, <4>1 DEF OwnInv, IdsOk
      <4>3. QED
        BY <1>1, <3>1, <4>2
    <3>2. CASE d # c
      BY <1>13, <2>1, <3>2 DEF OwnInv, IdsOk
    <3>3. QED
      BY <3>1, <3>2
  <2>2. Active \subseteq Fibers
    BY DEF Active
  <2>3. \A g \in Active : fiber[g].id \in 1 .. Len(log)
    BY DEF OwnInv, IdsOk
  <2>4. \A g, h \in Active : fiber[g].id = fiber[h].id => g = h
    BY DEF OwnInv, IdsOk
  <2>5. \A g \in Active' : /\ g \in Active /\ fiber'[g].id = fiber[g].id
                            /\ fiber'[g].conn = fiber[g].conn
    BY <1>14, <2>2
  <2>6. \A g \in Active' : \A d \in Conns :
            fiber'[g].id \in Pending(conns'[d]) => d = fiber'[g].conn
    BY <2>1, <2>5, Zenon
  <2>7. \A g, h \in Active' : fiber'[g].id = fiber'[h].id => g = h
    BY <2>4, <2>5
  <2>8. \A g \in Active' : fiber'[g].id \in 1 .. Len(log')
    BY <2>3, <2>5
  <2>9. QED
    BY <2>6, <2>7, <2>8, Zenon DEF IdsOk
<1>16. PoolQuiet'
  BY <1>3, <1>4, <1>13, MembersAreConns DEF OwnInv, PoolQuiet
<1>17. Mine(r, j, log'[r.id].answer)
  BY <1>7, <1>9, <1>10, <1>11 DEF Mine
<1>18. DataOk'
  BY DataKept, LeftUnchanged
<1>19. Mine(fiber[f], conns[fiber[f].conn], log[fiber[f].id].answer)'
  BY <1>8, <1>9, <1>13, <1>17
<1>20. \A g \in Fibers \ {f} : fiber'[g] = fiber[g] /\ fiber[g].conn # c
  BY <1>1, <1>9, OnlyMine DEF OwnInv
<1>21. QED
  BY <1>3, <1>11, <1>13, <1>15, <1>16, <1>18, <1>19, <1>20, OwnFiber

LEMMA OwnSend ==
    ASSUME OwnInv, PoolInv', NEW f \in Fibers, sendRequest(f)
    PROVE  OwnInv'
<1> DEFINE c == fiber[f].conn
           k == conns[c]
           m == log[fiber[f].id].msg
           up == IF ServerGone(k) THEN k.up ELSE k.up \o RequestDump(m, fiber[f].id)
           first == [Reused(k) EXCEPT
                     !.up = IF ServerGone(k) THEN @ ELSE @ \o RequestDump(m, fiber[f].id),
                     !.reset = @ \/ ServerGone(k),
                     !.final = @ \/ ~left.keepalive \/ Connection(TRUE) \in ToSet(m.headers)]
           second == Reused(Unaccepted(k))
<1>1. /\ fiber[f].pc = "send" /\ UNCHANGED <<m_conns, dispatch, log, left>>
      /\ \/ Update(c, first) /\ fiber' = [fiber EXCEPT ![f].pc = "recv"]
         \/ /\ Update(c, second)
            /\ fiber' = [fiber EXCEPT ![f].pc = "release", ![f].result = "SEND_SOCKET_ERROR"]
  BY Zenon DEF sendRequest
<1>2. /\ c \in Conns /\ IsConn(k) /\ Wire(k, Len(log))
      /\ DOMAIN fiber = Fibers /\ DOMAIN fiber[f] = FiberFields
  BY <1>1, MineIsOut DEF OwnInv, WiresOk, PoolInv, Types, IsFiber
<1>3. Quiet(k) /\ k.cli = "open" /\ fiber[f].p = HttpResponseParser
  BY <1>1 DEF OwnInv, MineOk, Mine
<1>4. CASE Update(c, first) /\ fiber' = [fiber EXCEPT ![f].pc = "recv"]
  <2>1. PICK j : j = first
    OBVIOUS
  <2>2. /\ IsConn(j) /\ j.p = k.p /\ j.down = k.down /\ j.pc = k.pc /\ j.cli = k.cli
        /\ j.up = up
    <3>1. PICK i, reset, final, clean :
             /\ i = [k EXCEPT !.clean = clean]
             /\ j = [i EXCEPT !.up = IF ServerGone(k) THEN @ ELSE @ \o RequestDump(m, fiber[f].id),
                              !.reset = reset, !.final = final]
      BY <2>1, Zenon DEF Reused
    <3>2. i.up = k.up /\ IsConn(i) /\ i.p = k.p /\ i.down = k.down /\ i.pc = k.pc /\ i.cli = k.cli
      BY <1>2, <3>1 DEF IsConn, ConnFields
    <3>3. j = [i EXCEPT !.up = up, !.reset = reset, !.final = final]
      BY <3>1, <3>2, Zenon
    <3> HIDE DEF up, k
    <3>4. QED
      BY <3>2, <3>3 DEF IsConn, ConnFields
  <2>3. up = k.up \/ up = k.up \o RequestDump(m, fiber[f].id)
    OBVIOUS
  <2>4. Update(c, j) /\ Sends(j, k, m, fiber[f].id)
    <3>1. Update(c, j)
      BY <1>4, <2>1
    <3> HIDE DEF up, k
    <3>2. QED
      BY <2>2, <2>3, <3>1, Zenon DEF Sends
  <2> HIDE DEF up, first
  <2>5. /\ fiber[f].pc = "send" /\ UNCHANGED <<m_conns, dispatch, log, left>>
        /\ fiber' = [fiber EXCEPT ![f].pc = "recv"]
    BY <1>1, <1>4
  <2>6. QED
    BY <2>2, <2>4, <2>5, OwnSends
<1>5. CASE /\ Update(c, second)
           /\ fiber' = [fiber EXCEPT ![f].pc = "release", ![f].result = "SEND_SOCKET_ERROR"]
  <2>1. PICK j : j = second
    OBVIOUS
  <2>2. IsConn(j) /\ SameWire(j, k) /\ j.pc = k.pc /\ j.cli = k.cli
    <3>1. PICK i, a, b : i = [k EXCEPT !.clean = a] /\ j = [i EXCEPT !.clean = b]
      BY <2>1, Zenon DEF Reused, Unaccepted
    <3>2. QED
      BY <1>2, <3>1 DEF IsConn, ConnFields, SameWire
  <2>3. Pending(j) = Pending(k) /\ Quiet(j) /\ Wire(j, Len(log))
    BY <1>2, <1>3, <2>2, SamePending
  <2>4. /\ \A g \in Fibers \ {f} : fiber'[g] = fiber[g]
        /\ fiber'[f].id = fiber[f].id /\ fiber'[f].conn = fiber[f].conn
        /\ fiber'[f].pc = "release" /\ fiber'[f].result = "SEND_SOCKET_ERROR"
    BY <1>2, <1>5 DEF FiberFields
  <2>5. Settled(j) = j
    BY <1>3, <2>2, SettledFields
  <2>6. \A a : Mine(fiber'[f], Settled(j), a)
    BY <2>3, <2>4, <2>5 DEF Mine
  <2>7. LeftSame /\ \A d \in ToSet(m_conns') : d \in ToSet(m_conns)
    BY <1>1, LeftUnchanged
  <2>8. Update(fiber[f].conn, j) /\ Pending(j) \subseteq Pending(conns[fiber[f].conn])
    BY <1>5, <2>1, <2>3
  <2> HIDE DEF c, k, second
  <2>9. QED
    BY <1>1, <2>2, <2>3, <2>4, <2>6, <2>7, <2>8, OwnGoesOn
<1>6. QED
  BY <1>1, <1>4, <1>5

LEMMA OwnConnects ==
    ASSUME OwnInv, PoolInv', NEW f \in Fibers, fiber[f].pc = "connect", NEW s, Free # {},
           conns' = [conns EXCEPT ![NextConn] = NewConn(s)],
           fiber' = [fiber EXCEPT ![f].pc = "send", ![f].conn = NextConn],
           UNCHANGED <<m_conns, left, dispatch, log>>
    PROVE  OwnInv'
<1>1. PICK c, j : c = NextConn /\ j = NewConn(s)
  OBVIOUS
<1>2. IsConn(j) /\ j.cli = "open" /\ Wire(j, Len(log)) /\ Quiet(j)
  BY <1>1, NewConnFields, NewWires
<1>3. /\ c \in Conns /\ c \notin ToSet(m_conns) /\ c # 0
      /\ \A g \in Busy : fiber[g].conn # c
      /\ \A d \in Conns \ {c} : conns'[d] = conns[d]
  BY <1>1, <1>2, FreshConn DEF OwnInv
<1>4. Types /\ Len(log) \in Nat /\ conns'[c] = j
  BY <1>1, <1>3, LogLength DEF OwnInv, PoolInv, DataOk, Types
<1>5. DOMAIN fiber = Fibers /\ DOMAIN fiber[f] = FiberFields /\ fiber[f].conn = 0
  BY <1>4 DEF Types, IsFiber
<1>6. PICK r : r = fiber'[f]
  OBVIOUS
<1>7. /\ r.pc = "send" /\ r.conn = c /\ r.id = fiber[f].id /\ r.p = fiber[f].p
      /\ r.result = fiber[f].result /\ \A g \in Fibers \ {f} : fiber'[g] = fiber[g]
  BY <1>1, <1>5, <1>6 DEF FiberFields
<1>8. fiber[f].p = HttpResponseParser /\ fiber[f].result # "OK"
  BY DEF OwnInv, MineOk, Mine
<1>9. \A a : Mine(r, j, a)
  BY <1>2, <1>7, <1>8 DEF Mine
<1>10. IdsOk'
  <2>1. \A d \in Conns : Pending(conns'[d]) \subseteq Pending(conns[d])
    BY <1>2, <1>3, <1>4 DEF Quiet
  <2>2. f \in Active /\ fiber[f].conn \notin Conns
    BY <1>5, HttpAssumption DEF Active, Conns
  <2>3. \A g \in Active' : /\ g \in Active /\ fiber'[g].id = fiber[g].id
                           /\ fiber'[g].conn = fiber[g].conn \/ fiber[g].conn \notin Conns
    BY <1>6, <1>7, <2>2 DEF Active
  <2>4. IdsOk /\ Len(log') \in Nat /\ Len(log) <= Len(log')
    BY <1>4 DEF OwnInv
  <2>5. QED
    BY <1>4, <2>1, <2>3, <2>4, IdsShrink
<1>11. PoolQuiet'
  BY <1>3, <1>4, MembersAreConns DEF OwnInv, PoolQuiet
<1>12. DataOk'
  BY DataKept, LeftUnchanged
<1>13. \A g \in Fibers \ {f} : fiber'[g] = fiber[g] /\ fiber[g].conn # c
  BY <1>3, <1>7 DEF Busy
<1>14. Mine(fiber[f], conns[fiber[f].conn], log[fiber[f].id].answer)'
  BY <1>4, <1>6, <1>7, <1>9
<1>15. QED
  BY <1>2, <1>3, <1>4, <1>10, <1>11, <1>12, <1>13, <1>14, OwnFiber, ZenonT(60)

LEMMA OwnConnect ==
    ASSUME OwnInv, PoolInv', NEW f \in Fibers, Connect(f)
    PROVE  OwnInv'
<1>1. fiber[f].pc = "connect" /\ UNCHANGED <<m_conns, dispatch, log>>
  BY DEF Connect
<1>2. CASE \E s \in Socks :
              /\ Free # {}
              /\ conns' = [conns EXCEPT ![NextConn] = NewConn(s)]
              /\ fiber' = [fiber EXCEPT ![f].pc = "send", ![f].conn = NextConn]
              /\ UNCHANGED left
  BY <1>1, <1>2, OwnConnects
<1>3. CASE /\ left' = [left EXCEPT !.timeouts = @ - 1] \/ left' = left
           /\ fiber' = [fiber EXCEPT ![f] = Idle] /\ UNCHANGED conns
  <2>1. LeftSame
    BY <1>3 DEF LeftSame, OwnInv, DataOk, LeftOk
  <2>2. DataOk'
    BY <1>1, <2>1, DataKept
  <2>3. Types /\ Len(log) \in Nat
    BY LogLength DEF OwnInv, PoolInv, DataOk
  <2>4. fiber'[f] = Idle /\ \A g \in Fibers \ {f} : fiber'[g] = fiber[g]
    BY <1>3, <2>3 DEF Types
  <2>5. PICK c : c \notin Conns /\ c # 0
    <3>1. MaxConns + 1 \notin Conns /\ MaxConns + 1 # 0
      BY HttpAssumption DEF Conns
    <3>2. QED
      BY <3>1
  <2>6. \A g \in Fibers \ {f} : fiber'[g] = fiber[g] /\ fiber[g].conn # c
    BY <2>3, <2>4, <2>5 DEF Types, IsFiber
  <2>7. \A g \in Active' : g \in Active /\ fiber'[g].id = fiber[g].id /\ fiber'[g].conn = fiber[g].conn
    BY <2>4, IdleIsFree DEF Active
  <2>8. IdsOk'
    BY <1>1, <1>3, <2>3, <2>7, IdsShrink DEF OwnInv
  <2>9. PoolQuiet'
    BY <1>1, <1>3 DEF OwnInv, PoolQuiet
  <2>10. Mine(fiber[f], conns[fiber[f].conn], log[fiber[f].id].answer)'
    BY <2>4, IdleIsFree
  <2>11. QED
    BY <1>1, <1>3, <2>2, <2>5, <2>6, <2>8, <2>9, <2>10, OwnFiber
<1>4. QED
  BY <1>2, <1>3, Zenon DEF Connect

-----------------------------------------------------------------------------
(* The rest of the world *)

LEMMA OwnForeignLeaves ==
    ASSUME OwnInv, PoolInv', NEW c \in Conns, ForeignLeaves(c)
    PROVE  OwnInv'
<1>1. /\ UNCHANGED <<m_conns, fiber, log, left, dispatch>>
      /\ c \notin {fiber[f].conn : f \in Fibers} \cup ToSet(m_conns)
  BY DEF ForeignLeaves
<1>2. PICK j : j = [conns[c] EXCEPT !.cli = "closed"]
  OBVIOUS
<1>3. Types /\ Update(c, j) /\ Wire(conns[c], Len(log)) /\ Len(log) \in Nat
  BY <1>2, LogLength DEF ForeignLeaves, OwnInv, PoolInv, WiresOk, DataOk
<1>4. IsConn(j) /\ SameWire(j, conns[c]) /\ j.pc = conns[c].pc
  BY <1>2, <1>3 DEF Types, IsConn, ConnFields, SameWire
<1>5. Pending(j) = Pending(conns[c]) /\ Wire(j, Len(log))
  BY <1>3, <1>4, SamePending
<1>6. PICK s : s = Settled(j)
  OBVIOUS
<1>7. Pending(s) \subseteq Pending(conns[c]) /\ Wire(s, Len(log))
  BY <1>4, <1>5, <1>6, SettledWire
<1>8. conns'[c] = s /\ \A d \in Conns \ {c} : conns'[d] = conns[d]
  BY <1>3, <1>6 DEF Update, Types
<1>9. DataOk' /\ Active' = Active
  BY <1>1, DataKept, LeftUnchanged DEF Active
<1>10. WiresOk'
  BY <1>1, <1>7, <1>8 DEF OwnInv, WiresOk
<1>11. IdsOk'
  <2>1. \A d \in Conns : Pending(conns'[d]) \subseteq Pending(conns[d])
    BY <1>7, <1>8
  <2>2. \A g \in Active' : g \in Active /\ fiber'[g].id = fiber[g].id /\ fiber'[g].conn = fiber[g].conn
    BY <1>1, <1>9
  <2>3. QED
    BY <1>1, <1>3, <2>1, <2>2, IdsShrink DEF OwnInv
<1>12. MineOk'
  <2>1. ASSUME NEW g \in Fibers
        PROVE  Mine(fiber[g], conns[fiber[g].conn], log[fiber[g].id].answer)'
    <3>1. fiber'[g] = fiber[g] /\ (fiber[g].conn \in Conns => conns'[fiber[g].conn] = conns[fiber[g].conn])
      BY <1>1, <1>8
    <3>2. log'[fiber[g].id].answer = log[fiber[g].id].answer
      BY <1>1
    <3>3. QED
      BY <3>1, <3>2, MineKept
  <2>2. QED
    BY <2>1 DEF MineOk
<1>13. PoolQuiet'
  BY <1>1, <1>3, <1>8, MembersAreConns DEF OwnInv, PoolQuiet
<1>14. QED
  BY <1>9, <1>10, <1>11, <1>12, <1>13 DEF OwnInv

LEMMA OwnChange ==
    ASSUME OwnInv, PoolInv', ChangeServlets
    PROVE  OwnInv'
<1>1. /\ left' = [left EXCEPT !.changes = @ - 1] /\ UNCHANGED <<m_conns, conns, fiber, log>>
      /\ dispatch' \in {addServlet(dispatch, Uri, Slt), delServlet(dispatch, Uri),
                        addGlobServlet(dispatch, Glob, Slt), delGlobServlet(dispatch, Glob),
                        setDefault(dispatch, Slt)}
  BY DEF ChangeServlets
<1>2. IsDispatch(dispatch) /\ Slt \in Answers
  BY AnswersAre, MessageAssumption DEF OwnInv, DataOk, DispatchOk, IsDispatch
<1>3. Glob \in Text
  BY MessageAssumption DEF Text
<1>4. IsDispatch(dispatch')
  BY <1>1, <1>2, <1>3, ExactServlets, GlobServlets
<1>5. DispatchOk'
  BY <1>4, Zenon DEF DispatchOk, IsDispatch
<1>6. LeftOk' /\ LogOk'
  BY <1>1 DEF OwnInv, DataOk, LeftOk, LogOk
<1>7. DataOk'
  BY <1>5, <1>6 DEF DataOk
<1>8. QED
  BY <1>1, <1>7, OwnSame

(* The requests of a foreign client, one after the other, and their ids. *)
LEMMA ForeignUp ==
    ASSUME NEW ms \in Seq(Request), NEW l \in Nat, NEW ss,
           ss = [i \in DOMAIN ms |-> ForeignDump(ms[i], l + i)], NEW up, up = FlattenSeq(ss)
    PROVE  up \in Seq(Token) /\ Ids(up) \subseteq l + 1 .. l + Len(ms)
<1>1. /\ Len(ms) \in Nat /\ DOMAIN ms = 1 .. Len(ms)
      /\ \A i \in 1 .. Len(ms) : ms[i] \in Request
  BY LenProperties, ElementOfSeq
<1>2. PICK n : n = Len(ms)
  OBVIOUS
<1>3. n \in Nat /\ ss = [i \in 1 .. n |-> ForeignDump(ms[i], l + i)]
  BY <1>1, <1>2
<1>4. \A i \in 1 .. n : ss[i] = ForeignDump(ms[i], l + i)
  BY <1>3
<1>5. ASSUME NEW i \in 1 .. n
      PROVE  OneBegins(ss[i], l + i)
  <2>1. ms[i] \in Request /\ l + i \in Nat
    BY <1>1, <1>2
  <2>2. OneBegins(ForeignDump(ms[i], l + i), l + i)
    BY <2>1, RequestTokens
  <2>3. QED
    BY <1>4, <2>2
<1>6. \A i \in 1 .. n : ss[i] \in Seq(Token)
  BY <1>5 DEF OneBegins
<1>7. ss \in Seq(Seq(Token)) /\ Len(ss) = n
  <2>1. DOMAIN ss = 1 .. n /\ ss = [i \in 1 .. n |-> ss[i]]
    BY <1>3
  <2>2. ss \in [1 .. n -> Seq(Token)]
    BY <1>6, <2>1, Zenon
  <2>3. ss \in Seq(Seq(Token))
    BY <1>3, <2>2, SeqDef
  <2>4. QED
    BY <1>3, <2>1, <2>3, LenProperties
<1>8. up \in Seq(Token) /\ \E at : Consists(up, ss, at)
  BY <1>7, FlattenedBlocks
<1>9. PICK at : Consists(up, ss, at)
  BY <1>8
<1>10. ASSUME NEW x \in 1 .. Len(up), Begins(up[x])
       PROVE  up[x].i \in l + 1 .. l + n
  <2>1. PICK i \in 1 .. n : \E k \in 1 .. Len(ss[i]) : x = at[i] + k
    BY <1>7, <1>9 DEF Consists
  <2>2. PICK k \in 1 .. Len(ss[i]) : x = at[i] + k
    BY <2>1
  <2>3. up[x] = ss[i][k]
    BY <1>7, <1>9, <2>2 DEF Consists
  <2>4. k = 1 /\ ss[i][1].i = l + i
    BY <1>5, <1>10, <2>3 DEF OneBegins
  <2>5. l + i \in l + 1 .. l + n
    BY <1>3
  <2>6. QED
    BY <2>3, <2>4, <2>5
<1>11. QED
  BY <1>2, <1>8, <1>10 DEF Ids

LEMMA LogExtended ==
    ASSUME LogOk, NEW ms \in Seq(Request),
           log' = log \o [i \in DOMAIN ms |-> [msg |-> ms[i], answer |-> NotFoundServlet]]
    PROVE  /\ LogOk' /\ Len(log') = Len(log) + Len(ms) /\ Len(log) \in Nat /\ Len(ms) \in Nat
           /\ \A i \in 1 .. Len(log) : log'[i] = log[i]
<1> DEFINE R == [msg : Request, answer : Answers]
<1>1. log \in Seq(R)
  BY DEF LogOk
<1>2. PICK n : n = Len(ms) /\ n \in Nat /\ DOMAIN ms = 1 .. n
  BY LenProperties
<1>3. PICK e : e = [i \in 1 .. n |-> [msg |-> ms[i], answer |-> NotFoundServlet]]
  OBVIOUS
<1>4. \A i \in 1 .. n : ms[i] \in Request
  BY <1>2, ElementOfSeq
<1>5. DOMAIN e = 1 .. n /\ \A i \in 1 .. n : e[i] \in R
  BY <1>3, <1>4, AnswersAre
<1> HIDE DEF R
<1>6. e \in Seq(R) /\ Len(e) = n
  <2>1. e = [i \in 1 .. n |-> e[i]]
    BY <1>3
  <2>2. e \in [1 .. n -> R]
    BY <1>5, <2>1, Zenon
  <2>3. e \in Seq(R)
    BY <1>2, <2>2, SeqDef
  <2>4. QED
    BY <1>2, <1>5, <2>3, LenProperties
<1>7. log' = log \o e
  BY <1>2, <1>3
<1>8. /\ log' \in Seq(R) /\ Len(log) \in Nat /\ Len(log') = Len(log) + Len(e)
      /\ \A i \in 1 .. Len(log) : log'[i] = log[i]
  <2>1. PICK a, b : a = log /\ b = log'
    OBVIOUS
  <2>2. a \in Seq(R) /\ e \in Seq(R) /\ b = a \o e
    BY <1>1, <1>6, <1>7, <2>1
  <2>3. /\ b \in Seq(R) /\ Len(a) \in Nat /\ Len(b) = Len(a) + Len(e)
        /\ \A i \in 1 .. Len(a) : b[i] = a[i]
    BY <2>2, Joined
  <2>4. QED
    BY <2>1, <2>3
<1>9. QED
  BY <1>2, <1>6, <1>8 DEF LogOk, R

LEMMA OwnForeignSends ==
    ASSUME OwnInv, PoolInv', NEW s, NEW ms \in left.foreign, ForeignSends(s, ms)
    PROVE  OwnInv'
<1>1. /\ UNCHANGED <<m_conns, fiber, dispatch>> /\ Free # {}
      /\ left' = [left EXCEPT !.foreign = {}]
      /\ log' = log \o [i \in DOMAIN ms |-> [msg |-> ms[i], answer |-> NotFoundServlet]]
      /\ conns' = [conns EXCEPT ![NextConn] = [NewConn(s) EXCEPT !.pc = "foreign",
           !.up = FlattenSeq([i \in DOMAIN ms |-> ForeignDump(ms[i], Len(log) + i)])]]
  BY Zenon DEF ForeignSends
<1>2. ms \in Seq(Request) /\ LogOk /\ Types
  BY DEF OwnInv, DataOk, LeftOk, PoolInv
<1>3. /\ LogOk' /\ Len(log') = Len(log) + Len(ms) /\ Len(log) \in Nat /\ Len(ms) \in Nat
      /\ \A i \in 1 .. Len(log) : log'[i] = log[i]
  BY <1>1, <1>2, LogExtended
<1>4. PICK l, n : l = Len(log) /\ n = Len(log')
  OBVIOUS
<1>5. l \in Nat /\ n \in Nat /\ n = l + Len(ms) /\ l <= n
  BY <1>3, <1>4
<1>6. PICK ss, up : ss = [i \in DOMAIN ms |-> ForeignDump(ms[i], l + i)] /\ up = FlattenSeq(ss)
  OBVIOUS
<1>7. up \in Seq(Token) /\ Ids(up) \subseteq l + 1 .. n
  BY <1>2, <1>5, <1>6, ForeignUp
<1>8. PICK j, c : j = [NewConn(s) EXCEPT !.pc = "foreign", !.up = up] /\ c = NextConn
  OBVIOUS
<1>9. conns' = [conns EXCEPT ![NextConn] = j]
  BY <1>1, <1>4, <1>6, <1>8, Zenon
<1>10. /\ IsConn(j) /\ j.cli = "open" /\ j.up = up /\ j.p = HttpRequestParser /\ j.pc = "foreign"
  BY <1>8 DEF NewConn, IsConn, ConnFields
<1>11. /\ c \in Conns /\ c \notin ToSet(m_conns) /\ c # 0
       /\ \A g \in Busy : fiber[g].conn # c
       /\ \A d \in Conns \ {c} : conns'[d] = conns[d]
  BY <1>1, <1>8, <1>9, <1>10, FreshConn DEF OwnInv
<1>12. conns'[c] = j
  BY <1>2, <1>8, <1>9, <1>11 DEF Types
<1>13. Pending(j) \subseteq l + 1 .. n
  BY <1>7, <1>10, NewParsers, NothingBegins DEF Pending
<1>14. Wire(j, n)
  <2>1. l + 1 .. n \subseteq 1 .. n
    BY <1>5
  <2>2. Pending(j) \subseteq 1 .. n
    BY <1>13, <2>1
  <2>3. QED
    BY <1>7, <1>10, <2>2, NewParsers DEF Wire
<1>15. DataOk'
  <2>1. LeftOk' /\ DispatchOk'
    BY <1>1 DEF OwnInv, DataOk, LeftOk, DispatchOk
  <2>2. QED
    BY <1>3, <2>1 DEF DataOk
<1>16. WiresOk'
  <2>1. \A d \in Conns \ {c} : Wire(conns'[d], n)
    BY <1>4, <1>5, <1>11, LongerLog DEF OwnInv, WiresOk
  <2>2. QED
    BY <1>4, <1>12, <1>14, <2>1 DEF WiresOk
<1>17. Active' = Active /\ \A g \in Active : fiber[g].id \in 1 .. l
  BY <1>1, <1>4 DEF Active, OwnInv, IdsOk
<1>18. IdsOk'
  <2>1. \A g \in Active : fiber[g].id \in 1 .. n
    BY <1>5, <1>17
  <2>2. \A g \in Active : fiber[g].id \notin l + 1 .. n
    BY <1>5, <1>17
  <2>3. ASSUME NEW g \in Active, NEW d \in Conns, fiber[g].id \in Pending(conns'[d])
        PROVE  d = fiber[g].conn
    <3>1. d # c
      BY <1>12, <1>13, <2>2, <2>3
    <3>2. QED
      BY <1>11, <2>3, <3>1 DEF OwnInv, IdsOk
  <2>4. \A g, h \in Active : fiber[g].id = fiber[h].id => g = h
    BY DEF OwnInv, IdsOk
  <2>5. fiber' = fiber /\ Active' = Active /\ Len(log') = n
    BY <1>1, <1>4, <1>17
  <2>6. QED
    BY <2>1, <2>3, <2>4, <2>5 DEF IdsOk
<1>19. MineOk'
  <2>1. ASSUME NEW g \in Fibers
        PROVE  Mine(fiber[g], conns[fiber[g].conn], log[fiber[g].id].answer)'
    <3>1. fiber[g].conn # c
      BY <1>11 DEF Busy
    <3>2. fiber'[g] = fiber[g] /\ (fiber[g].conn \in Conns => conns'[fiber[g].conn] = conns[fiber[g].conn])
      BY <1>1, <1>11, <3>1
    <3>3. g \in Active => log'[fiber[g].id].answer = log[fiber[g].id].answer
      BY <1>3, <1>4, <1>17
    <3>4. QED
      BY <3>2, <3>3, MineKept
  <2>2. QED
    BY <2>1 DEF MineOk
<1>20. PoolQuiet'
  BY <1>1, <1>2, <1>11, MembersAreConns DEF OwnInv, PoolQuiet
<1>21. QED
  BY <1>15, <1>16, <1>18, <1>19, <1>20 DEF OwnInv

LEMMA OwnStep == OwnInv /\ [HttpNext]_vars => OwnInv'
<1> SUFFICES ASSUME OwnInv, [HttpNext]_vars
             PROVE  OwnInv'
  OBVIOUS
<1>1. PoolInv' /\ left.fibers \subseteq Fibers
  BY PoolStep DEF OwnInv, PoolInv, Types
<1>2. ASSUME UNCHANGED <<m_conns, conns, fiber, log, dispatch>>, LeftSame
      PROVE  OwnInv'
  BY <1>1, <1>2, DataKept, OwnSame
<1>3. CASE UNCHANGED vars
  BY <1>2, <1>3, LeftUnchanged DEF vars, httpVars
<1>4. CASE \E f \in left.fibers, m \in left.wanted : getConnection(f, m) \/ DoRequest(f, m)
  BY <1>1, <1>4, OwnGet, OwnDirect
<1>5. CASE \E f \in Fibers : doRequest(f)
  BY <1>1, <1>5, OwnConnect, OwnSend, OwnRecv, OwnRelease DEF doRequest
<1>6. CASE \E c \in Conns : Session(c)
  BY <1>1, <1>6, OwnRecvRequest, OwnHandle, OwnSessionClose DEF Session
<1>7. CASE \E s \in Socks : Server(s)
  <2>1. PICK s \in Socks : UNCHANGED httpVars \/ \E c \in Conns : startAccept(s, c)
    BY <1>7 DEF Server
  <2>2. CASE UNCHANGED httpVars
    BY <1>2, <2>2, LeftUnchanged DEF httpVars
  <2>3. CASE \E c \in Conns : startAccept(s, c)
    BY <1>1, <2>3, OwnAccept
  <2>4. QED
    BY <2>1, <2>2, <2>3
<1>8. CASE \E s \in Socks, ms \in left.foreign : ForeignSends(s, ms)
  BY <1>1, <1>8, OwnForeignSends
<1>9. CASE \E c \in Conns : ForeignLeaves(c)
  BY <1>1, <1>9, OwnForeignLeaves
<1>10. CASE ChangeServlets
  BY <1>1, <1>10, OwnChange
<1>11. CASE Serve
  <2>1. left' = [left EXCEPT !.calls = @ - 1] /\ UNCHANGED <<m_conns, conns, fiber, log, dispatch>>
    BY <1>11 DEF Serve
  <2>2. LeftSame
    BY <2>1 DEF LeftSame, OwnInv, DataOk, LeftOk
  <2>3. QED
    BY <1>2, <2>1, <2>2
<1>12. QED
  BY <1>3, <1>4, <1>5, <1>6, <1>7, <1>8, <1>9, <1>10, <1>11, Zenon DEF HttpNext

(* doRequest() reports OK with the response to its own request, with all of *)
(* it, and with nothing of another: no late answer, no answer to a request  *)
(* of another fiber on a connection of the pool and no body cut short is    *)
(* taken for it, however reads cut the response into pieces, whatever the   *)
(* servlets answer and whichever connections close meanwhile.               *)
THEOREM ResponsesAreOwn == HttpSpec => []OwnResponse
<1>1. OwnInv => OwnResponse
  BY DEF OwnInv, MineOk, Mine, Own, OwnResponse
<1>2. QED
  BY <1>1, OwnInit, OwnStep, PTL DEF HttpSpec
=============================================================================
