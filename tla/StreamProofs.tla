---------------------------- MODULE StreamProofs ----------------------------
(***************************************************************************)
(* Proofs about ByteArray and Stream, for every node size, every radix and *)
(* every input: the array's types hold, m_cur follows the position, what   *)
(* is written reads back, streams move each byte once, and the node list   *)
(* implements the plain sequence of bytes.                                 *)
(***************************************************************************)
EXTENDS Stream, NatLemmas, FiniteSetTheorems, SequenceTheorems, TLAPS

Cells == Byte \cup {Unknown}
Members == {"mem", "m_position", "m_capacity", "m_size", "m_endian", "m_cur"}

(* A list of whole nodes with a position in it, that m_cur follows.        *)
Shaped(b) ==
    /\ DOMAIN b = Members
    /\ b.m_capacity \in Nat /\ b.m_capacity % BaseSize = 0 /\ b.m_capacity >= BaseSize
    /\ b.mem \in [0 .. b.m_capacity - 1 -> Cells]
    /\ b.m_position \in 0 .. b.m_capacity /\ b.m_size \in 0 .. b.m_capacity
    /\ b.m_endian \in {LITTLE, BIG}
    /\ b.m_cur = IF b.m_position = b.m_capacity THEN NULL ELSE b.m_position \div BaseSize

(* A ByteArray between two operations: the position is not beyond the size. *)
IsArray(b) == Shaped(b) /\ b.m_position <= b.m_size

(* A sequence is the function of its elements. *)
LEMMA SeqByElements ==
    ASSUME NEW S, NEW s \in Seq(S), NEW n, n = Len(s)
    PROVE  s = [i \in 1 .. n |-> s[i]]
OBVIOUS

-----------------------------------------------------------------------------
(* Positions and nodes *)

LEMMA DivMod ==
    \A a \in Nat : /\ a \div BaseSize \in Nat /\ a % BaseSize \in 0 .. BaseSize - 1
                   /\ (a \div BaseSize) * BaseSize + (a % BaseSize) = a
BY ByteArrayAssumption

LEMMA DivLess ==
    \A a, n \in Nat : a \div BaseSize < n <=> a < n * BaseSize
<1>1. \A a, n \in Nat : a \div BaseSize < n => a < n * BaseSize
  BY ByteArrayAssumption
<1>2. \A a, n \in Nat : a < n * BaseSize => a \div BaseSize < n
  BY ByteArrayAssumption
<1>3. QED
  BY <1>1, <1>2

LEMMA Multiples ==
    \A n \in Nat : (n * BaseSize) % BaseSize = 0 /\ (n * BaseSize) \div BaseSize = n
BY ByteArrayAssumption

(* Whole nodes after whole nodes are whole nodes. *)
LEMMA MultipleSum ==
    ASSUME NEW a \in Nat, a % BaseSize = 0, NEW n \in Nat
    PROVE  (a + n * BaseSize) % BaseSize = 0
<1>1. PICK q \in Nat : a = q * BaseSize
  <2>1. a \div BaseSize \in Nat /\ (a \div BaseSize) * BaseSize + 0 = a
    BY DivMod
  <2>2. (a \div BaseSize) * BaseSize = a
    BY <2>1, ByteArrayAssumption
  <2>3. QED
    BY <2>1, <2>2
<1>2. a + n * BaseSize = (q + n) * BaseSize /\ q + n \in Nat
  BY <1>1, ByteArrayAssumption
<1>3. QED
  BY <1>2, Multiples

LEMMA RoundUp ==
    \A n \in Nat \ {0} : /\ (n + BaseSize - 1) \div BaseSize \in Nat
                         /\ ((n + BaseSize - 1) \div BaseSize) * BaseSize >= n
BY ByteArrayAssumption

LEMMA IntervalSize ==
    ASSUME NEW n \in Nat
    PROVE  Cardinality(0 .. n - 1) = n
<1>1. Cardinality(0 .. n - 1) = IF 0 > n - 1 THEN 0 ELSE n - 1 - 0 + 1
  BY FS_Interval
<1>2. QED
  BY <1>1

(* The nodes of an array, and the node of a position. *)
LEMMA NodesOf ==
    ASSUME NEW b, Shaped(b)
    PROVE  /\ Cardinality(DOMAIN b.mem) = b.m_capacity
           /\ Nodes(b) = b.m_capacity \div BaseSize
           /\ Nodes(b) \in Nat /\ Nodes(b) * BaseSize = b.m_capacity
           /\ \A a \in 0 .. b.m_capacity :
                  NodeAt(b, a) = IF a = b.m_capacity THEN NULL ELSE a \div BaseSize
<1>1. Cardinality(DOMAIN b.mem) = b.m_capacity
  BY IntervalSize DEF Shaped
<1>2. Nodes(b) = b.m_capacity \div BaseSize
  BY <1>1 DEF Nodes
<1>3. Nodes(b) \in Nat /\ Nodes(b) * BaseSize = b.m_capacity
  <2>1. b.m_capacity \in Nat /\ b.m_capacity % BaseSize = 0
    BY DEF Shaped
  <2>2. b.m_capacity \div BaseSize \in Nat /\ (b.m_capacity \div BaseSize) * BaseSize + 0 = b.m_capacity
    BY <2>1, DivMod
  <2>3. QED
    BY <1>2, <2>1, <2>2, ByteArrayAssumption
<1>4. ASSUME NEW a \in 0 .. b.m_capacity
      PROVE  NodeAt(b, a) = IF a = b.m_capacity THEN NULL ELSE a \div BaseSize
  <2>1. a \in Nat /\ b.m_capacity \in Nat
    BY DEF Shaped
  <2>2. a \div BaseSize < Nodes(b) <=> a < b.m_capacity
    BY <1>3, <2>1, DivLess
  <2>3. QED
    BY <2>1, <2>2 DEF NodeAt
<1>5. QED
  BY <1>1, <1>2, <1>3, <1>4

(* A loop that starts in the node of m_cur starts at the position. *)
LEMMA StartAtPosition ==
    ASSUME NEW b, Shaped(b), b.m_position < b.m_capacity
    PROVE  Start(b.m_cur, b.m_position) = b.m_position /\ b.m_cur # NULL
<1>1. b.m_position \in Nat /\ b.m_cur = b.m_position \div BaseSize
  BY DEF Shaped
<1>2. Start(b.m_cur, b.m_position) = b.m_position /\ b.m_cur \in Nat
  BY <1>1, DivMod DEF Start
<1>3. QED
  BY <1>2 DEF NULL

-----------------------------------------------------------------------------
(* The operations on the list *)

(* addCapacity() makes room for size bytes and changes nothing else. *)
LEMMA AddCapacityShape ==
    ASSUME NEW b, Shaped(b), NEW size \in Nat
    PROVE  LET c == addCapacity(b, size)
           IN  /\ Shaped(c)
               /\ c.m_position = b.m_position /\ c.m_size = b.m_size
               /\ c.m_endian = b.m_endian
               /\ c.m_capacity >= b.m_capacity /\ c.m_position + size <= c.m_capacity
               /\ \A i \in 0 .. b.m_capacity - 1 : c.mem[i] = b.mem[i]
<1> DEFINE have  == b.m_capacity - b.m_position
           count == (size - getCapacity(b) + BaseSize - 1) \div BaseSize
           n     == Cardinality(DOMAIN b.mem)
           c     == addCapacity(b, size)
<1>1. have \in Nat /\ getCapacity(b) = have /\ b.m_capacity \in Nat /\ b.m_position \in Nat
  BY DEF getCapacity, Shaped
<1>2. CASE size = 0 \/ have >= size
  <2>1. c = b
    BY <1>1, <1>2 DEF addCapacity
  <2>2. b.m_position + size <= b.m_capacity
    BY <1>1, <1>2 DEF Shaped
  <2> HIDE DEF c
  <2>3. c.m_position + size <= c.m_capacity /\ c.m_capacity >= b.m_capacity
    BY <1>1, <2>1, <2>2
  <2>4. QED
    BY <2>1, <2>3 DEF c
<1>3. CASE size # 0 /\ have < size
  <2>1. /\ c = [b EXCEPT
                   !.mem = [i \in 0 .. n + count * BaseSize - 1 |->
                                IF i < n THEN b.mem[i] ELSE Unknown],
                   !.m_capacity = @ + count * BaseSize,
                   !.m_cur = IF getCapacity(b) = 0 THEN Nodes(b) ELSE @]
    BY <1>1, <1>3 DEF addCapacity
  <2>2. count \in Nat /\ count * BaseSize >= size - have
    <3>1. size - have \in Nat \ {0} /\ count = (size - have + BaseSize - 1) \div BaseSize
      BY <1>1, <1>3
    <3>2. QED
      BY <3>1, RoundUp
  <2>3. n = b.m_capacity
    BY NodesOf
  <2> HIDE DEF c, n, count
  <2> DEFINE extra == count * BaseSize
  <2>4. extra \in Nat \ {0} /\ extra >= size - have
    BY <1>1, <1>3, <2>2, ByteArrayAssumption
  <2>5. (b.m_capacity + extra) % BaseSize = 0
    BY <1>1, <2>2, MultipleSum DEF Shaped
  <2>6. c = [b EXCEPT
                !.mem = [i \in 0 .. b.m_capacity + extra - 1 |->
                             IF i < b.m_capacity THEN b.mem[i] ELSE Unknown],
                !.m_capacity = @ + extra,
                !.m_cur = IF have = 0 THEN Nodes(b) ELSE @]
    BY <1>1, <2>1, <2>3
  <2> HIDE DEF extra, have
  <2>7. /\ DOMAIN c = Members /\ c.m_capacity = b.m_capacity + extra
        /\ c.m_position = b.m_position /\ c.m_size = b.m_size /\ c.m_endian = b.m_endian
        /\ c.m_cur = IF have = 0 THEN Nodes(b) ELSE b.m_cur
        /\ c.mem = [i \in 0 .. b.m_capacity + extra - 1 |->
                        IF i < b.m_capacity THEN b.mem[i] ELSE Unknown]
    BY <2>6 DEF Shaped, Members
  <2>8. c.mem \in [0 .. c.m_capacity - 1 -> Cells]
    <3>1. b.mem \in [0 .. b.m_capacity - 1 -> Cells] /\ Unknown \in Cells
      BY DEF Shaped, Cells
    <3>2. ASSUME NEW i \in 0 .. b.m_capacity + extra - 1
          PROVE  (IF i < b.m_capacity THEN b.mem[i] ELSE Unknown) \in Cells
      <4>1. i < b.m_capacity => i \in 0 .. b.m_capacity - 1
        BY <1>1, <2>4
      <4>2. QED
        BY <3>1, <4>1
    <3>3. [i \in 0 .. b.m_capacity + extra - 1 |->
              IF i < b.m_capacity THEN b.mem[i] ELSE Unknown]
                  \in [0 .. b.m_capacity + extra - 1 -> Cells]
      BY <3>2
    <3>4. c.mem \in [0 .. b.m_capacity + extra - 1 -> Cells]
      BY <2>7, <3>3, Zenon
    <3>5. c.m_capacity = b.m_capacity + extra
      BY <2>7
    <3>6. QED
      BY <1>1, <2>4, <3>4, <3>5
  <2>9. c.m_cur = c.m_position \div BaseSize /\ c.m_position < c.m_capacity
    <3>1. have = 0 => Nodes(b) = b.m_position \div BaseSize
      BY <1>1, NodesOf DEF have
    <3>2. have # 0 => b.m_cur = b.m_position \div BaseSize
      BY <1>1 DEF have, Shaped
    <3>3. QED
      BY <1>1, <2>4, <2>7, <3>1, <3>2 DEF Shaped
  <2>10. c.m_position + size <= c.m_capacity /\ c.m_capacity >= b.m_capacity /\ c.m_capacity \in Nat
    <3>1. b.m_position + size <= b.m_capacity + extra
      BY <1>1, <2>4 DEF have
    <3>2. QED
      BY <1>1, <2>4, <2>7, <3>1
  <2>11. Shaped(c)
    <3>1. c.m_capacity >= BaseSize
      BY <1>1, <2>10, ByteArrayAssumption DEF Shaped
    <3>2. c.m_position \in 0 .. c.m_capacity /\ c.m_size \in 0 .. c.m_capacity
      BY <1>1, <2>7, <2>9, <2>10 DEF Shaped
    <3>3. c.m_capacity % BaseSize = 0 /\ c.m_endian \in {LITTLE, BIG}
      BY <2>5, <2>7 DEF Shaped
    <3>4. QED
      BY <2>7, <2>8, <2>9, <2>10, <3>1, <3>2, <3>3 DEF Shaped
  <2>12. \A i \in 0 .. b.m_capacity - 1 : c.mem[i] = b.mem[i]
    BY <1>1, <2>4, <2>7
  <2>13. QED
    BY <2>7, <2>10, <2>11, <2>12 DEF c
<1>4. QED
  BY <1>1, <1>2, <1>3

(* d is b with the bytes s from address a on. *)
Copied(b, a, s, d) ==
    /\ Shaped(d)
    /\ d.m_position = b.m_position /\ d.m_size = b.m_size
    /\ d.m_capacity = b.m_capacity /\ d.m_endian = b.m_endian
    /\ \A i \in 0 .. b.m_capacity - 1 :
           d.mem[i] = IF i \in a .. a + Len(s) - 1 THEN s[i - a + 1] ELSE b.mem[i]

(* memcpy() of bytes that fit changes the bytes it is for. *)
LEMMA FilledShape ==
    ASSUME NEW b, Shaped(b), NEW s \in Seq(Byte), NEW a \in Nat,
           NEW c, c = Filled(b, a, s)
    PROVE  Copied(b, a, s, c)
<1> DEFINE m == [i \in 0 .. b.m_capacity - 1 |->
                    IF i \in a .. a + Len(s) - 1 THEN s[i - a + 1] ELSE b.mem[i]]
<1>1. c = [b EXCEPT !.mem = m]
  BY DEF Filled, Shaped
<1>2. m \in [0 .. b.m_capacity - 1 -> Cells]
  <2>1. b.mem \in [0 .. b.m_capacity - 1 -> Cells] /\ b.m_capacity \in Nat
    BY DEF Shaped
  <2>2. ASSUME NEW i \in 0 .. b.m_capacity - 1
        PROVE  (IF i \in a .. a + Len(s) - 1 THEN s[i - a + 1] ELSE b.mem[i]) \in Cells
    <3>1. Len(s) \in Nat
      BY LenProperties
    <3>2. CASE i \in a .. a + Len(s) - 1
      <4>1. i - a + 1 \in 1 .. Len(s)
        BY <3>1, <3>2, <2>1
      <4>2. s[i - a + 1] \in Byte
        BY <4>1, ElementOfSeq
      <4>3. QED
        BY <3>2, <4>2 DEF Cells
    <3>3. CASE i \notin a .. a + Len(s) - 1
      BY <2>1, <3>3
    <3>4. QED
      BY <3>2, <3>3
  <2>3. QED
    BY <2>2
<1>3. \A i \in 0 .. b.m_capacity - 1 :
         m[i] = IF i \in a .. a + Len(s) - 1 THEN s[i - a + 1] ELSE b.mem[i]
  OBVIOUS
<1> HIDE DEF m
<1>4. /\ DOMAIN c = Members /\ c.mem = m
      /\ c.m_position = b.m_position /\ c.m_size = b.m_size
      /\ c.m_capacity = b.m_capacity /\ c.m_endian = b.m_endian /\ c.m_cur = b.m_cur
  BY <1>1 DEF Shaped, Members
<1>5. Shaped(c)
  BY <1>2, <1>4 DEF Shaped
<1>6. QED
  BY <1>3, <1>4, <1>5 DEF Copied

(* The position moves within the capacity, m_cur with it. *)
LEMMA AdvancedShape ==
    ASSUME NEW b, Shaped(b), NEW n \in Nat \ {0}, b.m_position + n <= b.m_capacity
    PROVE  LET c == Advanced(b, n)
           IN  /\ Shaped(c)
               /\ c.m_position = b.m_position + n /\ c.m_size = b.m_size
               /\ c.m_capacity = b.m_capacity /\ c.m_endian = b.m_endian /\ c.mem = b.mem
<1> DEFINE c == Advanced(b, n)
           v == b.m_position + n
<1>1. b.m_position < b.m_capacity /\ v \in 0 .. b.m_capacity /\ b.m_position \in Nat
  BY DEF Shaped
<1>2. c = [b EXCEPT !.m_position = v, !.m_cur = NodeAt(b, v)]
  BY <1>1, StartAtPosition DEF Advanced
<1>3. NodeAt(b, v) = IF v = b.m_capacity THEN NULL ELSE v \div BaseSize
  BY <1>1, NodesOf
<1> HIDE DEF c, v
<1>4. /\ DOMAIN c = Members /\ c.m_position = v /\ c.m_size = b.m_size
      /\ c.m_capacity = b.m_capacity /\ c.m_endian = b.m_endian /\ c.mem = b.mem
      /\ c.m_cur = NodeAt(b, v)
  BY <1>2 DEF Shaped, Members
<1>5. Shaped(c)
  BY <1>1, <1>3, <1>4 DEF Shaped
<1>6. QED
  BY <1>4, <1>5 DEF c, v

(* write() puts s at the position and moves behind it. *)
LEMMA WriteShape ==
    ASSUME NEW b, IsArray(b), NEW s \in Seq(Byte)
    PROVE  LET d == write(b, s)
           IN  /\ IsArray(d)
               /\ d.m_position = b.m_position + Len(s) /\ d.m_endian = b.m_endian
               /\ d.m_size = IF d.m_position > b.m_size THEN d.m_position ELSE b.m_size
               /\ d.m_capacity >= b.m_capacity
               /\ \A i \in 0 .. b.m_capacity - 1 : i \notin b.m_position .. d.m_position - 1
                      => d.mem[i] = b.mem[i]
               /\ \A i \in 1 .. Len(s) : d.mem[b.m_position + i - 1] = s[i]
               /\ ~writeFaults(b, s)
<1> DEFINE c == addCapacity(b, Len(s))
           e == Filled(c, Start(c.m_cur, c.m_position), s)
           f == Advanced(e, Len(s))
           d == write(b, s)
           p == b.m_position
<1>1. Len(s) \in Nat /\ Shaped(b) /\ p \in Nat /\ b.m_size \in Nat /\ p <= b.m_size
      /\ b.m_capacity \in Nat
  BY LenProperties DEF IsArray, Shaped
<1>2. CASE s = <<>>
  <2>1. d = b /\ Len(s) = 0 /\ ~writeFaults(b, s)
    BY <1>2 DEF write, writeFaults
  <2> HIDE DEF d
  <2>2. QED
    BY <1>1, <2>1 DEF d
<1>3. CASE s # <<>>
  <2>1. Len(s) \in Nat \ {0}
    BY <1>3, EmptySeq
  <2>2. /\ Shaped(c) /\ c.m_position = p /\ c.m_size = b.m_size /\ c.m_endian = b.m_endian
        /\ c.m_capacity >= b.m_capacity /\ p + Len(s) <= c.m_capacity
        /\ \A i \in 0 .. b.m_capacity - 1 : c.mem[i] = b.mem[i]
    BY <1>1, AddCapacityShape
  <2>3. d = [f EXCEPT !.m_size = IF f.m_position > @ THEN f.m_position ELSE @]
    BY <1>3 DEF write
  <2>a. writeFaults(b, s) => Misses(c, c.m_cur, c.m_position, Len(s))
    BY DEF writeFaults
  <2> HIDE DEF c, d
  <2>4. p < c.m_capacity /\ c.m_capacity \in Nat
    BY <1>1, <2>1, <2>2 DEF Shaped
  <2>5. Start(c.m_cur, c.m_position) = p /\ c.m_cur # NULL
    BY <2>2, <2>4, StartAtPosition
  <2>6. ~writeFaults(b, s)
    <3>1. Cardinality(DOMAIN c.mem) = c.m_capacity
      BY <2>2, NodesOf
    <3>2. ~(p + Len(s) > c.m_capacity)
      BY <1>1, <2>2, <2>4
    <3>3. QED
      BY <2>a, <2>2, <2>5, <3>1, <3>2 DEF Misses
  <2>7. /\ Shaped(e) /\ e.m_position = p /\ e.m_size = b.m_size
        /\ e.m_capacity = c.m_capacity /\ e.m_endian = b.m_endian
        /\ \A i \in 0 .. c.m_capacity - 1 :
               e.mem[i] = IF i \in p .. p + Len(s) - 1 THEN s[i - p + 1] ELSE c.mem[i]
    <3>1. e = Filled(c, p, s)
      BY <2>5
    <3>a. Shaped(c) /\ p \in Nat
      BY <1>1, <2>2
    <3> HIDE DEF e, p
    <3>2. /\ Shaped(e) /\ e.m_position = c.m_position /\ e.m_size = c.m_size
          /\ e.m_capacity = c.m_capacity /\ e.m_endian = c.m_endian
          /\ \A i \in 0 .. c.m_capacity - 1 :
                 e.mem[i] = IF i \in p .. p + Len(s) - 1 THEN s[i - p + 1] ELSE c.mem[i]
      <4>1. Copied(c, p, s, e)
        BY <3>a, <3>1, FilledShape
      <4>2. QED
        BY <4>1, Zenon DEF Copied
    <3>3. e.m_position = p /\ e.m_size = b.m_size /\ e.m_endian = b.m_endian
      BY <2>2, <3>2, Zenon
    <3>4. QED
      BY <3>2, <3>3, Zenon
  <2> HIDE DEF e
  <2>8. /\ Shaped(f) /\ f.m_position = p + Len(s) /\ f.m_size = b.m_size
        /\ f.m_capacity = c.m_capacity /\ f.m_endian = b.m_endian /\ f.mem = e.mem
    BY <2>1, <2>2, <2>7, AdvancedShape
  <2> HIDE DEF f
  <2>9. /\ DOMAIN d = Members /\ d.m_position = p + Len(s) /\ d.m_capacity = c.m_capacity
        /\ d.m_endian = b.m_endian /\ d.mem = e.mem /\ d.m_cur = f.m_cur
        /\ d.m_size = IF p + Len(s) > b.m_size THEN p + Len(s) ELSE b.m_size
    BY <2>3, <2>8 DEF Shaped, Members
  <2>10. IsArray(d)
    <3>1. d.m_size \in 0 .. d.m_capacity /\ d.m_position <= d.m_size
      BY <1>1, <2>2, <2>8, <2>9 DEF Shaped
    <3>2. QED
      BY <2>8, <2>9, <3>1 DEF IsArray, Shaped
  <2>11. ASSUME NEW i \in 0 .. b.m_capacity - 1, i \notin p .. p + Len(s) - 1
         PROVE  d.mem[i] = b.mem[i]
    <3>1. i \in 0 .. c.m_capacity - 1
      BY <1>1, <2>2, <2>4
    <3>2. QED
      BY <2>2, <2>7, <2>9, <2>11, <3>1
  <2>12. ASSUME NEW i \in 1 .. Len(s)
         PROVE  d.mem[p + i - 1] = s[i]
    <3> DEFINE j == p + i - 1
    <3>1. /\ j \in 0 .. c.m_capacity - 1 /\ j \in p .. p + Len(s) - 1
          /\ j - p + 1 = i
      BY <1>1, <2>2, <2>4
    <3> HIDE DEF j
    <3>2. e.mem[j] = s[j - p + 1]
      BY <2>7, <3>1
    <3>3. d.mem[j] = s[i]
      BY <2>9, <3>1, <3>2
    <3>4. QED
      BY <3>3 DEF j
  <2>13. p + Len(s) - 1 = d.m_position - 1
    BY <1>1, <2>9
  <2>14. d.m_size = IF d.m_position > b.m_size THEN d.m_position ELSE b.m_size
    BY <2>9
  <2>15. QED
    BY <2>2, <2>6, <2>9, <2>10, <2>11, <2>12, <2>13, <2>14 DEF d
<1>4. QED
  BY <1>2, <1>3

LEMMA SetPositionShape ==
    ASSUME NEW b, Shaped(b), NEW v \in 0 .. b.m_capacity, NEW c, c = setPosition(b, v)
    PROVE  /\ IsArray(c)
           /\ c.m_position = v /\ c.m_size = IF v > b.m_size THEN v ELSE b.m_size
           /\ c.m_capacity = b.m_capacity /\ c.m_endian = b.m_endian /\ c.mem = b.mem
<1>1. NodeAt(b, v) = IF v = b.m_capacity THEN NULL ELSE v \div BaseSize
  BY NodesOf
<1>2. /\ DOMAIN c = Members /\ c.m_position = v
      /\ c.m_size = IF v > b.m_size THEN v ELSE b.m_size
      /\ c.m_capacity = b.m_capacity /\ c.m_endian = b.m_endian /\ c.mem = b.mem
      /\ c.m_cur = NodeAt(b, v)
  BY DEF setPosition, Shaped, Members
<1>3. c.m_size \in 0 .. c.m_capacity /\ c.m_position <= c.m_size
  BY <1>2 DEF Shaped
<1>4. QED
  BY <1>1, <1>2, <1>3 DEF Shaped, IsArray

LEMMA ClearShape ==
    ASSUME NEW b, Shaped(b), NEW c, c = clear(b)
    PROVE  IsArray(c) /\ c.m_position = 0 /\ c.m_size = 0
<1> DEFINE m == [i \in 0 .. BaseSize - 1 |-> b.mem[i]]
<1>1. m \in [0 .. BaseSize - 1 -> Cells]
  BY ByteArrayAssumption DEF Shaped
<1>2. c = [b EXCEPT !.mem = m, !.m_position = 0, !.m_size = 0,
                    !.m_capacity = BaseSize, !.m_cur = 0]
  BY DEF clear
<1> HIDE DEF m
<1>3. /\ DOMAIN c = Members /\ c.mem = m /\ c.m_position = 0 /\ c.m_size = 0
      /\ c.m_capacity = BaseSize /\ c.m_cur = 0 /\ c.m_endian = b.m_endian
  BY <1>2 DEF Shaped, Members
<1>4. BaseSize % BaseSize = 0 /\ 0 \div BaseSize = 0
  BY ByteArrayAssumption
<1>5. QED
  BY <1>1, <1>3, <1>4, ByteArrayAssumption DEF IsArray, Shaped

LEMMA NewShape == IsArray(ByteArrayOf(BaseSize))
<1> DEFINE m == [i \in 0 .. BaseSize - 1 |-> Unknown]
           b == ByteArrayOf(BaseSize)
<1>1. m \in [0 .. BaseSize - 1 -> Cells]
  BY DEF Cells
<1>2. b = [mem |-> m, m_position |-> 0, m_capacity |-> BaseSize, m_size |-> 0,
           m_endian |-> BIG, m_cur |-> 0]
  BY DEF ByteArrayOf
<1> HIDE DEF m, b
<1>3. BaseSize % BaseSize = 0 /\ 0 \div BaseSize = 0
  BY ByteArrayAssumption
<1>4. IsArray(b)
  BY <1>1, <1>2, <1>3, ByteArrayAssumption DEF IsArray, Shaped, Members
<1>5. QED
  BY <1>4 DEF b

-----------------------------------------------------------------------------
(* The formats *)

(* The powers of the two radixes, as far as the formats go. *)
LEMMA PowersOf ==
    ASSUME NEW r \in {K, Radix}
    PROVE  /\ r \in Nat \ {0, 1} /\ r ^ 0 = 1
           /\ \A i \in 0 .. VarBytes + FixBytes : r ^ i \in Nat \ {0} /\ r ^ (i + 1) = r * r ^ i
<1> DEFINE S == {i \in Nat : i <= VarBytes + FixBytes => r ^ i \in Nat \ {0}}
<1>1. r \in Nat \ {0, 1}
  BY ByteArrayAssumption DEF Radix
<1>2. VarBytes + FixBytes \in Nat
  BY ByteArrayAssumption
<1>3. r ^ 0 = 1 /\ \A i \in 0 .. VarBytes + FixBytes : r ^ (i + 1) = r * r ^ i
  BY PowerAssumption, Zenon
<1>4. 0 \in S
  BY <1>3
<1>5. ASSUME NEW i \in Nat, i \in S
      PROVE  i + 1 \in S
  <2>1. i + 1 <= VarBytes + FixBytes => i \in 0 .. VarBytes + FixBytes /\ i <= VarBytes + FixBytes
    BY <1>2
  <2> SUFFICES ASSUME i + 1 <= VarBytes + FixBytes
               PROVE  r ^ (i + 1) \in Nat \ {0}
    OBVIOUS
  <2> DEFINE p == r ^ i
  <2>2. p \in Nat \ {0} /\ r ^ (i + 1) = r * p
    BY <1>3, <1>5, <2>1
  <2> HIDE DEF p
  <2>3. r * p \in Nat \ {0}
    BY <1>1, <2>2
  <2>4. QED
    BY <2>2, <2>3
<1>6. Nat \subseteq S
  <2> HIDE DEF S
  <2>1. QED
    BY <1>4, <1>5, InductiveSet
<1>7. \A i \in 0 .. VarBytes + FixBytes : r ^ i \in Nat \ {0}
  BY <1>2, <1>6
<1>8. QED
  BY <1>1, <1>3, <1>7

LEMMA Powers ==
    /\ \A i \in 0 .. VarBytes : K ^ i \in Nat \ {0}
    /\ \A i \in 0 .. FixBytes : Radix ^ i \in Nat \ {0}
<1>1. VarBytes \in Nat /\ FixBytes \in Nat
  BY ByteArrayAssumption
<1>2. 0 .. VarBytes \subseteq 0 .. VarBytes + FixBytes /\ 0 .. FixBytes \subseteq 0 .. VarBytes + FixBytes
  BY <1>1
<1>3. /\ \A i \in 0 .. VarBytes + FixBytes : K ^ i \in Nat \ {0}
      /\ \A i \in 0 .. VarBytes + FixBytes : Radix ^ i \in Nat \ {0}
  BY PowersOf
<1>4. QED
  BY <1>2, <1>3

LEMMA ByteFacts ==
    /\ K \in Nat \ {0} /\ Radix \in Nat \ {0} /\ Radix = 2 * K
    /\ Byte \subseteq Nat /\ Modulus \in Nat \ {0}
    /\ VarBytes \in Nat \ {0} /\ FixBytes \in Nat \ {0}
<1>1. K \in Nat \ {0} /\ Radix \in Nat \ {0} /\ Radix = 2 * K
  BY ByteArrayAssumption DEF Radix
<1>2. Byte \subseteq Nat
  BY <1>1 DEF Byte
<1>3. VarBytes \in Nat \ {0} /\ FixBytes \in Nat \ {0}
  BY ByteArrayAssumption
<1>4. K ^ VarBytes \in Nat /\ K ^ (VarBytes - 1) \in Nat
  BY <1>3, Powers
<1>5. QED
  BY <1>1, <1>2, <1>3, <1>4, ByteArrayAssumption

(* A sum of digits adds one after the other: the recursive function exists, *)
(* by the least counterexample.                                             *)
LEMMA DigitSumSteps ==
    ASSUME NEW d, NEW r, Len(d) \in Nat
    PROVE  \E f : /\ DigitSum(d, r) = f[Len(d)] /\ f[0] = 0
                  /\ \A i \in 1 .. Len(d) : f[i] = f[i - 1] + d[i] * r ^ (i - 1)
<1> DEFINE At(f, i) == IF i = 0 THEN 0 ELSE f[i - 1] + d[i] * r ^ (i - 1)
           Fun(n) == \E f : f = [i \in 0 .. n |-> At(f, i)]
           sum[i \in 0 .. Len(d)] == IF i = 0 THEN 0 ELSE sum[i - 1] + d[i] * r ^ (i - 1)
<1>2. \A n \in Nat : Fun(n)
  <2> SUFFICES ASSUME {n \in Nat : ~Fun(n)} # {}
               PROVE  FALSE
    OBVIOUS
  <2>1. PICK n \in {m \in Nat : ~Fun(m)} : \A m \in {l \in Nat : ~Fun(l)} \ {n} : n < m
    <3> HIDE DEF Fun
    <3>1. QED
      BY LeastNat
  <2>2. n \in Nat /\ ~Fun(n)
    OBVIOUS
  <2>3. CASE n = 0
    <3> DEFINE f == [i \in 0 .. 0 |-> 0]
    <3>1. f = [i \in 0 .. n |-> At(f, i)]
      BY <2>3
    <3>2. QED
      BY <2>2, <3>1
  <2>4. CASE n # 0
    <3>1. n - 1 \in Nat /\ ~(n < n - 1) /\ n - 1 # n
      BY <2>2, <2>4
    <3>2. Fun(n - 1)
      <4> HIDE DEF Fun
      <4>1. QED
        BY <2>1, <3>1
    <3>3. PICK f : f = [i \in 0 .. n - 1 |-> At(f, i)]
      BY <3>2
    <3> DEFINE g == [i \in 0 .. n |-> At(f, i)]
    <3>4. \A i \in 0 .. n : At(g, i) = At(f, i)
      <4>1. \A i \in 0 .. n - 1 : f[i] = At(f, i) /\ g[i] = At(f, i)
        BY <2>2, <3>3
      <4> HIDE DEF g
      <4>2. \A i \in 0 .. n : i # 0 => i - 1 \in 0 .. n - 1
        BY <2>2
      <4>3. QED
        BY <4>1, <4>2
    <3>5. g = [i \in 0 .. n |-> At(g, i)]
      BY <3>4
    <3>6. QED
      BY <2>2, <3>5
  <2>5. QED
    BY <2>3, <2>4
<1>3. PICK f : f = [i \in 0 .. Len(d) |-> At(f, i)]
  BY <1>2
<1>4. sum = [i \in 0 .. Len(d) |-> IF i = 0 THEN 0 ELSE sum[i - 1] + d[i] * r ^ (i - 1)]
  BY <1>3, Zenon
<1>5. DigitSum(d, r) = sum[Len(d)]
  BY DEF DigitSum
<1> HIDE DEF sum
<1>6. sum[0] = 0
  <2>1. 0 \in 0 .. Len(d)
    OBVIOUS
  <2>2. QED
    BY <1>4, <2>1, Zenon
<1>7. ASSUME NEW i \in 1 .. Len(d)
      PROVE  sum[i] = sum[i - 1] + d[i] * r ^ (i - 1)
  <2>1. i \in 0 .. Len(d) /\ i # 0
    OBVIOUS
  <2>2. QED
    BY <1>4, <2>1, Zenon
<1>8. QED
  BY <1>5, <1>6, <1>7, Zenon

(* A sum of digits is a natural number. *)
LEMMA DigitSumNat ==
    ASSUME NEW d \in Seq(Nat), NEW r \in Nat,
           \A i \in 0 .. Len(d) : r ^ i \in Nat
    PROVE  DigitSum(d, r) \in Nat
<1>1. Len(d) \in Nat
  BY LenProperties
<1>2. PICK sum : /\ DigitSum(d, r) = sum[Len(d)] /\ sum[0] = 0
                 /\ \A i \in 1 .. Len(d) : sum[i] = sum[i - 1] + d[i] * r ^ (i - 1)
  BY <1>1, DigitSumSteps, Zenon
<1>3. \A i \in 0 .. Len(d) : sum[i] \in Nat
  <2> DEFINE bad == {i \in 0 .. Len(d) : sum[i] \notin Nat}
  <2> SUFFICES ASSUME bad # {}
               PROVE  FALSE
    OBVIOUS
  <2>1. PICK i \in bad : \A j \in bad \ {i} : i < j
    <3>1. bad \subseteq Nat
      BY <1>1
    <3> HIDE DEF bad
    <3>2. QED
      BY <3>1, LeastNat
  <2>2. i \in 0 .. Len(d) /\ sum[i] \notin Nat
    OBVIOUS
  <2>3. i # 0
    BY <1>1, <1>2, <2>2
  <2>4. i - 1 \in 0 .. Len(d) /\ i \in 1 .. Len(d) /\ i - 1 \notin bad
    BY <1>1, <2>1, <2>2, <2>3
  <2>5. sum[i - 1] \in Nat /\ d[i] \in Nat /\ r ^ (i - 1) \in Nat
    BY <2>4, ElementOfSeq
  <2>6. sum[i] = sum[i - 1] + d[i] * r ^ (i - 1)
    BY <1>2, <2>4, Zenon
  <2> DEFINE power == r ^ (i - 1)
         before == sum[i - 1]
         digit == d[i]
  <2>7. power \in Nat /\ before \in Nat /\ digit \in Nat /\ sum[i] = before + digit * power
    BY <2>5, <2>6
  <2> HIDE DEF power, before, digit
  <2>8. sum[i] \in Nat
    BY <2>7, SMTT(30)
  <2>9. QED
    BY <2>2, <2>8
<1>4. QED
  BY <1>1, <1>2, <1>3

LEMMA InOrderBytes ==
    ASSUME NEW e, NEW s \in Seq(Byte), NEW t, t = InOrder(e, s)
    PROVE  t \in Seq(Byte) /\ Len(t) = Len(s)
<1>1. Len(s) \in Nat /\ \A i \in 1 .. Len(s) : s[i] \in Byte
  BY LenProperties, ElementOfSeq
<1>2. CASE t = s
  BY <1>2
<1>3. CASE t = Reverse(s)
  <2>1. t = [i \in 1 .. Len(s) |-> s[(Len(s) - i) + 1]]
    BY <1>3 DEF Reverse
  <2>2. \A i \in 1 .. Len(s) : s[(Len(s) - i) + 1] \in Byte
    BY <1>1
  <2>3. QED
    BY <1>1, <2>1, <2>2
<1>4. QED
  BY <1>2, <1>3 DEF InOrder, byteswap

(* The length of a varint, and the bytes a read of one takes. *)
LEMMA VarTakenFits ==
    ASSUME NEW s \in Seq(Byte)
    PROVE  VarTaken(s) \in 0 .. Len(s) /\ VarTaken(s) <= VarBytes
<1> DEFINE ends == {n \in 1 .. Len(s) : s[n] < K \/ n = VarBytes}
<1>1. Len(s) \in Nat /\ VarBytes \in Nat \ {0}
  BY LenProperties, ByteFacts
<1>2. CASE ends = {}
  <2>1. VarTaken(s) = 0
    BY <1>2 DEF VarTaken
  <2>2. QED
    BY <1>1, <2>1
<1>3. CASE ends # {}
  <2>1. VarTaken(s) = CHOOSE n \in ends : \A m \in ends : n <= m
    BY <1>3 DEF VarTaken
  <2>2. ends \subseteq 1 .. Len(s) /\ (VarBytes <= Len(s) => VarBytes \in ends)
    BY <1>1
  <2> HIDE DEF ends
  <2>a. ends \subseteq Nat
    BY <1>1, <2>2
  <2>3. PICK n \in ends : \A m \in ends \ {n} : n < m
    BY <1>3, <2>a, LeastNat
  <2>4. \A m \in ends : n <= m
    BY <1>1, <2>2, <2>3
  <2>5. VarTaken(s) \in ends /\ \A m \in ends : VarTaken(s) <= m
    BY <2>1, <2>4
  <2>6. VarTaken(s) \in 1 .. Len(s)
    BY <2>2, <2>5
  <2>7. CASE VarBytes <= Len(s)
    BY <1>1, <2>2, <2>5, <2>6, <2>7
  <2>8. CASE VarBytes > Len(s)
    BY <1>1, <2>6, <2>8
  <2>9. QED
    BY <1>1, <2>7, <2>8
<1>4. QED
  BY <1>2, <1>3

(* The numbers in front of a string are natural numbers. *)
LEMMA FixedNat ==
    ASSUME NEW e, NEW s \in Seq(Byte), FixBytes <= Len(s)
    PROVE  readFixed(e, SubSeq(s, 1, FixBytes)) \in Nat
<1>1. Len(s) \in Nat /\ \A i \in 1 .. Len(s) : s[i] \in Byte
  BY LenProperties, ElementOfSeq
<1> DEFINE t == SubSeq(s, 1, FixBytes)
           u == InOrder(e, t)
<1>2. \A i \in 1 .. FixBytes : s[i] \in Byte
  BY <1>1, ByteFacts
<1>3. t \in Seq(Byte) /\ Len(t) = FixBytes
  BY <1>2, ByteFacts, SubSeqProperties
<1> HIDE DEF t
<1>4. u \in Seq(Byte) /\ Len(u) = FixBytes
  BY <1>3, InOrderBytes
<1>5. u \in Seq(Nat)
  BY <1>4, ByteFacts, SeqMonotonic
<1>6. readFixed(e, t) = DigitSum(u, Radix)
  BY DEF readFixed, HostValue
<1> HIDE DEF u
<1>7. DigitSum(u, Radix) \in Nat
  BY <1>4, <1>5, ByteFacts, Powers, DigitSumNat
<1>8. QED
  BY <1>6, <1>7 DEF t

LEMMA VarNat ==
    ASSUME NEW s \in Seq(Byte)
    PROVE  readVarint(SubSeq(s, 1, VarTaken(s))) \in Nat
<1> DEFINE n == VarTaken(s)
           t == SubSeq(s, 1, n)
           u == [i \in 1 .. Len(t) |-> t[i] % K]
<1>1. Len(s) \in Nat /\ \A i \in 1 .. Len(s) : s[i] \in Byte
  BY LenProperties, ElementOfSeq
<1>2. n \in 0 .. Len(s) /\ n <= VarBytes
  BY VarTakenFits
<1> HIDE DEF n
<1>3. t \in Seq(Byte) /\ Len(t) = n
  <2>1. \A i \in 1 .. n : s[i] \in Byte
    BY <1>1, <1>2
  <2>2. t \in Seq(Byte) /\ Len(t) = IF 1 <= n THEN n - 1 + 1 ELSE 0
    BY <1>2, <2>1, SubSeqProperties
  <2> HIDE DEF t
  <2>3. QED
    BY <1>1, <1>2, <2>2
<1>4. readVarint(t) = DigitSum(u, K) % Modulus
  BY DEF readVarint
<1> HIDE DEF t
<1>5. u \in Seq(Nat) /\ Len(u) = n
  <2>1. \A i \in 1 .. n : t[i] % K \in Nat
    <3>1. \A i \in 1 .. n : t[i] \in Nat
      BY <1>3, ElementOfSeq, ByteFacts
    <3>2. QED
      BY <3>1, ByteFacts
  <2>2. QED
    BY <1>1, <1>2, <1>3, <2>1
<1> HIDE DEF u
<1>6. DigitSum(u, K) \in Nat
  BY <1>2, <1>5, ByteFacts, Powers, DigitSumNat
<1>7. DigitSum(u, K) % Modulus \in Nat
  BY <1>6, ByteFacts
<1>8. QED
  BY <1>4, <1>7 DEF t, n

(* A read function takes no more than there is; when it asks for no bytes  *)
(* it has taken some before, and does not throw.                           *)
LEMMA DecodeFits ==
    ASSUME NEW kind \in Kinds \ {"raw"}, NEW s \in Seq(Byte), NEW e, NEW o,
           o = Decode(kind, s, e)
    PROVE  /\ o.taken \in 0 .. Len(s) /\ o.throws \in BOOLEAN
           /\ o.none = -1 \/ (o.none = o.taken /\ o.taken > 0 /\ ~o.throws)
<1> DEFINE short == Len(s) < FixBytes
           fixed == readFixed(e, SubSeq(s, 1, FixBytes))
           n     == VarTaken(s)
           var   == readVarint(SubSeq(s, 1, n))
<1>1. Len(s) \in Nat /\ n \in 0 .. Len(s) /\ var \in Nat /\ FixBytes \in Nat \ {0}
  BY LenProperties, VarTakenFits, VarNat, ByteFacts
<1>2. ~short => fixed \in Nat
  BY <1>1, FixedNat
<1>3. \A t \in 1 .. Len(s), len \in Nat :
          LET r == readString(s, t, len)
          IN  /\ r.taken \in 0 .. Len(s) /\ r.throws \in BOOLEAN
              /\ r.none = -1 \/ (r.none = r.taken /\ r.taken > 0 /\ ~r.throws)
  BY <1>1 DEF readString, Outcome
<1>4. \/ o = Outcome(0, TRUE, 0, -1) \/ o = Outcome(Len(s), TRUE, 0, -1)
      \/ ~short /\ \E v : o = Outcome(FixBytes, FALSE, v, -1)
      \/ n > 0 /\ \E v : o = Outcome(n, FALSE, v, -1)
      \/ ~short /\ o = readString(s, FixBytes, fixed)
      \/ n > 0 /\ o = readString(s, n, var)
  <2>1. n > 0 \/ n = 0
    BY <1>1
  <2>2. CASE kind = "int" \/ kind = "uint"
    BY <2>2 DEF Decode
  <2>3. CASE kind = "strF"
    BY <2>3 DEF Decode
  <2>a. CASE n = 0 /\ kind \in {"vint", "vuint", "strV"}
    <3>1. n = 0 => ~(n > 0)
      OBVIOUS
    <3>2. CASE kind = "vint"
      BY <2>a, <3>1, <3>2 DEF Decode
    <3>3. CASE kind = "vuint"
      BY <2>a, <3>1, <3>3 DEF Decode
    <3>4. CASE kind = "strV"
      BY <2>a, <3>1, <3>4 DEF Decode
    <3>5. QED
      BY <2>a, <3>2, <3>3, <3>4
  <2>4. CASE n > 0 /\ (kind = "vint" \/ kind = "vuint")
    <3>1. n # 0
      BY <1>1, <2>4
    <3>2. \E v : o = Outcome(n, FALSE, v, -1)
      BY <2>4, <3>1 DEF Decode
    <3>3. QED
      BY <2>4, <3>2
  <2>5. CASE n > 0 /\ kind = "strV"
    <3>1. n # 0
      BY <1>1, <2>5
    <3>2. o = readString(s, n, var)
      BY <2>5, <3>1 DEF Decode
    <3>3. QED
      BY <2>5, <3>2
  <2>6. QED
    BY <2>1, <2>2, <2>3, <2>a, <2>4, <2>5 DEF Kinds
<1> HIDE DEF short, fixed, n, var
<1>5. ~short => FixBytes \in 1 .. Len(s)
  BY <1>1 DEF short
<1>6. n > 0 => n \in 1 .. Len(s)
  BY <1>1
<1>7. CASE o = Outcome(0, TRUE, 0, -1) \/ o = Outcome(Len(s), TRUE, 0, -1)
  <2>1. CASE o = Outcome(0, TRUE, 0, -1)
    BY <1>1, <2>1 DEF Outcome
  <2>2. CASE o = Outcome(Len(s), TRUE, 0, -1)
    BY <1>1, <2>2 DEF Outcome
  <2>3. QED
    BY <1>7, <2>1, <2>2
<1>8. CASE ~short /\ \E v : o = Outcome(FixBytes, FALSE, v, -1)
  BY <1>1, <1>5, <1>8 DEF Outcome
<1>9. CASE n > 0 /\ \E v : o = Outcome(n, FALSE, v, -1)
  BY <1>1, <1>6, <1>9 DEF Outcome
<1>10. CASE ~short /\ o = readString(s, FixBytes, fixed)
  BY <1>2, <1>3, <1>5, <1>10
<1>11. CASE n > 0 /\ o = readString(s, n, var)
  BY <1>1, <1>3, <1>6, <1>11
<1>12. QED
  BY <1>4, <1>7, <1>8, <1>9, <1>10, <1>11

(* What the write functions write are bytes. *)
LEMMA WriteFixedBytes ==
    ASSUME NEW e, NEW v \in Int, NEW s, s = writeFixed(e, v)
    PROVE  s \in Seq(Byte) /\ Len(s) = FixBytes
<1> DEFINE range == Radix ^ FixBytes
           w     == v % range
           h     == [i \in 1 .. FixBytes |-> (w \div Radix ^ (i - 1)) % Radix]
<1>1. FixBytes \in Nat \ {0} /\ Radix \in Nat \ {0}
  BY ByteFacts
<1>2. range \in Nat \ {0}
  BY <1>1, Powers
<1>3. s = InOrder(e, h)
  BY DEF writeFixed, HostBytes
<1> HIDE DEF range
<1>4. w \in Nat
  BY <1>2
<1> HIDE DEF w
<1>5. \A i \in 1 .. FixBytes : (w \div Radix ^ (i - 1)) % Radix \in Byte
  <2> SUFFICES ASSUME NEW i \in 1 .. FixBytes
               PROVE  (w \div Radix ^ (i - 1)) % Radix \in Byte
    OBVIOUS
  <2> DEFINE p == Radix ^ (i - 1)
  <2>1. p \in Nat \ {0}
    BY <1>1, Powers
  <2> HIDE DEF p
  <2>2. w \div p \in Nat
    BY <1>4, <2>1
  <2>3. (w \div p) % Radix \in 0 .. Radix - 1
    BY <1>1, <2>2
  <2>4. QED
    BY <2>3 DEF p, Byte
<1>6. h \in Seq(Byte) /\ Len(h) = FixBytes
  BY <1>1, <1>5
<1> HIDE DEF h
<1>7. QED
  BY <1>3, <1>6, InOrderBytes

LEMMA VarLenFits ==
    ASSUME NEW v \in 0 .. Modulus - 1
    PROVE  VarLen(v) \in 1 .. VarBytes /\ v < K ^ VarLen(v)
<1> DEFINE fits == {n \in 1 .. VarBytes : v < K ^ n}
<1>1. VarBytes \in Nat \ {0} /\ \A i \in 0 .. VarBytes : K ^ i \in Nat
  BY ByteFacts, Powers
<1>2. v < K ^ VarBytes
  BY <1>1, ByteFacts, ByteArrayAssumption
<1>3. VarBytes \in fits /\ fits \subseteq Nat
  BY <1>1, <1>2
<1>4. PICK n \in fits : \A m \in fits \ {n} : n < m
  <2> HIDE DEF fits
  <2>1. QED
    BY <1>3, LeastNat
<1>5. \A m \in 1 .. n - 1 : v >= K ^ m
  <2> SUFFICES ASSUME NEW m \in 1 .. n - 1
               PROVE  v >= K ^ m
    OBVIOUS
  <2>1. m \in 1 .. VarBytes /\ m # n /\ ~(n < m)
    BY <1>1
  <2>2. m \notin fits
    BY <1>4, <2>1
  <2>3. ~(v < K ^ m) /\ K ^ m \in Nat
    BY <1>1, <2>1, <2>2
  <2> DEFINE p == K ^ m
  <2> HIDE DEF p
  <2>4. ~(v < p) /\ p \in Nat
    BY <2>3 DEF p
  <2>5. v >= p
    BY <2>4, ByteFacts
  <2>6. QED
    BY <2>5 DEF p
<1>6. n \in 1 .. VarBytes /\ v < K ^ n
  OBVIOUS
<1>7. QED
  BY <1>5, <1>6, Zenon DEF VarLen

LEMMA WriteVarintBytes ==
    ASSUME NEW v \in 0 .. Modulus - 1, NEW s, s = writeVarint(v)
    PROVE  s \in Seq(Byte) /\ Len(s) \in 1 .. VarBytes
<1> DEFINE n == VarLen(v)
           digit(i) == ((v \div K ^ (i - 1)) % K) + (IF i < n THEN K ELSE 0)
<1>1. n \in 1 .. VarBytes /\ VarBytes \in Nat /\ v \in Nat /\ K \in Nat \ {0}
  BY VarLenFits, ByteFacts
<1>2. s = [i \in 1 .. n |-> digit(i)]
  BY DEF writeVarint
<1> HIDE DEF n
<1>3. \A i \in 1 .. n : digit(i) \in Byte
  <2> SUFFICES ASSUME NEW i \in 1 .. n
               PROVE  digit(i) \in Byte
    OBVIOUS
  <2> DEFINE p == K ^ (i - 1)
  <2>1. p \in Nat \ {0}
    BY <1>1, Powers
  <2> HIDE DEF p
  <2>2. v \div p \in Nat
    BY <1>1, <2>1
  <2>3. (v \div p) % K \in 0 .. K - 1
    BY <1>1, <2>2
  <2> DEFINE q == (v \div p) % K
  <2>4. q \in 0 .. K - 1 /\ digit(i) = q + (IF i < n THEN K ELSE 0)
    BY <2>3 DEF p
  <2> HIDE DEF q, digit
  <2>5. q + (IF i < n THEN K ELSE 0) \in 0 .. 2 * K - 1
    BY <1>1, <2>4
  <2>6. QED
    BY <2>4, <2>5, ByteFacts DEF Byte
<1> HIDE DEF digit
<1>4. QED
  BY <1>1, <1>2, <1>3

LEMMA EncodeBytes ==
    ASSUME NEW kind \in Kinds, NEW v \in Inputs[kind], NEW e, NEW s,
           s = Encode(kind, v, e)
    PROVE  s \in Seq(Byte)
<1>1. CASE kind = "raw"
  BY <1>1, InputAssumption DEF Encode
<1>2. CASE kind = "int" \/ kind = "uint"
  <2>1. v \in Int
    BY <1>2, InputAssumption
  <2>2. s = writeFixed(e, v)
    BY <1>2 DEF Encode
  <2>3. QED
    BY <2>1, <2>2, WriteFixedBytes
<1>3. CASE kind = "vuint"
  <2>1. v \in 0 .. Modulus - 1
    BY <1>3, InputAssumption
  <2>2. s = writeVarint(v)
    BY <1>3 DEF Encode
  <2>3. QED
    BY <2>1, <2>2, WriteVarintBytes
<1>4. CASE kind = "vint"
  <2>1. v \in Int /\ Modulus \in Nat \ {0}
    BY <1>4, InputAssumption, ByteFacts
  <2> DEFINE z == EncodeZigzag(v)
  <2>2. z \in 0 .. Modulus - 1
    BY <2>1 DEF EncodeZigzag
  <2>3. s = writeVarint(z)
    BY <1>4 DEF Encode
  <2> HIDE DEF z
  <2>4. QED
    BY <2>2, <2>3, WriteVarintBytes
<1>5. CASE kind = "strF"
  <2>1. v \in Seq(Byte) /\ Len(v) \in Int
    <3>1. v \in Seq(Byte)
      BY <1>5, InputAssumption
    <3>2. QED
      BY <3>1, LenProperties
  <2> DEFINE t == writeFixed(e, Len(v))
  <2>2. s = t \o v
    BY <1>5 DEF Encode
  <2>3. t \in Seq(Byte)
    BY <2>1, WriteFixedBytes
  <2> HIDE DEF t
  <2>4. QED
    BY <2>1, <2>2, <2>3, ConcatProperties
<1>6. CASE kind = "strV"
  <2>1. v \in Seq(Byte) /\ Len(v) \in 0 .. Modulus - 1
    <3>1. v \in Seq(Byte) /\ Len(v) < Modulus
      BY <1>6, InputAssumption
    <3>2. QED
      BY <3>1, LenProperties, ByteFacts
  <2> DEFINE t == writeVarint(Len(v))
  <2>2. s = t \o v
    BY <1>6 DEF Encode
  <2>3. t \in Seq(Byte)
    BY <2>1, WriteVarintBytes
  <2> HIDE DEF t
  <2>4. QED
    BY <2>1, <2>2, <2>3, ConcatProperties
<1>7. QED
  BY <1>1, <1>2, <1>3, <1>4, <1>5, <1>6 DEF Kinds

-----------------------------------------------------------------------------
(* What the write functions write, the read functions read *)

(* The digits of a number in one of the radixes sum up to it. *)
LEMMA DigitsRead ==
    ASSUME NEW r \in {K, Radix}, NEW n \in 0 .. VarBytes + FixBytes,
           NEW v \in Nat, v < r ^ n, NEW d, Len(d) = n,
           \A i \in 1 .. n : d[i] = (v \div r ^ (i - 1)) % r
    PROVE  DigitSum(d, r) = v
<1> DEFINE P == [i \in 0 .. n |-> r ^ i]
<1>1. /\ r \in Nat \ {0, 1} /\ r ^ 0 = 1
      /\ \A i \in 0 .. VarBytes + FixBytes : r ^ i \in Nat \ {0} /\ r ^ (i + 1) = r * r ^ i
  BY PowersOf
<1>2. n \in Nat /\ \A i \in 0 .. n : i \in 0 .. VarBytes + FixBytes
  BY ByteArrayAssumption
<1>3. \A i \in 0 .. n : P[i] = r ^ i /\ P[i] \in Nat \ {0}
  BY <1>1, <1>2
<1>4. P[0] = 1
  <2>1. 0 \in 0 .. n
    BY <1>2
  <2>2. QED
    BY <1>1, <1>3, <2>1
<1>5. \A i \in 1 .. n : /\ P[i] = r * P[i - 1]
                        /\ d[i] = (v \div P[i - 1]) % r /\ r ^ (i - 1) = P[i - 1]
  <2> SUFFICES ASSUME NEW i \in 1 .. n
               PROVE  /\ P[i] = r * P[i - 1]
                      /\ d[i] = (v \div P[i - 1]) % r /\ r ^ (i - 1) = P[i - 1]
    OBVIOUS
  <2>1. i \in 0 .. n /\ i - 1 \in 0 .. n /\ i - 1 \in 0 .. VarBytes + FixBytes /\ (i - 1) + 1 = i
    BY <1>2
  <2>2. P[i] = r ^ i /\ P[i - 1] = r ^ (i - 1)
    BY <1>3, <2>1
  <2>3. r ^ i = r * r ^ (i - 1)
    <3> DEFINE j == i - 1
    <3>1. r ^ (j + 1) = r * r ^ j /\ j + 1 = i
      BY <1>1, <2>1
    <3> HIDE DEF j
    <3>2. r ^ i = r * r ^ j
      BY <3>1
    <3>3. QED
      BY <3>2 DEF j
  <2>4. d[i] = (v \div r ^ (i - 1)) % r
    OBVIOUS
  <2> HIDE DEF P
  <2>5. QED
    BY <2>2, <2>3, <2>4
<1>6. v < P[n]
  <2>1. n \in 0 .. n
    BY <1>2
  <2>2. QED
    BY <1>3, <2>1
<1> HIDE DEF P
<1>7. PICK f : /\ DigitSum(d, r) = f[Len(d)] /\ f[0] = 0
               /\ \A i \in 1 .. Len(d) : f[i] = f[i - 1] + d[i] * r ^ (i - 1)
  <2>1. Len(d) \in Nat
    BY <1>2
  <2>2. QED
    BY <2>1, DigitSumSteps, ZenonT(30)
<1>8. \A i \in 1 .. n : f[i] = f[i - 1] + ((v \div P[i - 1]) % r) * P[i - 1]
  <2> SUFFICES ASSUME NEW i \in 1 .. n
               PROVE  f[i] = f[i - 1] + ((v \div P[i - 1]) % r) * P[i - 1]
    OBVIOUS
  <2>1. f[i] = f[i - 1] + d[i] * r ^ (i - 1)
    BY <1>7, Zenon
  <2>2. d[i] = (v \div P[i - 1]) % r /\ r ^ (i - 1) = P[i - 1]
    BY <1>5
  <2>3. QED
    BY <2>1, <2>2, Zenon
<1>9. f[n] = v
  <2>1. r \in Nat \ {0} /\ \A i \in 0 .. n : P[i] \in Nat \ {0}
    BY <1>1, <1>3
  <2>2. \A i \in 1 .. n : P[i] = r * P[i - 1]
    BY <1>5
  <2>3. f[0] = 0
    BY <1>7
  <2>4. QED
    <3>1. SumsDigits(f, v, r, P, n)
      BY <1>4, <1>8, <2>1, <2>2, <2>3, Zenon DEF SumsDigits
    <3>2. QED
      BY <1>2, <1>6, <2>1, <3>1, DigitsOfNumber
<1>10. QED
  BY <1>7, <1>9

(* Swapping the bytes twice gives them back. *)
LEMMA InOrderTwice ==
    ASSUME NEW e, NEW s \in Seq(Byte), NEW t, t = InOrder(e, s)
    PROVE  InOrder(e, t) = s
<1>1. Len(s) \in Nat
  BY LenProperties
<1>2. CASE e = SYLAR_BYTE_ORDER
  BY <1>2 DEF InOrder
<1>3. CASE e # SYLAR_BYTE_ORDER
  <2> DEFINE n == Len(s)
             u == Reverse(t)
  <2>1. t = [i \in 1 .. n |-> s[(n - i) + 1]]
    BY <1>3 DEF InOrder, byteswap, Reverse
  <2>2. t \in Seq(Byte) /\ Len(t) = n
    BY InOrderBytes
  <2>3. u = [i \in 1 .. n |-> t[(n - i) + 1]]
    BY <2>2 DEF Reverse
  <2>4. \A i \in 1 .. n : t[(n - i) + 1] = s[i]
    <3> SUFFICES ASSUME NEW i \in 1 .. n
                 PROVE  t[(n - i) + 1] = s[i]
      OBVIOUS
    <3>1. (n - i) + 1 \in 1 .. n /\ (n - ((n - i) + 1)) + 1 = i
      BY <1>1
    <3>2. t[(n - i) + 1] = s[(n - ((n - i) + 1)) + 1]
      BY <2>1, <3>1
    <3>3. QED
      BY <3>1, <3>2
  <2>5. s = [i \in 1 .. n |-> s[i]]
    BY SeqByElements
  <2> HIDE DEF u
  <2>6. u = s
    BY <2>3, <2>4, <2>5
  <2>7. InOrder(e, t) = u
    BY <1>3 DEF InOrder, byteswap, u
  <2>8. QED
    BY <2>6, <2>7
<1>4. QED
  BY <1>2, <1>3

(* A fixed integer reads back as it is modulo its width. *)
LEMMA FixedReadsBack ==
    ASSUME NEW e, NEW v \in Int, NEW s, s = writeFixed(e, v)
    PROVE  readFixed(e, s) = v % Radix ^ FixBytes
<1> DEFINE range == Radix ^ FixBytes
           x     == v % range
           h     == [i \in 1 .. FixBytes |-> (x \div Radix ^ (i - 1)) % Radix]
<1>1. FixBytes \in Nat \ {0} /\ Radix \in Nat \ {0} /\ VarBytes \in Nat
  BY ByteFacts
<1>2. range \in Nat \ {0}
  BY <1>1, Powers
<1>3. s = InOrder(e, h)
  BY DEF writeFixed, HostBytes
<1>4. x \in Nat /\ x < range
  <2> HIDE DEF range
  <2>1. QED
    BY <1>2
<1> HIDE DEF x
<1>5. \A i \in 1 .. FixBytes : (x \div Radix ^ (i - 1)) % Radix \in Byte
  <2> SUFFICES ASSUME NEW i \in 1 .. FixBytes
               PROVE  (x \div Radix ^ (i - 1)) % Radix \in Byte
    OBVIOUS
  <2> DEFINE p == Radix ^ (i - 1)
  <2>1. p \in Nat \ {0}
    BY <1>1, Powers
  <2> HIDE DEF p
  <2>2. x \div p \in Nat
    BY <1>4, <2>1
  <2>3. (x \div p) % Radix \in 0 .. Radix - 1
    BY <1>1, <2>2
  <2>4. QED
    BY <2>3 DEF p, Byte
<1>6. /\ h \in Seq(Byte) /\ Len(h) = FixBytes
      /\ \A i \in 1 .. FixBytes : h[i] = (x \div Radix ^ (i - 1)) % Radix
  BY <1>1, <1>5
<1> HIDE DEF h
<1>7. InOrder(e, s) = h
  BY <1>3, <1>6, InOrderTwice
<1>8. DigitSum(h, Radix) = x
  <2>1. FixBytes \in 0 .. VarBytes + FixBytes /\ Radix \in {K, Radix}
    BY <1>1
  <2>2. QED
    BY <1>4, <1>6, <2>1, DigitsRead
<1>9. QED
  BY <1>7, <1>8 DEF readFixed, HostValue, x

(* w begins with the bytes of s. *)
Begins(w, s) == Len(s) <= Len(w) /\ \A i \in 1 .. Len(s) : w[i] = s[i]

LEMMA BeginsWith ==
    ASSUME NEW w \in Seq(Cells), NEW s \in Seq(Byte), Begins(w, s)
    PROVE  SubSeq(w, 1, Len(s)) = s
<1> DEFINE n == Len(s)
<1>1. n \in Nat /\ Len(w) \in Nat /\ n <= Len(w)
  BY LenProperties DEF Begins
<1>2. SubSeq(w, 1, n) = [i \in 1 .. n |-> w[i]]
  BY <1>1
<1>3. \A i \in 1 .. n : w[i] = s[i]
  BY DEF Begins
<1>4. s = [i \in 1 .. n |-> s[i]]
  BY SeqByElements
<1> HIDE DEF n
<1>5. SubSeq(w, 1, n) = s
  BY <1>2, <1>3, <1>4
<1>6. QED
  BY <1>5 DEF n

(* What begins with two strings begins with the first, and has the second  *)
(* behind it.                                                              *)
LEMMA BeginsWithBoth ==
    ASSUME NEW w \in Seq(Cells), NEW s \in Seq(Byte), NEW t \in Seq(Byte), Begins(w, s \o t)
    PROVE  /\ Begins(w, s) /\ Len(s \o t) = Len(s) + Len(t) /\ Len(s) + Len(t) <= Len(w)
           /\ SubSeq(w, Len(s) + 1, Len(s) + Len(t)) = t
<1> DEFINE n == Len(s)
           k == Len(t)
           u == s \o t
<1>1. n \in Nat /\ k \in Nat /\ Len(w) \in Nat
  BY LenProperties
<1>2. Len(u) = n + k /\ \A i \in 1 .. n + k : u[i] = IF i <= n THEN s[i] ELSE t[i - n]
  BY ConcatProperties
<1> HIDE DEF u
<1>3. n + k <= Len(w) /\ \A i \in 1 .. n + k : w[i] = u[i]
  BY <1>2 DEF Begins, u
<1>4. \A i \in 1 .. n : w[i] = s[i]
  BY <1>1, <1>2, <1>3
<1>5. \A i \in 1 .. k : w[n + i] = t[i]
  <2> SUFFICES ASSUME NEW i \in 1 .. k
               PROVE  w[n + i] = t[i]
    OBVIOUS
  <2>1. n + i \in 1 .. n + k /\ ~(n + i <= n) /\ (n + i) - n = i
    BY <1>1
  <2>2. QED
    BY <1>2, <1>3, <2>1
<1>6. SubSeq(w, n + 1, n + k) = [i \in 1 .. k |-> w[n + i]]
  BY <1>1, <1>3
<1>7. t = [i \in 1 .. k |-> t[i]]
  BY SeqByElements
<1>8. SubSeq(w, n + 1, n + k) = t
  <2> HIDE DEF n, k
  <2>1. QED
    BY <1>5, <1>6, <1>7
<1>9. Begins(w, s)
  BY <1>1, <1>3, <1>4 DEF Begins
<1>10. QED
  BY <1>2, <1>3, <1>8, <1>9 DEF u

(* A varint reads back, whatever is behind it: its last byte is the first  *)
(* one without the mark.                                                   *)
LEMMA VarintReadsBack ==
    ASSUME NEW v \in 0 .. Modulus - 1, NEW s, s = writeVarint(v),
           NEW w \in Seq(Cells), Begins(w, s)
    PROVE  VarTaken(w) = Len(s) /\ readVarint(SubSeq(w, 1, Len(s))) = v
<1> DEFINE n == VarLen(v)
           digit(i) == (v \div K ^ (i - 1)) % K
           mark(i) == IF i < n THEN K ELSE 0
           ends == {m \in 1 .. Len(w) : w[m] < K \/ m = VarBytes}
<1>1. /\ n \in 1 .. VarBytes /\ v < K ^ n /\ VarBytes \in Nat /\ v \in Nat
      /\ K \in Nat \ {0} /\ Modulus \in Nat \ {0} /\ FixBytes \in Nat
  BY VarLenFits, ByteFacts
<1>2. s \in Seq(Byte) /\ Len(w) \in Nat /\ Len(s) \in Nat
  BY WriteVarintBytes, LenProperties
<1>3. s = [i \in 1 .. n |-> digit(i) + mark(i)]
  BY DEF writeVarint
<1> HIDE DEF n
<1>4. Len(s) = n /\ \A i \in 1 .. n : s[i] = digit(i) + mark(i)
  BY <1>1, <1>2, <1>3
<1>5. \A i \in 1 .. n : digit(i) \in 0 .. K - 1
  <2> SUFFICES ASSUME NEW i \in 1 .. n
               PROVE  digit(i) \in 0 .. K - 1
    OBVIOUS
  <2> DEFINE p == K ^ (i - 1)
  <2>1. p \in Nat \ {0}
    BY <1>1, Powers
  <2> HIDE DEF p
  <2>2. v \div p \in Nat
    BY <1>1, <2>1
  <2>3. (v \div p) % K \in 0 .. K - 1
    BY <1>1, <2>2
  <2>4. QED
    BY <2>3 DEF p
<1> HIDE DEF digit
<1>6. n <= Len(w) /\ \A i \in 1 .. n : w[i] = digit(i) + mark(i)
  BY <1>4 DEF Begins
<1>7. n \in ends
  BY <1>1, <1>2, <1>5, <1>6
<1>8. \A m \in ends : n <= m
  <2> SUFFICES ASSUME NEW m \in ends, m < n
               PROVE  FALSE
    BY <1>1, <1>2
  <2>1. m \in 1 .. n /\ m # VarBytes
    BY <1>1, <1>2
  <2>2. w[m] = digit(m) + K
    BY <1>6, <2>1
  <2>3. digit(m) \in 0 .. K - 1
    BY <1>5, <2>1
  <2>4. ~(w[m] < K)
    BY <1>1, <2>2, <2>3
  <2>5. QED
    BY <2>1, <2>4
<1>9. VarTaken(w) = n
  <2>1. VarTaken(w) = CHOOSE k \in ends : \A m \in ends : k <= m
    BY <1>7 DEF VarTaken
  <2>2. ends \subseteq Nat
    BY <1>2
  <2> HIDE DEF ends
  <2>3. VarTaken(w) \in ends /\ \A m \in ends : VarTaken(w) <= m
    BY <1>7, <1>8, <2>1
  <2>4. VarTaken(w) <= n /\ n <= VarTaken(w)
    BY <1>7, <1>8, <2>3
  <2>5. VarTaken(w) \in Nat /\ n \in Nat
    BY <1>7, <2>2, <2>3
  <2>6. QED
    BY <2>4, <2>5
<1>10. SubSeq(w, 1, n) = s
  BY <1>2, <1>4, BeginsWith
<1> DEFINE d == [i \in 1 .. Len(s) |-> s[i] % K]
<1>11. Len(d) = n /\ \A i \in 1 .. n : d[i] = digit(i)
  <2>1. \A i \in 1 .. n : s[i] % K = digit(i)
    <3> SUFFICES ASSUME NEW i \in 1 .. n
                 PROVE  s[i] % K = digit(i)
      OBVIOUS
    <3>1. digit(i) \in 0 .. K - 1
      BY <1>5
    <3>2. \A x \in 0 .. K - 1 : x % K = x /\ (x + K) % K = x
      BY <1>1
    <3>3. s[i] = digit(i) + mark(i)
      BY <1>4
    <3>4. CASE i < n
      BY <3>1, <3>2, <3>3, <3>4
    <3>5. CASE ~(i < n)
      <4>1. s[i] = digit(i)
        BY <3>1, <3>3, <3>5
      <4>2. QED
        BY <3>1, <3>2, <4>1
    <3>6. QED
      BY <3>4, <3>5
  <2>2. QED
    BY <1>1, <1>4, <2>1
<1>12. readVarint(s) = DigitSum(d, K) % Modulus
  BY DEF readVarint
<1> HIDE DEF d
<1>13. DigitSum(d, K) = v
  <2>1. n \in 0 .. VarBytes + FixBytes /\ K \in {K, Radix}
    BY <1>1
  <2>2. \A i \in 1 .. n : d[i] = (v \div K ^ (i - 1)) % K
    BY <1>11 DEF digit
  <2>3. QED
    BY <1>1, <1>11, <2>1, <2>2, DigitsRead
<1>14. v % Modulus = v
  BY <1>1
<1>15. QED
  BY <1>4, <1>9, <1>10, <1>12, <1>13, <1>14

LEMMA ReadStringBack ==
    ASSUME NEW w \in Seq(Cells), NEW s \in Seq(Byte), NEW t \in Seq(Byte), Begins(w, s \o t),
           NEW o, o = readString(w, Len(s), Len(t))
    PROVE  o.value = t /\ o.taken = Len(s \o t) /\ ~o.throws
<1>1. Len(s) \in Nat /\ Len(t) \in Nat /\ Len(w) \in Nat
  BY LenProperties
<1>2. /\ Len(s \o t) = Len(s) + Len(t) /\ Len(s) + Len(t) <= Len(w)
      /\ SubSeq(w, Len(s) + 1, Len(s) + Len(t)) = t
  BY BeginsWithBoth
<1>3. ~(Len(t) > Len(w) - Len(s))
  BY <1>1, <1>2
<1>4. o = Outcome(Len(s) + Len(t), FALSE, t, IF Len(t) = 0 THEN Len(s) ELSE -1)
  BY <1>2, <1>3 DEF readString
<1>5. o.value = t /\ o.taken = Len(s) + Len(t) /\ o.throws = FALSE
  BY <1>4 DEF Outcome
<1>6. QED
  BY <1>2, <1>5

(* Reading what has been written of a kind gives the value, takes its      *)
(* bytes and does not throw, whatever is behind it.                        *)
LEMMA DecodeEncode ==
    ASSUME NEW kind \in Kinds \ {"raw"}, NEW v \in Inputs[kind], NEW e, NEW s,
           s = Encode(kind, v, e), NEW w \in Seq(Cells), Begins(w, s),
           NEW o, o = Decode(kind, w, e)
    PROVE  o.value = v /\ o.taken = Len(s) /\ ~o.throws
<1> DEFINE range == Radix ^ FixBytes
<1>1. range \in Nat \ {0} /\ Modulus \in Nat \ {0} /\ FixBytes \in Nat \ {0}
  BY ByteFacts, Powers
<1>a. Len(w) \in Nat
  BY LenProperties
(* A fixed integer in front. *)
<1>2. ASSUME NEW x \in Int, NEW t, t = writeFixed(e, x), Begins(w, t)
      PROVE  /\ ~(Len(w) < FixBytes) /\ Len(t) = FixBytes /\ t \in Seq(Byte)
             /\ readFixed(e, SubSeq(w, 1, FixBytes)) = x % range
  <2>1. t \in Seq(Byte) /\ Len(t) = FixBytes
    BY <1>2, WriteFixedBytes
  <2>2. SubSeq(w, 1, FixBytes) = t
    BY <1>2, <2>1, BeginsWith
  <2>3. readFixed(e, t) = x % range
    BY <1>2, FixedReadsBack
  <2>4. ~(Len(w) < FixBytes)
    BY <1>1, <1>2, <1>a, <2>1 DEF Begins
  <2>5. QED
    BY <2>1, <2>2, <2>3, <2>4
(* A varint in front. *)
<1>3. ASSUME NEW x \in 0 .. Modulus - 1, NEW t, t = writeVarint(x), Begins(w, t)
      PROVE  /\ VarTaken(w) = Len(t) /\ VarTaken(w) > 0 /\ VarTaken(w) # 0 /\ t \in Seq(Byte)
             /\ readVarint(SubSeq(w, 1, VarTaken(w))) = x
  <2>1. t \in Seq(Byte) /\ Len(t) \in 1 .. VarBytes /\ VarBytes \in Nat
    BY <1>3, WriteVarintBytes, ByteFacts
  <2>2. VarTaken(w) = Len(t) /\ readVarint(SubSeq(w, 1, Len(t))) = x
    BY <1>3, VarintReadsBack
  <2>3. QED
    BY <2>1, <2>2
<1>b. /\ \A x \in 0 .. range - 1 : x % range = x
      /\ range \in Nat
  <2> HIDE DEF range
  <2>1. QED
    BY <1>1
<1>4. CASE kind = "uint"
  <2>1. v \in 0 .. range - 1 /\ v \in Int
    BY <1>1, <1>4, InputAssumption
  <2>2. s = writeFixed(e, v)
    BY <1>4 DEF Encode
  <2>3. /\ ~(Len(w) < FixBytes) /\ Len(s) = FixBytes
        /\ readFixed(e, SubSeq(w, 1, FixBytes)) = v
    BY <1>2, <1>b, <2>1, <2>2
  <2>4. o = Outcome(FixBytes, FALSE, v, -1)
    BY <1>4, <2>3 DEF Decode
  <2>5. QED
    BY <2>3, <2>4 DEF Outcome
<1>5. CASE kind = "int"
  <2>1. v \in Int /\ 2 * v \in -range .. range - 1
    BY <1>5, InputAssumption
  <2>2. s = writeFixed(e, v)
    BY <1>5 DEF Encode
  <2> DEFINE x == v % range
  <2>3. /\ ~(Len(w) < FixBytes) /\ Len(s) = FixBytes
        /\ readFixed(e, SubSeq(w, 1, FixBytes)) = x
    BY <1>2, <2>1, <2>2
  <2>4. Signed(x) = v
    <3> DEFINE r == range
    <3>1. Signed(x) = IF 2 * x >= r THEN x - r ELSE x
      BY DEF Signed
    <3>2. r \in Nat \ {0} /\ 2 * v \in -r .. r - 1 /\ x = v % r
      BY <1>1, <2>1
    <3> HIDE DEF r, x
    <3>3. CASE v >= 0
      <4>1. x = v
        BY <2>1, <3>2, <3>3
      <4>2. QED
        BY <2>1, <3>1, <3>2, <3>3, <4>1
    <3>4. CASE ~(v >= 0)
      <4>1. x = v + r
        <5>1. v + r \in 0 .. r - 1 /\ v = (-1) * r + (v + r)
          BY <2>1, <3>2, <3>4
        <5>2. QED
          BY <2>1, <3>2, <3>4, <5>1
      <4>2. QED
        BY <2>1, <3>1, <3>2, <3>4, <4>1
    <3>5. QED
      BY <2>1, <3>3, <3>4
  <2>5. o = Outcome(FixBytes, FALSE, Signed(readFixed(e, SubSeq(w, 1, FixBytes))), -1)
    BY <1>5, <2>3 DEF Decode
  <2>6. o = Outcome(FixBytes, FALSE, v, -1)
    BY <2>3, <2>4, <2>5
  <2>7. QED
    BY <2>3, <2>6 DEF Outcome
<1>6. CASE kind = "vuint"
  <2>1. v \in 0 .. Modulus - 1
    BY <1>6, InputAssumption
  <2>2. s = writeVarint(v)
    BY <1>6 DEF Encode
  <2>3. /\ VarTaken(w) = Len(s) /\ VarTaken(w) > 0 /\ VarTaken(w) # 0
        /\ readVarint(SubSeq(w, 1, VarTaken(w))) = v
    BY <1>3, <2>1, <2>2
  <2>4. o = Outcome(VarTaken(w), FALSE, v, -1)
    BY <1>6, <2>3 DEF Decode
  <2>5. QED
    BY <2>3, <2>4 DEF Outcome
<1>7. CASE kind = "vint"
  <2>1. v \in Int /\ 2 * v \in -Modulus .. Modulus - 1
    BY <1>7, InputAssumption
  <2> DEFINE z == EncodeZigzag(v)
             y == IF v < 0 THEN (-v) * 2 - 1 ELSE v * 2
  <2>2. y \in 0 .. Modulus - 1
    BY <1>1, <2>1
  <2>3. z = y % Modulus
    BY DEF EncodeZigzag
  <2>4. z = y
    <3> HIDE DEF y, z
    <3>1. QED
      BY <1>1, <2>2, <2>3
  <2>5. DecodeZigzag(y) = v
    <3>1. CASE v < 0
      <4>1. y = 2 * (-v - 1) + 1 /\ -v - 1 \in Nat
        BY <2>1, <3>1
      <4>2. y % 2 = 1 /\ y \div 2 = -v - 1
        BY <4>1
      <4> HIDE DEF y
      <4>3. QED
        BY <2>1, <4>2 DEF DecodeZigzag
    <3>2. CASE ~(v < 0)
      <4>1. y = 2 * v /\ v \in Nat
        BY <2>1, <3>2
      <4>2. y % 2 = 0 /\ y \div 2 = v
        BY <4>1
      <4> HIDE DEF y
      <4>3. QED
        BY <2>1, <4>2 DEF DecodeZigzag
    <3>3. QED
      BY <3>1, <3>2
  <2>6. s = writeVarint(z)
    BY <1>7 DEF Encode
  <2> HIDE DEF y, z
  <2>7. /\ VarTaken(w) = Len(s) /\ VarTaken(w) > 0 /\ VarTaken(w) # 0
        /\ readVarint(SubSeq(w, 1, VarTaken(w))) = y
    BY <1>3, <2>2, <2>4, <2>6
  <2>8. o = Outcome(VarTaken(w), FALSE, DecodeZigzag(y), -1)
    BY <1>7, <2>7 DEF Decode
  <2>9. QED
    BY <2>5, <2>7, <2>8 DEF Outcome
<1>8. CASE kind = "strF"
  <2>1. v \in Seq(Byte) /\ Len(v) < range
    BY <1>8, InputAssumption
  <2>2. Len(v) \in 0 .. range - 1 /\ Len(v) \in Int
    <3>1. Len(v) \in Nat
      BY <2>1, LenProperties
    <3> HIDE DEF range
    <3>2. QED
      BY <1>1, <2>1, <3>1
  <2> DEFINE t == writeFixed(e, Len(v))
  <2>3. s = t \o v
    BY <1>8 DEF Encode
  <2>4. t \in Seq(Byte)
    BY <2>2, WriteFixedBytes
  <2>a. t = writeFixed(e, Len(v))
    OBVIOUS
  <2> HIDE DEF t
  <2>5. Begins(w, t) /\ Begins(w, t \o v)
    BY <2>1, <2>3, <2>4, BeginsWithBoth
  <2>6. /\ ~(Len(w) < FixBytes) /\ Len(t) = FixBytes
        /\ readFixed(e, SubSeq(w, 1, FixBytes)) = Len(v)
    BY <1>2, <1>b, <2>2, <2>5, <2>a
  <2>7. o = readString(w, FixBytes, Len(v))
    BY <1>8, <2>6 DEF Decode
  <2>8. o = readString(w, Len(t), Len(v))
    BY <2>6, <2>7
  <2>9. QED
    BY <2>1, <2>3, <2>4, <2>5, <2>8, ReadStringBack
<1>9. CASE kind = "strV"
  <2>1. v \in Seq(Byte) /\ Len(v) < Modulus
    BY <1>9, InputAssumption
  <2>2. Len(v) \in 0 .. Modulus - 1
    BY <1>1, <2>1, LenProperties
  <2> DEFINE t == writeVarint(Len(v))
  <2>3. s = t \o v
    BY <1>9 DEF Encode
  <2>4. t \in Seq(Byte)
    BY <2>2, WriteVarintBytes
  <2>a. t = writeVarint(Len(v))
    OBVIOUS
  <2> HIDE DEF t
  <2>5. Begins(w, t) /\ Begins(w, t \o v)
    BY <2>1, <2>3, <2>4, BeginsWithBoth
  <2>6. /\ VarTaken(w) = Len(t) /\ VarTaken(w) > 0 /\ VarTaken(w) # 0
        /\ readVarint(SubSeq(w, 1, VarTaken(w))) = Len(v)
    BY <1>3, <2>2, <2>5, <2>a
  <2>7. o = readString(w, VarTaken(w), Len(v))
    BY <1>9, <2>6 DEF Decode
  <2>8. o = readString(w, Len(t), Len(v))
    BY <2>6, <2>7
  <2>9. QED
    BY <2>1, <2>3, <2>4, <2>5, <2>8, ReadStringBack
<1>10. QED
  BY <1>4, <1>5, <1>6, <1>7, <1>8, <1>9 DEF Kinds

-----------------------------------------------------------------------------
(* The operations *)

(* What a loop from the position over n unread bytes finds. *)
LEMMA BytesAtPosition ==
    ASSUME NEW b, IsArray(b), NEW n \in 0 .. getReadSize(b),
           NEW s, s = BytesFrom(b, b.m_cur, b.m_position, n)
    PROVE  /\ s \in Seq(Cells) /\ Len(s) = n
           /\ \A i \in 1 .. n : s[i] = b.mem[b.m_position + i - 1]
           /\ \A i \in 1 .. n : b.m_position + i - 1 \in 0 .. b.m_size - 1
<1>1. /\ b.m_position \in Nat /\ b.m_size \in Nat /\ b.m_capacity \in Nat /\ n \in Nat
      /\ b.m_position + n <= b.m_size /\ b.m_size <= b.m_capacity
  BY DEF IsArray, Shaped, getReadSize
<1> DEFINE a == Start(b.m_cur, b.m_position)
<1>2. s = [i \in 1 .. n |-> b.mem[a + i - 1]]
  BY DEF BytesFrom
<1>3. n > 0 => a = b.m_position
  BY <1>1, StartAtPosition DEF IsArray
<1> HIDE DEF a
<1>4. \A i \in 1 .. n : b.m_position + i - 1 \in 0 .. b.m_size - 1
  BY <1>1
<1>5. \A j \in 0 .. b.m_size - 1 : b.mem[j] \in Cells
  BY <1>1 DEF IsArray, Shaped
<1>6. \A i \in 1 .. n : s[i] = b.mem[b.m_position + i - 1]
  BY <1>1, <1>2, <1>3
<1>7. \A i \in 1 .. n : s[i] \in Cells
  BY <1>4, <1>5, <1>6
<1>8. s \in [1 .. n -> Cells]
  BY <1>2, <1>7
<1>9. n \in Nat
  BY <1>1
<1>10. s \in Seq(Cells) /\ Len(s) = n
  BY <1>8, <1>9
<1>11. QED
  BY <1>4, <1>6, <1>10

LEMMA ReadingsBytes ==
    ASSUME IsArray(ba), NEW w \in Readings
    PROVE  /\ w \in Seq(Byte) /\ Len(w) = getReadSize(ba) /\ Len(w) \in Nat
           /\ \A i \in 1 .. Len(w) : /\ ba.mem[ba.m_position + i - 1] \in {w[i], Unknown}
                                     /\ ba.m_position + i - 1 \in 0 .. ba.m_size - 1
<1> DEFINE n == getReadSize(ba)
           s == BytesFrom(ba, ba.m_cur, ba.m_position, n)
           u == {i \in 1 .. Len(s) : s[i] = Unknown}
<1>1. n \in Nat
  BY DEF getReadSize, IsArray, Shaped
<1>2. PICK g \in [u -> Garbage] : w = [i \in 1 .. Len(s) |-> IF i \in u THEN g[i] ELSE s[i]]
  BY DEF Readings
<1>3. /\ s \in Seq(Cells) /\ Len(s) = n
      /\ \A i \in 1 .. n : s[i] = ba.mem[ba.m_position + i - 1]
      /\ \A i \in 1 .. n : ba.m_position + i - 1 \in 0 .. ba.m_size - 1
  BY <1>1, BytesAtPosition
<1> HIDE DEF n, s
<1>4. \A i \in 1 .. n : s[i] \in Cells
  BY <1>3, ElementOfSeq
<1>5. \A i \in 1 .. n : w[i] \in Byte /\ s[i] \in {w[i], Unknown}
  BY <1>2, <1>3, <1>4, ByteArrayAssumption DEF Cells
<1>6. w \in [1 .. n -> Byte]
  BY <1>2, <1>3, <1>5
<1>7. w \in Seq(Byte) /\ Len(w) = n
  BY <1>1, <1>6
<1>8. QED
  BY <1>1, <1>3, <1>5, <1>7 DEF n

(* The bytes that are behind the position once n have been taken. *)
LEMMA PrefixBytes ==
    ASSUME NEW S, NEW w \in Seq(S), NEW n \in 0 .. Len(w), NEW t, t = SubSeq(w, 1, n)
    PROVE  t \in Seq(S) /\ Len(t) = n /\ \A i \in 1 .. n : t[i] = w[i]
<1>1. Len(w) \in Nat /\ n \in Nat
  BY LenProperties
<1>2. \A i \in 1 .. n : w[i] \in S
  BY <1>1, ElementOfSeq
<1>3. t = [i \in 1 .. n |-> w[i]]
  BY <1>1
<1>4. QED
  BY <1>1, <1>2, <1>3

(* readFromFile() writes the file, whatever pieces it comes in. *)
LEMMA ReadFromFileShape ==
    ASSUME IsArray(ba), NEW s \in Seq(Byte), NEW d, d = readFromFile(s)
    PROVE  /\ IsArray(d)
           /\ d.m_position = ba.m_position + Len(s) /\ d.m_endian = ba.m_endian
           /\ d.m_size = IF d.m_position > ba.m_size THEN d.m_position ELSE ba.m_size
           /\ d.m_capacity >= ba.m_capacity
           /\ \A i \in 0 .. ba.m_capacity - 1 : i \notin ba.m_position .. d.m_position - 1
                  => d.mem[i] = ba.mem[i]
           /\ \A i \in 1 .. Len(s) : d.mem[ba.m_position + i - 1] = s[i]
<1> DEFINE whole == Len(s) \div BaseSize
           piece(i) == SubSeq(s, i * BaseSize + 1,
                              IF i < whole THEN (i + 1) * BaseSize ELSE Len(s))
           copied[i \in 0 .. whole + 1] ==
               IF i = 0 THEN ba ELSE write(copied[i - 1], piece(i - 1))
           At(f, i) == IF i = 0 THEN ba ELSE write(f[i - 1], piece(i - 1))
           Fun(n) == \E f : f = [i \in 0 .. n |-> At(f, i)]
<1>1. Len(s) \in Nat /\ whole \in Nat /\ whole * BaseSize <= Len(s)
  <2>1. Len(s) \in Nat
    BY LenProperties
  <2>2. /\ whole \in Nat /\ Len(s) % BaseSize \in 0 .. BaseSize - 1
        /\ whole * BaseSize + (Len(s) % BaseSize) = Len(s)
    BY <2>1, DivMod
  <2> HIDE DEF whole
  <2>3. QED
    BY <2>1, <2>2, ByteArrayAssumption
<1>2. d = copied[whole + 1]
  BY DEF readFromFile
<1> HIDE DEF whole, piece
<1>3. \A n \in Nat : Fun(n)
  <2> SUFFICES ASSUME {n \in Nat : ~Fun(n)} # {}
               PROVE  FALSE
    OBVIOUS
  <2>1. PICK n \in {m \in Nat : ~Fun(m)} : \A m \in {l \in Nat : ~Fun(l)} \ {n} : n < m
    <3> HIDE DEF Fun
    <3>1. QED
      BY LeastNat
  <2>2. n \in Nat /\ ~Fun(n)
    OBVIOUS
  <2>3. CASE n = 0
    <3> DEFINE f == [i \in 0 .. 0 |-> ba]
    <3>1. f = [i \in 0 .. n |-> At(f, i)]
      BY <2>3
    <3>2. QED
      BY <2>2, <3>1
  <2>4. CASE n # 0
    <3>1. n - 1 \in Nat /\ ~(n < n - 1) /\ n - 1 # n
      BY <2>2, <2>4
    <3>2. Fun(n - 1)
      <4> HIDE DEF Fun
      <4>1. QED
        BY <2>1, <3>1
    <3>3. PICK f : f = [i \in 0 .. n - 1 |-> At(f, i)]
      BY <3>2
    <3> DEFINE g == [i \in 0 .. n |-> At(f, i)]
    <3>4. \A i \in 0 .. n : At(g, i) = At(f, i)
      <4>1. \A i \in 0 .. n - 1 : f[i] = At(f, i) /\ g[i] = At(f, i)
        BY <2>2, <3>3
      <4> HIDE DEF g
      <4>2. \A i \in 0 .. n : i # 0 => i - 1 \in 0 .. n - 1
        BY <2>2
      <4>3. QED
        BY <4>1, <4>2
    <3>5. g = [i \in 0 .. n |-> At(g, i)]
      BY <3>4
    <3>6. QED
      BY <2>2, <3>5
  <2>5. QED
    BY <2>3, <2>4
<1>4. PICK f : f = [i \in 0 .. whole + 1 |-> At(f, i)]
  <2>1. Fun(whole + 1)
    <3>1. whole + 1 \in Nat
      BY <1>1
    <3> HIDE DEF Fun
    <3>2. QED
      BY <1>3, <3>1
  <2>2. QED
    BY <2>1
<1>5. copied = [i \in 0 .. whole + 1 |->
                    IF i = 0 THEN ba ELSE write(copied[i - 1], piece(i - 1))]
  BY <1>4, Zenon
<1> HIDE DEF copied
(* What has been copied before piece i ends where it begins. *)
<1> DEFINE upto(i) == IF i <= whole THEN i * BaseSize ELSE Len(s)
           Ok(i) ==
              /\ IsArray(copied[i])
              /\ copied[i].m_position = ba.m_position + upto(i)
              /\ copied[i].m_endian = ba.m_endian
              /\ copied[i].m_size = IF copied[i].m_position > ba.m_size
                                    THEN copied[i].m_position ELSE ba.m_size
              /\ copied[i].m_capacity >= ba.m_capacity
              /\ \A j \in 0 .. ba.m_capacity - 1 :
                     j \notin ba.m_position .. copied[i].m_position - 1
                         => copied[i].mem[j] = ba.mem[j]
              /\ \A j \in 1 .. upto(i) : copied[i].mem[ba.m_position + j - 1] = s[j]
<1>6. \A i \in 0 .. whole :
          /\ piece(i) \in Seq(Byte) /\ upto(i) \in Nat /\ upto(i + 1) \in Nat
          /\ Len(piece(i)) = upto(i + 1) - upto(i) /\ upto(i + 1) >= upto(i)
          /\ \A j \in 1 .. Len(piece(i)) : piece(i)[j] = s[upto(i) + j]
  <2> SUFFICES ASSUME NEW i \in 0 .. whole
               PROVE  /\ piece(i) \in Seq(Byte) /\ upto(i) \in Nat /\ upto(i + 1) \in Nat
                      /\ Len(piece(i)) = upto(i + 1) - upto(i) /\ upto(i + 1) >= upto(i)
                      /\ \A j \in 1 .. Len(piece(i)) : piece(i)[j] = s[upto(i) + j]
    OBVIOUS
  <2>1. i * BaseSize \in Nat /\ (i + 1) * BaseSize = i * BaseSize + BaseSize /\ BaseSize \in Nat
    BY <1>1, ByteArrayAssumption
  <2>2. i * BaseSize <= whole * BaseSize /\ (i < whole => (i + 1) * BaseSize <= whole * BaseSize)
    BY <1>1, ByteArrayAssumption
  <2> DEFINE l == i * BaseSize
             r == IF i < whole THEN l + BaseSize ELSE Len(s)
  <2>a. i <= whole /\ (i + 1 <= whole <=> i < whole)
    BY <1>1
  <2>b. piece(i) = SubSeq(s, l + 1, r)
    BY <2>1 DEF piece
  <2>c. upto(i) = l /\ upto(i + 1) = r
    BY <2>1, <2>a
  <2>3. upto(i) = l /\ upto(i + 1) = r /\ piece(i) = SubSeq(s, l + 1, r)
    BY <2>b, <2>c
  <2>4. l \in Nat /\ r \in Nat /\ l <= r /\ r <= Len(s)
    <3> DEFINE end == whole * BaseSize
    <3> HIDE DEF l
    <3>1. l \in Nat /\ l <= end /\ (i < whole => l + BaseSize <= end) /\ end <= Len(s)
      BY <1>1, <2>1, <2>2 DEF l
    <3>a. end \in Nat
      BY <1>1, ByteArrayAssumption
    <3> HIDE DEF end
    <3>2. QED
      BY <1>1, <3>1, <3>a, ByteArrayAssumption
  <2> HIDE DEF l, r, upto, piece
  <2>5. \A j \in l + 1 .. r : s[j] \in Byte
    BY <1>1, <2>4, ElementOfSeq
  <2>6. piece(i) = [j \in 1 .. r - l |-> s[l + j]]
    BY <1>1, <2>3, <2>4
  <2>7. \A j \in 1 .. r - l : s[l + j] \in Byte
    BY <2>4, <2>5
  <2>8. piece(i) \in Seq(Byte) /\ Len(piece(i)) = r - l
    BY <2>4, <2>6, <2>7
  <2>9. \A j \in 1 .. Len(piece(i)) : piece(i)[j] = s[l + j]
    BY <2>6, <2>8
  <2>10. QED
    BY <2>3, <2>4, <2>8, <2>9
<1>7. upto(0) = 0 /\ upto(whole + 1) = Len(s)
  BY <1>1, ByteArrayAssumption
<1> HIDE DEF upto
<1>8. Ok(0)
  <2>1. copied[0] = ba
    BY <1>1, <1>5
  <2>2. QED
    BY <1>7, <2>1 DEF IsArray, Shaped
<1>9. \A i \in 0 .. whole : Ok(i) => Ok(i + 1)
  <2> SUFFICES ASSUME NEW i \in 0 .. whole, Ok(i)
               PROVE  Ok(i + 1)
    OBVIOUS
  <2> DEFINE b == copied[i]
             c == copied[i + 1]
             t == piece(i)
  <2>1. c = write(b, t)
    <3> DEFINE k == i + 1
    <3>1. k \in 0 .. whole + 1 /\ k # 0 /\ k - 1 = i
      BY <1>1
    <3> HIDE DEF k
    <3>2. copied[k] = write(copied[k - 1], piece(k - 1))
      <4>1. copied[k] = IF k = 0 THEN ba ELSE write(copied[k - 1], piece(k - 1))
        BY <1>5, <3>1, Zenon
      <4>2. QED
        BY <3>1, <4>1, Zenon
    <3>3. copied[k] = write(copied[i], piece(i))
      BY <3>1, <3>2, Zenon
    <3>4. QED
      BY <3>3 DEF k
  <2>2. IsArray(b) /\ t \in Seq(Byte) /\ Len(t) \in Nat
    BY <1>6, LenProperties
  <2> HIDE DEF b, c, t
  <2>3. /\ IsArray(c)
        /\ c.m_position = b.m_position + Len(t) /\ c.m_endian = b.m_endian
        /\ c.m_size = IF c.m_position > b.m_size THEN c.m_position ELSE b.m_size
        /\ c.m_capacity >= b.m_capacity
        /\ \A j \in 0 .. b.m_capacity - 1 : j \notin b.m_position .. c.m_position - 1
               => c.mem[j] = b.mem[j]
        /\ \A j \in 1 .. Len(t) : c.mem[b.m_position + j - 1] = t[j]
    BY <2>1, <2>2, WriteShape, ZenonT(60)
  <2>4. /\ b.m_position = ba.m_position + upto(i) /\ b.m_endian = ba.m_endian
        /\ b.m_size = IF b.m_position > ba.m_size THEN b.m_position ELSE ba.m_size
        /\ b.m_capacity >= ba.m_capacity
        /\ \A j \in 0 .. ba.m_capacity - 1 : j \notin ba.m_position .. b.m_position - 1
               => b.mem[j] = ba.mem[j]
        /\ \A j \in 1 .. upto(i) : b.mem[ba.m_position + j - 1] = s[j]
    BY DEF b
  <2>5. /\ upto(i) \in Nat /\ upto(i + 1) \in Nat
        /\ Len(t) = upto(i + 1) - upto(i) /\ upto(i + 1) >= upto(i)
        /\ \A j \in 1 .. Len(t) : t[j] = s[upto(i) + j]
    BY <1>6 DEF t
  <2>6. /\ ba.m_position \in Nat /\ ba.m_size \in Nat /\ ba.m_capacity \in Nat
        /\ b.m_capacity \in Nat /\ c.m_capacity \in Nat /\ b.m_position <= b.m_capacity
    BY <2>2, <2>3 DEF IsArray, Shaped
  <2> HIDE DEF Ok
  <2>7. c.m_position = ba.m_position + upto(i + 1) /\ b.m_position <= c.m_position
    BY <2>3, <2>4, <2>5, <2>6
  <2>8. c.m_size = IF c.m_position > ba.m_size THEN c.m_position ELSE ba.m_size
    BY <2>3, <2>4, <2>5, <2>6, <2>7, SMTT(30)
  <2>9. \A j \in 0 .. ba.m_capacity - 1 : j \notin ba.m_position .. c.m_position - 1
               => c.mem[j] = ba.mem[j]
    <3> SUFFICES ASSUME NEW j \in 0 .. ba.m_capacity - 1,
                        j \notin ba.m_position .. c.m_position - 1
                 PROVE  c.mem[j] = ba.mem[j]
      OBVIOUS
    <3> DEFINE x == ba.m_position
               y == b.m_position
               z == c.m_position
    <3>d. x \in Nat /\ y = x + upto(i) /\ z = x + upto(i + 1) /\ y <= z
      BY <2>4, <2>6, <2>7
    <3>e. j \notin x .. z - 1
      OBVIOUS
    <3>f. upto(i) \in Nat /\ upto(i + 1) \in Nat
      BY <2>5
    <3>b. j \in 0 .. b.m_capacity - 1
      BY <2>4, <2>6
    <3> HIDE DEF x, y, z
    <3>a. x \in Nat /\ y \in Nat /\ z \in Nat /\ x <= y /\ y <= z
      BY <3>d, <3>f
    <3>c. j \notin x .. y - 1 /\ j \notin y .. z - 1
      BY <3>a, <3>b, <3>e, <2>6
    <3>1. /\ j \in 0 .. b.m_capacity - 1 /\ j \notin ba.m_position .. b.m_position - 1
          /\ j \notin b.m_position .. c.m_position - 1
      BY <3>b, <3>c DEF x, y, z
    <3>2. QED
      BY <2>3, <2>4, <3>1
  <2>10. c.m_endian = ba.m_endian /\ c.m_capacity >= ba.m_capacity
    BY <2>3, <2>4, <2>6
  <2>11. ASSUME NEW j \in 1 .. upto(i + 1)
         PROVE  c.mem[ba.m_position + j - 1] = s[j]
    <3> DEFINE a == ba.m_position + j - 1
               low == upto(i)
               high == upto(i + 1)
    <3>1. /\ low \in Nat /\ high \in Nat /\ Len(t) = high - low /\ j \in 1 .. high
          /\ b.m_position = ba.m_position + low /\ b.m_position \in Nat
      BY <2>4, <2>5, <2>6
    <3>2. CASE j <= low
      <4>1. j \in 1 .. low /\ a \in 0 .. b.m_capacity - 1 /\ a \notin b.m_position .. c.m_position - 1
        <5>1. c.m_position \in Nat
          BY <2>3 DEF IsArray, Shaped
        <5> HIDE DEF low, high
        <5>a. j \in 1 .. low
          BY <3>1, <3>2
        <5>b. low \in Nat /\ ba.m_position \in Nat /\ b.m_position = ba.m_position + low
          BY <2>6, <3>1
        <5>2. j \in 1 .. low /\ a \in Nat /\ a < b.m_position
          BY <5>a, <5>b
        <5> HIDE DEF a
        <5>3. a \in 0 .. b.m_capacity - 1
          BY <2>6, <3>1, <5>2
        <5>4. a \notin b.m_position .. c.m_position - 1
          BY <3>1, <5>1, <5>2
        <5>5. QED
          BY <5>2, <5>3, <5>4
      <4>2. b.mem[a] = s[j]
        BY <2>4, <4>1
      <4> HIDE DEF a
      <4>3. c.mem[a] = s[j]
        BY <2>3, <4>1, <4>2
      <4>4. QED
        BY <4>3 DEF a
    <3>3. CASE ~(j <= low)
      <4> DEFINE k == j - low
      <4>1. k \in 1 .. Len(t) /\ b.m_position + k - 1 = a /\ low + k = j
        <5> HIDE DEF low, high
        <5>1. QED
          BY <2>6, <3>1, <3>3
      <4> HIDE DEF k
      <4>2. c.mem[b.m_position + k - 1] = t[k] /\ t[k] = s[low + k]
        BY <2>3, <2>5, <4>1
      <4>3. QED
        BY <4>1, <4>2
    <3>4. QED
      BY <3>2, <3>3
  <2>12. QED
    BY <2>3, <2>7, <2>8, <2>9, <2>10, <2>11 DEF Ok, c
<1>10. Ok(whole + 1)
  <2> HIDE DEF Ok
  <2> DEFINE bad == {i \in 0 .. whole + 1 : ~Ok(i)}
  <2> SUFFICES ASSUME bad # {}
               PROVE  FALSE
    BY <1>1
  <2>1. bad \subseteq Nat
    BY <1>1
  <2>2. PICK i \in bad : \A j \in bad \ {i} : i < j
    <3> HIDE DEF bad
    <3>1. QED
      BY <2>1, LeastNat
  <2>3. i \in 0 .. whole + 1 /\ ~Ok(i) /\ i # 0
    BY <1>8
  <2>4. i - 1 \in 0 .. whole /\ i - 1 \notin bad /\ i - 1 + 1 = i
    BY <1>1, <2>2, <2>3
  <2>5. Ok(i - 1)
    BY <1>1, <2>4
  <2>6. QED
    BY <1>9, <2>3, <2>4, <2>5
<1>11. QED
  BY <1>2, <1>7, <1>10

-----------------------------------------------------------------------------
(* The steps of the abstract byte store *)

(* The content is the first m_size bytes of the memory. *)
LEMMA ContentOf ==
    ASSUME IsArray(ba)
    PROVE  /\ content \in [0 .. ba.m_size - 1 -> Cells]
           /\ \A i \in 0 .. ba.m_size - 1 : content[i] = ba.mem[i]
           /\ DOMAIN content = 0 .. ba.m_size - 1
           /\ Store!Size(content) = ba.m_size
           /\ ba.m_size \in Nat /\ ba.m_position \in 0 .. ba.m_size
           /\ ba.m_size <= ba.m_capacity /\ ba.m_capacity \in Nat
<1>1. /\ ba.m_size \in Nat /\ ba.m_position \in 0 .. ba.m_size
      /\ ba.m_size <= ba.m_capacity /\ ba.m_capacity \in Nat
  BY DEF IsArray, Shaped
<1>2. \A i \in 0 .. ba.m_size - 1 : ba.mem[i] \in Cells
  BY <1>1 DEF IsArray, Shaped
<1>3. /\ content \in [0 .. ba.m_size - 1 -> Cells]
      /\ \A i \in 0 .. ba.m_size - 1 : content[i] = ba.mem[i]
      /\ DOMAIN content = 0 .. ba.m_size - 1
  BY <1>2 DEF content
<1>4. Store!Size(content) = ba.m_size
  <2>1. Store!Size(content) = Cardinality(0 .. ba.m_size - 1)
    <3> HIDE DEF content
    <3>1. Store!Size(content) = Cardinality(DOMAIN content)
      BY Zenon DEF Store!Size, Store!Cardinality, Cardinality
    <3>2. QED
      BY <1>3, <3>1
  <2>2. QED
    BY <1>1, <2>1, IntervalSize
<1>5. QED
  BY <1>1, <1>3, <1>4

LEMMA ContentAfter ==
    ASSUME IsArray(ba')
    PROVE  /\ content' \in [0 .. ba'.m_size - 1 -> Cells]
           /\ \A i \in 0 .. ba'.m_size - 1 : content'[i] = ba'.mem[i]
<1>1. /\ ba'.m_size \in Nat /\ ba'.m_size <= ba'.m_capacity /\ ba'.m_capacity \in Nat
  BY DEF IsArray, Shaped
<1>2. \A i \in 0 .. ba'.m_size - 1 : ba'.mem[i] \in Cells
  BY <1>1 DEF IsArray, Shaped
<1>3. QED
  BY <1>2 DEF content

LEMMA WriteStep ==
    ASSUME IsArray(ba), IsArray(ba'), NEW n \in 0 .. MaxSize,
           ba'.m_position = ba.m_position + n,
           ba'.m_size = IF ba'.m_position > ba.m_size THEN ba'.m_position ELSE ba.m_size,
           \A i \in 0 .. ba.m_capacity - 1 : i \notin ba.m_position .. ba'.m_position - 1
               => ba'.mem[i] = ba.mem[i],
           ret' = <<>>
    PROVE  Store!Next
<1>1. \A i \in 0 .. ba.m_size - 1 :
          i \notin ba.m_position .. ba.m_position + n - 1 => content'[i] = content[i]
  <2> SUFFICES ASSUME NEW i \in 0 .. ba.m_size - 1,
                      i \notin ba.m_position .. ba.m_position + n - 1
               PROVE  content'[i] = content[i]
    OBVIOUS
  <2>1. i \in 0 .. ba.m_capacity - 1 /\ i \in 0 .. ba'.m_size - 1
    BY ContentOf, ByteArrayAssumption
  <2>2. ba'.mem[i] = ba.mem[i]
    <3>1. i \notin ba.m_position .. ba'.m_position - 1
      BY ContentOf
    <3>2. QED
      BY <2>1, <3>1
  <2>3. QED
    BY <2>1, <2>2, ContentOf, ContentAfter
<1>2. content' \in [0 .. ba'.m_size - 1 -> Cells] /\ Cells = Store!Cells
  BY ContentAfter DEF Cells, Store!Cells
<1>3. ba'.m_size = Store!Bigger(ba.m_position + n, Store!Size(content))
  BY ContentOf DEF Store!Bigger
<1>4. Store!Write(n)
  BY <1>1, <1>2, <1>3, ContentOf DEF Store!Write
<1>5. QED
  BY <1>4 DEF Store!Next

LEMMA SeekStep ==
    ASSUME IsArray(ba), IsArray(ba'), NEW v \in 0 .. MaxSize,
           ba'.m_position = v,
           ba'.m_size = IF v > ba.m_size THEN v ELSE ba.m_size,
           \A i \in 0 .. ba.m_size - 1 : ba'.mem[i] = ba.mem[i],
           ret' = <<>>
    PROVE  Store!Next
<1>1. \A i \in 0 .. ba.m_size - 1 : content'[i] = content[i]
  <2> SUFFICES ASSUME NEW i \in 0 .. ba.m_size - 1
               PROVE  content'[i] = content[i]
    OBVIOUS
  <2>1. i \in 0 .. ba'.m_size - 1
    BY ContentOf, ByteArrayAssumption
  <2>2. QED
    BY <2>1, ContentOf, ContentAfter
<1>2. content' \in [0 .. ba'.m_size - 1 -> Cells] /\ Cells = Store!Cells
  BY ContentAfter DEF Cells, Store!Cells
<1>3. ba'.m_size = Store!Bigger(v, Store!Size(content))
  BY ContentOf DEF Store!Bigger
<1>4. Store!Seek(v)
  BY <1>1, <1>2, <1>3, ContentOf DEF Store!Seek
<1>5. QED
  BY <1>4 DEF Store!Next

LEMMA ReadStep ==
    ASSUME IsArray(ba), IsArray(ba'), NEW n \in 0 .. MaxSize,
           ba.m_position + n <= ba.m_size,
           ba'.m_position = ba.m_position + n, ba'.m_size = ba.m_size,
           \A i \in 0 .. ba.m_size - 1 : ba'.mem[i] = ba.mem[i],
           ret' \in Seq(Byte), Len(ret') = n,
           \A i \in 1 .. n : ba.mem[ba.m_position + i - 1] \in {ret'[i], Unknown}
    PROVE  Store!Next
<1>1. content' = content
  BY DEF content
<1>2. ret' \in [1 .. n -> Byte]
  BY DEF Store!Read
<1>3. \A i \in 1 .. n : content[ba.m_position + i - 1] \in {ret'[i], Unknown}
  <2> SUFFICES ASSUME NEW i \in 1 .. n
               PROVE  content[ba.m_position + i - 1] \in {ret'[i], Unknown}
    OBVIOUS
  <2>1. ba.m_position + i - 1 \in 0 .. ba.m_size - 1
    BY ContentOf, ByteArrayAssumption
  <2>2. QED
    BY <2>1, ContentOf
<1>4. Store!Read(n)
  BY <1>1, <1>2, <1>3, ContentOf DEF Store!Read
<1>5. QED
  BY <1>4 DEF Store!Next

(* An operation that takes no bytes and leaves the content and the position. *)
LEMMA IdleStep ==
    ASSUME IsArray(ba), IsArray(ba'),
           ba'.m_position = ba.m_position, ba'.m_size = ba.m_size,
           \A i \in 0 .. ba.m_size - 1 : ba'.mem[i] = ba.mem[i],
           ret' = <<>>
    PROVE  Store!Next
<1>1. 0 \in 0 .. MaxSize /\ ba.m_position + 0 = ba.m_position /\ ba.m_position + 0 <= ba.m_size
  BY ContentOf, ByteArrayAssumption
<1>2. ret' \in Seq(Byte) /\ Len(ret') = 0
  OBVIOUS
<1>3. \A i \in 1 .. 0 : ba.mem[ba.m_position + i - 1] \in {ret'[i], Unknown}
  OBVIOUS
<1>4. QED
  BY <1>1, <1>2, <1>3, ReadStep

-----------------------------------------------------------------------------
(* The operations of the array *)

(* A byte array between two operations.  The bound on its size is the one  *)
(* of the model's inputs.                                                  *)
ByteInv ==
    /\ IsArray(ba) /\ ba.m_size <= MaxSize
    /\ ret \in Seq(Byte) /\ threw \in BOOLEAN /\ fault \in BOOLEAN
    /\ FaultOnlyOnEmptyRead

LEMMA ByteInit == Init => ByteInv /\ Store!Init
<1> SUFFICES ASSUME Init
             PROVE  ByteInv /\ Store!Init
  OBVIOUS
<1>1. IsArray(ba) /\ ba.m_size = 0 /\ ba.m_position = 0
  BY NewShape DEF Init, ByteArrayOf
<1>2. ByteInv
  <2>1. ret \in Seq(Byte) /\ ba.m_size <= MaxSize
    BY <1>1, ByteArrayAssumption DEF Init
  <2>2. threw \in BOOLEAN /\ fault \in BOOLEAN /\ ~fault
    BY Zenon DEF Init
  <2>3. QED
    BY <1>1, <2>1, <2>2, Zenon DEF ByteInv, FaultOnlyOnEmptyRead
<1>3. content = <<>>
  BY <1>1 DEF content
<1>4. QED
  BY <1>1, <1>2, <1>3 DEF Store!Init, Init

(* An array with the bytes s more at the position. *)
LEMMA PutKeeps ==
    ASSUME ByteInv, NEW kind, NEW v, NEW s \in Seq(Byte), NEW b, Put(b, kind, v, s),
           IsArray(b),
           b.m_position = ba.m_position + Len(s),
           b.m_size = IF b.m_position > ba.m_size THEN b.m_position ELSE ba.m_size,
           \A i \in 0 .. ba.m_capacity - 1 : i \notin ba.m_position .. b.m_position - 1
               => b.mem[i] = ba.mem[i]
    PROVE  ByteInv' /\ Store!Next
<1>1. Len(s) \in Nat /\ IsArray(ba) /\ ba.m_size <= MaxSize
  BY LenProperties DEF ByteInv
<1>2. ba' = b /\ ret' = <<>> /\ threw' = FALSE /\ ba.m_position + Len(s) <= MaxSize
  BY DEF Put
<1>3. fault' = FALSE
  BY <1>1, WriteShape DEF Put
<1>4. b.m_size <= MaxSize
  BY <1>1, <1>2
<1>5. ByteInv'
  <2>1. ret' \in Seq(Byte) /\ ba'.m_size <= MaxSize /\ IsArray(ba')
    BY <1>2, <1>4
  <2>2. threw' \in BOOLEAN /\ fault' \in BOOLEAN /\ ~fault'
    BY <1>2, <1>3, Zenon
  <2>3. QED
    BY <2>1, <2>2, Zenon DEF ByteInv, FaultOnlyOnEmptyRead
<1>6. Len(s) \in 0 .. MaxSize
  BY <1>1, <1>2, ContentOf, ByteArrayAssumption
<1>7. Store!Next
  BY <1>1, <1>2, <1>6, WriteStep
<1>8. QED
  BY <1>5, <1>7

(* Reading: the bytes s, a prefix of what can be read, are taken. *)
LEMMA TakeKeeps ==
    ASSUME ByteInv, NEW w \in Readings, NEW n \in 0 .. Len(w),
           NEW throws \in BOOLEAN, NEW none, Take(SubSeq(w, 1, n), throws, none),
           none = -1 \/ (none = n /\ ~throws)
    PROVE  ByteInv' /\ Store!Next /\ ba'.m_size = ba.m_size /\ ba'.mem = ba.mem
<1> DEFINE s == SubSeq(w, 1, n)
<1>1. IsArray(ba) /\ ba.m_size <= MaxSize
  BY DEF ByteInv
<1>2. /\ w \in Seq(Byte) /\ Len(w) = getReadSize(ba) /\ Len(w) \in Nat
      /\ \A i \in 1 .. Len(w) : ba.mem[ba.m_position + i - 1] \in {w[i], Unknown}
  BY <1>1, ReadingsBytes
<1>3. s \in Seq(Byte) /\ Len(s) = n /\ n \in Nat /\ \A i \in 1 .. n : s[i] = w[i]
  BY <1>2, PrefixBytes
<1>4. /\ ba.m_position + n <= ba.m_size /\ ba.m_position + n <= ba.m_capacity
      /\ ba.m_position \in Nat /\ ba.m_size \in Nat /\ ba.m_capacity \in Nat
  BY <1>1, <1>2, <1>3, ContentOf DEF getReadSize
<1>5. /\ ba' = IF s = <<>> THEN ba ELSE Advanced(ba, Len(s))
      /\ ret' = s /\ threw' = throws
  BY DEF Take
<1>6. \/ fault' = FALSE
      \/ /\ none # -1 /\ fault' = TRUE
         /\ (IF none = 0 THEN ba.m_cur
             ELSE NodeAt(ba, Start(ba.m_cur, ba.m_position) + none)) = NULL
  BY DEF Take
<1> HIDE DEF s
<1>7. /\ IsArray(ba') /\ ba'.m_position = ba.m_position + n /\ ba'.m_size = ba.m_size
      /\ ba'.m_capacity = ba.m_capacity /\ ba'.mem = ba.mem
  <2>1. CASE n = 0
    <3>1. s = <<>>
      BY <1>3, <2>1, EmptySeq
    <3>2. QED
      BY <1>1, <1>4, <1>5, <2>1, <3>1
  <2>2. CASE n # 0
    <3>1. s # <<>>
      BY <1>3, <2>2
    <3>2. ba' = Advanced(ba, n) /\ n \in Nat \ {0} /\ Shaped(ba)
      BY <1>1, <1>3, <1>5, <2>2, <3>1 DEF IsArray
    <3>3. /\ Shaped(ba') /\ ba'.m_position = ba.m_position + n /\ ba'.m_size = ba.m_size
          /\ ba'.m_capacity = ba.m_capacity /\ ba'.mem = ba.mem
      BY <1>4, <3>2, AdvancedShape
    <3>4. QED
      BY <1>4, <3>3 DEF IsArray
  <2>3. QED
    BY <2>1, <2>2
<1>8. fault' => ba'.m_position = ba'.m_capacity /\ ~threw'
  <2> SUFFICES ASSUME fault'
               PROVE  ba.m_position + n = ba.m_capacity /\ ~throws
    BY <1>5, <1>7
  <2>1. none = n /\ ~throws
    BY <1>6
  <2>2. CASE n = 0
    <3>1. ba.m_cur = NULL
      BY <1>6, <2>1, <2>2
    <3>2. ba.m_position \div BaseSize \in Nat
      BY <1>4, DivMod
    <3>3. ba.m_position = ba.m_capacity
      BY <1>1, <3>1, <3>2 DEF IsArray, Shaped, NULL
    <3>4. QED
      BY <1>4, <2>1, <2>2, <3>3
  <2>3. CASE n # 0
    <3>1. NodeAt(ba, Start(ba.m_cur, ba.m_position) + n) = NULL
      BY <1>6, <2>1, <2>3
    <3>2. ba.m_position < ba.m_capacity /\ Shaped(ba)
      BY <1>1, <1>3, <1>4, <2>3 DEF IsArray
    <3>3. Start(ba.m_cur, ba.m_position) = ba.m_position
      BY <3>2, StartAtPosition
    <3> DEFINE a == ba.m_position + n
    <3>4. a \in 0 .. ba.m_capacity /\ a \in Nat
      BY <1>3, <1>4
    <3>5. NodeAt(ba, a) = NULL
      BY <3>1, <3>3
    <3> HIDE DEF a
    <3>6. a \div BaseSize \in Nat
      BY <3>4, DivMod
    <3>7. a = ba.m_capacity
      BY <3>2, <3>4, <3>5, <3>6, NodesOf DEF NULL
    <3>8. QED
      BY <2>1, <3>7 DEF a
  <2>4. QED
    BY <2>2, <2>3
<1>9. fault' \in BOOLEAN
  BY <1>6
<1>10. ByteInv'
  BY <1>1, <1>3, <1>5, <1>7, <1>8, <1>9 DEF ByteInv, FaultOnlyOnEmptyRead
<1>11. n \in 0 .. MaxSize
  BY <1>1, <1>3, <1>4, ByteArrayAssumption
<1>12. \A i \in 1 .. n : ba.mem[ba.m_position + i - 1] \in {ret'[i], Unknown}
  BY <1>2, <1>3, <1>5
<1>13. Store!Next
  BY <1>1, <1>3, <1>4, <1>5, <1>7, <1>11, <1>12, ReadStep
<1>14. QED
  BY <1>7, <1>10, <1>13

(* Every operation of the array keeps ByteInv and is a step of the store. *)
LEMMA NextKeeps ==
    ASSUME ByteInv, Next
    PROVE  ByteInv' /\ Store!Next
<1>1. IsArray(ba) /\ Shaped(ba) /\ ba.m_size <= MaxSize /\ fault \in BOOLEAN
  BY DEF ByteInv, IsArray
<1>2. ASSUME NEW kind \in Kinds, NEW v \in Inputs[kind], Write(kind, v)
      PROVE  ByteInv' /\ Store!Next
  <2> DEFINE s == Encode(kind, v, ba.m_endian)
             b == write(ba, s)
  <2>1. s \in Seq(Byte)
    BY EncodeBytes
  <2>2. Put(b, kind, v, s)
    BY <1>2 DEF Write
  <2> HIDE DEF s
  <2>3. /\ IsArray(b)
        /\ b.m_position = ba.m_position + Len(s)
        /\ b.m_size = IF b.m_position > ba.m_size THEN b.m_position ELSE ba.m_size
        /\ \A i \in 0 .. ba.m_capacity - 1 : i \notin ba.m_position .. b.m_position - 1
               => b.mem[i] = ba.mem[i]
    BY <1>1, <2>1, WriteShape
  <2> HIDE DEF b
  <2>4. QED
    BY <2>1, <2>2, <2>3, PutKeeps
<1>3. ASSUME NEW s \in Inputs["raw"], ReadFromFile(s)
      PROVE  ByteInv' /\ Store!Next
  <2> DEFINE b == readFromFile(s)
  <2>1. s \in Seq(Byte)
    BY InputAssumption
  <2>2. Put(b, "raw", s, s)
    BY <1>3 DEF ReadFromFile
  <2>3. /\ IsArray(b)
        /\ b.m_position = ba.m_position + Len(s)
        /\ b.m_size = IF b.m_position > ba.m_size THEN b.m_position ELSE ba.m_size
        /\ \A i \in 0 .. ba.m_capacity - 1 : i \notin ba.m_position .. b.m_position - 1
               => b.mem[i] = ba.mem[i]
    BY <1>1, <2>1, ReadFromFileShape
  <2> HIDE DEF b
  <2>4. QED
    BY <2>1, <2>2, <2>3, PutKeeps
<1>4. ASSUME NEW n \in 0 .. MaxSize, Read(n)
      PROVE  ByteInv' /\ Store!Next
  <2>1. CASE n > getReadSize(ba)
    <3>1. Take(<<>>, TRUE, -1)
      BY <1>4, <2>1 DEF Read
    <3>2. ba' = ba /\ ret' = <<>> /\ threw' = TRUE
      BY <3>1 DEF Take
    <3>3. fault' = FALSE
      BY <3>1 DEF Take
    <3>4. threw' \in BOOLEAN /\ fault' \in BOOLEAN /\ ~fault'
      BY <3>2, <3>3, Zenon
    <3>5. ret' \in Seq(Byte) /\ ba'.m_size <= MaxSize /\ IsArray(ba')
      BY <1>1, <3>2
    <3>6. ByteInv'
      BY <3>4, <3>5, Zenon DEF ByteInv, FaultOnlyOnEmptyRead
    <3>7. Store!Next
      BY <1>1, <3>2, IdleStep
    <3>8. QED
      BY <3>6, <3>7
  <2>2. CASE ~(n > getReadSize(ba))
    <3> DEFINE none == IF n = 0 THEN 0 ELSE -1
    <3>1. PICK w \in Readings : Take(SubSeq(w, 1, n), FALSE, none)
      BY <1>4, <2>2 DEF Read
    <3>2. Len(w) = getReadSize(ba) /\ Len(w) \in Nat
      BY <1>1, ReadingsBytes
    <3>3. n \in 0 .. Len(w)
      BY <2>2, <3>2, ByteArrayAssumption
    <3>4. none = -1 \/ (none = n /\ ~FALSE)
      OBVIOUS
    <3> HIDE DEF none
    <3>5. QED
      BY <3>1, <3>3, <3>4, TakeKeeps
  <2>3. QED
    BY <2>1, <2>2
<1>5. ASSUME NEW kind \in Kinds \ {"raw"}, ReadValue(kind)
      PROVE  ByteInv' /\ Store!Next
  <2>1. PICK w \in Readings :
            LET o == Decode(kind, w, ba.m_endian)
            IN  Take(SubSeq(w, 1, o.taken), o.throws, o.none)
    BY <1>5 DEF ReadValue
  <2> DEFINE o == Decode(kind, w, ba.m_endian)
  <2>2. Take(SubSeq(w, 1, o.taken), o.throws, o.none)
    BY <2>1
  <2>3. w \in Seq(Byte)
    BY <1>1, ReadingsBytes
  <2>4. /\ o.taken \in 0 .. Len(w) /\ o.throws \in BOOLEAN
        /\ o.none = -1 \/ (o.none = o.taken /\ o.taken > 0 /\ ~o.throws)
    BY <2>3, DecodeFits
  <2> HIDE DEF o
  <2>5. QED
    BY <2>2, <2>4, TakeKeeps
<1>6. ASSUME NEW v \in 0 .. MaxSize, SetPosition(v)
      PROVE  ByteInv' /\ Store!Next
  <2>1. ret' = <<>> /\ threw' = (v > ba.m_capacity) /\ fault' = fault /\ ~fault
    BY <1>6 DEF SetPosition
  <2>a. threw' = TRUE \/ threw' = FALSE
    BY <2>1
  <2>2. threw' \in BOOLEAN /\ fault' \in BOOLEAN /\ ~fault'
    BY <1>1, <2>1, <2>a, Zenon
  <2>3. CASE v > ba.m_capacity
    <3>1. ba' = ba
      BY <1>6, <2>3 DEF SetPosition
    <3>2. ret' \in Seq(Byte) /\ ba'.m_size <= MaxSize /\ IsArray(ba')
      BY <1>1, <2>1, <3>1
    <3>3. ByteInv'
      BY <2>2, <3>2, Zenon DEF ByteInv, FaultOnlyOnEmptyRead
    <3>4. Store!Next
      BY <1>1, <2>1, <3>1, IdleStep
    <3>5. QED
      BY <3>3, <3>4
  <2>4. CASE ~(v > ba.m_capacity)
    <3>1. ba' = setPosition(ba, v)
      BY <1>6, <2>4 DEF SetPosition
    <3>2. v \in 0 .. ba.m_capacity
      BY <1>1, <2>4, ByteArrayAssumption DEF Shaped
    <3>3. /\ IsArray(ba') /\ ba'.m_position = v
          /\ ba'.m_size = IF v > ba.m_size THEN v ELSE ba.m_size
          /\ ba'.mem = ba.mem
      BY <1>1, <3>1, <3>2, SetPositionShape
    <3>4. ret' \in Seq(Byte) /\ ba'.m_size <= MaxSize
      BY <1>1, <2>1, <3>3
    <3>5. ByteInv'
      BY <2>2, <3>3, <3>4, Zenon DEF ByteInv, FaultOnlyOnEmptyRead
    <3>6. Store!Next
      BY <1>1, <2>1, <3>3, SeekStep
    <3>7. QED
      BY <3>5, <3>6
  <2>5. QED
    BY <2>3, <2>4
<1>7. ASSUME NEW val \in BOOLEAN, SetIsLittleEndian(val)
      PROVE  ByteInv' /\ Store!Next
  <2> DEFINE e == IF val THEN LITTLE ELSE BIG
  <2>1. /\ ba' = [ba EXCEPT !.m_endian = e] /\ e \in {LITTLE, BIG}
        /\ ret' = <<>> /\ threw' = FALSE /\ fault' = fault /\ ~fault
    BY <1>7 DEF SetIsLittleEndian
  <2>2. threw' \in BOOLEAN /\ fault' \in BOOLEAN /\ ~fault'
    BY <1>1, <2>1, Zenon
  <2> HIDE DEF e
  <2>3. /\ DOMAIN ba' = Members /\ ba'.mem = ba.mem /\ ba'.m_position = ba.m_position
        /\ ba'.m_size = ba.m_size /\ ba'.m_capacity = ba.m_capacity
        /\ ba'.m_cur = ba.m_cur /\ ba'.m_endian = e
    BY <1>1, <2>1 DEF Shaped, Members
  <2>4. IsArray(ba')
    BY <1>1, <2>1, <2>3 DEF IsArray, Shaped
  <2>5. ret' \in Seq(Byte) /\ ba'.m_size <= MaxSize
    BY <1>1, <2>1, <2>3
  <2>6. ByteInv'
    BY <2>2, <2>4, <2>5, Zenon DEF ByteInv, FaultOnlyOnEmptyRead
  <2>7. Store!Next
    BY <1>1, <2>1, <2>3, <2>4, IdleStep
  <2>8. QED
    BY <2>6, <2>7
<1>8. ASSUME Clear
      PROVE  ByteInv' /\ Store!Next
  <2>1. ba' = clear(ba) /\ ret' = <<>> /\ threw' = FALSE /\ fault' = fault /\ ~fault
    BY <1>8 DEF Clear
  <2>2. threw' \in BOOLEAN /\ fault' \in BOOLEAN /\ ~fault'
    BY <1>1, <2>1, Zenon
  <2>3. IsArray(ba') /\ ba'.m_position = 0 /\ ba'.m_size = 0
    BY <1>1, <2>1, ClearShape
  <2>4. ret' \in Seq(Byte) /\ ba'.m_size <= MaxSize
    BY <2>1, <2>3, ByteArrayAssumption
  <2>5. ByteInv'
    BY <2>2, <2>3, <2>4, Zenon DEF ByteInv, FaultOnlyOnEmptyRead
  <2>6. content' = <<>>
    BY <2>3 DEF content
  <2>7. Store!Clear
    BY <2>1, <2>3, <2>6 DEF Store!Clear
  <2>8. QED
    BY <2>5, <2>7 DEF Store!Next
<1>9. QED
  BY <1>2, <1>3, <1>4, <1>5, <1>6, <1>7, <1>8 DEF Next

-----------------------------------------------------------------------------
(* The stream *)

Parts == {"op", "on", "length", "left", "start", "rt", "running"}

(* The call is of its type; while it runs nothing has faulted, and what it *)
(* reads into the array stays within the bound.                            *)
CallInv ==
    /\ DOMAIN call = Parts
    /\ call.op \in {"none", "read", "write"} /\ call.on \in {"ba", "buffer"}
    /\ call.running \in BOOLEAN
    /\ call.length \in Nat /\ call.left \in 0 .. call.length /\ call.start \in Nat
    /\ call.op # "none" => call.length > 0
    /\ call.op = "none" => ~call.running
    /\ call.running => ~fault
    /\ call.running /\ call.on = "ba" /\ call.op = "read"
           => call.start + call.length <= MaxSize

(* The buffer of a call that reads is what it has read; the buffer of a    *)
(* call that writes is the caller's.                                       *)
MovedInv ==
    /\ moved \in Seq(Cells)
    /\ call.op = "read" /\ call.on = "buffer" => buffer = moved
    /\ call.op = "write" /\ call.on = "buffer" =>
           buffer = Source /\ call.length <= Len(Source)
    /\ StreamExact

StreamInv ==
    /\ ByteInv /\ CallInv /\ MovedInv
    /\ inbox \in Seq(Byte) /\ sent \in 0 .. MaxWire

(* A prefix of as many bytes as there are is the whole. *)
LEMMA WholePrefix ==
    ASSUME NEW S, NEW s \in Seq(S)
    PROVE  SubSeq(s, 1, Len(s)) = s
<1>1. Len(s) \in Nat
  BY LenProperties
<1>2. SubSeq(s, 1, Len(s)) = [i \in 1 .. Len(s) |-> s[i]]
  BY <1>1
<1>3. s = [i \in 1 .. Len(s) |-> s[i]]
  OBVIOUS
<1>4. QED
  BY <1>2, <1>3

LEMMA StreamInitial == StreamInit => StreamInv /\ Store!Init
<1> SUFFICES ASSUME StreamInit
             PROVE  StreamInv /\ Store!Init
  OBVIOUS
<1>1. ByteInv /\ Store!Init
  BY ByteInit DEF StreamInit
<1>2. CallInv
  BY DEF StreamInit, CallInv, NoCall, Parts
<1>3. moved = <<>> /\ moved \in Seq(Cells) /\ Len(moved) = 0
  BY DEF StreamInit
<1>4. call.left = 0 /\ call.length = 0 /\ call.op = "none" /\ ~call.running
  BY DEF StreamInit, NoCall
<1>b. call.left = call.length - Len(moved)
  <2>1. Len(moved) = 0
    BY <1>3
  <2>2. QED
    BY <1>4, <2>1
<1>5. StreamExact
  BY <1>4, <1>b, Zenon DEF StreamExact
<1>a. MovedInv
  BY <1>3, <1>4, <1>5 DEF MovedInv
<1>6. inbox \in Seq(Byte) /\ sent \in 0 .. MaxWire
  BY StreamAssumption, ByteFacts DEF StreamInit
<1>7. QED
  BY <1>1, <1>2, <1>a, <1>6 DEF StreamInv

(* Steps that leave the array alone. *)
LEMMA ArrayIdle ==
    ASSUME ByteInv, ~fault, ba' = ba, fault' = fault, ret' = <<>>, threw' = FALSE
    PROVE  ByteInv' /\ Store!Next
<1>1. IsArray(ba) /\ ba.m_size <= MaxSize /\ fault \in BOOLEAN
  BY DEF ByteInv
<1>2. threw' \in BOOLEAN /\ fault' \in BOOLEAN /\ ~fault'
  BY <1>1, Zenon
<1>3. ret' \in Seq(Byte) /\ ba'.m_size <= MaxSize /\ IsArray(ba')
  BY <1>1
<1>4. ByteInv'
  BY <1>2, <1>3, Zenon DEF ByteInv, FaultOnlyOnEmptyRead
<1>5. Store!Next
  BY <1>1, IdleStep
<1>6. QED
  BY <1>4, <1>5

(* A call ends. *)
LEMMA ReturnKeeps ==
    ASSUME CallInv, MovedInv, call.running, NEW rt, Return(rt),
           \/ call.left = 0 /\ rt = call.length
           \/ call.left # 0 /\ rt \in {0, -1}
    PROVE  CallInv' /\ MovedInv'
<1>1. /\ call' = [call EXCEPT !.rt = rt, !.running = FALSE]
      /\ buffer' = buffer /\ moved' = moved
  BY DEF Return
<1>2. /\ DOMAIN call' = Parts /\ call'.op = call.op /\ call'.on = call.on
      /\ call'.length = call.length /\ call'.left = call.left /\ call'.start = call.start
      /\ call'.rt = rt /\ call'.running = FALSE
  BY <1>1 DEF CallInv, Parts
<1>3. CallInv'
  BY <1>2 DEF CallInv
<1>4. Len(moved) \in Nat /\ call.left = call.length - Len(moved) /\ call.op # "none"
  BY LenProperties DEF MovedInv, StreamExact, CallInv
<1>5. call.length \in Nat /\ call.length > 0 /\ call.left \in Nat
  BY <1>4 DEF CallInv
<1>6. (rt = call.length) = (Len(moved) = call.length)
  BY <1>4, <1>5
<1>7. StreamExact'
  BY <1>1, <1>2, <1>4, <1>6 DEF MovedInv, StreamExact
<1>8. MovedInv'
  BY <1>1, <1>2, <1>7 DEF MovedInv
<1>9. QED
  BY <1>3, <1>8

(* A turn moves the bytes s. *)
LEMMA MovesKeeps ==
    ASSUME CallInv, MovedInv, call.running, NEW s \in Seq(Cells), Moves(s),
           Len(s) <= call.left, fault' = FALSE
    PROVE  /\ CallInv'
           /\ call'.op = call.op /\ call'.on = call.on /\ call'.length = call.length
           /\ call'.start = call.start /\ call'.running = call.running
           /\ call'.left = call.left - Len(s)
           /\ moved' = moved \o s /\ moved' \in Seq(Cells)
           /\ Len(moved') = Len(moved) + Len(s)
           /\ call'.left = call'.length - Len(moved')
           /\ Len(moved) \in Nat /\ Len(s) \in Nat
           /\ call.left = call.length - Len(moved)
<1>1. /\ call' = [call EXCEPT !.left = @ - Len(s)] /\ moved' = moved \o s
  BY DEF Moves
<1>2. /\ DOMAIN call' = Parts /\ call'.op = call.op /\ call'.on = call.on
      /\ call'.length = call.length /\ call'.start = call.start
      /\ call'.running = call.running /\ call'.left = call.left - Len(s)
  BY <1>1 DEF CallInv, Parts
<1>3. Len(s) \in Nat /\ moved \in Seq(Cells) /\ Len(moved) \in Nat
  BY LenProperties DEF MovedInv
<1>4. CallInv'
  BY <1>2, <1>3 DEF CallInv
<1>5. moved' \in Seq(Cells) /\ Len(moved') = Len(moved) + Len(s)
  BY <1>1, <1>3, ConcatProperties
<1>6. call.left = call.length - Len(moved) /\ call.length \in Nat /\ call.left \in Nat
  BY DEF MovedInv, StreamExact, CallInv
<1>7. call'.left = call'.length - Len(moved')
  BY <1>2, <1>3, <1>5, <1>6
<1>8. QED
  BY <1>1, <1>2, <1>3, <1>4, <1>5, <1>6, <1>7

(* The bytes s come in behind the n bytes from p on. *)
LEMMA SliceGrows ==
    ASSUME IsArray(ba), IsArray(ba'), NEW m \in Seq(Cells), NEW s \in Seq(Cells),
           NEW p \in Nat, Slice(p, Len(m)) = m,
           p + Len(m) <= ba.m_size, p + Len(m) + Len(s) <= ba'.m_size,
           \A i \in 0 .. p + Len(m) - 1 : ba'.mem[i] = ba.mem[i],
           \A i \in 1 .. Len(s) : ba'.mem[p + Len(m) + i - 1] = s[i]
    PROVE  [i \in 1 .. Len(m) + Len(s) |-> content'[p + i - 1]] = m \o s
<1> DEFINE n == Len(m)
           k == Len(s)
<1>1. n \in Nat /\ k \in Nat
  BY LenProperties
<1>2. m \o s = [i \in 1 .. n + k |-> IF i <= n THEN m[i] ELSE s[i - n]]
  <2> DEFINE t == m \o s
  <2>1. /\ t \in Seq(Cells) /\ Len(t) = n + k
        /\ \A i \in 1 .. n + k : t[i] = IF i <= n THEN m[i] ELSE s[i - n]
    BY ConcatProperties
  <2> HIDE DEF t, n, k
  <2>2. t = [i \in 1 .. n + k |-> t[i]]
    BY <2>1
  <2>3. t = [i \in 1 .. n + k |-> IF i <= n THEN m[i] ELSE s[i - n]]
    BY <2>1, <2>2
  <2>4. QED
    BY <2>3 DEF t
<1>3. ASSUME NEW i \in 1 .. n + k
      PROVE  content'[p + i - 1] = IF i <= n THEN m[i] ELSE s[i - n]
  <2>1. p + i - 1 \in 0 .. ba'.m_size - 1
    <3>1. ba'.m_size \in Nat
      BY DEF IsArray, Shaped
    <3>2. QED
      BY <1>1, <3>1
  <2>2. content'[p + i - 1] = ba'.mem[p + i - 1]
    BY <2>1, ContentAfter
  <2>3. CASE i <= n
    <3>1. p + i - 1 \in 0 .. p + n - 1 /\ p + i - 1 \in 0 .. ba.m_size - 1 /\ i \in 1 .. n
      BY <1>1, <2>3, ContentOf, SMTT(30)
    <3>2. m[i] = content[p + i - 1]
      <4>1. m[i] = Slice(p, n)[i]
        OBVIOUS
      <4>2. QED
        BY <3>1, <4>1 DEF Slice
    <3>3. content[p + i - 1] = ba.mem[p + i - 1]
      BY <3>1, ContentOf
    <3>4. QED
      BY <2>2, <2>3, <3>1, <3>2, <3>3
  <2>4. CASE ~(i <= n)
    <3> DEFINE j == i - n
    <3>1. j \in 1 .. k /\ p + n + j - 1 = p + i - 1
      BY <1>1, <2>4
    <3> HIDE DEF j
    <3>2. ba'.mem[p + n + j - 1] = s[j]
      BY <3>1
    <3>3. QED
      BY <2>2, <2>4, <3>1, <3>2 DEF j
  <2>5. QED
    BY <2>3, <2>4
<1>4. [i \in 1 .. n + k |-> content'[p + i - 1]]
          = [i \in 1 .. n + k |-> IF i <= n THEN m[i] ELSE s[i - n]]
  BY <1>3
<1>5. QED
  BY <1>2, <1>4

(* Reading into the array. *)
LEMMA ReadArrayKeeps ==
    ASSUME StreamInv, call.running, call.left # 0, call.op = "read", call.on = "ba",
           ReadArray, ret' = <<>>, threw' = FALSE
    PROVE  ByteInv' /\ CallInv' /\ MovedInv' /\ inbox' \in Seq(Byte) /\ Store!Next
<1> DEFINE c == getWriteBuffers
           a == Start(c.m_cur, c.m_position)
<1>1. /\ IsArray(ba) /\ Shaped(ba) /\ ba.m_size <= MaxSize /\ CallInv /\ MovedInv
      /\ call.left \in Nat \ {0} /\ inbox \in Seq(Byte) /\ Len(inbox) \in Nat
      /\ fault \in BOOLEAN /\ ~fault
  BY LenProperties DEF StreamInv, ByteInv, CallInv, IsArray
<1>2. /\ Shaped(c)
      /\ c.m_position = ba.m_position /\ c.m_size = ba.m_size
      /\ c.m_capacity >= ba.m_capacity /\ c.m_position + call.left <= c.m_capacity
      /\ \A i \in 0 .. ba.m_capacity - 1 : c.mem[i] = ba.mem[i]
  BY <1>1, AddCapacityShape DEF getWriteBuffers
<1>3. \/ \E k \in 1 .. Len(inbox) :
             /\ k <= call.left
             /\ Moves(SubSeq(inbox, 1, k))
             /\ inbox' = SubSeq(inbox, k + 1, Len(inbox))
             /\ ba' = setPosition(Filled(c, a, SubSeq(inbox, 1, k)), c.m_position + k)
             /\ fault' = Misses(c, c.m_cur, c.m_position, call.left)
             /\ UNCHANGED buffer
      \/ /\ Return(0) \/ Return(-1)
         /\ ba' = c /\ UNCHANGED <<fault, last>>
  BY DEF ReadArray
<1> HIDE DEF c
<1>4. /\ c.m_position \in Nat /\ c.m_capacity \in Nat /\ c.m_position < c.m_capacity
      /\ ba.m_position \in Nat /\ ba.m_size \in Nat /\ ba.m_position <= ba.m_size
      /\ ba.m_capacity \in Nat /\ ba.m_size <= ba.m_capacity
  BY <1>1, <1>2 DEF IsArray, Shaped
<1>5. a = ba.m_position /\ c.m_cur # NULL
  BY <1>2, <1>4, StartAtPosition
<1>6. Misses(c, c.m_cur, c.m_position, call.left) = FALSE
  <2>1. Cardinality(DOMAIN c.mem) = c.m_capacity
    BY <1>2, NodesOf
  <2>2. QED
    BY <1>1, <1>2, <1>4, <1>5, <2>1 DEF Misses
<1> HIDE DEF a
<1>7. CASE (Return(0) \/ Return(-1)) /\ ba' = c /\ UNCHANGED <<fault, last>>
  <2>1. CallInv' /\ MovedInv' /\ inbox' = inbox
    <3>1. PICK rt \in {0, -1} : Return(rt)
      BY <1>7
    <3>2. CallInv' /\ MovedInv'
      BY <1>1, <3>1, ReturnKeeps
    <3>3. QED
      BY <3>1, <3>2 DEF Return
  <2>2. IsArray(ba') /\ ba'.m_size <= MaxSize /\ ret' \in Seq(Byte)
    BY <1>1, <1>2, <1>4, <1>7 DEF IsArray
  <2>3. threw' \in BOOLEAN /\ fault' \in BOOLEAN /\ ~fault'
    BY <1>1, <1>7, Zenon
  <2>4. ByteInv'
    BY <2>2, <2>3, Zenon DEF ByteInv, FaultOnlyOnEmptyRead
  <2>5. Store!Next
    BY <1>1, <1>2, <1>4, <1>7, <2>2, IdleStep
  <2>6. QED
    BY <1>1, <2>1, <2>4, <2>5
<1>8. ASSUME NEW k \in 1 .. Len(inbox), k <= call.left,
             Moves(SubSeq(inbox, 1, k)),
             inbox' = SubSeq(inbox, k + 1, Len(inbox)),
             ba' = setPosition(Filled(c, a, SubSeq(inbox, 1, k)), c.m_position + k),
             fault' = Misses(c, c.m_cur, c.m_position, call.left),
             UNCHANGED buffer
      PROVE  ByteInv' /\ CallInv' /\ MovedInv' /\ inbox' \in Seq(Byte) /\ Store!Next
  <2> DEFINE s == SubSeq(inbox, 1, k)
             d == Filled(c, a, s)
             v == c.m_position + k
  <2>1. s \in Seq(Byte) /\ Len(s) = k /\ k \in Nat \ {0} /\ \A i \in 1 .. k : s[i] = inbox[i]
    <3>1. k \in 0 .. Len(inbox) /\ k \in Nat \ {0}
      BY <1>1
    <3>2. QED
      BY <1>1, <3>1, PrefixBytes
  <2>2. Moves(s) /\ ba' = setPosition(d, v)
    BY <1>8
  <2>a. d = Filled(c, a, s)
    OBVIOUS
  <2> HIDE DEF s, d
  <2>3. /\ Shaped(d)
        /\ d.m_position = c.m_position /\ d.m_size = c.m_size
        /\ d.m_capacity = c.m_capacity
        /\ \A i \in 0 .. c.m_capacity - 1 :
               d.mem[i] = IF i \in a .. a + Len(s) - 1 THEN s[i - a + 1] ELSE c.mem[i]
    <3>1. a \in Nat
      BY <1>4, <1>5
    <3>2. Shaped(c) /\ s \in Seq(Byte)
      BY <1>2, <2>1
    <3>3. Copied(c, a, s, d)
      BY <2>a, <3>1, <3>2, FilledShape
    <3>4. QED
      BY <3>3, Zenon DEF Copied
  <2>4. v \in 0 .. d.m_capacity /\ v = ba.m_position + k /\ v \in Nat
    BY <1>1, <1>2, <1>4, <1>8, <2>1, <2>3
  <2> HIDE DEF v
  <2>5. /\ IsArray(ba') /\ ba'.m_position = v
        /\ ba'.m_size = IF v > d.m_size THEN v ELSE d.m_size
        /\ ba'.mem = d.mem
    BY <2>2, <2>3, <2>4, SetPositionShape
  <2>6. s \in Seq(Cells)
    BY <2>1, SeqMonotonic DEF Cells
  <2>7. fault' = FALSE
    BY <1>6, <1>8
  <2>8. /\ CallInv'
        /\ call'.op = call.op /\ call'.on = call.on /\ call'.length = call.length
        /\ call'.start = call.start /\ call'.running = call.running
        /\ moved' = moved \o s /\ moved' \in Seq(Cells)
        /\ Len(moved') = Len(moved) + k
        /\ call'.left = call'.length - Len(moved')
        /\ Len(moved) \in Nat /\ call.left = call.length - Len(moved)
    BY <1>1, <1>8, <2>1, <2>2, <2>6, <2>7, MovesKeeps
  <2>9. /\ call.start \in Nat /\ ba.m_position = call.start + Len(moved)
        /\ Slice(call.start, Len(moved)) = moved /\ moved \in Seq(Cells)
        /\ call.start + call.length <= MaxSize /\ call.length \in Nat
    BY <1>1 DEF CallInv, MovedInv, StreamExact
  <2>10. \A i \in 0 .. ba.m_capacity - 1 : i \notin ba.m_position .. ba'.m_position - 1
             => ba'.mem[i] = ba.mem[i]
    <3> SUFFICES ASSUME NEW i \in 0 .. ba.m_capacity - 1,
                        i \notin ba.m_position .. ba'.m_position - 1
                 PROVE  ba'.mem[i] = ba.mem[i]
      OBVIOUS
    <3>1. i \in 0 .. c.m_capacity - 1 /\ i \notin a .. a + Len(s) - 1
      BY <1>2, <1>4, <1>5, <2>1, <2>4, <2>5
    <3>2. QED
      BY <1>2, <2>3, <2>5, <3>1
  <2>11. \A i \in 1 .. k : ba'.mem[ba.m_position + i - 1] = s[i]
    <3> SUFFICES ASSUME NEW i \in 1 .. k
                 PROVE  ba'.mem[ba.m_position + i - 1] = s[i]
      OBVIOUS
    <3> DEFINE j == a + i - 1
    <3>1. /\ j \in 0 .. c.m_capacity - 1 /\ j \in a .. a + Len(s) - 1 /\ j - a + 1 = i
          /\ j = ba.m_position + i - 1
      BY <1>2, <1>4, <1>5, <1>8, <1>1, <2>1, SMTT(30)
    <3> HIDE DEF j
    <3>2. d.mem[j] = s[i]
      BY <2>3, <3>1
    <3>3. QED
      BY <2>5, <3>1, <3>2
  <2>12. /\ call.start + Len(moved) <= ba.m_size
         /\ call.start + Len(moved) + Len(s) <= ba'.m_size
         /\ ba'.m_size = IF v > ba.m_size THEN v ELSE ba.m_size
         /\ ba'.m_size <= MaxSize /\ v = call.start + Len(moved')
    <3>1. /\ ba.m_position <= ba.m_size /\ ba.m_position = call.start + Len(moved)
          /\ v = ba.m_position + k /\ Len(s) = k /\ Len(moved') = Len(moved) + k
          /\ call.left = call.length - Len(moved) /\ k <= call.left
          /\ call.start + call.length <= MaxSize /\ ba.m_size <= MaxSize
      BY <1>1, <1>4, <1>8, <2>1, <2>4, <2>8, <2>9
    <3>2. ba'.m_size = IF v > ba.m_size THEN v ELSE ba.m_size
      BY <1>2, <2>3, <2>5
    <3>3. /\ call.start \in Nat /\ Len(moved) \in Nat /\ k \in Nat /\ MaxSize \in Nat
          /\ call.length \in Nat /\ call.left \in Nat /\ v \in Nat
          /\ ba.m_size \in Nat /\ ba.m_position \in Nat
      BY <1>1, <1>4, <2>1, <2>4, <2>8, <2>9, ByteArrayAssumption
    <3> DEFINE st == call.start
               n == Len(moved)
               le == call.length
               sz == ba.m_size
               lf == call.left
    <3>a. v = st + (n + k) /\ v <= MaxSize
      <4>1. v = st + n + k /\ lf = le - n /\ k <= lf /\ st + le <= MaxSize
        BY <3>1
      <4>2. st \in Nat /\ n \in Nat /\ k \in Nat /\ le \in Nat /\ lf \in Nat /\ MaxSize \in Nat
        BY <3>3
      <4> HIDE DEF st, n, le, lf
      <4>3. QED
        BY <4>1, <4>2
    <3>4. call.start + Len(moved) <= ba.m_size /\ call.start + Len(moved) + Len(s) = v
      BY <3>1, <3>3
    <3>5. ba'.m_size <= MaxSize /\ v <= ba'.m_size
      BY <3>1, <3>2, <3>3, <3>a, SMTT(30)
    <3>6. v = call.start + Len(moved')
      BY <3>1, <3>a
    <3>7. QED
      BY <3>2, <3>4, <3>5, <3>6
  <2>13. [i \in 1 .. Len(moved) + Len(s) |-> content'[call.start + i - 1]] = moved \o s
    <3>1. \A i \in 0 .. call.start + Len(moved) - 1 : ba'.mem[i] = ba.mem[i]
      <4> SUFFICES ASSUME NEW i \in 0 .. call.start + Len(moved) - 1
                   PROVE  ba'.mem[i] = ba.mem[i]
        OBVIOUS
      <4>1. i \in 0 .. ba.m_position - 1
        BY <2>9
      <4>2. i \in 0 .. ba.m_capacity - 1 /\ i \notin ba.m_position .. ba'.m_position - 1
        BY <1>4, <2>4, <2>5, <4>1, SMTT(30)
      <4>3. QED
        BY <2>10, <4>2
    <3>2. \A i \in 1 .. Len(s) : ba'.mem[call.start + Len(moved) + i - 1] = s[i]
      BY <2>1, <2>9, <2>11
    <3>3. QED
      BY <1>1, <2>5, <2>6, <2>9, <2>12, <3>1, <3>2, SliceGrows
  <2>14. StreamExact'
    <3>1. Slice(call.start, Len(moved))' = moved'
      BY <2>1, <2>8, <2>13 DEF Slice
    <3>2. QED
      BY <1>1, <2>5, <2>8, <2>12, <3>1 DEF StreamExact
  <2>15. MovedInv'
    BY <2>8, <2>14 DEF MovedInv
  <2>16. ret' \in Seq(Byte)
    OBVIOUS
  <2>17. threw' \in BOOLEAN /\ fault' \in BOOLEAN /\ ~fault'
    BY <2>7, Zenon
  <2>18. ByteInv'
    BY <2>5, <2>12, <2>16, <2>17, Zenon DEF ByteInv, FaultOnlyOnEmptyRead
  <2>19. inbox' \in Seq(Byte)
    BY <1>1, <1>8, SubSeqProperties
  <2>20. k \in 0 .. MaxSize
    BY <2>1, <2>4, <2>12, <2>5, <1>4, ByteArrayAssumption
  <2>21. Store!Next
    BY <1>1, <2>4, <2>5, <2>10, <2>12, <2>20, WriteStep
  <2>22. QED
    BY <2>8, <2>15, <2>18, <2>19, <2>21
<1>9. QED
  BY <1>3, <1>7, <1>8

(* What getReadBuffers() offers is what can be read, up to what is left. *)
LEMMA ReadBuffersOffer ==
    ASSUME IsArray(ba), call.left \in Nat, NEW s, s = getReadBuffers
    PROVE  /\ s \in Seq(Cells) /\ Len(s) \in Nat
           /\ Len(s) <= call.left /\ ba.m_position + Len(s) <= ba.m_size
           /\ \A i \in 1 .. Len(s) : s[i] = ba.mem[ba.m_position + i - 1]
<1> DEFINE n == IF call.left > getReadSize(ba) THEN getReadSize(ba) ELSE call.left
<1>1. ba.m_position \in Nat /\ ba.m_size \in Nat /\ ba.m_position <= ba.m_size
  BY DEF IsArray, Shaped
<1>2. n \in 0 .. getReadSize(ba) /\ n <= call.left /\ n \in Nat /\ ba.m_position + n <= ba.m_size
  BY <1>1 DEF getReadSize
<1>3. s = IF n = 0 THEN <<>> ELSE BytesFrom(ba, ba.m_cur, ba.m_position, n)
  BY DEF getReadBuffers
<1> HIDE DEF n
<1>4. CASE n = 0
  <2>1. s = <<>>
    BY <1>3, <1>4
  <2>2. QED
    BY <1>1, <2>1
<1>5. CASE n # 0
  <2>1. s = BytesFrom(ba, ba.m_cur, ba.m_position, n)
    BY <1>3, <1>5
  <2>2. /\ s \in Seq(Cells) /\ Len(s) = n
        /\ \A i \in 1 .. n : s[i] = ba.mem[ba.m_position + i - 1]
    BY <1>2, <2>1, BytesAtPosition
  <2>3. QED
    BY <1>2, <2>2
<1>6. QED
  BY <1>4, <1>5

(* Writing from the array. *)
LEMMA WriteArrayKeeps ==
    ASSUME StreamInv, call.running, call.left # 0, call.op = "write", call.on = "ba",
           WriteArray, ret' = <<>>, threw' = FALSE
    PROVE  ByteInv' /\ CallInv' /\ MovedInv' /\ inbox' \in Seq(Byte) /\ Store!Next
<1> DEFINE w == getReadBuffers
<1>1. /\ IsArray(ba) /\ Shaped(ba) /\ ba.m_size <= MaxSize /\ CallInv /\ MovedInv /\ ByteInv
      /\ call.left \in Nat \ {0} /\ inbox \in Seq(Byte)
      /\ fault \in BOOLEAN /\ ~fault
  BY DEF StreamInv, ByteInv, CallInv, IsArray
<1>2. /\ w \in Seq(Cells) /\ Len(w) \in Nat
      /\ Len(w) <= call.left /\ ba.m_position + Len(w) <= ba.m_size
      /\ \A i \in 1 .. Len(w) : w[i] = ba.mem[ba.m_position + i - 1]
  BY <1>1, ReadBuffersOffer
<1>3. \/ \E k \in 1 .. Len(w) :
             /\ Moves(SubSeq(w, 1, k))
             /\ ba' = setPosition(ba, ba.m_position + k)
             /\ UNCHANGED <<fault, last, inbox, buffer>>
      \/ (Return(0) \/ Return(-1)) /\ ArrayKept
  BY DEF WriteArray
<1> HIDE DEF w
<1>4. CASE (Return(0) \/ Return(-1)) /\ ArrayKept
  <2>1. PICK rt \in {0, -1} : Return(rt)
    BY <1>4
  <2>2. CallInv' /\ MovedInv' /\ inbox' = inbox
    BY <1>1, <2>1, ReturnKeeps DEF Return
  <2>3. ba' = ba /\ fault' = fault
    BY <1>4 DEF ArrayKept
  <2>4. ByteInv' /\ Store!Next
    BY <1>1, <2>3, ArrayIdle
  <2>5. QED
    BY <1>1, <2>2, <2>4
<1>5. ASSUME NEW k \in 1 .. Len(w), Moves(SubSeq(w, 1, k)),
             ba' = setPosition(ba, ba.m_position + k),
             UNCHANGED <<fault, last, inbox, buffer>>
      PROVE  ByteInv' /\ CallInv' /\ MovedInv' /\ inbox' \in Seq(Byte) /\ Store!Next
  <2> DEFINE s == SubSeq(w, 1, k)
             v == ba.m_position + k
  <2>1. s \in Seq(Cells) /\ Len(s) = k /\ k \in Nat \ {0} /\ \A i \in 1 .. k : s[i] = w[i]
    <3>1. k \in 0 .. Len(w) /\ k \in Nat \ {0}
      BY <1>2
    <3>2. QED
      BY <1>2, <3>1, PrefixBytes
  <2>2. Moves(s) /\ ba' = setPosition(ba, v)
    BY <1>5
  <2> HIDE DEF s
  <2>3. /\ ba.m_position \in Nat /\ ba.m_size \in Nat /\ ba.m_capacity \in Nat
        /\ ba.m_size <= ba.m_capacity
    BY <1>1 DEF IsArray, Shaped
  <2>4. v \in 0 .. ba.m_capacity /\ v <= ba.m_size /\ v \in Nat
    BY <1>2, <2>1, <2>3
  <2>a. v = ba.m_position + k
    OBVIOUS
  <2> HIDE DEF v
  <2>5. /\ IsArray(ba') /\ ba'.m_position = v
        /\ ba'.m_size = IF v > ba.m_size THEN v ELSE ba.m_size
        /\ ba'.mem = ba.mem
    BY <1>1, <2>2, <2>4, SetPositionShape
  <2>6. ba'.m_size = ba.m_size
    BY <2>3, <2>4, <2>5
  <2>7. fault' = FALSE
    BY <1>1, <1>5, Zenon
  <2>8. /\ CallInv'
        /\ call'.op = call.op /\ call'.on = call.on /\ call'.length = call.length
        /\ call'.start = call.start /\ call'.running = call.running
        /\ moved' = moved \o s /\ moved' \in Seq(Cells)
        /\ Len(moved') = Len(moved) + k
        /\ call'.left = call'.length - Len(moved')
        /\ Len(moved) \in Nat
    <3>1. Len(s) <= call.left
      BY <1>1, <1>2, <2>1
    <3>2. QED
      BY <1>1, <2>1, <2>2, <2>7, <3>1, MovesKeeps
  <2>9. /\ call.start \in Nat /\ ba.m_position = call.start + Len(moved)
        /\ Slice(call.start, Len(moved)) = moved /\ moved \in Seq(Cells)
    BY <1>1 DEF CallInv, MovedInv, StreamExact
  <2>10. /\ v = call.start + Len(moved')
         /\ call.start + Len(moved) <= ba.m_size
         /\ call.start + Len(moved) + Len(s) <= ba'.m_size
    BY <2>1, <2>3, <2>4, <2>6, <2>8, <2>9, <2>a
  <2>11. [i \in 1 .. Len(moved) + Len(s) |-> content'[call.start + i - 1]] = moved \o s
    <3>1. \A i \in 0 .. call.start + Len(moved) - 1 : ba'.mem[i] = ba.mem[i]
      BY <2>5
    <3>2. \A i \in 1 .. Len(s) : ba'.mem[call.start + Len(moved) + i - 1] = s[i]
      <4>1. \A i \in 1 .. Len(s) : ba'.mem[ba.m_position + i - 1] = s[i]
        BY <1>2, <2>1, <2>5, SMTT(30)
      <4>2. QED
        BY <2>9, <4>1
    <3>3. QED
      BY <1>1, <2>1, <2>5, <2>9, <2>10, <3>1, <3>2, SliceGrows
  <2>12. StreamExact'
    <3>1. Slice(call.start, Len(moved))' = moved'
      BY <2>1, <2>8, <2>11 DEF Slice
    <3>2. QED
      BY <1>1, <2>5, <2>8, <2>10, <3>1 DEF StreamExact
  <2>13. MovedInv'
    BY <2>8, <2>12 DEF MovedInv
  <2>14. ret' \in Seq(Byte) /\ ba'.m_size <= MaxSize
    BY <1>1, <2>6
  <2>15. threw' \in BOOLEAN /\ fault' \in BOOLEAN /\ ~fault'
    BY <2>7, Zenon
  <2>16. ByteInv'
    BY <2>5, <2>14, <2>15, Zenon DEF ByteInv, FaultOnlyOnEmptyRead
  <2>17. v \in 0 .. MaxSize
    BY <1>1, <2>3, <2>4, ByteArrayAssumption
  <2>18. Store!Next
    BY <1>1, <2>5, <2>17, SeekStep
  <2>19. QED
    BY <1>1, <1>5, <2>8, <2>13, <2>16, <2>18
<1>6. QED
  BY <1>3, <1>4, <1>5

(* Reading into a buffer: what came in is behind what there was. *)
LEMMA ReadBufferKeeps ==
    ASSUME StreamInv, call.running, call.left # 0, call.op = "read", call.on = "buffer",
           ReadBuffer
    PROVE  CallInv' /\ MovedInv' /\ inbox' \in Seq(Byte) /\ ArrayKept
<1>1. /\ CallInv /\ MovedInv /\ call.left \in Nat \ {0}
      /\ inbox \in Seq(Byte) /\ Len(inbox) \in Nat /\ ~fault /\ ArrayKept /\ fault \in BOOLEAN
      /\ buffer = moved /\ moved \in Seq(Cells) /\ Len(moved) \in Nat
      /\ call.left = call.length - Len(moved) /\ call.length \in Nat
  BY LenProperties DEF StreamInv, ByteInv, CallInv, MovedInv, StreamExact, ReadBuffer
<1>2. CASE Return(0) \/ Return(-1)
  <2>1. PICK rt \in {0, -1} : Return(rt)
    BY <1>2
  <2>2. CallInv' /\ MovedInv' /\ inbox' = inbox
    BY <1>1, <2>1, ReturnKeeps DEF Return
  <2>3. QED
    BY <1>1, <2>2
<1>3. ASSUME NEW k \in 1 .. Len(inbox), k <= call.left, Moves(SubSeq(inbox, 1, k)),
             inbox' = SubSeq(inbox, k + 1, Len(inbox)),
             buffer' = SubSeq(buffer, 1, call.length - call.left) \o SubSeq(inbox, 1, k)
      PROVE  CallInv' /\ MovedInv' /\ inbox' \in Seq(Byte)
  <2> DEFINE s == SubSeq(inbox, 1, k)
  <2>1. s \in Seq(Byte) /\ Len(s) = k /\ k \in Nat
    <3>1. k \in 0 .. Len(inbox) /\ k \in Nat
      BY <1>1
    <3>2. QED
      BY <1>1, <3>1, PrefixBytes
  <2>2. Moves(s) /\ buffer' = SubSeq(buffer, 1, call.length - call.left) \o s
    BY <1>3
  <2> HIDE DEF s
  <2>3. s \in Seq(Cells) /\ fault' = FALSE /\ Len(s) <= call.left
    <3>1. fault' = FALSE
      BY <1>1, Zenon DEF ArrayKept
    <3>2. QED
      BY <1>3, <2>1, <3>1, SeqMonotonic DEF Cells
  <2>4. /\ CallInv'
        /\ call'.op = call.op /\ call'.on = call.on /\ call'.running = call.running
        /\ moved' = moved \o s /\ moved' \in Seq(Cells)
        /\ call'.left = call'.length - Len(moved')
    BY <1>1, <2>2, <2>3, MovesKeeps
  <2>5. call.length - call.left = Len(moved)
    BY <1>1
  <2>6. buffer' = moved'
    BY <1>1, <2>2, <2>4, <2>5, WholePrefix
  <2>7. SubSeq(buffer', 1, Len(moved')) = moved'
    BY <2>4, <2>6, WholePrefix
  <2>8. StreamExact'
    BY <2>4, <2>7 DEF StreamExact
  <2>9. MovedInv'
    BY <2>4, <2>6, <2>8 DEF MovedInv
  <2>10. inbox' \in Seq(Byte)
    BY <1>1, <1>3, SubSeqProperties
  <2>11. QED
    BY <2>4, <2>9, <2>10
<1>4. QED
  BY <1>1, <1>2, <1>3 DEF ReadBuffer

(* Writing from a buffer: the bytes after those that have been moved. *)
LEMMA WriteBufferKeeps ==
    ASSUME StreamInv, call.running, call.left # 0, call.op = "write", call.on = "buffer",
           WriteBuffer
    PROVE  CallInv' /\ MovedInv' /\ inbox' \in Seq(Byte) /\ ArrayKept
<1> DEFINE n == Len(moved)
<1>1. /\ CallInv /\ MovedInv /\ call.left \in Nat \ {0}
      /\ inbox \in Seq(Byte) /\ ~fault /\ ArrayKept /\ fault \in BOOLEAN
      /\ buffer = Source /\ call.length <= Len(Source) /\ moved \in Seq(Cells) /\ n \in Nat
      /\ call.left = call.length - n /\ call.length \in Nat
      /\ SubSeq(buffer, 1, n) = moved
  BY LenProperties DEF StreamInv, ByteInv, CallInv, MovedInv, StreamExact, WriteBuffer
<1>2. Source \in Seq(Byte) /\ Len(Source) \in Nat /\ \A i \in 1 .. Len(Source) : Source[i] \in Byte
  BY StreamAssumption, LenProperties, ElementOfSeq
<1>3. CASE Return(-1)
  <2>1. CallInv' /\ MovedInv' /\ inbox' = inbox
    BY <1>1, <1>3, ReturnKeeps DEF Return
  <2>2. QED
    BY <1>1, <2>1
<1>4. ASSUME NEW k \in 1 .. call.left,
             Moves(SubSeq(buffer, call.length - call.left + 1, call.length - call.left + k)),
             UNCHANGED <<inbox, buffer>>
      PROVE  CallInv' /\ MovedInv' /\ inbox' \in Seq(Byte)
  <2> DEFINE s == SubSeq(Source, n + 1, n + k)
  <2>1. Moves(s)
    <3>1. call.length - call.left = n
      BY <1>1
    <3>2. QED
      BY <1>1, <1>4, <3>1
  <2>2. k \in Nat /\ n + k <= Len(Source) /\ k <= call.left
    BY <1>1, <1>2
  <2>3. s = [i \in 1 .. k |-> Source[n + i]]
    BY <1>1, <1>2, <2>2
  <2>4. \A i \in 1 .. k : Source[n + i] \in Byte
    BY <1>1, <1>2, <2>2
  <2>5. s \in Seq(Byte) /\ Len(s) = k /\ \A i \in 1 .. k : s[i] = Source[n + i]
    <3> HIDE DEF s
    <3>1. QED
      BY <2>2, <2>3, <2>4
  <2> HIDE DEF s
  <2>6. s \in Seq(Cells) /\ fault' = FALSE /\ Len(s) <= call.left
    <3>1. fault' = FALSE
      BY <1>1, Zenon DEF ArrayKept
    <3>2. QED
      BY <2>2, <2>5, <3>1, SeqMonotonic DEF Cells
  <2>7. /\ CallInv'
        /\ call'.op = call.op /\ call'.on = call.on /\ call'.running = call.running
        /\ call'.length = call.length
        /\ moved' = moved \o s /\ moved' \in Seq(Cells)
        /\ Len(moved') = n + k
        /\ call'.left = call'.length - Len(moved')
    BY <1>1, <2>1, <2>5, <2>6, MovesKeeps
  <2>8. SubSeq(Source, 1, n + k) = moved'
    <3>1. moved = [i \in 1 .. n |-> Source[i]]
      BY <1>1, <1>2, <2>2
    <3>2. \A i \in 1 .. n + k : moved'[i] = IF i <= n THEN moved[i] ELSE s[i - n]
      BY <1>1, <2>5, <2>6, <2>7, ConcatProperties
    <3>3. \A i \in 1 .. n + k : moved'[i] = Source[i]
      <4> SUFFICES ASSUME NEW i \in 1 .. n + k
                   PROVE  moved'[i] = Source[i]
        OBVIOUS
      <4>1. CASE i <= n
        <5>1. i \in 1 .. n
          BY <1>1, <2>2, <4>1
        <5>2. QED
          BY <3>1, <3>2, <4>1, <5>1
      <4>2. CASE ~(i <= n)
        <5>1. i - n \in 1 .. k /\ n + (i - n) = i
          BY <1>1, <2>2, <4>2
        <5>2. s[i - n] = Source[n + (i - n)]
          BY <2>5, <5>1
        <5>3. QED
          BY <3>2, <4>2, <5>1, <5>2
      <4>3. QED
        BY <4>1, <4>2
    <3>4. moved' = [i \in 1 .. n + k |-> moved'[i]]
      BY <2>7, SeqByElements, ZenonT(30)
    <3>5. SubSeq(Source, 1, n + k) = [i \in 1 .. n + k |-> Source[i]]
      BY <1>1, <1>2, <2>2
    <3>6. QED
      BY <3>3, <3>4, <3>5
  <2>9. buffer' = Source /\ inbox' = inbox
    BY <1>1, <1>4
  <2>10. SubSeq(buffer', 1, Len(moved')) = moved'
    BY <2>7, <2>8, <2>9
  <2>11. StreamExact'
    BY <2>7, <2>10 DEF StreamExact
  <2>12. MovedInv'
    BY <1>1, <2>7, <2>9, <2>11 DEF MovedInv
  <2>13. QED
    BY <1>1, <2>7, <2>9, <2>12
<1>5. QED
  BY <1>1, <1>3, <1>4 DEF WriteBuffer

(* The fiber makes a call. *)
LEMMA CallKeeps ==
    ASSUME StreamInv, NEW op \in {"read", "write"}, NEW on \in {"ba", "buffer"},
           NEW len \in Lengths, Call(op, on, len)
    PROVE  StreamInv' /\ Store!Next
<1>1. /\ ByteInv /\ ~fault /\ ba' = ba /\ fault' = fault /\ ret' = <<>> /\ threw' = FALSE
      /\ inbox' = inbox /\ sent' = sent /\ moved' = <<>>
      /\ call' = [op |-> op, on |-> on, length |-> len, left |-> len,
                  start |-> ba.m_position, rt |-> 0, running |-> TRUE]
      /\ buffer' = IF on = "buffer" /\ op = "write" THEN Source ELSE <<>>
      /\ on = "ba" /\ op = "read" => ba.m_position + len <= MaxSize
      /\ on = "buffer" /\ op = "write" => len <= Len(Source)
  BY DEF Call, StreamInv
<1>2. ByteInv' /\ Store!Next
  BY <1>1, ArrayIdle
<1>3. len \in Nat \ {0} /\ ba.m_position \in Nat
  BY <1>1, StreamAssumption DEF ByteInv, IsArray, Shaped
<1>4. /\ DOMAIN call' = Parts
      /\ call'.op = op /\ call'.on = on /\ call'.length = len /\ call'.left = len
      /\ call'.start = ba.m_position /\ call'.running = TRUE
  BY <1>1 DEF Parts
<1>5. ~fault'
  BY <1>1, Zenon
<1>6. CallInv'
  BY <1>1, <1>3, <1>4, <1>5 DEF CallInv
<1>7. moved' \in Seq(Cells) /\ Len(moved') = 0
  BY <1>1
<1>8. StreamExact'
  <2>1. call'.left = call'.length - Len(moved')
    BY <1>3, <1>4, <1>7
  <2>2. ba'.m_position = call'.start + Len(moved')
    BY <1>1, <1>3, <1>4, <1>7
  <2>3. Slice(call.start, Len(moved))' = moved'
    BY <1>1, <1>7 DEF Slice
  <2>4. SubSeq(buffer', 1, Len(moved')) = moved'
    BY <1>1, <1>7
  <2>5. QED
    BY <1>4, <2>1, <2>2, <2>3, <2>4 DEF StreamExact
<1>9. MovedInv'
  BY <1>1, <1>4, <1>7, <1>8 DEF MovedInv
<1>10. QED
  BY <1>1, <1>2, <1>6, <1>9 DEF StreamInv

(* A turn of the loop. *)
LEMMA TurnKeeps ==
    ASSUME StreamInv, Turn
    PROVE  StreamInv' /\ Store!Next
<1>1. /\ ByteInv /\ CallInv /\ MovedInv /\ inbox \in Seq(Byte) /\ sent \in 0 .. MaxWire
      /\ call.running /\ ret' = <<>> /\ threw' = FALSE /\ sent' = sent
      /\ ~fault
  BY DEF StreamInv, Turn, CallInv
<1>2. ASSUME CallInv', MovedInv', inbox' \in Seq(Byte), ArrayKept
      PROVE  StreamInv' /\ Store!Next
  <2>1. ba' = ba /\ fault' = fault
    BY <1>2 DEF ArrayKept
  <2>2. ByteInv' /\ Store!Next
    BY <1>1, <2>1, ArrayIdle
  <2>3. QED
    BY <1>1, <1>2, <2>2 DEF StreamInv
<1>3. CASE call.left = 0
  <2>1. Return(call.length) /\ ArrayKept
    BY <1>3 DEF Turn
  <2>2. CallInv' /\ MovedInv' /\ inbox' = inbox
    BY <1>1, <1>3, <2>1, ReturnKeeps DEF Return
  <2>3. QED
    BY <1>1, <1>2, <2>1, <2>2
<1>4. CASE call.left # 0 /\ ~m_isConnected
  <2>1. Return(-1) /\ ArrayKept
    BY <1>4 DEF Turn
  <2>2. CallInv' /\ MovedInv' /\ inbox' = inbox
    BY <1>1, <1>4, <2>1, ReturnKeeps DEF Return
  <2>3. QED
    BY <1>1, <1>2, <2>1, <2>2
<1>5. CASE call.left # 0 /\ m_isConnected
  <2>1. \/ call.op = "read" /\ call.on = "ba" /\ ReadArray
        \/ call.op = "read" /\ call.on = "buffer" /\ ReadBuffer
        \/ call.op = "write" /\ call.on = "ba" /\ WriteArray
        \/ call.op = "write" /\ call.on = "buffer" /\ WriteBuffer
    BY <1>5 DEF Turn
  <2>2. CASE call.op = "read" /\ call.on = "ba" /\ ReadArray
    <3>1. ByteInv' /\ CallInv' /\ MovedInv' /\ inbox' \in Seq(Byte) /\ Store!Next
      BY <1>1, <1>5, <2>2, ReadArrayKeeps
    <3>2. QED
      BY <1>1, <3>1 DEF StreamInv
  <2>3. CASE call.op = "read" /\ call.on = "buffer" /\ ReadBuffer
    BY <1>1, <1>2, <1>5, <2>3, ReadBufferKeeps
  <2>4. CASE call.op = "write" /\ call.on = "ba" /\ WriteArray
    <3>1. ByteInv' /\ CallInv' /\ MovedInv' /\ inbox' \in Seq(Byte) /\ Store!Next
      BY <1>1, <1>5, <2>4, WriteArrayKeeps
    <3>2. QED
      BY <1>1, <3>1 DEF StreamInv
  <2>5. CASE call.op = "write" /\ call.on = "buffer" /\ WriteBuffer
    BY <1>1, <1>2, <1>5, <2>5, WriteBufferKeeps
  <2>6. QED
    BY <2>1, <2>2, <2>3, <2>4, <2>5
<1>6. QED
  BY <1>3, <1>4, <1>5

(* Between two calls the array's own operations; no call is left. *)
LEMMA NextOfStream ==
    ASSUME StreamInv, ArrayOperation
    PROVE  StreamInv' /\ Store!Next
<1>1. ByteInv /\ Next
  BY DEF StreamInv, ArrayOperation
<1>2. ByteInv' /\ Store!Next
  BY <1>1, NextKeeps
<1>3. call' = NoCall /\ buffer' = <<>> /\ moved' = <<>> /\ inbox' = inbox /\ sent' = sent
  BY DEF ArrayOperation
<1>4. CallInv'
  BY <1>3 DEF CallInv, NoCall, Parts
<1>5. moved' \in Seq(Cells) /\ Len(moved') = 0
  BY <1>3
<1>6. call'.left = 0 /\ call'.length = 0 /\ call'.op = "none" /\ ~call'.running
  BY <1>3 DEF NoCall
<1>7. call'.left = call'.length - Len(moved')
  BY <1>5, <1>6
<1>8. StreamExact'
  BY <1>6, <1>7, Zenon DEF StreamExact
<1>9. MovedInv'
  BY <1>5, <1>6, <1>8 DEF MovedInv
<1>10. QED
  BY <1>2, <1>3, <1>4, <1>9 DEF StreamInv

(* Steps that leave the array, the call and what it has moved. *)
LEMMA WireKeeps ==
    ASSUME StreamInv, UNCHANGED <<vars, call, buffer, moved>>,
           inbox' \in Seq(Byte), sent' \in 0 .. MaxWire
    PROVE  StreamInv' /\ UNCHANGED Store!vars
<1>1. /\ ba' = ba /\ ret' = ret /\ threw' = threw /\ fault' = fault
      /\ call' = call /\ buffer' = buffer /\ moved' = moved
  BY DEF vars
<1>2. ByteInv'
  BY <1>1 DEF StreamInv, ByteInv, FaultOnlyOnEmptyRead
<1>3. CallInv'
  BY <1>1 DEF StreamInv, CallInv
<1>4. content' = content
  BY <1>1 DEF content
<1>5. StreamExact'
  BY <1>1, <1>4 DEF StreamInv, MovedInv, StreamExact, Slice
<1>6. MovedInv'
  BY <1>1, <1>5 DEF StreamInv, MovedInv
<1>7. QED
  BY <1>1, <1>2, <1>3, <1>4, <1>6 DEF StreamInv, Store!vars

LEMMA StreamStep ==
    StreamInv /\ [StreamNext]_allVars => StreamInv' /\ [Store!Next]_Store!vars
<1> SUFFICES ASSUME StreamInv, [StreamNext]_allVars
             PROVE  StreamInv' /\ [Store!Next]_Store!vars
  OBVIOUS
<1>a. inbox \in Seq(Byte) /\ sent \in 0 .. MaxWire
  BY DEF StreamInv
<1>1. CASE ArrayOperation
  BY <1>1, NextOfStream
<1>2. ASSUME NEW op \in {"read", "write"}, NEW on \in {"ba", "buffer"}, NEW n \in Lengths,
             Call(op, on, n)
      PROVE  StreamInv' /\ [Store!Next]_Store!vars
  BY <1>2, CallKeeps
<1>3. CASE Turn
  BY <1>3, TurnKeeps
<1>4. CASE Close
  BY <1>4, <1>a, WireKeeps DEF Close
<1>5. CASE PeerSends
  <2>1. sent' = sent + 1 /\ sent < MaxWire /\ inbox' = Append(inbox, sent + 1)
    BY <1>5 DEF PeerSends
  <2>2. sent + 1 \in Byte /\ sent' \in 0 .. MaxWire
    BY <1>a, <2>1, StreamAssumption, ByteFacts DEF Byte
  <2>3. inbox' \in Seq(Byte)
    BY <1>a, <2>1, <2>2, AppendProperties
  <2>4. QED
    BY <1>5, <2>2, <2>3, WireKeeps DEF PeerSends
<1>6. CASE PeerHangsUp
  BY <1>6, <1>a, WireKeeps DEF PeerHangsUp
<1>7. CASE UNCHANGED allVars
  BY <1>7, <1>a, WireKeeps DEF allVars, streamVars
<1>8. QED
  BY <1>1, <1>2, <1>3, <1>4, <1>5, <1>6, <1>7 DEF StreamNext

LEMMA StreamInvariant == StreamSpec => []StreamInv
<1>1. StreamInit => StreamInv
  BY StreamInitial
<1>2. StreamInv /\ [StreamNext]_allVars => StreamInv'
  BY StreamStep
<1>3. QED
  BY <1>1, <1>2, PTL DEF StreamSpec

(* The array's members are of their types: the memory is whole nodes, the  *)
(* position is within the size and the size within the capacity, whatever  *)
(* is written, read, sought, cleared or streamed.                          *)
THEOREM ByteArrayTypeCorrect == StreamSpec => []TypeOK
<1>1. StreamInv => TypeOK
  <2> SUFFICES ASSUME StreamInv
               PROVE  TypeOK
    OBVIOUS
  <2>1. IsArray(ba) /\ Shaped(ba) /\ ret \in Seq(Byte) /\ threw \in BOOLEAN /\ fault \in BOOLEAN
    BY DEF StreamInv, ByteInv, IsArray
  <2>2. /\ ba.mem \in [0 .. ba.m_capacity - 1 -> Byte \cup {Unknown}]
        /\ ba.m_capacity \in Nat /\ ba.m_capacity % BaseSize = 0
        /\ ba.m_position \in 0 .. ba.m_size /\ ba.m_size \in 0 .. ba.m_capacity
        /\ ba.m_endian \in {LITTLE, BIG}
    BY <2>1 DEF IsArray, Shaped, Cells
  <2>3. ba.m_cur \in 0 .. Nodes(ba) - 1 \cup {NULL}
    <3>1. CASE ba.m_position = ba.m_capacity
      BY <2>1, <3>1 DEF Shaped
    <3>2. CASE ba.m_position # ba.m_capacity
      <4> DEFINE p == ba.m_position
      <4>1. p \in Nat /\ p < ba.m_capacity /\ ba.m_cur = p \div BaseSize
        BY <2>1, <2>2, <3>2 DEF Shaped
      <4>2. Nodes(ba) \in Nat /\ Nodes(ba) * BaseSize = ba.m_capacity
        BY <2>1, NodesOf
      <4>3. p \div BaseSize \in Nat /\ p \div BaseSize < Nodes(ba)
        BY <4>1, <4>2, DivMod, DivLess
      <4>4. QED
        BY <4>1, <4>2, <4>3
    <3>3. QED
      BY <3>1, <3>2
  <2>4. QED
    BY <2>1, <2>2, <2>3, Zenon DEF TypeOK
<1>2. QED
  BY <1>1, StreamInvariant, PTL

(* m_cur, which write(), read(), setPosition(), clear() and addCapacity()  *)
(* move each in its own way, is always the node of m_position, for nodes   *)
(* of any size.                                                            *)
THEOREM CurAlwaysFollows == StreamSpec => []CurFollowsPosition
<1>1. StreamInv => CurFollowsPosition
  BY DEF StreamInv, ByteInv, IsArray, Shaped, CurFollowsPosition
<1>2. QED
  BY <1>1, StreamInvariant, PTL

(* No operation and no turn of a stream call uses a null node, but for a   *)
(* read of no bytes at the end of the capacity.                            *)
THEOREM FaultsOnlyOnEmptyReads == StreamSpec => []FaultOnlyOnEmptyRead
<1>1. StreamInv => FaultOnlyOnEmptyRead
  BY DEF StreamInv, ByteInv
<1>2. QED
  BY <1>1, StreamInvariant, PTL

(* readFixSize() and writeFixSize() move the bytes of a call in order and  *)
(* each once, however the kernel cuts them, and return the length exactly  *)
(* when all have been moved.                                               *)
THEOREM StreamIsExact == StreamSpec => []StreamExact
<1>1. StreamInv => StreamExact
  BY DEF StreamInv, MovedInv
<1>2. QED
  BY <1>1, StreamInvariant, PTL

(* The node list with its hand-moved pointer implements a plain sequence   *)
(* of bytes with a position: every step of the array or of the stream is a *)
(* write, a read, a seek or a clear of ByteStore, or changes none of it.   *)
THEOREM ByteStoreRefined == StreamSpec => ImplementsByteStore
<1>1. StreamInit => Store!Init
  BY StreamInitial
<1>2. StreamInv /\ [StreamNext]_allVars => [Store!Next]_Store!vars
  BY StreamStep
<1>3. QED
  BY <1>1, <1>2, StreamInvariant, PTL DEF StreamSpec, ImplementsByteStore, Store!Spec

-----------------------------------------------------------------------------
(* The operations that only look *)

(* The n bytes of the memory m from p on. *)
Piece(m, p, n) == [i \in 1 .. n |-> m[p + i - 1]]

(* A loop over n bytes from p that starts in the node of p finds them. *)
LEMMA LoopFrom ==
    ASSUME NEW b, IsArray(b), NEW p \in Nat, NEW n \in Nat, p + n <= b.m_size,
           NEW k, n > 0 => k = p \div BaseSize
    PROVE  /\ BytesFrom(b, k, p, n) = Piece(b.mem, p, n)
           /\ n > 0 => ~Misses(b, k, p, n)
<1>1. b.m_size \in Nat /\ b.m_capacity \in Nat /\ b.m_size <= b.m_capacity /\ Shaped(b)
  BY DEF IsArray, Shaped
<1>2. n > 0 => Start(k, p) = p /\ k \in Nat
  BY DivMod DEF Start
<1>3. Cardinality(DOMAIN b.mem) = b.m_capacity
  BY <1>1, NodesOf
<1>4. n > 0 => ~Misses(b, k, p, n)
  BY <1>1, <1>2, <1>3 DEF Misses, NULL
<1>5. BytesFrom(b, k, p, n) = [i \in 1 .. n |-> b.mem[Start(k, p) + i - 1]]
  BY DEF BytesFrom
<1>6. CASE n = 0
  BY <1>4, <1>5, <1>6 DEF Piece
<1>7. CASE n # 0
  <2>1. Start(k, p) = p
    BY <1>2, <1>7
  <2>2. QED
    BY <1>4, <1>5, <2>1 DEF Piece
<1>8. QED
  BY <1>6, <1>7

(* The bytes of the content are those of the memory. *)
LEMMA SliceOf ==
    ASSUME IsArray(ba), NEW p \in Nat, NEW n \in Nat, p + n <= ba.m_size
    PROVE  Slice(p, n) = Piece(ba.mem, p, n)
<1>1. ASSUME NEW i \in 1 .. n
      PROVE  content[p + i - 1] = ba.mem[p + i - 1]
  <2>1. p + i - 1 \in 0 .. ba.m_size - 1
    BY ContentOf
  <2>2. QED
    BY <2>1, ContentOf
<1>2. QED
  BY <1>1 DEF Slice, Piece

(* Between two nodes writeToFile() has written what is before its position, *)
(* and what is left begins a node or fills the one it is in.                *)
FileInv(b, c) ==
    /\ c.left \in Nat /\ c.pos \in Nat /\ c.bad = FALSE
    /\ c.pos + c.left = b.m_size /\ c.pos >= b.m_position
    /\ c.out = Piece(b.mem, b.m_position, c.pos - b.m_position)
    /\ c.left > 0 => /\ c.node = c.pos \div BaseSize
                     /\ c.pos % BaseSize = 0 \/ c.left >= BaseSize

FileNext(b, c, n) ==
    [left |-> c.left - n, pos |-> c.pos + n,
     node |-> NodeAt(b, (c.node + 1) * BaseSize),
     out  |-> c.out \o BytesFrom(b, c.node, c.pos, n),
     bad  |-> FALSE]

(* Two neighbouring pieces of the memory are one. *)
LEMMA PiecesJoin ==
    ASSUME NEW m, NEW p \in Nat, NEW j \in Nat, NEW n \in Nat
    PROVE  Piece(m, p, j) \o Piece(m, p + j, n) = Piece(m, p, j + n)
<1> DEFINE s == [i \in 1 .. j |-> m[p + i - 1]]
           t == [i \in 1 .. n |-> m[p + j + i - 1]]
           S == {m[i] : i \in Nat}
<1>1. s \in [1 .. j -> S] /\ t \in [1 .. n -> S]
  <2>1. \A i \in 1 .. j : p + i - 1 \in Nat
    OBVIOUS
  <2>2. \A i \in 1 .. n : p + j + i - 1 \in Nat
    OBVIOUS
  <2>3. QED
    BY <2>1, <2>2
<1>2. /\ \A i \in 1 .. j : s[i] = m[p + i - 1]
      /\ \A i \in 1 .. n : t[i] = m[p + j + i - 1]
  OBVIOUS
<1> HIDE DEF s, t, S
<1>3. s \in Seq(S) /\ Len(s) = j /\ t \in Seq(S) /\ Len(t) = n
  BY <1>1
<1> DEFINE u == s \o t
<1>4. /\ u \in Seq(S) /\ Len(u) = j + n
      /\ \A i \in 1 .. j + n : u[i] = IF i <= j THEN s[i] ELSE t[i - j]
  BY <1>3, ConcatProperties
<1> HIDE DEF u
<1>5. ASSUME NEW i \in 1 .. j + n
      PROVE  u[i] = m[p + i - 1]
  <2>1. CASE i <= j
    BY <1>2, <1>4, <2>1
  <2>2. CASE ~(i <= j)
    <3>1. i - j \in 1 .. n /\ p + j + (i - j) - 1 = p + i - 1
      BY <2>2
    <3>2. QED
      BY <1>2, <1>4, <2>2, <3>1
  <2>3. QED
    BY <2>1, <2>2
<1>6. u = [i \in 1 .. j + n |-> u[i]]
  BY <1>4, SeqByElements
<1>7. u = [i \in 1 .. j + n |-> m[p + i - 1]]
  BY <1>5, <1>6
<1>8. QED
  BY <1>7 DEF u, s, t, Piece

(* writeToFile() writes some of a node, never more than is left. *)
LEMMA FileStep ==
    ASSUME NEW b, IsArray(b), NEW c, FileInv(b, c), c.left > 0,
           NEW n, n = FileLen(c.left, c.pos)
    PROVE  /\ n \in Nat \ {0} /\ n <= c.left /\ ~Misses(b, c.node, c.pos, n)
           /\ FileInv(b, FileNext(b, c, n))
<1> DEFINE r == c.pos % BaseSize
           q == c.pos \div BaseSize
           d == FileNext(b, c, n)
<1>1. /\ c.left \in Nat \ {0} /\ c.pos \in Nat /\ c.pos + c.left = b.m_size
      /\ b.m_position \in Nat /\ b.m_size \in Nat /\ b.m_capacity \in Nat
      /\ b.m_size <= b.m_capacity /\ Shaped(b) /\ BaseSize \in Nat \ {0}
      /\ c.pos - b.m_position \in Nat /\ c.node = q
  BY ByteArrayAssumption DEF FileInv, IsArray, Shaped
<1>2. r \in 0 .. BaseSize - 1 /\ q \in Nat /\ q * BaseSize + r = c.pos
  BY <1>1, DivMod
<1>3. r = 0 \/ c.left >= BaseSize
  BY <1>1 DEF FileInv
<1>4. n = (IF c.left > BaseSize THEN BaseSize ELSE c.left) - r
  BY DEF FileLen
<1>a. /\ c.bad = FALSE
      /\ c.out = Piece(b.mem, b.m_position, c.pos - b.m_position)
  BY DEF FileInv
<1> HIDE DEF r, q
<1>5. n \in Nat \ {0} /\ n <= c.left
  BY <1>1, <1>2, <1>3, <1>4
<1>6. \/ c.left - n = 0
      \/ c.pos + n = (q + 1) * BaseSize
  <2> DEFINE t == q * BaseSize
  <2>1. t \in Nat /\ (q + 1) * BaseSize = t + BaseSize /\ t + r = c.pos
    BY <1>1, <1>2
  <2> HIDE DEF t
  <2>a. r \in 0 .. BaseSize - 1 /\ c.left \in Nat \ {0} /\ c.pos \in Nat /\ BaseSize \in Nat
        /\ t \in Nat /\ t + r = c.pos
    BY <1>1, <1>2, <2>1
  <2> DEFINE l == c.left
             p == c.pos
  <2>b. /\ r \in 0 .. BaseSize - 1 /\ l \in Nat \ {0} /\ p \in Nat /\ BaseSize \in Nat
        /\ t \in Nat /\ t + r = p /\ (r = 0 \/ l >= BaseSize)
        /\ n = (IF l > BaseSize THEN BaseSize ELSE l) - r
    BY <1>3, <1>4, <2>a
  <2> HIDE DEF l, p
  <2>c. l > BaseSize \/ r # 0 => n = BaseSize - r
    BY <2>b
  <2>d. ~(l > BaseSize \/ r # 0) => n = l
    BY <2>b
  <2>e. l - n = 0 \/ p + n = t + BaseSize
    BY <2>b, <2>c, <2>d
  <2>2. \/ c.left - n = 0
        \/ c.pos + n = t + BaseSize
    BY <2>e DEF l, p
  <2>3. QED
    BY <2>1, <2>2
<1>7. /\ BytesFrom(b, c.node, c.pos, n) = Piece(b.mem, c.pos, n)
      /\ ~Misses(b, c.node, c.pos, n)
  <2>1. c.pos + n <= b.m_size /\ n > 0
    BY <1>1, <1>5
  <2>2. c.node = c.pos \div BaseSize
    BY <1>1 DEF q
  <2>3. QED
    BY <1>1, <1>5, <2>1, <2>2, LoopFrom
<1>8. /\ d.left = c.left - n /\ d.pos = c.pos + n /\ d.bad = FALSE
      /\ d.node = NodeAt(b, (q + 1) * BaseSize)
      /\ d.out = c.out \o BytesFrom(b, c.node, c.pos, n)
  BY <1>1 DEF FileNext
<1> HIDE DEF d
<1>9. d.out = Piece(b.mem, b.m_position, d.pos - b.m_position)
  <2> DEFINE p == b.m_position
             j == c.pos - b.m_position
  <2>1. j \in Nat /\ p \in Nat /\ n \in Nat /\ c.pos = p + j /\ d.pos - p = j + n
    BY <1>1, <1>5, <1>8
  <2>2. d.out = Piece(b.mem, p, j) \o Piece(b.mem, c.pos, n)
    BY <1>7, <1>8, <1>a
  <2> HIDE DEF j, p
  <2>3. d.out = Piece(b.mem, p, j) \o Piece(b.mem, p + j, n)
    BY <2>1, <2>2
  <2>4. Piece(b.mem, p, j) \o Piece(b.mem, p + j, n) = Piece(b.mem, p, j + n)
    BY <2>1, PiecesJoin
  <2>5. QED
    BY <2>1, <2>3, <2>4 DEF p
<1>10. /\ d.left \in Nat /\ d.pos \in Nat /\ d.pos + d.left = b.m_size
       /\ d.pos >= b.m_position
  <2>1. d.left = c.left - n /\ d.pos = c.pos + n
    BY <1>8
  <2>2. QED
    BY <1>1, <1>5, <2>1
<1>11. d.left > 0 => d.node = d.pos \div BaseSize /\ d.pos % BaseSize = 0
  <2> SUFFICES ASSUME d.left > 0
               PROVE  d.node = d.pos \div BaseSize /\ d.pos % BaseSize = 0
    OBVIOUS
  <2>1. d.pos = (q + 1) * BaseSize
    BY <1>1, <1>5, <1>6, <1>8
  <2>2. q + 1 \in Nat /\ d.pos % BaseSize = 0
    BY <1>2, <2>1, Multiples
  <2>3. d.pos \in 0 .. b.m_capacity /\ d.pos # b.m_capacity
    BY <1>1, <1>10
  <2>4. NodeAt(b, d.pos) = d.pos \div BaseSize
    BY <1>1, <2>3, NodesOf
  <2>5. QED
    BY <1>8, <2>1, <2>2, <2>4
<1>12. FileInv(b, d)
  BY <1>8, <1>9, <1>10, <1>11 DEF FileInv
<1>13. QED
  BY <1>5, <1>7, <1>12 DEF d

(* The loop of writeToFile() begins with the rest, and a turn of it. *)
FileFirst(b) == [left |-> getReadSize(b), pos |-> b.m_position,
                 node |-> b.m_cur, out |-> <<>>, bad |-> FALSE]
FileAfter(b, c) ==
    IF c.left <= 0 \/ c.bad THEN c
    ELSE IF FileLen(c.left, c.pos) < 0 \/ Misses(b, c.node, c.pos, FileLen(c.left, c.pos))
    THEN [c EXCEPT !.bad = TRUE]
    ELSE FileNext(b, c, FileLen(c.left, c.pos))
FileTurns(b, chunk, T) ==
    /\ chunk[0] = FileFirst(b)
    /\ \A k \in 1 .. T : chunk[k] = FileAfter(b, chunk[k - 1])
    /\ FileChunks(b) = chunk[T]

LEMMA FileUnfolds ==
    ASSUME NEW b, NEW T \in Nat, T = b.m_capacity + 1
    PROVE  \E f : FileTurns(b, f, T)
<1> DEFINE first == FileFirst(b)
           After(c) == FileAfter(b, c)
           At(f, k) == IF k = 0 THEN first ELSE After(f[k - 1])
           chunk[k \in 0 .. T] == IF k = 0 THEN first ELSE After(chunk[k - 1])
           Fun(n) == \E f : f = [k \in 0 .. n |-> At(f, k)]
<1>2. FileChunks(b) = chunk[T]
  BY DEF FileChunks, FileNext, FileFirst, FileAfter
<1> HIDE DEF first, After
<1>3. \A n \in Nat : Fun(n)
  <2> SUFFICES ASSUME {n \in Nat : ~Fun(n)} # {}
               PROVE  FALSE
    OBVIOUS
  <2>1. PICK n \in {m \in Nat : ~Fun(m)} : \A m \in {l \in Nat : ~Fun(l)} \ {n} : n < m
    <3> HIDE DEF Fun
    <3>1. QED
      BY LeastNat
  <2>2. n \in Nat /\ ~Fun(n)
    OBVIOUS
  <2>3. CASE n = 0
    <3> DEFINE f == [k \in 0 .. 0 |-> first]
    <3>1. f = [k \in 0 .. n |-> At(f, k)]
      BY <2>3
    <3>2. QED
      BY <2>2, <3>1
  <2>4. CASE n # 0
    <3>1. n - 1 \in Nat /\ ~(n < n - 1) /\ n - 1 # n
      BY <2>2, <2>4
    <3>2. Fun(n - 1)
      <4> HIDE DEF Fun
      <4>1. QED
        BY <2>1, <3>1
    <3>3. PICK f : f = [k \in 0 .. n - 1 |-> At(f, k)]
      BY <3>2
    <3> DEFINE g == [k \in 0 .. n |-> At(f, k)]
    <3>4. \A k \in 0 .. n : At(g, k) = At(f, k)
      <4>1. \A k \in 0 .. n - 1 : f[k] = At(f, k) /\ g[k] = At(f, k)
        BY <2>2, <3>3
      <4> HIDE DEF g
      <4>2. \A k \in 0 .. n : k # 0 => k - 1 \in 0 .. n - 1
        BY <2>2
      <4>3. QED
        BY <4>1, <4>2
    <3>5. g = [k \in 0 .. n |-> At(g, k)]
      BY <3>4
    <3>6. QED
      BY <2>2, <3>5
  <2>5. QED
    BY <2>3, <2>4
<1>4. PICK f : f = [k \in 0 .. T |-> At(f, k)]
  <2>1. Fun(T)
    <3> HIDE DEF Fun
    <3>1. QED
      BY <1>3
  <2>2. QED
    BY <2>1
<1>5. chunk = [k \in 0 .. T |-> IF k = 0 THEN first ELSE After(chunk[k - 1])]
  BY <1>4, Zenon
<1> HIDE DEF chunk
<1>6. chunk[0] = first /\ \A k \in 1 .. T : chunk[k] = After(chunk[k - 1])
  <2>1. 0 \in 0 .. T /\ \A k \in 1 .. T : k \in 0 .. T /\ k # 0
    OBVIOUS
  <2>2. QED
    BY <1>5, <2>1, Zenon
<1>7. FileTurns(b, chunk, T)
  BY <1>2, <1>6 DEF FileTurns, first, After
<1>8. QED
  BY <1>7

(* writeToFile() writes the rest when the position begins a node or a whole *)
(* node is left; every piece is some of what is left, so that as many turns *)
(* as there are bytes are enough.                                           *)
LEMMA FileIsExact ==
    ASSUME NEW b, IsArray(b),
           \/ b.m_position % BaseSize = 0 \/ getReadSize(b) >= BaseSize
           \/ getReadSize(b) = 0
    PROVE  /\ ~FileChunks(b).bad
           /\ writeToFile(b) = Piece(b.mem, b.m_position, getReadSize(b))
<1> DEFINE first == FileFirst(b)
           After(c) == FileAfter(b, c)
           T == b.m_capacity + 1
<1>1. /\ b.m_position \in Nat /\ b.m_size \in Nat /\ T \in Nat
      /\ b.m_position <= b.m_size /\ b.m_size <= b.m_capacity /\ b.m_capacity \in Nat
      /\ getReadSize(b) = b.m_size - b.m_position
  BY DEF IsArray, Shaped, getReadSize
<1>a. FileInv(b, first)
  <2>1. b.m_position < b.m_size => b.m_cur = b.m_position \div BaseSize
    BY <1>1 DEF IsArray, Shaped
  <2>2. /\ first.left = b.m_size - b.m_position /\ first.pos = b.m_position
        /\ first.node = b.m_cur /\ first.out = <<>> /\ first.bad = FALSE
    BY <1>1 DEF FileFirst
  <2> HIDE DEF first
  <2>3. first.out = Piece(b.mem, b.m_position, first.pos - b.m_position)
    BY <1>1, <2>2 DEF Piece
  <2>4. /\ first.left \in Nat /\ first.pos \in Nat
        /\ first.pos + first.left = b.m_size /\ first.pos >= b.m_position
    BY <1>1, <2>2
  <2>5. first.left > 0 => /\ first.node = first.pos \div BaseSize
                          /\ first.pos % BaseSize = 0 \/ first.left >= BaseSize
    BY <1>1, <2>1, <2>2
  <2>6. QED
    BY <2>2, <2>3, <2>4, <2>5 DEF FileInv
<1>b. first.left + 0 <= T
  BY <1>1 DEF FileFirst
<1>c. \A c : /\ c.left <= 0 \/ c.bad => After(c) = c
             /\ ~(c.left <= 0 \/ c.bad) /\ ~(FileLen(c.left, c.pos) < 0)
                    /\ ~Misses(b, c.node, c.pos, FileLen(c.left, c.pos))
                    => After(c) = FileNext(b, c, FileLen(c.left, c.pos))
  BY DEF FileAfter
<1>4. PICK chunk : FileTurns(b, chunk, T)
  BY <1>1, FileUnfolds
<1>5. /\ chunk[0] = first /\ \A k \in 1 .. T : chunk[k] = After(chunk[k - 1])
      /\ FileChunks(b) = chunk[T]
  BY <1>4 DEF FileTurns
<1> HIDE DEF first, After, T
<1> DEFINE Ok(k) == FileInv(b, chunk[k]) /\ (chunk[k].left = 0 \/ chunk[k].left + k <= T)
<1>6. \A k \in 0 .. T : Ok(k)
  <2> DEFINE bad == {k \in 0 .. T : ~Ok(k)}
  <2> SUFFICES ASSUME bad # {}
               PROVE  FALSE
    OBVIOUS
  <2>1. PICK k \in bad : \A j \in bad \ {k} : k < j
    <3>1. bad \subseteq Nat
      BY <1>1
    <3> HIDE DEF bad
    <3>2. QED
      BY <3>1, LeastNat
  <2>2. k \in 0 .. T /\ ~Ok(k)
    OBVIOUS
  <2>3. k # 0
    <3>1. chunk[0] = first
      BY <1>5
    <3>2. Ok(0)
      BY <1>a, <1>b, <3>1
    <3>3. QED
      BY <2>2, <3>2
  <2>4. k - 1 \in 0 .. T /\ k - 1 \notin bad /\ k \in Nat
    BY <1>1, <2>1, <2>2, <2>3
  <2> DEFINE c == chunk[k - 1]
  <2>5. /\ FileInv(b, c) /\ (c.left = 0 \/ c.left + (k - 1) <= T)
    BY <2>4
  <2>6. chunk[k] = After(c)
    <3>1. k \in 1 .. T
      BY <1>1, <2>2, <2>3
    <3>2. QED
      BY <1>5, <3>1, Zenon
  <2> HIDE DEF c
  <2>7. c.left \in Nat /\ c.bad = FALSE
    BY <2>5 DEF FileInv
  <2>8. CASE c.left = 0
    <3>1. chunk[k] = c
      BY <1>c, <2>6, <2>8
    <3>2. QED
      BY <2>2, <2>5, <2>8, <3>1
  <2>9. CASE c.left # 0
    <3> DEFINE n == FileLen(c.left, c.pos)
    <3>1. /\ n \in Nat \ {0} /\ n <= c.left /\ ~Misses(b, c.node, c.pos, n)
          /\ FileInv(b, FileNext(b, c, n))
      BY <2>5, <2>7, <2>9, FileStep
    <3>2. ~(c.left <= 0 \/ c.bad)
      BY <2>7, <2>9
    <3>a. ~(n < 0)
      BY <3>1
    <3>b. chunk[k] = FileNext(b, c, n)
      BY <1>c, <2>6, <3>1, <3>2, <3>a
    <3> HIDE DEF n
    <3>3. FileNext(b, c, n).left = c.left - n
      BY DEF FileNext
    <3>4. chunk[k].left + k <= T
      BY <1>1, <2>4, <2>5, <2>7, <2>9, <3>1, <3>b, <3>3
    <3>5. QED
      BY <2>2, <3>1, <3>b, <3>4
  <2>10. QED
    BY <2>8, <2>9
<1>7. FileInv(b, chunk[T]) /\ (chunk[T].left = 0 \/ chunk[T].left + T <= T)
  BY <1>1, <1>6
<1> DEFINE e == chunk[T]
<1>8. /\ e.left \in Nat /\ e.pos \in Nat /\ e.bad = FALSE /\ e.pos + e.left = b.m_size
      /\ e.out = Piece(b.mem, b.m_position, e.pos - b.m_position)
  BY <1>7 DEF FileInv
<1>9. e.left = 0
  BY <1>1, <1>7, <1>8
<1>10. e.pos - b.m_position = getReadSize(b)
  BY <1>1, <1>8, <1>9
<1>11. QED
  BY <1>5, <1>8, <1>10 DEF writeToFile

(* Inside a node with less than a node left, writeToFile() goes wrong: its  *)
(* first length is negative, or its second one is, or both are 0 and it     *)
(* runs off the end of the node list.                                       *)
LEMMA FileGoesBad ==
    ASSUME NEW b, IsArray(b), b.m_position % BaseSize > 0,
           getReadSize(b) \in 1 .. BaseSize - 1
    PROVE  FileChunks(b).bad
<1> DEFINE T == b.m_capacity + 1
<1>1. PICK d, r, pos : /\ d = b.m_position % BaseSize /\ r = getReadSize(b)
                       /\ pos = b.m_position
  OBVIOUS
<1>2. /\ BaseSize \in Nat \ {0} /\ pos \in Nat /\ b.m_size \in Nat
      /\ b.m_capacity \in Nat /\ b.m_size <= b.m_capacity /\ Shaped(b)
      /\ r = b.m_size - pos /\ r \in 1 .. BaseSize - 1 /\ d \in 1 .. BaseSize - 1
      /\ d = pos % BaseSize
  BY <1>1, ByteArrayAssumption DEF IsArray, Shaped, getReadSize
<1>3. T \in Nat /\ T >= 2 /\ b.m_capacity > 0
  BY <1>2
<1>4. PICK chunk : FileTurns(b, chunk, T)
  BY <1>3, FileUnfolds
<1>5. /\ \A k \in 1 .. T : chunk[k] = FileAfter(b, chunk[k - 1])
      /\ chunk[0] = FileFirst(b) /\ FileChunks(b) = chunk[T]
  BY <1>4 DEF FileTurns
<1> HIDE DEF T
<1>6. /\ chunk[0].left = r /\ chunk[0].pos = pos /\ chunk[0].node = b.m_cur
      /\ ~chunk[0].bad
  BY <1>1, <1>5 DEF FileFirst
<1>7. ASSUME NEW k \in 1 .. T, chunk[k - 1].bad
      PROVE  chunk[k].bad
  BY <1>5, <1>7 DEF FileAfter
(* Once the loop has gone wrong it stays so. *)
<1>8. ASSUME NEW l \in 0 .. T, chunk[l].bad
      PROVE  chunk[T].bad
  <2> DEFINE S == {k \in Nat : l + k <= T => chunk[l + k].bad}
  <2>1. 0 \in S
    BY <1>8
  <2>2. ASSUME NEW k \in Nat, k \in S
        PROVE  k + 1 \in S
    <3> SUFFICES ASSUME l + (k + 1) <= T
                 PROVE  chunk[l + (k + 1)].bad
      OBVIOUS
    <3>1. /\ l + (k + 1) \in 1 .. T /\ (l + (k + 1)) - 1 = l + k /\ l + k <= T
      BY <1>3
    <3>2. chunk[l + k].bad
      BY <2>2, <3>1
    <3>3. QED
      BY <1>7, <3>1, <3>2
  <2>3. Nat \subseteq S
    <3> HIDE DEF S
    <3>1. QED
      BY <2>1, <2>2, InductiveSet
  <2>4. T - l \in S /\ l + (T - l) = T
    <3> HIDE DEF S
    <3>1. T - l \in Nat /\ l + (T - l) = T
      BY <1>3
    <3>2. QED
      BY <2>3, <3>1
  <2>5. QED
    BY <1>3, <2>4
<1>9. FileLen(r, pos) = r - d
  BY <1>2 DEF FileLen
<1>10. CASE r < d
  <2>1. FileLen(chunk[0].left, chunk[0].pos) < 0
    BY <1>2, <1>6, <1>9, <1>10
  <2>2. 1 \in 1 .. T /\ 1 - 1 = 0 /\ ~(chunk[0].left <= 0)
    BY <1>2, <1>3, <1>6
  <2>3. chunk[1] = [chunk[0] EXCEPT !.bad = TRUE]
    BY <1>5, <1>6, <2>1, <2>2 DEF FileAfter
  <2>4. chunk[1].bad
    BY <1>5, <2>3 DEF FileFirst
  <2>5. QED
    BY <1>3, <1>5, <1>8, <2>4
<1>11. CASE r > d
  <2>1. FileLen(chunk[0].left, chunk[0].pos) = r - d /\ ~(r - d < 0)
    BY <1>2, <1>6, <1>9, <1>11
  <2>2. 1 \in 1 .. T /\ 2 \in 1 .. T /\ 1 - 1 = 0 /\ 2 - 1 = 1 /\ ~(r <= 0)
    BY <1>2, <1>3
  <2>3. CASE Misses(b, chunk[0].node, chunk[0].pos, r - d)
    <3>1. chunk[1] = [chunk[0] EXCEPT !.bad = TRUE]
      BY <1>5, <1>6, <2>1, <2>2, <2>3 DEF FileAfter
    <3>2. chunk[1].bad
      BY <1>5, <3>1 DEF FileFirst
    <3>3. QED
      BY <1>3, <1>5, <1>8, <3>2
  <2>4. CASE ~Misses(b, chunk[0].node, chunk[0].pos, r - d)
    <3>1. chunk[1] = FileNext(b, chunk[0], r - d)
      BY <1>5, <1>6, <2>1, <2>2, <2>4 DEF FileAfter
    <3>2. chunk[1].left = d /\ chunk[1].pos = pos + (r - d) /\ ~chunk[1].bad
      BY <1>2, <1>6, <3>1 DEF FileNext
    <3>3. (pos + (r - d)) % BaseSize = r
      <4>1. pos \div BaseSize \in Nat /\ pos = (pos \div BaseSize) * BaseSize + d
        BY <1>2, Quotient
      <4>2. PICK q \in Nat : pos = q * BaseSize + d
        BY <4>1
      <4>3. pos + (r - d) = q * BaseSize + r /\ pos + (r - d) \in Nat
        <5>1. q * BaseSize \in Nat
          BY <1>2
        <5>2. QED
          BY <1>2, <1>11, <4>2, <5>1
      <4>4. PICK a \in Nat : a = pos + (r - d)
        BY <4>3
      <4>5. a = q * BaseSize + r /\ r \in 0 .. BaseSize - 1
        BY <1>2, <4>3, <4>4
      <4>6. a % BaseSize = r
        BY <1>2, <4>5, QuotientIsUnique
      <4>7. QED
        BY <4>4, <4>6
    <3>4. FileLen(chunk[1].left, chunk[1].pos) = d - r
      <4>1. ~(d > BaseSize)
        BY <1>2
      <4>2. QED
        BY <3>2, <3>3, <4>1 DEF FileLen
    <3>5. FileLen(chunk[1].left, chunk[1].pos) < 0 /\ ~(chunk[1].left <= 0)
      BY <1>2, <1>11, <3>2, <3>4
    <3>6. chunk[2] = [chunk[1] EXCEPT !.bad = TRUE]
      BY <1>5, <2>2, <3>2, <3>5 DEF FileAfter
    <3>7. chunk[2].bad
      BY <3>1, <3>6 DEF FileNext
    <3>8. QED
      BY <1>3, <1>5, <1>8, <3>7
  <2>5. QED
    BY <2>3, <2>4
(* Nothing is written: turn after turn the loop moves to the next node. *)
<1>12. CASE r = d
  <2> DEFINE Ok(k) == \/ chunk[k].bad
                      \/ /\ chunk[k].left = r /\ chunk[k].pos = pos
                         /\ \/ chunk[k].node = NULL /\ k <= b.m_capacity
                            \/ /\ chunk[k].node = b.m_cur + k
                               /\ (b.m_cur + k) * BaseSize < b.m_capacity
             S == {k \in Nat : k <= T => Ok(k)}
  <2>1. b.m_cur = pos \div BaseSize /\ b.m_cur \in Nat
    <3>1. pos < b.m_capacity
      BY <1>2
    <3>2. b.m_cur = pos \div BaseSize
      BY <1>1, <3>1 DEF IsArray, Shaped
    <3>3. QED
      BY <1>2, <3>2, Quotient
  <2>2. 0 \in S
    <3>1. b.m_cur * BaseSize <= pos /\ pos < b.m_capacity
      <4>1. pos = (pos \div BaseSize) * BaseSize + (pos % BaseSize)
        BY <1>2, Quotient
      <4>2. QED
        BY <1>2, <2>1, <4>1
    <3>2. (b.m_cur + 0) * BaseSize < b.m_capacity /\ b.m_cur + 0 = b.m_cur
      BY <1>2, <2>1, <3>1
    <3>3. QED
      BY <1>6, <3>2
  <2>3. ASSUME NEW k \in Nat, k \in S
        PROVE  k + 1 \in S
    <3> SUFFICES ASSUME k + 1 <= T
                 PROVE  Ok(k + 1)
      OBVIOUS
    <3>1. k + 1 \in 1 .. T /\ (k + 1) - 1 = k /\ k <= T
      BY <1>3
    <3>2. Ok(k)
      BY <2>3, <3>1
    <3>3. chunk[k + 1] = FileAfter(b, chunk[k])
      BY <1>5, <3>1
    <3> DEFINE c == chunk[k]
    <3>4. CASE c.bad
      BY <3>1, <3>4, <1>7
    <3>5. CASE ~c.bad
      <4>1. /\ c.left = r /\ c.pos = pos /\ FileLen(c.left, c.pos) = 0 /\ ~(c.left <= 0)
            /\ \/ c.node = NULL
               \/ c.node = b.m_cur + k /\ (b.m_cur + k) * BaseSize < b.m_capacity
        BY <1>2, <1>9, <1>12, <3>2, <3>5
      <4>2. FileAfter(b, c) = IF Misses(b, c.node, c.pos, 0) THEN [c EXCEPT !.bad = TRUE]
                              ELSE FileNext(b, c, 0)
        BY <3>5, <4>1 DEF FileAfter
      <4>3. CASE Misses(b, c.node, c.pos, 0)
        <5>1. chunk[k + 1] = [c EXCEPT !.bad = TRUE]
          BY <3>3, <4>2, <4>3
        <5>2. QED
          BY <5>1 DEF FileAfter
      <4>4. CASE ~Misses(b, c.node, c.pos, 0)
        <5>1. c.node = b.m_cur + k /\ (b.m_cur + k) * BaseSize < b.m_capacity
          BY <4>1, <4>4 DEF Misses
        <5>2. /\ chunk[k + 1].left = r /\ chunk[k + 1].pos = pos
              /\ chunk[k + 1].node = NodeAt(b, (c.node + 1) * BaseSize)
          BY <1>2, <3>3, <4>1, <4>2, <4>4 DEF FileNext
        <5>3. PICK m \in Nat : m = b.m_cur + k
          BY <2>1
        <5>4. /\ m * BaseSize < b.m_capacity /\ k < b.m_capacity /\ m + 1 \in Nat
              /\ b.m_cur + (k + 1) = m + 1
          <6>1. m * BaseSize >= m /\ m >= k
            BY <1>2, <2>1, <5>3
          <6>2. QED
            BY <1>2, <2>1, <5>1, <5>3, <6>1
        <5>5. PICK a \in Nat : a = (m + 1) * BaseSize
          BY <1>2
        <5>6. PICK N \in Nat : b.m_capacity = N * BaseSize
          BY <1>2, NodesOf
        <5>7. a <= b.m_capacity
          <6>1. m < N
            BY <1>2, <5>4, <5>6
          <6>2. m + 1 <= N
            BY <6>1
          <6>3. QED
            BY <1>2, <5>5, <5>6, <6>2
        <5>8. NodeAt(b, a) = IF a = b.m_capacity THEN NULL ELSE a \div BaseSize
          BY <1>2, <5>7, NodesOf
        <5>9. a \div BaseSize = m + 1
          BY <5>4, <5>5, Multiples
        <5>10. chunk[k + 1].node = NodeAt(b, a)
          BY <5>1, <5>2, <5>3, <5>5
        <5>11. CASE a = b.m_capacity
          <6>1. chunk[k + 1].node = NULL /\ k + 1 <= b.m_capacity
            BY <1>2, <5>4, <5>8, <5>10, <5>11
          <6>2. QED
            BY <5>2, <6>1
        <5>12. CASE a # b.m_capacity
          <6>1. chunk[k + 1].node = b.m_cur + (k + 1)
            BY <5>4, <5>8, <5>9, <5>10, <5>12
          <6>2. (b.m_cur + (k + 1)) * BaseSize < b.m_capacity
            BY <1>2, <5>4, <5>5, <5>7, <5>12
          <6>3. QED
            BY <5>2, <6>1, <6>2
        <5>13. QED
          BY <5>11, <5>12
      <4>5. QED
        BY <4>3, <4>4
    <3>6. QED
      BY <3>4, <3>5
  <2>4. Nat \subseteq S
    <3> HIDE DEF S
    <3>1. QED
      BY <2>2, <2>3, InductiveSet
  <2>5. Ok(T)
    <3>1. T \in S
      <4> HIDE DEF S
      <4>1. QED
        BY <1>3, <2>4
    <3>2. QED
      BY <1>3, <3>1
  <2>6. ~(T <= b.m_capacity)
    BY <1>2 DEF T
  <2>7. ~((b.m_cur + T) * BaseSize < b.m_capacity)
    <3>1. PICK m \in Nat : m = b.m_cur + T
      BY <1>3, <2>1
    <3>2. m * BaseSize >= m /\ m > b.m_capacity
      BY <1>2, <1>3, <2>1, <3>1 DEF T
    <3>3. QED
      BY <1>2, <3>1, <3>2
  <2>8. QED
    BY <1>5, <2>5, <2>6, <2>7
<1>13. QED
  BY <1>2, <1>10, <1>11, <1>12

(* For nodes of any size and wherever the position is: toString() shows the *)
(* rest and getReadBuffers() the part it is asked for, read-at the bytes at *)
(* the same offset in the node of the position, and writeToFile() writes    *)
(* the rest, but goes wrong inside a node with less than a node left.       *)
THEOREM LookingStaysExact == StreamSpec => []LookingIsExact
<1>1. StreamInv => LookingIsExact
  <2> SUFFICES ASSUME StreamInv
               PROVE  LookingIsExact
    OBVIOUS
  <2>1. /\ IsArray(ba) /\ Shaped(ba) /\ ba.m_size <= MaxSize
        /\ ba.m_position \in Nat /\ ba.m_size \in Nat /\ ba.m_position <= ba.m_size
        /\ ba.m_capacity \in Nat /\ ba.m_size <= ba.m_capacity
        /\ ba.m_position < ba.m_capacity => ba.m_cur = ba.m_position \div BaseSize
    BY DEF StreamInv, ByteInv, IsArray, Shaped
  <2> DEFINE left == ba.m_size - ba.m_position
  <2>2. left \in Nat /\ getReadSize(ba) = left /\ ba.m_position + left = ba.m_size
    BY <2>1 DEF getReadSize
  <2>a. left > 0 => ba.m_position < ba.m_capacity
    BY <2>1
  <2> DEFINE rest == Slice(ba.m_position, left)
  <2> HIDE DEF left
  <2>3. rest = Piece(ba.mem, ba.m_position, left)
    BY <2>1, <2>2, SliceOf
  <2> HIDE DEF rest
  <2>4. toString(ba) = rest
    <3>1. CASE left = 0
      BY <2>2, <2>3, <3>1 DEF toString, Piece
    <3>2. CASE left # 0
      <4>1. toString(ba) = BytesFrom(ba, ba.m_cur, ba.m_position, left)
        BY <2>2, <3>2 DEF toString, readAt
      <4>2. ba.m_position + left <= ba.m_size /\ (left > 0 => ba.m_cur = ba.m_position \div BaseSize)
        BY <2>1, <2>2, <2>a
      <4>3. QED
        BY <2>1, <2>2, <2>3, <4>1, <4>2, LoopFrom
    <3>3. QED
      BY <3>1, <3>2
  <2>5. ASSUME NEW p \in 0 .. ba.m_position, NEW n \in 0 .. left
        PROVE  getReadBuffersAt(ba, n, p) = Slice(p, n)
    <3>1. p \in Nat /\ n \in Nat /\ p + n <= ba.m_size /\ ~(n > left)
      BY <2>1, <2>2
    <3>2. Slice(p, n) = Piece(ba.mem, p, n)
      BY <2>1, <3>1, SliceOf
    <3>3. getReadBuffersAt(ba, n, p) = Slice(p, n)
      <4>1. getReadBuffersAt(ba, n, p) = IF n = 0 THEN <<>> ELSE BytesFrom(ba, NodeAt(ba, p), p, n)
        BY <2>2, <3>1 DEF getReadBuffersAt
      <4>2. CASE n = 0
        BY <3>2, <4>1, <4>2 DEF Piece
      <4>3. CASE n # 0
        <5>1. p \in 0 .. ba.m_capacity /\ p # ba.m_capacity
          BY <2>1, <3>1, <4>3
        <5>2. NodeAt(ba, p) = p \div BaseSize
          BY <2>1, <5>1, NodesOf
        <5>3. QED
          BY <2>1, <3>1, <3>2, <4>1, <4>3, <5>2, LoopFrom
      <4>4. QED
        BY <4>2, <4>3
    <3>4. QED
      BY <3>3
  <2>6. ASSUME NEW p \in 0 .. ba.m_size, NEW n \in 1 .. ba.m_size, NEW at,
               at = ba.m_position - (ba.m_position % BaseSize) + (p % BaseSize),
               at + n <= ba.m_size
        PROVE  ~ReadAtFaults(ba, n, p) /\ readAt(ba, n, p) = Slice(at, n)
    <3>1. BaseSize \in Nat \ {0} /\ p \in Nat /\ n \in Nat /\ n > 0
      BY <2>1, ByteArrayAssumption
    <3>2. PICK q \in Nat, d \in 0 .. BaseSize - 1 :
              /\ q = ba.m_position \div BaseSize /\ d = ba.m_position % BaseSize
              /\ ba.m_position = q * BaseSize + d
      BY <2>1, <3>1, Quotient
    <3>3. PICK r \in 0 .. BaseSize - 1 : r = p % BaseSize
      BY <3>1, Quotient
    <3>4. PICK m \in Nat : m = q * BaseSize
      BY <3>1
    <3>5. at = m + r /\ at \in Nat /\ ba.m_position = m + d
      <4>1. at = (ba.m_position - d) + r
        BY <2>6, <3>2, <3>3
      <4>2. ba.m_position = m + d /\ d \in Nat /\ r \in Nat
        <5>1. ba.m_position = m + d
          BY <3>2, <3>4, Zenon
        <5>2. d \in Nat /\ r \in Nat
          OBVIOUS
        <5>3. QED
          BY <5>1, <5>2
      <4>3. QED
        BY <4>1, <4>2
    <3>6. at \div BaseSize = q /\ at % BaseSize = r
      BY <3>1, <3>4, <3>5, QuotientIsUnique
    <3>7. ba.m_cur = q
      <4>1. m < ba.m_capacity
        BY <2>1, <2>6, <3>1, <3>5
      <4>2. ba.m_position < ba.m_capacity
        <5>1. CASE left > 0
          BY <2>a, <5>1
        <5>2. CASE left = 0
          <6>1. ba.m_position # ba.m_capacity
            <7> SUFFICES ASSUME ba.m_position = ba.m_capacity
                         PROVE  FALSE
              OBVIOUS
            <7>1. d = 0
              BY <2>1, <3>2 DEF IsArray, Shaped
            <7>2. QED
              BY <3>5, <4>1, <7>1
          <6>2. QED
            BY <2>1, <6>1
        <5>3. QED
          BY <2>2, <5>1, <5>2
      <4>3. QED
        BY <2>1, <3>2, <4>2
    <3>8. Slice(at, n) = Piece(ba.mem, at, n)
      BY <2>1, <2>6, <3>1, <3>5, SliceOf
    <3>9. BytesFrom(ba, ba.m_cur, at, n) = Slice(at, n) /\ ~Misses(ba, ba.m_cur, at, n)
      BY <2>1, <2>6, <3>1, <3>5, <3>6, <3>7, <3>8, LoopFrom
    <3>10. Start(ba.m_cur, at) = Start(ba.m_cur, p)
      BY <3>3, <3>6 DEF Start
    <3>11. QED
      BY <3>9, <3>10 DEF ReadAtFaults, readAt, BytesFrom, Misses
  <2>7. CASE ba.m_position % BaseSize > 0 /\ left \in 1 .. BaseSize - 1
    <3>1. FileChunks(ba).bad
      BY <2>1, <2>2, <2>7, FileGoesBad
    <3>2. QED
      BY <2>2, <2>4, <2>5, <2>6, <2>7, <3>1 DEF LookingIsExact, rest
  <2>8. CASE ~(ba.m_position % BaseSize > 0 /\ left \in 1 .. BaseSize - 1)
    <3>1. \/ ba.m_position % BaseSize = 0 \/ getReadSize(ba) >= BaseSize
          \/ getReadSize(ba) = 0
      BY <2>1, <2>2, <2>8, ByteArrayAssumption
    <3>2. ~FileChunks(ba).bad /\ writeToFile(ba) = rest
      BY <2>1, <2>2, <2>3, <3>1, FileIsExact
    <3>3. QED
      BY <2>2, <2>4, <2>5, <2>6, <2>8, <3>2 DEF LookingIsExact, rest
  <2>9. QED
    BY <2>7, <2>8
<1>2. QED
  BY <1>1, StreamInvariant, PTL

-----------------------------------------------------------------------------
(* What has been written reads back *)

(* The array b holds s from p on. *)
Holds(b, p, s) ==
    /\ p \in Nat /\ s \in Seq(Cells) /\ p + Len(s) <= b.m_size
    /\ \A i \in 1 .. Len(s) : b.mem[p + i - 1] = s[i]

(* The last value written is of its kind and its bytes are where they were *)
(* put.                                                                    *)
LastInv ==
    last # Nothing =>
        /\ last.kind \in Kinds
        /\ last.kind # "raw" => last.value \in Inputs[last.kind]
        /\ Holds(ba, last.pos, Encode(last.kind, last.value, last.endian))

(* An operation that leaves the content as it is, or adds to it, leaves    *)
(* what has been written.                                                  *)
LEMMA LastKept ==
    ASSUME LastInv, IsArray(ba), last' = last, ba'.m_size \in Nat, ba'.m_size >= ba.m_size,
           \A i \in 0 .. ba.m_size - 1 : ba'.mem[i] = ba.mem[i]
    PROVE  LastInv'
<1> SUFFICES ASSUME last # Nothing
             PROVE  /\ last.kind \in Kinds
                    /\ last.kind # "raw" => last.value \in Inputs[last.kind]
                    /\ Holds(ba', last.pos, Encode(last.kind, last.value, last.endian))
  BY DEF LastInv
<1> DEFINE s == Encode(last.kind, last.value, last.endian)
           p == last.pos
<1>1. /\ last.kind \in Kinds
      /\ last.kind # "raw" => last.value \in Inputs[last.kind]
      /\ Holds(ba, p, s)
  BY DEF LastInv
<1> HIDE DEF s, p
<1>2. ba.m_size \in Nat
  BY ContentOf
<1>3. /\ p \in Nat /\ s \in Seq(Cells) /\ p + Len(s) <= ba.m_size /\ Len(s) \in Nat
      /\ \A i \in 1 .. Len(s) : ba.mem[p + i - 1] = s[i]
  BY <1>1, LenProperties DEF Holds
<1>4. p + Len(s) <= ba'.m_size
  BY <1>2, <1>3
<1>5. ASSUME NEW i \in 1 .. Len(s)
      PROVE  ba'.mem[p + i - 1] = s[i]
  <2>1. p + i - 1 \in 0 .. ba.m_size - 1
    BY <1>2, <1>3
  <2>2. QED
    BY <1>3, <2>1
<1>6. Holds(ba', p, s)
  BY <1>3, <1>4, <1>5 DEF Holds
<1>7. QED
  BY <1>1, <1>6 DEF s, p

(* A value has been put at the position. *)
LEMMA LastPut ==
    ASSUME NEW kind \in Kinds, NEW v, kind # "raw" => v \in Inputs[kind], NEW p, NEW e,
           last' = [kind |-> kind, value |-> v, pos |-> p, endian |-> e],
           NEW s, s = Encode(kind, v, e), Holds(ba', p, s)
    PROVE  LastInv'
<1>1. last'.kind = kind /\ last'.value = v /\ last'.pos = p /\ last'.endian = e
  OBVIOUS
<1>2. Holds(ba', last'.pos, Encode(last'.kind, last'.value, last'.endian))
  BY <1>1
<1>3. last'.kind \in Kinds /\ (last'.kind # "raw" => last'.value \in Inputs[last'.kind])
  BY <1>1
<1>4. QED
  BY <1>2, <1>3, Zenon DEF LastInv

(* write() and readFromFile() put the bytes where they say. *)
LEMMA PutHolds ==
    ASSUME IsArray(ba), NEW kind, NEW v, NEW s \in Seq(Byte), NEW b, Put(b, kind, v, s),
           IsArray(b), b.m_position = ba.m_position + Len(s),
           \A i \in 1 .. Len(s) : b.mem[ba.m_position + i - 1] = s[i]
    PROVE  /\ Holds(ba', ba.m_position, s)
           /\ last' = [kind |-> kind, value |-> v, pos |-> ba.m_position,
                       endian |-> ba.m_endian]
<1>1. /\ ba' = b
      /\ last' = [kind |-> kind, value |-> v, pos |-> ba.m_position, endian |-> ba.m_endian]
  BY DEF Put
<1>2. s \in Seq(Cells)
  BY SeqMonotonic DEF Cells
<1>3. ba.m_position \in Nat /\ b.m_position <= b.m_size
  BY DEF IsArray, Shaped
<1>4. ba.m_position + Len(s) <= b.m_size
  BY <1>3
<1>5. Holds(b, ba.m_position, s)
  BY <1>2, <1>3, <1>4 DEF Holds
<1>6. QED
  BY <1>1, <1>5

(* The operations of the array. *)
LEMMA NextLast ==
    ASSUME ByteInv, LastInv, Next
    PROVE  LastInv'
<1>1. IsArray(ba) /\ Shaped(ba) /\ ba.m_size \in Nat /\ ba.m_capacity \in Nat
  BY DEF ByteInv, IsArray, Shaped
<1>2. ASSUME NEW kind \in Kinds, NEW v \in Inputs[kind], Write(kind, v)
      PROVE  LastInv'
  <2> DEFINE s == Encode(kind, v, ba.m_endian)
             b == write(ba, s)
  <2>1. s \in Seq(Byte)
    BY EncodeBytes
  <2>2. Put(b, kind, v, s)
    BY <1>2 DEF Write
  <2>a. s = Encode(kind, v, ba.m_endian)
    OBVIOUS
  <2> HIDE DEF s
  <2>3. /\ IsArray(b) /\ b.m_position = ba.m_position + Len(s)
        /\ \A i \in 1 .. Len(s) : b.mem[ba.m_position + i - 1] = s[i]
    BY <1>1, <2>1, WriteShape
  <2> HIDE DEF b
  <2>4. /\ Holds(ba', ba.m_position, s)
        /\ last' = [kind |-> kind, value |-> v, pos |-> ba.m_position, endian |-> ba.m_endian]
    BY <1>1, <2>1, <2>2, <2>3, PutHolds
  <2>5. QED
    BY <2>4, <2>a, LastPut
<1>3. ASSUME NEW s \in Inputs["raw"], ReadFromFile(s)
      PROVE  LastInv'
  <2> DEFINE b == readFromFile(s)
  <2>1. s \in Seq(Byte)
    BY InputAssumption
  <2>2. Put(b, "raw", s, s)
    BY <1>3 DEF ReadFromFile
  <2>3. /\ IsArray(b) /\ b.m_position = ba.m_position + Len(s)
        /\ \A i \in 1 .. Len(s) : b.mem[ba.m_position + i - 1] = s[i]
    BY <1>1, <2>1, ReadFromFileShape
  <2> HIDE DEF b
  <2>4. /\ Holds(ba', ba.m_position, s)
        /\ last' = [kind |-> "raw", value |-> s, pos |-> ba.m_position, endian |-> ba.m_endian]
    BY <1>1, <2>1, <2>2, <2>3, PutHolds
  <2>5. s = Encode("raw", s, ba.m_endian) /\ "raw" \in Kinds
    BY DEF Encode, Kinds
  <2>6. QED
    BY <2>4, <2>5, LastPut
<1>4. ASSUME ba'.m_size \in Nat, ba'.m_size >= ba.m_size, last' = last,
             ba'.mem = ba.mem
      PROVE  LastInv'
  BY <1>1, <1>4, LastKept
<1>5. ASSUME NEW n \in 0 .. MaxSize, Read(n)
      PROVE  LastInv'
  <2>1. CASE n > getReadSize(ba)
    <3>1. ba' = ba /\ last' = last
      BY <1>5, <2>1 DEF Read, Take
    <3>2. QED
      BY <1>1, <1>4, <3>1
  <2>2. CASE ~(n > getReadSize(ba))
    <3> DEFINE none == IF n = 0 THEN 0 ELSE -1
    <3>1. PICK w \in Readings : Take(SubSeq(w, 1, n), FALSE, none)
      BY <1>5, <2>2 DEF Read
    <3>2. Len(w) = getReadSize(ba) /\ Len(w) \in Nat
      BY <1>1, ReadingsBytes
    <3>3. n \in 0 .. Len(w)
      BY <2>2, <3>2, ByteArrayAssumption
    <3>4. none = -1 \/ (none = n /\ ~FALSE)
      OBVIOUS
    <3>a. last' = last
      BY <3>1 DEF Take
    <3> HIDE DEF none
    <3>5. ba'.m_size = ba.m_size /\ ba'.mem = ba.mem
      BY <3>1, <3>3, <3>4, TakeKeeps
    <3>6. QED
      BY <1>1, <1>4, <3>a, <3>5
  <2>3. QED
    BY <2>1, <2>2
<1>6. ASSUME NEW kind \in Kinds \ {"raw"}, ReadValue(kind)
      PROVE  LastInv'
  <2>1. PICK w \in Readings :
            LET o == Decode(kind, w, ba.m_endian)
            IN  Take(SubSeq(w, 1, o.taken), o.throws, o.none)
    BY <1>6 DEF ReadValue
  <2> DEFINE o == Decode(kind, w, ba.m_endian)
  <2>2. Take(SubSeq(w, 1, o.taken), o.throws, o.none)
    BY <2>1
  <2>3. w \in Seq(Byte)
    BY <1>1, ReadingsBytes
  <2>4. /\ o.taken \in 0 .. Len(w) /\ o.throws \in BOOLEAN
        /\ o.none = -1 \/ (o.none = o.taken /\ o.taken > 0 /\ ~o.throws)
    BY <2>3, DecodeFits
  <2> HIDE DEF o
  <2>5. ba'.m_size = ba.m_size /\ ba'.mem = ba.mem
    BY <2>2, <2>4, TakeKeeps
  <2>6. last' = last
    BY <2>2 DEF Take
  <2>7. QED
    BY <1>1, <1>4, <2>5, <2>6
<1>7. ASSUME NEW v \in 0 .. MaxSize, SetPosition(v)
      PROVE  LastInv'
  <2>1. last' = last
    BY <1>7 DEF SetPosition
  <2>2. CASE v > ba.m_capacity
    <3>1. ba' = ba
      BY <1>7, <2>2 DEF SetPosition
    <3>2. QED
      BY <1>1, <1>4, <2>1, <3>1
  <2>3. CASE ~(v > ba.m_capacity)
    <3>1. ba' = setPosition(ba, v)
      BY <1>7, <2>3 DEF SetPosition
    <3>2. v \in 0 .. ba.m_capacity /\ v \in Nat
      BY <1>1, <2>3, ByteArrayAssumption
    <3>3. ba'.m_size = (IF v > ba.m_size THEN v ELSE ba.m_size) /\ ba'.mem = ba.mem
      BY <1>1, <3>1, <3>2, SetPositionShape
    <3>4. ba'.m_size \in Nat /\ ba'.m_size >= ba.m_size
      BY <1>1, <3>2, <3>3
    <3>5. QED
      BY <1>4, <2>1, <3>3, <3>4
  <2>4. QED
    BY <2>2, <2>3
<1>8. ASSUME NEW val \in BOOLEAN, SetIsLittleEndian(val)
      PROVE  LastInv'
  <2>1. /\ ba' = [ba EXCEPT !.m_endian = IF val THEN LITTLE ELSE BIG] /\ last' = last
    BY <1>8 DEF SetIsLittleEndian
  <2>2. ba'.mem = ba.mem /\ ba'.m_size = ba.m_size
    BY <1>1, <2>1 DEF Shaped, Members
  <2>3. QED
    BY <1>1, <1>4, <2>1, <2>2
<1>9. ASSUME Clear
      PROVE  LastInv'
  BY <1>9 DEF Clear, LastInv
<1>10. QED
  BY <1>2, <1>3, <1>5, <1>6, <1>7, <1>8, <1>9 DEF Next

(* A turn of a call: what is read into the array becomes the last value.   *)
LEMMA TurnLast ==
    ASSUME StreamInv, StreamInv', LastInv, Turn
    PROVE  LastInv'
<1>1. /\ IsArray(ba) /\ Shaped(ba) /\ ba.m_size \in Nat /\ ba.m_capacity \in Nat
      /\ ba.m_size <= ba.m_capacity /\ call.left \in Nat
      /\ IsArray(ba') /\ ba'.m_size \in Nat
  <2>1. IsArray(ba) /\ call.left \in Nat
    BY DEF StreamInv, ByteInv, CallInv
  <2>2. IsArray(ba')
    BY DEF StreamInv, ByteInv
  <2>3. QED
    BY <2>1, <2>2 DEF IsArray, Shaped
<1>2. ASSUME ArrayKept
      PROVE  LastInv'
  <2>1. ba' = ba /\ last' = last
    BY <1>2 DEF ArrayKept
  <2>2. QED
    BY <1>1, <2>1, LastKept
<1>3. ASSUME call.running, call.op = "read", call.on = "ba", call.left # 0, ReadArray
      PROVE  LastInv'
  <2> DEFINE c == getWriteBuffers
  <2>1. CASE ba' = c /\ last' = last
    <3>1. /\ c.m_size = ba.m_size
          /\ \A i \in 0 .. ba.m_capacity - 1 : c.mem[i] = ba.mem[i]
      BY <1>1, AddCapacityShape DEF getWriteBuffers
    <3> HIDE DEF c
    <3>2. ba'.m_size >= ba.m_size
      BY <1>1, <2>1, <3>1
    <3>3. \A i \in 0 .. ba.m_size - 1 : ba'.mem[i] = ba.mem[i]
      BY <1>1, <2>1, <3>1
    <3>4. QED
      BY <1>1, <2>1, <3>2, <3>3, LastKept
  <2>2. CASE /\ last' = [kind |-> "raw", value |-> moved', pos |-> call.start,
                         endian |-> ba.m_endian]
             /\ \E s : Moves(s)
    <3> DEFINE n == Len(moved')
               p == call.start
    <3>1. call' = [call EXCEPT !.left = call'.left]
      <4>1. PICK s : call' = [call EXCEPT !.left = @ - Len(s)]
        BY <2>2 DEF Moves
      <4>2. QED
        BY <4>1 DEF StreamInv, CallInv, Parts
    <3>2. call'.running /\ call'.on = "ba" /\ call'.start = p
      BY <1>3, <3>1 DEF StreamInv, CallInv, Parts
    <3>3. /\ moved' \in Seq(Cells) /\ n \in Nat /\ p \in Nat
          /\ ba'.m_position = p + n /\ Slice(call.start, Len(moved))' = moved'
      BY <3>2, LenProperties DEF StreamInv, MovedInv, StreamExact, CallInv
    <3>4. p + n <= ba'.m_size
      BY <1>1, <3>3 DEF IsArray
    <3>5. \A i \in 1 .. n : ba'.mem[p + i - 1] = moved'[i]
      <4> SUFFICES ASSUME NEW i \in 1 .. n
                   PROVE  ba'.mem[p + i - 1] = moved'[i]
        OBVIOUS
      <4>1. p + i - 1 \in 0 .. ba'.m_size - 1
        BY <1>1, <3>3, <3>4
      <4>2. content'[p + i - 1] = ba'.mem[p + i - 1]
        BY <1>1, <4>1, ContentAfter
      <4>3. moved' = [j \in 1 .. n |-> content'[p + j - 1]]
        BY <3>2, <3>3 DEF Slice
      <4>4. QED
        BY <4>2, <4>3
    <3>6. Holds(ba', p, moved')
      BY <3>3, <3>4, <3>5 DEF Holds
    <3>7. moved' = Encode("raw", moved', ba.m_endian) /\ "raw" \in Kinds
      BY DEF Encode, Kinds
    <3>8. QED
      BY <2>2, <3>6, <3>7, LastPut
  <2>3. QED
    BY <1>3, <2>1, <2>2 DEF ReadArray
<1>4. ASSUME WriteArray, ~ArrayKept
      PROVE  LastInv'
  <2>1. PICK k \in 1 .. Len(getReadBuffers) :
             ba' = setPosition(ba, ba.m_position + k) /\ last' = last
    BY <1>4 DEF WriteArray
  <2>2. Len(getReadBuffers) \in Nat /\ ba.m_position + Len(getReadBuffers) <= ba.m_size
    BY <1>1, ReadBuffersOffer DEF StreamInv, CallInv
  <2> DEFINE v == ba.m_position + k
  <2>3. v \in 0 .. ba.m_capacity /\ v <= ba.m_size /\ v \in Nat
    <3>1. ba.m_position \in Nat
      BY <1>1 DEF IsArray, Shaped
    <3>2. QED
      BY <1>1, <2>2, <3>1
  <2>a. ba' = setPosition(ba, v)
    BY <2>1
  <2> HIDE DEF v
  <2>4. ba'.m_size = (IF v > ba.m_size THEN v ELSE ba.m_size) /\ ba'.mem = ba.mem
    BY <1>1, <2>3, <2>a, SetPositionShape
  <2>5. ba'.m_size = ba.m_size
    BY <1>1, <2>3, <2>4
  <2>6. QED
    BY <1>1, <2>1, <2>4, <2>5, LastKept
<1>5. CASE call.left = 0 \/ ~m_isConnected
  BY <1>2, <1>5 DEF Turn
<1>6. CASE call.left # 0 /\ m_isConnected
  <2>1. \/ call.op = "read" /\ call.on = "ba" /\ ReadArray
        \/ call.op = "read" /\ call.on = "buffer" /\ ReadBuffer
        \/ call.op = "write" /\ call.on = "ba" /\ WriteArray
        \/ call.op = "write" /\ call.on = "buffer" /\ WriteBuffer
    BY <1>6 DEF Turn
  <2>2. CASE call.op = "read" /\ call.on = "ba" /\ ReadArray
    BY <1>3, <1>6, <2>2 DEF Turn
  <2>3. CASE ReadBuffer \/ WriteBuffer
    BY <1>2, <2>3 DEF ReadBuffer, WriteBuffer
  <2>4. CASE WriteArray
    BY <1>2, <1>4, <2>4
  <2>5. QED
    BY <2>1, <2>2, <2>3, <2>4
<1>7. QED
  BY <1>5, <1>6

(* What has been written of a value, in any kind, byte order and place in  *)
(* the node list, reads back as that value until something else is written *)
(* or the array is cleared, for every width of the integers and node size. *)
THEOREM WrittenReadsBack == StreamSpec => []RoundTrip
<1> DEFINE Inv == StreamInv /\ LastInv
<1>1. StreamInit => Inv
  BY StreamInitial DEF StreamInit, Init, LastInv
<1>2. Inv /\ [StreamNext]_allVars => Inv'
  <2> SUFFICES ASSUME StreamInv, LastInv, [StreamNext]_allVars
               PROVE  StreamInv' /\ LastInv'
    OBVIOUS
  <2>1. StreamInv'
    BY StreamStep
  <2>2. IsArray(ba) /\ ba.m_size \in Nat
    BY DEF StreamInv, ByteInv, IsArray, Shaped
  <2>3. ASSUME ba' = ba, last' = last
        PROVE  LastInv'
    BY <2>2, <2>3, LastKept
  <2>4. CASE Next
    <3>1. ByteInv
      BY DEF StreamInv
    <3>2. QED
      BY <2>1, <2>4, <3>1, NextLast
  <2>5. ASSUME NEW op \in {"read", "write"}, NEW on \in {"ba", "buffer"}, NEW n \in Lengths,
               Call(op, on, n)
        PROVE  LastInv'
    <3>1. ba' = ba /\ (last' = last \/ last' = Nothing)
      BY <2>5 DEF Call
    <3>2. CASE last' = last
      BY <2>3, <3>1, <3>2
    <3>3. CASE last' = Nothing
      BY <3>3 DEF LastInv
    <3>4. QED
      BY <3>1, <3>2, <3>3
  <2>6. CASE Turn
    BY <2>1, <2>6, TurnLast
  <2>7. CASE Close \/ PeerSends \/ PeerHangsUp \/ UNCHANGED allVars
    <3>1. ba' = ba /\ last' = last
      BY <2>7 DEF Close, PeerSends, PeerHangsUp, allVars, vars
    <3>2. QED
      BY <2>1, <2>2, <3>1, LastKept
  <2>8. QED
    BY <2>1, <2>4, <2>5, <2>6, <2>7 DEF StreamNext, ArrayOperation
<1>3. Inv => RoundTrip
  <2> SUFFICES ASSUME StreamInv, LastInv, last # Nothing
               PROVE  LET s == Encode(last.kind, last.value, last.endian)
                          o == Decode(last.kind, Slice(last.pos, ba.m_size - last.pos), last.endian)
                      IN  /\ Slice(last.pos, Len(s)) = s
                          /\ last.kind # "raw" =>
                                 o.value = last.value /\ o.taken = Len(s) /\ ~o.throws
    BY DEF RoundTrip
  <2> DEFINE kind == last.kind
             p == last.pos
             e == last.endian
             v == last.value
             s == Encode(kind, v, e)
             n == ba.m_size - p
             w == Slice(p, n)
             o == Decode(kind, w, e)
  <2>1. kind \in Kinds /\ (kind # "raw" => v \in Inputs[kind]) /\ Holds(ba, p, s)
    BY DEF LastInv
  <2> HIDE DEF kind, p, e, v
  <2>a. s = Encode(kind, v, e)
    OBVIOUS
  <2> HIDE DEF s
  <2>2. IsArray(ba) /\ ba.m_size \in Nat /\ \A i \in 0 .. ba.m_size - 1 : ba.mem[i] \in Cells
    BY DEF StreamInv, ByteInv, IsArray, Shaped
  <2>3. /\ p \in Nat /\ s \in Seq(Cells) /\ p + Len(s) <= ba.m_size /\ Len(s) \in Nat
        /\ \A i \in 1 .. Len(s) : ba.mem[p + i - 1] = s[i]
    BY <2>1, LenProperties DEF Holds
  <2>4. n \in Nat /\ p + n <= ba.m_size /\ Len(s) <= n
    BY <2>2, <2>3
  <2> HIDE DEF n
  <2>5. Slice(p, Len(s)) = s
    <3>1. Slice(p, Len(s)) = [i \in 1 .. Len(s) |-> ba.mem[p + i - 1]]
      BY <2>2, <2>3, SliceOf DEF Piece
    <3>2. s = [i \in 1 .. Len(s) |-> s[i]]
      BY <2>3, SeqByElements
    <3>3. QED
      BY <2>3, <3>1, <3>2
  <2>6. w = [i \in 1 .. n |-> ba.mem[p + i - 1]]
    BY <2>2, <2>3, <2>4, SliceOf DEF Piece
  <2>b. w = Slice(p, n)
    OBVIOUS
  <2> HIDE DEF w
  <2>7. w \in Seq(Cells) /\ Len(w) = n /\ \A i \in 1 .. n : w[i] = ba.mem[p + i - 1]
    <3>1. \A i \in 1 .. n : p + i - 1 \in 0 .. ba.m_size - 1
      BY <2>2, <2>3, <2>4
    <3>2. \A i \in 1 .. n : ba.mem[p + i - 1] \in Cells
      BY <2>2, <3>1
    <3>3. QED
      BY <2>4, <2>6, <3>2
  <2>8. Begins(w, s)
    BY <2>3, <2>4, <2>7 DEF Begins
  <2>9. kind # "raw" => o.value = v /\ o.taken = Len(s) /\ ~o.throws
    <3> SUFFICES ASSUME kind # "raw"
                 PROVE  o.value = v /\ o.taken = Len(s) /\ ~o.throws
      OBVIOUS
    <3>1. kind \in Kinds \ {"raw"} /\ v \in Inputs[kind]
      BY <2>1
    <3>2. o = Decode(kind, w, e)
      OBVIOUS
    <3> HIDE DEF o
    <3>3. QED
      BY <2>7, <2>8, <2>a, <3>1, <3>2, DecodeEncode
  <2>10. QED
    BY <2>5, <2>9 DEF kind, p, e, v, s, n, w, o
<1>4. QED
  BY <1>1, <1>2, <1>3, PTL DEF StreamSpec
=============================================================================
