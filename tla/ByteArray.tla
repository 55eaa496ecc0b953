------------------------------ MODULE ByteArray ------------------------------
(***************************************************************************)
(* sylar/bytearray.{h,cc}: a byte array in a list of nodes of m_baseSize   *)
(* bytes, read and written at a position that m_cur, a pointer into the    *)
(* list, has to follow by hand.                                            *)
(*                                                                         *)
(* A ByteArray is a record of its members.  The nodes are numbered from 0  *)
(* and node k holds the bytes k * BaseSize .. (k + 1) * BaseSize - 1 of    *)
(* mem, so a loop that copies n bytes from offset npos of node k and       *)
(* follows the next pointers touches the n bytes from k * BaseSize + npos. *)
(* The radix of a byte and of a varint digit, 256 and 128 in the code, are *)
(* 2 * K and K.  The array belongs to one fiber: its operations are atomic.*)
(***************************************************************************)
EXTENDS Integers, Sequences, FiniteSets, SequencesExt

CONSTANTS
    BaseSize,    (* m_baseSize                                              *)
    K,           (* the radix of a varint digit: 128                        *)
    VarBytes,    (* bytes of the longest varint: 5, or 10 of 64 bits        *)
    Modulus,     (* of the integers written as varints: 2^32, 2^64          *)
    FixBytes,    (* bytes of a fixed integer of more than one byte          *)
    MaxSize,     (* bound: no operation goes beyond this position           *)
    MaxWrites,   (* bound: writes, and calls of the stream, in a behaviour  *)
    Garbage,     (* bound: the values a byte nobody has written reads as    *)
    Inputs       (* [Kinds -> sets of the values that are written]          *)

NULL    == -1
Unknown == -1                 (* a byte of new char[] that nobody has written *)
Radix   == 2 * K
Byte    == 0 .. Radix - 1
LITTLE  == "little"
BIG     == "big"
SYLAR_BYTE_ORDER == LITTLE

(* "raw": bytes as they are; "int", "uint": FixBytes bytes in m_endian;       *)
(* "vint", "vuint": varints; "strF", "strV": a string after its length, as a  *)
(* fixed integer or a varint.  A float is written as the integer of its bits. *)
Kinds == {"raw", "int", "uint", "vint", "vuint", "strF", "strV"}

ASSUME ByteArrayAssumption ==
    /\ BaseSize \in Nat \ {0} /\ K \in Nat \ {0, 1}
    /\ VarBytes \in Nat \ {0} /\ FixBytes \in Nat \ {0, 1}
    /\ Modulus \in K ^ (VarBytes - 1) + 1 .. K ^ VarBytes
    /\ MaxSize \in Nat /\ MaxWrites \in Nat /\ Garbage \subseteq Byte /\ Garbage # {}
    /\ DOMAIN Inputs = Kinds

(* What is written is of its C type: a fixed integer and the length of a      *)
(* string fit FixBytes bytes, a varint and its length the Modulus.            *)
ASSUME InputAssumption ==
    /\ Inputs["uint"] \subseteq 0 .. Radix ^ FixBytes - 1
    /\ Inputs["vuint"] \subseteq 0 .. Modulus - 1
    /\ Inputs["int"] \cup Inputs["vint"] \subseteq Int
    /\ \A v \in Inputs["int"] : 2 * v \in -(Radix ^ FixBytes) .. Radix ^ FixBytes - 1
    /\ \A v \in Inputs["vint"] : 2 * v \in -Modulus .. Modulus - 1
    /\ \A kind \in {"raw", "strF", "strV"} : Inputs[kind] \subseteq Seq(Byte)
    /\ \A v \in Inputs["strF"] : Len(v) < Radix ^ FixBytes
    /\ \A v \in Inputs["strV"] : Len(v) < Modulus

(* Arithmetic that the provers do not know: the definition of ^.              *)
ASSUME PowerAssumption ==
    \A r \in {K, Radix} : /\ r ^ 0 = 1
                          /\ \A i \in 0 .. VarBytes + FixBytes : r ^ (i + 1) = r * r ^ i

VARIABLES ba,      (* the ByteArray                                         *)
          ret,     (* the bytes the last operation has taken                *)
          threw,   (* has it thrown out_of_range?                           *)
          fault,   (* has it dereferenced a null m_cur?                     *)
          last,    (* history: the last value written                       *)
          writes   (* how many have been                                    *)

vars == <<ba, ret, threw, fault, last, writes>>

-----------------------------------------------------------------------------
(* The node list.                                                            *)

ByteArrayOf(base) ==
    [mem |-> [i \in 0 .. base - 1 |-> Unknown], m_position |-> 0,
     m_capacity |-> base, m_size |-> 0, m_endian |-> BIG, m_cur |-> 0]

Nodes(b)       == Cardinality(DOMAIN b.mem) \div BaseSize
getReadSize(b) == b.m_size - b.m_position
getCapacity(b) == b.m_capacity - b.m_position

(* The node of address a, or the null next pointer of the last one.          *)
NodeAt(b, a) == IF a \div BaseSize < Nodes(b) THEN a \div BaseSize ELSE NULL

(* The address a loop starts at: offset pos % m_baseSize of node k.          *)
Start(k, pos) == k * BaseSize + (pos % BaseSize)

(* Does a loop over n bytes from there meet a null node?                     *)
Misses(b, k, pos, n) == k = NULL \/ Start(k, pos) + n > Cardinality(DOMAIN b.mem)

BytesFrom(b, k, pos, n) == [i \in 1 .. n |-> b.mem[Start(k, pos) + i - 1]]

(* Mutant: m_cur is left as it is.                                           *)
AddCapacityKeepsCur(b, size) ==
    LET count == (size - getCapacity(b) + BaseSize - 1) \div BaseSize
        n     == Cardinality(DOMAIN b.mem)
    IN  IF getCapacity(b) >= size THEN b
        ELSE [b EXCEPT
                !.mem = [i \in 0 .. n + count * BaseSize - 1 |->
                             IF i < n THEN b.mem[i] ELSE Unknown],
                !.m_capacity = @ + count * BaseSize]

addCapacity(b, size) ==
    LET count == (size - getCapacity(b) + BaseSize - 1) \div BaseSize
        n     == Cardinality(DOMAIN b.mem)
    IN  IF size = 0 \/ getCapacity(b) >= size THEN b
        ELSE [b EXCEPT
                !.mem = [i \in 0 .. n + count * BaseSize - 1 |->
                             IF i < n THEN b.mem[i] ELSE Unknown],
                !.m_capacity = @ + count * BaseSize,
                !.m_cur = IF getCapacity(b) = 0 THEN Nodes(b) ELSE @]

(* memcpy() into the nodes from address a on.                                *)
Filled(b, a, s) ==
    [b EXCEPT !.mem = [i \in DOMAIN @ |->
                           IF i \in a .. a + Len(s) - 1 THEN s[i - a + 1] ELSE @[i]]]

(* The position moves n bytes, m_cur node by node.                           *)
Advanced(b, n) ==
    [b EXCEPT !.m_position = @ + n,
              !.m_cur = NodeAt(b, Start(b.m_cur, b.m_position) + n)]

(* Mutant: the size becomes the position even when there is more behind.     *)
WriteTruncates(b, s) ==
    LET c == addCapacity(b, Len(s))
        d == Advanced(Filled(c, Start(c.m_cur, c.m_position), s), Len(s))
    IN  IF s = <<>> THEN b ELSE [d EXCEPT !.m_size = d.m_position]

write(b, s) ==
    LET c == addCapacity(b, Len(s))
        d == Advanced(Filled(c, Start(c.m_cur, c.m_position), s), Len(s))
    IN  IF s = <<>> THEN b
        ELSE [d EXCEPT !.m_size = IF d.m_position > @ THEN d.m_position ELSE @]

writeFaults(b, s) ==
    LET c == addCapacity(b, Len(s))
    IN  s # <<>> /\ Misses(c, c.m_cur, c.m_position, Len(s))

(* Mutants: the size does not follow; a node boundary stays in the old node. *)
SetPositionKeepsSize(b, v) == [b EXCEPT !.m_position = v, !.m_cur = NodeAt(b, v)]
SetPositionStays(b, v) ==
    [b EXCEPT !.m_position = v,
              !.m_size = IF v > @ THEN v ELSE @,
              !.m_cur = IF v > 0 THEN (v - 1) \div BaseSize ELSE 0]

setPosition(b, v) ==
    [b EXCEPT !.m_position = v,
              !.m_size = IF v > @ THEN v ELSE @,
              !.m_cur = NodeAt(b, v)]

clear(b) ==
    [b EXCEPT !.mem = [i \in 0 .. BaseSize - 1 |-> @[i]],
              !.m_position = 0, !.m_size = 0,
              !.m_capacity = BaseSize, !.m_cur = 0]

-----------------------------------------------------------------------------
(* The formats.                                                              *)

byteswap(s) == Reverse(s)

(* The number whose digits in the radix r are d, the lowest first.           *)
DigitSum(d, r) ==
    LET sum[i \in 0 .. Len(d)] == IF i = 0 THEN 0 ELSE sum[i - 1] + d[i] * r ^ (i - 1)
    IN  sum[Len(d)]

(* An n-byte integer as the machine lays it out, and back.                   *)
HostBytes(v, n) == [i \in 1 .. n |-> (v \div Radix ^ (i - 1)) % Radix]
HostValue(s)    == DigitSum(s, Radix)

InOrder(e, s) == IF e # SYLAR_BYTE_ORDER THEN byteswap(s) ELSE s
writeFixed(e, v) == InOrder(e, HostBytes(v % Radix ^ FixBytes, FixBytes))
readFixed(e, s)  == HostValue(InOrder(e, s))
Signed(v) == IF 2 * v >= Radix ^ FixBytes THEN v - Radix ^ FixBytes ELSE v

(* Mutant: negative numbers are not moved off the even ones.                 *)
EncodeSignLost(v) == (IF v < 0 THEN (-v) * 2 ELSE v * 2) % Modulus
EncodeZigzag(v) == (IF v < 0 THEN (-v) * 2 - 1 ELSE v * 2) % Modulus
(* (v >> 1) ^ -(v & 1)                                                       *)
DecodeZigzag(v) == IF v % 2 = 0 THEN v \div 2 ELSE -(v \div 2) - 1

VarLen(v) == CHOOSE n \in 1 .. VarBytes :
                 v < K ^ n /\ \A m \in 1 .. n - 1 : v >= K ^ m
writeVarint(v) ==
    [i \in 1 .. VarLen(v) |->
        ((v \div K ^ (i - 1)) % K) + (IF i < VarLen(v) THEN K ELSE 0)]

(* The bytes readUint() takes of s: up to the first without the mark, and no *)
(* more than VarBytes; 0 if s ends before.                                   *)
VarTaken(s) ==
    LET ends == {n \in 1 .. Len(s) : s[n] < K \/ n = VarBytes}
    IN  IF ends = {} THEN 0 ELSE CHOOSE n \in ends : \A m \in ends : n <= m
readVarint(s) == DigitSum([i \in 1 .. Len(s) |-> s[i] % K], K) % Modulus

Encode(kind, v, e) ==
    CASE kind = "raw"                -> v
      [] kind \in {"int", "uint"}    -> writeFixed(e, v)
      [] kind = "vuint"              -> writeVarint(v)
      [] kind = "vint"               -> writeVarint(EncodeZigzag(v))
      [] kind = "strF"               -> writeFixed(e, Len(v)) \o v
      [] kind = "strV"               -> writeVarint(Len(v)) \o v

(* What reading a kind does when s is what can be read: the bytes it takes,  *)
(* whether it then throws, the value, and the bytes taken when it asks for   *)
(* none (-1: it does not).                                                   *)
Outcome(t, w, v, z) == [taken |-> t, throws |-> w, value |-> v, none |-> z]

readString(s, t, len) ==
    IF len > Len(s) - t THEN Outcome(t, TRUE, <<>>, -1)
    ELSE Outcome(t + len, FALSE, SubSeq(s, t + 1, t + len),
                 IF len = 0 THEN t ELSE -1)

Decode(kind, s, e) ==
    LET short == Len(s) < FixBytes
        fixed == readFixed(e, SubSeq(s, 1, FixBytes))
        n     == VarTaken(s)
        var   == readVarint(SubSeq(s, 1, n))
    IN  CASE kind \in {"int", "uint", "strF"} /\ short -> Outcome(0, TRUE, 0, -1)
          [] kind \in {"vint", "vuint", "strV"} /\ n = 0 ->
                 Outcome(Len(s), TRUE, 0, -1)
          [] kind = "uint" /\ ~short -> Outcome(FixBytes, FALSE, fixed, -1)
          [] kind = "int" /\ ~short  -> Outcome(FixBytes, FALSE, Signed(fixed), -1)
          [] kind = "vuint" /\ n > 0 -> Outcome(n, FALSE, var, -1)
          [] kind = "vint" /\ n > 0  -> Outcome(n, FALSE, DecodeZigzag(var), -1)
          [] kind = "strF" /\ ~short -> readString(s, FixBytes, fixed)
          [] kind = "strV" /\ n > 0  -> readString(s, n, var)

-----------------------------------------------------------------------------
(* The operations that only look.                                            *)

(* read(buf, size, position): from m_cur, not from the node of position.     *)
ReadAtFaults(b, n, p) == n > 0 /\ Misses(b, b.m_cur, p, n)
readAt(b, n, p) == BytesFrom(b, b.m_cur, p, n)

toString(b) == IF getReadSize(b) = 0 THEN <<>>
               ELSE readAt(b, getReadSize(b), b.m_position)

(* Mutant: from m_cur, like read-at.                                         *)
ReadBuffersFromCur(b, len, p) ==
    LET n == IF len > getReadSize(b) THEN getReadSize(b) ELSE len
    IN  IF n = 0 THEN <<>> ELSE BytesFrom(b, b.m_cur, p, n)

(* The pieces getReadBuffers(buffers, len, position) finds from the root on. *)
getReadBuffersAt(b, len, p) ==
    LET n == IF len > getReadSize(b) THEN getReadSize(b) ELSE len
    IN  IF n = 0 THEN <<>> ELSE BytesFrom(b, NodeAt(b, p), p, n)

(* What writeToFile() writes, node by node: a turn of its loop writes bytes   *)
(* or moves to the next node.  It is bad to write a negative length or to     *)
(* reach a null node.                                                         *)
FileLen(rs, pos) == (IF rs > BaseSize THEN BaseSize ELSE rs) - (pos % BaseSize)
FileChunks(b) ==
    LET turns == b.m_capacity + 1
        chunk[k \in 0 .. turns] ==
            IF k = 0
            THEN [left |-> getReadSize(b), pos |-> b.m_position,
                  node |-> b.m_cur, out |-> <<>>, bad |-> FALSE]
            ELSE LET c == chunk[k - 1]
                     n == FileLen(c.left, c.pos)
                 IN  IF c.left <= 0 \/ c.bad THEN c
                     ELSE IF n < 0 \/ Misses(b, c.node, c.pos, n)
                     THEN [c EXCEPT !.bad = TRUE]
                     ELSE [left |-> c.left - n, pos |-> c.pos + n,
                           node |-> NodeAt(b, (c.node + 1) * BaseSize),
                           out  |-> c.out \o BytesFrom(b, c.node, c.pos, n),
                           bad  |-> FALSE]
    IN  chunk[turns]
writeToFile(b) == FileChunks(b).out

-----------------------------------------------------------------------------
(* The operations that change it.                                            *)

Nothing == [kind |-> "none"]

Init ==
    /\ ba = ByteArrayOf(BaseSize)
    /\ ret = <<>> /\ threw = FALSE /\ fault = FALSE /\ last = Nothing
    /\ writes = 0

(* The bytes s, kind's form of v, go in at the position.                     *)
Put(b, kind, v, s) ==
    /\ writes < MaxWrites /\ writes' = writes + 1
    /\ ba.m_position + Len(s) <= MaxSize
    /\ ba' = b
    /\ fault' = writeFaults(ba, s)
    /\ last' = [kind |-> kind, value |-> v, pos |-> ba.m_position,
                endian |-> ba.m_endian]
    /\ ret' = <<>> /\ threw' = FALSE

(* The write functions: a value in its format.                               *)
Write(kind, v) ==
    LET s == Encode(kind, v, ba.m_endian)
    IN  ~fault /\ Put(write(ba, s), kind, v, s)

(* readFromFile(): the file comes in pieces of m_baseSize bytes.             *)
readFromFile(s) ==
    LET whole == Len(s) \div BaseSize
        piece(i) == SubSeq(s, i * BaseSize + 1,
                           IF i < whole THEN (i + 1) * BaseSize ELSE Len(s))
        copied[i \in 0 .. whole + 1] ==
            IF i = 0 THEN ba ELSE write(copied[i - 1], piece(i - 1))
    IN  copied[whole + 1]

ReadFromFile(s) == ~fault /\ Put(readFromFile(s), "raw", s, s)

(* What the unread bytes may read as.                                        *)
Readings ==
    LET s == BytesFrom(ba, ba.m_cur, ba.m_position, getReadSize(ba))
        u == {i \in 1 .. Len(s) : s[i] = Unknown}
    IN  {[i \in 1 .. Len(s) |-> IF i \in u THEN g[i] ELSE s[i]] : g \in [u -> Garbage]}

(* The bytes of s are taken one read after the other; a read of no bytes     *)
(* loads m_cur->size all the same, which the optimiser may or may not keep.  *)
Take(s, throws, none) ==
    /\ ba' = IF s = <<>> THEN ba ELSE Advanced(ba, Len(s))
    /\ ret' = s /\ threw' = throws
    /\ \/ fault' = FALSE
       \/ /\ none # -1 /\ fault' = TRUE
          /\ (IF none = 0 THEN ba.m_cur
              ELSE NodeAt(ba, Start(ba.m_cur, ba.m_position) + none)) = NULL
    /\ UNCHANGED <<last, writes>>

(* read(buf, size)                                                           *)
Read(n) ==
    /\ ~fault
    /\ IF n > getReadSize(ba) THEN Take(<<>>, TRUE, -1)
       ELSE \E w \in Readings :
                Take(SubSeq(w, 1, n), FALSE, IF n = 0 THEN 0 ELSE -1)

(* The read functions: a value in its format.                                *)
ReadValue(kind) ==
    /\ ~fault
    /\ \E w \in Readings :
           LET o == Decode(kind, w, ba.m_endian)
           IN  Take(SubSeq(w, 1, o.taken), o.throws, o.none)

SetPosition(v) ==
    /\ ~fault
    /\ ba' = IF v > ba.m_capacity THEN ba ELSE setPosition(ba, v)
    /\ threw' = (v > ba.m_capacity)
    /\ ret' = <<>> /\ UNCHANGED <<fault, last, writes>>

Clear ==
    /\ ~fault
    /\ ba' = clear(ba)
    /\ ret' = <<>> /\ threw' = FALSE /\ last' = Nothing
    /\ UNCHANGED <<fault, writes>>

SetIsLittleEndian(val) ==
    /\ ~fault
    /\ ba' = [ba EXCEPT !.m_endian = IF val THEN LITTLE ELSE BIG]
    /\ ret' = <<>> /\ threw' = FALSE /\ UNCHANGED <<fault, last, writes>>

Next ==
    \/ \E kind \in Kinds : \E v \in Inputs[kind] : Write(kind, v)
    \/ \E s \in Inputs["raw"] : ReadFromFile(s)
    \/ \E n \in 0 .. MaxSize : Read(n) \/ SetPosition(n)
    \/ \E kind \in Kinds \ {"raw"} : ReadValue(kind)
    \/ \E val \in BOOLEAN : SetIsLittleEndian(val)
    \/ Clear

Spec == Init /\ [][Next]_vars

-----------------------------------------------------------------------------
(* Properties.                                                               *)

TypeOK ==
    /\ ba.mem \in [0 .. ba.m_capacity - 1 -> Byte \cup {Unknown}]
    /\ ba.m_capacity \in Nat /\ ba.m_capacity % BaseSize = 0
    /\ ba.m_position \in 0 .. ba.m_size /\ ba.m_size \in 0 .. ba.m_capacity
    /\ ba.m_cur \in 0 .. Nodes(ba) - 1 \cup {NULL}
    /\ ba.m_endian \in {LITTLE, BIG}
    /\ ret \in Seq(Byte) /\ threw \in BOOLEAN /\ fault \in BOOLEAN

(* write(), read(), setPosition(), clear() and addCapacity() move m_cur each  *)
(* in its own way; m_cur is always the node of m_position, and null exactly   *)
(* when the position is at the end of the capacity.                           *)
CurFollowsPosition ==
    ba.m_cur = IF ba.m_position = ba.m_capacity THEN NULL
               ELSE ba.m_position \div BaseSize

(* No operation uses a null node, except a read of no bytes at the end of the *)
(* capacity (an empty string whose length is the last thing that fits).       *)
FaultOnlyOnEmptyRead ==
    fault => ba.m_position = ba.m_capacity /\ ~threw

content == [i \in 0 .. ba.m_size - 1 |-> ba.mem[i]]
Slice(p, n) == [i \in 1 .. n |-> content[p + i - 1]]

(* What has been written reads back, from wherever in the node list it is     *)
(* and across any node boundary: the read function of its kind, in the byte   *)
(* order of the time, takes the bytes written and returns the value.          *)
RoundTrip ==
    last # Nothing =>
        LET s == Encode(last.kind, last.value, last.endian)
            o == Decode(last.kind, Slice(last.pos, ba.m_size - last.pos), last.endian)
        IN  /\ Slice(last.pos, Len(s)) = s
            /\ last.kind # "raw" =>
                   o.value = last.value /\ o.taken = Len(s) /\ ~o.throws

(* The operations that only look: toString() shows the whole rest, and        *)
(* getReadBuffers() the part it is asked for.  Read-at shows the bytes at the  *)
(* offset of the position it is asked for in the node of m_position, so the    *)
(* right ones within that node only.  writeToFile() writes the rest, unless    *)
(* the position is inside a node and less than a node is left: then it always  *)
(* leaves the node list or writes a negative length.                           *)
LookingIsExact ==
    LET rest == Slice(ba.m_position, getReadSize(ba))
        node == ba.m_position - (ba.m_position % BaseSize)
    IN  /\ toString(ba) = rest
        /\ \A p \in 0 .. ba.m_position, n \in 0 .. getReadSize(ba) :
               getReadBuffersAt(ba, n, p) = Slice(p, n)
        /\ \A p \in 0 .. ba.m_size, n \in 1 .. ba.m_size :
               LET at == node + (p % BaseSize)
               IN  at + n <= ba.m_size =>
                       ~ReadAtFaults(ba, n, p) /\ readAt(ba, n, p) = Slice(at, n)
        /\ FileChunks(ba).bad <=> /\ ba.m_position % BaseSize > 0
                                  /\ getReadSize(ba) \in 1 .. BaseSize - 1
        /\ ~FileChunks(ba).bad => writeToFile(ba) = rest

(* The node list implements a plain sequence of bytes with a position.        *)
Store == INSTANCE ByteStore WITH position <- ba.m_position, result <- ret
ImplementsByteStore == Store!Spec
=============================================================================
