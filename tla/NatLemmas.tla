------------------------------ MODULE NatLemmas ------------------------------
(***************************************************************************)
(* Least elements of sets of naturals: what CHOOSE of the smallest finds,  *)
(* and the least counterexample of a claim about all naturals; the digits  *)
(* of a number; what FlattenSeq() gives.                                   *)
(***************************************************************************)
EXTENDS Integers, SequencesExt, SequenceTheorems, WellFoundedInduction, TLAPS

(* < on the naturals as a set of pairs. *)
LtRel == OpToRel(<, Nat)

(* < has no infinite descent. *)
LEMMA LtRelWellFounded == IsWellFoundedOn(LtRel, Nat)
BY NatLessThanWellFounded, Zenon DEF LtRel

(* The pairs of LtRel. *)
LEMMA LtRelMember == \A i, j \in Nat : i < j => <<i, j>> \in LtRel
BY DEF LtRel, OpToRel

(* A non-empty set of naturals has a least element. *)
LEMMA LeastNat ==
    ASSUME NEW S, S \subseteq Nat, S # {}
    PROVE  \E i \in S : \A j \in S \ {i} : i < j
<1>1. PICK i \in S : \A j \in S : ~ (<<j, i>> \in LtRel)
  BY LtRelWellFounded, WFMin
<1>2. \A j \in S : ~(j < i)
  BY <1>1, LtRelMember
<1>3. QED
  BY <1>2

(* A set that has 0 and with each natural the next one has all of them:    *)
(* induction, on a set and so without an operator to instantiate.          *)
LEMMA InductiveSet ==
    ASSUME NEW S, 0 \in S, \A i \in Nat : i \in S => i + 1 \in S
    PROVE  Nat \subseteq S
<1> SUFFICES ASSUME Nat \ S # {}
             PROVE  FALSE
  OBVIOUS
<1>1. PICK n \in Nat \ S : \A j \in (Nat \ S) \ {n} : n < j
  BY LeastNat
<1>2. n \in Nat /\ n # 0 /\ n \notin S
  OBVIOUS
<1>3. n - 1 \in Nat /\ ~(n < n - 1) /\ (n - 1) + 1 = n /\ n - 1 # n
  BY <1>2
<1>4. n - 1 \in S
  BY <1>1, <1>3
<1>5. QED
  BY <1>2, <1>3, <1>4

(* Quotient and remainder. *)
LEMMA Quotient ==
    ASSUME NEW a \in Nat, NEW b \in Nat \ {0}
    PROVE  a \div b \in Nat /\ a % b \in 0 .. b - 1 /\ a = (a \div b) * b + (a % b)
<1>1. a \div b \in Nat
  OBVIOUS
<1>2. a % b \in 0 .. b - 1
  OBVIOUS
<1>3. (a \div b) * b + (a % b) = a
  OBVIOUS
<1>4. QED
  BY <1>1, <1>2, <1>3

(* There is only one quotient with a remainder below the divisor. *)
LEMMA QuotientIsUnique ==
    ASSUME NEW a \in Nat, NEW b \in Nat \ {0}, NEW q \in Nat, NEW r \in 0 .. b - 1,
           a = q * b + r
    PROVE  a \div b = q /\ a % b = r
<1> DEFINE p == a \div b
           s == a % b
<1>1. p \in Nat /\ s \in 0 .. b - 1 /\ a = p * b + s
  BY Quotient
<1> HIDE DEF p, s
<1>2. ~(p < q)
  <2> SUFFICES ASSUME p < q
               PROVE  FALSE
    OBVIOUS
  <2>1. PICK k \in Nat : q = p + 1 + k
    <3>1. q - p - 1 \in Nat /\ q = p + 1 + (q - p - 1)
      BY <1>1
    <3>2. QED
      BY <3>1
  <2>2. q * b = p * b + b + k * b /\ k * b \in Nat /\ p * b \in Nat
    BY <1>1, <2>1
  <2>3. QED
    BY <1>1, <2>2
<1>3. ~(q < p)
  <2> SUFFICES ASSUME q < p
               PROVE  FALSE
    OBVIOUS
  <2>1. PICK k \in Nat : p = q + 1 + k
    <3>1. p - q - 1 \in Nat /\ p = q + 1 + (p - q - 1)
      BY <1>1
    <3>2. QED
      BY <3>1
  <2>2. p * b = q * b + b + k * b /\ k * b \in Nat /\ q * b \in Nat
    BY <1>1, <2>1
  <2>3. QED
    BY <1>1, <2>2
<1>4. p = q
  BY <1>1, <1>2, <1>3
<1>5. s = r
  <2> DEFINE t == q * b
  <2>1. t \in Nat /\ a = t + r /\ a = t + s
    BY <1>1, <1>4
  <2> HIDE DEF t
  <2>2. QED
    BY <1>1, <2>1
<1>6. QED
  BY <1>4, <1>5 DEF p, s

(* Dividing twice is dividing by the product. *)
LEMMA QuotientOfQuotient ==
    ASSUME NEW v \in Nat, NEW p \in Nat \ {0}, NEW r \in Nat \ {0}
    PROVE  (v \div p) \div r = v \div (r * p) /\ r * p \in Nat \ {0}
<1> DEFINE q == v \div p
           s == v % p
           t == q \div r
           u == q % r
<1>1. q \in Nat /\ s \in 0 .. p - 1 /\ v = q * p + s
  BY Quotient
<1> HIDE DEF q, s
<1>2. t \in Nat /\ u \in 0 .. r - 1 /\ q = t * r + u
  BY <1>1, Quotient
<1> HIDE DEF t, u
<1> DEFINE b == r * p
           w == u * p + s
<1>3. b \in Nat \ {0}
  OBVIOUS
<1>4. w \in 0 .. b - 1
  <2>1. PICK k \in Nat : r = u + 1 + k
    <3>1. r - u - 1 \in Nat /\ r = u + 1 + (r - u - 1)
      BY <1>2
    <3>2. QED
      BY <3>1
  <2>2. u \in Nat
    BY <1>2
  <2>3. b = u * p + p + k * p /\ u * p \in Nat /\ k * p \in Nat
    BY <2>1, <2>2
  <2>4. QED
    BY <1>1, <2>3
<1>5. v = t * b + w
  <2>1. u \in Nat
    BY <1>2
  <2>2. q * p = (t * r) * p + u * p
    BY <1>2, <2>1
  <2>3. (t * r) * p = t * b
    BY <1>2
  <2>4. v = (t * b + u * p) + s
    BY <1>1, <2>2, <2>3
  <2>5. t * b \in Nat /\ u * p \in Nat /\ s \in Nat
    BY <1>1, <1>2, <1>3, <2>1
  <2>6. QED
    BY <2>4, <2>5
<1> HIDE DEF b, w
<1>6. v \div b = t
  BY <1>2, <1>3, <1>4, <1>5, QuotientIsUnique
<1>7. QED
  BY <1>3, <1>6 DEF b, t, q

(* f sums up the n digits of v in radix r, with the powers P of r. *)
SumsDigits(f, v, r, P, n) ==
    /\ P[0] = 1 /\ \A i \in 0 .. n : P[i] \in Nat \ {0}
    /\ \A i \in 1 .. n : P[i] = r * P[i - 1]
    /\ f[0] = 0
    /\ \A i \in 1 .. n : f[i] = f[i - 1] + ((v \div P[i - 1]) % r) * P[i - 1]

(* The digits of a number, as many as it has, sum up to it. *)
LEMMA DigitsOfNumber ==
    ASSUME NEW r \in Nat \ {0}, NEW n \in Nat, NEW v \in Nat, NEW P, NEW f,
           SumsDigits(f, v, r, P, n), v < P[n]
    PROVE  f[n] = v
<1> USE DEF SumsDigits
<1> DEFINE S == {i \in Nat : i <= n => f[i] \in Nat /\ v = f[i] + (v \div P[i]) * P[i]}
<1>1. 0 \in S
  <2>1. v \div 1 = v
    OBVIOUS
  <2>2. v = 0 + (v \div 1) * 1
    BY <2>1
  <2>3. QED
    BY <2>2
<1>2. ASSUME NEW i \in Nat, i \in S
      PROVE  i + 1 \in S
  <2> SUFFICES ASSUME i + 1 <= n
               PROVE  f[i + 1] \in Nat /\ v = f[i + 1] + (v \div P[i + 1]) * P[i + 1]
    OBVIOUS
  <2>1. i + 1 \in 1 .. n /\ i \in 0 .. n /\ (i + 1) - 1 = i /\ i <= n
    OBVIOUS
  <2> DEFINE p == P[i]
             g == f[i]
             q == v \div p
             t == q \div r
             u == q % r
  <2>2. p \in Nat \ {0} /\ P[i + 1] = r * p
    BY <2>1
  <2>3. g \in Nat /\ v = g + q * p
    BY <1>2, <2>1
  <2>4. f[i + 1] = g + u * p
    BY <2>1
  <2> HIDE DEF p, g
  <2>5. q \in Nat
    BY <2>2, Quotient
  <2>6. v \div (r * p) = t
    BY <2>2, QuotientOfQuotient
  <2> HIDE DEF q
  <2>7. t \in Nat /\ u \in 0 .. r - 1 /\ q = t * r + u
    BY <2>5, Quotient
  <2> HIDE DEF t, u
  <2>8. u \in Nat
    BY <2>7
  <2>9. q * p = (t * r) * p + u * p
    BY <2>2, <2>7, <2>8
  <2>10. (t * r) * p = t * (r * p)
    BY <2>2, <2>7
  <2>11. t * (r * p) \in Nat /\ u * p \in Nat
    BY <2>2, <2>7, <2>8
  <2>12. v = (g + u * p) + t * (r * p) /\ g + u * p \in Nat
    BY <2>3, <2>9, <2>10, <2>11
  <2>13. QED
    BY <2>2, <2>4, <2>6, <2>12
<1>3. Nat \subseteq S
  <2> HIDE DEF S
  <2>1. QED
    BY <1>1, <1>2, InductiveSet
<1>4. f[n] \in Nat /\ v = f[n] + (v \div P[n]) * P[n]
  BY <1>3
<1>5. P[n] \in Nat \ {0}
  OBVIOUS
<1> DEFINE p == P[n]
<1> HIDE DEF p
<1>6. p \in Nat \ {0} /\ v < p
  BY <1>5 DEF p
<1>7. v \div p = 0
  <2>1. PICK z \in Nat : z = 0
    OBVIOUS
  <2>2. v = z * p + v /\ v \in 0 .. p - 1
    BY <1>6, <2>1
  <2>3. v \div p = z
    BY <1>6, <2>2, QuotientIsUnique
  <2>4. QED
    BY <2>1, <2>3
<1>8. v = f[n] + (v \div p) * p
  BY <1>4 DEF p
<1>9. (v \div p) * p = 0
  BY <1>6, <1>7
<1>10. QED
  BY <1>4, <1>8, <1>9

-----------------------------------------------------------------------------
(* Sequences of sequences *)

(* A concatenation is the one and then the other. *)
LEMMA Joined ==
    ASSUME NEW T, NEW a \in Seq(T), NEW b \in Seq(T), NEW c, c = a \o b
    PROVE  /\ c \in Seq(T) /\ Len(a) \in Nat /\ Len(b) \in Nat /\ Len(c) = Len(a) + Len(b)
           /\ \A k \in 1 .. Len(a) : c[k] = a[k]
           /\ \A k \in 1 .. Len(b) : c[Len(a) + k] = b[k]
OBVIOUS

(* The sequence p consists of the sequences ss: the i-th begins behind the *)
(* place at[i], where the one before it ends, and there is nothing else.   *)
Consists(p, ss, at) ==
    /\ \A i \in 1 .. Len(ss) :
           /\ at[i] \in Nat /\ at[i] + Len(ss[i]) <= Len(p)
           /\ \A k \in 1 .. Len(ss[i]) : p[at[i] + k] = ss[i][k]
    /\ \A q \in 1 .. Len(p) :
           \E i \in 1 .. Len(ss) : \E k \in 1 .. Len(ss[i]) : q = at[i] + k
    /\ \A i \in 1 .. Len(ss) : at[i] = IF i = 1 THEN 0 ELSE at[i - 1] + Len(ss[i - 1])
    /\ Len(p) = IF Len(ss) = 0 THEN 0 ELSE at[Len(ss)] + Len(ss[Len(ss)])

(* FlattenSeq() puts the sequences one after the other. *)
LEMMA FlattenedBlocks ==
    ASSUME NEW T, NEW ss \in Seq(Seq(T)), NEW p, p = FlattenSeq(ss)
    PROVE  p \in Seq(T) /\ \E at : Consists(p, ss, at)
<1>1. Len(ss) \in Nat /\ \A i \in 1 .. Len(ss) : ss[i] \in Seq(T)
  BY LenProperties, ElementOfSeq
<1>2. CASE Len(ss) = 0
  <2>1. p = ss /\ ss = <<>>
    BY <1>2, EmptySeq DEF FlattenSeq
  <2>2. p \in Seq(T) /\ Len(p) = 0
    BY <2>1
  <2>3. \A at : Consists(p, ss, at)
    BY <1>2, <2>2 DEF Consists
  <2>4. QED
    BY <2>2, <2>3
<1>3. CASE Len(ss) # 0
  <2> DEFINE flatten[i \in 1 .. Len(ss)] ==
                 IF i = 1 THEN ss[i] ELSE flatten[i - 1] \o ss[i]
             At(f, i) == IF i = 1 THEN ss[i] ELSE f[i - 1] \o ss[i]
             Fun(n) == \E f : f = [i \in 1 .. n |-> At(f, i)]
             Funs == {n \in Nat : Fun(n)}
  <2>1. p = flatten[Len(ss)]
    BY <1>3 DEF FlattenSeq
  <2>2. Nat \subseteq Funs
    <3>1. 0 \in Funs
      <4> DEFINE f == [i \in 1 .. 0 |-> <<>>]
      <4>1. f = [i \in 1 .. 0 |-> At(f, i)]
        OBVIOUS
      <4>2. QED
        BY <4>1
    <3>2. ASSUME NEW n \in Nat, n \in Funs
          PROVE  n + 1 \in Funs
      <4>1. PICK f : f = [i \in 1 .. n |-> At(f, i)]
        BY <3>2
      <4> DEFINE g == [i \in 1 .. n + 1 |-> At(f, i)]
      <4>2. \A i \in 1 .. n + 1 : At(g, i) = At(f, i)
        <5>1. \A i \in 1 .. n : f[i] = At(f, i) /\ g[i] = At(f, i)
          <6>1. \A i \in 1 .. n : i \in 1 .. n + 1
            BY <3>2
          <6> HIDE DEF At
          <6>2. QED
            BY <4>1, <6>1
        <5> HIDE DEF g
        <5>2. \A i \in 1 .. n + 1 : i # 1 => i - 1 \in 1 .. n
          BY <3>2
        <5>3. QED
          BY <5>1, <5>2
      <4>3. g = [i \in 1 .. n + 1 |-> At(g, i)]
        BY <4>2
      <4>4. Fun(n + 1)
        BY <4>3
      <4> HIDE DEF Fun
      <4>5. QED
        BY <4>4
    <3> HIDE DEF Funs
    <3>3. QED
      BY <3>1, <3>2, InductiveSet
  <2>3. PICK f : f = [i \in 1 .. Len(ss) |-> At(f, i)]
    <3>1. Len(ss) \in Funs
      <4> HIDE DEF Funs
      <4>1. QED
        BY <1>1, <2>2
    <3>2. QED
      BY <3>1
  <2>4. flatten = [i \in 1 .. Len(ss) |->
                       IF i = 1 THEN ss[i] ELSE flatten[i - 1] \o ss[i]]
    BY <2>3, Zenon
  <2> HIDE DEF flatten, Funs, Fun, At
  <2> DEFINE at == [i \in 1 .. Len(ss) |-> IF i = 1 THEN 0 ELSE Len(flatten[i - 1])]
             Placed(m) == \A i \in 1 .. m :
                              /\ at[i] \in Nat /\ at[i] + Len(ss[i]) <= Len(flatten[m])
                              /\ \A k \in 1 .. Len(ss[i]) : flatten[m][at[i] + k] = ss[i][k]
             All(m) == \A q \in 1 .. Len(flatten[m]) :
                           \E i \in 1 .. m : \E k \in 1 .. Len(ss[i]) : q = at[i] + k
             Ok(m) == flatten[m] \in Seq(T) /\ Placed(m) /\ All(m)
             Oks   == {n \in Nat : n \in 1 .. Len(ss) => Ok(n)}
  <2>5. \A i \in 1 .. Len(ss) :
            /\ flatten[i] = IF i = 1 THEN ss[i] ELSE flatten[i - 1] \o ss[i]
            /\ at[i] = IF i = 1 THEN 0 ELSE Len(flatten[i - 1])
    BY <2>4, Zenon
  <2> HIDE DEF at
  <2>6. 1 \in 1 .. Len(ss) => Ok(1)
    <3> SUFFICES ASSUME 1 \in 1 .. Len(ss)
                 PROVE  Ok(1)
      OBVIOUS
    <3>1. flatten[1] = ss[1] /\ at[1] = 0 /\ ss[1] \in Seq(T) /\ Len(ss[1]) \in Nat
      BY <1>1, <2>5
    <3>2. Placed(1)
      BY <3>1
    <3>3. All(1)
      BY <3>1
    <3>4. QED
      BY <3>1, <3>2, <3>3
  <2>7. ASSUME NEW n \in Nat, n # 0, n + 1 \in 1 .. Len(ss), Ok(n)
        PROVE  Ok(n + 1)
    <3> DEFINE a == flatten[n]
               b == ss[n + 1]
               c == flatten[n + 1]
    <3>1. a \in Seq(T) /\ b \in Seq(T) /\ c = a \o b /\ at[n + 1] = Len(a)
      <4>1. (n + 1) - 1 = n /\ n + 1 # 1
        BY <2>7
      <4>2. c = a \o b /\ at[n + 1] = Len(a)
        BY <2>5, <2>7, <4>1
      <4>3. QED
        BY <1>1, <2>7, <4>2
    <3>2. Placed(n) /\ All(n)
      BY <2>7
    <3> HIDE DEF a, b, c
    <3>3. /\ c \in Seq(T) /\ Len(c) = Len(a) + Len(b) /\ Len(a) \in Nat /\ Len(b) \in Nat
          /\ \A k \in 1 .. Len(a) : c[k] = a[k]
          /\ \A k \in 1 .. Len(b) : c[Len(a) + k] = b[k]
      BY <3>1
    <3>4. ASSUME NEW i \in 1 .. n + 1
          PROVE  /\ at[i] \in Nat /\ at[i] + Len(ss[i]) <= Len(c)
                 /\ \A k \in 1 .. Len(ss[i]) : c[at[i] + k] = ss[i][k]
      <4>1. CASE i = n + 1
        <5>1. ss[i] = b /\ at[i] = Len(a)
          BY <3>1, <4>1 DEF b
        <5>2. QED
          BY <3>3, <5>1
      <4>2. CASE i # n + 1
        <5>1. i \in 1 .. n /\ i \in 1 .. Len(ss) /\ Len(ss[i]) \in Nat
          BY <1>1, <2>7, <4>2
        <5>2. /\ at[i] \in Nat /\ at[i] + Len(ss[i]) <= Len(a)
              /\ \A k \in 1 .. Len(ss[i]) : a[at[i] + k] = ss[i][k]
          BY <3>2, <5>1, Zenon DEF a
        <5>3. \A k \in 1 .. Len(ss[i]) : at[i] + k \in 1 .. Len(a)
          <6>1. at[i] \in Nat /\ Len(ss[i]) \in Nat /\ Len(a) \in Nat /\ at[i] + Len(ss[i]) <= Len(a)
            BY <3>3, <5>1, <5>2
          <6>2. PICK m, l, e : m = at[i] /\ l = Len(ss[i]) /\ e = Len(a)
            OBVIOUS
          <6>3. m \in Nat /\ l \in Nat /\ e \in Nat /\ m + l <= e
            BY <6>1, <6>2
          <6>4. \A k \in 1 .. l : m + k \in 1 .. e
            BY <6>3
          <6>5. QED
            BY <6>2, <6>4
        <5>4. \A k \in 1 .. Len(ss[i]) : c[at[i] + k] = ss[i][k]
          BY <3>3, <5>2, <5>3
        <5>5. QED
          BY <3>3, <5>1, <5>2, <5>4
      <4>3. QED
        BY <4>1, <4>2
    <3>5. ASSUME NEW q \in 1 .. Len(c)
          PROVE  \E i \in 1 .. n + 1 : \E k \in 1 .. Len(ss[i]) : q = at[i] + k
      <4>1. CASE q <= Len(a)
        <5>1. q \in 1 .. Len(a)
          BY <3>3, <4>1
        <5>2. \E i \in 1 .. n : \E k \in 1 .. Len(ss[i]) : q = at[i] + k
          BY <3>2, <5>1 DEF a
        <5>3. \A i \in 1 .. n : i \in 1 .. n + 1
          BY <2>7
        <5>4. QED
          BY <5>2, <5>3
      <4>2. CASE ~(q <= Len(a))
        <5>1. q - Len(a) \in 1 .. Len(b) /\ q = Len(a) + (q - Len(a))
          BY <3>3, <4>2
        <5>2. n + 1 \in 1 .. n + 1
          BY <2>7
        <5>3. QED
          BY <3>1, <5>1, <5>2 DEF b
      <4>3. QED
        BY <4>1, <4>2
    <3>6. QED
      BY <3>3, <3>4, <3>5 DEF c
  <2> HIDE DEF Ok
  <2>8. Nat \subseteq Oks
    <3>1. 0 \in Oks
      BY <1>1
    <3>2. ASSUME NEW n \in Nat, n \in Oks
          PROVE  n + 1 \in Oks
      <4>1. CASE n = 0
        BY <2>6, <4>1
      <4>2. CASE n # 0 /\ n + 1 \in 1 .. Len(ss)
        <5>1. n \in 1 .. Len(ss)
          BY <1>1, <4>2
        <5>2. QED
          BY <2>7, <3>2, <4>2, <5>1
      <4>3. CASE n + 1 \notin 1 .. Len(ss)
        BY <4>3
      <4>4. QED
        BY <4>1, <4>2, <4>3
    <3> HIDE DEF Oks
    <3>3. QED
      BY <3>1, <3>2, InductiveSet
  <2>9. Len(ss) \in Oks /\ Len(ss) \in 1 .. Len(ss)
    <3> HIDE DEF Oks
    <3>1. QED
      BY <1>1, <1>3, <2>8
  <2>10. Ok(Len(ss))
    BY <2>9
  <2>11. p \in Seq(T) /\ Placed(Len(ss)) /\ All(Len(ss))
    BY <2>1, <2>10 DEF Ok
  <2>12. \A i \in 1 .. Len(ss) : Len(flatten[i]) = at[i] + Len(ss[i])
    <3> SUFFICES ASSUME NEW i \in 1 .. Len(ss)
                 PROVE  Len(flatten[i]) = at[i] + Len(ss[i])
      OBVIOUS
    <3>1. CASE i = 1
      BY <1>1, <2>5, <3>1
    <3>2. CASE i # 1
      <4>1. i - 1 \in Nat /\ i - 1 \in 1 .. Len(ss)
        BY <1>1, <3>2
      <4>2. i - 1 \in Oks
        <5> HIDE DEF Oks
        <5>1. QED
          BY <2>8, <4>1
      <4>3. flatten[i - 1] \in Seq(T) /\ ss[i] \in Seq(T)
        BY <1>1, <4>1, <4>2 DEF Ok
      <4>4. flatten[i] = flatten[i - 1] \o ss[i] /\ at[i] = Len(flatten[i - 1])
        BY <2>5, <3>2
      <4>5. QED
        BY <4>3, <4>4
    <3>3. QED
      BY <3>1, <3>2
  <2>a. \A i \in 1 .. Len(ss) : at[i] = IF i = 1 THEN 0 ELSE at[i - 1] + Len(ss[i - 1])
    <3>1. \A i \in 1 .. Len(ss) : i # 1 => i - 1 \in 1 .. Len(ss)
      BY <1>1
    <3>2. QED
      BY <2>5, <2>12, <3>1
  <2>b. Len(p) = at[Len(ss)] + Len(ss[Len(ss)])
    BY <2>1, <2>9, <2>12
  <2>c. Consists(p, ss, at)
    BY <1>3, <2>1, <2>11, <2>a, <2>b DEF Consists
  <2>13. QED
    BY <2>11, <2>c
<1>4. QED
  BY <1>2, <1>3

(* Blocks of the same length are found by counting. *)
AllOf(ss, l) == \A i \in 1 .. Len(ss) : Len(ss[i]) = l
InBlocks(p, ss, l) ==
    /\ Len(p) = l * Len(ss)
    /\ \A i \in 1 .. Len(ss) : \A k \in 1 .. l : p[l * (i - 1) + k] = ss[i][k]

LEMMA EqualBlocks ==
    ASSUME NEW T, NEW ss \in Seq(Seq(T)), NEW l \in Nat, AllOf(ss, l),
           NEW p, p = FlattenSeq(ss)
    PROVE  p \in Seq(T) /\ InBlocks(p, ss, l)
<1>0. \A i \in 1 .. Len(ss) : Len(ss[i]) = l
  BY DEF AllOf
<1>1. p \in Seq(T) /\ Len(ss) \in Nat
  BY FlattenedBlocks, LenProperties
<1>2. PICK at : Consists(p, ss, at)
  BY FlattenedBlocks
<1> DEFINE S == {i \in Nat : i + 1 \in 1 .. Len(ss) => at[i + 1] = l * i}
<1>3. 0 \in S
  <2>1. 1 \in 1 .. Len(ss) => at[1] = 0
    BY <1>2 DEF Consists
  <2>2. l * 0 = 0
    OBVIOUS
  <2>3. QED
    BY <2>1, <2>2
<1>4. ASSUME NEW i \in Nat, i \in S
      PROVE  i + 1 \in S
  <2> SUFFICES ASSUME (i + 1) + 1 \in 1 .. Len(ss)
               PROVE  at[(i + 1) + 1] = l * (i + 1)
    OBVIOUS
  <2>1. i + 1 \in 1 .. Len(ss) /\ ((i + 1) + 1) - 1 = i + 1 /\ (i + 1) + 1 # 1
    BY <1>1
  <2>2. at[(i + 1) + 1] = at[i + 1] + Len(ss[i + 1])
    BY <1>2, <2>1 DEF Consists
  <2>3. at[i + 1] = l * i
    BY <1>4, <2>1
  <2>4. l * (i + 1) = l * i + l
    OBVIOUS
  <2>5. QED
    BY <1>0, <2>1, <2>2, <2>3, <2>4
<1>5. Nat \subseteq S
  <2> HIDE DEF S
  <2>1. QED
    BY <1>3, <1>4, InductiveSet
<1>6. ASSUME NEW i \in 1 .. Len(ss)
      PROVE  at[i] = l * (i - 1)
  <2>1. i - 1 \in Nat /\ (i - 1) + 1 = i
    BY <1>1
  <2>2. i - 1 \in S
    <3> HIDE DEF S
    <3>1. QED
      BY <1>5, <2>1
  <2>3. QED
    BY <2>1, <2>2
<1>7. Len(p) = l * Len(ss)
  <2>1. CASE Len(ss) = 0
    <3>1. l * 0 = 0
      OBVIOUS
    <3>2. QED
      BY <1>2, <2>1, <3>1 DEF Consists
  <2>2. CASE Len(ss) # 0
    <3>1. Len(ss) \in 1 .. Len(ss)
      BY <1>1, <2>2
    <3>2. Len(p) = l * (Len(ss) - 1) + l
      BY <1>0, <1>2, <1>6, <2>2, <3>1 DEF Consists
    <3> DEFINE n == Len(ss) - 1
    <3>3. n \in Nat /\ Len(ss) = n + 1
      BY <1>1, <2>2
    <3> HIDE DEF n
    <3>4. l * (n + 1) = l * n + l
      BY <3>3
    <3>5. QED
      BY <3>2, <3>3, <3>4 DEF n
  <2>3. QED
    BY <2>1, <2>2
<1>8. ASSUME NEW i \in 1 .. Len(ss), NEW k \in 1 .. l
      PROVE  p[l * (i - 1) + k] = ss[i][k]
  <2>1. k \in 1 .. Len(ss[i])
    BY <1>0
  <2>2. p[at[i] + k] = ss[i][k]
    BY <1>2, <2>1, Zenon DEF Consists
  <2>3. QED
    BY <1>6, <2>2
<1>9. QED
  BY <1>1, <1>7, <1>8 DEF InBlocks
==============================================================================
