---------------------------- MODULE CodecsProofs ----------------------------
(***************************************************************************)
(* What an encoder writes a decoder reads: the headers, whatever their     *)
(* fields are, and the tables of finite state entropy coding, whatever     *)
(* counts or probabilities they are made from.                             *)
(***************************************************************************)
EXTENDS Codecs, NaturalsInduction, WellFoundedInduction, SequenceTheorems, FiniteSetTheorems, TLAPS

-----------------------------------------------------------------------------
(* Numbers and bits.                                                       *)

\* Induction, stated with a set: no operator parameter is needed.
LEMMA InductionOnSets ==
    ASSUME NEW S \in SUBSET Nat, 0 \in S, \A n \in S : n + 1 \in S
    PROVE  \A n \in Nat : n \in S
<1> DEFINE T == Nat \ S
<1> SUFFICES ASSUME T # {} PROVE FALSE
  OBVIOUS
<1>1. PICK m \in T : \A y \in T : ~ (<<y, m>> \in OpToRel(<, Nat))
  BY NatLessThanWellFounded, WFMin, Zenon
<1>2. \A y \in T : ~(y < m)
  BY <1>1, Zenon DEF OpToRel
<1>3. m # 0 /\ m \in Nat
  OBVIOUS
<1>4. m - 1 \in Nat /\ m - 1 < m /\ (m - 1) + 1 = m
  BY <1>3
<1>5. m - 1 \in S
  BY <1>2, <1>4
<1> QED
  BY <1>4, <1>5

LEMMA LeastOf ==
    ASSUME NEW S \in SUBSET Nat, S # {}
    PROVE  Min(S) \in S /\ \A y \in S : Min(S) <= y
<1>1. PICK m \in S : \A y \in S : ~ (<<y, m>> \in OpToRel(<, Nat))
  BY NatLessThanWellFounded, WFMin, Zenon
<1>2. \A y \in S : ~(y < m)
  BY <1>1, Zenon DEF OpToRel
<1>3. \A y \in S : m <= y
  BY <1>2
<1>4. \E x \in S : \A y \in S : x <= y
  BY <1>3, Zenon
<1> QED
  BY <1>4, Zenon DEF Min

Pow(n) == 2^n

\* The provers know every power of two and no law about them.
LEMMA Doubles == \A n \in 0..30 : Pow(n) \in Nat \ {0} /\ Pow(n + 1) = 2 * Pow(n)
<1> SUFFICES ASSUME NEW n \in 0..30
             PROVE  2^n \in Nat \ {0} /\ 2^(n + 1) = 2 * 2^n
  BY DEF Pow
<1>1. CASE n = 0  BY <1>1
<1>2. CASE n = 1  BY <1>2
<1>3. CASE n = 2  BY <1>3
<1>4. CASE n = 3  BY <1>4
<1>5. CASE n = 4  BY <1>5
<1>6. CASE n = 5  BY <1>6
<1>7. CASE n = 6  BY <1>7
<1>8. CASE n = 7  BY <1>8
<1>9. CASE n = 8  BY <1>9
<1>10. CASE n = 9  BY <1>10
<1>11. CASE n = 10  BY <1>11
<1>12. CASE n = 11  BY <1>12
<1>13. CASE n = 12  BY <1>13
<1>14. CASE n = 13  BY <1>14
<1>15. CASE n = 14  BY <1>15
<1>16. CASE n = 15  BY <1>16
<1>17. CASE n = 16  BY <1>17
<1>18. CASE n = 17  BY <1>18
<1>19. CASE n = 18  BY <1>19
<1>20. CASE n = 19  BY <1>20
<1>21. CASE n = 20  BY <1>21
<1>22. CASE n = 21  BY <1>22
<1>23. CASE n = 22  BY <1>23
<1>24. CASE n = 23  BY <1>24
<1>25. CASE n = 24  BY <1>25
<1>26. CASE n = 25  BY <1>26
<1>27. CASE n = 26  BY <1>27
<1>28. CASE n = 27  BY <1>28
<1>29. CASE n = 28  BY <1>29
<1>30. CASE n = 29  BY <1>30
<1>31. CASE n = 30  BY <1>31
<1> QED
  BY <1>1, <1>2, <1>3, <1>4, <1>5, <1>6, <1>7, <1>8, <1>9, <1>10, <1>11, <1>12, <1>13, <1>14, <1>15, <1>16, <1>17, <1>18, <1>19, <1>20, <1>21, <1>22, <1>23, <1>24, <1>25, <1>26, <1>27, <1>28, <1>29, <1>30, <1>31

LEMMA Powers ==
    /\ Pow(0) = 1 /\ \A n \in 0..31 : Pow(n) \in Nat /\ Pow(n) >= 1
    /\ \A n \in 0..30 : Pow(n + 1) = 2 * Pow(n)
<1>1. Pow(0) = 1 /\ Pow(31) = 2147483648
  BY DEF Pow
<1>2. \A n \in 0..31 : n = 31 \/ n \in 0..30
  OBVIOUS
<1>3. \A n \in 0..30 : Pow(n) \in Nat /\ Pow(n) >= 1 /\ Pow(n + 1) = 2 * Pow(n)
  BY Doubles
<1> QED
  BY <1>1, <1>2, <1>3

LEMMA SmallPowers == \A n \in 0..10 : Pow(n) <= 1024
<1>1. /\ Pow(0) = 1 /\ Pow(1) = 2 /\ Pow(2) = 4 /\ Pow(3) = 8 /\ Pow(4) = 16 /\ Pow(5) = 32
      /\ Pow(6) = 64 /\ Pow(7) = 128 /\ Pow(8) = 256 /\ Pow(9) = 512 /\ Pow(10) = 1024
  BY DEF Pow
<1> QED
  BY <1>1

\* Division, in the form in which it is used.
LEMMA Quotient ==
    ASSUME NEW v \in Nat, NEW p \in Nat \ {0}
    PROVE  /\ v \div p \in Nat /\ v % p \in Nat /\ v % p < p
           /\ v = (v \div p) * p + (v % p)
  OBVIOUS

LEMMA QuotientIs ==
    ASSUME NEW p \in Nat \ {0}, NEW q \in Nat, NEW r \in Nat, r < p
    PROVE  (q * p + r) \div p = q /\ (q * p + r) % p = r
  OBVIOUS

LEMMA QuotientOfQuotient ==
    ASSUME NEW v \in Nat, NEW a \in Nat \ {0}, NEW b \in Nat \ {0}
    PROVE  (v \div a) \div b = v \div (a * b)
<1> DEFINE q == v \div a
           r == v % a
           t == q \div b
           s == q % b
<1>1. q \in Nat /\ r \in Nat /\ r < a /\ v = q * a + r
  BY Quotient
<1> HIDE DEF q, r
<1>2. t \in Nat /\ s \in Nat /\ s < b /\ q = t * b + s
  BY <1>1, Quotient
<1> HIDE DEF t, s
<1> DEFINE c == a * b
           d == s * a + r
<1>3. c \in Nat \ {0} /\ d \in Nat
  BY <1>1, <1>2
<1>4. d < c
  <2>1. s + 1 <= b /\ s + 1 \in Nat
    BY <1>2
  <2>2. (s + 1) * a <= b * a
    BY <2>1
  <2>3. (s + 1) * a = s * a + a
    BY <1>2
  <2> QED
    BY <1>1, <1>2, <2>2, <2>3
<1>5. v = t * c + d
  <2>1. q * a = t * (a * b) + s * a
    BY <1>2
  <2> QED
    BY <1>1, <1>2, <2>1
<1> HIDE DEF c, d
<1>6. v \div c = t
  BY <1>2, <1>3, <1>4, <1>5, QuotientIs
<1> QED
  BY <1>6 DEF c, t, q

\* The lower bits of a number, with one bit more.
LEMMA OneBitMore ==
    ASSUME NEW v \in Nat, NEW p \in Nat \ {0}
    PROVE  v % (2 * p) = (v % p) + ((v \div p) % 2) * p
<1> DEFINE q == v \div p
           r == v % p
           h == q \div 2
           b == q % 2
<1>1. q \in Nat /\ r \in Nat /\ r < p /\ v = q * p + r
  BY Quotient
<1> HIDE DEF q, r
<1>2. h \in Nat /\ b \in {0, 1} /\ q = h * 2 + b
  BY <1>1
<1> HIDE DEF h, b
<1> DEFINE d == b * p + r
           c == 2 * p
<1>3. d \in Nat /\ d < c /\ c \in Nat \ {0}
  <2>1. CASE b = 0
    BY <1>1, <2>1
  <2>2. CASE b = 1
    BY <1>1, <2>2
  <2> QED
    BY <1>2, <2>1, <2>2
<1>4. v = h * c + d
  <2>1. CASE b = 0
    BY <1>1, <1>2, <2>1
  <2>2. CASE b = 1
    BY <1>1, <1>2, <2>2
  <2> QED
    BY <1>2, <2>1, <2>2
<1> HIDE DEF c, d
<1>5. v % c = d
  BY <1>2, <1>3, <1>4, QuotientIs
<1>6. b * p \in Int
  BY <1>2
<1>7. d = r + b * p
  BY <1>1, <1>6 DEF d
<1> QED
  BY <1>5, <1>7 DEF c, r, b, q

\* Sequences of a known length, one behind the other and taken apart again.
LEMMA OfLength ==
    ASSUME NEW S, NEW n \in Nat, NEW s \in [1..n -> S]
    PROVE  s \in Seq(S) /\ Len(s) = n
<1>1. s \in Seq(S)
  BY SeqDef
<1>2. DOMAIN s = 1..n /\ DOMAIN s = 1..Len(s) /\ Len(s) \in Nat
  BY <1>1, LenProperties
<1> QED
  BY <1>1, <1>2

Row(ab, a, n, b, m) ==
    /\ Len(ab) = n + m
    /\ \A i \in 1..n : ab[i] = a[i]
    /\ \A i \in 1..m : ab[n + i] = b[i]

LEMMA InARow ==
    ASSUME NEW S, NEW a \in Seq(S), NEW b \in Seq(S), NEW n \in Nat, NEW m \in Nat,
           Len(a) = n, Len(b) = m
    PROVE  a \o b \in Seq(S) /\ Row(a \o b, a, n, b, m)
<1> DEFINE ab == a \o b
<1>1. ab \in Seq(S) /\ Len(ab) = n + m
  BY ConcatProperties, Zenon
<1>2. \A i \in 1..(n + m) : ab[i] = IF i <= n THEN a[i] ELSE b[i - n]
  BY ConcatProperties
<1> HIDE DEF ab
<1>3. ASSUME NEW i \in 1..n PROVE ab[i] = a[i]
  <2>1. i \in 1..(n + m) /\ i <= n
    OBVIOUS
  <2> QED
    BY <1>2, <2>1
<1>4. ASSUME NEW i \in 1..m PROVE ab[n + i] = b[i]
  <2>1. n + i \in 1..(n + m) /\ ~(n + i <= n) /\ (n + i) - n = i
    OBVIOUS
  <2> QED
    BY <1>2, <2>1
<1> QED
  BY <1>1, <1>3, <1>4 DEF ab, Row

PartOf(part, s, p, n) == Len(part) = n /\ \A i \in 1..n : part[i] = s[p + i]

LEMMA PartIs ==
    ASSUME NEW S, NEW s \in Seq(S), NEW p \in Nat, NEW n \in Nat, p + n <= Len(s)
    PROVE  /\ SubSeq(s, p + 1, p + n) \in Seq(S)
           /\ PartOf(SubSeq(s, p + 1, p + n), s, p, n)
<1> DEFINE from == p + 1
           to == p + n
           part == SubSeq(s, from, to)
<1>1. from \in Int /\ to \in Int
  OBVIOUS
<1>2. \A i \in from..to : s[i] \in S
  <2>1. \A i \in 1..Len(s) : s[i] \in S
    BY ElementOfSeq
  <2>2. Len(s) \in Nat
    BY LenProperties
  <2> QED
    BY <2>1, <2>2
<1>3. to - from + 1 = n /\ (from <= to <=> n # 0) /\ \A i \in 1..n : from + i - 1 = p + i
  OBVIOUS
<1> HIDE DEF from, to
<1>4. part \in Seq(S) /\ Len(part) = IF from <= to THEN to - from + 1 ELSE 0
  <2>1. part \in Seq(S)
    BY <1>1, <1>2, SubSeqProperties, ZenonT(30)
  <2>2. Len(part) = IF from <= to THEN to - from + 1 ELSE 0
    BY <1>1, <1>2, SubSeqProperties
  <2> QED
    BY <2>1, <2>2
<1>5. \A i \in 1..(to - from + 1) : part[i] = s[from + i - 1]
  BY <1>1, <1>2, SubSeqProperties
<1> HIDE DEF part
<1>6. Len(part) = n
  BY <1>3, <1>4
<1>7. \A i \in 1..n : part[i] = s[p + i]
  BY <1>3, <1>5
<1> QED
  BY <1>4, <1>6, <1>7 DEF PartOf, part, from, to

LEMMA NumberIs ==
    ASSUME NEW bits \in Seq({0, 1}), Len(bits) <= 30, NEW v \in Nat,
           \A i \in 1..Len(bits) : bits[i] = (v \div Pow(i - 1)) % 2
    PROVE  Number(bits) = v % Pow(Len(bits))
<1> DEFINE n == Len(bits)
           Solves(f) == f = [i \in 0..n |-> IF i = 0 THEN 0 ELSE f[i - 1] + bits[i] * 2^(i - 1)]
           sum == CHOOSE f : Solves(f)
           g == [i \in 0..n |-> v % Pow(i)]
<1>1. n \in 0..30 /\ n \in Nat
  <2>1. n \in Nat /\ n <= 30
    OBVIOUS
  <2> HIDE DEF n
  <2> QED
    BY <2>1
<1>2. ASSUME NEW i \in 1..n
      PROVE  v % Pow(i) = (v % Pow(i - 1)) + bits[i] * Pow(i - 1)
  <2>1. i - 1 \in 0..30 /\ i - 1 \in 0..31 /\ (i - 1) + 1 = i
    BY <1>1
  <2> DEFINE p == Pow(i - 1)
  <2>2. p \in Nat \ {0} /\ Pow(i) = 2 * p
    <3>1. p \in Nat /\ p >= 1 /\ Pow((i - 1) + 1) = 2 * p
      BY <2>1, Powers, Zenon
    <3> HIDE DEF p
    <3> QED
      BY <2>1, <3>1
  <2>3. bits[i] = (v \div p) % 2
    OBVIOUS
  <2> HIDE DEF p, n
  <2>4. v % (2 * p) = (v % p) + ((v \div p) % 2) * p
    BY <2>2, OneBitMore
  <2> QED
    BY <2>2, <2>3, <2>4 DEF p
<1>3. v % Pow(0) = 0
  BY Powers
<1>4. \A i \in 0..n : g[i] = IF i = 0 THEN 0 ELSE g[i - 1] + bits[i] * 2^(i - 1)
  <2> SUFFICES ASSUME NEW i \in 0..n
               PROVE  g[i] = IF i = 0 THEN 0 ELSE g[i - 1] + bits[i] * Pow(i - 1)
    BY DEF Pow
  <2>1. CASE i = 0
    BY <1>3, <2>1
  <2>2. CASE i # 0
    <3>1. i \in 1..n /\ i - 1 \in 0..n
      BY <1>1, <2>2
    <3>2. g[i - 1] = v % Pow(i - 1) /\ g[i] = v % Pow(i)
      BY <3>1
    <3> HIDE DEF g
    <3> QED
      BY <1>2, <2>2, <3>1, <3>2
  <2> QED
    BY <2>1, <2>2
<1>5. g = [i \in 0..n |-> g[i]]
  OBVIOUS
<1> HIDE DEF g
<1>6. Solves(g)
  BY <1>4, <1>5
<1>7. Solves(sum)
  <2>1. \E f : Solves(f)
    BY <1>6, Zenon
  <2> QED
    BY <2>1, Zenon
<1>8. Number(bits) = sum[n]
  BY Zenon DEF Number
<1> HIDE DEF sum
<1>9. \A i \in 0..n : sum[i] = IF i = 0 THEN 0 ELSE sum[i - 1] + bits[i] * Pow(i - 1)
  BY <1>7, Zenon DEF Pow
<1> HIDE DEF Solves
<1> DEFINE S == {i \in Nat : i <= n => sum[i] = v % Pow(i)}
<1>10. 0 \in S
  BY <1>1, <1>3, <1>9
<1>11. ASSUME NEW i \in S PROVE i + 1 \in S
  <2>1. CASE i + 1 <= n
    <3>1. i + 1 \in 1..n /\ i + 1 # 0 /\ (i + 1) - 1 = i /\ i <= n /\ i + 1 \in Nat /\ i + 1 \in 0..n
      BY <1>1, <2>1
    <3>2. sum[i] = v % Pow(i)
      BY <3>1
    <3>3. sum[i + 1] = sum[i] + bits[i + 1] * Pow(i)
      BY <1>9, <3>1
    <3>4. v % Pow(i + 1) = (v % Pow(i)) + bits[i + 1] * Pow(i)
      BY <1>2, <3>1
    <3> QED
      BY <3>1, <3>2, <3>3, <3>4
  <2>2. CASE ~(i + 1 <= n)
    <3>1. i + 1 \in Nat
      OBVIOUS
    <3> QED
      BY <2>2, <3>1
  <2> QED
    BY <2>1, <2>2
<1>12. \A i \in Nat : i \in S
  <2> HIDE DEF S
  <2>1. S \in SUBSET Nat
    BY Zenon DEF S
  <2> QED
    BY <1>10, <1>11, <2>1, InductionOnSets, Zenon
<1>13. sum[n] = v % Pow(n)
  BY <1>1, <1>12
<1> QED
  BY <1>8, <1>13

LEMMA BitsAre ==
    ASSUME NEW v \in Nat, NEW n \in 0..30
    PROVE  /\ Bits(v, n) \in Seq({0, 1}) /\ Len(Bits(v, n)) = n
           /\ \A i \in 1..n : Bits(v, n)[i] = (v \div Pow(i - 1)) % 2
<1>1. Bits(v, n) = [i \in 1..n |-> (v \div Pow(i - 1)) % 2]
  BY DEF Bits, Pow
<1>2. \A i \in 1..n : (v \div Pow(i - 1)) % 2 \in {0, 1}
  <2> SUFFICES ASSUME NEW i \in 1..n PROVE (v \div Pow(i - 1)) % 2 \in {0, 1}
    OBVIOUS
  <2>1. i - 1 \in 0..31
    OBVIOUS
  <2> DEFINE p == Pow(i - 1)
  <2>2. p \in Nat \ {0}
    BY <2>1, Powers
  <2> HIDE DEF p
  <2>3. v \div p \in Nat
    BY <2>2, Quotient
  <2> DEFINE q == v \div p
  <2> HIDE DEF q
  <2>4. q % 2 \in {0, 1}
    BY <2>3 DEF q
  <2> QED
    BY <2>4 DEF q, p
<1>3. [i \in 1..n |-> (v \div Pow(i - 1)) % 2] \in [1..n -> {0, 1}]
  BY <1>2
<1> QED
  BY <1>1, <1>3

\* Some bits of a number, read out of a str that holds them.
LEMMA ReadIs ==
    ASSUME NEW str \in Seq({0, 1}), NEW pos \in Nat, NEW n \in 0..30, pos + n <= Len(str),
           NEW v \in Nat, \A i \in 1..n : str[pos + i] = (v \div Pow(i - 1)) % 2
    PROVE  Read(str, pos, n) = v % Pow(n)
<1> DEFINE bits == SubSeq(str, pos + 1, pos + n)
<1>1. /\ bits \in Seq({0, 1}) /\ Len(bits) = n
      /\ \A i \in 1..n : bits[i] = str[pos + i]
  OBVIOUS
<1>2. Len(bits) <= 30 /\ \A i \in 1..Len(bits) : bits[i] = (v \div Pow(i - 1)) % 2
  BY <1>1
<1> HIDE DEF bits
<1>3. Number(bits) = v % Pow(n)
  BY <1>1, <1>2, NumberIs
<1> QED
  BY <1>3 DEF Read, bits

-----------------------------------------------------------------------------
(* Headers of blocks.                                                      *)

\* The type and the size of a block stand behind one and three bits.
LEMMA BitsBehind ==
    ASSUME NEW v \in Nat, NEW n \in 0..30, NEW p \in {1, 3}, NEW k \in 0..30, p + k <= n
    PROVE  Read(Bits(v, n), p, k) = (v \div Pow(p)) % Pow(k)
<1> DEFINE b == Bits(v, n)
           q == Pow(p)
           high == v \div q
<1>1. b \in Seq({0, 1}) /\ Len(b) = n /\ \A i \in 1..n : b[i] = (v \div Pow(i - 1)) % 2
  BY BitsAre
<1> HIDE DEF b
<1>2. q \in Nat \ {0} /\ high \in Nat
  <2>1. p \in 0..31
    OBVIOUS
  <2>2. q \in Nat \ {0}
    BY <2>1, Powers
  <2> HIDE DEF q
  <2> QED
    BY <2>2, Quotient
<1>3. \A i \in 1..k : Pow(p + i - 1) = q * Pow(i - 1)
  <2> SUFFICES ASSUME NEW i \in 1..k PROVE Pow(p + i - 1) = q * Pow(i - 1)
    OBVIOUS
  <2> DEFINE j == i - 1
  <2>0. j \in 0..30 /\ j + 1 \in 0..31 /\ p + i - 1 = p + j /\ p + j <= 30 /\ p \in {1, 3}
    OBVIOUS
  <2> HIDE DEF j, q
  <2>1. Pow(j) \in Nat /\ Pow(j + 1) = 2 * Pow(j)
    BY <2>0, Powers
  <2>2. CASE p = 1
    <3>1. q = 2 /\ 1 + j = j + 1
      BY <2>0, <2>2, Powers DEF q
    <3> QED
      BY <2>0, <2>1, <2>2, <3>1 DEF j
  <2>3. CASE p = 3
    <3>1. j + 1 \in 0..30 /\ j + 2 \in 0..30 /\ (j + 1) + 1 = j + 2 /\ (j + 2) + 1 = 3 + j
      BY <2>0, <2>3
    <3>2. Pow(j + 2) = 2 * Pow(j + 1) /\ Pow(3 + j) = 2 * Pow(j + 2)
      BY <3>1, Powers
    <3>3. q = 8
      BY <2>3 DEF q, Pow
    <3> QED
      BY <2>0, <2>1, <2>3, <3>2, <3>3 DEF j
  <2> QED
    BY <2>2, <2>3
<1>4. ASSUME NEW i \in 1..k
      PROVE  b[p + i] = (high \div Pow(i - 1)) % 2
  <2>1. p + i \in 1..n /\ (p + i) - 1 = p + i - 1 /\ i - 1 \in 0..31
    OBVIOUS
  <2> DEFINE a == Pow(i - 1)
  <2>2. a \in Nat \ {0}
    BY <2>1, Powers
  <2>3. b[p + i] = (v \div (q * a)) % 2
    BY <1>1, <1>3, <2>1
  <2> HIDE DEF a, q
  <2>4. high \div a = v \div (q * a)
    BY <1>2, <2>2, QuotientOfQuotient
  <2> QED
    BY <2>3, <2>4 DEF a
<1> HIDE DEF q, high
<1>5. p \in Nat /\ p + k <= Len(b)
  BY <1>1
<1>6. Read(b, p, k) = high % Pow(k)
  BY <1>1, <1>2, <1>4, <1>5, ReadIs, ZenonT(60)
<1> QED
  BY <1>6 DEF b, high, q

LEMMA BlockArrives ==
    ASSUME NEW h, h.type \in {"raw", "rle", "compressed"}, h.last \in BOOLEAN, h.size \in 0..(2^21 - 1)
    PROVE  BlockHeaderArrives(h, ReadBlockHeader(SerializedBlock(h)))
<1> DEFINE t == CHOOSE u \in 0..3 : BlockTypes[u + 1] = h.type
           l == IF h.last THEN 1 ELSE 0
           s == h.size
           v == s * 8 + t * 2 + l
           b == Bits(v, 24)
<1>1. t \in 0..2 /\ BlockTypes[t + 1] = h.type
  <2>1. /\ BlockTypes[0 + 1] = "raw" /\ BlockTypes[1 + 1] = "rle" /\ BlockTypes[2 + 1] = "compressed"
        /\ BlockTypes[3 + 1] = "reserved"
    BY DEF BlockTypes
  <2>2. \E u \in 0..3 : BlockTypes[u + 1] = h.type
    BY <2>1
  <2>3. t \in 0..3 /\ BlockTypes[t + 1] = h.type
    BY <2>2
  <2> HIDE DEF t
  <2> QED
    BY <2>1, <2>3
<1>2. l \in {0, 1} /\ (l = 1 <=> h.last)
  OBVIOUS
<1>size. s \in Nat /\ s < Pow(21)
  BY SMT DEF Pow
<1>3. SerializedBlock(h) = b
  BY DEF SerializedBlock
<1> HIDE DEF t, l, s
<1>4. /\ v \in Nat /\ v % 2 = l /\ v \div 2 \in Nat /\ (v \div 2) % 4 = t
      /\ v \div 8 = s
  BY <1>1, <1>2, <1>size
<1> HIDE DEF v
<1>5. /\ Len(b) = 24 /\ \A i \in 1..24 : b[i] = (v \div Pow(i - 1)) % 2
  <2>1. 24 \in 0..30
    OBVIOUS
  <2> QED
    BY <1>4, <2>1, BitsAre
<1>6. b[1] = l
  <2>1. 1 \in 1..24 /\ 1 - 1 = 0
    OBVIOUS
  <2>2. b[1] = (v \div Pow(0)) % 2
    BY <1>5, <2>1
  <2>3. v \div 1 = v
    BY <1>4
  <2> QED
    BY <1>4, <2>2, <2>3, Powers
<1>7. Read(b, 1, 2) = t
  <2>1. Read(b, 1, 2) = (v \div Pow(1)) % Pow(2)
    BY <1>4, BitsBehind
  <2>2. Pow(1) = 2 /\ Pow(2) = 4
    BY DEF Pow
  <2> QED
    BY <1>4, <2>1, <2>2
<1>8. Read(b, 3, 21) = s
  <2>1. Read(b, 3, 21) = (v \div Pow(3)) % Pow(21)
    BY <1>4, BitsBehind
  <2>2. Pow(3) = 8
    BY DEF Pow
  <2>3. s % Pow(21) = s
    <3> DEFINE p == Pow(21)
    <3>1. p \in Nat
      BY Powers
    <3>2. s \in Nat /\ s < p
      BY <1>size
    <3> HIDE DEF p
    <3>3. s % p = s
      BY <3>1, <3>2
    <3> QED
      BY <3>3 DEF p
  <2> QED
    BY <1>4, <2>1, <2>2, <2>3
<1> HIDE DEF b
<1> DEFINE r == ReadBlockHeader(b)
<1>9. r = IF s > MaxBlockSize THEN [error |-> TRUE]
          ELSE [error |-> FALSE, last |-> l = 1, type |-> h.type,
                content |-> IF h.type = "rle" THEN 1 ELSE s,
                decompressed |-> IF h.type = "compressed" THEN 0 ELSE s]
  BY <1>1, <1>6, <1>7, <1>8 DEF ReadBlockHeader
<1> HIDE DEF r
<1>10. BlockHeaderArrives(h, r)
  BY <1>2, <1>9 DEF BlockHeaderArrives, s
<1> QED
  BY <1>3, <1>10 DEF r

-----------------------------------------------------------------------------
(* Headers of literals sections.                                           *)

LEMMA PieceIsRead ==
    ASSUME NEW str \in Seq({0, 1}), NEW pos \in Nat, NEW n \in 0..30, pos + n <= Len(str),
           NEW v \in Nat, v < Pow(n), \A i \in 1..n : str[pos + i] = Bits(v, n)[i]
    PROVE  Read(str, pos, n) = v
<1>1. \A i \in 1..n : str[pos + i] = (v \div Pow(i - 1)) % 2
  BY BitsAre
<1>2. Read(str, pos, n) = v % Pow(n)
  BY <1>1, ReadIs, Zenon
<1> DEFINE p == Pow(n)
<1>3. p \in Nat /\ p >= 1
  <2>1. n \in 0..31
    OBVIOUS
  <2> QED
    BY <2>1, Powers
<1> HIDE DEF p
<1>4. v < p
  BY DEF p
<1>5. v % p = v
  BY <1>3, <1>4
<1> QED
  BY <1>2, <1>5 DEF p

\* Numbers that are written one behind the other.
PiecesIn(b, n1, n2, n3, n4, v1, v2, v3, v4) ==
    /\ Len(b) = n1 + n2 + n3 + n4
    /\ Read(b, 0, n1) = v1 /\ Read(b, n1, n2) = v2
    /\ Read(b, n1 + n2, n3) = v3 /\ Read(b, n1 + n2 + n3, n4) = v4

LEMMA PiecesAreRead ==
    ASSUME NEW n1 \in 0..30, NEW n2 \in 0..30, NEW n3 \in 0..30, NEW n4 \in 0..30,
           NEW v1 \in Nat, NEW v2 \in Nat, NEW v3 \in Nat, NEW v4 \in Nat,
           v1 < Pow(n1), v2 < Pow(n2), v3 < Pow(n3), v4 < Pow(n4)
    PROVE  PiecesIn(Bits(v1, n1) \o Bits(v2, n2) \o Bits(v3, n3) \o Bits(v4, n4),
                    n1, n2, n3, n4, v1, v2, v3, v4)
<1> DEFINE b1 == Bits(v1, n1)
           b2 == Bits(v2, n2)
           b3 == Bits(v3, n3)
           b4 == Bits(v4, n4)
           two == b1 \o b2
           three == two \o b3
           b == three \o b4
<1>1. /\ b1 \in Seq({0, 1}) /\ Len(b1) = n1 /\ b2 \in Seq({0, 1}) /\ Len(b2) = n2
      /\ b3 \in Seq({0, 1}) /\ Len(b3) = n3 /\ b4 \in Seq({0, 1}) /\ Len(b4) = n4
  BY BitsAre
<1>nat. /\ n1 \in Nat /\ n2 \in Nat /\ n3 \in Nat /\ n4 \in Nat
        /\ n1 + n2 \in Nat /\ n1 + n2 + n3 \in Nat
  OBVIOUS
<1>all. two = b1 \o b2 /\ three = two \o b3 /\ b = three \o b4
  BY Zenon
<1> SUFFICES PiecesIn(b, n1, n2, n3, n4, v1, v2, v3, v4)
  BY Zenon
<1> HIDE DEF b1, b2, b3, b4, two, three, b
<1>2. two \in Seq({0, 1}) /\ Row(two, b1, n1, b2, n2)
  BY <1>1, <1>nat, <1>all, InARow, Zenon
<1>two. Len(two) = n1 + n2
  BY <1>2 DEF Row
<1>3. three \in Seq({0, 1}) /\ Row(three, two, n1 + n2, b3, n3)
  BY <1>1, <1>2, <1>two, <1>nat, <1>all, InARow, Zenon
<1>three. Len(three) = n1 + n2 + n3
  BY <1>3 DEF Row
<1>4. b \in Seq({0, 1}) /\ Row(b, three, n1 + n2 + n3, b4, n4)
  BY <1>1, <1>3, <1>three, <1>nat, <1>all, InARow, Zenon
<1>long. /\ 0 \in Nat /\ 0 + n1 <= Len(b) /\ n1 + n2 <= Len(b) /\ n1 + n2 + n3 <= Len(b)
         /\ n1 + n2 + n3 + n4 <= Len(b)
  <2>1. Len(b) = n1 + n2 + n3 + n4
    BY <1>4 DEF Row
  <2> QED
    BY <1>nat, <2>1
<1> USE DEF Row
<1>5. Read(b, 0, n1) = v1
  <2>1. \A i \in 1..n1 : b[0 + i] = b1[i]
    <3> SUFFICES ASSUME NEW i \in 1..n1 PROVE b[0 + i] = b1[i]
      OBVIOUS
    <3>1. i \in 1..n1 /\ i \in 1..(n1 + n2) /\ i \in 1..(n1 + n2 + n3) /\ 0 + i = i
      OBVIOUS
    <3> QED
      BY <1>2, <1>3, <1>4, <3>1
  <2> QED
    BY <1>4, <1>long, <2>1, PieceIsRead, Zenon DEF b1
<1>6. Read(b, n1, n2) = v2
  <2>1. \A i \in 1..n2 : b[n1 + i] = b2[i]
    <3> SUFFICES ASSUME NEW i \in 1..n2 PROVE b[n1 + i] = b2[i]
      OBVIOUS
    <3>1. n1 + i \in 1..(n1 + n2) /\ n1 + i \in 1..(n1 + n2 + n3)
      OBVIOUS
    <3> QED
      BY <1>2, <1>3, <1>4, <3>1
  <2> QED
    BY <1>4, <1>nat, <1>long, <2>1, PieceIsRead, Zenon DEF b2
<1>7. Read(b, n1 + n2, n3) = v3
  <2>1. \A i \in 1..n3 : b[n1 + n2 + i] = b3[i]
    <3> SUFFICES ASSUME NEW i \in 1..n3 PROVE b[n1 + n2 + i] = b3[i]
      OBVIOUS
    <3>1. n1 + n2 + i \in 1..(n1 + n2 + n3)
      OBVIOUS
    <3> QED
      BY <1>3, <1>4, <3>1
  <2> QED
    BY <1>4, <1>nat, <1>long, <2>1, PieceIsRead, Zenon DEF b3
<1>8. Read(b, n1 + n2 + n3, n4) = v4
  <2> QED
    BY <1>4, <1>nat, <1>long, PieceIsRead, Zenon DEF b4
<1> QED
  BY <1>4, <1>5, <1>6, <1>7, <1>8 DEF PiecesIn

LEMMA RawLiteralsArrive ==
    ASSUME NEW h, h.type = 0, h.regenerated \in 0..(2^18 - 1)
    PROVE  LiteralsHeaderArrives(h, ReadLiteralsHeader(LiteralsHeader(h)), LiteralsHeader(h))
<1> DEFINE n == h.regenerated
           b == Bits(0, 2) \o Bits(3, 2) \o Bits(n, 20) \o Bits(0, 0)
<1>1. n \in Nat /\ n < Pow(20)
  <2>1. n \in Nat /\ n < Pow(18)
    BY SMT DEF Pow
  <2>2. /\ Pow(18) \in Nat /\ Pow(18 + 1) = 2 * Pow(18) /\ Pow(19 + 1) = 2 * Pow(19)
        /\ 18 + 1 = 19 /\ 19 + 1 = 20
    BY Powers
  <2> HIDE DEF n
  <2> QED
    BY <2>1, <2>2
<1> HIDE DEF n
<1>2. LiteralsHeader(h) = b
  <2> DEFINE a == Bits(0, 2) \o Bits(3, 2) \o Bits(n, 20)
  <2>1. LiteralsHeader(h) = a
    BY DEF LiteralsHeader, n
  <2>2. Bits(0, 2) \in Seq({0, 1}) /\ Bits(3, 2) \in Seq({0, 1}) /\ Bits(n, 20) \in Seq({0, 1})
    <3>1. n \in Nat /\ 2 \in 0..30 /\ 20 \in 0..30 /\ 0 \in Nat /\ 3 \in Nat
      BY <1>1
    <3>2. Bits(0, 2) \in Seq({0, 1})
      BY <3>1, BitsAre
    <3>3. Bits(3, 2) \in Seq({0, 1})
      BY <3>1, BitsAre
    <3>4. Bits(n, 20) \in Seq({0, 1})
      BY <3>1, BitsAre
    <3> QED
      BY <3>2, <3>3, <3>4
  <2>3. a \in Seq({0, 1})
    BY <2>2
  <2>4. Bits(0, 0) = <<>>
    BY DEF Bits
  <2> HIDE DEF a
  <2>5. a \o <<>> = a
    BY <2>3
  <2> QED
    BY <2>1, <2>4, <2>5 DEF a
<1>3. /\ Len(b) = 24 /\ Read(b, 0, 2) = 0 /\ Read(b, 2, 2) = 3 /\ Read(b, 4, 20) = n
  <2>1. 0 < Pow(2) /\ 3 < Pow(2) /\ n < Pow(20) /\ 0 < Pow(0)
    <3>1. Pow(2) = 4 /\ Pow(0) = 1
      BY DEF Pow
    <3> QED
      BY <1>1, <3>1
  <2>2. n \in Nat /\ 2 \in 0..30 /\ 20 \in 0..30 /\ 0 \in 0..30 /\ 0 \in Nat /\ 3 \in Nat
    BY <1>1
  <2>3. /\ Len(b) = 2 + 2 + 20 + 0
        /\ Read(b, 0, 2) = 0 /\ Read(b, 2, 2) = 3 /\ Read(b, 2 + 2, 20) = n
    <3>1. PiecesIn(b, 2, 2, 20, 0, 0, 3, n, 0)
      BY <2>1, <2>2, PiecesAreRead, ZenonT(60)
    <3> QED
      BY <3>1, Zenon DEF PiecesIn
  <2> HIDE DEF b
  <2>4. 2 + 2 + 20 + 0 = 24 /\ 2 + 2 = 4
    OBVIOUS
  <2> QED
    BY <2>3, <2>4
<1> HIDE DEF b
<1>4. ReadLiteralsHeader(b) = [type |-> 0, streams |-> 0, compressed |-> 0, bytes |-> 3, regenerated |-> n]
  BY <1>3 DEF ReadLiteralsHeader, HeaderBytesNeeded
<1> QED
  BY <1>2, <1>3, <1>4 DEF LiteralsHeaderArrives, n

LEMMA CompressedLiteralsArrive ==
    ASSUME NEW h, h.type \in {2, 3}, h.regenerated \in 0..(2^18 - 1), h.compressed \in 0..h.regenerated
    PROVE  LiteralsHeaderArrives(h, ReadLiteralsHeader(LiteralsHeader(h)), LiteralsHeader(h))
<1> DEFINE t == h.type
           n == h.regenerated
           c == h.compressed
           format == SizeFormat(n)
           f == format[1]
           w == format[2]
           b == Bits(t, 2) \o Bits(f, 2) \o Bits(n, w) \o Bits(c, w)
<1>1. t \in {2, 3} /\ n \in Nat /\ c \in 0..n /\ n < Pow(18)
  BY SMT DEF Pow
<1>2. LiteralsHeader(h) = b
  BY DEF LiteralsHeader
<1> HIDE DEF t, n, c
<1>3. \/ format = <<0, 10>> /\ n < 6
      \/ format = <<1, 10>> /\ n >= 6 /\ n < Pow(10)
      \/ format = <<2, 14>> /\ n >= 6 /\ n < Pow(14)
      \/ format = <<3, 18>> /\ n >= 6 /\ n < Pow(18)
  <2>1. n \in Nat /\ n < Pow(18)
    BY <1>1
  <2> HIDE DEF n
  <2>2. CASE n < 6
    BY <2>1, <2>2, SMT DEF SizeFormat
  <2>3. CASE 6 <= n /\ n < 1024
    BY <2>1, <2>3, SMT DEF SizeFormat, Pow
  <2>4. CASE 1024 <= n /\ n < 16384
    BY <2>1, <2>4, SMT DEF SizeFormat, Pow
  <2>5. CASE 16384 <= n
    BY <2>1, <2>5, SMT DEF SizeFormat, Pow
  <2> QED
    BY <2>1, <2>2, <2>3, <2>4, <2>5
<1> HIDE DEF format
<1>4. /\ f \in 0..3 /\ w \in 0..30 /\ w = <<10, 10, 14, 18>>[f + 1] /\ (f = 0 <=> n < 6)
      /\ n < Pow(w) /\ c < Pow(w) /\ 8 * <<3, 3, 4, 5>>[f + 1] = 4 + w + w
  <2>1. Pow(10) \in Nat /\ 6 <= Pow(10)
    BY SMT DEF Pow
  <2>2. CASE format = <<0, 10>> /\ n < 6
    BY <1>1, <2>1, <2>2
  <2>3. CASE format = <<1, 10>> /\ n >= 6 /\ n < Pow(10)
    BY <1>1, <2>1, <2>3
  <2>4. CASE format = <<2, 14>> /\ n >= 6 /\ n < Pow(14)
    <3>1. Pow(14) \in Nat
      BY Powers
    <3> QED
      BY <1>1, <2>4, <3>1
  <2>5. CASE format = <<3, 18>> /\ n >= 6 /\ n < Pow(18)
    <3>1. Pow(18) \in Nat
      BY Powers
    <3> QED
      BY <1>1, <2>5, <3>1
  <2> QED
    BY <1>3, <2>2, <2>3, <2>4, <2>5
<1> HIDE DEF f, w
<1>5. /\ Len(b) = 4 + w + w /\ Read(b, 0, 2) = t /\ Read(b, 2, 2) = f
      /\ Read(b, 4, w) = n /\ Read(b, 4 + w, w) = c
  <2>1. t < Pow(2) /\ f < Pow(2)
    <3>1. Pow(2) = 4
      BY DEF Pow
    <3> QED
      BY <1>1, <1>4, <3>1
  <2>2. t \in Nat /\ f \in Nat /\ n \in Nat /\ c \in Nat /\ 2 \in 0..30
    BY <1>1, <1>4
  <2>3. /\ Len(b) = 2 + 2 + w + w /\ Read(b, 0, 2) = t /\ Read(b, 2, 2) = f
        /\ Read(b, 2 + 2, w) = n /\ Read(b, 2 + 2 + w, w) = c
    <3>1. PiecesIn(b, 2, 2, w, w, t, f, n, c)
      BY <1>4, <2>1, <2>2, PiecesAreRead, Zenon
    <3> QED
      BY <3>1, Zenon DEF PiecesIn
  <2>4. 2 + 2 = 4 /\ w \in Nat
    BY <1>4
  <2> HIDE DEF b
  <2> QED
    BY <2>3, <2>4
<1> HIDE DEF b
<1>6. ReadLiteralsHeader(b) =
        [type |-> t, streams |-> IF f = 0 THEN 1 ELSE 4, bytes |-> <<3, 3, 4, 5>>[f + 1],
         regenerated |-> n, compressed |-> c]
  <2>1. t \notin {0, 1}
    BY <1>1
  <2> QED
    BY <1>4, <1>5, <2>1 DEF ReadLiteralsHeader, HeaderBytesNeeded
<1>7. /\ 8 * <<3, 3, 4, 5>>[f + 1] = Len(b)
      /\ (IF f = 0 THEN 1 ELSE 4) = IF n < 6 THEN 1 ELSE 4
  BY <1>4, <1>5
<1> DEFINE r == ReadLiteralsHeader(b)
<1>8. /\ r.bytes = <<3, 3, 4, 5>>[f + 1] /\ r.type = t /\ r.regenerated = n /\ r.compressed = c
      /\ r.streams = IF f = 0 THEN 1 ELSE 4
  BY <1>6
<1> HIDE DEF r
<1>9. LiteralsHeaderArrives(h, r, b)
  BY <1>7, <1>8 DEF LiteralsHeaderArrives, t, n, c
<1> QED
  BY <1>2, <1>9 DEF r

-----------------------------------------------------------------------------
(* Headers of frames.                                                      *)

LEMMA MinSizeIs ==
    ASSUME NEW val \in U64s
    PROVE  /\ MinSize(val) \in {1, 2, 4, 8}
           /\ \A i \in (MinSize(val) + 1)..8 : val[i] = 0
           /\ MinSize(val) = 2 => val[2] # 0
<1> DEFINE Sizes == {n \in {1, 2, 4, 8} : \A i \in (n + 1)..8 : val[i] = 0}
           least == MinSize(val)
<1>1. Sizes \subseteq {1, 2, 4, 8} /\ 8 \in Sizes
  OBVIOUS
<1>2. least = Min(Sizes)
  BY Zenon DEF MinSize
<1> HIDE DEF least
<1>3. Sizes \in SUBSET Nat /\ Sizes # {}
  <2> HIDE DEF Sizes
  <2> QED
    BY <1>1
<1>4. least \in Sizes /\ \A y \in Sizes : least <= y
  <2> HIDE DEF Sizes
  <2> QED
    BY <1>2, <1>3, LeastOf, Zenon
<1>5. ASSUME least = 2 PROVE val[2] # 0
  <2>1. 1 \notin Sizes
    BY <1>4, <1>5
  <2>2. PICK i \in 2..8 : val[i] # 0
    BY <2>1
  <2>3. i \notin 3..8
    BY <1>4, <1>5, <2>2
  <2>4. i = 2
    BY <2>3
  <2> QED
    BY <2>2, <2>4
<1> QED
  BY <1>4, <1>5 DEF least

LEMMA U64sAreBytes ==
    ASSUME NEW val \in U64s
    PROVE  /\ val \in [1..8 -> 0..255] /\ val = [i \in 1..8 |-> val[i]]
           /\ val \in Seq(0..255) /\ Len(val) = 8
<1> DEFINE n == 8
           Octets == 0..255
<1>1. val \in [1..n -> Octets] /\ val = [i \in 1..n |-> val[i]] /\ n \in Nat
  BY DEF U64s
<1> HIDE DEF n, Octets
<1>2. val \in Seq(Octets) /\ Len(val) = n
  BY <1>1, OfLength, SMT
<1> QED
  BY <1>1, <1>2 DEF n, Octets

\* What is cut off is put on again.
LEMMA FrontIsEnough ==
    ASSUME NEW val \in U64s, NEW n \in 0..8, \A i \in (n + 1)..8 : val[i] = 0
    PROVE  /\ SubSeq(val, 1, n) \in Seq(0..255) /\ PartOf(SubSeq(val, 1, n), val, 0, n)
           /\ U64(SubSeq(val, 1, n)) = val
<1> DEFINE front == SubSeq(val, 1, n)
           m == 8 - n
           rest == [i \in 1..m |-> 0]
           all == front \o rest
<1>1. val = [i \in 1..8 |-> val[i]] /\ val \in Seq(0..255) /\ Len(val) = 8
  BY U64sAreBytes
<1>2. m \in Nat /\ n \in Nat /\ n + m = 8
  OBVIOUS
<1>3. front \in Seq(0..255) /\ PartOf(front, val, 0, n)
  <2>1. 0 \in Nat /\ 0 + n <= Len(val) /\ 0 + 1 = 1 /\ 0 + n = n
    BY <1>1
  <2>2. /\ SubSeq(val, 0 + 1, 0 + n) \in Seq(0..255)
        /\ PartOf(SubSeq(val, 0 + 1, 0 + n), val, 0, n)
    BY <1>1, <1>2, <2>1, PartIs, Zenon
  <2> QED
    BY <2>1, <2>2
<1> HIDE DEF front
<1>4. Len(front) = n /\ \A i \in 1..n : front[i] = val[i]
  BY <1>3 DEF PartOf
<1>5. U64(front) = all
  BY <1>4 DEF U64, Zeros
<1>6. rest \in Seq(0..255) /\ Len(rest) = m /\ \A i \in 1..m : rest[i] = 0
  <2> DEFINE Octets == 0..255
  <2>1. rest \in [1..m -> Octets] /\ \A i \in 1..m : rest[i] = 0
    OBVIOUS
  <2> HIDE DEF rest, m, Octets
  <2>2. rest \in Seq(Octets) /\ Len(rest) = m
    BY <1>2, <2>1, OfLength, SMT
  <2> QED
    BY <2>1, <2>2 DEF Octets
<1> HIDE DEF rest, m
<1>7. all \in Seq(0..255) /\ Row(all, front, n, rest, m)
  BY <1>2, <1>3, <1>4, <1>6, InARow, ZenonT(60)
<1> HIDE DEF all
<1>8. ASSUME NEW i \in 1..8 PROVE all[i] = val[i]
  <2>1. CASE i <= n
    <3>1. i \in 1..n
      BY <2>1
    <3> QED
      BY <1>4, <1>7, <3>1 DEF Row
  <2>2. CASE i > n
    <3>1. i - n \in 1..m /\ n + (i - n) = i /\ i \in (n + 1)..8
      BY <1>2, <2>2
    <3>2. all[n + (i - n)] = rest[i - n]
      BY <1>7, <3>1 DEF Row
    <3> QED
      BY <1>6, <3>1, <3>2
  <2> QED
    BY <2>1, <2>2
<1>9. Len(all) = 8
  BY <1>2, <1>7 DEF Row
<1>10. all = val
  BY <1>1, <1>7, <1>8, <1>9, SeqEqual
<1> QED
  BY <1>3, <1>5, <1>10 DEF front

\* Four fields one behind the other.
FieldsIn(all, a, la, b, lb, c, lc, d, ld) ==
    /\ Len(all) = la + lb + lc + ld
    /\ \A i \in 1..la : all[i] = a[i]
    /\ \A i \in 1..lb : all[la + i] = b[i]
    /\ SubSeq(all, la + lb + 1, la + lb + lc) = c
    /\ SubSeq(all, la + lb + lc + 1, la + lb + lc + ld) = d

LEMMA FieldsAreFound ==
    ASSUME NEW S, NEW a \in Seq(S), NEW b \in Seq(S), NEW c \in Seq(S), NEW d \in Seq(S),
           NEW la \in Nat, NEW lb \in Nat, NEW lc \in Nat, NEW ld \in Nat,
           Len(a) = la, Len(b) = lb, Len(c) = lc, Len(d) = ld
    PROVE  FieldsIn(a \o b \o c \o d, a, la, b, lb, c, lc, d, ld)
<1> DEFINE two == a \o b
           three == two \o c
           all == three \o d
           lab == la + lb
           labc == lab + lc
<1> SUFFICES FieldsIn(all, a, la, b, lb, c, lc, d, ld)
  BY Zenon
<1>1. two = a \o b /\ three = two \o c /\ all = three \o d
  BY Zenon
<1>2. lab \in Nat /\ labc \in Nat
  OBVIOUS
<1> HIDE DEF two, three, all
<1>3. two \in Seq(S) /\ Row(two, a, la, b, lb)
  BY <1>1, InARow, Zenon
<1>4. Len(two) = lab
  BY <1>3 DEF Row
<1> HIDE DEF lab
<1>5. three \in Seq(S) /\ Row(three, two, lab, c, lc)
  BY <1>1, <1>2, <1>3, <1>4, InARow, Zenon
<1>6. Len(three) = labc
  BY <1>5 DEF Row
<1> HIDE DEF labc
<1>7. all \in Seq(S) /\ Row(all, three, labc, d, ld)
  BY <1>1, <1>2, <1>5, <1>6, InARow, Zenon
<1>8. \A i \in 1..labc : all[i] = three[i]
  BY <1>7 DEF Row
<1>9. \A i \in 1..lab : three[i] = two[i] /\ i \in 1..labc
  <2>1. \A i \in 1..lab : i \in 1..labc
    BY <1>2 DEF labc
  <2> QED
    BY <1>5, <2>1 DEF Row
<1>10. ASSUME NEW i \in 1..la PROVE all[i] = a[i]
  <2>1. i \in 1..lab
    BY DEF lab
  <2>2. two[i] = a[i]
    BY <1>3 DEF Row
  <2> QED
    BY <1>8, <1>9, <2>1, <2>2
<1>11. ASSUME NEW i \in 1..lb PROVE all[la + i] = b[i]
  <2>1. la + i \in 1..lab
    BY DEF lab
  <2>2. two[la + i] = b[i]
    BY <1>3 DEF Row
  <2> QED
    BY <1>8, <1>9, <2>1, <2>2
<1>12. ASSUME NEW i \in 1..lc PROVE all[lab + i] = c[i]
  <2>1. lab + i \in 1..labc
    BY <1>2 DEF labc
  <2>2. three[lab + i] = c[i]
    BY <1>5 DEF Row
  <2> QED
    BY <1>8, <2>1, <2>2
<1>13. ASSUME NEW i \in 1..ld PROVE all[labc + i] = d[i]
  BY <1>7 DEF Row
<1>14. Len(all) = labc + ld
  BY <1>7 DEF Row
<1>15. SubSeq(all, lab + 1, lab + lc) = c
  <2> DEFINE part == SubSeq(all, lab + 1, lab + lc)
  <2>1. lab + lc <= Len(all)
    BY <1>2, <1>14 DEF labc
  <2>2. part \in Seq(S) /\ PartOf(part, all, lab, lc)
    BY <1>2, <1>7, <2>1, PartIs, Zenon
  <2> HIDE DEF part
  <2>3. Len(part) = lc /\ \A i \in 1..lc : part[i] = c[i]
    BY <1>12, <2>2 DEF PartOf
  <2>4. part = c
    BY <2>2, <2>3, SeqEqual
  <2> QED
    BY <2>4 DEF part
<1>16. SubSeq(all, labc + 1, labc + ld) = d
  <2> DEFINE part == SubSeq(all, labc + 1, labc + ld)
  <2>1. labc + ld <= Len(all)
    BY <1>2, <1>14
  <2>2. part \in Seq(S) /\ PartOf(part, all, labc, ld)
    BY <1>2, <1>7, <2>1, PartIs, Zenon
  <2> HIDE DEF part
  <2>3. Len(part) = ld /\ \A i \in 1..ld : part[i] = d[i]
    BY <1>13, <2>2 DEF PartOf
  <2>4. part = d
    BY <2>2, <2>3, SeqEqual
  <2> QED
    BY <2>4 DEF part
<1> QED
  BY <1>10, <1>11, <1>14, <1>15, <1>16 DEF lab, labc, FieldsIn

\* The window that is read holds what was asked for, and is not twice as large
\* where more than the least one was asked for.
Rounded(size, window) ==
    size \in Nat /\ size >= window /\ (window > 1024 => size < 2 * window)

LEMMA WindowIsRounded ==
    ASSUME NEW window \in 0..2^30
    PROVE  Rounded(WindowSize(WindowDescriptor(window)), window)
<1> DEFINE K == {k \in 0..30 : window <= 2^k}
           log == Min(K)
           e == IF log > 10 THEN log - 10 ELSE 1
           size == WindowSize(8 * e)
<1>1. window \in Nat /\ 30 \in K
  <2>1. 2^30 \in Nat /\ 30 \in 0..30
    OBVIOUS
  <2> QED
    BY <2>1
<1>2. K \in SUBSET Nat /\ K # {}
  <2>1. K \subseteq 0..30
    OBVIOUS
  <2> HIDE DEF K
  <2> QED
    BY <1>1, <2>1
<1>3. log \in K /\ \A k \in K : log <= k
  <2> HIDE DEF K
  <2> QED
    BY <1>2, LeastOf, Zenon
<1>4. WindowDescriptor(window) = 8 * e
  BY Zenon DEF WindowDescriptor
<1> HIDE DEF log
<1>5. log \in 0..30 /\ window <= Pow(log)
  BY <1>3 DEF Pow
<1>6. e \in 1..20 /\ (log > 10 => 10 + e = log) /\ (log <= 10 => 10 + e = 11)
  BY <1>5
<1> HIDE DEF e
<1>7. size = Pow(10 + e) /\ Pow(10 + e) \in Nat
  <2> DEFINE byte == 8 * e
  <2>1. byte \div 8 = e /\ byte % 8 = 0
    BY <1>6
  <2> HIDE DEF byte
  <2> DEFINE base == Pow(10 + e)
  <2>2. size = base + (base \div 8) * 0
    BY <2>1 DEF WindowSize, Pow, byte
  <2>3. 10 + e \in 0..31
    BY <1>6
  <2>4. base \in Nat
    BY <2>3, Powers
  <2> HIDE DEF base
  <2>5. base \div 8 \in Int
    BY <2>4
  <2>6. base + (base \div 8) * 0 = base
    BY <2>4, <2>5
  <2> QED
    BY <2>2, <2>4, <2>6 DEF base
<1> HIDE DEF size
<1>8. CASE log > 10
  <2> DEFINE half == Pow(log - 1)
  <2>1. log - 1 \in 0..30 /\ (log - 1) + 1 = log
    BY <1>5, <1>8
  <2>2. half \in Nat /\ Pow((log - 1) + 1) = 2 * half
    BY <2>1, Doubles
  <2>3. window > half
    <3>1. log - 1 \notin K
      BY <1>3, <1>5
    <3>2. ~(window <= half)
      BY <2>1, <3>1 DEF Pow
    <3> HIDE DEF half
    <3> QED
      BY <1>1, <2>2, <3>2
  <2> HIDE DEF half
  <2> QED
    BY <1>1, <1>4, <1>5, <1>6, <1>7, <1>8, <2>1, <2>2, <2>3 DEF size, Rounded
<1>9. CASE log <= 10
  <2>1. Pow(11) = 2048
    BY DEF Pow
  <2>2. Pow(log) <= 1024
    <3>1. log \in 0..10
      BY <1>5, <1>9
    <3> QED
      BY <3>1, SmallPowers
  <2>3. size = 2048 /\ window <= 1024
    <3>1. Pow(log) \in Nat
      BY <1>5, Doubles
    <3> QED
      BY <1>1, <1>5, <1>6, <1>7, <1>9, <2>1, <2>2, <3>1
  <2> QED
    BY <1>1, <1>4, <2>3 DEF size, Rounded
<1> QED
  BY <1>5, <1>8, <1>9

\* The name of the dictionary, and the size of the frame: the bytes that are
\* written, their number as the descriptor gives it, and what is made of them.
LEMMA DictArrives ==
    ASSUME NEW val \in U64s, MinSize(val) # 8
    PROVE  /\ DictFlag(MinSize(val)) \in 1..3
           /\ Minified(val) \in Seq(0..255)
           /\ Len(Minified(val)) = <<0, 1, 2, 4>>[DictFlag(MinSize(val)) + 1]
           /\ U64(Minified(val)) = val
<1> DEFINE n == MinSize(val)
<1>1. n \in {1, 2, 4} /\ \A i \in (n + 1)..8 : val[i] = 0
  BY MinSizeIs
<1>2. Minified(val) = SubSeq(val, 1, n)
  BY DEF Minified
<1> HIDE DEF n
<1>3. /\ SubSeq(val, 1, n) \in Seq(0..255) /\ PartOf(SubSeq(val, 1, n), val, 0, n)
      /\ U64(SubSeq(val, 1, n)) = val
  <2>1. n \in 0..8
    BY <1>1
  <2> QED
    BY <1>1, <2>1, FrontIsEnough
<1>4. Len(SubSeq(val, 1, n)) = n
  BY <1>3 DEF PartOf
<1>5. DictFlag(n) \in 1..3 /\ n = <<0, 1, 2, 4>>[DictFlag(n) + 1]
  BY <1>1 DEF DictFlag
<1> QED
  BY <1>2, <1>3, <1>4, <1>5 DEF n

LEMMA FcsArrives ==
    ASSUME NEW val \in U64s, MinSize(val) # 8
    PROVE  LET n == MinSize(val)
               x == U64(MinifiedFcs(val))
           IN  /\ n \in {1, 2, 4} /\ MinifiedFcs(val) \in Seq(0..255)
               /\ Len(MinifiedFcs(val)) = n
               /\ val = IF n = 2 THEN Plus256(x) ELSE x
<1> DEFINE n == MinSize(val)
           x == U64(MinifiedFcs(val))
<1>1. /\ n \in {1, 2, 4} /\ \A i \in (n + 1)..8 : val[i] = 0
      /\ n = 2 => val[2] # 0
  BY MinSizeIs
<1>2. MinifiedFcs(val) = IF n = 2 THEN <<val[1], val[2] - 1>> ELSE SubSeq(val, 1, n)
  BY DEF MinifiedFcs, Minified
<1> HIDE DEF n
<1>3. val = [i \in 1..8 |-> val[i]]
  BY U64sAreBytes
<1>4. CASE n # 2
  <2>1. n \in 0..8
    BY <1>1
  <2>2. /\ SubSeq(val, 1, n) \in Seq(0..255) /\ PartOf(SubSeq(val, 1, n), val, 0, n)
        /\ U64(SubSeq(val, 1, n)) = val
    BY <1>1, <2>1, FrontIsEnough
  <2>3. MinifiedFcs(val) = SubSeq(val, 1, n)
    BY <1>2, <1>4
  <2>4. Len(SubSeq(val, 1, n)) = n
    BY <2>2 DEF PartOf
  <2> QED
    BY <1>1, <1>4, <2>2, <2>3, <2>4 DEF n
<1>5. CASE n = 2
  <2> DEFINE less == [val EXCEPT ![2] = @ - 1]
             lower == <<val[1], val[2] - 1>>
             front == SubSeq(less, 1, 2)
  <2>1. val[2] \in 1..255 /\ val[1] \in 0..255
    BY <1>1, <1>5 DEF U64s
  <2>2. /\ less \in U64s /\ \A i \in 3..8 : less[i] = 0
        /\ less[1] = val[1] /\ less[2] = val[2] - 1
    BY <1>1, <1>5, <2>1 DEF U64s
  <2>3. val = [less EXCEPT ![2] = @ + 1]
    BY <1>3, <2>1, SMTT(30)
  <2> HIDE DEF less
  <2>4. front \in Seq(0..255) /\ PartOf(front, less, 0, 2) /\ U64(front) = less
    <3>1. 2 \in 0..8 /\ \A i \in (2 + 1)..8 : less[i] = 0
      BY <2>2
    <3> QED
      BY <2>2, <3>1, FrontIsEnough
  <2>5. lower \in Seq(0..255) /\ Len(lower) = 2 /\ lower[1] = val[1] /\ lower[2] = val[2] - 1
    BY <2>1
  <2> HIDE DEF front, lower
  <2>6. Len(front) = 2 /\ front[1] = less[1] /\ front[2] = less[2]
    BY <2>4 DEF PartOf
  <2>7. front = lower
    <3>1. \A i \in 1..Len(front) : front[i] = lower[i]
      BY <2>2, <2>5, <2>6
    <3>2. Len(front) = Len(lower)
      BY <2>5, <2>6
    <3> QED
      BY <2>4, <2>5, <3>1, <3>2, SeqEqual, ZenonT(60)
  <2>8. MinifiedFcs(val) = lower
    BY <1>2, <1>5 DEF lower
  <2>9. x = less
    BY <2>4, <2>7, <2>8
  <2>10. Plus256(x) = val
    <3>1. less[2] < 255
      BY <2>1, <2>2
    <3> QED
      BY <2>3, <2>9, <3>1 DEF Plus256
  <2> QED
    BY <1>5, <2>5, <2>8, <2>10 DEF n
<1> QED
  BY <1>4, <1>5 DEF n

LEMMA FrameArrives ==
    ASSUME NEW h, h.fcs = Absent \/ h.fcs \in U64s, h.dict = Absent \/ h.dict \in U64s,
           h.window = Absent \/ h.window \in 0..2^30, h.single \in BOOLEAN, h.checksum \in BOOLEAN,
           IsSerializable(h), IsReadable(h)
    PROVE  FrameHeaderArrives(h, ReadFrameHeader(Serialized(h)), Serialized(h))
<1> DEFINE dict == IF h.dict = Absent THEN 0 ELSE DictFlag(MinSize(h.dict))
           checksum == IF h.checksum THEN 4 ELSE 0
           single == IF h.single THEN 32 ELSE 0
           fcs == IF h.fcs = Absent THEN 0 ELSE FcsFlag(MinSize(h.fcs))
           desc == dict + checksum + single + 64 * fcs
           wd == WindowDescriptor(h.window)
           b == IF h.single THEN <<>> ELSE <<wd>>
           c == IF h.dict = Absent THEN <<>> ELSE Minified(h.dict)
           d == IF h.fcs = Absent THEN <<>> ELSE MinifiedFcs(h.fcs)
           bytes == <<desc>> \o b \o c \o d
           r == ReadFrameHeader(bytes)
           asDict == IF h.dict = Absent THEN Zeros(8) ELSE h.dict
           x == U64(d)
<1>1. Serialized(h) = bytes
  BY DEF Serialized, Descriptor
<1>2. U64(<<>>) = Zeros(8)
  BY DEF U64, Zeros
<1>3. dict \in 0..3 /\ c \in Seq(0..255) /\ Len(c) = <<0, 1, 2, 4>>[dict + 1] /\ U64(c) = asDict
  <2>1. CASE h.dict = Absent
    BY <1>2, <2>1
  <2>2. CASE h.dict # Absent
    <3>1. h.dict \in U64s /\ MinSize(h.dict) # 8
      BY <2>2 DEF IsSerializable
    <3> QED
      BY <2>2, <3>1, DictArrives
  <2> QED
    BY <2>1, <2>2
<1>4. /\ fcs \in 0..2 /\ d \in Seq(0..255)
      /\ Len(d) = IF fcs = 0 THEN (IF h.single THEN 1 ELSE 0) ELSE 2^fcs
      /\ (IF h.fcs = Absent THEN Zeros(8) ELSE h.fcs) = IF Len(d) = 2 THEN Plus256(x) ELSE x
  <2>1. CASE h.fcs = Absent
    <3>1. ~h.single
      BY <2>1 DEF IsSerializable
    <3> QED
      BY <1>2, <2>1, <3>1
  <2>2. CASE h.fcs # Absent
    <3> DEFINE n == MinSize(h.fcs)
    <3>1. h.fcs \in U64s /\ n # 8 /\ (n = 1 => h.single)
      BY <2>2 DEF IsSerializable, IsReadable
    <3>2. d = MinifiedFcs(h.fcs)
      BY <2>2
    <3> HIDE DEF d
    <3>3. /\ n \in {1, 2, 4} /\ d \in Seq(0..255) /\ Len(d) = n
          /\ h.fcs = IF n = 2 THEN Plus256(x) ELSE x
      BY <3>1, <3>2, FcsArrives
    <3> HIDE DEF n
    <3>4. fcs = FcsFlag(n) /\ 2^1 = 2 /\ 2^2 = 4
      BY <2>2 DEF n
    <3>5. fcs \in 0..2 /\ Len(d) = IF fcs = 0 THEN (IF h.single THEN 1 ELSE 0) ELSE 2^fcs
      <4> HIDE DEF d, fcs
      <4>1. CASE n = 1
        BY <3>1, <3>3, <3>4, <4>1 DEF FcsFlag
      <4>2. CASE n = 2
        BY <3>3, <3>4, <4>2 DEF FcsFlag
      <4>3. CASE n = 4
        BY <3>3, <3>4, <4>3 DEF FcsFlag
      <4> QED
        BY <3>3, <4>1, <4>2, <4>3
    <3> QED
      BY <2>2, <3>3, <3>5
  <2> QED
    BY <2>1, <2>2
<1>5. /\ checksum \in {0, 4} /\ (checksum = 4 <=> h.checksum)
      /\ single \in {0, 32} /\ (single = 32 <=> h.single)
  OBVIOUS
<1>6. h.single \/ Rounded(WindowSize(wd), h.window)
  <2>1. CASE ~h.single
    <3>1. h.window \in 0..2^30
      BY <2>1 DEF IsSerializable
    <3> QED
      BY <3>1, WindowIsRounded, Zenon
  <2> QED
    BY <2>1
<1> DEFINE S == {desc, wd} \cup (0..255)
<1>7. /\ <<desc>> \in Seq(S) /\ Len(<<desc>>) = 1 /\ <<desc>>[1] = desc
      /\ b \in Seq(S) /\ Len(b) = (IF h.single THEN 0 ELSE 1) /\ (~h.single => b[1] = wd)
  <2>1. desc \in S /\ wd \in S
    OBVIOUS
  <2> HIDE DEF S, desc, wd
  <2>2. <<desc>> \in Seq(S) /\ Len(<<desc>>) = 1 /\ <<desc>>[1] = desc
    BY <2>1
  <2>3. CASE h.single
    BY <2>2, <2>3
  <2>4. CASE ~h.single
    BY <2>1, <2>2, <2>4
  <2> QED
    BY <2>3, <2>4
<1>8. c \in Seq(S) /\ d \in Seq(S)
  <2>1. 0..255 \subseteq S
    OBVIOUS
  <2> HIDE DEF S, c, d
  <2>2. c \in Seq(S)
    BY <1>3, <2>1, SeqMonotonic, Zenon
  <2>3. d \in Seq(S)
    BY <1>4, <2>1, SeqMonotonic, Zenon
  <2> QED
    BY <2>2, <2>3
<1> HIDE DEF dict, checksum, single, fcs, wd, b, c, d, asDict, S
<1>9. /\ desc % 4 = dict /\ desc \div 64 = fcs
      /\ (desc \div 4) % 2 = 1 <=> h.checksum
      /\ (desc \div 32) % 2 = 1 <=> h.single
  <2>1. desc = dict + checksum + single + 64 * fcs
    BY Zenon DEF desc
  <2> HIDE DEF desc
  <2>2. /\ desc % 4 = dict /\ desc \div 64 = fcs
        /\ (desc \div 4) % 2 = 1 <=> checksum = 4
        /\ (desc \div 32) % 2 = 1 <=> single = 32
    <3>1. dict \in 0..3 /\ fcs \in 0..2 /\ checksum \in {0, 4} /\ single \in {0, 32}
      BY <1>3, <1>4, <1>5
    <3>2. CASE single = 0
      BY <2>1, <3>1, <3>2
    <3>3. CASE single = 32
      BY <2>1, <3>1, <3>3
    <3> QED
      BY <3>1, <3>2, <3>3
  <2> QED
    BY <1>5, <2>2
<1> HIDE DEF desc
<1> DEFINE dictAt == IF h.single THEN 1 ELSE 2
           fcsAt == dictAt + Len(c)
           len == fcsAt + Len(d)
<1>10. /\ bytes[1] = desc /\ (~h.single => bytes[2] = wd)
       /\ SubSeq(bytes, dictAt + 1, fcsAt) = c /\ SubSeq(bytes, fcsAt + 1, len) = d
       /\ Len(bytes) = len
  <2> DEFINE one == <<desc>>
             lb == Len(b)
  <2>1. one \in Seq(S) /\ Len(one) = 1 /\ one[1] = desc
    BY <1>7
  <2>2. 1 + lb = dictAt /\ lb \in Nat /\ dictAt \in Nat /\ lb = (IF h.single THEN 0 ELSE 1)
    BY <1>7
  <2>3. FieldsIn(bytes, one, 1, b, lb, c, Len(c), d, Len(d))
    <3>1. Len(c) \in Nat /\ Len(d) \in Nat /\ 1 \in Nat /\ Len(b) = lb
      BY <1>8, LenProperties, Zenon
    <3> HIDE DEF one, lb
    <3> QED
      BY <1>7, <1>8, <2>1, <2>2, <3>1, FieldsAreFound, Zenon DEF bytes, one
  <2> HIDE DEF one, bytes
  <2>4. /\ Len(bytes) = Len(one) + lb + Len(c) + Len(d)
        /\ \A i \in 1..Len(one) : bytes[i] = one[i]
        /\ \A i \in 1..lb : bytes[Len(one) + i] = b[i]
        /\ SubSeq(bytes, Len(one) + lb + 1, Len(one) + lb + Len(c)) = c
        /\ SubSeq(bytes, Len(one) + lb + Len(c) + 1, Len(one) + lb + Len(c) + Len(d)) = d
    BY <2>1, <2>3 DEF FieldsIn
  <2> HIDE DEF lb
  <2>5. /\ Len(bytes) = len /\ SubSeq(bytes, dictAt + 1, fcsAt) = c
        /\ SubSeq(bytes, fcsAt + 1, len) = d
    <3> HIDE DEF dictAt
    <3> QED
      BY <2>1, <2>2, <2>4
  <2>6. bytes[1] = desc
    BY <2>1, <2>4
  <2>7. ASSUME ~h.single PROVE bytes[2] = wd
    <3>1. 1 \in 1..lb /\ 1 + 1 = 2
      BY <2>2, <2>7
    <3> QED
      BY <1>7, <2>1, <2>4, <2>7, <3>1
  <2> QED
    BY <2>5, <2>6, <2>7
<1> HIDE DEF bytes
<1>11. /\ (SingleSegment(desc) <=> h.single) /\ DictBytes(desc) = Len(c)
       /\ FcsBytes(desc) = Len(d)
  BY <1>3, <1>4, <1>9 DEF SingleSegment, DictBytes, FcsBytes
<1>12. r = [checksum |-> (desc \div 4) % 2 = 1,
            single |-> SingleSegment(desc),
            window |-> IF h.single THEN Absent ELSE WindowSize(bytes[2]),
            dict |-> IF U64(c) = Zeros(8) THEN Absent ELSE U64(c),
            fcs |-> IF Len(d) = 2 THEN Plus256(x) ELSE x,
            used |-> len]
  BY <1>10, <1>11 DEF ReadFrameHeader
<1> HIDE DEF x, len, dictAt, fcsAt
<1>13. r.used = Len(bytes) /\ (r.checksum <=> h.checksum) /\ (r.single <=> h.single)
  BY <1>9, <1>10, <1>11, <1>12
<1>14. r.dict = IF h.dict \in {Absent, Zeros(8)} THEN Absent ELSE h.dict
  BY <1>3, <1>12 DEF asDict
<1>15. r.fcs = IF h.fcs = Absent THEN Zeros(8) ELSE h.fcs
  BY <1>4, <1>12
<1>16. ~h.single => r.window >= h.window /\ (h.window > 1024 => r.window < 2 * h.window)
  BY <1>6, <1>10, <1>12 DEF Rounded
<1>17. r.checksum \in BOOLEAN /\ r.single \in BOOLEAN
  BY <1>12 DEF SingleSegment
<1> HIDE DEF r
<1>18. r.checksum = h.checksum /\ r.single = h.single
  BY <1>13, <1>17
<1>19. FrameHeaderArrives(h, r, bytes)
  BY <1>13, <1>14, <1>15, <1>16, <1>18 DEF FrameHeaderArrives
<1> QED
  BY <1>1, <1>19 DEF r

-----------------------------------------------------------------------------
(* Headers on their way.                                                   *)

\* What is on its way is what was written, and what arrived was read from it.
OnItsWay ==
    /\ item \in HeaderItems
    /\ place \in {"given", "sent", "received"}
    /\ place # "given" =>
          sent = CASE item.kind = "frame"           -> Serialized(item.value)
                   [] item.kind = "block"           -> SerializedBlock(item.value)
                   [] item.kind = "literals header" -> LiteralsHeader(item.value)
    /\ place = "received" =>
          received = CASE item.kind = "frame"           -> ReadFrameHeader(sent)
                       [] item.kind = "block"           -> ReadBlockHeader(sent)
                       [] item.kind = "literals header" -> ReadLiteralsHeader(sent)

LEMMA HeadersAreOnTheirWay == HeaderSpec => []OnItsWay
<1>1. HeaderInit => OnItsWay
  BY Zenon DEF HeaderInit, OnItsWay
<1>2. ASSUME OnItsWay, [HeaderNext]_headerVars
      PROVE  OnItsWay'
  <2>1. CASE WriteItem
    BY <1>2, <2>1, Zenon DEF OnItsWay, WriteItem
  <2>2. CASE ReadItem
    BY <1>2, <2>2, Zenon DEF OnItsWay, ReadItem
  <2>3. CASE UNCHANGED headerVars
    BY <1>2, <2>3, Zenon DEF OnItsWay, headerVars
  <2> QED
    BY <1>2, <2>1, <2>2, <2>3 DEF HeaderNext
<1> QED
  BY <1>1, <1>2, PTL DEF HeaderSpec

\* Headers of frames, blocks and literals sections say to the decoder what the
\* encoder meant, in exactly their bytes: header.rs, block_header.rs and
\* literals_section.rs agree with what the compressor writes, for all fields.
THEOREM HeadersAlwaysArrive == HeaderSpec => []HeadersArrive
<1>1. OnItsWay => HeadersArrive
  <2> SUFFICES ASSUME OnItsWay, place = "received" PROVE HeadersArrive
    BY Zenon DEF HeadersArrive
  <2> DEFINE h == item.value
  <2>1. \/ item.kind = "frame" /\ h \in FrameHeaders
        \/ item.kind = "block" /\ h \in BlockHeaders
        \/ item.kind = "literals header" /\ h \in LiteralsHeaders
    BY DEF OnItsWay, HeaderItems
  <2> HIDE DEF h
  <2>2. CASE item.kind = "frame" /\ h \in FrameHeaders
    <3>1. FrameHeaderArrives(h, ReadFrameHeader(Serialized(h)), Serialized(h))
      BY <2>2, HeadersAssumption, FrameArrives
    <3>2. sent = Serialized(h) /\ received = ReadFrameHeader(sent)
      BY <2>2 DEF OnItsWay, h
    <3> QED
      BY <2>2, <3>1, <3>2 DEF HeadersArrive, h
  <2>3. CASE item.kind = "block" /\ h \in BlockHeaders
    <3>1. BlockHeaderArrives(h, ReadBlockHeader(SerializedBlock(h)))
      BY <2>3, HeadersAssumption, BlockArrives
    <3>2. sent = SerializedBlock(h) /\ received = ReadBlockHeader(sent)
      BY <2>3 DEF OnItsWay, h
    <3> QED
      BY <2>3, <3>1, <3>2 DEF HeadersArrive, h
  <2>4. CASE item.kind = "literals header" /\ h \in LiteralsHeaders
    <3>1. LiteralsHeaderArrives(h, ReadLiteralsHeader(LiteralsHeader(h)), LiteralsHeader(h))
      <4>1. h.type \in {0, 2, 3} /\ h.regenerated \in 0..(2^18 - 1) /\ h.compressed \in 0..h.regenerated
        BY <2>4, HeadersAssumption, Zenon
      <4> QED
        BY <4>1, RawLiteralsArrive, CompressedLiteralsArrive
    <3>2. sent = LiteralsHeader(h) /\ received = ReadLiteralsHeader(sent)
      BY <2>4 DEF OnItsWay, h
    <3> QED
      BY <2>4, <3>1, <3>2 DEF HeadersArrive, h
  <2> QED
    BY <2>1, <2>2, <2>3, <2>4
<1> QED
  BY <1>1, HeadersAreOnTheirWay, PTL

-----------------------------------------------------------------------------
(* Powers and logarithms.                                                  *)

LEMMA PowSum == \A a, b \in 0..31 : a + b <= 31 => Pow(a + b) = Pow(a) * Pow(b)
<1> SUFFICES ASSUME NEW a \in 0..31
             PROVE  \A b \in 0..31 : a + b <= 31 => Pow(a + b) = Pow(a) * Pow(b)
  BY Zenon
<1> DEFINE S == {b \in Nat : a + b <= 31 => Pow(a + b) = Pow(a) * Pow(b)}
<1>1. 0 \in S
  <2>1. a + 0 = a /\ Pow(a) \in Nat /\ Pow(0) = 1
    BY Powers
  <2> QED
    BY <2>1
<1>2. ASSUME NEW b \in S PROVE b + 1 \in S
  <2> SUFFICES ASSUME a + (b + 1) <= 31 PROVE Pow(a + (b + 1)) = Pow(a) * Pow(b + 1)
    OBVIOUS
  <2>1. b \in Nat /\ a + (b + 1) = (a + b) + 1 /\ a + b \in 0..30 /\ b \in 0..30 /\ a + b <= 31
    OBVIOUS
  <2>2. Pow(a + b) = Pow(a) * Pow(b)
    BY <2>1
  <2>3. Pow((a + b) + 1) = 2 * Pow(a + b) /\ Pow(b + 1) = 2 * Pow(b) /\ Pow(a) \in Nat /\ Pow(b) \in Nat
    BY <2>1, Powers
  <2> DEFINE x == Pow(a)
             y == Pow(b)
             z == Pow(b + 1)
             u == Pow(a + b)
             w == Pow((a + b) + 1)
  <2>4. w = 2 * u /\ z = 2 * y /\ u = x * y /\ x \in Nat /\ y \in Nat
    BY <2>2, <2>3
  <2> HIDE DEF x, y, z, u, w
  <2>5. w = x * z
    BY <2>4
  <2> QED
    BY <2>1, <2>5 DEF x, z, w
<1>3. S \in SUBSET Nat
  OBVIOUS
<1> HIDE DEF S
<1>4. \A b \in Nat : b \in S
  BY <1>1, <1>2, <1>3, InductionOnSets, Zenon
<1>5. \A b \in 0..31 : b \in Nat
  OBVIOUS
<1> QED
  BY <1>4, <1>5 DEF S

LEMMA PowLess == \A a, b \in 0..31 : (a < b => 2 * Pow(a) <= Pow(b)) /\ (a <= b => Pow(a) <= Pow(b))
<1> SUFFICES ASSUME NEW a \in 0..31, NEW b \in 0..31
             PROVE  (a < b => 2 * Pow(a) <= Pow(b)) /\ (a <= b => Pow(a) <= Pow(b))
  BY Zenon
<1>1. Pow(a) \in Nat /\ Pow(b) \in Nat /\ Pow(a) >= 1
  BY Powers
<1>2. ASSUME a < b PROVE 2 * Pow(a) <= Pow(b)
  <2> DEFINE c == b - a - 1
  <2>1. c \in 0..30 /\ c \in 0..31 /\ c + 1 \in 0..31 /\ a + (c + 1) = b /\ a + (c + 1) <= 31
    BY <1>2
  <2> HIDE DEF c
  <2>2. Pow(b) = Pow(a) * Pow(c + 1)
    BY <2>1, PowSum
  <2>3. Pow(c + 1) = 2 * Pow(c) /\ Pow(c) \in Nat /\ Pow(c) >= 1
    BY <2>1, Powers
  <2> DEFINE x == Pow(a)
             y == Pow(c)
  <2>4. x \in Nat /\ y \in Nat /\ y >= 1 /\ Pow(b) = x * (2 * y)
    BY <2>2, <2>3, <1>1
  <2> HIDE DEF x, y
  <2>5. x * (2 * y) = (2 * x) * y
    BY <2>4
  <2>6. (2 * x) * y >= 2 * x
    BY <2>4
  <2> QED
    BY <2>4, <2>5, <2>6 DEF x
<1> QED
  BY <1>1, <1>2

LEMMA Log2Is ==
    ASSUME NEW n \in Nat, n >= 1, n < Pow(30)
    PROVE  /\ Log2(n) \in 0..29 /\ Pow(Log2(n)) <= n /\ n < Pow(Log2(n) + 1)
           /\ \A k \in 0..29 : Pow(k) <= n /\ n < Pow(k + 1) => Log2(n) = k
<1> DEFINE Is(k) == Pow(k) <= n /\ n < Pow(k + 1)
           S == {k \in Nat : k <= 29 /\ n < Pow(k + 1)}
<1>1. S # {} /\ S \in SUBSET Nat
  <2>1. 29 \in S
    BY DEF S
  <2> QED
    BY <2>1
<1> DEFINE m == Min(S)
<1>2. m \in S /\ \A y \in S : m <= y
  BY <1>1, LeastOf, Zenon
<1> HIDE DEF m
<1>3. m \in 0..29 /\ n < Pow(m + 1)
  BY <1>2
<1>4. Pow(m) <= n
  <2>1. CASE m = 0
    BY <2>1, Powers
  <2>2. CASE m # 0
    <3>1. m - 1 \in Nat /\ m - 1 <= 29 /\ (m - 1) + 1 = m /\ ~(m <= m - 1) /\ m \in 0..31
      BY <1>3, <2>2
    <3>2. m - 1 \notin S
      BY <1>2, <3>1
    <3>3. ~(n < Pow(m))
      BY <3>1, <3>2
    <3>4. Pow(m) \in Nat
      BY <3>1, Powers
    <3> QED
      BY <3>3, <3>4
  <2> QED
    BY <2>1, <2>2
<1>5. Log2(n) = CHOOSE k \in 0..29 : Is(k)
  BY DEF Log2, Pow
<1> HIDE DEF S
<1>6. Log2(n) \in 0..29 /\ Is(Log2(n))
  <2>1. \E k \in 0..29 : Is(k)
    BY <1>3, <1>4
  <2> HIDE DEF Is
  <2> QED
    BY <1>5, <2>1, Zenon
<1>7. ASSUME NEW k \in 0..29, NEW l \in 0..29, Is(k), Is(l), k < l PROVE FALSE
  <2>1. k + 1 \in 0..31 /\ l \in 0..31 /\ k + 1 <= l
    BY <1>7
  <2>2. Pow(k + 1) <= Pow(l) /\ Pow(k + 1) \in Nat /\ Pow(l) \in Nat
    BY <2>1, PowLess, Powers
  <2> QED
    BY <1>7, <2>2
<1>8. \A k \in 0..29 : Is(k) => Log2(n) = k
  <2> HIDE DEF Is
  <2> DEFINE l == Log2(n)
  <2>1. l \in 0..29 /\ Is(l)
    BY <1>6
  <2> HIDE DEF l
  <2>2. \A k \in 0..29 : Is(k) => ~(k < l) /\ ~(l < k)
    BY <1>7, <2>1
  <2>3. \A k \in 0..29 : ~(k < l) /\ ~(l < k) => l = k
    BY <2>1
  <2> QED
    BY <2>2, <2>3 DEF l
<1> QED
  BY <1>6, <1>8

-----------------------------------------------------------------------------
(* Recursive functions: that there is one.                                 *)

Iterated(g, F, a, n) == g[0] = a /\ \A i \in 1..n : g[i] = F[<<i, g[i - 1]>>]

LEMMA Iterates ==
    ASSUME NEW S, NEW a \in S, NEW n \in Nat, NEW F \in [(1..n) \X S -> S]
    PROVE  \E g \in [0..n -> S] : Iterated(g, F, a, n)
<1> DEFINE Goes(g, m) == g[0] = a /\ \A i \in 1..m : g[i] = F[<<i, g[i - 1]>>]
           T == {m \in Nat : m <= n => \E g \in [0..m -> S] : Goes(g, m)}
<1>1. 0 \in T
  <2>1. [i \in 0..0 |-> a] \in [0..0 -> S] /\ Goes([i \in 0..0 |-> a], 0)
    OBVIOUS
  <2> QED
    BY <2>1
<1>2. ASSUME NEW m \in T PROVE m + 1 \in T
  <2> SUFFICES ASSUME m + 1 <= n PROVE \E g \in [0..(m + 1) -> S] : Goes(g, m + 1)
    OBVIOUS
  <2>1. m \in Nat /\ m <= n
    OBVIOUS
  <2>2. PICK g \in [0..m -> S] : Goes(g, m)
    BY <2>1
  <2> DEFINE h == [i \in 0..(m + 1) |-> IF i <= m THEN g[i] ELSE F[<<m + 1, g[m]>>]]
  <2>3. h \in [0..(m + 1) -> S]
    <3>1. m \in 0..m /\ g[m] \in S /\ m + 1 \in 1..n
      BY <2>1
    <3>2. F[<<m + 1, g[m]>>] \in S
      BY <3>1
    <3>3. \A i \in 0..(m + 1) : i <= m => g[i] \in S
      BY <2>1
    <3> QED
      BY <3>2, <3>3
  <2>4. h[0] = a
    BY <2>1, <2>2
  <2>5. ASSUME NEW i \in 1..(m + 1) PROVE h[i] = F[<<i, h[i - 1]>>]
    <3>1. i - 1 \in 0..(m + 1) /\ i \in 0..(m + 1) /\ i - 1 <= m
      BY <2>1
    <3>2. h[i - 1] = g[i - 1]
      BY <3>1
    <3>3. CASE i <= m
      <4>1. h[i] = g[i] /\ i \in 1..m
        BY <3>1, <3>3, <2>1
      <4>2. g[i] = F[<<i, g[i - 1]>>]
        BY <4>1, <2>2
      <4> QED
        BY <3>2, <4>1, <4>2
    <3>4. CASE ~(i <= m)
      <4>1. i = m + 1 /\ i - 1 = m /\ h[i] = F[<<m + 1, g[m]>>]
        BY <3>1, <3>4, <2>1
      <4> QED
        BY <3>2, <4>1
    <3> QED
      BY <3>3, <3>4
  <2> HIDE DEF h
  <2> QED
    BY <2>3, <2>4, <2>5
<1>3. T \in SUBSET Nat
  OBVIOUS
<1> HIDE DEF T
<1>4. n \in T
  BY <1>1, <1>2, <1>3, InductionOnSets, Zenon
<1> QED
  BY <1>4 DEF T, Iterated

\* A loop is a function whatever it does: where it does not end, any value will do.
Loops(g, S, Done, H, F) == \A r \in S : g[r] = IF r \in Done THEN H[r] ELSE g[F[r]]

LEMMA WhileLoop ==
    ASSUME NEW S, NEW Done \in SUBSET S, NEW H, NEW F, \A r \in S \ Done : F[r] \in S
    PROVE  \E g : g = [r \in S |-> g[r]] /\ Loops(g, S, Done, H, F)
<1> DEFINE Reach(r, d, n, c) ==
               c[0] = r /\ c[n] = d /\ \A i \in 0..(n - 1) : c[i] \in S \ Done /\ c[i + 1] = F[c[i]]
           Reaches(r, d) == d \in Done /\ \E n \in Nat : \E c \in [0..n -> S] : Reach(r, d, n, c)
           End(r) == CHOOSE d : Reaches(r, d)
           g == [r \in S |-> H[End(r)]]
<1>1. ASSUME NEW r \in Done PROVE End(r) = r
  <2>1. Reaches(r, r)
    <3> DEFINE c == [i \in 0..0 |-> r]
    <3>1. c \in [0..0 -> S] /\ c[0] = r /\ \A i \in 0..(0 - 1) : FALSE
      OBVIOUS
    <3> HIDE DEF c
    <3>2. Reach(r, r, 0, c)
      BY <3>1
    <3> HIDE DEF Reach
    <3> QED
      BY <3>1, <3>2
  <2>2. ASSUME NEW d, Reaches(r, d) PROVE d = r
    <3>0. PICK n \in Nat : \E c \in [0..n -> S] : Reach(r, d, n, c)
      BY <2>2
    <3>1. PICK c \in [0..n -> S] : Reach(r, d, n, c)
      BY <3>0
    <3>2. CASE n = 0
      BY <3>1, <3>2
    <3>3. CASE n # 0
      <4>1. 0 \in 0..(n - 1)
        BY <3>3
      <4> QED
        BY <3>1, <4>1
    <3> QED
      BY <3>2, <3>3
  <2> HIDE DEF Reaches
  <2> QED
    BY <2>1, <2>2
<1>2. ASSUME NEW r \in S \ Done, NEW d PROVE Reaches(r, d) <=> Reaches(F[r], d)
  <2>1. ASSUME Reaches(r, d) PROVE Reaches(F[r], d)
    <3>0. PICK n \in Nat : \E c \in [0..n -> S] : Reach(r, d, n, c)
      BY <2>1
    <3>1. PICK c \in [0..n -> S] : Reach(r, d, n, c)
      BY <3>0
    <3>2. n # 0 /\ d \in Done
      BY <2>1, <3>1
    <3> DEFINE m == n - 1
               b == [i \in 0..m |-> c[i + 1]]
    <3>3. m \in Nat /\ n = m + 1
      BY <3>2
    <3> HIDE DEF m
    <3>4. b \in [0..m -> S] /\ b[0] = c[1] /\ b[m] = d
      BY <3>1, <3>3
    <3>5. 0 \in 0..(n - 1)
      BY <3>3
    <3>6. b[0] = F[r]
      BY <3>1, <3>4, <3>5
    <3>7. ASSUME NEW i \in 0..(m - 1) PROVE b[i] \in S \ Done /\ b[i + 1] = F[b[i]]
      <4>1. i + 1 \in 0..(n - 1) /\ i \in 0..m /\ i + 1 \in 0..m /\ (i + 1) + 1 = i + 2
        BY <3>3
      <4>2. b[i] = c[i + 1] /\ b[i + 1] = c[(i + 1) + 1]
        BY <4>1
      <4> HIDE DEF b
      <4> QED
        BY <3>1, <4>1, <4>2
    <3> HIDE DEF b
    <3>8. Reach(F[r], d, m, b)
      BY <3>4, <3>6, <3>7
    <3> HIDE DEF Reach
    <3> QED
      BY <3>2, <3>3, <3>4, <3>8
  <2>2. ASSUME Reaches(F[r], d) PROVE Reaches(r, d)
    <3>0. PICK n \in Nat : \E c \in [0..n -> S] : Reach(F[r], d, n, c)
      BY <2>2
    <3>1. PICK c \in [0..n -> S] : Reach(F[r], d, n, c)
      BY <3>0
    <3> DEFINE m == n + 1
               b == [i \in 0..m |-> IF i = 0 THEN r ELSE c[i - 1]]
    <3>3. m \in Nat /\ m # 0 /\ m - 1 = n
      OBVIOUS
    <3> HIDE DEF m
    <3>4. b \in [0..m -> S] /\ b[0] = r /\ b[m] = d
      BY <3>1, <3>3
    <3>7. ASSUME NEW i \in 0..(m - 1) PROVE b[i] \in S \ Done /\ b[i + 1] = F[b[i]]
      <4>1. i \in 0..m /\ i + 1 \in 0..m /\ (i + 1) - 1 = i /\ i + 1 # 0 /\ i \in 0..n
        BY <3>3
      <4>2. b[i + 1] = c[i]
        BY <4>1
      <4>3. CASE i = 0
        BY <3>1, <3>4, <4>2, <4>3
      <4>4. CASE i # 0
        <5>1. b[i] = c[i - 1] /\ i - 1 \in 0..(n - 1) /\ (i - 1) + 1 = i
          BY <4>1, <4>4, <3>3
        <5> HIDE DEF b
        <5> QED
          BY <3>1, <4>2, <5>1
      <4> QED
        BY <4>3, <4>4
    <3> HIDE DEF b
    <3>8. Reach(r, d, m, b)
      BY <3>4, <3>7
    <3> HIDE DEF Reach
    <3> QED
      BY <2>2, <3>3, <3>4, <3>8
  <2> HIDE DEF Reaches
  <2> QED
    BY <2>1, <2>2
<1> HIDE DEF Reaches
<1>3. ASSUME NEW r \in S \ Done PROVE End(r) = End(F[r])
  BY <1>2, <1>3
<1>4. ASSUME NEW r \in S PROVE g[r] = IF r \in Done THEN H[r] ELSE g[F[r]]
  <2> HIDE DEF End
  <2>1. g[r] = H[End(r)]
    OBVIOUS
  <2>2. CASE r \in Done
    BY <1>1, <2>1, <2>2
  <2>3. CASE r \notin Done
    <3>1. F[r] \in S
      BY <2>3
    <3>2. g[F[r]] = H[End(F[r])]
      BY <3>1
    <3> QED
      BY <1>3, <2>1, <2>3, <3>2
  <2> QED
    BY <2>2, <2>3
<1>5. g = [r \in S |-> g[r]]
  OBVIOUS
<1> HIDE DEF g
<1>6. Loops(g, S, Done, H, F)
  BY <1>4 DEF Loops
<1> QED
  BY <1>5, <1>6

-----------------------------------------------------------------------------
(* Sums.                                                                   *)

LEMMA ZeroIsInt == 0 \in Int
OBVIOUS

Adds(f, seq, n) == f[0] = 0 /\ \A i \in 1..n : f[i] = f[i - 1] + seq[i]

LEMMA SumToIs ==
    ASSUME NEW n \in Nat, NEW seq, \A i \in 1..n : seq[i] \in Int,
           NEW f, Adds(f, seq, n)
    PROVE  SumTo(seq, n) = f[n] /\ f[n] \in Int
<1> DEFINE Solves(h) == h = [i \in 0..n |-> IF i = 0 THEN 0 ELSE h[i - 1] + seq[i]]
           F == [p \in (1..n) \X Int |-> p[2] + seq[p[1]]]
           sum == CHOOSE h : Solves(h)
<1>1. \E h : Solves(h)
  <2>1. F \in [(1..n) \X Int -> Int]
    OBVIOUS
  <2> HIDE DEF F
  <2>2. PICK g \in [0..n -> Int] : Iterated(g, F, 0, n)
    BY <2>1, ZeroIsInt, Iterates, Zenon
  <2>3. ASSUME NEW i \in 1..n PROVE g[i] = g[i - 1] + seq[i]
    <3>1. i - 1 \in 0..n
      OBVIOUS
    <3>2. g[i - 1] \in Int
      BY <3>1
    <3>3. F[<<i, g[i - 1]>>] = g[i - 1] + seq[i]
      BY <3>2 DEF F
    <3> QED
      BY <2>2, <3>3 DEF Iterated
  <2>4. \A i \in 0..n : g[i] = IF i = 0 THEN 0 ELSE g[i - 1] + seq[i]
    BY <2>2, <2>3 DEF Iterated
  <2>5. g = [i \in 0..n |-> g[i]]
    OBVIOUS
  <2>6. Solves(g)
    BY <2>4, <2>5
  <2> HIDE DEF Solves
  <2> QED
    BY <2>6
<1>2. Solves(sum)
  <2> HIDE DEF Solves
  <2> QED
    BY <1>1, Zenon
<1>3. SumTo(seq, n) = sum[n]
  BY Zenon DEF SumTo
<1> HIDE DEF sum
<1>4. \A i \in 0..n : sum[i] = IF i = 0 THEN 0 ELSE sum[i - 1] + seq[i]
  BY <1>2, Zenon
<1> DEFINE T == {i \in Nat : i <= n => sum[i] = f[i] /\ f[i] \in Int}
<1>5. 0 \in T
  BY <1>4 DEF Adds
<1>6. ASSUME NEW i \in T PROVE i + 1 \in T
  <2> SUFFICES ASSUME i + 1 <= n PROVE sum[i + 1] = f[i + 1] /\ f[i + 1] \in Int
    OBVIOUS
  <2>1. i + 1 \in 1..n /\ i + 1 \in 0..n /\ i + 1 # 0 /\ (i + 1) - 1 = i /\ i <= n
    OBVIOUS
  <2>2. sum[i] = f[i] /\ f[i] \in Int
    BY <2>1
  <2>3. sum[i + 1] = sum[i] + seq[i + 1] /\ f[i + 1] = f[i] + seq[i + 1] /\ seq[i + 1] \in Int
    BY <1>4, <2>1 DEF Adds
  <2> QED
    BY <2>2, <2>3
<1>7. T \in SUBSET Nat
  OBVIOUS
<1> HIDE DEF T
<1>8. n \in T
  BY <1>5, <1>6, <1>7, InductionOnSets, Zenon
<1> QED
  BY <1>3, <1>8 DEF T

LEMMA Sums ==
    ASSUME NEW n \in Nat, NEW seq, \A i \in 1..n : seq[i] \in Int
    PROVE  /\ SumTo(seq, 0) = 0
           /\ \A i \in 0..n : SumTo(seq, i) \in Int
           /\ \A i \in 1..n : SumTo(seq, i) = SumTo(seq, i - 1) + seq[i]
<1> DEFINE F == [p \in (1..n) \X Int |-> p[2] + seq[p[1]]]
<1>1. F \in [(1..n) \X Int -> Int]
  OBVIOUS
<1> HIDE DEF F
<1>2. PICK g \in [0..n -> Int] : Iterated(g, F, 0, n)
  BY <1>1, ZeroIsInt, Iterates, Zenon
<1>3. ASSUME NEW i \in 1..n PROVE g[i] = g[i - 1] + seq[i]
  <2>1. i - 1 \in 0..n
    OBVIOUS
  <2>2. g[i - 1] \in Int
    BY <2>1
  <2>3. F[<<i, g[i - 1]>>] = g[i - 1] + seq[i]
    BY <2>2 DEF F
  <2> QED
    BY <1>2, <2>3 DEF Iterated
<1>4. ASSUME NEW m \in 0..n PROVE SumTo(seq, m) = g[m]
  <2>1. m \in Nat /\ \A i \in 1..m : i \in 1..n
    OBVIOUS
  <2>2. Adds(g, seq, m) /\ \A i \in 1..m : seq[i] \in Int
    BY <1>2, <1>3, <2>1 DEF Adds, Iterated
  <2> QED
    BY <1>2, <2>1, <2>2, SumToIs, Zenon
<1>5. 0 \in 0..n /\ \A i \in 1..n : i \in 0..n /\ i - 1 \in 0..n
  OBVIOUS
<1> QED
  BY <1>2, <1>3, <1>4, <1>5 DEF Iterated

LEMMA SumsAgree ==
    ASSUME NEW n \in Nat, NEW seq, NEW other, \A i \in 1..n : seq[i] \in Int /\ other[i] = seq[i]
    PROVE  SumTo(other, n) = SumTo(seq, n)
<1> DEFINE f == [i \in 0..n |-> SumTo(seq, i)]
<1>1. /\ SumTo(seq, 0) = 0
      /\ \A i \in 1..n : SumTo(seq, i) = SumTo(seq, i - 1) + seq[i]
  BY Sums
<1>2. f[n] = SumTo(seq, n) /\ Adds(f, other, n)
  BY <1>1 DEF Adds
<1> HIDE DEF f
<1>3. \A i \in 1..n : other[i] \in Int
  OBVIOUS
<1> QED
  BY <1>2, <1>3, SumToIs, Zenon

LEMMA SumsGrow ==
    ASSUME NEW n \in Nat, NEW seq, \A i \in 1..n : seq[i] \in Nat
    PROVE  \A i, j \in 0..n : i <= j => 0 <= SumTo(seq, i) /\ SumTo(seq, i) <= SumTo(seq, j)
<1>1. /\ SumTo(seq, 0) = 0
      /\ \A i \in 0..n : SumTo(seq, i) \in Int
      /\ \A i \in 1..n : SumTo(seq, i) = SumTo(seq, i - 1) + seq[i]
  BY Sums
<1> DEFINE T == {j \in Nat : j <= n => \A i \in 0..j : 0 <= SumTo(seq, i) /\ SumTo(seq, i) <= SumTo(seq, j)}
<1>2. 0 \in T
  <2>1. \A i \in 0..0 : i = 0
    OBVIOUS
  <2> QED
    BY <1>1, <2>1
<1>3. ASSUME NEW j \in T PROVE j + 1 \in T
  <2> SUFFICES ASSUME j + 1 <= n, NEW i \in 0..(j + 1)
               PROVE  0 <= SumTo(seq, i) /\ SumTo(seq, i) <= SumTo(seq, j + 1)
    OBVIOUS
  <2>1. j + 1 \in 1..n /\ (j + 1) - 1 = j /\ j \in 0..n /\ j + 1 \in 0..n /\ i \in 0..n /\ j \in 0..j /\ j <= n
    OBVIOUS
  <2>2. SumTo(seq, j + 1) = SumTo(seq, j) + seq[j + 1] /\ seq[j + 1] \in Nat /\ SumTo(seq, j) \in Int
    BY <1>1, <2>1
  <2>3. 0 <= SumTo(seq, j)
    BY <2>1
  <2>4. CASE i = j + 1
    BY <2>2, <2>3, <2>4
  <2>5. CASE i # j + 1
    <3>1. i \in 0..j
      BY <2>1, <2>5
    <3>2. 0 <= SumTo(seq, i) /\ SumTo(seq, i) <= SumTo(seq, j)
      BY <2>1, <3>1
    <3>3. SumTo(seq, i) \in Int
      BY <1>1, <2>1
    <3> QED
      BY <2>2, <3>2, <3>3
  <2> QED
    BY <2>4, <2>5
<1>4. T \in SUBSET Nat
  OBVIOUS
<1> HIDE DEF T
<1>5. \A j \in Nat : j \in T
  BY <1>2, <1>3, <1>4, InductionOnSets, Zenon
<1> QED
  BY <1>5 DEF T

\* One entry is changed by some amount.
LEMMA SumChanged ==
    ASSUME NEW n \in Nat, NEW seq, NEW other, NEW s \in 1..n, NEW by \in Int,
           \A i \in 1..n : seq[i] \in Int,
           \A i \in 1..n : other[i] = seq[i] + (IF i = s THEN by ELSE 0)
    PROVE  SumTo(other, n) = SumTo(seq, n) + by
<1> DEFINE f == [i \in 0..n |-> SumTo(seq, i) + IF i >= s THEN by ELSE 0]
<1>1. /\ SumTo(seq, 0) = 0
      /\ \A i \in 0..n : SumTo(seq, i) \in Int
      /\ \A i \in 1..n : SumTo(seq, i) = SumTo(seq, i - 1) + seq[i]
  BY Sums
<1>2. f[0] = 0 /\ f[n] = SumTo(seq, n) + by
  BY <1>1
<1>3. ASSUME NEW i \in 1..n PROVE f[i] = f[i - 1] + other[i]
  <2>1. i - 1 \in 0..n /\ i \in 0..n
    OBVIOUS
  <2>2. /\ f[i] = SumTo(seq, i) + IF i >= s THEN by ELSE 0
        /\ f[i - 1] = SumTo(seq, i - 1) + IF i - 1 >= s THEN by ELSE 0
    BY <2>1
  <2>3. SumTo(seq, i) = SumTo(seq, i - 1) + seq[i] /\ SumTo(seq, i - 1) \in Int /\ seq[i] \in Int
    BY <1>1, <2>1
  <2> HIDE DEF f
  <2> QED
    BY <2>2, <2>3
<1>4. \A i \in 1..n : other[i] \in Int
  OBVIOUS
<1> HIDE DEF f
<1>5. Adds(f, other, n)
  BY <1>2, <1>3 DEF Adds
<1> QED
  BY <1>2, <1>4, <1>5, SumToIs, Zenon

-----------------------------------------------------------------------------
(* Sets in order, and how many elements they have.                         *)

Firsts(b, k) == {b[i] : i \in 1..k}

InOrder(b, n) == \A i, j \in 1..n : i < j => b[i] < b[j]

Apart(b, n) == \A i, j \in 1..n : b[i] = b[j] => i = j

LEMMA CountFirsts ==
    ASSUME NEW n \in Nat, NEW b, Apart(b, n)
    PROVE  \A k \in 0..n : IsFiniteSet(Firsts(b, k)) /\ Cardinality(Firsts(b, k)) = k
<1> DEFINE T == {k \in Nat : k <= n => IsFiniteSet(Firsts(b, k)) /\ Cardinality(Firsts(b, k)) = k}
<1>1. 0 \in T
  <2>1. Firsts(b, 0) = {}
    BY DEF Firsts
  <2> QED
    BY <2>1, FS_EmptySet
<1>2. ASSUME NEW k \in T PROVE k + 1 \in T
  <2> SUFFICES ASSUME k + 1 <= n
               PROVE  IsFiniteSet(Firsts(b, k + 1)) /\ Cardinality(Firsts(b, k + 1)) = k + 1
    OBVIOUS
  <2>1. k \in Nat /\ k <= n
    OBVIOUS
  <2>2. IsFiniteSet(Firsts(b, k)) /\ Cardinality(Firsts(b, k)) = k
    BY <2>1
  <2>3. Firsts(b, k + 1) = Firsts(b, k) \cup {b[k + 1]}
    <3>1. \A i : i \in 1..(k + 1) <=> i \in 1..k \/ i = k + 1
      BY <2>1
    <3> QED
      BY <3>1, Zenon DEF Firsts
  <2>4. b[k + 1] \notin Firsts(b, k)
    <3>1. \A i \in 1..k : i \in 1..n /\ k + 1 \in 1..n /\ i # k + 1
      BY <2>1
    <3>2. \A i \in 1..k : b[i] # b[k + 1]
      BY <3>1 DEF Apart
    <3> QED
      BY <3>2, Zenon DEF Firsts
  <2>5. /\ IsFiniteSet(Firsts(b, k) \cup {b[k + 1]})
        /\ Cardinality(Firsts(b, k) \cup {b[k + 1]}) = Cardinality(Firsts(b, k)) + 1
    BY <2>2, <2>4, FS_AddElement
  <2> QED
    BY <2>2, <2>3, <2>5
<1>3. T \in SUBSET Nat
  OBVIOUS
<1> HIDE DEF T
<1>4. \A k \in Nat : k \in T
  BY <1>1, <1>2, <1>3, InductionOnSets, Zenon
<1> QED
  BY <1>4 DEF T

LEMMA InOrderIsApart ==
    ASSUME NEW n \in Nat, NEW b \in [1..n -> Int], InOrder(b, n)
    PROVE  Apart(b, n) /\ \A i, j \in 1..n : b[i] <= b[j] <=> i <= j
<1>1. ASSUME NEW i \in 1..n, NEW j \in 1..n PROVE (b[i] = b[j] => i = j) /\ (b[i] <= b[j] <=> i <= j)
  <2>1. b[i] \in Int /\ b[j] \in Int /\ (i < j \/ j < i \/ i = j)
    OBVIOUS
  <2>2. (i < j => b[i] < b[j]) /\ (j < i => b[j] < b[i])
    BY DEF InOrder
  <2> QED
    BY <2>1, <2>2
<1> QED
  BY <1>1 DEF Apart

\* A set by its elements in order: how many of it are up to the k-th, and in
\* front of it.
Ranked(T, b, n) ==
    /\ Cardinality(T) = n /\ IsFiniteSet(T) /\ Ascending(T) = b
    /\ \A k \in 1..n : Cardinality({j \in T : j <= b[k]}) = k /\ Cardinality({j \in T : j < b[k]}) = k - 1

LEMMA RankedIs ==
    ASSUME NEW n \in Nat, NEW b \in [1..n -> Int], InOrder(b, n)
    PROVE  Ranked(Firsts(b, n), b, n)
<1> DEFINE T == Firsts(b, n)
<1>1. Apart(b, n) /\ \A i, j \in 1..n : b[i] <= b[j] <=> i <= j
  BY InOrderIsApart, Zenon
<1>2. \A k \in 0..n : IsFiniteSet(Firsts(b, k)) /\ Cardinality(Firsts(b, k)) = k
  BY <1>1, CountFirsts, Zenon
<1>3. n \in 0..n /\ \A k \in 1..n : k \in 0..n /\ k - 1 \in 0..n
  OBVIOUS
<1>4. Cardinality(T) = n /\ IsFiniteSet(T)
  BY <1>2, <1>3
<1>5. ASSUME NEW k \in 1..n
      PROVE  {j \in T : j <= b[k]} = Firsts(b, k) /\ {j \in T : j < b[k]} = Firsts(b, k - 1)
  <2>1. \A i \in 1..n : (b[i] <= b[k] <=> i \in 1..k) /\ (b[i] < b[k] <=> i \in 1..(k - 1))
    <3> SUFFICES ASSUME NEW i \in 1..n
                 PROVE  (b[i] <= b[k] <=> i \in 1..k) /\ (b[i] < b[k] <=> i \in 1..(k - 1))
      OBVIOUS
    <3>1. b[i] \in Int /\ b[k] \in Int /\ (b[i] = b[k] <=> i = k) /\ (b[i] <= b[k] <=> i <= k)
      BY <1>1 DEF Apart
    <3> QED
      BY <3>1
  <2>2. \A i : (i \in 1..k => i \in 1..n) /\ (i \in 1..(k - 1) => i \in 1..n)
    OBVIOUS
  <2> QED
    BY <2>1, <2>2, Zenon DEF Firsts
<1>6. \A k \in 1..n : /\ Cardinality({j \in T : j <= b[k]}) = k
                      /\ Cardinality({j \in T : j < b[k]}) = k - 1
  <2> SUFFICES ASSUME NEW k \in 1..n
               PROVE  /\ Cardinality({j \in T : j <= b[k]}) = k
                      /\ Cardinality({j \in T : j < b[k]}) = k - 1
    OBVIOUS
  <2> HIDE DEF T
  <2> QED
    BY <1>2, <1>3, <1>5
<1>7. Ascending(T) = b
  <2>1. ASSUME NEW k \in 1..n
        PROVE  (CHOOSE i \in T : Cardinality({j \in T : j <= i}) = k) = b[k]
    <3>1. b[k] \in T /\ Cardinality({j \in T : j <= b[k]}) = k
      BY <1>6 DEF Firsts
    <3>2. ASSUME NEW i \in T, Cardinality({j \in T : j <= i}) = k PROVE i = b[k]
      <4>1. PICK l \in 1..n : i = b[l]
        BY Zenon DEF Firsts
      <4>2. Cardinality({j \in T : j <= b[l]}) = l
        BY <1>6
      <4> HIDE DEF T
      <4> QED
        BY <3>2, <4>1, <4>2
    <3> HIDE DEF T
    <3> QED
      BY <3>1, <3>2
  <2>2. Ascending(T) = SubSeq([k \in 1..n |-> CHOOSE i \in T : Cardinality({j \in T : j <= i}) = k], 1, n)
    BY <1>4 DEF Ascending
  <2> HIDE DEF T
  <2>3. [k \in 1..n |-> CHOOSE i \in T : Cardinality({j \in T : j <= i}) = k] = b
    BY <2>1
  <2>4. Ascending(T) = SubSeq(b, 1, n)
    BY <2>2, <2>3
  <2>5. b \in Seq(Int) /\ Len(b) = n
    BY OfLength
  <2> DEFINE c == SubSeq(b, 1, n)
  <2>6. c \in Seq(Int) /\ Len(c) = n /\ \A i \in 1..n : c[i] = b[i]
    <3>1. 0 \in Nat /\ 0 + n <= Len(b) /\ 0 + 1 = 1 /\ 0 + n = n
      BY <2>5
    <3>2. c \in Seq(Int) /\ PartOf(c, b, 0, n)
      BY <2>5, <3>1, PartIs
    <3>3. \A i \in 1..n : 0 + i = i
      OBVIOUS
    <3> HIDE DEF c
    <3> QED
      BY <3>2, <3>3 DEF PartOf
  <2> HIDE DEF c
  <2>7. c = b
    BY <2>6
  <2> QED
    BY <2>4, <2>7 DEF c
<1> HIDE DEF T
<1> QED
  BY <1>4, <1>6, <1>7 DEF Ranked, T

LEMMA Enumerated ==
    ASSUME NEW T \in SUBSET Nat, NEW N \in Nat, \A x \in T : x < N
    PROVE  \E n \in Nat : \E b \in [1..n -> T] : InOrder(b, n) /\ T = Firsts(b, n)
<1>0. \A x \in T : x \in Nat
  OBVIOUS
<1> DEFINE U(m) == {x \in T : x < m}
           Found(m) == \E n \in Nat : \E b \in [1..n -> T] : InOrder(b, n) /\ U(m) = Firsts(b, n)
           S == {m \in Nat : Found(m)}
<1>1. 0 \in S
  <2>1. U(0) = {}
    <3>1. \A x \in T : ~(x < 0)
      BY <1>0
    <3> QED
      BY <3>1, Zenon
  <2> DEFINE b == [i \in 1..0 |-> 0]
  <2>2. b \in [1..0 -> T] /\ InOrder(b, 0) /\ Firsts(b, 0) = {}
    BY DEF InOrder, Firsts
  <2> HIDE DEF b, U
  <2>3. Found(0)
    BY <2>1, <2>2
  <2> QED
    BY <2>3
<1>2. ASSUME NEW m \in S PROVE m + 1 \in S
  <2>1. PICK n \in Nat : \E b \in [1..n -> T] : InOrder(b, n) /\ U(m) = Firsts(b, n)
    OBVIOUS
  <2>2. PICK b \in [1..n -> T] : InOrder(b, n) /\ U(m) = Firsts(b, n)
    BY <2>1
  <2>3. m \in Nat
    OBVIOUS
  <2>4. CASE m \notin T
    <3>1. U(m + 1) = U(m)
      <4>1. \A x \in T : x < m + 1 <=> x < m
        <5> SUFFICES ASSUME NEW x \in T PROVE x < m + 1 <=> x < m
          OBVIOUS
        <5>1. x \in Nat /\ x # m
          BY <1>0, <2>4
        <5> QED
          BY <2>3, <5>1
      <4> QED
        BY <4>1
    <3> HIDE DEF U
    <3>2. Found(m + 1)
      BY <2>2, <3>1
    <3> QED
      BY <2>3, <3>2
  <2>5. CASE m \in T
    <3>1. U(m + 1) = U(m) \cup {m}
      <4>1. \A x \in T : x < m + 1 <=> x < m \/ x = m
        BY <1>0, <2>3
      <4>2. \A x : x \in U(m + 1) <=> x \in U(m) \cup {m}
        BY <2>5, <4>1
      <4> HIDE DEF U
      <4> QED
        BY <4>2
    <3> DEFINE c == [i \in 1..(n + 1) |-> IF i = n + 1 THEN m ELSE b[i]]
    <3>2. c \in [1..(n + 1) -> T]
      BY <2>5
    <3>3. \A i \in 1..n : b[i] < m
      BY <2>2 DEF Firsts
    <3>4. InOrder(c, n + 1)
      <4> SUFFICES ASSUME NEW i \in 1..(n + 1), NEW j \in 1..(n + 1), i < j PROVE c[i] < c[j]
        BY DEF InOrder
      <4>1. i \in 1..n /\ i # n + 1 /\ c[i] = b[i]
        OBVIOUS
      <4>2. CASE j = n + 1
        <5>1. c[j] = m
          BY <4>2
        <5> HIDE DEF c
        <5> QED
          BY <3>3, <4>1, <5>1
      <4>3. CASE j # n + 1
        <5>1. c[j] = b[j] /\ j \in 1..n
          BY <4>3
        <5> HIDE DEF c
        <5> QED
          BY <2>2, <4>1, <5>1 DEF InOrder
      <4> QED
        BY <4>2, <4>3
    <3>5. Firsts(c, n + 1) = Firsts(b, n) \cup {m}
      <4>1. \A i : i \in 1..(n + 1) <=> i \in 1..n \/ i = n + 1
        OBVIOUS
      <4>2. c[n + 1] = m /\ \A i \in 1..n : c[i] = b[i]
        OBVIOUS
      <4> HIDE DEF c
      <4> QED
        BY <4>1, <4>2, Zenon DEF Firsts
    <3> HIDE DEF c, U
    <3>6. U(m + 1) = Firsts(c, n + 1) /\ n + 1 \in Nat
      <4>1. n + 1 \in Nat
        OBVIOUS
      <4> QED
        BY <2>2, <3>1, <3>5, <4>1, Zenon
    <3>7. Found(m + 1)
      BY <3>2, <3>4, <3>6
    <3> QED
      BY <2>3, <3>7
  <2> QED
    BY <2>4, <2>5
<1>3. S \in SUBSET Nat
  OBVIOUS
<1> HIDE DEF S
<1>4. N \in S
  BY <1>1, <1>2, <1>3, InductionOnSets, Zenon
<1>5. U(N) = T
  OBVIOUS
<1> HIDE DEF U
<1> QED
  BY <1>4, <1>5 DEF S

LEMMA InRank ==
    ASSUME NEW T \in SUBSET Nat, NEW N \in Nat, \A x \in T : x < N
    PROVE  \E n \in Nat : \E b \in [1..n -> T] : InOrder(b, n) /\ T = Firsts(b, n) /\ Ranked(T, b, n)
<1>1. PICK n \in Nat : \E b \in [1..n -> T] : InOrder(b, n) /\ T = Firsts(b, n)
  BY Enumerated, Zenon
<1>2. PICK b \in [1..n -> T] : InOrder(b, n) /\ T = Firsts(b, n)
  BY <1>1
<1>3. b \in [1..n -> Int]
  <2>1. \A x \in T : x \in Int
    OBVIOUS
  <2>2. \A i \in 1..n : b[i] \in T
    OBVIOUS
  <2> QED
    BY <2>1, <2>2
<1>4. Ranked(T, b, n)
  BY <1>2, <1>3, RankedIs, Zenon
<1> QED
  BY <1>2, <1>4

LEMMA GreatestOf ==
    ASSUME NEW S \in SUBSET Int, S # {}, NEW N \in Int, \A x \in S : x <= N
    PROVE  Max(S) \in S /\ \A y \in S : Max(S) >= y
<1> DEFINE D == {N - x : x \in S}
<1>1. D \in SUBSET Nat /\ D # {}
  <2>1. \A x \in S : N - x \in Nat
    OBVIOUS
  <2>2. D # {}
    OBVIOUS
  <2> QED
    BY <2>1, <2>2
<1>2. Min(D) \in D /\ \A y \in D : Min(D) <= y
  BY <1>1, LeastOf, Zenon
<1>3. PICK m \in S : Min(D) = N - m
  BY <1>2
<1>4. \A y \in S : m >= y
  <2> SUFFICES ASSUME NEW y \in S PROVE m >= y
    OBVIOUS
  <2>1. N - y \in D
    OBVIOUS
  <2>2. N - m <= N - y
    BY <1>2, <1>3, <2>1
  <2>3. m \in Int /\ y \in Int
    OBVIOUS
  <2> QED
    BY <2>2, <2>3
<1>5. \E x \in S : \A y \in S : x >= y
  BY <1>4, Zenon
<1> QED
  BY <1>5, Zenon DEF Max

LEMMA SumBounded ==
    ASSUME NEW n \in Nat, NEW seq, NEW M \in Nat, \A i \in 1..n : seq[i] \in 0..M
    PROVE  SumTo(seq, n) <= n * M /\ \A i \in 1..n : seq[i] <= SumTo(seq, n)
<1>1. \A i \in 1..n : seq[i] \in Int /\ seq[i] \in Nat /\ seq[i] <= M
  OBVIOUS
<1>2. /\ SumTo(seq, 0) = 0
      /\ \A i \in 0..n : SumTo(seq, i) \in Int
      /\ \A i \in 1..n : SumTo(seq, i) = SumTo(seq, i - 1) + seq[i]
  BY <1>1, Sums
<1>3. \A i, j \in 0..n : i <= j => 0 <= SumTo(seq, i) /\ SumTo(seq, i) <= SumTo(seq, j)
  BY <1>1, SumsGrow
<1>4. ASSUME NEW i \in 1..n PROVE seq[i] <= SumTo(seq, n)
  <2>1. i - 1 \in 0..n /\ i \in 0..n /\ n \in 0..n /\ i <= n /\ i - 1 <= n
    OBVIOUS
  <2>2. 0 <= SumTo(seq, i - 1) /\ SumTo(seq, i) <= SumTo(seq, n) /\ SumTo(seq, i) = SumTo(seq, i - 1) + seq[i]
    BY <1>2, <1>3, <2>1
  <2>3. seq[i] \in Int /\ SumTo(seq, i - 1) \in Int /\ SumTo(seq, n) \in Int
    BY <1>1, <1>2, <2>1
  <2> QED
    BY <2>2, <2>3
<1> DEFINE S == {i \in Nat : i <= n => SumTo(seq, i) <= i * M}
<1>5. 0 \in S
  BY <1>2
<1>6. ASSUME NEW i \in S PROVE i + 1 \in S
  <2> SUFFICES ASSUME i + 1 <= n PROVE SumTo(seq, i + 1) <= (i + 1) * M
    OBVIOUS
  <2>1. i + 1 \in 1..n /\ (i + 1) - 1 = i /\ i <= n /\ i \in 0..n
    OBVIOUS
  <2>2. SumTo(seq, i) <= i * M /\ SumTo(seq, i + 1) = SumTo(seq, i) + seq[i + 1] /\ seq[i + 1] <= M
    BY <1>1, <1>2, <2>1
  <2>3. (i + 1) * M = i * M + M /\ i * M \in Int /\ seq[i + 1] \in Int /\ SumTo(seq, i) \in Int
    BY <1>1, <1>2, <2>1
  <2> QED
    BY <2>2, <2>3
<1>7. S \in SUBSET Nat
  OBVIOUS
<1> HIDE DEF S
<1>8. n \in S
  BY <1>5, <1>6, <1>7, InductionOnSets, Zenon
<1> QED
  BY <1>4, <1>8 DEF S

LEMMA PlusIs ==
    ASSUME NEW probs \in Seq(Int), NEW s \in 1..Len(probs), NEW by \in Int
    PROVE  /\ Plus(probs, s, by) \in Seq(Int) /\ Len(Plus(probs, s, by)) = Len(probs)
           /\ \A i \in 1..Len(probs) : Plus(probs, s, by)[i] = probs[i] + (IF i = s THEN by ELSE 0)
<1>1. Len(probs) \in Nat /\ \A i \in 1..Len(probs) : probs[i] \in Int
  OBVIOUS
<1> DEFINE a == SubSeq(probs, 1, s - 1)
           m == <<probs[s] + by>>
           z == SubSeq(probs, s + 1, Len(probs))
<1>2. /\ a \in Seq(Int) /\ Len(a) = s - 1 /\ \A i \in 1..(s - 1) : a[i] = probs[i]
      /\ z \in Seq(Int) /\ Len(z) = Len(probs) - s /\ \A i \in 1..(Len(probs) - s) : z[i] = probs[s + i]
      /\ m \in Seq(Int) /\ Len(m) = 1 /\ m[1] = probs[s] + by
  OBVIOUS
<1>3. Plus(probs, s, by) = (a \o m) \o z
  BY DEF Plus
<1> HIDE DEF a, m, z
<1>4. a \o m \in Seq(Int) /\ Row(a \o m, a, s - 1, m, 1)
  <2>1. s - 1 \in Nat /\ 1 \in Nat
    BY <1>1
  <2> QED
    BY <1>2, <2>1, InARow, Zenon
<1>5. Len(a \o m) = s /\ s \in Nat /\ Len(probs) - s \in Nat
  BY <1>1, <1>4 DEF Row
<1>6. (a \o m) \o z \in Seq(Int) /\ Row((a \o m) \o z, a \o m, s, z, Len(probs) - s)
  BY <1>2, <1>4, <1>5, InARow, Zenon
<1> DEFINE p == (a \o m) \o z
           L == Len(probs)
<1>9. L \in Nat /\ s \in Nat /\ s <= L /\ s >= 1
  BY <1>1
<1> HIDE DEF p, L
<1>7. ASSUME NEW i \in 1..Len(probs) PROVE p[i] = probs[i] + (IF i = s THEN by ELSE 0)
  <2>1. CASE i < s
    <3>1. i \in 1..s /\ i \in 1..(s - 1)
      BY <2>1
    <3>2. p[i] = (a \o m)[i] /\ (a \o m)[i] = a[i] /\ a[i] = probs[i]
      BY <1>2, <1>4, <1>6, <3>1 DEF Row, p
    <3> QED
      BY <1>1, <1>9, <2>1, <3>2
  <2>2. CASE i = s
    <3>1. i \in 1..s /\ 1 \in 1..1 /\ (s - 1) + 1 = i
      BY <2>2
    <3>2. p[i] = (a \o m)[i] /\ (a \o m)[i] = m[1]
      BY <1>4, <1>6, <3>1 DEF Row, p
    <3> QED
      BY <1>2, <2>2, <3>2
  <2>3. CASE i > s
    <3>1. i - s \in 1..(Len(probs) - s) /\ s + (i - s) = i
      BY <2>3
    <3>2. p[s + (i - s)] = z[i - s] /\ z[i - s] = probs[s + (i - s)]
      BY <1>2, <1>6, <3>1 DEF Row, p
    <3> QED
      BY <1>1, <2>3, <3>1, <3>2
  <2> QED
    BY <2>1, <2>2, <2>3
<1>8. Len(p) = Len(probs)
  <2>1. Len(p) = s + (L - s)
    BY <1>6 DEF Row, p, L
  <2> QED
    BY <1>9, <2>1 DEF L
<1> QED
  BY <1>3, <1>6, <1>7, <1>8 DEF p

-----------------------------------------------------------------------------
(* The walk through the positions of a table.                              *)

LEMMA WalkIsApart ==
    ASSUME NEW log \in 5..9
    PROVE  /\ Apart(Walk(Pow(log)), Pow(log))
           /\ \A k \in 1..Pow(log) : Walk(Pow(log))[k] \in 0..(Pow(log) - 1)
<1> DEFINE size == Pow(log)
           gap == size \div 2 + size \div 8 + 3
<1>1. \/ (size = 32 /\ gap = 23) \/ (size = 64 /\ gap = 43) \/ (size = 128 /\ gap = 83)
      \/ (size = 256 /\ gap = 163) \/ (size = 512 /\ gap = 323)
  <2>1. log = 5 \/ log = 6 \/ log = 7 \/ log = 8 \/ log = 9
    OBVIOUS
  <2>2. Pow(5) = 32 /\ Pow(6) = 64 /\ Pow(7) = 128 /\ Pow(8) = 256 /\ Pow(9) = 512
    BY DEF Pow
  <2>3. size = 32 \/ size = 64 \/ size = 128 \/ size = 256 \/ size = 512
    BY <2>1, <2>2
  <2> HIDE DEF size
  <2> QED
    BY <2>3
<1>2. Walk(size) = [k \in 1..size |-> ((k - 1) * gap) % size]
  BY DEF Walk
<1> HIDE DEF size, gap
<1>3. ASSUME NEW a \in 1..size, NEW b \in 1..size, ((a - 1) * gap) % size = ((b - 1) * gap) % size
      PROVE  a = b
  <2>1. CASE size = 32 /\ gap = 23
    BY <1>3, <2>1
  <2>2. CASE size = 64 /\ gap = 43
    BY <1>3, <2>2
  <2>3. CASE size = 128 /\ gap = 83
    BY <1>3, <2>3
  <2>4. CASE size = 256 /\ gap = 163
    <3> DEFINE x == (a - 1) * 163
               y == (b - 1) * 163
           q == x \div 256
           p == y \div 256
    <3>0. x \in Int /\ y \in Int
      BY <2>4
    <3> HIDE DEF x, y
    <3>1. x = q * 256 + (x % 256) /\ q \in Int
      BY <3>0
    <3>2. y = p * 256 + (y % 256) /\ p \in Int
      BY <3>0
    <3> HIDE DEF q, p
    <3>3. x - y = (q - p) * 256
      <4>1. x % 256 = y % 256
        BY <1>3, <2>4 DEF x, y
      <4> QED
        BY <3>0, <3>1, <3>2, <4>1
    <3>4. a - b = 256 * (11 * (q - p) - 7 * (a - b))
      BY <2>4, <3>1, <3>2, <3>3 DEF x, y
    <3> DEFINE k == 11 * (q - p) - 7 * (a - b)
    <3>5. k \in Int /\ a - b = 256 * k /\ a - b < 256 /\ b - a < 256
      BY <2>4, <3>1, <3>2, <3>4
    <3> HIDE DEF k
    <3> QED
      BY <2>4, <3>5
  <2>5. CASE size = 512 /\ gap = 323
    <3> DEFINE x == (a - 1) * 323
               y == (b - 1) * 323
           q == x \div 512
           p == y \div 512
    <3>0. x \in Int /\ y \in Int
      BY <2>5
    <3> HIDE DEF x, y
    <3>1. x = q * 512 + (x % 512) /\ q \in Int
      BY <3>0
    <3>2. y = p * 512 + (y % 512) /\ p \in Int
      BY <3>0
    <3> HIDE DEF q, p
    <3>3. x - y = (q - p) * 512
      <4>1. x % 512 = y % 512
        BY <1>3, <2>5 DEF x, y
      <4> QED
        BY <3>0, <3>1, <3>2, <4>1
    <3>4. a - b = 512 * (363 * (q - p) - 229 * (a - b))
      BY <2>5, <3>1, <3>2, <3>3 DEF x, y
    <3> DEFINE k == 363 * (q - p) - 229 * (a - b)
    <3>5. k \in Int /\ a - b = 512 * k /\ a - b < 512 /\ b - a < 512
      BY <2>5, <3>1, <3>2, <3>4
    <3> HIDE DEF k
    <3> QED
      BY <2>5, <3>5
  <2> QED
    BY <1>1, <2>1, <2>2, <2>3, <2>4, <2>5
<1>4. \A k \in 1..size : ((k - 1) * gap) % size \in 0..(size - 1)
  <2> SUFFICES ASSUME NEW k \in 1..size PROVE ((k - 1) * gap) % size \in 0..(size - 1)
    OBVIOUS
  <2> DEFINE v == (k - 1) * gap
  <2>1. v \in Nat /\ size \in Nat \ {0}
    BY <1>1
  <2> HIDE DEF v
  <2>2. v % size \in 0..(size - 1)
    BY <2>1
  <2> QED
    BY <2>2 DEF v
<1> DEFINE w == Walk(size)
<1>5. \A k \in 1..size : w[k] = ((k - 1) * gap) % size
  BY <1>2
<1> HIDE DEF w
<1>6. Apart(w, size)
  <2> SUFFICES ASSUME NEW i \in 1..size, NEW j \in 1..size, w[i] = w[j] PROVE i = j
    BY DEF Apart
  <2>1. ((i - 1) * gap) % size = ((j - 1) * gap) % size
    BY <1>5
  <2> QED
    BY <1>3, <2>1
<1>7. \A k \in 1..size : w[k] \in 0..(size - 1)
  BY <1>4, <1>5
<1> QED
  BY <1>6, <1>7 DEF size, w

LEMMA WalkReachesAll ==
    ASSUME NEW log \in 5..9
    PROVE  Firsts(Walk(Pow(log)), Pow(log)) = 0..(Pow(log) - 1)
<1> DEFINE size == Pow(log)
           w == Walk(size)
<1>1. Apart(w, size) /\ \A k \in 1..size : w[k] \in 0..(size - 1)
  BY WalkIsApart
<1>2. size \in Nat /\ size >= 1
  <2>1. log \in 0..31
    OBVIOUS
  <2> QED
    BY <2>1, Powers
<1> HIDE DEF w, size
<1>3. IsFiniteSet(Firsts(w, size)) /\ Cardinality(Firsts(w, size)) = size
  <2>1. size \in 0..size
    BY <1>2
  <2>2. \A k \in 0..size : IsFiniteSet(Firsts(w, k)) /\ Cardinality(Firsts(w, k)) = k
    BY <1>1, <1>2, CountFirsts, Zenon
  <2> QED
    BY <2>1, <2>2
<1>4. Firsts(w, size) \in SUBSET (0..(size - 1))
  BY <1>1 DEF Firsts
<1>5. IsFiniteSet(0..(size - 1)) /\ Cardinality(0..(size - 1)) = size
  <2>1. 0 \in Int /\ size - 1 \in Int /\ ~(0 > size - 1) /\ (size - 1) - 0 + 1 = size
    BY <1>2
  <2> QED
    BY <2>1, FS_Interval
<1>6. Firsts(w, size) = 0..(size - 1)
  BY <1>3, <1>4, <1>5, FS_Subset, Zenon
<1> QED
  BY <1>6 DEF w, size

\* The slots are the positions below a bound, each of them once.
SlotsSound(slots, free) ==
    /\ slots \in Seq(Nat) /\ Len(slots) = free /\ Apart(slots, free)
    /\ Firsts(slots, free) = 0..(free - 1)

LEMMA SlotsAre ==
    ASSUME NEW log \in 5..9, NEW probs, NEW free \in Nat,
           free = Pow(log) - Cardinality(Negative(probs)), free <= Pow(log)
    PROVE  SlotsSound(Slots(probs, log), free)
<1> DEFINE size == Pow(log)
           w == Walk(size)
           S == Seq(Nat)
           Adding(k, t) == IF w[k] < free THEN Append(t, w[k]) ELSE t
           F == [p \in (1..size) \X S |-> Adding(p[1], p[2])]
           Solves(f) == f = [k \in 0..size |-> IF k = 0 THEN <<>>
                                               ELSE IF w[k] < free THEN Append(f[k - 1], w[k])
                                               ELSE f[k - 1]]
           taken == CHOOSE f : Solves(f)
<1>1. Apart(w, size) /\ \A k \in 1..size : w[k] \in 0..(size - 1)
  BY WalkIsApart
<1>2. Firsts(w, size) = 0..(size - 1)
  BY WalkReachesAll
<1>3. size \in Nat /\ size >= 1
  <2>1. log \in 0..31
    OBVIOUS
  <2> QED
    BY <2>1, Powers
<1>4. Slots(probs, log) = taken[size]
  BY Zenon DEF Slots, Pow
<1>0. free <= size
  OBVIOUS
<1> HIDE DEF w, size
<1>5. ASSUME NEW k \in 1..size, NEW t \in S PROVE Adding(k, t) \in S /\ F[<<k, t>>] = Adding(k, t)
  <2>1. w[k] \in Nat
    BY <1>1, <1>3
  <2>2. Append(t, w[k]) \in S
    BY <2>1
  <2>3. <<k, t>> \in (1..size) \X S
    OBVIOUS
  <2> QED
    BY <2>2, <2>3
<1>6. F \in [(1..size) \X S -> S]
  <2>1. \A p \in (1..size) \X S : p[1] \in 1..size /\ p[2] \in S
    OBVIOUS
  <2> HIDE DEF S
  <2>2. \A p \in (1..size) \X S : Adding(p[1], p[2]) \in S
    BY <1>5, <2>1
  <2> HIDE DEF Adding
  <2> QED
    BY <2>2
<1>7. <<>> \in S
  OBVIOUS
<1> HIDE DEF F, S
<1>8. PICK g \in [0..size -> S] : Iterated(g, F, <<>>, size)
  BY <1>3, <1>6, <1>7, Iterates, Zenon
<1>9. ASSUME NEW k \in 1..size PROVE g[k] = Adding(k, g[k - 1])
  <2>1. k - 1 \in 0..size
    BY <1>3
  <2>2. g[k - 1] \in S
    BY <2>1
  <2>3. F[<<k, g[k - 1]>>] = Adding(k, g[k - 1])
    BY <1>5, <2>2
  <2> HIDE DEF Adding
  <2> QED
    BY <1>8, <2>3 DEF Iterated
<1>10. Solves(g)
  <2>1. g[0] = <<>>
    BY <1>8 DEF Iterated
  <2>2. \A k \in 0..size : g[k] = IF k = 0 THEN <<>> ELSE Adding(k, g[k - 1])
    <3> HIDE DEF Adding
    <3>1. \A k \in 0..size : k = 0 \/ k \in 1..size
      BY <1>3
    <3> QED
      BY <1>9, <2>1, <3>1
  <2>3. g = [k \in 0..size |-> g[k]]
    OBVIOUS
  <2> QED
    BY <2>2, <2>3
<1>11. Solves(taken)
  <2>1. \E f : Solves(f)
    BY <1>10, Zenon
  <2> HIDE DEF Solves
  <2> QED
    BY <2>1, Zenon
<1> HIDE DEF taken
<1>12. taken[0] = <<>> /\ \A k \in 1..size : taken[k] = Adding(k, taken[k - 1])
  <2>1. 0 \in 0..size /\ \A k \in 1..size : k \in 0..size /\ k # 0
    BY <1>3
  <2> QED
    BY <1>11, <2>1
<1> DEFINE Good(k) == LET t == taken[k]
                      IN  /\ t \in Seq(Nat) /\ Len(t) \in Nat /\ Apart(t, Len(t))
                          /\ Firsts(t, Len(t)) = Firsts(w, k) \cap (0..(free - 1))
           T == {k \in Nat : k <= size => Good(k)}
<1>13. 0 \in T
  <2>1. Firsts(w, 0) = {} /\ Firsts(<<>>, 0) = {} /\ Apart(<<>>, 0)
    BY DEF Firsts, Apart
  <2>2. <<>> \in Seq(Nat) /\ Len(<<>>) = 0 /\ 0 \in Nat
    OBVIOUS
  <2>3. Good(0)
    BY <1>12, <2>1, <2>2
  <2> QED
    BY <2>3
<1>14. ASSUME NEW k \in T PROVE k + 1 \in T
  <2> SUFFICES ASSUME k + 1 <= size PROVE Good(k + 1)
    OBVIOUS
  <2>1. k \in Nat /\ k <= size /\ k + 1 \in 1..size /\ (k + 1) - 1 = k
    BY <1>3
  <2>2. Good(k)
    BY <2>1
  <2> DEFINE t == taken[k]
             u == taken[k + 1]
  <2>3. u = Adding(k + 1, t)
    BY <1>12, <2>1
  <2>4. /\ t \in Seq(Nat) /\ Len(t) \in Nat /\ Apart(t, Len(t))
        /\ Firsts(t, Len(t)) = Firsts(w, k) \cap (0..(free - 1))
    BY <2>2
  <2> HIDE DEF t, u
  <2>5. Firsts(w, k + 1) = Firsts(w, k) \cup {w[k + 1]}
    <3>1. \A i : i \in 1..(k + 1) <=> i \in 1..k \/ i = k + 1
      BY <2>1
    <3> QED
      BY <3>1, Zenon DEF Firsts
  <2>6. CASE ~(w[k + 1] < free)
    <3>1. u = t
      BY <2>3, <2>6
    <3>2. w[k + 1] \notin 0..(free - 1)
      BY <1>1, <2>1, <2>6
    <3> QED
      BY <2>4, <2>5, <3>1, <3>2 DEF t, u
  <2>7. CASE w[k + 1] < free
    <3> DEFINE v == w[k + 1]
               n == Len(t)
    <3>1. u = Append(t, v)
      BY <2>3, <2>7
    <3>2. v \in 0..(free - 1) /\ v \in Nat
      BY <1>1, <2>1, <2>7
    <3>3. v \notin Firsts(w, k)
      <4>1. \A i \in 1..k : i \in 1..size /\ k + 1 \in 1..size /\ i # k + 1
        BY <2>1, <1>3
      <4>2. \A i \in 1..k : w[i] # v
        BY <1>1, <4>1 DEF Apart
      <4> QED
        BY <4>2 DEF Firsts
    <3> HIDE DEF v
    <3>4. /\ u \in Seq(Nat) /\ Len(u) = n + 1 /\ u[n + 1] = v /\ \A i \in 1..n : u[i] = t[i]
      BY <2>4, <3>1, <3>2
    <3>5. n \in Nat /\ Apart(t, n) /\ Firsts(t, n) = Firsts(w, k) \cap (0..(free - 1))
      BY <2>4
    <3> HIDE DEF n
    <3>6. Firsts(u, n + 1) = Firsts(t, n) \cup {v}
      <4>1. \A i : i \in 1..(n + 1) <=> i \in 1..n \/ i = n + 1
        BY <3>5
      <4> QED
        BY <3>4, <4>1, Zenon DEF Firsts
    <3>7. \A i \in 1..n : t[i] # v
      BY <3>3, <3>5 DEF Firsts
    <3>8. Apart(u, n + 1)
      <4> SUFFICES ASSUME NEW i \in 1..(n + 1), NEW j \in 1..(n + 1), u[i] = u[j] PROVE i = j
        BY DEF Apart
      <4>1. (i \in 1..n \/ i = n + 1) /\ (j \in 1..n \/ j = n + 1)
        BY <3>5
      <4> QED
        BY <3>4, <3>5, <3>7, <4>1 DEF Apart
    <3>9. Firsts(u, n + 1) = Firsts(w, k + 1) \cap (0..(free - 1))
      BY <2>5, <3>2, <3>5, <3>6 DEF v
    <3> QED
      BY <3>4, <3>5, <3>8, <3>9 DEF u
  <2> QED
    BY <2>6, <2>7
<1>15. T \in SUBSET Nat
  OBVIOUS
<1> HIDE DEF T
<1>16. size \in T
  BY <1>3, <1>13, <1>14, <1>15, InductionOnSets, Zenon
<1>17. Good(size)
  BY <1>16 DEF T
<1> DEFINE t == taken[size]
           n == Len(t)
<1>18. t \in Seq(Nat) /\ n \in Nat /\ Apart(t, n) /\ Firsts(t, n) = 0..(free - 1)
  <2>1. (0..(size - 1)) \cap (0..(free - 1)) = 0..(free - 1)
    BY <1>0, <1>3
  <2> QED
    BY <1>2, <1>17, <2>1
<1>19. n = free
  <2> HIDE DEF n
  <2>1. n \in 0..n
    BY <1>18
  <2>2. Cardinality(Firsts(t, n)) = n
    BY <1>18, <2>1, CountFirsts, Zenon
  <2>3. Cardinality(0..(free - 1)) = free
    <3>1. 0 \in Int /\ free - 1 \in Int /\ (0 > free - 1 <=> free = 0) /\ (free - 1) - 0 + 1 = free
      OBVIOUS
    <3> QED
      BY <3>1, FS_Interval
  <2> QED
    BY <1>18, <2>2, <2>3
<1> QED
  BY <1>4, <1>18, <1>19 DEF SlotsSound

-----------------------------------------------------------------------------
(* Which positions belong to which symbol.                                 *)

\* What a table can be made of: shares of all its states.
SoundProbs(probs, log) ==
    /\ log \in 5..9 /\ probs \in Seq(Int)
    /\ \A s \in 1..Len(probs) : probs[s] >= -1
    /\ SumTo(Shares(probs), Len(probs)) = Pow(log)

LEMMA SharesAre ==
    ASSUME NEW probs, NEW log, SoundProbs(probs, log)
    PROVE  /\ log \in 0..31 /\ Pow(log) \in Nat /\ Pow(log) >= 1
           /\ Len(probs) \in Nat /\ DOMAIN probs = 1..Len(probs)
           /\ \A s \in 1..Len(probs) :
                 /\ probs[s] \in Int /\ probs[s] >= -1
                 /\ Shares(probs)[s] = IF probs[s] = -1 THEN 1 ELSE probs[s]
                 /\ Shares(probs)[s] \in Nat
                 /\ Positive(probs)[s] = IF probs[s] > 0 THEN probs[s] ELSE 0
                 /\ Positive(probs)[s] \in Nat
<1>1. probs \in Seq(Int) /\ \A s \in 1..Len(probs) : probs[s] >= -1
  BY DEF SoundProbs
<1>2. Len(probs) \in Nat /\ DOMAIN probs = 1..Len(probs) /\ \A s \in 1..Len(probs) : probs[s] \in Int
  BY <1>1
<1>3. log \in 0..31
  BY DEF SoundProbs
<1>4. \A s \in 1..Len(probs) : /\ Shares(probs)[s] = IF probs[s] = -1 THEN 1 ELSE probs[s]
                               /\ Positive(probs)[s] = IF probs[s] > 0 THEN probs[s] ELSE 0
  BY <1>2 DEF Shares, Positive
<1>5. \A s \in 1..Len(probs) : Shares(probs)[s] \in Nat /\ Positive(probs)[s] \in Nat
  BY <1>1, <1>2, <1>4
<1> QED
  BY <1>1, <1>2, <1>3, <1>4, <1>5, Powers

LEMMA OneIsInt == 1 \in Int /\ \A n \in Nat : n \in Int
OBVIOUS

LEMMA FreeIs ==
    ASSUME NEW probs, NEW log, SoundProbs(probs, log)
    PROVE  /\ IsFiniteSet(Negative(probs)) /\ Cardinality(Negative(probs)) \in Nat
           /\ SumTo(Positive(probs), Len(probs)) = Pow(log) - Cardinality(Negative(probs))
           /\ SumTo(Positive(probs), Len(probs)) \in Nat
<1> DEFINE n == Len(probs)
           neg == Negative(probs)
           Upto(i) == {t \in neg : t <= i}
           f == [i \in 0..n |-> SumTo(Positive(probs), i) + Cardinality(Upto(i))]
<1>1. n \in Nat /\ DOMAIN probs = 1..n /\ log \in 0..31
  BY SharesAre
<1>2. \A s \in 1..n : /\ Shares(probs)[s] = IF probs[s] = -1 THEN 1 ELSE probs[s]
                      /\ Positive(probs)[s] = IF probs[s] > 0 THEN probs[s] ELSE 0
                      /\ Shares(probs)[s] \in Nat /\ Positive(probs)[s] \in Nat
                      /\ probs[s] \in Int /\ probs[s] >= -1
  BY SharesAre
<1>3. /\ SumTo(Positive(probs), 0) = 0
      /\ \A i \in 0..n : SumTo(Positive(probs), i) \in Int
      /\ \A i \in 1..n : SumTo(Positive(probs), i) = SumTo(Positive(probs), i - 1) + Positive(probs)[i]
  <2>1. \A i \in 1..n : Positive(probs)[i] \in Int
    BY <1>2
  <2> HIDE DEF n
  <2> QED
    BY <1>1, <2>1, Sums, Zenon
<1>4. neg \in SUBSET (1..n) /\ \A s \in 1..n : s \in neg <=> probs[s] = -1
  BY <1>1 DEF Negative
<1> HIDE DEF n, neg
<1>5. IsFiniteSet(1..n)
  BY <1>1, FS_Interval, OneIsInt
<1>6. \A i \in 0..n : IsFiniteSet(Upto(i)) /\ Cardinality(Upto(i)) \in Nat
  <2> SUFFICES ASSUME NEW i \in 0..n PROVE IsFiniteSet(Upto(i)) /\ Cardinality(Upto(i)) \in Nat
    OBVIOUS
  <2>1. Upto(i) \in SUBSET (1..n)
    BY <1>4
  <2> HIDE DEF Upto
  <2>2. IsFiniteSet(Upto(i))
    BY <1>5, <2>1, FS_Subset, Zenon
  <2> QED
    BY <2>2, FS_CardinalityType
<1>7. Upto(0) = {}
  <2>1. \A t \in 1..n : ~(t <= 0)
    OBVIOUS
  <2> QED
    BY <1>4, <2>1
<1>8. Upto(n) = neg
  <2>1. \A t \in 1..n : t <= n
    BY <1>1
  <2> QED
    BY <1>4, <2>1
<1>9. f[0] = 0 /\ f[n] = SumTo(Positive(probs), n) + Cardinality(neg)
  <2>1. 0 \in 0..n /\ n \in 0..n
    BY <1>1
  <2>2. f[0] = SumTo(Positive(probs), 0) + Cardinality(Upto(0)) /\ f[n] = SumTo(Positive(probs), n) + Cardinality(Upto(n))
    BY <2>1
  <2>3. Cardinality(Upto(0)) = 0
    BY <1>7, FS_EmptySet, Zenon
  <2>4. Cardinality(Upto(n)) = Cardinality(neg)
    BY <1>8, Zenon
  <2>5. SumTo(Positive(probs), 0) = 0
    BY <1>3
  <2> HIDE DEF f, Upto
  <2> QED
    BY <2>2, <2>3, <2>4, <2>5
<1>10. ASSUME NEW i \in 1..n PROVE f[i] = f[i - 1] + Shares(probs)[i]
  <2>1. i - 1 \in 0..n /\ i \in 0..n
    BY <1>1
  <2>2. /\ f[i] = SumTo(Positive(probs), i) + Cardinality(Upto(i))
        /\ f[i - 1] = SumTo(Positive(probs), i - 1) + Cardinality(Upto(i - 1))
    BY <2>1
  <2>3. SumTo(Positive(probs), i) = SumTo(Positive(probs), i - 1) + Positive(probs)[i]
    BY <1>3
  <2>4. SumTo(Positive(probs), i - 1) \in Int /\ Cardinality(Upto(i - 1)) \in Nat /\ IsFiniteSet(Upto(i - 1))
    BY <1>3, <1>6, <2>1
  <2>5. \A t \in 1..n : t <= i <=> t <= i - 1 \/ t = i
    OBVIOUS
  <2>6. CASE probs[i] = -1
    <3>1. Upto(i) = Upto(i - 1) \cup {i} /\ i \notin Upto(i - 1)
      <4>1. i \in neg /\ ~(i <= i - 1)
        BY <1>4, <2>6
      <4>2. \A t \in neg : t <= i <=> t <= i - 1 \/ t = i
        BY <1>4, <2>5
      <4> QED
        BY <4>1, <4>2, Zenon
    <3> HIDE DEF f, Upto
    <3>2. Cardinality(Upto(i)) = Cardinality(Upto(i - 1)) + 1
      BY <2>4, <3>1, FS_AddElement
    <3>3. Shares(probs)[i] = 1 /\ Positive(probs)[i] = 0
      BY <1>2, <2>6
    <3> QED
      BY <2>2, <2>3, <2>4, <3>2, <3>3
  <2>7. CASE probs[i] # -1
    <3>1. Upto(i) = Upto(i - 1)
      <4>1. i \notin neg
        BY <1>4, <2>7
      <4>2. \A t \in neg : t <= i <=> t <= i - 1 \/ t = i
        BY <1>4, <2>5
      <4> QED
        BY <4>1, <4>2, Zenon
    <3> HIDE DEF f, Upto
    <3>3. Shares(probs)[i] = Positive(probs)[i] /\ Shares(probs)[i] \in Nat
      BY <1>2, <2>7
    <3> QED
      BY <2>2, <2>3, <2>4, <3>1, <3>3
  <2> QED
    BY <2>6, <2>7
<1>11. SumTo(Shares(probs), n) = f[n]
  <2>1. \A i \in 1..n : Shares(probs)[i] \in Int
    BY <1>2
  <2> HIDE DEF f
  <2>2. Adds(f, Shares(probs), n)
    BY <1>9, <1>10 DEF Adds
  <2> QED
    BY <1>1, <2>1, <2>2, SumToIs, Zenon
<1>12. SumTo(Shares(probs), n) = Pow(log)
  BY DEF SoundProbs, n
<1>13. IsFiniteSet(neg) /\ Cardinality(neg) \in Nat
  <2>1. n \in 0..n
    BY <1>1
  <2> HIDE DEF Upto
  <2> QED
    BY <1>6, <1>8, <2>1
<1>14. SumTo(Positive(probs), n) \in Int /\ SumTo(Positive(probs), n) >= 0
  <2>1. 0 \in 0..n /\ n \in 0..n /\ 0 <= n
    BY <1>1
  <2>2. \A s \in 1..n : Positive(probs)[s] \in Nat
    BY <1>2
  <2>3. \A i, j \in 0..n : i <= j => 0 <= SumTo(Positive(probs), i) /\ SumTo(Positive(probs), i) <= SumTo(Positive(probs), j)
    BY <1>1, <2>2, SumsGrow, Zenon
  <2> QED
    BY <1>3, <2>1, <2>3
<1> HIDE DEF f
<1>15. Pow(log) = SumTo(Positive(probs), n) + Cardinality(neg)
  BY <1>9, <1>11, <1>12
<1> QED
  BY <1>13, <1>14, <1>15 DEF n, neg


FreeOf(probs) == SumTo(Positive(probs), Len(probs))

LEMMA PlacesAre ==
    ASSUME NEW probs, NEW log, SoundProbs(probs, log)
    PROVE  /\ \A s \in 1..Len(probs) : probs[s] > 0 => /\ Before(probs, s) \in Nat
                                                       /\ Before(probs, s) + probs[s] <= FreeOf(probs)
           /\ \A s, t \in 1..Len(probs) : probs[s] > 0 /\ s < t => Before(probs, s) + probs[s] <= Before(probs, t)
<1> DEFINE n == Len(probs)
           sum(i) == SumTo(Positive(probs), i)
<1>1. n \in Nat
  BY SharesAre
<1>2. \A s \in 1..n : /\ Positive(probs)[s] \in Nat /\ Positive(probs)[s] \in Int /\ probs[s] \in Int
                      /\ probs[s] > 0 => Positive(probs)[s] = probs[s]
  BY SharesAre
<1> HIDE DEF n
<1>3. /\ sum(0) = 0
      /\ \A i \in 0..n : sum(i) \in Int
      /\ \A i \in 1..n : sum(i) = sum(i - 1) + Positive(probs)[i]
  BY <1>1, <1>2, Sums, Zenon
<1>4. \A i, j \in 0..n : i <= j => 0 <= sum(i) /\ sum(i) <= sum(j)
  BY <1>1, <1>2, SumsGrow, Zenon
<1>5. \A s : Before(probs, s) = sum(s - 1)
  BY DEF Before
<1>6. FreeOf(probs) = sum(n)
  BY DEF FreeOf, n
<1> HIDE DEF sum
<1>7. ASSUME NEW s \in 1..n, probs[s] > 0
      PROVE  /\ sum(s - 1) \in Nat /\ sum(s - 1) + probs[s] = sum(s)
  <2>1. s - 1 \in 0..n /\ s \in 0..n /\ s - 1 <= s
    BY <1>1
  <2>2. sum(s - 1) \in Int /\ 0 <= sum(s - 1)
    BY <1>3, <1>4, <2>1
  <2>3. sum(s) = sum(s - 1) + Positive(probs)[s] /\ Positive(probs)[s] = probs[s]
    BY <1>2, <1>3, <1>7
  <2> QED
    BY <2>2, <2>3
<1>8. ASSUME NEW s \in 1..n, probs[s] > 0
      PROVE  Before(probs, s) \in Nat /\ Before(probs, s) + probs[s] <= FreeOf(probs)
  <2>1. s \in 0..n /\ n \in 0..n /\ s <= n
    BY <1>1
  <2>2. sum(s) <= sum(n)
    BY <1>4, <2>1
  <2> QED
    BY <1>5, <1>6, <1>7, <1>8, <2>2
<1>9. ASSUME NEW s \in 1..n, NEW t \in 1..n, probs[s] > 0, s < t
      PROVE  Before(probs, s) + probs[s] <= Before(probs, t)
  <2>1. s \in 0..n /\ t - 1 \in 0..n /\ s <= t - 1
    BY <1>1, <1>9
  <2>2. sum(s) <= sum(t - 1)
    BY <1>4, <2>1
  <2> QED
    BY <1>5, <1>7, <1>9, <2>2
<1> QED
  BY <1>8, <1>9 DEF n

LEMMA OwnersApart ==
    ASSUME NEW probs, NEW log, SoundProbs(probs, log), NEW slots, SlotsSound(slots, FreeOf(probs)),
           NEW s \in 1..Len(probs), NEW t \in 1..Len(probs),
           NEW i, i \in Owned(probs, slots, s), i \in Owned(probs, slots, t)
    PROVE  s = t
<1> DEFINE n == Len(probs)
           free == FreeOf(probs)
<1>1. n \in Nat /\ \A u \in 1..n : probs[u] \in Int
  BY SharesAre
<1>2. PICK k \in 1..probs[s] : i = slots[Before(probs, s) + k]
  BY DEF Owned
<1>3. PICK l \in 1..probs[t] : i = slots[Before(probs, t) + l]
  BY DEF Owned
<1>4. probs[s] > 0 /\ probs[t] > 0 /\ probs[s] \in Int /\ probs[t] \in Int
  BY <1>1
<1>5. /\ Before(probs, s) \in Nat /\ Before(probs, s) + probs[s] <= free
      /\ Before(probs, t) \in Nat /\ Before(probs, t) + probs[t] <= free
      /\ s < t => Before(probs, s) + probs[s] <= Before(probs, t)
      /\ t < s => Before(probs, t) + probs[t] <= Before(probs, s)
  BY <1>4, PlacesAre, Zenon
<1>6. free \in Nat /\ Apart(slots, free)
  BY FreeIs DEF SlotsSound, FreeOf
<1> DEFINE x == Before(probs, s)
           y == Before(probs, t)
<1>7. /\ x \in Nat /\ x + probs[s] <= free /\ y \in Nat /\ y + probs[t] <= free
      /\ s < t => x + probs[s] <= y
      /\ t < s => y + probs[t] <= x
      /\ slots[x + k] = slots[y + l]
  BY <1>2, <1>3, <1>5
<1> HIDE DEF x, y, free
<1>8. x + k \in 1..free /\ y + l \in 1..free
  BY <1>4, <1>6, <1>7, SMTT(40)
<1>9. x + k = y + l
  BY <1>6, <1>7, <1>8 DEF Apart
<1>10. s < t \/ t < s \/ s = t
  BY <1>1
<1> QED
  BY <1>4, <1>7, <1>9, <1>10, SMTT(30)

\* The positions of one symbol in order, as many as it has shares.
OwnedInOrder(own, b, p, free) ==
    /\ b \in [1..p -> 0..(free - 1)] /\ own = Firsts(b, p) /\ Ranked(own, b, p)

LEMMA OwnedIs ==
    ASSUME NEW probs, NEW log, SoundProbs(probs, log), NEW slots, SlotsSound(slots, FreeOf(probs)),
           NEW s \in 1..Len(probs), probs[s] > 0
    PROVE  \E b : OwnedInOrder(Owned(probs, slots, s), b, probs[s], FreeOf(probs))
<1> DEFINE p == probs[s]
           x == Before(probs, s)
           free == FreeOf(probs)
           T == Owned(probs, slots, s)
           c == [k \in 1..p |-> slots[x + k]]
<1>1. p \in Nat /\ p > 0
  BY SharesAre
<1>2. x \in Nat /\ x + p <= free
  BY PlacesAre
<1>3. free \in Nat /\ Apart(slots, free) /\ Firsts(slots, free) = 0..(free - 1)
  BY FreeIs DEF SlotsSound, FreeOf
<1>4. T = {slots[x + k] : k \in 1..p}
  BY DEF Owned
<1> HIDE DEF T, x, p, free
<1>5. \A k \in 1..p : x + k \in 1..free
  BY <1>1, <1>2, <1>3
<1>6. \A k \in 1..p : c[k] = slots[x + k] /\ c[k] \in 0..(free - 1)
  <2> SUFFICES ASSUME NEW k \in 1..p PROVE c[k] = slots[x + k] /\ c[k] \in 0..(free - 1)
    OBVIOUS
  <2>1. slots[x + k] \in Firsts(slots, free)
    BY <1>5 DEF Firsts
  <2> QED
    BY <1>3, <2>1
<1>7. T = Firsts(c, p)
  BY <1>4, <1>6 DEF Firsts
<1> HIDE DEF c
<1>8. Apart(c, p)
  <2> SUFFICES ASSUME NEW k \in 1..p, NEW l \in 1..p, c[k] = c[l] PROVE k = l
    BY DEF Apart
  <2>1. x + k = x + l
    BY <1>3, <1>5, <1>6 DEF Apart
  <2> QED
    BY <1>2, <2>1
<1>9. Cardinality(T) = p
  <2>1. p \in 0..p
    BY <1>1
  <2> QED
    BY <1>1, <1>7, <1>8, <2>1, CountFirsts
<1>10. T \in SUBSET Nat /\ T \in SUBSET (0..(free - 1)) /\ \A i \in T : i < free
  BY <1>3, <1>6, <1>7 DEF Firsts
<1>11. PICK m \in Nat : \E b \in [1..m -> T] : InOrder(b, m) /\ T = Firsts(b, m) /\ Ranked(T, b, m)
  BY <1>3, <1>10, InRank, Zenon
<1>12. PICK b \in [1..m -> T] : InOrder(b, m) /\ T = Firsts(b, m) /\ Ranked(T, b, m)
  BY <1>11
<1>13. m = p
  BY <1>9, <1>12 DEF Ranked
<1>14. b \in [1..p -> 0..(free - 1)]
  BY <1>10, <1>12, <1>13
<1>15. OwnedInOrder(T, b, p, free)
  BY <1>12, <1>13, <1>14, Zenon DEF OwnedInOrder
<1> QED
  BY <1>15, Zenon DEF T, p, free

-----------------------------------------------------------------------------
(* The states of a symbol: wide and narrow ones, which share all the states *)
(* there are.                                                              *)

\* What products of numbers are like.
LEMMA Products == \A a, b \in Nat : a * b \in Nat /\ (a >= 1 => a * b >= b)
<1> SUFFICES ASSUME NEW a \in Nat, NEW b \in Nat PROVE a * b \in Nat /\ (a >= 1 => a * b >= b)
  OBVIOUS
<1>1. a * b \in Nat
  OBVIOUS
<1>2. CASE a >= 1
  <2>1. a * b = (a - 1) * b + b /\ a - 1 \in Nat
    BY <1>2
  <2>2. (a - 1) * b >= 0 /\ (a - 1) * b \in Int
    BY <2>1
  <2> QED
    BY <1>1, <1>2, <2>1, <2>2
<1> QED
  BY <1>1, <1>2

LEMMA Distributes == \A a, b, d \in Int : a * d \in Int /\ (a + b) * d = a * d + b * d
  OBVIOUS

\* The number of shares, rounded up to a power of two, of a width each: so many
\* symbols' states are wide and so many narrow.
Shape(p, log, c, double, single, width) ==
    /\ c \in 0..log /\ c = Log2(p) + (IF Pow(Log2(p)) = p THEN 0 ELSE 1)
    /\ double \in Nat /\ single \in Nat /\ single >= 1 /\ p = double + single
    /\ Pow(c) = p + double
    /\ width = Pow(log - c) /\ width \in Nat /\ width >= 1
    /\ (single + 2 * double) * width = Pow(log)
    /\ (IF Pow(Log2(p)) = p THEN p ELSE Pow(Log2(p) + 1)) = Pow(c)

LEMMA ShapeIs ==
    ASSUME NEW log \in 0..15, NEW p \in Nat, p >= 1, p <= Pow(log)
    PROVE  LET c == Log2(p) + (IF Pow(Log2(p)) = p THEN 0 ELSE 1)
           IN  Shape(p, log, c, Pow(c) - p, 2 * p - Pow(c), Pow(log - c))
<1> DEFINE l == Log2(p)
           c == l + (IF Pow(l) = p THEN 0 ELSE 1)
           P == Pow(c)
           W == Pow(log - c)
<1>1. l \in 0..29 /\ Pow(l) <= p /\ p < Pow(l + 1)
  <2>1. p < Pow(30)
    <3>1. log \in 0..31 /\ 30 \in 0..31 /\ log < 30
      OBVIOUS
    <3>2. 2 * Pow(log) <= Pow(30)
      BY <3>1, PowLess
    <3>3. Pow(log) \in Nat /\ Pow(log) >= 1 /\ Pow(30) \in Nat
      BY <3>1, Powers
    <3> QED
      BY <3>2, <3>3
  <2> QED
    BY <2>1, Log2Is
<1> HIDE DEF l
<1>2. l <= log /\ (Pow(l) # p => l < log)
  <2>1. l \in 0..31 /\ log \in 0..31
    BY <1>1
  <2>2. log < l => 2 * Pow(log) <= Pow(l)
    BY <2>1, PowLess
  <2>3. Pow(log) \in Nat /\ Pow(log) >= 1 /\ Pow(l) \in Nat
    BY <2>1, Powers
  <2>4. ~(log < l)
    BY <1>1, <2>2, <2>3
  <2>5. Pow(l) # p => l # log
    BY <1>1, <2>3
  <2> QED
    BY <2>1, <2>4, <2>5
<1>3. c \in 0..log /\ c \in 0..31 /\ log - c \in 0..31 /\ c + (log - c) = log /\ log <= 31
  BY <1>1, <1>2
<1>4. p <= P /\ P <= 2 * p - 1 /\ P \in Nat /\ P = IF Pow(l) = p THEN p ELSE Pow(l + 1)
  <2>1. l \in 0..30 /\ l \in 0..31
    BY <1>1
  <2>2. Pow(l + 1) = 2 * Pow(l) /\ Pow(l) \in Nat /\ Pow(l) >= 1
    BY <2>1, Powers
  <2>3. CASE Pow(l) = p
    <3>1. P = p
      BY <2>1, <2>3
    <3> HIDE DEF P
    <3> QED
      BY <2>3, <3>1
  <2>4. CASE Pow(l) # p
    <3>1. P = Pow(l + 1)
      BY <2>1, <2>4
    <3> HIDE DEF P
    <3> QED
      BY <1>1, <2>2, <2>4, <3>1
  <2> QED
    BY <2>3, <2>4
<1>5. W \in Nat /\ W >= 1 /\ P * W = Pow(log)
  <2>1. Pow(c + (log - c)) = Pow(c) * Pow(log - c)
    BY <1>3, PowSum
  <2> QED
    BY <1>3, <2>1, Powers
<1>6. c = l + (IF Pow(l) = p THEN 0 ELSE 1)
  OBVIOUS
<1>7. P = Pow(c) /\ W = Pow(log - c)
  OBVIOUS
<1> HIDE DEF c, P, W
<1>8. (2 * p - P) + 2 * (P - p) = P /\ P - p \in Nat /\ 2 * p - P \in Nat /\ 2 * p - P >= 1 /\ p + (P - p) = P
      /\ p = (P - p) + (2 * p - P)
  BY <1>4
<1>9. Shape(p, log, c, P - p, 2 * p - P, W)
  BY <1>3, <1>4, <1>5, <1>6, <1>7, <1>8 DEF Shape, l
<1> QED
  BY <1>6, <1>7, <1>9, Zenon DEF l

\* The states of a symbol in the order of what they target: the narrow ones come
\* first, which are the last in the order of the table.
StateAt(log, c, double, single, width, own, i) ==
    IF i <= single
    THEN [bits |-> log - c, baseline |-> (i - 1) * width, last |-> i * width - 1, index |-> own[double + i]]
    ELSE [bits |-> log - c + 1, baseline |-> single * width + (i - 1 - single) * (2 * width),
          last |-> single * width + (i - single) * (2 * width) - 1, index |-> own[i - single]]

LEMMA StatesOfIs ==
    ASSUME NEW log \in 0..15, NEW probs, NEW slots, NEW s, NEW p \in Nat, p = probs[s], p >= 1, p <= Pow(log),
           NEW c, NEW double, NEW single, NEW width, Shape(p, log, c, double, single, width),
           NEW own, Ascending(Owned(probs, slots, s)) = own
    PROVE  StatesOf(probs, log, slots, s) =
             [i \in 1..p |-> StateAt(log, c, double, single, width, own, i)]
<1> DEFINE q == probs[s]
           size == 2^log
           ceil == Log2(q) + (IF 2^Log2(q) = q THEN 0 ELSE 1)
           dbl == 2^ceil - q
           sgl == q - dbl
           bits == log - ceil
           start == (sgl * 2^bits) % size
           Base(k) == IF k <= dbl THEN (start + (k - 1) * 2^(bits + 1)) % size
                      ELSE ((start + dbl * 2^(bits + 1)) % size) + (k - 1 - dbl) * 2^bits
           Entry(k) == LET wide == IF k <= dbl THEN bits + 1 ELSE bits
                       IN  [bits |-> wide, baseline |-> Base(k), last |-> Base(k) + 2^wide - 1, index |-> own[k]]
           targets == Ascending({Base(k) : k \in 1..q})
<1>0. StatesOf(probs, log, slots, s) = [i \in 1..q |-> Entry(CHOOSE k \in 1..q : Base(k) = targets[i])]
  BY ZenonT(60) DEF StatesOf
<1>q. q = p
  OBVIOUS
<1> HIDE DEF q
<1>1. StatesOf(probs, log, slots, s) = [i \in 1..p |-> Entry(CHOOSE k \in 1..p : Base(k) = targets[i])]
  <2> HIDE DEF Entry, Base, targets
  <2> QED
    BY <1>0, <1>q
<1>2. /\ c \in 0..log /\ double \in Nat /\ single \in Nat /\ single >= 1 /\ p = double + single
      /\ Pow(c) = p + double /\ width = Pow(log - c) /\ width \in Nat /\ width >= 1
      /\ c = Log2(p) + (IF Pow(Log2(p)) = p THEN 0 ELSE 1)
  BY DEF Shape
<1>w. (single + 2 * double) * width = Pow(log)
  BY DEF Shape
<1>n. single \in Nat /\ double \in Nat /\ width \in Nat /\ width >= 1 /\ 2 * width \in Nat
  BY <1>2
<1>3. ceil = c
  BY <1>2, <1>q DEF Pow
<1>4. bits = log - c /\ bits \in 0..15 /\ 2^bits = width /\ 2^(bits + 1) = 2 * width
  <2>1. bits = log - c /\ bits \in 0..15 /\ bits \in 0..30
    BY <1>2, <1>3
  <2>2. Pow(bits + 1) = 2 * Pow(bits) /\ Pow(bits) = width
    BY <1>2, <2>1, Powers
  <2> QED
    BY <2>1, <2>2 DEF Pow
<1>5. dbl = double
  <2>1. 2^ceil = p + double
    BY <1>2, <1>3 DEF Pow
  <2> HIDE DEF ceil
  <2> QED
    BY <1>2, <1>q, <2>1
<1>6. sgl = single
  <2> HIDE DEF dbl
  <2> QED
    BY <1>2, <1>q, <1>5
<1>7. size = (single + 2 * double) * width /\ size \in Nat /\ size >= 1
  <2>1. log \in 0..31
    OBVIOUS
  <2>2. Pow(log) \in Nat /\ Pow(log) >= 1 /\ size = Pow(log)
    BY <2>1, Powers DEF Pow
  <2> QED
    BY <1>w, <2>2
<1> DEFINE B(k) == IF k <= double THEN single * width + (k - 1) * (2 * width) ELSE (k - 1 - double) * width
           t == [i \in 1..p |-> IF i <= single THEN (i - 1) * width
                                ELSE single * width + (i - 1 - single) * (2 * width)]
<1>8. start = (single * width) % size
  BY <1>4, <1>6
<1> HIDE DEF size, ceil, bits, start, sgl, dbl
<1>9. ASSUME NEW k \in 1..p PROVE Base(k) = B(k)
  <2>1. CASE k <= double
    <3> DEFINE v == single * width
               w == (k - 1) * (2 * width)
    <3>1. Base(k) = (start + w) % size
      BY <1>4, <1>5, <2>1
    <3>2. double >= k /\ k >= 1 /\ k \in Nat
      BY <1>2, <2>1
    <3>3. size = v + (k - 1) * (2 * width) + (double - k + 1) * (2 * width)
      BY <1>2, <1>7, <3>2
    <3>4. (double - k + 1) * (2 * width) >= 1 * (2 * width)
      BY <1>2, <3>2
    <3>5. v \in Nat /\ w \in Nat
      <4>1. k - 1 \in Nat
        BY <3>2
      <4> QED
        BY <1>n, <4>1, Products
    <3>6. v < size /\ v + w < size
      BY <1>2, <3>3, <3>4, <3>5
    <3> HIDE DEF v, w
    <3>7. start = v
      BY <1>7, <1>8, <3>5, <3>6 DEF v
    <3>8. (start + w) % size = v + w
      BY <1>7, <3>5, <3>6, <3>7
    <3>9. B(k) = v + w
      BY <2>1 DEF v, w
    <3> HIDE DEF Base, B
    <3> QED
      BY <3>1, <3>8, <3>9
  <2>2. CASE ~(k <= double)
    <3> DEFINE v == single * width
               w == double * (2 * width)
    <3>1. Base(k) = ((start + w) % size) + (k - 1 - double) * width
      BY <1>4, <1>5, <2>2
    <3>2. size = v + w /\ v \in Nat /\ w \in Nat
      BY <1>2, <1>7
    <3>3. (start + w) % size = 0
      <4>1. CASE double = 0
        <5>1. w = 0
          BY <4>1, <1>2
        <5> HIDE DEF v, w
        <5>2. v = size
          BY <3>2, <5>1
        <5>3. start = 0
          BY <1>7, <1>8, <5>2 DEF v
        <5> QED
          BY <1>7, <5>1, <5>3
      <4>2. CASE double # 0
        <5>1. double * (2 * width) >= 1 * (2 * width)
          BY <1>2, <4>2, SMTT(40)
        <5>2. v < size
          BY <1>2, <3>2, <5>1
        <5> HIDE DEF v, w
        <5>3. start = v
          BY <1>7, <1>8, <3>2, <5>2 DEF v
        <5> QED
          BY <1>7, <3>2, <5>3
      <4> QED
        BY <4>1, <4>2
    <3>4. (k - 1 - double) * width \in Int
      BY <1>2
    <3>5. B(k) = (k - 1 - double) * width
      BY <2>2
    <3> HIDE DEF Base, B
    <3> QED
      BY <3>1, <3>3, <3>4, <3>5
  <2> QED
    BY <2>1, <2>2
<1>10. t \in [1..p -> Int]
  <2> SUFFICES ASSUME NEW i \in 1..p
               PROVE  (i - 1) * width \in Int /\ single * width + (i - 1 - single) * (2 * width) \in Int
    OBVIOUS
  <2>1. i - 1 \in Int /\ i - 1 - single \in Int /\ width \in Int /\ 2 * width \in Int /\ single \in Int
    BY <1>n
  <2>2. (i - 1) * width \in Int /\ single * width \in Int /\ (i - 1 - single) * (2 * width) \in Int
    BY <2>1, Distributes
  <2> QED
    BY <2>2
<1>11. InOrder(t, p)
  <2> SUFFICES ASSUME NEW i \in 1..p, NEW j \in 1..p, i < j PROVE t[i] < t[j]
    BY DEF InOrder
  <2>1. CASE j <= single
    <3>1. t[i] = (i - 1) * width /\ t[j] = (j - 1) * width
      BY <1>2, <2>1
    <3>2. (j - 1) * width = (i - 1) * width + (j - i) * width
      BY <1>2
    <3>3. (j - i) * width >= 1 * width
      BY <1>2
    <3>4. (i - 1) * width \in Int /\ (j - i) * width \in Int
      BY <1>2
    <3> HIDE DEF t
    <3> QED
      BY <1>2, <3>1, <3>2, <3>3, <3>4
  <2>2. CASE i <= single /\ ~(j <= single)
    <3>1. t[i] = (i - 1) * width /\ t[j] = single * width + (j - 1 - single) * (2 * width)
      BY <2>2
    <3>2. single * width = (i - 1) * width + (single - i + 1) * width
      BY <1>2
    <3>3. (single - i + 1) * width >= 1 * width /\ (j - 1 - single) * (2 * width) >= 0
      BY <1>2, <2>2, SMTT(30)
    <3>4. (i - 1) * width \in Int /\ (single - i + 1) * width \in Int /\ (j - 1 - single) * (2 * width) \in Int
      BY <1>2
    <3> HIDE DEF t
    <3> QED
      BY <1>2, <3>1, <3>2, <3>3, <3>4
  <2>3. CASE ~(i <= single)
    <3>1. /\ t[i] = single * width + (i - 1 - single) * (2 * width)
          /\ t[j] = single * width + (j - 1 - single) * (2 * width)
      BY <1>2, <2>3
    <3>2. (j - 1 - single) * (2 * width) = (i - 1 - single) * (2 * width) + (j - i) * (2 * width)
      BY <1>2
    <3>3. (j - i) * (2 * width) >= 1 * (2 * width)
      BY <1>2
    <3>4. (i - 1 - single) * (2 * width) \in Int /\ (j - i) * (2 * width) \in Int /\ single * width \in Int
      BY <1>2
    <3> HIDE DEF t
    <3> QED
      BY <1>2, <3>1, <3>2, <3>3, <3>4
  <2> QED
    BY <2>1, <2>2, <2>3
<1> DEFINE K(i) == IF i <= single THEN double + i ELSE i - single
<1>12. ASSUME NEW i \in 1..p PROVE K(i) \in 1..p /\ B(K(i)) = t[i]
  <2>1. CASE i <= single
    <3>1. K(i) = double + i /\ K(i) \in 1..p /\ ~(K(i) <= double) /\ (double + i) - 1 - double = i - 1
      BY <1>2, <2>1
    <3>2. B(K(i)) = (i - 1) * width
      BY <3>1
    <3> QED
      BY <2>1, <3>1, <3>2
  <2>2. CASE ~(i <= single)
    <3>1. K(i) = i - single /\ K(i) \in 1..p /\ K(i) <= double /\ (i - single) - 1 = i - 1 - single
      BY <1>2, <2>2
    <3>2. B(K(i)) = single * width + (i - 1 - single) * (2 * width)
      BY <3>1
    <3> QED
      BY <2>2, <3>1, <3>2
  <2> QED
    BY <2>1, <2>2
<1>13. ASSUME NEW k \in 1..p PROVE \E i \in 1..p : K(i) = k
  <2>1. CASE k <= double
    <3>1. single + k \in 1..p /\ ~(single + k <= single) /\ (single + k) - single = k
      BY <1>2, <2>1
    <3>2. K(single + k) = k
      BY <3>1
    <3> HIDE DEF K
    <3> QED
      BY <3>1, <3>2
  <2>2. CASE ~(k <= double)
    <3>1. k - double \in 1..p /\ k - double <= single /\ double + (k - double) = k
      BY <1>2, <2>2
    <3>2. K(k - double) = k
      BY <3>1
    <3> HIDE DEF K
    <3> QED
      BY <3>1, <3>2
  <2> QED
    BY <2>1, <2>2
<1>14. {Base(k) : k \in 1..q} = Firsts(t, p)
  <2> HIDE DEF Base, B, K, t
  <2>1. ASSUME NEW x PROVE x \in {Base(k) : k \in 1..q} <=> x \in Firsts(t, p)
    <3>1. ASSUME NEW k \in 1..p, x = Base(k) PROVE \E i \in 1..p : x = t[i]
      BY <1>9, <1>12, <1>13, <3>1
    <3>2. ASSUME NEW i \in 1..p, x = t[i] PROVE \E k \in 1..p : x = Base(k)
      BY <1>9, <1>12, <3>2
    <3> QED
      BY <1>q, <3>1, <3>2 DEF Firsts
  <2> QED
    BY <2>1
<1>15. targets = t
  <2>1. Ranked(Firsts(t, p), t, p)
    <3> HIDE DEF t
    <3> QED
      BY <1>10, <1>11, RankedIs, Zenon
  <2>2. Ascending(Firsts(t, p)) = t
    BY <2>1, Zenon DEF Ranked
  <2> HIDE DEF Base, t
  <2> QED
    BY <1>14, <2>2
<1>16. ASSUME NEW i \in 1..p PROVE (CHOOSE k \in 1..p : Base(k) = targets[i]) = K(i)
  <2>1. ASSUME NEW k \in 1..p, Base(k) = t[i] PROVE k = K(i)
    <3>1. PICK j \in 1..p : K(j) = k
      BY <1>13
    <3> HIDE DEF Base, B, K, t
    <3>2. t[j] = t[i]
      BY <1>9, <1>12, <2>1, <3>1
    <3>3. Apart(t, p)
      BY <1>10, <1>11, InOrderIsApart, Zenon
    <3>4. i = j
      BY <3>2, <3>3 DEF Apart
    <3> QED
      BY <3>1, <3>4
  <2> HIDE DEF Base, B, K, t, targets
  <2>2. Base(K(i)) = t[i] /\ K(i) \in 1..p
    BY <1>9, <1>12
  <2>3. targets[i] = t[i]
    BY <1>15
  <2> QED
    BY <2>1, <2>2, <2>3
<1>17. ASSUME NEW i \in 1..p PROVE Entry(K(i)) = StateAt(log, c, double, single, width, own, i)
  <2>1. Base(K(i)) = t[i] /\ K(i) \in 1..p
    <3> HIDE DEF Base, B, K, t
    <3> QED
      BY <1>9, <1>12
  <2>2. CASE i <= single
    <3>1. K(i) = double + i /\ ~(K(i) <= dbl) /\ t[i] = (i - 1) * width
      BY <1>2, <1>5, <2>2
    <3>2. Entry(K(i)) = [bits |-> bits, baseline |-> Base(K(i)), last |-> Base(K(i)) + 2^bits - 1, index |-> own[K(i)]]
      <4> HIDE DEF Base, K
      <4> QED
        BY <3>1
    <3>3. (i - 1) * width + width - 1 = i * width - 1
      BY <1>2
    <3>4. Base(K(i)) + 2^bits - 1 = i * width - 1 /\ Base(K(i)) = (i - 1) * width
      <4> HIDE DEF Base, K, t
      <4> QED
        BY <1>4, <2>1, <3>1, <3>3
    <3> HIDE DEF Base, K, t, Entry
    <3> QED
      BY <1>4, <2>2, <3>1, <3>2, <3>4 DEF StateAt
  <2>3. CASE ~(i <= single)
    <3>1. K(i) = i - single /\ K(i) <= dbl /\ t[i] = single * width + (i - 1 - single) * (2 * width)
      BY <1>2, <1>5, <2>3
    <3>2. Entry(K(i)) = [bits |-> bits + 1, baseline |-> Base(K(i)), last |-> Base(K(i)) + 2^(bits + 1) - 1, index |-> own[K(i)]]
      <4> HIDE DEF Base, K
      <4> QED
        BY <3>1
    <3>3. (i - 1 - single) * (2 * width) + 2 * width = (i - single) * (2 * width) /\ (i - 1 - single) * (2 * width) \in Int
          /\ single * width \in Int /\ 2 * width \in Int /\ (i - single) * (2 * width) \in Int
      BY <1>2
    <3>4. /\ Base(K(i)) + 2^(bits + 1) - 1 = single * width + (i - single) * (2 * width) - 1
          /\ Base(K(i)) = single * width + (i - 1 - single) * (2 * width)
      <4> DEFINE x == (i - 1 - single) * (2 * width)
                 y == (i - single) * (2 * width)
                 z == single * width
                 u == 2 * width
      <4>1. x + u = y /\ x \in Int /\ y \in Int /\ z \in Int /\ u \in Int
        BY <3>3
      <4>2. Base(K(i)) = z + x /\ 2^(bits + 1) = u
        <5> HIDE DEF Base, K
        <5> QED
          BY <1>4, <2>1, <3>1
      <4> HIDE DEF Base, K, t, x, y, z, u
      <4>3. Base(K(i)) + 2^(bits + 1) - 1 = z + y - 1
        BY <4>1, <4>2
      <4> QED
        BY <4>2, <4>3 DEF x, y, z
    <3> HIDE DEF Base, K, t, Entry
    <3> QED
      BY <1>4, <2>3, <3>1, <3>2, <3>4 DEF StateAt
  <2> QED
    BY <2>2, <2>3
<1> HIDE DEF Entry, K, Base, targets
<1>18. \A i \in 1..p : Entry(CHOOSE k \in 1..p : Base(k) = targets[i]) = StateAt(log, c, double, single, width, own, i)
  BY <1>16, <1>17
<1> QED
  BY <1>1, <1>18

-----------------------------------------------------------------------------
(* The decoder's table is the encoder's                                    *)

\* The share the decoder gives the n-th state of a symbol.
LEMMA BaselineIs ==
    ASSUME NEW log \in 0..15, NEW p \in Nat, p >= 1, p <= Pow(log),
           NEW c, NEW double, NEW single, NEW width, Shape(p, log, c, double, single, width), NEW n \in Nat
    PROVE  BaselineAndNumBits(Pow(log), p, n) =
             IF n < double THEN [base |-> single * width + n * width * 2, bits |-> log - c + 1]
             ELSE [base |-> (n - double) * width, bits |-> log - c]
<1> DEFINE slices == IF 2^Log2(p) = p THEN p ELSE 2^(Log2(p) + 1)
           dbl == slices - p
           sgl == p - dbl
           wid == Pow(log) \div slices
<1>1. BaselineAndNumBits(Pow(log), p, n) =
        IF n < dbl THEN [base |-> sgl * wid + n * wid * 2, bits |-> Log2(wid) + 1]
        ELSE [base |-> (n - dbl) * wid, bits |-> Log2(wid)]
  BY Zenon DEF BaselineAndNumBits
<1>2. /\ c \in 0..log /\ double \in Nat /\ single \in Nat /\ p = double + single
      /\ Pow(c) = p + double /\ width = Pow(log - c) /\ width \in Nat /\ width >= 1
  BY DEF Shape
<1>3. slices = Pow(c)
  BY Zenon DEF Shape, Pow
<1> HIDE DEF slices
<1>4. dbl = double
  BY <1>2, <1>3
<1> HIDE DEF dbl
<1>5. sgl = single
  BY <1>2, <1>4
<1>6. c \in 0..31 /\ log - c \in 0..31 /\ c + (log - c) = log /\ log - c \in 0..29 /\ log - c \in 0..30
  BY <1>2
<1>7. wid = width
  <2>1. Pow(c + (log - c)) = Pow(c) * Pow(log - c)
    BY <1>6, PowSum
  <2>2. Pow(log) = width * Pow(c) + 0
    BY <1>2, <1>6, <2>1, Powers
  <2>3. Pow(c) \in Nat \ {0}
    BY <1>6, Powers
  <2>4. (width * Pow(c) + 0) \div Pow(c) = width
    BY <1>2, <2>3, QuotientIs
  <2> QED
    BY <1>3, <2>2, <2>4
<1>8. Log2(width) = log - c
  <2>1. log - c < 30 /\ 30 \in 0..31
    BY <1>6
  <2>2. 2 * Pow(log - c) <= Pow(30)
    BY <1>6, <2>1, PowLess
  <2>3. Pow(30) \in Nat
    BY <2>1, Powers
  <2>4. width < Pow(30)
    BY <1>2, <2>2, <2>3
  <2>5. Pow((log - c) + 1) = 2 * Pow(log - c)
    BY <1>6, Powers
  <2>6. Pow(log - c) <= width /\ width < Pow((log - c) + 1)
    BY <1>2, <2>5
  <2> QED
    BY <1>2, <1>6, <2>4, <2>6, Log2Is
<1> HIDE DEF sgl, wid
<1> QED
  BY <1>1, <1>4, <1>5, <1>7, <1>8

\* The places of the symbols that share no state.
LEMMA RareAre ==
    ASSUME NEW probs, NEW log, SoundProbs(probs, log)
    PROVE  \E n \in Nat : \E b \in [1..n -> Negative(probs)] :
              /\ InOrder(b, n) /\ Negative(probs) = Firsts(b, n) /\ Ranked(Negative(probs), b, n)
              /\ b \in Seq(Nat) /\ Len(b) = n /\ FreeOf(probs) = Pow(log) - n /\ FreeOf(probs) \in Nat
<1>1. DOMAIN probs = 1..Len(probs) /\ Len(probs) \in Nat
  BY SharesAre
<1>2. Negative(probs) \in SUBSET Nat /\ \A x \in Negative(probs) : x < Len(probs) + 1
  BY <1>1 DEF Negative
<1>3. Len(probs) + 1 \in Nat
  BY <1>1
<1> HIDE DEF Negative
<1>4. PICK n \in Nat : \E b \in [1..n -> Negative(probs)] :
         InOrder(b, n) /\ Negative(probs) = Firsts(b, n) /\ Ranked(Negative(probs), b, n)
  BY <1>2, <1>3, InRank, Zenon
<1>5. PICK b \in [1..n -> Negative(probs)] :
         InOrder(b, n) /\ Negative(probs) = Firsts(b, n) /\ Ranked(Negative(probs), b, n)
  BY <1>4
<1>6. b \in [1..n -> Nat]
  BY <1>2, <1>5
<1>7. b \in Seq(Nat) /\ Len(b) = n
  BY <1>4, <1>6, OfLength
<1>8. Cardinality(Negative(probs)) = n
  BY <1>5, Zenon DEF Ranked
<1>9. FreeOf(probs) = Pow(log) - n /\ FreeOf(probs) \in Nat
  BY <1>8, FreeIs DEF FreeOf
<1> QED
  BY <1>4, <1>5, <1>7, <1>9

\* What the decoder has at a state.
EntryDecoded(probs, log, i) ==
    LET slots == Slots(probs, log)
        Owner == CHOOSE s \in DOMAIN probs : i \in Owned(probs, slots, s)
        Spread(s) == BaselineAndNumBits(Pow(log), probs[s], Cardinality({j \in Owned(probs, slots, s) : j < i}))
    IN  [symbol |-> Owner - 1, base |-> Spread(Owner).base, bits |-> Spread(Owner).bits]

LEMMA DecodingTableIs ==
    ASSUME NEW probs, NEW log, SoundProbs(probs, log), NEW n \in Nat, NEW b, Ranked(Negative(probs), b, n), Len(b) = n
    PROVE  \A i \in 0..(Pow(log) - 1) :
              DecodingTable(probs, log)[i] =
                IF i >= Pow(log) - n THEN [symbol |-> b[Pow(log) - i] - 1, base |-> 0, bits |-> log]
                ELSE EntryDecoded(probs, log, i)
<1> DEFINE size == 2^log
           top == Ascending(Negative(probs))
           free == size - Len(top)
           slots == Slots(probs, log)
           Owner(i) == CHOOSE s \in DOMAIN probs : i \in Owned(probs, slots, s)
           Spread(i, s) == BaselineAndNumBits(size, probs[s], Cardinality({j \in Owned(probs, slots, s) : j < i}))
           Row1(i) == IF i >= free THEN [symbol |-> top[size - i] - 1, base |-> 0, bits |-> log]
                     ELSE LET s == Owner(i)
                          IN  [symbol |-> s - 1, base |-> Spread(i, s).base, bits |-> Spread(i, s).bits]
<1>1. DecodingTable(probs, log) = [i \in 0..(size - 1) |-> Row1(i)]
  BY Zenon DEF DecodingTable
<1>2. top = b /\ Len(top) = n
  BY Zenon DEF Ranked
<1>3. size = Pow(log)
  BY DEF Pow
<1>4. ASSUME NEW i PROVE [symbol |-> Owner(i) - 1, base |-> Spread(i, Owner(i)).base, bits |-> Spread(i, Owner(i)).bits]
                        = EntryDecoded(probs, log, i)
  BY <1>3, Zenon DEF EntryDecoded
<1>5. ASSUME NEW i PROVE Row1(i) = IF i >= Pow(log) - n THEN [symbol |-> b[Pow(log) - i] - 1, base |-> 0, bits |-> log]
                                   ELSE EntryDecoded(probs, log, i)
  BY <1>2, <1>3, <1>4, Zenon
<1> HIDE DEF Row1, size
<1> QED
  BY <1>1, <1>3, <1>5, Zenon

LEMMA SharedIsDecoded ==
    ASSUME NEW probs, NEW log, SoundProbs(probs, log), NEW s \in 1..Len(probs), probs[s] > 0,
           NEW b, OwnedInOrder(Owned(probs, Slots(probs, log), s), b, probs[s], FreeOf(probs)),
           SlotsSound(Slots(probs, log), FreeOf(probs)), NEW k \in 1..probs[s]
    PROVE  DecodingTable(probs, log)[b[k]] =
              [symbol |-> s - 1, base |-> BaselineAndNumBits(Pow(log), probs[s], k - 1).base,
               bits |-> BaselineAndNumBits(Pow(log), probs[s], k - 1).bits]
<1> DEFINE slots == Slots(probs, log)
           own == Owned(probs, slots, s)
           i == b[k]
           free == FreeOf(probs)
<1>1. b \in [1..probs[s] -> 0..(free - 1)] /\ own = Firsts(b, probs[s]) /\ Ranked(own, b, probs[s])
  BY Zenon DEF OwnedInOrder
<1>2. i \in 0..(free - 1) /\ i \in own
  BY <1>1 DEF Firsts
<1>3. Cardinality({j \in own : j < i}) = k - 1
  BY <1>1, Zenon DEF Ranked
<1>4. DOMAIN probs = 1..Len(probs)
  BY SharesAre
<1>5. (CHOOSE t \in DOMAIN probs : i \in Owned(probs, slots, t)) = s
  <2>1. \A t \in DOMAIN probs : i \in Owned(probs, slots, t) => t = s
    <3> SUFFICES ASSUME NEW t \in 1..Len(probs), i \in Owned(probs, slots, t) PROVE t = s
      BY <1>4, Zenon
    <3> HIDE DEF slots, i
    <3>1. SlotsSound(slots, FreeOf(probs))
      BY DEF slots
    <3> QED
      BY <1>2, <3>1, OwnersApart, Zenon
  <2> HIDE DEF slots, i
  <2> QED
    BY <1>2, <1>4, <2>1
<1>6. EntryDecoded(probs, log, i) =
         [symbol |-> s - 1, base |-> BaselineAndNumBits(Pow(log), probs[s], k - 1).base,
          bits |-> BaselineAndNumBits(Pow(log), probs[s], k - 1).bits]
  BY <1>3, <1>5, Zenon DEF EntryDecoded
<1>7. PICK n \in Nat : \E d \in [1..n -> Negative(probs)] :
         Ranked(Negative(probs), d, n) /\ Len(d) = n /\ free = Pow(log) - n /\ free \in Nat
  BY RareAre, Zenon
<1>8. PICK d \in [1..n -> Negative(probs)] :
         Ranked(Negative(probs), d, n) /\ Len(d) = n /\ free = Pow(log) - n /\ free \in Nat
  BY <1>7
<1>9. Pow(log) \in Nat
  BY SharesAre
<1> HIDE DEF i, free
<1>10. i \in 0..(Pow(log) - 1) /\ ~(i >= Pow(log) - n)
  BY <1>2, <1>8, <1>9
<1>11. DecodingTable(probs, log)[i] = EntryDecoded(probs, log, i)
  BY <1>8, <1>10, DecodingTableIs, Zenon
<1> QED
  BY <1>6, <1>11 DEF i

LEMMA RareIsDecoded ==
    ASSUME NEW probs, NEW log, SoundProbs(probs, log), NEW s \in 1..Len(probs), probs[s] = -1,
           NEW index, index = 2^log - Cardinality({t \in Negative(probs) : t <= s})
    PROVE  /\ index \in 0..(Pow(log) - 1)
           /\ DecodingTable(probs, log)[index] = [symbol |-> s - 1, base |-> 0, bits |-> log]
<1>1. PICK n \in Nat : \E d \in [1..n -> Negative(probs)] :
         Negative(probs) = Firsts(d, n)
           /\ Ranked(Negative(probs), d, n) /\ Len(d) = n /\ FreeOf(probs) = Pow(log) - n /\ FreeOf(probs) \in Nat
  BY RareAre, Zenon
<1>2. PICK d \in [1..n -> Negative(probs)] :
         Negative(probs) = Firsts(d, n)
           /\ Ranked(Negative(probs), d, n) /\ Len(d) = n /\ FreeOf(probs) = Pow(log) - n /\ FreeOf(probs) \in Nat
  BY <1>1
<1>3. Pow(log) \in Nat /\ DOMAIN probs = 1..Len(probs)
  BY SharesAre
<1>4. s \in Negative(probs)
  BY <1>3 DEF Negative
<1>5. PICK k \in 1..n : d[k] = s
  BY <1>2, <1>4 DEF Firsts
<1>6. Cardinality({t \in Negative(probs) : t <= s}) = k
  BY <1>2, <1>5, Zenon DEF Ranked
<1>7. index = Pow(log) - k
  BY <1>6 DEF Pow
<1>8. index \in 0..(Pow(log) - 1) /\ index >= Pow(log) - n /\ Pow(log) - index = k
  BY <1>1, <1>2, <1>3, <1>7
<1>9. DecodingTable(probs, log)[index] = [symbol |-> d[Pow(log) - index] - 1, base |-> 0, bits |-> log]
  BY <1>2, <1>8, DecodingTableIs, Zenon
<1> QED
  BY <1>5, <1>8, <1>9

-----------------------------------------------------------------------------
(* The encoder's table                                                     *)

LEMMA TableIs ==
    ASSUME NEW probs, NEW log, SoundProbs(probs, log)
    PROVE  /\ EncodingTable(probs, log).log = log /\ EncodingTable(probs, log).probs = probs
           /\ \A s \in 1..Len(probs) :
                 EncodingTable(probs, log).states[s] =
                   CASE probs[s] > 0  -> StatesOf(probs, log, Slots(probs, log), s)
                     [] probs[s] = 0  -> <<>>
                     [] probs[s] = -1 -> RareState(probs, log, s)
<1> DEFINE St(s) == CASE probs[s] > 0  -> StatesOf(probs, log, Slots(probs, log), s)
                     [] probs[s] = 0  -> <<>>
                     [] probs[s] = -1 -> RareState(probs, log, s)
<1>1. EncodingTable(probs, log) = [log |-> log, probs |-> probs, states |-> [s \in DOMAIN probs |-> St(s)]]
  BY Zenon DEF EncodingTable
<1>2. DOMAIN probs = 1..Len(probs)
  BY SharesAre
<1> HIDE DEF St
<1>3. /\ EncodingTable(probs, log).log = log /\ EncodingTable(probs, log).probs = probs
      /\ EncodingTable(probs, log).states = [s \in DOMAIN probs |-> St(s)]
  BY <1>1
<1>4. \A s \in 1..Len(probs) : EncodingTable(probs, log).states[s] = St(s)
  BY <1>2, <1>3
<1> QED
  BY <1>3, <1>4 DEF St

\* The states of a symbol that shares states with no other.
Listed(list, probs, log, s, c, double, single, width, b) ==
    /\ Shape(probs[s], log, c, double, single, width)
    /\ OwnedInOrder(Owned(probs, Slots(probs, log), s), b, probs[s], FreeOf(probs))
    /\ list = [i \in 1..probs[s] |-> StateAt(log, c, double, single, width, b, i)]

LEMMA SlotsOf ==
    ASSUME NEW probs, NEW log, SoundProbs(probs, log)
    PROVE  SlotsSound(Slots(probs, log), FreeOf(probs)) /\ FreeOf(probs) \in Nat /\ FreeOf(probs) <= Pow(log)
<1>1. log \in 5..9
  BY DEF SoundProbs
<1>2. /\ Cardinality(Negative(probs)) \in Nat /\ FreeOf(probs) = Pow(log) - Cardinality(Negative(probs))
      /\ FreeOf(probs) \in Nat
  BY FreeIs DEF FreeOf
<1>3. FreeOf(probs) <= Pow(log)
  <2>1. Pow(log) \in Nat
    BY SharesAre
  <2> QED
    BY <1>2, <2>1
<1> QED
  BY <1>1, <1>2, <1>3, SlotsAre, Zenon

LEMMA ListedIs ==
    ASSUME NEW probs, NEW log, SoundProbs(probs, log), NEW s \in 1..Len(probs), probs[s] > 0
    PROVE  /\ probs[s] \in Nat /\ probs[s] >= 1 /\ probs[s] <= Pow(log)
           /\ \E c, double, single, width, b :
                 Listed(EncodingTable(probs, log).states[s], probs, log, s, c, double, single, width, b)
<1> DEFINE p == probs[s]
<1>1. p \in Int /\ Pow(log) \in Nat
  BY SharesAre
<1>2. p \in Nat /\ p >= 1
  BY <1>1
<1>3. p <= Pow(log)
  <2>1. Before(probs, s) \in Nat /\ Before(probs, s) + p <= FreeOf(probs)
    BY PlacesAre
  <2>2. FreeOf(probs) \in Nat /\ FreeOf(probs) <= Pow(log)
    BY SlotsOf
  <2> QED
    BY <1>1, <1>2, <2>1, <2>2
<1>4. log \in 5..9 /\ log \in 0..15
  BY DEF SoundProbs
<1> DEFINE c == Log2(p) + (IF Pow(Log2(p)) = p THEN 0 ELSE 1)
           double == Pow(c) - p
           single == 2 * p - Pow(c)
           width == Pow(log - c)
<1>5. p = probs[s]
  OBVIOUS
<1> HIDE DEF p
<1>6. Shape(p, log, c, double, single, width)
  BY <1>2, <1>3, <1>4, ShapeIs, Zenon
<1> HIDE DEF c, double, single, width
<1>7. SlotsSound(Slots(probs, log), FreeOf(probs))
  BY SlotsOf, Zenon
<1>8. PICK b : OwnedInOrder(Owned(probs, Slots(probs, log), s), b, probs[s], FreeOf(probs))
  BY <1>7, OwnedIs, Zenon
<1>9. Ascending(Owned(probs, Slots(probs, log), s)) = b
  BY <1>8, Zenon DEF OwnedInOrder, Ranked
<1>10. StatesOf(probs, log, Slots(probs, log), s) = [i \in 1..p |-> StateAt(log, c, double, single, width, b, i)]
  BY <1>2, <1>3, <1>4, <1>5, <1>6, <1>9, StatesOfIs
<1>11. EncodingTable(probs, log).states[s] = StatesOf(probs, log, Slots(probs, log), s)
  <2>1. EncodingTable(probs, log).states[s] =
                   CASE probs[s] > 0  -> StatesOf(probs, log, Slots(probs, log), s)
                     [] probs[s] = 0  -> <<>>
                     [] probs[s] = -1 -> RareState(probs, log, s)
    BY TableIs
  <2>2. ~(probs[s] = 0) /\ ~(probs[s] = -1)
    BY <1>2, <1>5
  <2> QED
    BY <2>1, <2>2, Zenon
<1>12. Listed(EncodingTable(probs, log).states[s], probs, log, s, c, double, single, width, b)
  BY <1>5, <1>6, <1>8, <1>10, <1>11, Zenon DEF Listed
<1> QED
  BY <1>2, <1>3, <1>5, <1>12, Zenon

LEMMA RareListed ==
    ASSUME NEW probs, NEW log, SoundProbs(probs, log), NEW s \in 1..Len(probs), probs[s] = -1
    PROVE  EncodingTable(probs, log).states[s] = RareState(probs, log, s)
<1>1. EncodingTable(probs, log).states[s] =
                   CASE probs[s] > 0  -> StatesOf(probs, log, Slots(probs, log), s)
                     [] probs[s] = 0  -> <<>>
                     [] probs[s] = -1 -> RareState(probs, log, s)
  BY TableIs
<1>2. ~(probs[s] = 0) /\ ~(probs[s] > 0)
  OBVIOUS
<1> QED
  BY <1>1, <1>2, Zenon

\* A state of the encoder is a state of the decoder.
Fits(st, p, log, b, free) ==
    /\ st \in [bits : 0..9, baseline : Nat, last : Nat, index : 0..(free - 1)]
    /\ \E k \in 1..p : /\ st.index = b[k]
                       /\ BaselineAndNumBits(Pow(log), p, k - 1) = [base |-> st.baseline, bits |-> st.bits]

LEMMA StateAtIs ==
    ASSUME NEW log \in 5..9, NEW p \in Nat, p >= 1, p <= Pow(log),
           NEW c, NEW double, NEW single, NEW width, Shape(p, log, c, double, single, width),
           NEW b, NEW free \in Nat, b \in [1..p -> 0..(free - 1)], NEW i \in 1..p
    PROVE  Fits(StateAt(log, c, double, single, width, b, i), p, log, b, free)
<1> DEFINE st == StateAt(log, c, double, single, width, b, i)
<1>1. /\ c \in 0..log /\ double \in Nat /\ single \in Nat /\ p = double + single
      /\ width \in Nat /\ width >= 1 /\ (double # 0 => c # 0)
  <2>1. /\ c \in 0..log /\ double \in Nat /\ single \in Nat /\ p = double + single
        /\ width \in Nat /\ width >= 1 /\ Pow(c) = p + double
    BY DEF Shape
  <2>2. c = 0 => Pow(c) = 1
    BY Powers
  <2> QED
    BY <2>1, <2>2
<1>2. log \in 0..15
  OBVIOUS
<1>3. CASE i <= single
  <2> DEFINE x == (i - 1) * width
  <2>1. st = [bits |-> log - c, baseline |-> x, last |-> i * width - 1, index |-> b[double + i]]
    BY <1>3, Zenon DEF StateAt
  <2>2. i * width = x + width /\ x \in Nat
    <3>1. i - 1 \in Nat /\ width \in Int /\ i - 1 \in Int /\ 1 \in Int /\ (i - 1) + 1 = i /\ 1 * width = width /\ width \in Nat
      BY <1>1
    <3> QED
      BY <3>1, Distributes, Products
  <2>3. double + i \in 1..p /\ (double + i) - 1 - double = i - 1 /\ ~((double + i) - 1 < double) /\ (double + i) - 1 \in Nat
    BY <1>1, <1>3
  <2>4. b[double + i] \in 0..(free - 1)
    BY <2>3
  <2>5. BaselineAndNumBits(Pow(log), p, (double + i) - 1) = [base |-> x, bits |-> log - c]
    BY <1>2, <2>3, BaselineIs, SMTT(40)
  <2> DEFINE y == i * width
             z == b[double + i]
  <2> HIDE DEF x, y
  <2>6. log - c \in 0..9 /\ y - 1 \in Nat /\ x \in Nat
    BY <1>1, <2>2 DEF y
  <2>7. st \in [bits : 0..9, baseline : Nat, last : Nat, index : 0..(free - 1)] /\ st.index = b[double + i]
        /\ st.baseline = x /\ st.bits = log - c
    BY <2>1, <2>4, <2>6 DEF y
  <2> HIDE DEF st
  <2>8. BaselineAndNumBits(Pow(log), p, (double + i) - 1) = [base |-> st.baseline, bits |-> st.bits]
    BY <2>5, <2>7
  <2>9. \E k \in 1..p : st.index = b[k] /\ BaselineAndNumBits(Pow(log), p, k - 1) = [base |-> st.baseline, bits |-> st.bits]
    BY <2>3, <2>7, <2>8
  <2> QED
    BY <2>7, <2>9 DEF st, Fits
<1>4. CASE ~(i <= single)
  <2> DEFINE x == (i - 1 - single) * (2 * width)
             v == single * width
  <2>1. st = [bits |-> log - c + 1, baseline |-> v + x,
              last |-> v + (i - single) * (2 * width) - 1, index |-> b[i - single]]
    BY <1>4, Zenon DEF StateAt
  <2>2. (i - single) * (2 * width) = x + 2 * width /\ x \in Nat /\ v \in Nat
    <3>1. i - 1 - single \in Nat /\ 2 * width \in Int /\ i - 1 - single \in Int /\ 1 \in Int
          /\ (i - 1 - single) + 1 = i - single /\ 1 * (2 * width) = 2 * width /\ width \in Nat /\ 2 * width \in Nat
      BY <1>1, <1>4
    <3> QED
      BY <1>1, <3>1, Distributes, Products
  <2>3. i - single \in 1..p /\ (i - single) - 1 < double /\ (i - single) - 1 \in Nat /\ (i - single) - 1 = i - 1 - single
    BY <1>1, <1>4
  <2>4. b[i - single] \in 0..(free - 1)
    BY <2>3
  <2>5. BaselineAndNumBits(Pow(log), p, (i - single) - 1)
          = [base |-> v + ((i - single) - 1) * width * 2, bits |-> log - c + 1]
    BY <1>2, <2>3, BaselineIs, SMTT(40)
  <2>6. ((i - single) - 1) * width * 2 = x
    <3> DEFINE m == i - 1 - single
    <3>1. m \in Int /\ width \in Int
      BY <1>1, <1>4
    <3> HIDE DEF m
    <3>2. m * width * 2 = m * (2 * width)
      BY <3>1
    <3> QED
      BY <2>3, <3>2 DEF m
  <2> DEFINE y == (i - single) * (2 * width)
  <2> HIDE DEF x, y, v
  <2>7. log - c + 1 \in 0..9 /\ v + y - 1 \in Nat /\ v + x \in Nat
    BY <1>1, <1>4, <2>2 DEF y
  <2>8. st \in [bits : 0..9, baseline : Nat, last : Nat, index : 0..(free - 1)] /\ st.index = b[i - single]
        /\ st.baseline = v + x /\ st.bits = log - c + 1
    BY <2>1, <2>4, <2>7 DEF y
  <2> HIDE DEF st
  <2>9. BaselineAndNumBits(Pow(log), p, (i - single) - 1) = [base |-> st.baseline, bits |-> st.bits]
    BY <2>5, <2>6, <2>8
  <2>10. \E k \in 1..p : st.index = b[k] /\ BaselineAndNumBits(Pow(log), p, k - 1) = [base |-> st.baseline, bits |-> st.bits]
    BY <2>3, <2>8, <2>9
  <2> QED
    BY <2>8, <2>10 DEF st, Fits
<1> QED
  BY <1>3, <1>4

\* What a table is good for is said of any table of sound probabilities.
LEMMA StatesAreSame ==
    ASSUME NEW probs, NEW log, SoundProbs(probs, log)
    PROVE  SameStates(EncodingTable(probs, log), DecodingTable(probs, log))
<1> DEFINE table == EncodingTable(probs, log)
<1>1. table.probs = probs /\ DOMAIN probs = 1..Len(probs)
  BY TableIs, SharesAre
<1> HIDE DEF table
<1> SUFFICES ASSUME NEW s \in 1..Len(probs), NEW k \in DOMAIN table.states[s]
             PROVE  DecodingTable(probs, log)[table.states[s][k].index] =
                      [symbol |-> s - 1, base |-> table.states[s][k].baseline, bits |-> table.states[s][k].bits]
  BY <1>1, Zenon DEF SameStates, table
<1>2. CASE probs[s] > 0
  <2> DEFINE p == probs[s]
             free == FreeOf(probs)
  <2>1. p \in Nat /\ p >= 1 /\ p <= Pow(log)
    BY <1>2, ListedIs
  <2>2. PICK c, double, single, width, b : Listed(table.states[s], probs, log, s, c, double, single, width, b)
    BY <1>2, ListedIs, Zenon DEF table
  <2>3. /\ Shape(p, log, c, double, single, width)
        /\ OwnedInOrder(Owned(probs, Slots(probs, log), s), b, p, free)
        /\ table.states[s] = [i \in 1..p |-> StateAt(log, c, double, single, width, b, i)]
    BY <2>2, Zenon DEF Listed
  <2>4. k \in 1..p /\ table.states[s][k] = StateAt(log, c, double, single, width, b, k)
    BY <2>3
  <2>5. b \in [1..p -> 0..(free - 1)] /\ free \in Nat
    BY <2>3, SlotsOf DEF OwnedInOrder
  <2>6. log \in 5..9
    BY DEF SoundProbs
  <2> DEFINE st == StateAt(log, c, double, single, width, b, k)
  <2>7. PICK j \in 1..p : st.index = b[j] /\ BaselineAndNumBits(Pow(log), p, j - 1) = [base |-> st.baseline, bits |-> st.bits]
    <3>1. Shape(p, log, c, double, single, width) /\ k \in 1..p
      BY <2>3, <2>4
    <3> HIDE DEF p, free
    <3> QED
      <4>1. Fits(StateAt(log, c, double, single, width, b, k), p, log, b, free)
        BY <2>1, <2>5, <2>6, <3>1, StateAtIs, Zenon
      <4> QED
        BY <4>1, Zenon DEF Fits
  <2>8. SlotsSound(Slots(probs, log), free)
    BY SlotsOf
  <2>9. DecodingTable(probs, log)[b[j]] =
              [symbol |-> s - 1, base |-> BaselineAndNumBits(Pow(log), p, j - 1).base,
               bits |-> BaselineAndNumBits(Pow(log), p, j - 1).bits]
    BY <1>2, <2>3, <2>7, <2>8, SharedIsDecoded
  <2> HIDE DEF st, p, free
  <2>10. /\ BaselineAndNumBits(Pow(log), p, j - 1).base = st.baseline
         /\ BaselineAndNumBits(Pow(log), p, j - 1).bits = st.bits
    BY <2>7
  <2>11. DecodingTable(probs, log)[st.index] = [symbol |-> s - 1, base |-> st.baseline, bits |-> st.bits]
    BY <2>7, <2>9, <2>10
  <2>12. table.states[s][k] = st
    BY <2>4 DEF st
  <2> QED
    BY <2>11, <2>12
<1>3. CASE probs[s] = -1
  <2> DEFINE index == 2^log - Cardinality({t \in Negative(probs) : t <= s})
             st == [bits |-> log, baseline |-> 0, last |-> 2^log - 1, index |-> index]
  <2>1. table.states[s] = <<st>>
    BY <1>3, RareListed, Zenon DEF RareState, table
  <2>i. index = 2^log - Cardinality({t \in Negative(probs) : t <= s})
    OBVIOUS
  <2> HIDE DEF index
  <2>2. DecodingTable(probs, log)[index] = [symbol |-> s - 1, base |-> 0, bits |-> log]
    BY <1>3, <2>i, RareIsDecoded
  <2>3. st.index = index /\ st.baseline = 0 /\ st.bits = log
    OBVIOUS
  <2> HIDE DEF st
  <2>4. k = 1 /\ table.states[s][1] = st
    BY <2>1
  <2> QED
    BY <2>2, <2>3, <2>4
<1>4. CASE probs[s] = 0
  <2>1. table.states[s] = <<>>
    <3>1. table.states[s] =
                   CASE probs[s] > 0  -> StatesOf(probs, log, Slots(probs, log), s)
                     [] probs[s] = 0  -> <<>>
                     [] probs[s] = -1 -> RareState(probs, log, s)
      BY TableIs, ZenonT(60) DEF table
    <3>2. ~(probs[s] = -1) /\ ~(probs[s] > 0)
      BY <1>4
    <3> QED
      BY <1>4, <3>1, <3>2, Zenon
  <2> QED
    BY <2>1
<1>5. probs[s] \in Int /\ probs[s] >= -1
  BY SharesAre
<1> QED
  BY <1>2, <1>3, <1>4, <1>5

-----------------------------------------------------------------------------
(* From every state of the encoder there is a way to every symbol          *)

LEMMA ProductsGrow == \A a, b, d \in Nat : a <= b => a * d <= b * d
<1> SUFFICES ASSUME NEW a \in Nat, NEW b \in Nat, NEW d \in Nat, a <= b PROVE a * d <= b * d
  OBVIOUS
<1>1. b - a \in Nat /\ b = a + (b - a)
  OBVIOUS
<1>2. b * d = a * d + (b - a) * d /\ a * d \in Int
  BY <1>1, Distributes
<1>3. (b - a) * d \in Nat
  BY <1>1, Products
<1> QED
  BY <1>2, <1>3

LEMMA ProductsSwap == \A a, b \in Int : a * b = b * a
  OBVIOUS

\* A quotient is below what times the divisor is above.
LEMMA QuotientBelow ==
    ASSUME NEW v \in Nat, NEW d \in Nat \ {0}, NEW i \in Nat, v < i * d
    PROVE  v \div d < i /\ v \div d \in Nat
<1> DEFINE q == v \div d
<1>1. q \in Nat /\ v = q * d + (v % d) /\ v % d \in Nat
  BY Quotient
<1> HIDE DEF q
<1>2. i <= q => i * d <= q * d
  BY <1>1, ProductsGrow
<1>3. q * d \in Nat /\ i * d \in Nat
  BY <1>1, Products
<1>4. q < i
  BY <1>1, <1>2, <1>3
<1> QED
  BY <1>1, <1>4 DEF q

\* What a state targets are as many numbers as its bits can tell apart.
LEMMA SpanIs ==
    ASSUME NEW log \in 5..9, NEW p \in Nat, p >= 1, p <= Pow(log),
           NEW c, NEW double, NEW single, NEW width, Shape(p, log, c, double, single, width),
           NEW b, NEW i \in 1..p
    PROVE  LET st == StateAt(log, c, double, single, width, b, i)
           IN  /\ st.last = st.baseline + Pow(st.bits) - 1
               /\ st.baseline = IF i <= single THEN (i - 1) * width
                                ELSE single * width + (i - 1 - single) * (2 * width)
               /\ st.last = IF i <= single THEN i * width - 1
                            ELSE single * width + (i - single) * (2 * width) - 1
<1> DEFINE st == StateAt(log, c, double, single, width, b, i)
<1>1. /\ c \in 0..log /\ double \in Nat /\ single \in Nat /\ p = double + single
      /\ width \in Nat /\ width >= 1 /\ width = Pow(log - c)
  BY DEF Shape
<1>2. Pow(log - c + 1) = 2 * width
  <2>1. log - c \in 0..30
    BY <1>1
  <2> QED
    BY <1>1, <2>1, Powers
<1>3. CASE i <= single
  <2> DEFINE x == (i - 1) * width
             y == i * width
  <2>1. st = [bits |-> log - c, baseline |-> x, last |-> y - 1, index |-> b[double + i]]
    BY <1>3, Zenon DEF StateAt
  <2>2. y = x + width /\ x \in Int
    <3>1. i - 1 \in Int /\ 1 \in Int /\ (i - 1) + 1 = i /\ 1 * width = width /\ width \in Int
      BY <1>1
    <3> QED
      BY <3>1, Distributes
  <2> HIDE DEF x, y
  <2>3. st.last = y - 1 /\ st.baseline = x /\ st.bits = log - c
    BY <2>1
  <2> HIDE DEF st
  <2>4. st.last = st.baseline + Pow(st.bits) - 1
    BY <1>1, <2>2, <2>3
  <2> QED
    BY <1>3, <2>3, <2>4 DEF st, x, y
<1>4. CASE ~(i <= single)
  <2> DEFINE x == (i - 1 - single) * (2 * width)
             v == single * width
             y == (i - single) * (2 * width)
  <2>1. st = [bits |-> log - c + 1, baseline |-> v + x, last |-> v + y - 1, index |-> b[i - single]]
    BY <1>4, Zenon DEF StateAt
  <2>2. y = x + 2 * width /\ x \in Int /\ v \in Int
    <3>1. 2 * width \in Int /\ i - 1 - single \in Int /\ 1 \in Int /\ single \in Int /\ width \in Int
          /\ (i - 1 - single) + 1 = i - single /\ 1 * (2 * width) = 2 * width
      BY <1>1
    <3> QED
      BY <3>1, Distributes
  <2> HIDE DEF x, y, v
  <2>3. st.last = v + y - 1 /\ st.baseline = v + x /\ st.bits = log - c + 1
    BY <2>1
  <2> HIDE DEF st
  <2>4. st.last = st.baseline + Pow(st.bits) - 1
    BY <1>1, <1>2, <2>2, <2>3
  <2> QED
    BY <1>4, <2>3, <2>4 DEF st, x, y, v
<1> QED
  BY <1>3, <1>4

\* Where the search starts is never behind the state it looks for.
Reaches(log, c, double, single, width, b, p, idx, i) ==
    /\ StateAt(log, c, double, single, width, b, i).baseline <= idx
    /\ idx <= StateAt(log, c, double, single, width, b, i).last
    /\ (idx * p) \div Pow(log) \in Nat /\ (idx * p) \div Pow(log) + 1 <= i

LEMMA Reached ==
    ASSUME NEW log \in 5..9, NEW p \in Nat, p >= 1, p <= Pow(log),
           NEW c, NEW double, NEW single, NEW width, Shape(p, log, c, double, single, width),
           NEW b, NEW idx \in 0..(Pow(log) - 1)
    PROVE  \E i \in 1..p : Reaches(log, c, double, single, width, b, p, idx, i)
<1> DEFINE P == single + 2 * double
<1>1. /\ double \in Nat /\ single \in Nat /\ single >= 1 /\ p = double + single
      /\ width \in Nat /\ width >= 1
  BY DEF Shape
<1>2. P * width = Pow(log) /\ P \in Nat /\ p <= P
  BY <1>1 DEF Shape
<1>3. Pow(log) \in Nat \ {0}
  BY Powers
<1>4. idx \in Nat /\ idx * p \in Nat
  BY <1>3, Products
<1> DEFINE v == single * width
<1>5. v \in Nat
  BY <1>1, Products
<1>6. CASE idx < v
  <2> DEFINE q == idx \div width
             x == q * width
  <2>1. q \in Nat /\ idx = x + (idx % width) /\ idx % width \in Nat /\ idx % width < width
    BY <1>1, <1>4, Quotient
  <2>2. q < single
    BY <1>1, <1>4, <1>6, QuotientBelow
  <2> HIDE DEF q
  <2> DEFINE i == q + 1
             y == i * width
  <2>3. y = x + width /\ x \in Nat
    <3>1. q \in Int /\ 1 \in Int /\ width \in Int /\ 1 * width = width
      BY <1>1, <2>1
    <3> QED
      BY <1>1, <2>1, <3>1, Distributes, Products
  <2>4. i \in 1..p /\ i <= single /\ i - 1 = q /\ i \in Nat
    BY <1>1, <2>1, <2>2
  <2>5. /\ StateAt(log, c, double, single, width, b, i).baseline = x
        /\ StateAt(log, c, double, single, width, b, i).last = y - 1
    BY <2>4, SpanIs
  <2> HIDE DEF i, x, y
  <2>6. x <= idx /\ idx <= y - 1 /\ y \in Nat
    BY <1>1, <1>4, <2>1, <2>3
  <2>7. idx * p < i * Pow(log)
    <3>1. idx + 1 \in Nat /\ idx + 1 <= y
      BY <1>4, <2>6
    <3>2. (idx + 1) * p <= y * p /\ y * p = p * y /\ P * y = y * P
      BY <2>6, <3>1, <1>2, ProductsGrow, ProductsSwap
    <3>3. p * y <= P * y
      BY <1>2, <2>6, ProductsGrow
    <3>4. (idx + 1) * p = idx * p + p
      <4>1. idx \in Int /\ 1 \in Int /\ p \in Int /\ 1 * p = p
        BY <1>4
      <4> QED
        BY <4>1, Distributes
    <3>5. P * y = i * Pow(log)
      <4>1. P * y = P * (i * width)
        BY DEF y
      <4>2. P * (i * width) = i * (P * width)
        <5> HIDE DEF P
        <5> QED
          BY <1>1, <1>2, <2>4
      <4> QED
        BY <1>2, <4>1, <4>2
    <3> HIDE DEF P
    <3>6. y * p \in Nat /\ p * y \in Nat /\ P * y \in Nat
      BY <1>2, <2>6, Products
    <3> QED
      BY <1>4, <3>2, <3>3, <3>4, <3>5, <3>6
  <2>8. (idx * p) \div Pow(log) < i /\ (idx * p) \div Pow(log) \in Nat
    BY <1>3, <1>4, <2>4, <2>7, QuotientBelow
  <2>9. Reaches(log, c, double, single, width, b, p, idx, i)
    BY <2>4, <2>5, <2>6, <2>8 DEF Reaches
  <2> QED
    BY <2>4, <2>9
<1>7. CASE ~(idx < v)
  <2> DEFINE W == 2 * width
             d == idx - v
             q == d \div W
             x == q * W
  <2>1. W \in Nat /\ W \in Nat \ {0} /\ d \in Nat /\ idx = v + d /\ W >= 1
    BY <1>1, <1>4, <1>5, <1>7
  <2>2. d < double * W
    <3>1. P * width = v + double * (2 * width)
      BY <1>1
    <3> DEFINE z == double * W
    <3>2. z = double * (2 * width) /\ z \in Int
      BY <1>1
    <3> HIDE DEF v, W, z, P
    <3>3. idx < v + z
      BY <1>2, <1>3, <3>1, <3>2
    <3> QED
      BY <1>5, <2>1, <3>2, <3>3 DEF z
  <2>w. W = 2 * width
    OBVIOUS
  <2> HIDE DEF W, d
  <2>3. q \in Nat /\ d = x + (d % W) /\ d % W \in Nat /\ d % W < W
    BY <2>1, Quotient
  <2>4. q < double
    BY <1>1, <2>1, <2>2, QuotientBelow
  <2> HIDE DEF q
  <2> DEFINE m == q + 1
             i == single + m
             y == m * W
  <2>5. y = x + W /\ x \in Nat
    <3>1. q \in Int /\ 1 \in Int /\ W \in Int /\ 1 * W = W
      BY <2>1, <2>3
    <3> QED
      BY <2>1, <2>3, <3>1, Distributes, Products
  <2>6. /\ m \in Nat /\ m <= double /\ i \in 1..p /\ ~(i <= single) /\ i - 1 - single = q /\ i - single = m /\ i \in Nat
    BY <1>1, <2>3, <2>4
  <2>7. /\ StateAt(log, c, double, single, width, b, i).baseline = v + x
        /\ StateAt(log, c, double, single, width, b, i).last = v + y - 1
    <3>1. /\ StateAt(log, c, double, single, width, b, i).baseline = single * width + (i - 1 - single) * (2 * width)
          /\ StateAt(log, c, double, single, width, b, i).last = single * width + (i - single) * (2 * width) - 1
      BY <2>6, SpanIs
    <3> HIDE DEF i, m
    <3> QED
      BY <2>6, <2>w, <3>1
  <2>i. i = single + m
    OBVIOUS
  <2> HIDE DEF i, x, y, v
  <2>8. v + x <= idx /\ idx <= v + y - 1 /\ y \in Nat
    BY <1>5, <2>1, <2>3, <2>5
  <2>9. idx * p < i * Pow(log)
    <3> DEFINE u == single + 2 * m
    <3>1. v + y = u * width
      <4>1. single * width + m * (2 * width) = (single + 2 * m) * width
        <5> HIDE DEF m
        <5> QED
          BY <1>1, <2>6
      <4> QED
        BY <2>w, <4>1 DEF v, y
    <3>2. u \in Nat
      BY <1>1, <2>6
    <3>3. u * p <= i * P
      <4>1. i * P = u * p + single * (double - m)
        <5>1. ASSUME NEW S \in Nat, NEW D \in Nat, NEW M \in Nat
              PROVE  (S + M) * (S + 2 * D) = (S + 2 * M) * (D + S) + S * (D - M)
          OBVIOUS
        <5> HIDE DEF m
        <5>2. (single + m) * (single + 2 * double) = (single + 2 * m) * (double + single) + single * (double - m)
          BY <1>1, <2>6, <5>1
        <5> QED
          BY <1>1, <2>i, <5>2
      <4>2. single * (double - m) \in Nat
        <5>1. double - m \in Nat
          BY <1>1, <2>6
        <5> QED
          BY <1>1, <5>1, Products
      <4>3. u * p \in Nat
        BY <3>2, Products
      <4> HIDE DEF P, u
      <4> QED
        BY <4>1, <4>2, <4>3
    <3> HIDE DEF u
    <3>4. idx + 1 \in Nat /\ idx + 1 <= u * width /\ u * width \in Nat
      <4>1. u * width \in Nat
        BY <1>1, <3>2, Products
      <4> QED
        BY <1>4, <1>5, <2>8, <3>1, <4>1
    <3>5. (idx + 1) * p <= (u * width) * p
      BY <3>4, ProductsGrow
    <3>6. (u * width) * p = (u * p) * width
      BY <1>1, <3>2
    <3>7. (u * p) * width <= (i * P) * width
      <4>1. u * p \in Nat /\ i * P \in Nat
        BY <1>2, <2>6, <3>2, Products
      <4> QED
        BY <1>1, <3>3, <4>1, ProductsGrow
    <3>8. (i * P) * width = i * Pow(log)
      <4>1. (i * P) * width = i * (P * width)
        <5> HIDE DEF P
        <5> QED
          BY <1>1, <1>2, <2>6
      <4> QED
        BY <1>2, <4>1
    <3>9. (idx + 1) * p = idx * p + p
      <4>1. idx \in Int /\ 1 \in Int /\ p \in Int /\ 1 * p = p
        BY <1>4
      <4> QED
        BY <4>1, Distributes
    <3>10. (u * width) * p \in Nat /\ i * Pow(log) \in Nat
      BY <1>3, <2>6, <3>4, Products
    <3> QED
      BY <1>4, <3>5, <3>6, <3>7, <3>8, <3>9, <3>10
  <2>10. (idx * p) \div Pow(log) < i /\ (idx * p) \div Pow(log) \in Nat
    BY <1>3, <1>4, <2>6, <2>9, QuotientBelow
  <2>11. Reaches(log, c, double, single, width, b, p, idx, i)
    BY <2>6, <2>7, <2>8, <2>10 DEF Reaches
  <2> QED
    BY <2>6, <2>11
<1> QED
  BY <1>6, <1>7

-----------------------------------------------------------------------------

\* A state of the encoder that the decoder knows, too.
Known(st, s, probs, log) ==
    /\ st.index \in 0..(Pow(log) - 1) /\ st.bits \in 0..9 /\ st.baseline \in Nat
    /\ st.last = st.baseline + Pow(st.bits) - 1
    /\ DecodingTable(probs, log)[st.index] = [symbol |-> s - 1, base |-> st.baseline, bits |-> st.bits]

AllKnown(list, s, probs, log) ==
    /\ Len(list) \in Nat /\ Len(list) >= 1 /\ DOMAIN list = 1..Len(list)
    /\ \A k \in 1..Len(list) : Known(list[k], s, probs, log)

\* From this list, the search leads to a state that targets any other.
Leads(list, log) ==
    \A idx \in 0..(Pow(log) - 1) :
       \E i \in 1..Len(list) :
          /\ list[i].baseline <= idx /\ idx <= list[i].last
          /\ (idx * Len(list)) \div Pow(log) \in Nat /\ (idx * Len(list)) \div Pow(log) + 1 <= i

LEMMA StatesAreKnown ==
    ASSUME NEW probs, NEW log, SoundProbs(probs, log), NEW s \in 1..Len(probs), probs[s] # 0
    PROVE  /\ AllKnown(EncodingTable(probs, log).states[s], s, probs, log)
           /\ Leads(EncodingTable(probs, log).states[s], log)
<1> DEFINE table == EncodingTable(probs, log)
           list == table.states[s]
           size == Pow(log)
<1>1. table.probs = probs /\ DOMAIN probs = 1..Len(probs) /\ size \in Nat /\ size >= 1
  BY TableIs, SharesAre
<1>2. log \in 5..9
  BY DEF SoundProbs
<1> HIDE DEF table
<1>3. \A k \in DOMAIN list : DecodingTable(probs, log)[list[k].index] =
                                [symbol |-> s - 1, base |-> list[k].baseline, bits |-> list[k].bits]
  <2>1. SameStates(table, DecodingTable(probs, log))
    BY StatesAreSame DEF table
  <2>2. s \in DOMAIN table.probs
    BY <1>1
  <2> QED
    BY <2>1, <2>2 DEF SameStates
<1>4. CASE probs[s] > 0
  <2> DEFINE p == probs[s]
             free == FreeOf(probs)
  <2>1. p \in Nat /\ p >= 1 /\ p <= size
    BY <1>4, ListedIs
  <2>2. PICK c, double, single, width, b : Listed(list, probs, log, s, c, double, single, width, b)
    BY <1>4, ListedIs, Zenon DEF table
  <2>3. /\ Shape(p, log, c, double, single, width)
        /\ OwnedInOrder(Owned(probs, Slots(probs, log), s), b, p, free)
        /\ list = [i \in 1..p |-> StateAt(log, c, double, single, width, b, i)]
    BY <2>2, Zenon DEF Listed
  <2>4. b \in [1..p -> 0..(free - 1)] /\ free \in Nat /\ free <= size
    BY <2>3, SlotsOf DEF OwnedInOrder
  <2>5. Shape(p, log, c, double, single, width)
    BY <2>3
  <2>6. list = [i \in 1..p |-> StateAt(log, c, double, single, width, b, i)]
    BY <2>3
  <2> HIDE DEF p, free, list, size
  <2>7. Len(list) = p /\ DOMAIN list = 1..p
    <3> DEFINE St(i) == StateAt(log, c, double, single, width, b, i)
    <3>1. list = [i \in 1..p |-> St(i)]
      BY <2>6
    <3> HIDE DEF St
    <3>2. list \in [1..p -> {St(i) : i \in 1..p}]
      BY <3>1
    <3> QED
      BY <2>1, <3>2, OfLength
  <2>8. \A k \in 1..p : list[k] = StateAt(log, c, double, single, width, b, k)
    BY <2>6
  <2>9. ASSUME NEW k \in 1..p PROVE Known(list[k], s, probs, log)
    <3>1. Fits(StateAt(log, c, double, single, width, b, k), p, log, b, free)
      BY <1>2, <2>1, <2>4, <2>5, StateAtIs, Zenon DEF size
    <3>2. StateAt(log, c, double, single, width, b, k).last =
            StateAt(log, c, double, single, width, b, k).baseline + Pow(StateAt(log, c, double, single, width, b, k).bits) - 1
      BY <1>2, <2>1, <2>5, SpanIs DEF size
    <3>3. list[k] \in [bits : 0..9, baseline : Nat, last : Nat, index : 0..(free - 1)]
      BY <2>8, <3>1 DEF Fits
    <3>4. list[k].last = list[k].baseline + Pow(list[k].bits) - 1
      BY <2>8, <3>2, Zenon
    <3>5. list[k].index \in 0..(size - 1) /\ list[k].bits \in 0..9 /\ list[k].baseline \in Nat
      BY <1>1, <2>4, <3>3
    <3>6. DecodingTable(probs, log)[list[k].index] =
                                [symbol |-> s - 1, base |-> list[k].baseline, bits |-> list[k].bits]
      BY <1>3, <2>7, Zenon
    <3> QED
      BY <3>4, <3>5, <3>6 DEF Known, size
  <2>10. AllKnown(list, s, probs, log)
    BY <2>1, <2>7, <2>9, Zenon DEF AllKnown
  <2>11. Leads(list, log)
    <3> SUFFICES ASSUME NEW idx \in 0..(Pow(log) - 1)
                 PROVE  \E i \in 1..p :
                           /\ list[i].baseline <= idx /\ idx <= list[i].last
                           /\ (idx * p) \div Pow(log) \in Nat /\ (idx * p) \div Pow(log) + 1 <= i
      BY <2>7, Zenon DEF Leads
    <3>1. PICK i \in 1..p : Reaches(log, c, double, single, width, b, p, idx, i)
      BY <1>2, <2>1, <2>5, Reached, Zenon DEF size
    <3> QED
      BY <2>8, <3>1, Zenon DEF Reaches
  <2> QED
    BY <2>10, <2>11 DEF list, table
<1>5. CASE probs[s] = -1
  <2> DEFINE index == 2^log - Cardinality({t \in Negative(probs) : t <= s})
             st == [bits |-> log, baseline |-> 0, last |-> 2^log - 1, index |-> index]
  <2>1. list = <<st>>
    BY <1>5, RareListed, Zenon DEF RareState, table
  <2>i. index = 2^log - Cardinality({t \in Negative(probs) : t <= s})
    OBVIOUS
  <2> HIDE DEF index
  <2>2. index \in 0..(size - 1)
    BY <1>5, <2>i, RareIsDecoded, ZenonT(60)
  <2>3. st.index = index /\ st.baseline = 0 /\ st.bits = log /\ st.last = 0 + Pow(log) - 1
    BY <1>1 DEF Pow
  <2> HIDE DEF st, list
  <2>4. Len(list) = 1 /\ DOMAIN list = 1..1 /\ list[1] = st
    BY <2>1
  <2>5. Known(list[1], s, probs, log)
    <3>1. DecodingTable(probs, log)[st.index] = [symbol |-> s - 1, base |-> st.baseline, bits |-> st.bits]
      BY <1>3, <2>4
    <3>2. st.index \in 0..(Pow(log) - 1) /\ st.bits \in 0..9 /\ st.baseline \in Nat
          /\ st.last = st.baseline + Pow(st.bits) - 1
      BY <1>1, <1>2, <2>2, <2>3
    <3> QED
      BY <2>4, <3>1, <3>2, Zenon DEF Known
  <2>6. AllKnown(list, s, probs, log)
    BY <2>4, <2>5 DEF AllKnown
  <2>7. Leads(list, log)
    <3> SUFFICES ASSUME NEW idx \in 0..(size - 1)
                 PROVE  /\ list[1].baseline <= idx /\ idx <= list[1].last
                        /\ (idx * 1) \div size \in Nat /\ (idx * 1) \div size + 1 <= 1
      BY <2>4 DEF Leads
    <3>1. list[1].baseline <= idx /\ idx <= list[1].last
      BY <1>1, <2>3, <2>4
    <3>2. idx \in Nat /\ idx * 1 = idx /\ idx * 1 < 1 * size /\ size \in Nat \ {0} /\ 1 \in Nat
      BY <1>1
    <3> HIDE DEF size
    <3>3. (idx * 1) \div size < 1 /\ (idx * 1) \div size \in Nat
      BY <3>2, QuotientBelow
    <3> QED
      BY <3>1, <3>3
  <2> QED
    BY <2>6, <2>7 DEF list, table
<1>6. probs[s] \in Int /\ probs[s] >= -1
  BY SharesAre
<1> QED
  BY <1>4, <1>5, <1>6

\* What the search finds.
LEMMA StepIs ==
    ASSUME NEW table, NEW s \in Int, NEW log \in 5..9, table.log = log,
           NEW probs, AllKnown(table.states[s], s, probs, log), Leads(table.states[s], log),
           NEW idx \in 0..(Pow(log) - 1)
    PROVE  /\ Known(NextState(table, s - 1, idx), s, probs, log)
           /\ idx - NextState(table, s - 1, idx).baseline \in 0..(Pow(NextState(table, s - 1, idx).bits) - 1)
<1> DEFINE list == table.states[s]
           n == Len(list)
           from == (idx * n) \div Pow(log) + 1
           found == {k \in from..n : list[k].baseline <= idx /\ idx <= list[k].last}
<1>1. NextState(table, s - 1, idx) = IF found = {} THEN NoState ELSE list[Min(found)]
  <2>1. (s - 1) + 1 = s
    OBVIOUS
  <2>2. NextState(table, s - 1, idx) =
          LET list1 == table.states[(s - 1) + 1]
              found1 == {k \in ((idx * Len(list1)) \div 2^table.log + 1)..Len(list1) :
                            list1[k].baseline <= idx /\ idx <= list1[k].last}
          IN  IF found1 = {} THEN NoState ELSE list1[Min(found1)]
    BY Zenon DEF NextState
  <2> QED
    BY <2>1, <2>2, Zenon DEF Pow
<1>2. n \in Nat /\ DOMAIN list = 1..n /\ \A k \in 1..n : Known(list[k], s, probs, log)
  BY Zenon DEF AllKnown
<1>3. PICK i \in 1..n : /\ list[i].baseline <= idx /\ idx <= list[i].last
                        /\ (idx * n) \div Pow(log) \in Nat /\ from <= i
  BY Zenon DEF Leads
<1> HIDE DEF list, n
<1>4. from \in Nat /\ from >= 1
  BY <1>3
<1> HIDE DEF from
<1>5. i \in found /\ found \in SUBSET Nat /\ found # {} /\ \A k \in found : k \in 1..n
  BY <1>2, <1>3, <1>4, SMTT(30)
<1>6. Min(found) \in found
  BY <1>5, LeastOf
<1> DEFINE m == Min(found)
<1>7. m \in 1..n /\ list[m].baseline <= idx /\ idx <= list[m].last
  BY <1>5, <1>6
<1>8. NextState(table, s - 1, idx) = list[m]
  BY <1>1, <1>5, Zenon
<1> HIDE DEF m, found
<1>9. Known(list[m], s, probs, log)
  BY <1>2, <1>7
<1>10. idx - list[m].baseline \in 0..(Pow(list[m].bits) - 1)
  <2>1. list[m].bits \in 0..31 /\ list[m].baseline \in Nat /\ list[m].last = list[m].baseline + Pow(list[m].bits) - 1
    BY <1>9 DEF Known
  <2>2. Pow(list[m].bits) \in Nat
    BY <2>1, Powers
  <2>3. idx \in Int
    OBVIOUS
  <2> QED
    BY <1>7, <2>1, <2>2, <2>3
<1> QED
  BY <1>8, <1>9, <1>10

LEMMA EveryStepIs ==
    ASSUME NEW probs, NEW log, SoundProbs(probs, log)
    PROVE  EveryStepIsPossible(EncodingTable(probs, log))
<1> DEFINE table == EncodingTable(probs, log)
<1>1. table.probs = probs /\ DOMAIN probs = 1..Len(probs) /\ table.log = log
  BY TableIs, SharesAre
<1>2. log \in 5..9
  BY DEF SoundProbs
<1> HIDE DEF table
<1> SUFFICES ASSUME NEW s \in 1..Len(probs), probs[s] # 0, NEW idx \in 0..(Pow(log) - 1)
             PROVE  /\ NextState(table, s - 1, idx) # NoState
                    /\ idx - NextState(table, s - 1, idx).baseline \in 0..(2^NextState(table, s - 1, idx).bits - 1)
  BY <1>1, Zenon DEF EveryStepIsPossible, table, Pow
<1>3. AllKnown(table.states[s], s, probs, log) /\ Leads(table.states[s], log)
  BY StatesAreKnown DEF table
<1>4. s \in Int
  OBVIOUS
<1>5. /\ Known(NextState(table, s - 1, idx), s, probs, log)
      /\ idx - NextState(table, s - 1, idx).baseline \in 0..(Pow(NextState(table, s - 1, idx).bits) - 1)
  BY <1>1, <1>2, <1>3, <1>4, StepIs, Zenon
<1>6. NextState(table, s - 1, idx) # NoState
  <2>1. NextState(table, s - 1, idx).index >= 0
    BY <1>5 DEF Known
  <2>2. NoState.index = -1
    BY DEF NoState
  <2> QED
    BY <2>1, <2>2
<1> QED
  BY <1>5, <1>6, Zenon DEF Pow

-----------------------------------------------------------------------------
(* From counts to probabilities                                            *)

LEMMA RangeIs ==
    ASSUME NEW probs \in Seq(Nat)
    PROVE  /\ Len(probs) \in Nat /\ DOMAIN probs = 1..Len(probs) /\ Range(probs) = Firsts(probs, Len(probs))
           /\ \A s \in 1..Len(probs) : probs[s] \in Nat
  BY DEF Range, Firsts

LEMMA MaxIs ==
    ASSUME NEW probs \in Seq(Nat), Len(probs) >= 1
    PROVE  /\ Max(Range(probs)) \in Nat
           /\ \A s \in 1..Len(probs) : probs[s] <= Max(Range(probs))
           /\ LastMax(probs) \in 1..Len(probs) /\ probs[LastMax(probs)] = Max(Range(probs))
<1> DEFINE n == Len(probs)
           R == Range(probs)
           N == SumTo(probs, n)
<1>1. n \in Nat /\ DOMAIN probs = 1..n /\ R = Firsts(probs, n) /\ \A s \in 1..n : probs[s] \in Nat
  BY RangeIs
<1>2. \A s \in 1..n : SumTo(probs, s) = SumTo(probs, s - 1) + probs[s]
  <2>1. \A i \in 1..n : probs[i] \in Int
    BY <1>1
  <2> HIDE DEF n
  <2> QED
    BY <1>1, <2>1, Sums, Zenon
<1>3. \A i, j \in 0..n : i <= j => 0 <= SumTo(probs, i) /\ SumTo(probs, i) <= SumTo(probs, j)
  <2> HIDE DEF n
  <2> QED
    BY <1>1, SumsGrow, Zenon
<1>4. \A i \in 0..n : SumTo(probs, i) \in Int
  <2>1. \A i \in 1..n : probs[i] \in Int
    BY <1>1
  <2> HIDE DEF n
  <2> QED
    BY <1>1, <2>1, Sums, Zenon
<1> HIDE DEF n, R, N
<1>n. n >= 1
  BY DEF n
<1>5. \A s \in 1..n : probs[s] <= N /\ N \in Int
  <2> SUFFICES ASSUME NEW s \in 1..n PROVE probs[s] <= N /\ N \in Int
    OBVIOUS
  <2>1. s \in 0..n /\ s - 1 \in 0..n /\ n \in 0..n /\ 0 \in 0..n /\ s - 1 <= n /\ 0 <= s - 1 /\ s <= n
    BY <1>1
  <2>2. SumTo(probs, s) <= N /\ N \in Int /\ SumTo(probs, s) \in Int /\ SumTo(probs, s - 1) \in Int
        /\ 0 <= SumTo(probs, s - 1)
    BY <1>3, <1>4, <2>1 DEF N
  <2>3. SumTo(probs, s) = SumTo(probs, s - 1) + probs[s] /\ probs[s] \in Nat
    BY <1>1, <1>2
  <2> QED
    BY <2>2, <2>3
<1>6. R \in SUBSET Int /\ R # {} /\ N \in Int /\ \A x \in R : x <= N
  <2>1. probs[1] \in R
    BY <1>1, <1>n DEF Firsts
  <2> QED
    BY <1>1, <1>5, <1>n, <2>1 DEF Firsts
<1>7. Max(R) \in R /\ \A y \in R : Max(R) >= y
  BY <1>6, GreatestOf
<1> DEFINE m == Max(R)
           L == {s \in DOMAIN probs : probs[s] = m}
<1>8. m \in Nat /\ \A s \in 1..n : probs[s] <= m
  BY <1>1, <1>6, <1>7 DEF Firsts
<1>9. PICK t \in 1..n : probs[t] = m
  BY <1>1, <1>7 DEF Firsts
<1> HIDE DEF m
<1>10. L \in SUBSET Int /\ L # {} /\ \A x \in L : x <= n
  BY <1>1, <1>9
<1>11. Max(L) \in L
  <2>1. n \in Int
    BY <1>1
  <2> HIDE DEF L
  <2> QED
    BY <1>10, <2>1, GreatestOf, Zenon
<1>12. LastMax(probs) = Max(L)
  BY Zenon DEF LastMax, R, m
<1>13. LastMax(probs) \in 1..n /\ probs[LastMax(probs)] = m
  BY <1>1, <1>11, <1>12
<1> QED
  BY <1>8, <1>13 DEF n, R, m

\* Used symbols keep a probability.
Keeps(probs, counts) ==
    /\ probs \in Seq(Nat) /\ Len(probs) = Len(counts)
    /\ \A s \in 1..Len(counts) : counts[s] # 0 => probs[s] # 0

LEMMA ShiftedIs ==
    ASSUME NEW counts \in Seq(Nat), NEW t \in 1..Len(counts), counts[t] # 0
    PROVE  Keeps(Shifted(counts), counts)
<1> DEFINE n == Len(counts)
           S == Range(counts) \ {0}
           least == Min(S)
           new == [s \in 1..n |-> IF counts[s] = 0 THEN 0 ELSE counts[s] - (least - 1)]
<1>1. n \in Nat /\ DOMAIN counts = 1..n /\ \A s \in 1..n : counts[s] \in Nat
  BY RangeIs
<1>2. Shifted(counts) = new
  BY <1>1, Zenon DEF Shifted
<1>3. S \in SUBSET Nat /\ counts[t] \in S /\ \A s \in 1..n : counts[s] # 0 => counts[s] \in S
  BY <1>1 DEF Range
<1>4. least \in S /\ \A y \in S : least <= y
  BY <1>3, LeastOf
<1>5. least \in Nat /\ least >= 1
  BY <1>3, <1>4
<1> HIDE DEF least, S
<1>6. new \in [1..n -> Nat] /\ \A s \in 1..n : counts[s] # 0 => new[s] # 0
  <2>1. ASSUME NEW s \in 1..n, counts[s] # 0 PROVE counts[s] - (least - 1) \in Nat /\ counts[s] - (least - 1) # 0
    <3>1. least <= counts[s] /\ counts[s] \in Nat
      BY <1>1, <1>3, <1>4, <2>1
    <3> QED
      BY <1>5, <3>1
  <2> QED
    BY <1>1, <2>1
<1> HIDE DEF new
<1>7. new \in Seq(Nat) /\ Len(new) = n
  BY <1>1, <1>6, OfLength
<1> QED
  BY <1>2, <1>6, <1>7 DEF Keeps

\* A number cut by what its bound is cut by.
LEMMA CutIs ==
    ASSUME NEW m \in Nat, NEW n \in Nat, n >= 1, n < m, NEW v \in Nat, v <= m
    PROVE  m \div n \in Nat \ {0} /\ v \div (m \div n) \in Nat /\ v \div (m \div n) <= 2 * n
<1> DEFINE d == m \div n
           r == m % n
<1>1. d \in Nat /\ r \in Nat /\ r < n /\ m = d * n + r
  BY Quotient
<1> HIDE DEF d, r
<1>2. d >= 1
  <2>1. d = 0 => d * n = 0
    BY <1>1
  <2> QED
    BY <1>1, <2>1
<1>3. v \in Nat /\ d \in Nat \ {0} /\ 2 * n \in Nat
  BY <1>1, <1>2
<1>4. v < (2 * n + 1) * d
  <2>1. d * n >= n
    <3>1. d * n = n * d /\ d * n >= n
      BY <1>1, <1>2, Products
    <3> QED
      BY <3>1
  <2>2. (2 * n + 1) * d = 2 * (d * n) + d
    BY <1>1
  <2>3. d * n \in Nat
    BY <1>1, Products
  <2> QED
    BY <1>1, <1>2, <2>1, <2>2, <2>3
<1>5. v \div d < 2 * n + 1 /\ v \div d \in Nat
  <2>1. 2 * n + 1 \in Nat
    OBVIOUS
  <2> QED
    BY <1>3, <1>4, <2>1, QuotientBelow
<1> QED
  BY <1>3, <1>5 DEF d

LEMMA ScaledIs ==
    ASSUME NEW counts, NEW probs, Keeps(probs, counts), Len(counts) >= 1
    PROVE  Keeps(Scaled(probs), counts) /\ \A s \in 1..Len(counts) : Scaled(probs)[s] <= 2 * Len(counts)
<1> DEFINE n == Len(counts)
           m == Max(Range(probs))
           d == m \div Len(probs)
           new == [s \in DOMAIN probs |-> IF probs[s] = 0 THEN 0 ELSE Max({probs[s] \div d, 1})]
<1>1. probs \in Seq(Nat) /\ Len(probs) = n /\ \A s \in 1..n : counts[s] # 0 => probs[s] # 0
  BY DEF Keeps
<1>2. n \in Nat /\ n >= 1 /\ DOMAIN probs = 1..n /\ \A s \in 1..n : probs[s] \in Nat
  BY <1>1, RangeIs
<1>3. m \in Nat /\ \A s \in 1..n : probs[s] <= m
  BY <1>1, <1>2, MaxIs
<1>4. Scaled(probs) = IF m <= Len(probs) THEN probs ELSE new
  BY Zenon DEF Scaled
<1> HIDE DEF m, n
<1>5. CASE m <= n
  <2>1. Scaled(probs) = probs
    BY <1>1, <1>4, <1>5
  <2>2. \A s \in 1..n : probs[s] <= 2 * n
    BY <1>2, <1>3, <1>5
  <2> QED
    BY <2>1, <2>2 DEF n
<1>6. CASE ~(m <= n)
  <2>1. Scaled(probs) = new
    BY <1>1, <1>4, <1>6
  <2>2. ASSUME NEW s \in 1..n PROVE new[s] \in Nat /\ new[s] <= 2 * n /\ (probs[s] # 0 => new[s] # 0)
    <3>1. d = m \div n
      BY <1>1
    <3> DEFINE v == probs[s] \div d
    <3>2. v \in Nat /\ v <= 2 * n
      <4>1. n < m /\ probs[s] \in Nat /\ probs[s] <= m
        BY <1>2, <1>3, <1>6
      <4> HIDE DEF d
      <4> QED
        BY <1>2, <1>3, <3>1, <4>1, CutIs
    <3>3. new[s] = IF probs[s] = 0 THEN 0 ELSE Max({v, 1})
      BY <1>2, Zenon
    <3> HIDE DEF v, new
    <3>4. Max({v, 1}) \in {v, 1} /\ \A y \in {v, 1} : Max({v, 1}) >= y
      <4>1. {v, 1} \in SUBSET Int /\ {v, 1} # {} /\ (v + 1) \in Int /\ \A x \in {v, 1} : x <= v + 1
        BY <3>2
      <4> QED
        BY <4>1, GreatestOf
    <3> QED
      BY <1>2, <3>2, <3>3, <3>4
  <2>3. new = [s \in 1..n |-> new[s]]
    BY <1>2
  <2> HIDE DEF new
  <2>4. new \in [1..n -> Nat]
    BY <2>2, <2>3
  <2>5. new \in Seq(Nat) /\ Len(new) = n
    BY <1>2, <2>4, OfLength
  <2>6. Keeps(new, counts) /\ \A s \in 1..n : new[s] <= 2 * n
    BY <1>1, <2>2, <2>5 DEF Keeps, n
  <2> QED
    BY <2>1, <2>6 DEF n
<1> QED
  BY <1>5, <1>6

-----------------------------------------------------------------------------
(* Evening out                                                             *)

LEMMA PlusOne ==
    ASSUME NEW probs \in Seq(Nat), NEW s \in 1..Len(probs), NEW by \in Int, probs[s] + by \in Nat
    PROVE  /\ Plus(probs, s, by) \in Seq(Nat) /\ Len(Plus(probs, s, by)) = Len(probs)
           /\ \A i \in 1..Len(probs) : Plus(probs, s, by)[i] = probs[i] + (IF i = s THEN by ELSE 0)
           /\ SumTo(Plus(probs, s, by), Len(probs)) = SumTo(probs, Len(probs)) + by
<1> DEFINE n == Len(probs)
           q == Plus(probs, s, by)
<1>1. n \in Nat /\ \A i \in 1..n : probs[i] \in Nat /\ probs[i] \in Int
  BY RangeIs
<1>2. probs \in Seq(Int)
  <2>1. probs \in [1..n -> Int] /\ n \in Nat
    BY <1>1
  <2> QED
    BY <2>1, OfLength
<1>3. q \in Seq(Int) /\ Len(q) = n /\ \A i \in 1..n : q[i] = probs[i] + (IF i = s THEN by ELSE 0)
  BY <1>2, PlusIs, Zenon
<1> HIDE DEF n, q
<1>s. s \in 1..n
  BY DEF n
<1>4. \A i \in 1..n : q[i] \in Nat
  <2> SUFFICES ASSUME NEW i \in 1..n PROVE q[i] \in Nat
    OBVIOUS
  <2>1. q[i] = probs[i] + (IF i = s THEN by ELSE 0) /\ probs[i] \in Nat
    BY <1>1, <1>3
  <2>2. CASE i = s
    BY <2>1, <2>2
  <2>3. CASE i # s
    BY <2>1, <2>3
  <2> QED
    BY <2>2, <2>3
<1>5. q \in Seq(Nat)
  <2>1. q \in [1..n -> Nat]
    BY <1>1, <1>3, <1>4
  <2> QED
    BY <1>1, <2>1, OfLength
<1>6. SumTo(q, n) = SumTo(probs, n) + by
  <2>1. \A i \in 1..n : probs[i] \in Int
    BY <1>1
  <2>2. \A i \in 1..n : q[i] = probs[i] + (IF i = s THEN by ELSE 0)
    BY <1>3
  <2> QED
    BY <1>1, <1>s, <2>1, <2>2, SumChanged, ZenonT(60)
<1> QED
  BY <1>3, <1>5, <1>6 DEF n, q

Excesses == [probs : Seq(Nat), diff : Nat]

Lowering(l) == LET smallest == Min(Range(l.probs) \ {0, 1})
                   s        == Min({t \in DOMAIN l.probs : l.probs[t] = smallest})
                   decrease == Min({smallest - 1, l.diff})
               IN  [probs |-> Plus(l.probs, s, -decrease), diff |-> l.diff - decrease]

Ended(l) == l.diff = 0 \/ Range(l.probs) \subseteq {0, 1}

\* What of the difference is still to be taken.
LessBy(probs, s, by, new) ==
    /\ by \in Nat /\ by >= 1 /\ s \in 1..Len(probs) /\ probs[s] - by >= 1
    /\ new \in Seq(Nat) /\ Len(new) = Len(probs)
    /\ \A i \in 1..Len(probs) : new[i] = probs[i] + (IF i = s THEN -by ELSE 0)
    /\ SumTo(new, Len(probs)) = SumTo(probs, Len(probs)) - by

LEMMA LoweringIs ==
    ASSUME NEW l \in Excesses, ~Ended(l)
    PROVE  \E by \in Nat : \E s \in 1..Len(l.probs) :
              /\ LessBy(l.probs, s, by, Lowering(l).probs) /\ by <= l.diff
              /\ Lowering(l) = [probs |-> Lowering(l).probs, diff |-> l.diff - by]
<1> DEFINE probs == l.probs
           n == Len(probs)
           S == Range(probs) \ {0, 1}
           smallest == Min(S)
           T == {t \in DOMAIN probs : probs[t] = smallest}
           s == Min(T)
           by == Min({smallest - 1, l.diff})
<1>1. probs \in Seq(Nat) /\ l.diff \in Nat /\ l.diff # 0
  BY DEF Excesses, Ended
<1>2. n \in Nat /\ DOMAIN probs = 1..n /\ \A i \in 1..n : probs[i] \in Nat
  BY <1>1, RangeIs
<1>3. S # {} /\ S \in SUBSET Nat
  BY <1>2 DEF Ended, Range
<1>4. smallest \in S
  BY <1>3, LeastOf
<1>5. PICK j \in 1..n : probs[j] = smallest
  BY <1>2, <1>4 DEF Range
<1>6. smallest \in Nat /\ smallest >= 2
  BY <1>3, <1>4
<1>e. Lowering(l) = [probs |-> Plus(probs, s, -by), diff |-> l.diff - by]
  BY Zenon DEF Lowering
<1> HIDE DEF smallest, S
<1>7. T \in SUBSET Nat /\ T # {}
  BY <1>2, <1>5
<1>8. s \in T
  BY <1>7, LeastOf
<1>9. s \in 1..n /\ probs[s] = smallest
  BY <1>2, <1>8
<1> HIDE DEF s, T
<1>10. by \in {smallest - 1, l.diff} /\ by <= smallest - 1 /\ by <= l.diff
  <2>1. {smallest - 1, l.diff} \in SUBSET Nat /\ {smallest - 1, l.diff} # {}
    BY <1>1, <1>6
  <2>2. Min({smallest - 1, l.diff}) \in {smallest - 1, l.diff} /\ \A y \in {smallest - 1, l.diff} : Min({smallest - 1, l.diff}) <= y
    BY <2>1, LeastOf, Zenon
  <2> QED
    BY <2>2
<1>11. by \in Nat /\ by >= 1 /\ by <= l.diff /\ probs[s] - by >= 1 /\ -by \in Int /\ probs[s] + (-by) \in Nat
  BY <1>1, <1>6, <1>9, <1>10, SMTT(40)
<1> HIDE DEF by
<1>12. LessBy(probs, s, by, Plus(probs, s, -by))
  <2>1. /\ Plus(probs, s, -by) \in Seq(Nat) /\ Len(Plus(probs, s, -by)) = Len(probs)
        /\ \A i \in 1..Len(probs) : Plus(probs, s, -by)[i] = probs[i] + (IF i = s THEN -by ELSE 0)
        /\ SumTo(Plus(probs, s, -by), Len(probs)) = SumTo(probs, Len(probs)) + (-by)
    BY <1>1, <1>9, <1>11, PlusOne
  <2>2. SumTo(probs, n) \in Int
    <3>1. \A i \in 1..n : probs[i] \in Int
      BY <1>2
    <3>2. n \in 0..n
      BY <1>2
    <3> HIDE DEF n
    <3> QED
      BY <1>2, <3>1, <3>2, Sums
  <2>3. SumTo(probs, n) + (-by) = SumTo(probs, n) - by
    BY <1>11, <2>2
  <2> QED
    BY <1>9, <1>11, <2>1, <2>3 DEF LessBy
<1>13. Lowering(l).probs = Plus(probs, s, -by)
  BY <1>e
<1> QED
  BY <1>9, <1>11, <1>12, <1>13, <1>e

\* A sum of zeros and ones.
LEMMA SumOfFlags ==
    ASSUME NEW probs \in Seq(Nat), Range(probs) \subseteq {0, 1}
    PROVE  SumTo(probs, Len(probs)) <= Len(probs)
<1>1. Len(probs) \in Nat /\ \A i \in 1..Len(probs) : probs[i] \in 0..1
  <2>1. Len(probs) \in Nat /\ DOMAIN probs = 1..Len(probs)
    BY RangeIs
  <2>2. ASSUME NEW i \in 1..Len(probs) PROVE probs[i] \in {0, 1}
    <3>1. probs[i] \in Range(probs)
      BY <2>1 DEF Range
    <3> QED
      BY <3>1
  <2> QED
    BY <2>1, <2>2
<1>2. SumTo(probs, Len(probs)) <= Len(probs) * 1
  BY <1>1, SumBounded
<1> QED
  BY <1>1, <1>2

LEMMA LoweredIs ==
    ASSUME NEW probs \in Seq(Nat), NEW diff \in Nat, NEW P \in Nat, Len(probs) <= P,
           SumTo(probs, Len(probs)) = P + diff
    PROVE  /\ Keeps(Lowered(probs, diff), probs)
           /\ SumTo(Lowered(probs, diff), Len(probs)) = P
<1> DEFINE Done == {l \in Excesses : Ended(l)}
           H == [l \in Excesses |-> l.probs]
           F == [l \in Excesses |-> Lowering(l)]
           Solves(g) == g = [l \in Excesses |-> IF Ended(l) THEN l.probs ELSE g[Lowering(l)]]
           G == CHOOSE g : Solves(g)
<1>1. Lowered(probs, diff) = G[[probs |-> probs, diff |-> diff]]
  BY Zenon DEF Lowered, Excesses, Lowering, Ended
<1>2. ASSUME NEW l \in Excesses, ~Ended(l) PROVE Lowering(l) \in Excesses
  <2>1. PICK by \in Nat : \E s \in 1..Len(l.probs) :
              /\ LessBy(l.probs, s, by, Lowering(l).probs) /\ by <= l.diff
              /\ Lowering(l) = [probs |-> Lowering(l).probs, diff |-> l.diff - by]
    BY <1>2, LoweringIs, Zenon
  <2>2. Lowering(l).probs \in Seq(Nat) /\ l.diff - by \in Nat
    <3>1. Lowering(l).probs \in Seq(Nat) /\ by <= l.diff
      BY <2>1, Zenon DEF LessBy
    <3>2. l.diff \in Nat
      BY DEF Excesses
    <3> QED
      BY <2>1, <3>1, <3>2
  <2> QED
    BY <2>1, <2>2 DEF Excesses
<1>3. \E g : Solves(g)
  <2>1. Done \in SUBSET Excesses /\ \A r \in Excesses \ Done : F[r] \in Excesses
    BY <1>2
  <2>2. \E g : g = [r \in Excesses |-> g[r]] /\ Loops(g, Excesses, Done, H, F)
    <3> HIDE DEF Done, H, F
    <3> QED
      BY <2>1, WhileLoop, Zenon
  <2>3. PICK g : g = [r \in Excesses |-> g[r]] /\ Loops(g, Excesses, Done, H, F)
    BY <2>2
  <2>4. ASSUME NEW r \in Excesses
        PROVE  g[r] = IF Ended(r) THEN r.probs ELSE g[Lowering(r)]
    <3>1. r \in Done <=> Ended(r)
      OBVIOUS
    <3>2. H[r] = r.probs /\ F[r] = Lowering(r)
      OBVIOUS
    <3>3. g[r] = IF r \in Done THEN H[r] ELSE g[F[r]]
      <4> HIDE DEF Done, H, F
      <4> QED
        BY <2>3, Zenon DEF Loops
    <3> HIDE DEF Done, H, F
    <3> QED
      BY <3>1, <3>2, <3>3, Zenon
  <2>5. Solves(g)
    <3> HIDE DEF Done, H, F
    <3> QED
      BY <2>3, <2>4
  <2> QED
    BY <2>5
<1>4. Solves(G)
  BY <1>3, Zenon
<1>5. ASSUME NEW l \in Excesses
      PROVE  G[l] = IF Ended(l) THEN l.probs ELSE G[Lowering(l)]
  <2> HIDE DEF G
  <2> QED
    BY <1>4
<1> HIDE DEF G, Solves
<1> DEFINE n == Len(probs)
           Fine(l) == Len(l.probs) = n /\ SumTo(l.probs, n) = P + l.diff
           Good(r, l) == Keeps(r, l.probs) /\ SumTo(r, n) = P
           T == {d \in Nat : \A l \in Excesses : l.diff <= d /\ Fine(l) => Good(G[l], l)}
<1>6. n \in Nat
  BY RangeIs
<1>7. ASSUME NEW l \in Excesses, Ended(l), Fine(l) PROVE Good(G[l], l)
  <2>1. G[l] = l.probs
    BY <1>5, <1>7
  <2>2. l.diff = 0
    <3>1. CASE Range(l.probs) \subseteq {0, 1}
      <4>1. l.probs \in Seq(Nat) /\ l.diff \in Nat
        BY DEF Excesses
      <4>2. SumTo(l.probs, Len(l.probs)) <= Len(l.probs)
        BY <3>1, <4>1, SumOfFlags
      <4>3. P + l.diff <= n /\ n <= P
        BY <1>7, <4>2
      <4> HIDE DEF n
      <4> QED
        BY <1>6, <4>1, <4>3
    <3> QED
      BY <1>7, <3>1 DEF Ended
  <2>3. SumTo(l.probs, n) = P
    <3>1. SumTo(l.probs, n) = P + 0
      BY <1>7, <2>2
    <3> QED
      BY <3>1
  <2>4. Keeps(l.probs, l.probs)
    BY DEF Keeps, Excesses
  <2> QED
    BY <2>1, <2>3, <2>4
<1>8. ASSUME NEW l \in Excesses, ~Ended(l), Fine(l)
      PROVE  /\ Lowering(l) \in Excesses /\ Lowering(l).diff < l.diff /\ Fine(Lowering(l))
             /\ Keeps(Lowering(l).probs, l.probs) /\ G[l] = G[Lowering(l)]
  <2>1. PICK by \in Nat : \E s \in 1..Len(l.probs) :
              /\ LessBy(l.probs, s, by, Lowering(l).probs) /\ by <= l.diff
              /\ Lowering(l) = [probs |-> Lowering(l).probs, diff |-> l.diff - by]
    BY <1>8, LoweringIs, Zenon
  <2>2. PICK s \in 1..Len(l.probs) :
              /\ LessBy(l.probs, s, by, Lowering(l).probs) /\ by <= l.diff
              /\ Lowering(l) = [probs |-> Lowering(l).probs, diff |-> l.diff - by]
    BY <2>1
  <2> DEFINE new == Lowering(l).probs
  <2>3. /\ by >= 1 /\ l.probs[s] - by >= 1
        /\ new \in Seq(Nat) /\ Len(new) = n
        /\ \A i \in 1..n : new[i] = l.probs[i] + (IF i = s THEN -by ELSE 0)
        /\ SumTo(new, n) = SumTo(l.probs, n) - by
    BY <1>8, <2>2, Zenon DEF LessBy
  <2>4. l.probs \in Seq(Nat) /\ l.diff \in Nat /\ Len(l.probs) = n
    BY <1>8 DEF Excesses
  <2>5. Lowering(l).diff = l.diff - by
    BY <2>2
  <2>6. Fine(Lowering(l))
    <3>1. SumTo(l.probs, n) = P + l.diff
      BY <1>8
    <3> HIDE DEF n
    <3>2. SumTo(new, n) = P + (l.diff - by)
      BY <2>1, <2>3, <2>4, <3>1, SMTT(30)
    <3> QED
      BY <2>3, <2>5, <3>2
  <2>7. Keeps(new, l.probs)
    <3>1. \A i \in 1..n : l.probs[i] \in Nat
      BY <2>4, RangeIs
    <3> HIDE DEF n, new
    <3>2. ASSUME NEW i \in 1..n, l.probs[i] # 0 PROVE new[i] # 0
      <4>1. new[i] = l.probs[i] + (IF i = s THEN -by ELSE 0) /\ l.probs[i] \in Nat
        BY <2>3, <3>1
      <4>2. CASE i = s
        BY <2>1, <2>3, <4>1, <4>2, SMTT(40)
      <4>3. CASE i # s
        BY <3>2, <4>1, <4>3
      <4> QED
        BY <4>2, <4>3
    <3> QED
      BY <2>3, <2>4, <3>2 DEF Keeps
  <2>8. G[l] = G[Lowering(l)]
    BY <1>5, <1>8
  <2>9. Lowering(l) \in Excesses
    BY <1>2, <1>8
  <2>10. Lowering(l).diff < l.diff
    <3>1. by \in Nat /\ by >= 1 /\ l.diff \in Nat
      BY <2>1, <2>3, <2>4
    <3> QED
      BY <2>5, <3>1
  <2> HIDE DEF Fine, n
  <2> QED
    BY <2>6, <2>7, <2>8, <2>9, <2>10
<1>9. ASSUME NEW l \in Excesses PROVE l.diff \in Nat
  BY DEF Excesses
<1> HIDE DEF Fine
<1>10. 0 \in T
  <2> SUFFICES ASSUME NEW l \in Excesses, l.diff <= 0, Fine(l) PROVE Good(G[l], l)
    BY DEF T
  <2>1. l.diff = 0
    BY <1>9
  <2>2. Ended(l)
    BY <2>1 DEF Ended
  <2> QED
    BY <1>7, <2>2
<1>11. ASSUME NEW d \in T PROVE d + 1 \in T
  <2> SUFFICES ASSUME NEW l \in Excesses, l.diff <= d + 1, Fine(l) PROVE Good(G[l], l)
    BY DEF T
  <2>1. CASE Ended(l)
    BY <1>7, <2>1
  <2>2. CASE ~Ended(l)
    <3>1. /\ Lowering(l) \in Excesses /\ Lowering(l).diff < l.diff /\ Fine(Lowering(l))
          /\ Keeps(Lowering(l).probs, l.probs) /\ G[l] = G[Lowering(l)]
      BY <1>8, <2>2
    <3>2. d \in Nat /\ Lowering(l).diff <= d
      BY <1>9, <3>1
    <3>3. Good(G[Lowering(l)], Lowering(l))
      BY <3>1, <3>2
    <3>4. ASSUME NEW r, Keeps(r, Lowering(l).probs) PROVE Keeps(r, l.probs)
      BY <3>1, <3>4, Zenon DEF Keeps
    <3> QED
      BY <3>1, <3>3, <3>4
  <2> QED
    BY <2>1, <2>2
<1>12. \A d \in Nat : d \in T
  <2> HIDE DEF Good
  <2>1. T \in SUBSET Nat
    OBVIOUS
  <2> HIDE DEF T
  <2> QED
    BY <1>10, <1>11, <2>1, InductionOnSets, Zenon
<1> DEFINE first == [probs |-> probs, diff |-> diff]
<1>13. first \in Excesses /\ Fine(first) /\ first.diff <= diff /\ first.probs = probs
  BY DEF Excesses, Fine
<1>14. Good(G[first], first)
  <2> HIDE DEF Good, first
  <2> QED
    BY <1>12, <1>13
<1> QED
  BY <1>1, <1>13, <1>14

-----------------------------------------------------------------------------

Even(probs, counts, log) == Keeps(probs, counts) /\ SumTo(probs, Len(counts)) = Pow(log)

LEMMA KeepsOn ==
    ASSUME NEW a, NEW b, NEW d, Keeps(a, b), Keeps(b, d)
    PROVE  Keeps(a, d)
  BY DEF Keeps

LEMMA SumIsNat ==
    ASSUME NEW probs \in Seq(Nat)
    PROVE  SumTo(probs, Len(probs)) \in Nat /\ \A s \in 1..Len(probs) : probs[s] <= SumTo(probs, Len(probs))
<1> DEFINE n == Len(probs)
<1>1. n \in Nat /\ \A i \in 1..n : probs[i] \in Nat /\ probs[i] \in Int
  BY RangeIs
<1> HIDE DEF n
<1>2. \A i \in 0..n : SumTo(probs, i) \in Int
  BY <1>1, Sums
<1>3. \A i \in 1..n : SumTo(probs, i) = SumTo(probs, i - 1) + probs[i]
  BY <1>1, Sums
<1>4. \A i, j \in 0..n : i <= j => 0 <= SumTo(probs, i) /\ SumTo(probs, i) <= SumTo(probs, j)
  BY <1>1, SumsGrow
<1>5. SumTo(probs, n) \in Nat
  <2>1. n \in 0..n /\ n <= n
    BY <1>1
  <2> QED
    BY <1>2, <1>4, <2>1
<1>6. ASSUME NEW s \in 1..n PROVE probs[s] <= SumTo(probs, n)
  <2>1. s \in 0..n /\ s - 1 \in 0..n /\ n \in 0..n /\ s <= n /\ s - 1 <= n
    BY <1>1
  <2>2. SumTo(probs, s) <= SumTo(probs, n) /\ 0 <= SumTo(probs, s - 1) /\ SumTo(probs, s - 1) \in Int
        /\ SumTo(probs, s) \in Int /\ SumTo(probs, n) \in Int /\ probs[s] \in Int
    BY <1>1, <1>2, <1>4, <2>1
  <2>3. SumTo(probs, s) = SumTo(probs, s - 1) + probs[s]
    BY <1>3
  <2> QED
    BY <2>2, <2>3
<1> QED
  BY <1>5, <1>6 DEF n

LEMMA NormalisedIs ==
    ASSUME NEW counts, NEW probs, Keeps(probs, counts), NEW log \in 5..9, Len(counts) >= 1,
           SumTo(probs, Len(probs)) < Pow(log) \/ Len(probs) <= Pow(log)
    PROVE  Even(Normalised(probs, log), counts, log)
<1> DEFINE n == Len(counts)
           sum == SumTo(probs, Len(probs))
           top == LastMax(probs)
<1>1. probs \in Seq(Nat) /\ Len(probs) = n /\ n >= 1
  BY DEF Keeps
<1>2. n \in Nat /\ \A i \in 1..n : probs[i] \in Nat
  BY <1>1, RangeIs
<1>3. sum \in Nat
  BY <1>1, SumIsNat
<1>4. Pow(log) \in Nat /\ Pow(log) >= 1
  <2>1. log \in 0..31
    OBVIOUS
  <2> QED
    BY <2>1, Powers
<1>5. Normalised(probs, log) = IF sum < Pow(log) THEN Plus(probs, top, Pow(log) - sum)
                               ELSE Lowered(probs, sum - Pow(log))
  BY Zenon DEF Normalised, Pow
<1>6. CASE sum < Pow(log)
  <2>1. top \in 1..n
    BY <1>1, MaxIs
  <2> DEFINE by == Pow(log) - sum
             new == Plus(probs, top, by)
  <2>2. by \in Nat /\ by \in Int /\ sum + by = Pow(log)
    <3> HIDE DEF sum
    <3> QED
      BY <1>3, <1>4, <1>6
  <2>3. Normalised(probs, log) = new
    BY <1>5, <1>6
  <2> HIDE DEF by, top
  <2>4. probs[top] + by \in Nat
    BY <1>2, <2>1, <2>2
  <2>5. /\ new \in Seq(Nat) /\ Len(new) = Len(probs)
        /\ \A i \in 1..Len(probs) : new[i] = probs[i] + (IF i = top THEN by ELSE 0)
        /\ SumTo(new, Len(probs)) = sum + by
    BY <1>1, <2>1, <2>2, <2>4, PlusOne
  <2> HIDE DEF new, sum
  <2>6. \A i \in 1..n : probs[i] # 0 => new[i] # 0
    <3> SUFFICES ASSUME NEW i \in 1..n, probs[i] # 0 PROVE new[i] # 0
      OBVIOUS
    <3>1. new[i] = probs[i] + (IF i = top THEN by ELSE 0) /\ probs[i] \in Nat
      BY <1>1, <1>2, <2>5
    <3>2. CASE i = top
      BY <2>2, <3>1, <3>2
    <3>3. CASE i # top
      BY <3>1, <3>3
    <3> QED
      BY <3>2, <3>3
  <2>7. Keeps(new, probs)
    BY <1>1, <2>5, <2>6 DEF Keeps
  <2>8. Keeps(new, counts)
    BY <2>7, KeepsOn
  <2>9. SumTo(new, n) = Pow(log)
    BY <1>1, <2>2, <2>5
  <2> QED
    BY <2>3, <2>8, <2>9 DEF Even
<1>7. CASE ~(sum < Pow(log))
  <2> DEFINE diff == sum - Pow(log)
             new == Lowered(probs, diff)
  <2>1. Normalised(probs, log) = new
    BY <1>5, <1>7
  <2>2. diff \in Nat /\ sum = Pow(log) + diff /\ Len(probs) <= Pow(log)
    <3>1. Len(probs) <= Pow(log)
      BY <1>7
    <3> HIDE DEF sum
    <3> QED
      BY <1>3, <1>4, <1>7, <3>1
  <2> HIDE DEF diff
  <2>3. Keeps(new, probs) /\ SumTo(new, Len(probs)) = Pow(log)
    BY <1>1, <1>4, <2>2, LoweredIs
  <2> HIDE DEF new
  <2>4. Keeps(new, counts)
    BY <2>3, KeepsOn
  <2> QED
    BY <1>1, <2>1, <2>3, <2>4 DEF Even
<1> QED
  BY <1>6, <1>7

LEMMA HalvedIs ==
    ASSUME NEW counts, NEW probs, NEW log \in 5..9, Even(probs, counts, log), Len(counts) >= 1
    PROVE  IF Len(counts) = 1 THEN Halved(probs, log) = NoTable ELSE Even(Halved(probs, log), counts, log)
<1> DEFINE n == Len(counts)
           half == Pow(log - 1)
           most == LastMax(probs)
           rest == Plus(probs, most, half - probs[most])
           other == Range(rest) \ {half}
           second == Min({s \in DOMAIN rest : rest[s] = Max(other)})
<1>1. probs \in Seq(Nat) /\ Len(probs) = n /\ n >= 1 /\ SumTo(probs, n) = Pow(log)
      /\ \A s \in 1..n : counts[s] # 0 => probs[s] # 0
  BY DEF Keeps, Even
<1>2. n \in Nat /\ \A i \in 1..n : probs[i] \in Nat
  BY <1>1, RangeIs
<1>3. half \in Nat /\ half >= 1 /\ Pow(log) = 2 * half
  <2>1. log - 1 \in 0..30 /\ log - 1 \in 0..31 /\ (log - 1) + 1 = log
    OBVIOUS
  <2> QED
    BY <2>1, Powers
<1>4. most \in 1..n /\ \A s \in 1..n : probs[s] <= probs[most]
  BY <1>1, MaxIs
<1>5. Halved(probs, log) = IF probs[most] <= half THEN probs
                           ELSE IF other = {} THEN NoTable ELSE Plus(rest, second, probs[most] - half)
  BY Zenon DEF Halved, Pow
<1>s. \A i \in 0..n : SumTo(probs, i) \in Int
  <2>1. \A i \in 1..n : probs[i] \in Int
    BY <1>2
  <2> HIDE DEF n
  <2> QED
    BY <1>2, <2>1, Sums
<1> HIDE DEF half, most, second
<1> DEFINE by == half - probs[most]
<1>6. by \in Int /\ probs[most] + by = half
  BY <1>2, <1>3, <1>4
<1>7. /\ rest \in Seq(Nat) /\ Len(rest) = n /\ \A i \in 1..n : rest[i] = probs[i] + (IF i = most THEN by ELSE 0)
      /\ SumTo(rest, n) = Pow(log) + by
  <2>1. most \in 1..Len(probs) /\ probs[most] + by \in Nat
    BY <1>1, <1>3, <1>4, <1>6
  <2>r. rest = Plus(probs, most, by)
    OBVIOUS
  <2> HIDE DEF rest, by
  <2>2. /\ rest \in Seq(Nat) /\ Len(rest) = Len(probs)
        /\ \A i \in 1..Len(probs) : rest[i] = probs[i] + (IF i = most THEN by ELSE 0)
        /\ SumTo(rest, Len(probs)) = SumTo(probs, Len(probs)) + by
    BY <1>1, <1>6, <2>1, <2>r, PlusOne, SMTT(30)
  <2> QED
    BY <1>1, <2>2
<1>8. DOMAIN rest = 1..n /\ \A i \in 1..n : rest[i] \in Nat
  <2> HIDE DEF rest
  <2> QED
    BY <1>7, RangeIs
<1>9. rest[most] = half /\ \A i \in 1..n : i # most => rest[i] = probs[i]
  <2> HIDE DEF rest, by
  <2> QED
    BY <1>2, <1>4, <1>6, <1>7
<1> HIDE DEF rest
<1>10. CASE n = 1
  <2>1. probs[most] = Pow(log)
    <3>1. most = 1 /\ SumTo(probs, 1) = SumTo(probs, 1 - 1) + probs[1] /\ SumTo(probs, 0) = 0
      <4>1. \A i \in 1..1 : probs[i] \in Int
        BY <1>2, <1>10
      <4>2. 1 \in Nat /\ 1 \in 1..1
        OBVIOUS
      <4>3. SumTo(probs, 0) = 0 /\ \A i \in 1..1 : SumTo(probs, i) = SumTo(probs, i - 1) + probs[i]
        BY <4>1, <4>2, Sums, Zenon
      <4>4. most = 1
        BY <1>4, <1>10
      <4> HIDE DEF n
      <4> QED
        BY <4>2, <4>3, <4>4
    <3>2. SumTo(probs, 1) = Pow(log)
      BY <1>1, <1>10
    <3>3. probs[1] \in Nat
      BY <1>2, <1>4, <3>1
    <3> HIDE DEF n
    <3> QED
      BY <3>1, <3>2, <3>3
  <2>2. ~(probs[most] <= half)
    BY <1>3, <2>1
  <2>3. other = {}
    BY <1>4, <1>8, <1>9, <1>10 DEF Range
  <2>4. Halved(probs, log) = NoTable
    BY <1>5, <2>2, <2>3
  <2> QED
    BY <1>10, <2>4
<1>11. CASE n # 1
  <2>1. CASE probs[most] <= half
    BY <1>5, <1>11, <2>1
  <2>2. CASE ~(probs[most] <= half)
    <3>1. PICK t \in 1..n : t # most
      <4>1. n >= 2
        BY <1>1, <1>2, <1>11
      <4>2. 1 \in 1..n /\ 2 \in 1..n
        BY <1>2, <4>1
      <4> QED
        BY <4>2
    <3>2. probs[t] # half
      <4> SUFFICES ASSUME probs[t] = half PROVE FALSE
        OBVIOUS
      <4> DEFINE zero == Plus(probs, t, -half)
      <4>1. zero \in Seq(Nat) /\ Len(zero) = n /\ SumTo(zero, n) = Pow(log) - half /\ zero[most] = probs[most]
        <5>1. t \in 1..Len(probs) /\ -half \in Int /\ probs[t] + (-half) \in Nat
          BY <1>1, <1>3
        <5>2. /\ zero \in Seq(Nat) /\ Len(zero) = Len(probs)
              /\ \A i \in 1..Len(probs) : zero[i] = probs[i] + (IF i = t THEN -half ELSE 0)
              /\ SumTo(zero, Len(probs)) = SumTo(probs, Len(probs)) + (-half)
          BY <1>1, <5>1, PlusOne
        <5>3. zero[most] = probs[most] + 0
          BY <1>1, <1>4, <3>1, <5>2
        <5> HIDE DEF zero, n
        <5> QED
          BY <1>1, <1>2, <1>3, <1>4, <5>2, <5>3
      <4>2. zero[most] <= SumTo(zero, n)
        <5>1. most \in 1..Len(zero)
          BY <1>4, <4>1
        <5> HIDE DEF zero
        <5> QED
          BY <4>1, <5>1, SumIsNat
      <4> HIDE DEF zero, n
      <4> QED
        BY <1>2, <1>3, <1>4, <2>2, <4>1, <4>2
    <3>3. rest[t] = probs[t]
      BY <1>9, <3>1
    <3>4. rest[t] \in other
      BY <1>8, <3>2, <3>3 DEF Range
    <3>5. other \in SUBSET Int /\ other # {} /\ SumTo(rest, n) \in Int /\ \A x \in other : x <= SumTo(rest, n)
      <4>1. SumTo(rest, Len(rest)) \in Nat /\ \A s \in 1..Len(rest) : rest[s] <= SumTo(rest, Len(rest))
        BY <1>7, SumIsNat
      <4>2. SumTo(rest, n) \in Int /\ \A s \in 1..n : rest[s] <= SumTo(rest, n)
        BY <1>7, <4>1
      <4>3. \A x \in other : \E s \in 1..n : x = rest[s]
        BY <1>8 DEF Range
      <4>4. other # {}
        BY <3>4
      <4> HIDE DEF other
      <4> QED
        BY <1>8, <4>2, <4>3, <4>4
    <3>6. Max(other) \in other
      <4> HIDE DEF other
      <4> QED
        BY <3>5, GreatestOf
    <3>7. PICK u \in 1..n : rest[u] = Max(other)
      BY <1>8, <3>6 DEF Range
    <3> DEFINE U == {s \in DOMAIN rest : rest[s] = Max(other)}
    <3>8. U \in SUBSET Nat /\ U # {}
      <4> HIDE DEF other
      <4>1. \A x \in U : x \in Nat
        BY <1>8
      <4>2. u \in U
        BY <1>8, <3>7
      <4> QED
        BY <4>1, <4>2
    <3>9. second \in U
      <4>1. Min(U) \in U
        <5> HIDE DEF U
        <5> QED
          BY <3>8, LeastOf
      <4> QED
        BY <4>1 DEF second
    <3>10. second \in 1..n
      BY <1>8, <3>9
    <3> DEFINE back == probs[most] - half
               new == Plus(rest, second, back)
    <3>11. back \in Nat /\ back \in Int /\ by + back = 0
      BY <1>2, <1>3, <1>4, <2>2
    <3>12. Halved(probs, log) = new
      BY <1>5, <2>2, <3>4, Zenon
    <3> HIDE DEF back, other, by, U
    <3>13. rest[second] + back \in Nat /\ second \in 1..Len(rest)
      BY <1>7, <1>8, <3>10, <3>11, SMTT(40)
    <3>14. /\ new \in Seq(Nat) /\ Len(new) = Len(rest)
           /\ \A i \in 1..Len(rest) : new[i] = rest[i] + (IF i = second THEN back ELSE 0)
           /\ SumTo(new, Len(rest)) = SumTo(rest, Len(rest)) + back
      BY <1>7, <3>11, <3>13, PlusOne
    <3> HIDE DEF new
    <3>15. SumTo(new, n) = Pow(log)
      <4>1. SumTo(new, n) = (Pow(log) + by) + back
        BY <1>7, <3>14
      <4> HIDE DEF n
      <4> QED
        BY <1>3, <1>6, <3>11, <4>1
    <3>16. \A i \in 1..n : counts[i] # 0 => new[i] # 0
      <4> SUFFICES ASSUME NEW i \in 1..n, counts[i] # 0 PROVE new[i] # 0
        OBVIOUS
      <4>1. rest[i] \in Nat /\ rest[i] # 0
        <5>1. rest[i] \in Nat /\ probs[i] # 0
          BY <1>1, <1>8
        <5>2. CASE i = most
          BY <1>3, <1>9, <5>1, <5>2
        <5>3. CASE i # most
          BY <1>9, <5>1, <5>3
        <5> QED
          BY <5>2, <5>3
      <4>2. new[i] = rest[i] + (IF i = second THEN back ELSE 0)
        BY <1>7, <3>14
      <4>3. CASE i = second
        BY <3>11, <4>1, <4>2, <4>3
      <4>4. CASE i # second
        BY <4>1, <4>2, <4>4
      <4> QED
        BY <4>3, <4>4
    <3>17. Keeps(new, counts)
      BY <1>7, <3>14, <3>16 DEF Keeps
    <3> QED
      BY <1>11, <3>12, <3>15, <3>17 DEF Even
  <2> QED
    BY <2>1, <2>2
<1> QED
  BY <1>10, <1>11

LEMMA AccLogIs ==
    ASSUME NEW sum \in Nat, sum >= 1, sum < Pow(30), NEW maxLog \in 5..9
    PROVE  AccLog(sum, maxLog) \in 5..maxLog /\ (sum < Pow(AccLog(sum, maxLog)) \/ AccLog(sum, maxLog) = maxLog)
<1> DEFINE l == Log2(sum)
           m == Max({l + 1, 5})
           a == AccLog(sum, maxLog)
<1>1. l \in 0..29 /\ sum < Pow(l + 1)
  BY Log2Is
<1> HIDE DEF l
<1>2. m \in {l + 1, 5} /\ m >= l + 1 /\ m >= 5
  <2>1. {l + 1, 5} \in SUBSET Int /\ {l + 1, 5} # {} /\ 35 \in Int /\ \A x \in {l + 1, 5} : x <= 35
    BY <1>1
  <2>2. Max({l + 1, 5}) \in {l + 1, 5} /\ \A y \in {l + 1, 5} : Max({l + 1, 5}) >= y
    BY <2>1, GreatestOf
  <2> QED
    BY <2>2
<1>3. a = Min({m, maxLog})
  BY Zenon DEF AccLog, l
<1>4. m \in 5..30
  BY <1>1, <1>2
<1> HIDE DEF m
<1>5. a \in {m, maxLog} /\ a <= m /\ a <= maxLog
  <2>1. {m, maxLog} \in SUBSET Nat /\ {m, maxLog} # {}
    BY <1>4
  <2>2. Min({m, maxLog}) \in {m, maxLog} /\ \A y \in {m, maxLog} : Min({m, maxLog}) <= y
    BY <2>1, LeastOf, Zenon
  <2> QED
    BY <1>3, <2>2
<1> HIDE DEF a
<1>6. a \in 5..maxLog
  BY <1>4, <1>5
<1>7. a = m => sum < Pow(a)
  <2>1. l + 1 \in 0..31 /\ m \in 0..31 /\ l + 1 <= m
    BY <1>1, <1>2, <1>4
  <2>2. Pow(l + 1) <= Pow(m) /\ Pow(l + 1) \in Nat /\ Pow(m) \in Nat
    BY <2>1, PowLess, Powers
  <2> QED
    BY <1>1, <2>2
<1> QED
  BY <1>5, <1>6, <1>7 DEF a

\* What build_table_from_counts makes a table of.
LEMMA ProbabilitiesAre ==
    ASSUME NEW counts \in Seq(Nat), NEW maxLog \in 5..9, Len(counts) >= 1, Len(counts) <= Pow(maxLog),
           counts[Len(counts)] # 0
    PROVE  IF Len(counts) = 1 THEN Probabilities(counts, maxLog).probs = NoTable
           ELSE /\ Probabilities(counts, maxLog).log \in 5..maxLog
                /\ Even(Probabilities(counts, maxLog).probs, counts, Probabilities(counts, maxLog).log)
<1> DEFINE n == Len(counts)
           probs == Scaled(Shifted(counts))
           sum == SumTo(probs, Len(probs))
           log == AccLog(sum, maxLog)
<1>1. n \in Nat /\ n >= 1 /\ n \in 1..n
  BY RangeIs
<1>2. Keeps(Shifted(counts), counts)
  BY <1>1, ShiftedIs
<1>3. Keeps(probs, counts) /\ \A s \in 1..n : probs[s] <= 2 * n
  BY <1>2, ScaledIs
<1>4. Probabilities(counts, maxLog) = [log |-> log, probs |-> Halved(Normalised(probs, log), log)]
  BY Zenon DEF Probabilities
<1> HIDE DEF probs
<1>5. probs \in Seq(Nat) /\ Len(probs) = n /\ probs[n] # 0
  BY <1>1, <1>3 DEF Keeps
<1>6. \A s \in 1..n : probs[s] \in Nat
  BY <1>5, RangeIs
<1>7. n <= Pow(9) /\ Pow(9) \in Nat /\ Pow(10) \in Nat /\ Pow(10) = 2 * Pow(9)
  <2>1. maxLog \in 0..31 /\ 9 \in 0..31 /\ maxLog <= 9 /\ 9 \in 0..30 /\ 10 \in 0..31 /\ 9 + 1 = 10
    OBVIOUS
  <2>2. Pow(maxLog) <= Pow(9) /\ Pow(maxLog) \in Nat
    BY <2>1, Powers, PowLess
  <2>3. Pow(9) \in Nat /\ Pow(10) \in Nat /\ Pow(10) = 2 * Pow(9)
    BY <2>1, Powers
  <2> QED
    BY <1>1, <2>2, <2>3
<1>8. sum \in Nat /\ sum >= 1 /\ sum <= n * (2 * n)
  <2>1. sum \in Nat /\ probs[n] <= sum
    BY <1>1, <1>5, SumIsNat
  <2>2. SumTo(probs, n) <= n * (2 * n)
    <3> HIDE DEF n
    <3> DEFINE M == 2 * n
    <3>1. M \in Nat
      BY <1>1
    <3>2. \A s \in 1..n : probs[s] \in 0..M
      BY <1>3, <1>6, <3>1
    <3> HIDE DEF M
    <3>3. SumTo(probs, n) <= n * M
      BY <1>1, <3>1, <3>2, SumBounded
    <3> QED
      BY <3>3 DEF M
  <2>3. sum = SumTo(probs, n) /\ probs[n] \in Nat /\ probs[n] # 0
    BY <1>1, <1>5, <1>6
  <2> HIDE DEF n, sum
  <2> QED
    BY <1>1, <2>1, <2>2, <2>3
<1>9. sum < Pow(30)
  <2> DEFINE m == 2 * n
  <2>1. m \in Nat /\ m <= Pow(10)
    BY <1>1, <1>7
  <2>2. 9 \in 0..31 /\ 10 \in 0..31 /\ 19 \in 0..31 /\ 30 \in 0..31 /\ 10 + 9 = 19 /\ 19 < 30 /\ 19 <= 31
    OBVIOUS
  <2>3. Pow(10 + 9) = Pow(10) * Pow(9)
    BY <2>2, PowSum
  <2>4. 2 * Pow(19) <= Pow(30) /\ Pow(19) \in Nat /\ Pow(19) >= 1 /\ Pow(30) \in Nat
    BY <2>2, PowLess, Powers
  <2>5. n * m <= Pow(9) * m /\ m * Pow(9) <= Pow(10) * Pow(9) /\ n * m \in Nat
    <3> HIDE DEF n, m
    <3> QED
      BY <1>1, <1>7, <2>1, ProductsGrow, Products
  <2>6. Pow(9) * m = m * Pow(9) /\ Pow(9) * m \in Int
    <3> HIDE DEF n, m
    <3>1. m \in Int /\ Pow(9) \in Int
      BY <1>7, <2>1
    <3> QED
      BY <3>1, ProductsSwap, Distributes
  <2>7. n * (2 * n) = n * m
    OBVIOUS
  <2>8. Pow(10) * Pow(9) = Pow(19)
    BY <2>2, <2>3
  <2>9. sum <= n * m
    BY <1>8, <2>7
  <2>10. sum \in Nat
    BY <1>8
  <2> HIDE DEF sum, m, n
  <2> QED
    BY <2>4, <2>5, <2>6, <2>8, <2>9, <2>10
<1>10. log \in 5..maxLog /\ (sum < Pow(log) \/ log = maxLog)
  <2> HIDE DEF sum
  <2> QED
    BY <1>8, <1>9, AccLogIs
<1>11. log \in 5..9
  BY <1>10
<1>12. Even(Normalised(probs, log), counts, log)
  <2>1. SumTo(probs, Len(probs)) < Pow(log) \/ Len(probs) <= Pow(log)
    BY <1>5, <1>10
  <2> HIDE DEF log
  <2> QED
    BY <1>1, <1>3, <1>11, <2>1, NormalisedIs
<1>13. IF n = 1 THEN Halved(Normalised(probs, log), log) = NoTable
       ELSE Even(Halved(Normalised(probs, log), log), counts, log)
  <2> HIDE DEF log
  <2> QED
    BY <1>1, <1>11, <1>12, HalvedIs
<1> HIDE DEF log
<1> QED
  BY <1>4, <1>10, <1>13

LEMMA EvenIsSound ==
    ASSUME NEW probs, NEW counts, NEW log \in 5..9, Even(probs, counts, log)
    PROVE  SoundProbs(probs, log)
<1> DEFINE n == Len(counts)
<1>1. probs \in Seq(Nat) /\ Len(probs) = n /\ SumTo(probs, n) = Pow(log)
  BY DEF Even, Keeps
<1>2. n \in Nat /\ DOMAIN probs = 1..n /\ \A s \in 1..n : probs[s] \in Nat
  BY <1>1, RangeIs
<1> HIDE DEF n
<1>3. probs \in Seq(Int)
  <2>1. probs \in [1..n -> Int] /\ n \in Nat
    BY <1>1, <1>2
  <2> QED
    BY <2>1, OfLength
<1>4. \A s \in 1..n : probs[s] \in Int /\ Shares(probs)[s] = probs[s] /\ probs[s] >= -1
  BY <1>2 DEF Shares
<1>5. SumTo(Shares(probs), n) = SumTo(probs, n)
  BY <1>2, <1>4, SumsAgree
<1> QED
  BY <1>1, <1>3, <1>4, <1>5 DEF SoundProbs

-----------------------------------------------------------------------------
(* Numbers bit by bit                                                      *)

Weighted(bits) == [i \in 1..Len(bits) |-> bits[i] * Pow(i - 1)]

LEMMA NumberSums ==
    ASSUME NEW bits \in Seq({0, 1}), Len(bits) <= 30
    PROVE  /\ Number(bits) = SumTo(Weighted(bits), Len(bits))
           /\ \A i \in 1..Len(bits) : Weighted(bits)[i] \in Int
<1> DEFINE n == Len(bits)
           w == Weighted(bits)
           Solves(f) == f = [i \in 0..n |-> IF i = 0 THEN 0 ELSE f[i - 1] + bits[i] * 2^(i - 1)]
           f == CHOOSE f : Solves(f)
<1>1. n \in Nat /\ n <= 30
  OBVIOUS
<1>2. ASSUME NEW i \in 1..n PROVE w[i] = bits[i] * 2^(i - 1) /\ w[i] \in Int
  <2>1. w[i] = bits[i] * Pow(i - 1)
    BY DEF Weighted
  <2>2. i - 1 \in 0..31 /\ bits[i] \in Nat
    BY <1>1
  <2>3. bits[i] * Pow(i - 1) \in Nat
    BY <2>2, Powers, Products
  <2> QED
    BY <2>1, <2>3 DEF Pow
<1> HIDE DEF n, w
<1>3. \E g : Solves(g)
  <2> DEFINE g == [i \in 0..n |-> SumTo(w, i)]
  <2>1. SumTo(w, 0) = 0 /\ \A i \in 1..n : SumTo(w, i) = SumTo(w, i - 1) + w[i]
    BY <1>1, <1>2, Sums
  <2>2. ASSUME NEW i \in 0..n PROVE SumTo(w, i) = IF i = 0 THEN 0 ELSE g[i - 1] + bits[i] * 2^(i - 1)
    <3>1. CASE i = 0
      BY <2>1, <3>1
    <3>2. CASE i # 0
      <4>1. i \in 1..n /\ i - 1 \in 0..n
        BY <1>1, <3>2
      <4>2. SumTo(w, i) = SumTo(w, i - 1) + bits[i] * 2^(i - 1)
        BY <1>2, <2>1, <4>1
      <4>3. g[i - 1] = SumTo(w, i - 1)
        BY <4>1
      <4> HIDE DEF g
      <4> QED
        BY <3>2, <4>2, <4>3
    <3> QED
      BY <3>1, <3>2
  <2>3. Solves(g)
    BY <2>2, Zenon
  <2> QED
    BY <2>3
<1>4. Solves(f)
  <2> HIDE DEF Solves
  <2> QED
    BY <1>3, Zenon
<1>5. Number(bits) = f[n]
  BY Zenon DEF Number, n
<1> HIDE DEF f
<1>6. \A i \in 0..n : f[i] = IF i = 0 THEN 0 ELSE f[i - 1] + bits[i] * 2^(i - 1)
  BY <1>4, Zenon
<1>7. Adds(f, w, n)
  <2>1. f[0] = 0
    BY <1>1, <1>6
  <2>2. ASSUME NEW i \in 1..n PROVE f[i] = f[i - 1] + w[i]
    <3>1. i \in 0..n /\ i # 0
      BY <1>1
    <3> QED
      BY <1>2, <1>6, <3>1
  <2> QED
    BY <2>1, <2>2 DEF Adds
<1>8. SumTo(w, n) = f[n]
  BY <1>1, <1>2, <1>7, SumToIs
<1> QED
  BY <1>2, <1>5, <1>8 DEF n, w

\* One bit more, on top of the others.
LEMMA ReadMore ==
    ASSUME NEW str \in Seq({0, 1}), NEW pos \in Nat, NEW n \in 0..29, pos + n + 1 <= Len(str)
    PROVE  Read(str, pos, n + 1) = Read(str, pos, n) + str[pos + n + 1] * Pow(n)
<1> DEFINE a == SubSeq(str, pos + 1, pos + n)
           b == SubSeq(str, pos + 1, pos + (n + 1))
<1>1. /\ a \in Seq({0, 1}) /\ Len(a) = n /\ \A i \in 1..n : a[i] = str[pos + i]
      /\ b \in Seq({0, 1}) /\ Len(b) = n + 1 /\ \A i \in 1..(n + 1) : b[i] = str[pos + i]
  <2>1. PartOf(a, str, pos, n) /\ a \in Seq({0, 1})
    BY PartIs
  <2>2. PartOf(b, str, pos, n + 1) /\ b \in Seq({0, 1})
    <3>1. n + 1 \in Nat /\ pos + (n + 1) <= Len(str)
      OBVIOUS
    <3> QED
      BY <3>1, PartIs
  <2> QED
    BY <2>1, <2>2, Zenon DEF PartOf
<1>2. Read(str, pos, n) = Number(a) /\ Read(str, pos, n + 1) = Number(b)
  BY Zenon DEF Read
<1> HIDE DEF a, b
<1>l. Len(a) <= 30 /\ Len(b) <= 30
  BY <1>1
<1>3. Number(a) = SumTo(Weighted(a), n) /\ \A i \in 1..n : Weighted(a)[i] \in Int
  <2>1. Number(a) = SumTo(Weighted(a), Len(a)) /\ \A i \in 1..Len(a) : Weighted(a)[i] \in Int
    BY <1>1, <1>l, NumberSums, Zenon
  <2> QED
    BY <1>1, <2>1
<1>4. Number(b) = SumTo(Weighted(b), n + 1) /\ \A i \in 1..(n + 1) : Weighted(b)[i] \in Int
  <2>1. Number(b) = SumTo(Weighted(b), Len(b)) /\ \A i \in 1..Len(b) : Weighted(b)[i] \in Int
    BY <1>1, <1>l, NumberSums, Zenon
  <2> QED
    BY <1>1, <2>1
<1>5. SumTo(Weighted(b), n) = SumTo(Weighted(a), n)
  <2>1. ASSUME NEW i \in 1..n PROVE Weighted(b)[i] = Weighted(a)[i]
    <3>1. i \in 1..Len(a) /\ i \in 1..Len(b) /\ i \in 1..(n + 1)
      BY <1>1
    <3>2. Weighted(a)[i] = a[i] * Pow(i - 1) /\ Weighted(b)[i] = b[i] * Pow(i - 1)
      BY <3>1, Zenon DEF Weighted
    <3> QED
      BY <1>1, <3>1, <3>2
  <2>2. n \in Nat
    OBVIOUS
  <2> QED
    BY <1>3, <2>1, <2>2, SumsAgree
<1>6. SumTo(Weighted(b), n + 1) = SumTo(Weighted(b), n) + Weighted(b)[n + 1]
  <2>1. n + 1 \in Nat /\ n + 1 \in 1..(n + 1) /\ (n + 1) - 1 = n
    OBVIOUS
  <2> QED
    BY <1>4, <2>1, Sums
<1>7. Weighted(b)[n + 1] = str[pos + n + 1] * Pow(n)
  <2>1. n + 1 \in 1..Len(b) /\ (n + 1) - 1 = n /\ pos + (n + 1) = pos + n + 1
    BY <1>1
  <2>2. Weighted(b)[n + 1] = b[n + 1] * Pow((n + 1) - 1)
    BY <2>1, Zenon DEF Weighted
  <2>3. b[n + 1] = str[pos + (n + 1)]
    BY <1>1, <2>1
  <2> QED
    BY <2>1, <2>2, <2>3
<1> QED
  BY <1>2, <1>3, <1>4, <1>5, <1>6, <1>7

LEMMA ReadBound ==
    ASSUME NEW str \in Seq({0, 1}), NEW pos \in Nat
    PROVE  \A n \in 0..30 : pos + n <= Len(str) => Read(str, pos, n) \in Nat /\ Read(str, pos, n) < Pow(n)
<1> DEFINE T == {n \in Nat : n <= 30 /\ pos + n <= Len(str) => Read(str, pos, n) \in Nat /\ Read(str, pos, n) < Pow(n)}
<1>1. 0 \in T
  <2> SUFFICES ASSUME pos + 0 <= Len(str) PROVE Read(str, pos, 0) \in Nat /\ Read(str, pos, 0) < Pow(0)
    OBVIOUS
  <2>1. 0 \in 0..30 /\ 0 \in Nat /\ Pow(0) = 1 /\ 0 < Pow(0)
    BY Powers
  <2>2. \A i \in 1..0 : str[pos + i] = Bits(0, 0)[i]
    OBVIOUS
  <2>3. Read(str, pos, 0) = 0
    BY <2>1, <2>2, PieceIsRead
  <2> QED
    BY <2>1, <2>3
<1>2. ASSUME NEW n \in T PROVE n + 1 \in T
  <2> SUFFICES ASSUME n + 1 <= 30, pos + (n + 1) <= Len(str)
               PROVE  Read(str, pos, n + 1) \in Nat /\ Read(str, pos, n + 1) < Pow(n + 1)
    OBVIOUS
  <2>1. n \in Nat /\ n \in 0..29 /\ n \in 0..30 /\ n \in 0..31 /\ pos + n <= Len(str) /\ pos + n + 1 <= Len(str)
        /\ pos + n + 1 \in 1..Len(str)
    OBVIOUS
  <2>2. Read(str, pos, n) \in Nat /\ Read(str, pos, n) < Pow(n)
    BY <2>1
  <2>3. Read(str, pos, n + 1) = Read(str, pos, n) + str[pos + n + 1] * Pow(n)
    BY <2>1, ReadMore
  <2>4. Pow(n + 1) = 2 * Pow(n) /\ Pow(n) \in Nat
    BY <2>1, Powers
  <2>5. str[pos + n + 1] \in {0, 1}
    BY <2>1
  <2> DEFINE x == str[pos + n + 1]
             P == Pow(n)
  <2>6. x = 0 \/ x = 1
    BY <2>5
  <2> HIDE DEF x
  <2>7. P \in Nat /\ x * P = IF x = 0 THEN 0 ELSE P
    BY <2>4, <2>6
  <2>8. Read(str, pos, n + 1) = Read(str, pos, n) + x * P
    BY <2>3 DEF x
  <2> QED
    BY <2>2, <2>4, <2>7, <2>8
<1>3. \A n \in Nat : n \in T
  <2>1. T \in SUBSET Nat
    OBVIOUS
  <2> HIDE DEF T
  <2> QED
    BY <1>1, <1>2, <2>1, InductionOnSets, Zenon
<1> QED
  BY <1>3

-----------------------------------------------------------------------------
(* The value of a probability                                              *)

\* The width of the numbers up to a most.
Fit(most, w, p, low) ==
    /\ w = Width(most) /\ w \in 2..10 /\ p = Pow(w - 1) /\ p \in Nat /\ p >= 2
    /\ Pow(w) = 2 * p /\ p <= most /\ most < 2 * p
    /\ low = Threshold(most) /\ low = 2 * p - 1 - most /\ low \in Nat /\ low < p

LEMMA FitIs ==
    ASSUME NEW most \in Nat, most >= 2, most <= 513
    PROVE  Fit(most, Width(most), Pow(Width(most) - 1), Threshold(most))
<1> DEFINE l == Log2(most)
           w == Width(most)
           p == Pow(l)
<1>1. most < Pow(10)
  <2>1. Pow(10) = 1024
    BY DEF Pow
  <2> QED
    BY <2>1
<1>2. l \in 0..29 /\ p <= most /\ most < Pow(l + 1)
  <2>1. 10 \in 0..31 /\ 30 \in 0..31 /\ 10 <= 30
    OBVIOUS
  <2>2. Pow(10) <= Pow(30) /\ Pow(10) \in Nat /\ Pow(30) \in Nat
    BY <2>1, PowLess, Powers
  <2>3. most < Pow(30)
    BY <1>1, <2>2
  <2> QED
    BY <2>3, Log2Is
<1>3. w = l + 1
  BY DEF Width
<1> HIDE DEF l, w
<1>4. l >= 1
  <2>1. l = 0 => Pow(l + 1) = 2
    <3>1. Pow(0 + 1) = 2 * Pow(0) /\ Pow(0) = 1
      BY Powers
    <3> QED
      BY <3>1
  <2> QED
    BY <1>2, <2>1
<1>5. l <= 9
  <2>1. 10 <= l => Pow(10) <= Pow(l)
    <3>1. 10 \in 0..31 /\ l \in 0..31
      BY <1>2
    <3> QED
      BY <3>1, PowLess
  <2>2. p \in Nat /\ Pow(10) \in Nat
    <3>1. 10 \in 0..31 /\ l \in 0..31
      BY <1>2
    <3> QED
      BY <3>1, Powers
  <2> QED
    BY <1>1, <1>2, <2>1, <2>2
<1>6. Pow(l + 1) = 2 * p /\ p \in Nat /\ p >= 2
  <2>1. l \in 0..30 /\ l \in 0..31 /\ 1 \in 0..31 /\ 1 <= l
    BY <1>2, <1>4
  <2>2. Pow(1) <= Pow(l) /\ Pow(0 + 1) = 2 * Pow(0) /\ Pow(0) = 1
    <3>1. 0 \in 0..30
      OBVIOUS
    <3> QED
      BY <2>1, <3>1, PowLess, Powers
  <2>3. Pow(l + 1) = 2 * p /\ p \in Nat
    BY <2>1, Powers
  <2>4. Pow(1) = 2
    BY <2>2
  <2> QED
    BY <2>2, <2>3, <2>4
<1>7. w - 1 = l /\ w \in 2..10 /\ Pow(w) = 2 * p
  BY <1>2, <1>3, <1>4, <1>5, <1>6
<1>8. Threshold(most) = Pow(w) - 1 - most
  BY DEF Threshold, Pow, w
<1> HIDE DEF p
<1>9. Threshold(most) = 2 * p - 1 - most /\ Threshold(most) \in Nat /\ Threshold(most) < p
  BY <1>2, <1>6, <1>7, <1>8
<1>10. p = Pow(w - 1)
  BY <1>7 DEF p
<1> QED
  BY <1>2, <1>6, <1>7, <1>9, <1>10 DEF Fit, w

\* What ReadProbability takes for the value, and where it ends.
ValueAt(str, pos, most) ==
    LET unchecked == Read(str, pos, Width(most))
        small     == unchecked % 2^(Width(most) - 1)
    IN  CASE small < Threshold(most) -> small
          [] small >= Threshold(most) /\ unchecked # small -> unchecked - Threshold(most)
          [] OTHER -> unchecked

BehindAt(str, pos, most) ==
    pos + Width(most) - (IF Read(str, pos, Width(most)) % 2^(Width(most) - 1) < Threshold(most) THEN 1 ELSE 0)

LEMMA ValueIs ==
    ASSUME NEW str \in Seq({0, 1}), NEW pos \in Nat, NEW most \in Nat, most >= 2, most <= 513,
           pos + Width(most) <= Len(str), NEW u, u = Read(str, pos, Width(most)), NEW p, p = Pow(Width(most) - 1),
           NEW low, low = Threshold(most), NEW b, b = str[pos + Width(most)]
    PROVE  /\ u \in Nat /\ b \in {0, 1} /\ u % p \in Nat /\ u = (u % p) + b * p /\ u % p < p
           /\ u % p = Read(str, pos, Width(most) - 1)
           /\ ValueAt(str, pos, most) = IF u % p < low THEN u % p ELSE IF b = 1 THEN u - low ELSE u
           /\ BehindAt(str, pos, most) = pos + Width(most) - (IF u % p < low THEN 1 ELSE 0)
<1> DEFINE w == Width(most)
           c == Read(str, pos, w - 1)
<1>1. Fit(most, w, p, low)
  BY FitIs
<1>2. /\ w \in 2..10 /\ p = Pow(w - 1) /\ p \in Nat /\ p >= 2 /\ Pow(w) = 2 * p /\ p <= most /\ most < 2 * p
      /\ low = 2 * p - 1 - most /\ low \in Nat /\ low < p
  BY <1>1 DEF Fit
<1> HIDE DEF w
<1>w. u = Read(str, pos, w) /\ pos + w <= Len(str) /\ b = str[pos + w] /\ low = Threshold(most)
  BY DEF w
<1>3. w - 1 \in 0..29 /\ w - 1 \in 0..30 /\ pos + (w - 1) + 1 <= Len(str) /\ pos + (w - 1) <= Len(str)
      /\ (w - 1) + 1 = w /\ pos + (w - 1) + 1 = pos + w /\ pos + w \in 1..Len(str)
  BY <1>2, <1>w, SMTT(40)
<1>4. u = c + b * p
  <2>1. Read(str, pos, (w - 1) + 1) = Read(str, pos, w - 1) + str[pos + (w - 1) + 1] * Pow(w - 1)
    BY <1>3, ReadMore
  <2> QED
    BY <1>2, <1>3, <1>w, <2>1
<1>5. c \in Nat /\ c < p
  BY <1>2, <1>3, ReadBound
<1>6. b \in {0, 1}
  BY <1>3, <1>w
<1> HIDE DEF c
<1>7. u \in Nat /\ u % p = c
  <2>1. u = b * p + c /\ b \in Nat
    <3>1. b * p \in Nat
      BY <1>2, <1>6, Products
    <3> QED
      BY <1>4, <1>5, <1>6, <3>1
  <2>2. (b * p + c) % p = c
    <3>1. p \in Nat \ {0} /\ b \in Nat /\ c \in Nat /\ c < p
      BY <1>2, <1>5, <2>1
    <3> QED
      BY <3>1, QuotientIs, Zenon
  <2>3. b * p \in Nat
    BY <1>2, <2>1, Products
  <2> QED
    BY <1>5, <2>1, <2>2, <2>3
<1>8. u # c <=> b = 1
  <2>1. b = 0 \/ b = 1
    BY <1>6
  <2>2. b * p = IF b = 0 THEN 0 ELSE p
    BY <1>2, <2>1, SMTT(40)
  <2> QED
    BY <1>2, <1>4, <1>5, <2>1, <2>2, SMTT(40)
<1>9. 2^(w - 1) = p
  BY <1>2 DEF Pow
<1>10. ValueAt(str, pos, most) = CASE u % p < low -> u % p
                                   [] u % p >= low /\ u # u % p -> u - low
                                   [] OTHER -> u
  BY <1>9, <1>w, ZenonT(60) DEF ValueAt, w
<1>11. ValueAt(str, pos, most) = IF u % p < low THEN u % p ELSE IF b = 1 THEN u - low ELSE u
  BY <1>2, <1>5, <1>7, <1>8, <1>10, SMTT(40)
<1>12. BehindAt(str, pos, most) = pos + w - (IF u % p < low THEN 1 ELSE 0)
  BY <1>9, <1>w, Zenon DEF BehindAt, w
<1> QED
  BY <1>4, <1>5, <1>6, <1>7, <1>11, <1>12 DEF w, c

\* Nothing that can be read is more than there is.
LEMMA ValueBound ==
    ASSUME NEW str \in Seq({0, 1}), NEW pos \in Nat, NEW most \in Nat, most >= 2, most <= 513,
           pos + Width(most) <= Len(str)
    PROVE  ValueAt(str, pos, most) \in 0..most /\ BehindAt(str, pos, most) \in Nat
<1> DEFINE w == Width(most)
           u == Read(str, pos, w)
           p == Pow(w - 1)
           low == Threshold(most)
           b == str[pos + w]
<1>1. /\ w \in 2..10 /\ p \in Nat /\ p >= 2 /\ p <= most /\ most < 2 * p
      /\ low = 2 * p - 1 - most /\ low \in Nat /\ low < p
  BY FitIs DEF Fit
<1>2. /\ u \in Nat /\ b \in {0, 1} /\ u % p \in Nat /\ u = (u % p) + b * p /\ u % p < p
      /\ ValueAt(str, pos, most) = IF u % p < low THEN u % p ELSE IF b = 1 THEN u - low ELSE u
      /\ BehindAt(str, pos, most) = pos + w - (IF u % p < low THEN 1 ELSE 0)
  BY ValueIs
<1> HIDE DEF u, p, low, b, w
<1> DEFINE c == u % p
<1>3. b * p = IF b = 1 THEN p ELSE 0
  BY <1>1, <1>2
<1> HIDE DEF c
<1>4. /\ c \in Nat /\ u = c + b * p /\ c < p
      /\ ValueAt(str, pos, most) = IF c < low THEN c ELSE IF b = 1 THEN u - low ELSE u
      /\ BehindAt(str, pos, most) = pos + w - (IF c < low THEN 1 ELSE 0)
  BY <1>2 DEF c
<1> QED
  BY <1>1, <1>2, <1>3, <1>4

LEMMA ValueBitsAre ==
    ASSUME NEW most \in Nat, most >= 2, most <= 513, NEW prob \in Int, prob >= -1, prob + 1 <= most
    PROVE  /\ ProbabilityBits(prob, most) \in Seq({0, 1})
           /\ Len(ProbabilityBits(prob, most)) = Width(most) - (IF prob + 1 < Threshold(most) THEN 1 ELSE 0)
           /\ Len(ProbabilityBits(prob, most)) >= 1
<1> DEFINE w == Width(most)
           p == Pow(w - 1)
           low == Threshold(most)
           value == prob + 1
<1>1. /\ w \in 2..10 /\ p \in Nat /\ p >= 2 /\ p <= most /\ most < 2 * p
      /\ low = 2 * p - 1 - most /\ low \in Nat /\ low < p
  BY FitIs DEF Fit
<1>2. ProbabilityBits(prob, most) = IF value < low THEN Bits(value, w - 1)
                                    ELSE IF value > p - 1 THEN Bits(value + low, w) ELSE Bits(value, w)
  BY Zenon DEF ProbabilityBits, Pow
<1>3. value \in Nat
  OBVIOUS
<1> HIDE DEF value, low, p, w
<1>4. value + low \in Nat /\ w - 1 \in 0..30 /\ w \in 0..30
  BY <1>1, <1>3
<1>5. Bits(value, w - 1) \in Seq({0, 1}) /\ Len(Bits(value, w - 1)) = w - 1
  BY <1>3, <1>4, BitsAre
<1>6. Bits(value, w) \in Seq({0, 1}) /\ Len(Bits(value, w)) = w
  BY <1>3, <1>4, BitsAre
<1>7. Bits(value + low, w) \in Seq({0, 1}) /\ Len(Bits(value + low, w)) = w
  BY <1>4, BitsAre
<1>8. /\ ProbabilityBits(prob, most) \in Seq({0, 1})
      /\ Len(ProbabilityBits(prob, most)) = w - (IF value < low THEN 1 ELSE 0)
  BY <1>1, <1>2, <1>5, <1>6, <1>7
<1> QED
  BY <1>1, <1>8 DEF value, low, w

\* The value that was written is the one that is read.
Holds(str, pos, bits) == \A i \in 1..Len(bits) : str[pos + i] = bits[i]

IsRead(str, pos, most, prob, bits) ==
    ValueAt(str, pos, most) = prob + 1 /\ BehindAt(str, pos, most) = pos + Len(bits)

LEMMA ValueIsRead ==
    ASSUME NEW str \in Seq({0, 1}), NEW pos \in Nat, NEW most \in Nat, most >= 2, most <= 513,
           pos + Width(most) <= Len(str), NEW prob \in Int, prob >= -1, prob + 1 <= most,
           NEW bits, bits = ProbabilityBits(prob, most), Holds(str, pos, bits)
    PROVE  IsRead(str, pos, most, prob, bits)
<1> DEFINE w == Width(most)
           u == Read(str, pos, w)
           p == Pow(w - 1)
           low == Threshold(most)
           b == str[pos + w]
           value == prob + 1
<1>h. \A i \in 1..Len(bits) : str[pos + i] = bits[i]
  BY DEF Holds
<1>1. /\ w \in 2..10 /\ p \in Nat /\ p >= 2 /\ p <= most /\ most < 2 * p /\ Pow(w) = 2 * p
      /\ low = 2 * p - 1 - most /\ low \in Nat /\ low < p
  BY FitIs DEF Fit
<1>2. /\ u \in Nat /\ b \in {0, 1} /\ u % p \in Nat /\ u = (u % p) + b * p /\ u % p < p
      /\ u % p = Read(str, pos, w - 1)
      /\ ValueAt(str, pos, most) = IF u % p < low THEN u % p ELSE IF b = 1 THEN u - low ELSE u
      /\ BehindAt(str, pos, most) = pos + w - (IF u % p < low THEN 1 ELSE 0)
  BY ValueIs
<1>3. bits = IF value < low THEN Bits(value, w - 1)
                                    ELSE IF value > p - 1 THEN Bits(value + low, w) ELSE Bits(value, w)
  BY Zenon DEF ProbabilityBits, Pow
<1>4. value \in Nat /\ value <= most
  OBVIOUS
<1>5. Len(bits) = w - (IF value < low THEN 1 ELSE 0)
  BY ValueBitsAre
<1>6. \A n \in 0..30 : pos + n <= Len(str) =>
         \A v \in Nat : v < Pow(n) /\ (\A i \in 1..n : str[pos + i] = Bits(v, n)[i]) => Read(str, pos, n) = v
  BY PieceIsRead
<1>w. pos + w <= Len(str)
  OBVIOUS
<1> HIDE DEF value, low, w
<1>7. w \in 0..30 /\ w - 1 \in 0..30 /\ pos + (w - 1) <= Len(str)
  BY <1>1, <1>w, SMTT(40)
<1>8. CASE value < low
  <2>1. bits = Bits(value, w - 1) /\ Len(bits) = w - 1
    BY <1>1, <1>3, <1>5, <1>8
  <2>2. \A i \in 1..(w - 1) : str[pos + i] = Bits(value, w - 1)[i]
    BY <1>h, <2>1
  <2>3. value < Pow(w - 1)
    BY <1>1, <1>4, <1>8
  <2>4. Read(str, pos, w - 1) = value
    BY <1>4, <1>6, <1>7, <2>2, <2>3
  <2> HIDE DEF p, u, b
  <2>5. u % p = value
    BY <1>2, <2>4
  <2> QED
    BY <1>1, <1>2, <1>8, <2>1, <2>5 DEF value, IsRead
<1>9. CASE ~(value < low)
  <2> DEFINE x == IF value > p - 1 THEN value + low ELSE value
  <2>1. bits = Bits(x, w) /\ Len(bits) = w
    BY <1>1, <1>3, <1>5, <1>9
  <2> HIDE DEF p, u, b
  <2>2. x \in Nat /\ x < 2 * p
    BY <1>1, <1>4
  <2> HIDE DEF x
  <2>3. \A i \in 1..w : str[pos + i] = Bits(x, w)[i]
    BY <1>h, <2>1
  <2>4. x < Pow(w)
    BY <1>1, <2>2
  <2>5. Read(str, pos, w) = x
    BY <1>6, <1>7, <1>w, <2>2, <2>3, <2>4
  <2>6. u = x
    BY <2>5 DEF u
  <2> DEFINE c == u % p
  <2>7. b * p = IF b = 1 THEN p ELSE 0
    BY <1>1, <1>2
  <2>8. /\ c \in Nat /\ u = c + b * p /\ c < p
        /\ ValueAt(str, pos, most) = IF c < low THEN c ELSE IF b = 1 THEN u - low ELSE u
        /\ BehindAt(str, pos, most) = pos + w - (IF c < low THEN 1 ELSE 0)
    BY <1>2
  <2> HIDE DEF c
  <2>9. x = IF value > p - 1 THEN value + low ELSE value
    BY DEF x
  <2>10. value = prob + 1
    BY DEF value
  <2>11. CASE value > p - 1
    <3>1. u = value + low /\ u >= p
      BY <1>1, <1>4, <2>6, <2>9, <2>11
    <3>2. b = 1
      BY <1>1, <1>2, <2>7, <2>8, <3>1
    <3>3. c >= low
      BY <1>1, <1>4, <2>7, <2>8, <2>11, <3>1, <3>2
    <3>4. ValueAt(str, pos, most) = u - low /\ BehindAt(str, pos, most) = pos + w
      BY <1>1, <2>8, <3>2, <3>3
    <3> QED
      BY <1>1, <1>4, <2>1, <2>10, <3>1, <3>4 DEF IsRead
  <2>12. CASE ~(value > p - 1)
    <3>1. u = value /\ u < p
      BY <1>1, <1>4, <2>6, <2>9, <2>12
    <3>2. b = 0 /\ c = value
      BY <1>1, <1>2, <1>4, <2>7, <2>8, <3>1
    <3>3. ValueAt(str, pos, most) = u /\ BehindAt(str, pos, most) = pos + w
      BY <1>1, <1>4, <1>9, <2>8, <3>2
    <3> QED
      BY <2>1, <2>10, <3>1, <3>3 DEF IsRead
  <2> QED
    BY <2>11, <2>12
<1> QED
  BY <1>8, <1>9

-----------------------------------------------------------------------------
(* Runs of zeros                                                           *)

\* So many threes and a remainder.
Threes(z, q, r) ==
    /\ q \in Nat /\ r \in 0..2 /\ z = 3 * q + r
    /\ ZeroRun(z) \in Seq({0, 1}) /\ Len(ZeroRun(z)) = 2 * q + 2
    /\ \A i \in 1..(2 * q) : ZeroRun(z)[i] = 1
    /\ \A i \in 1..2 : ZeroRun(z)[2 * q + i] = Bits(r, 2)[i]

LEMMA ZeroRunIs ==
    ASSUME NEW z \in Nat, NEW q, q = z \div 3, NEW r, r = z % 3
    PROVE  Threes(z, q, r)
<1>1. q \in Nat /\ r \in 0..2 /\ z = 3 * q + r
  <2>1. z \div 3 \in Nat /\ z % 3 \in Nat /\ z % 3 < 3 /\ z = (z \div 3) * 3 + (z % 3)
    OBVIOUS
  <2> QED
    BY <2>1
<1> DEFINE ones == [i \in 1..(2 * q) |-> 1]
           n == 2 * q
<1>2. n \in Nat /\ ones \in [1..n -> {0, 1}]
  BY <1>1
<1>3. ones \in Seq({0, 1}) /\ Len(ones) = n
  BY <1>2, OfLength
<1>4. Bits(r, 2) \in Seq({0, 1}) /\ Len(Bits(r, 2)) = 2
  BY <1>1, BitsAre
<1>5. ZeroRun(z) = ones \o Bits(r, 2)
  BY DEF ZeroRun
<1>6. \A i \in 1..n : ones[i] = 1
  OBVIOUS
<1> HIDE DEF ones
<1>7. ones \o Bits(r, 2) \in Seq({0, 1}) /\ Row(ones \o Bits(r, 2), ones, n, Bits(r, 2), 2)
  BY <1>2, <1>3, <1>4, InARow
<1>8. /\ Len(ZeroRun(z)) = n + 2 /\ \A i \in 1..n : ZeroRun(z)[i] = ones[i]
      /\ \A i \in 1..2 : ZeroRun(z)[n + i] = Bits(r, 2)[i]
  BY <1>5, <1>7, Zenon DEF Row
<1> QED
  BY <1>1, <1>5, <1>6, <1>7, <1>8 DEF Threes

LEMMA PairIs ==
    ASSUME NEW str \in Seq({0, 1}), NEW pos \in Nat, NEW k \in Nat, pos + 2 * k + 2 <= Len(str)
    PROVE  /\ Read(str, pos + 2 * k, 2) \in 0..3
           /\ (\A i \in 1..2 : str[pos + 2 * k + i] = 1) => Read(str, pos + 2 * k, 2) = 3
           /\ \A r \in 0..3 : (\A i \in 1..2 : str[pos + 2 * k + i] = Bits(r, 2)[i]) => Read(str, pos + 2 * k, 2) = r
<1> DEFINE at == pos + 2 * k
<1>1. at \in Nat /\ at + 2 <= Len(str) /\ 2 \in 0..30
  OBVIOUS
<1>2. Pow(2) = 4 /\ Pow(0) = 1 /\ Pow(1) = 2
  BY DEF Pow
<1> HIDE DEF at
<1>3. Read(str, at, 2) \in Nat /\ Read(str, at, 2) < 4
  BY <1>1, <1>2, ReadBound
<1>4. ASSUME NEW r \in 0..3, \A i \in 1..2 : str[at + i] = Bits(r, 2)[i] PROVE Read(str, at, 2) = r
  <2>1. r \in Nat /\ r < Pow(2)
    BY <1>2
  <2> QED
    BY <1>1, <1>4, <2>1, PieceIsRead
<1>5. Bits(3, 2)[1] = 1 /\ Bits(3, 2)[2] = 1
  <2>0. 3 \in Nat /\ 2 \in 0..30
    OBVIOUS
  <2>1. \A i \in 1..2 : Bits(3, 2)[i] = (3 \div Pow(i - 1)) % 2
    BY <2>0, BitsAre
  <2>2. Bits(3, 2)[1] = (3 \div Pow(0)) % 2
    BY <2>1
  <2>3. Bits(3, 2)[2] = (3 \div Pow(1)) % 2
    BY <2>1
  <2> QED
    BY <1>2, <2>2, <2>3
<1>6. ASSUME \A i \in 1..2 : str[at + i] = 1 PROVE Read(str, at, 2) = 3
  <2>1. \A i \in 1..2 : i = 1 \/ i = 2
    OBVIOUS
  <2>2. \A i \in 1..2 : str[at + i] = Bits(3, 2)[i]
    BY <1>5, <1>6, <2>1
  <2>3. 3 \in 0..3
    OBVIOUS
  <2> QED
    BY <1>4, <2>2, <2>3
<1> QED
  BY <1>3, <1>4, <1>6 DEF at

\* Pairs of bits that are not three.
Ends(str, pos) == {k \in 0..((Len(str) - pos) \div 2 - 1) : Read(str, pos + 2 * k, 2) # 3}

LEMMA SkipIs ==
    ASSUME NEW str \in Seq({0, 1}), NEW pos \in Nat
    PROVE  /\ Ends(str, pos) \in SUBSET Nat /\ \A k \in Ends(str, pos) : pos + 2 * k + 2 <= Len(str)
           /\ SkipZeros(str, pos) =
                IF Ends(str, pos) = {} THEN [pos |-> 0, zeros |-> 0]
                ELSE [pos |-> pos + 2 * Min(Ends(str, pos)) + 2,
                      zeros |-> 3 * Min(Ends(str, pos)) + Read(str, pos + 2 * Min(Ends(str, pos)), 2)]
<1>1. Ends(str, pos) \in SUBSET Nat
  BY DEF Ends
<1>2. \A k \in Ends(str, pos) : pos + 2 * k + 2 <= Len(str)
  <2>1. Len(str) \in Nat
    OBVIOUS
  <2> SUFFICES ASSUME NEW k \in 0..((Len(str) - pos) \div 2 - 1) PROVE pos + 2 * k + 2 <= Len(str)
    BY DEF Ends
  <2> QED
    BY <2>1
<1>3. SkipZeros(str, pos) =
                IF Ends(str, pos) = {} THEN [pos |-> 0, zeros |-> 0]
                ELSE [pos |-> pos + 2 * Min(Ends(str, pos)) + 2,
                      zeros |-> 3 * Min(Ends(str, pos)) + Read(str, pos + 2 * Min(Ends(str, pos)), 2)]
  BY Zenon DEF SkipZeros, Ends
<1> QED
  BY <1>1, <1>2, <1>3

LEMMA SkipBound ==
    ASSUME NEW str \in Seq({0, 1}), NEW pos \in Nat
    PROVE  SkipZeros(str, pos).pos \in Nat /\ SkipZeros(str, pos).zeros \in Nat
<1> DEFINE E == Ends(str, pos)
           m == Min(E)
<1>1. /\ E \in SUBSET Nat /\ \A k \in E : pos + 2 * k + 2 <= Len(str)
      /\ SkipZeros(str, pos) = IF E = {} THEN [pos |-> 0, zeros |-> 0]
                               ELSE [pos |-> pos + 2 * m + 2, zeros |-> 3 * m + Read(str, pos + 2 * m, 2)]
  BY SkipIs
<1> HIDE DEF E
<1>2. CASE E = {}
  BY <1>1, <1>2
<1>3. CASE E # {}
  <2>1. m \in E
    BY <1>1, <1>3, LeastOf
  <2>2. m \in Nat /\ pos + 2 * m + 2 <= Len(str)
    BY <1>1, <2>1
  <2> HIDE DEF m
  <2>3. Read(str, pos + 2 * m, 2) \in 0..3
    BY <2>2, PairIs
  <2> DEFINE x == Read(str, pos + 2 * m, 2)
  <2>4. SkipZeros(str, pos) = [pos |-> pos + 2 * m + 2, zeros |-> 3 * m + x]
    BY <1>1, <1>3
  <2>5. x \in Nat
    BY <2>3
  <2> HIDE DEF x
  <2> QED
    BY <2>2, <2>4, <2>5
<1> QED
  BY <1>2, <1>3

LEMMA ZerosAreSkipped ==
    ASSUME NEW str \in Seq({0, 1}), NEW pos \in Nat, NEW z \in Nat,
           NEW run, run = ZeroRun(z), pos + Len(run) <= Len(str), \A i \in 1..Len(run) : str[pos + i] = run[i]
    PROVE  SkipZeros(str, pos) = [pos |-> pos + Len(run), zeros |-> z]
<1> DEFINE q == z \div 3
           r == z % 3
           E == Ends(str, pos)
           m == Min(E)
<1>a. /\ q \in Nat /\ r \in 0..2 /\ z = 3 * q + r
      /\ ZeroRun(z) \in Seq({0, 1}) /\ Len(ZeroRun(z)) = 2 * q + 2
      /\ \A i \in 1..(2 * q) : ZeroRun(z)[i] = 1
      /\ \A i \in 1..2 : ZeroRun(z)[2 * q + i] = Bits(r, 2)[i]
  <2>1. Threes(z, q, r)
    BY ZeroRunIs, Zenon
  <2> HIDE DEF q, r
  <2> QED
    BY <2>1, Zenon DEF Threes
<1> HIDE DEF q, r
<1>1. q \in Nat /\ r \in 0..2 /\ z = 3 * q + r /\ Len(run) = 2 * q + 2
  BY <1>a
<1>b. \A i \in 1..(2 * q) : run[i] = 1
  BY <1>a, Zenon
<1>c. \A i \in 1..2 : run[2 * q + i] = Bits(r, 2)[i]
  BY <1>a, Zenon
<1>2. /\ E \in SUBSET Nat /\ \A k \in E : pos + 2 * k + 2 <= Len(str)
      /\ SkipZeros(str, pos) = IF E = {} THEN [pos |-> 0, zeros |-> 0]
                               ELSE [pos |-> pos + 2 * m + 2, zeros |-> 3 * m + Read(str, pos + 2 * m, 2)]
  BY SkipIs
<1>3. ASSUME NEW k \in Nat, k < q PROVE Read(str, pos + 2 * k, 2) = 3
  <2>1. pos + 2 * k + 2 <= Len(str)
    BY <1>1, <1>3
  <2>2. ASSUME NEW i \in 1..2 PROVE str[pos + 2 * k + i] = 1
    <3> DEFINE j == 2 * k + i
    <3>1. j \in 1..(2 * q) /\ j \in 1..Len(run) /\ pos + j = pos + 2 * k + i
      BY <1>1, <1>3
    <3> HIDE DEF j
    <3>2. str[pos + j] = run[j] /\ run[j] = 1
      BY <1>b, <3>1
    <3> QED
      BY <3>1, <3>2
  <2> QED
    BY <2>1, <2>2, PairIs
<1>4. Read(str, pos + 2 * q, 2) = r
  <2>1. pos + 2 * q + 2 <= Len(str) /\ r \in 0..3
    BY <1>1
  <2>2. ASSUME NEW i \in 1..2 PROVE str[pos + 2 * q + i] = Bits(r, 2)[i]
    <3> DEFINE j == 2 * q + i
    <3>1. j \in 1..Len(run) /\ pos + j = pos + 2 * q + i
      BY <1>1
    <3>2. str[pos + j] = run[j] /\ run[j] = Bits(r, 2)[i]
      BY <1>c, <3>1
    <3> HIDE DEF j
    <3> QED
      BY <3>1, <3>2
  <2>3. q \in Nat
    BY <1>1
  <2>4. \A s \in 0..3 : (\A i \in 1..2 : str[pos + 2 * q + i] = Bits(s, 2)[i]) => Read(str, pos + 2 * q, 2) = s
    BY <2>1, <2>3, PairIs
  <2> QED
    BY <2>1, <2>2, <2>4, Zenon
<1>5. q \in E
  <2>1. Len(str) \in Nat /\ 2 * q + 2 <= Len(str) - pos
    BY <1>1
  <2>2. q \in 0..((Len(str) - pos) \div 2 - 1)
    BY <1>1, <2>1
  <2>3. r # 3
    BY <1>1
  <2> QED
    BY <1>4, <2>2, <2>3 DEF Ends
<1>6. \A k \in E : Read(str, pos + 2 * k, 2) # 3
  BY DEF Ends
<1> HIDE DEF E
<1>7. m = q
  <2>1. m \in E /\ m <= q
    BY <1>2, <1>5, LeastOf
  <2>2. m \in Nat
    BY <1>2, <2>1
  <2>3. ~(m < q)
    BY <1>3, <1>6, <2>1, <2>2
  <2> QED
    BY <1>1, <2>1, <2>2, <2>3
<1> HIDE DEF m
<1>8. SkipZeros(str, pos) = [pos |-> pos + 2 * q + 2, zeros |-> 3 * q + r]
  BY <1>2, <1>4, <1>5, <1>7
<1>9. pos + 2 * q + 2 = pos + Len(run) /\ 3 * q + r = z
  <2>1. q \in Nat /\ r \in Nat /\ Len(run) = 2 * q + 2 /\ z = 3 * q + r
    BY <1>1
  <2> HIDE DEF q, r
  <2> QED
    BY <2>1
<1> QED
  BY <1>8, <1>9

-----------------------------------------------------------------------------
(* What is left of the sum in front of a symbol                            *)

Unused(probs, log, s) == Pow(log) - SumTo(Shares(probs), s - 1)

\* Probabilities the last of which is used.
Describable(probs, log) == SoundProbs(probs, log) /\ Len(probs) >= 1 /\ probs[Len(probs)] # 0

LEMMA PowLogIs ==
    ASSUME NEW log \in 5..9
    PROVE  Pow(log) \in Nat /\ Pow(log) <= 512 /\ Pow(log) >= 32
<1>1. Pow(5) = 32 /\ Pow(6) = 64 /\ Pow(7) = 128 /\ Pow(8) = 256 /\ Pow(9) = 512
  BY DEF Pow
<1>2. log = 5 \/ log = 6 \/ log = 7 \/ log = 8 \/ log = 9
  OBVIOUS
<1> QED
  BY <1>1, <1>2

LEMMA UnusedIs ==
    ASSUME NEW probs, NEW log, Describable(probs, log)
    PROVE  /\ Unused(probs, log, 1) = Pow(log) /\ Unused(probs, log, Len(probs) + 1) = 0
           /\ \A s \in 1..Len(probs) : /\ Unused(probs, log, s) \in Nat /\ Unused(probs, log, s) >= 1
                                       /\ Unused(probs, log, s) <= 512
                                       /\ Unused(probs, log, s + 1) = Unused(probs, log, s) - Shares(probs)[s]
                                       /\ Unused(probs, log, s + 1) \in Nat
                                       /\ Shares(probs)[s] <= Unused(probs, log, s)
<1> DEFINE n == Len(probs)
           sum(i) == SumTo(Shares(probs), i)
<1>1. SoundProbs(probs, log) /\ n >= 1 /\ probs[n] # 0 /\ log \in 5..9 /\ sum(n) = Pow(log)
  BY DEF Describable, SoundProbs
<1>2. /\ n \in Nat /\ Pow(log) \in Nat
      /\ \A s \in 1..n : probs[s] \in Int /\ Shares(probs)[s] \in Nat /\ Shares(probs)[s] = IF probs[s] = -1 THEN 1 ELSE probs[s]
  BY <1>1, SharesAre
<1>3. Pow(log) <= 512
  BY <1>1, PowLogIs
<1>4. /\ sum(0) = 0 /\ \A i \in 0..n : sum(i) \in Int
      /\ \A i \in 1..n : sum(i) = sum(i - 1) + Shares(probs)[i]
  <2>1. \A i \in 1..n : Shares(probs)[i] \in Int
    BY <1>2
  <2> HIDE DEF n
  <2> QED
    BY <1>2, <2>1, Sums
<1>5. \A i, j \in 0..n : i <= j => 0 <= sum(i) /\ sum(i) <= sum(j)
  <2> HIDE DEF n
  <2> QED
    BY <1>2, SumsGrow
<1>u. \A s : Unused(probs, log, s) = Pow(log) - sum(s - 1)
  BY DEF Unused
<1>6. Shares(probs)[n] >= 1
  <2>1. n \in 1..n
    BY <1>1, <1>2
  <2> QED
    BY <1>1, <1>2, <2>1
<1> HIDE DEF n, sum
<1>7. sum(n - 1) + 1 <= Pow(log)
  <2>1. n \in 1..n /\ n - 1 \in 0..n /\ n - 1 \in Nat
    BY <1>1, <1>2
  <2>2. sum(n) = sum(n - 1) + Shares(probs)[n] /\ sum(n - 1) \in Int
    BY <1>4, <2>1
  <2>3. Shares(probs)[n] \in Nat
    BY <1>2, <2>1
  <2> QED
    BY <1>1, <1>6, <2>2, <2>3
<1>8. ASSUME NEW s \in 1..n
      PROVE  /\ Unused(probs, log, s) \in Nat /\ Unused(probs, log, s) >= 1 /\ Unused(probs, log, s) <= 512
             /\ Unused(probs, log, s + 1) = Unused(probs, log, s) - Shares(probs)[s]
             /\ Unused(probs, log, s + 1) \in Nat /\ Shares(probs)[s] <= Unused(probs, log, s)
  <2>1. s - 1 \in 0..n /\ s \in 0..n /\ n - 1 \in 0..n /\ n \in 0..n /\ s - 1 <= n - 1 /\ s <= n /\ s - 1 <= s /\ (s + 1) - 1 = s
    BY <1>1, <1>2
  <2>2. 0 <= sum(s - 1) /\ sum(s - 1) <= sum(n - 1) /\ sum(s) <= sum(n)
    BY <1>5, <2>1
  <2>3. sum(s - 1) \in Int /\ sum(s) \in Int /\ sum(n - 1) \in Int /\ sum(s) = sum(s - 1) + Shares(probs)[s]
    BY <1>4, <2>1
  <2>4. Unused(probs, log, s) = Pow(log) - sum(s - 1) /\ Unused(probs, log, s + 1) = Pow(log) - sum(s)
    BY <1>u, <2>1
  <2>5. Shares(probs)[s] \in Nat
    BY <1>2
  <2> QED
    BY <1>1, <1>2, <1>3, <1>7, <2>2, <2>3, <2>4, <2>5
<1>9. Unused(probs, log, 1) = Pow(log)
  <2>1. 1 - 1 = 0
    OBVIOUS
  <2> QED
    BY <1>2, <1>4, <1>u, <2>1
<1>10. Unused(probs, log, n + 1) = 0
  <2>1. (n + 1) - 1 = n
    BY <1>2
  <2> QED
    BY <1>1, <1>2, <1>u, <2>1
<1> QED
  BY <1>8, <1>9, <1>10 DEF n

-----------------------------------------------------------------------------
(* Pieces written one behind the other                                     *)

Chain(g, p, a, n) ==
    /\ g[0] = a
    /\ \A i \in 1..n : g[i] = g[i - 1] \o p[i]

LEMMA ChainExists ==
    ASSUME NEW n \in Nat, NEW a \in Seq({0, 1}), NEW p, \A i \in 1..n : p[i] \in Seq({0, 1})
    PROVE  \E g \in [0..n -> Seq({0, 1})] : Chain(g, p, a, n)
<1> DEFINE S == Seq({0, 1})
           F == [x \in (1..n) \X S |-> x[2] \o p[x[1]]]
<1>1. \A x \in (1..n) \X S : x[2] \o p[x[1]] \in S
  OBVIOUS
<1>2. F \in [(1..n) \X S -> S]
  BY <1>1
<1>3. \A i \in 1..n : \A s \in S : F[<<i, s>>] = s \o p[i]
  OBVIOUS
<1>4. PICK g \in [0..n -> S] : Iterated(g, F, a, n)
  <2> HIDE DEF F, S
  <2>1. a \in S
    BY DEF S
  <2> QED
    BY <1>2, <2>1, Iterates
<1>5. Chain(g, p, a, n)
  <2>1. g[0] = a
    BY <1>4 DEF Iterated
  <2>2. ASSUME NEW i \in 1..n PROVE g[i] = g[i - 1] \o p[i]
    <3>1. i - 1 \in 0..n
      OBVIOUS
    <3>2. g[i] = F[<<i, g[i - 1]>>]
      BY <1>4 DEF Iterated
    <3>3. g[i - 1] \in S
      BY <1>4, <3>1
    <3> HIDE DEF F, S
    <3> QED
      BY <1>3, <3>2, <3>3
  <2> QED
    BY <2>1, <2>2 DEF Chain
<1> QED
  BY <1>4, <1>5

\* w starts like the other.
Starts(str, w) == Len(w) <= Len(str) /\ \A i \in 1..Len(w) : str[i] = w[i]

LEMMA StartsOn ==
    ASSUME NEW c, NEW b, NEW a, Len(a) \in Nat, Len(b) \in Nat, Starts(c, b), Starts(b, a)
    PROVE  Starts(c, a)
BY DEF Starts

Link(g, p, i) ==
    /\ Len(g[i - 1]) \in Nat /\ Len(g[i]) \in Nat /\ Len(p[i]) \in Nat
    /\ Len(g[i]) = Len(g[i - 1]) + Len(p[i])
    /\ Starts(g[i], g[i - 1])
    /\ \A j \in 1..Len(p[i]) : g[i][Len(g[i - 1]) + j] = p[i][j]

LEMMA ChainStep ==
    ASSUME NEW n \in Nat, NEW p, \A i \in 1..n : p[i] \in Seq({0, 1}),
           NEW a, NEW g \in [0..n -> Seq({0, 1})], Chain(g, p, a, n), NEW i \in 1..n
    PROVE  Link(g, p, i)
<1>1. i - 1 \in 0..n /\ i \in 0..n
  OBVIOUS
<1>2. g[i - 1] \in Seq({0, 1}) /\ g[i] \in Seq({0, 1}) /\ p[i] \in Seq({0, 1})
  BY <1>1
<1>3. g[i] = g[i - 1] \o p[i]
  BY DEF Chain
<1> DEFINE u == g[i - 1]
           v == p[i]
<1>4. u \in Seq({0, 1}) /\ v \in Seq({0, 1}) /\ Len(u) \in Nat /\ Len(v) \in Nat /\ Len(g[i]) \in Nat
  BY <1>2
<1> HIDE DEF u, v
<1>5. Row(u \o v, u, Len(u), v, Len(v))
  BY <1>4, InARow
<1>6. Row(g[i], u, Len(u), v, Len(v))
  BY <1>3, <1>5 DEF u, v
<1>7. /\ Len(g[i]) = Len(u) + Len(v) /\ \A k \in 1..Len(u) : g[i][k] = u[k]
      /\ \A j \in 1..Len(v) : g[i][Len(u) + j] = v[j]
  BY <1>6 DEF Row
<1>8. Starts(g[i], u)
  BY <1>4, <1>7 DEF Starts
<1> QED
  BY <1>4, <1>7, <1>8 DEF u, v, Link

\* Each link starts like every one before it.
LEMMA ChainStarts ==
    ASSUME NEW n \in Nat, NEW p, \A i \in 1..n : p[i] \in Seq({0, 1}),
           NEW a, NEW g \in [0..n -> Seq({0, 1})], Chain(g, p, a, n)
    PROVE  \A k \in 0..n : \A i \in 0..k : Starts(g[k], g[i])
<1> DEFINE T == {k \in Nat : k <= n => \A i \in 0..k : Starts(g[k], g[i])}
<1>1. T \in SUBSET Nat
  OBVIOUS
<1>2. \A k \in 0..n : Len(g[k]) \in Nat /\ Starts(g[k], g[k])
  <2> SUFFICES ASSUME NEW k \in 0..n PROVE Len(g[k]) \in Nat /\ Starts(g[k], g[k])
    OBVIOUS
  <2>1. g[k] \in Seq({0, 1})
    OBVIOUS
  <2>2. Len(g[k]) \in Nat
    BY <2>1
  <2> QED
    BY <2>2 DEF Starts
<1>3. 0 \in T
  <2>1. 0 \in 0..n /\ \A i \in 0..0 : i = 0
    OBVIOUS
  <2> QED
    BY <1>2, <2>1
<1>4. ASSUME NEW k \in T PROVE k + 1 \in T
  <2>1. SUFFICES ASSUME k + 1 <= n, NEW i \in 0..(k + 1) PROVE Starts(g[k + 1], g[i])
    OBVIOUS
  <2>2. k + 1 \in 0..n /\ k + 1 \in 1..n /\ k \in 0..n /\ (k + 1) - 1 = k /\ k <= n
    BY <2>1
  <2>3. CASE i = k + 1
    BY <1>2, <2>2, <2>3
  <2>4. CASE i # k + 1
    <3>1. i \in 0..k /\ i \in 0..n
      BY <2>2, <2>4
    <3>2. Starts(g[k], g[i])
      BY <2>2, <3>1
    <3> DEFINE m == k + 1
    <3>3. m \in 1..n /\ m - 1 = k
      BY <2>2
    <3> HIDE DEF m
    <3>4. Starts(g[m], g[m - 1])
      BY <3>3, ChainStep DEF Link
    <3>5. Starts(g[m], g[k])
      BY <3>3, <3>4
    <3>6. Len(g[i]) \in Nat /\ Len(g[k]) \in Nat
      BY <1>2, <2>2, <3>1
    <3>7. Starts(g[m], g[i])
      BY <3>2, <3>5, <3>6, StartsOn, Zenon
    <3> QED
      BY <3>7 DEF m
  <2> QED
    BY <2>3, <2>4
<1>5. \A k \in Nat : k \in T
  <2> HIDE DEF T
  <2> QED
    BY <1>1, <1>3, <1>4, InductionOnSets, Zenon
<1> QED
  BY <1>5

\* Empty pieces add nothing.
NoPiece(p, s, t) == \A i \in (s + 1)..t : p[i] = <<>>

LEMMA ChainRests ==
    ASSUME NEW n \in Nat, NEW p, \A i \in 1..n : p[i] \in Seq({0, 1}),
           NEW a, NEW g \in [0..n -> Seq({0, 1})], Chain(g, p, a, n),
           NEW s \in 0..n, NEW t \in 0..n, s <= t, NoPiece(p, s, t)
    PROVE  g[t] = g[s]
<1> DEFINE T == {k \in Nat : s + k <= t => g[s + k] = g[s]}
<1>1. T \in SUBSET Nat /\ 0 \in T
  OBVIOUS
<1>2. ASSUME NEW k \in T PROVE k + 1 \in T
  <2>1. SUFFICES ASSUME s + (k + 1) <= t PROVE g[s + (k + 1)] = g[s]
    OBVIOUS
  <2> DEFINE m == s + (k + 1)
  <2>2. m \in 1..n /\ m - 1 = s + k /\ s + k <= t /\ m \in (s + 1)..t /\ s + k \in 0..n
    BY <2>1
  <2> HIDE DEF m
  <2>3. g[m] = g[m - 1] \o p[m]
    BY <2>2 DEF Chain
  <2>4. g[m - 1] = g[s] /\ p[m] = <<>>
    BY <2>2 DEF NoPiece
  <2>5. g[s] \in Seq({0, 1})
    OBVIOUS
  <2>6. g[s] \o <<>> = g[s]
    BY <2>5
  <2> QED
    BY <2>3, <2>4, <2>6 DEF m
<1>3. \A k \in Nat : k \in T
  <2> HIDE DEF T
  <2> QED
    BY <1>1, <1>2, InductionOnSets, Zenon
<1>4. t - s \in Nat /\ s + (t - s) = t
  OBVIOUS
<1>5. t - s \in T
  BY <1>3, <1>4
<1> QED
  BY <1>4, <1>5

-----------------------------------------------------------------------------
(* What is written of the probabilities                                    *)

\* Symbols for which something is written.
Leading(probs, s) == s = 1 \/ probs[s] # 0 \/ probs[s - 1] # 0

Used(probs, s) == {t \in (s + 1)..(Len(probs) + 1) : t > Len(probs) \/ probs[t] # 0}

\* The one after it.
Following(probs, s) == IF probs[s] # 0 THEN s + 1 ELSE Min(Used(probs, s))

LEMMA FollowingIs ==
    ASSUME NEW probs, NEW log, Describable(probs, log), NEW s \in 1..Len(probs), NEW t, t = Following(probs, s)
    PROVE  /\ t \in (s + 1)..(Len(probs) + 1)
           /\ \A i \in (s + 1)..(t - 1) : probs[i] = 0 /\ probs[i - 1] = 0
           /\ t <= Len(probs) => Leading(probs, t)
           /\ probs[s] = 0 => t <= Len(probs)
<1> DEFINE n == Len(probs)
           U == Used(probs, s)
<1>1. n \in Nat /\ n >= 1 /\ probs[n] # 0
  BY SharesAre DEF Describable
<1>s. s \in 1..n
  OBVIOUS
<1>e. U = {i \in (s + 1)..(n + 1) : i > n \/ probs[i] # 0}
  BY DEF Used
<1> HIDE DEF n, U
<1>2. CASE probs[s] # 0
  <2>1. t = s + 1 /\ t - 1 = s
    BY <1>2, <1>s DEF Following
  <2>2. \A i \in (s + 1)..(t - 1) : FALSE
    BY <1>s, <2>1
  <2>3. t \in (s + 1)..(n + 1)
    BY <1>1, <1>s, <2>1
  <2>4. Leading(probs, t)
    BY <1>2, <2>1 DEF Leading
  <2> QED
    BY <1>2, <2>2, <2>3, <2>4 DEF n
<1>3. CASE probs[s] = 0
  <2>1. s # n
    BY <1>1, <1>3
  <2>2. n \in U /\ U \in SUBSET Nat /\ U # {}
    BY <1>1, <1>s, <1>e, <2>1
  <2>3. t = Min(U)
    BY <1>3 DEF Following, U
  <2>4. t \in U /\ \A y \in U : t <= y
    BY <2>2, <2>3, LeastOf
  <2>5. t \in (s + 1)..(n + 1) /\ (t > n \/ probs[t] # 0)
    BY <1>e, <2>4
  <2>6. t <= n
    BY <2>2, <2>4
  <2>7. probs[t] # 0
    BY <1>1, <2>5, <2>6
  <2>8. ASSUME NEW i \in s..(t - 1) PROVE probs[i] = 0
    <3>1. CASE i = s
      BY <1>3, <3>1
    <3>2. CASE i # s
      <4>1. i \in (s + 1)..(n + 1) /\ i < t
        BY <1>1, <1>s, <2>5, <3>2
      <4>2. i \notin U
        BY <2>4, <2>5, <4>1
      <4> QED
        BY <1>e, <4>1, <4>2
    <3> QED
      BY <3>1, <3>2
  <2>9. ASSUME NEW i \in (s + 1)..(t - 1) PROVE probs[i] = 0 /\ probs[i - 1] = 0
    <3>1. i \in s..(t - 1) /\ i - 1 \in s..(t - 1)
      BY <1>s, <2>5
    <3> QED
      BY <2>8, <3>1
  <2> QED
    BY <2>5, <2>6, <2>7, <2>9 DEF Leading, n
<1> QED
  BY <1>2, <1>3

LEMMA WrittenIs ==
    ASSUME NEW probs, NEW log, Describable(probs, log), NEW s \in 1..Len(probs)
    PROVE  Written(probs, log, s) =
             IF ~Leading(probs, s) THEN <<>>
             ELSE ProbabilityBits(probs[s], Unused(probs, log, s) + 1) \o
                  (IF probs[s] = 0 THEN ZeroRun(Following(probs, s) - s - 1) ELSE <<>>)
<1> DEFINE nxt == Min({t \in (s + 1)..(Len(probs) + 1) : t > Len(probs) \/ probs[t] # 0})
           run == IF probs[s] = 0 THEN ZeroRun(nxt - s - 1) ELSE <<>>
           left == 2^log - SumTo(Shares(probs), s - 1)
<1>1. Written(probs, log, s) =
        IF left = 0 \/ (s > 1 /\ probs[s] = 0 /\ probs[s - 1] = 0) THEN <<>>
        ELSE ProbabilityBits(probs[s], left + 1) \o run
  BY Zenon DEF Written
<1>2. left = Unused(probs, log, s)
  BY Zenon DEF Unused, Pow
<1>3. Unused(probs, log, s) \in Nat /\ Unused(probs, log, s) >= 1
  BY UnusedIs
<1>4. nxt = Min(Used(probs, s))
  BY Zenon DEF Used
<1> HIDE DEF nxt, left
<1>5. run = IF probs[s] = 0 THEN ZeroRun(Following(probs, s) - s - 1) ELSE <<>>
  BY <1>4, Zenon DEF Following
<1> HIDE DEF run
<1>6. left # 0
  BY <1>2, <1>3
<1>7. (s > 1 /\ probs[s] = 0 /\ probs[s - 1] = 0) <=> ~Leading(probs, s)
  BY DEF Leading
<1> QED
  BY <1>1, <1>2, <1>5, <1>6, <1>7, Zenon

\* The width of the number a probability is written with.
LEMMA UnusedFits ==
    ASSUME NEW probs, NEW log, Describable(probs, log), NEW s \in 1..Len(probs),
           NEW most, most = Unused(probs, log, s) + 1
    PROVE  /\ most \in Nat /\ most >= 2 /\ most <= 513
           /\ probs[s] \in Int /\ probs[s] >= -1 /\ probs[s] + 1 <= most
           /\ probs[s] = -1 => most >= 2
           /\ ProbabilityBits(probs[s], most) \in Seq({0, 1})
           /\ Len(ProbabilityBits(probs[s], most)) \in Nat /\ Len(ProbabilityBits(probs[s], most)) >= 1
           /\ Len(ProbabilityBits(probs[s], most)) = Width(most) - (IF probs[s] + 1 < Threshold(most) THEN 1 ELSE 0)
<1>1. /\ Unused(probs, log, s) \in Nat /\ Unused(probs, log, s) >= 1 /\ Unused(probs, log, s) <= 512
      /\ Shares(probs)[s] <= Unused(probs, log, s)
  BY UnusedIs
<1>2. /\ probs[s] \in Int /\ probs[s] >= -1
      /\ Shares(probs)[s] = IF probs[s] = -1 THEN 1 ELSE probs[s]
  BY SharesAre DEF Describable
<1>3. most \in Nat /\ most >= 2 /\ most <= 513 /\ probs[s] + 1 <= most
  BY <1>1, <1>2
<1>4. /\ ProbabilityBits(probs[s], most) \in Seq({0, 1}) /\ Len(ProbabilityBits(probs[s], most)) >= 1
      /\ Len(ProbabilityBits(probs[s], most)) = Width(most) - (IF probs[s] + 1 < Threshold(most) THEN 1 ELSE 0)
  BY <1>2, <1>3, ValueBitsAre
<1>5. Len(ProbabilityBits(probs[s], most)) \in Nat
  BY <1>4
<1> QED
  BY <1>2, <1>3, <1>4, <1>5

LEMMA PieceIsBits ==
    ASSUME NEW probs, NEW log, Describable(probs, log)
    PROVE  \A s \in 1..Len(probs) : Written(probs, log, s) \in Seq({0, 1})
<1> SUFFICES ASSUME NEW s \in 1..Len(probs) PROVE Written(probs, log, s) \in Seq({0, 1})
  OBVIOUS
<1> DEFINE t == Following(probs, s)
           bits == ProbabilityBits(probs[s], Unused(probs, log, s) + 1)
           run == IF probs[s] = 0 THEN ZeroRun(t - s - 1) ELSE <<>>
<1>1. bits \in Seq({0, 1})
  BY UnusedFits
<1>2. run \in Seq({0, 1})
  <2>1. CASE probs[s] = 0
    <3>1. t \in (s + 1)..(Len(probs) + 1)
      BY FollowingIs
    <3>2. t - s - 1 \in Nat
      BY <3>1
    <3> HIDE DEF t
    <3>3. Threes(t - s - 1, (t - s - 1) \div 3, (t - s - 1) % 3)
      BY <3>2, ZeroRunIs
    <3>4. ZeroRun(t - s - 1) \in Seq({0, 1})
      BY <3>3, Zenon DEF Threes
    <3> QED
      BY <2>1, <3>4
  <2>2. CASE probs[s] # 0
    BY <2>2
  <2> QED
    BY <2>1, <2>2
<1>3. Written(probs, log, s) = IF ~Leading(probs, s) THEN <<>> ELSE bits \o run
  BY WrittenIs, Zenon
<1> HIDE DEF bits, run
<1>4. bits \o run \in Seq({0, 1}) /\ <<>> \in Seq({0, 1})
  BY <1>1, <1>2
<1> QED
  BY <1>3, <1>4

-----------------------------------------------------------------------------
(* What is read of the probabilities                                       *)

LEMMA FrontIs ==
    ASSUME NEW S, NEW seq \in Seq(S), NEW k \in 0..Len(seq)
    PROVE  SubSeq(seq, 1, k) = [i \in 1..k |-> seq[i]] /\ SubSeq(seq, 1, k) \in Seq(S) /\ Len(SubSeq(seq, 1, k)) = k
<1>1. SubSeq(seq, 0 + 1, 0 + k) \in Seq(S) /\ PartOf(SubSeq(seq, 0 + 1, 0 + k), seq, 0, k)
  <2>1. 0 \in Nat /\ k \in Nat /\ 0 + k <= Len(seq)
    OBVIOUS
  <2> QED
    BY <2>1, PartIs
<1> DEFINE part == SubSeq(seq, 1, k)
<1>2. part \in Seq(S) /\ PartOf(part, seq, 0, k)
  <2>1. 0 + 1 = 1 /\ 0 + k = k
    OBVIOUS
  <2> QED
    BY <1>1, <2>1
<1> HIDE DEF part
<1>3. Len(part) = k /\ \A i \in 1..k : part[i] = seq[0 + i]
  BY <1>2 DEF PartOf
<1>4. \A i \in 1..k : part[i] = seq[i]
  BY <1>3
<1>5. part = [i \in 1..k |-> seq[i]]
  BY <1>2, <1>3, <1>4
<1> QED
  BY <1>2, <1>3, <1>5 DEF part

LEMMA FrontsAre ==
    ASSUME NEW S, NEW seq \in Seq(S)
    PROVE  /\ SubSeq(seq, 1, 0) = <<>> /\ SubSeq(seq, 1, Len(seq)) = seq
           /\ \A s \in 1..Len(seq) : Append(SubSeq(seq, 1, s - 1), seq[s]) = SubSeq(seq, 1, s)
<1>1. Len(seq) \in Nat /\ 0 \in 0..Len(seq) /\ Len(seq) \in 0..Len(seq)
  OBVIOUS
<1>2. SubSeq(seq, 1, 0) = <<>>
  <2>1. Len(SubSeq(seq, 1, 0)) = 0 /\ SubSeq(seq, 1, 0) \in Seq(S)
    BY <1>1, FrontIs
  <2> QED
    BY <2>1
<1>3. SubSeq(seq, 1, Len(seq)) = seq
  <2>1. SubSeq(seq, 1, Len(seq)) = [i \in 1..Len(seq) |-> seq[i]]
    BY <1>1, FrontIs
  <2> QED
    BY <2>1
<1>4. ASSUME NEW s \in 1..Len(seq) PROVE Append(SubSeq(seq, 1, s - 1), seq[s]) = SubSeq(seq, 1, s)
  <2> DEFINE a == SubSeq(seq, 1, s - 1)
             b == SubSeq(seq, 1, s)
  <2>1. s - 1 \in 0..Len(seq) /\ s \in 0..Len(seq)
    OBVIOUS
  <2>2. a = [i \in 1..(s - 1) |-> seq[i]] /\ a \in Seq(S) /\ Len(a) = s - 1
    BY <2>1, FrontIs
  <2>3. b = [i \in 1..s |-> seq[i]] /\ b \in Seq(S) /\ Len(b) = s
    BY <2>1, FrontIs
  <2>4. seq[s] \in S
    OBVIOUS
  <2> HIDE DEF a, b
  <2>5. Append(a, seq[s]) \in Seq(S) /\ Len(Append(a, seq[s])) = s
    BY <2>2, <2>4
  <2>6. ASSUME NEW i \in 1..s PROVE Append(a, seq[s])[i] = b[i]
    <3>1. CASE i = s
      BY <2>2, <2>3, <2>4, <3>1
    <3>2. CASE i # s
      BY <2>2, <2>3, <2>4, <3>2
    <3> QED
      BY <3>1, <3>2
  <2>7. Append(a, seq[s]) = b
    BY <2>3, <2>5, <2>6
  <2> QED
    BY <2>7 DEF a, b
<1> QED
  BY <1>2, <1>3, <1>4

\* Zeros behind the others.
LEMMA ZerosFollow ==
    ASSUME NEW seq \in Seq(Int), NEW s \in 1..Len(seq), NEW t \in (s + 1)..(Len(seq) + 1),
           \A i \in s..(t - 1) : seq[i] = 0, NEW k, k = t - s
    PROVE  SubSeq(seq, 1, s - 1) \o [i \in 1..k |-> 0] = SubSeq(seq, 1, t - 1)
<1> DEFINE a == SubSeq(seq, 1, s - 1)
           b == SubSeq(seq, 1, t - 1)
           z == [i \in 1..k |-> 0]
<1>1. s - 1 \in 0..Len(seq) /\ t - 1 \in 0..Len(seq) /\ k \in Nat
  OBVIOUS
<1>2. a = [i \in 1..(s - 1) |-> seq[i]] /\ a \in Seq(Int) /\ Len(a) = s - 1
  BY <1>1, FrontIs
<1>3. b = [i \in 1..(t - 1) |-> seq[i]] /\ b \in Seq(Int) /\ Len(b) = t - 1
  BY <1>1, FrontIs
<1>4. z \in [1..k -> Int] /\ \A i \in 1..k : z[i] = 0
  OBVIOUS
<1> HIDE DEF a, b, z
<1>5. z \in Seq(Int) /\ Len(z) = k
  BY <1>1, <1>4, OfLength
<1>6. a \o z \in Seq(Int) /\ Row(a \o z, a, s - 1, z, k)
  <2>1. s - 1 \in Nat
    OBVIOUS
  <2> QED
    BY <1>1, <1>2, <1>5, <2>1, InARow
<1>7. /\ Len(a \o z) = (s - 1) + k /\ \A i \in 1..(s - 1) : (a \o z)[i] = a[i]
      /\ \A i \in 1..k : (a \o z)[(s - 1) + i] = z[i]
  BY <1>6, Zenon DEF Row
<1>8. ASSUME NEW i \in 1..(t - 1) PROVE (a \o z)[i] = b[i]
  <2>1. CASE i <= s - 1
    <3>1. i \in 1..(s - 1)
      BY <2>1
    <3> QED
      BY <1>2, <1>3, <1>7, <3>1
  <2>2. CASE i > s - 1
    <3> DEFINE j == i - (s - 1)
    <3>1. j \in 1..k /\ (s - 1) + j = i /\ i \in s..(t - 1)
      BY <2>2
    <3>2. (a \o z)[(s - 1) + j] = z[j] /\ z[j] = 0
      BY <1>4, <1>7, <3>1
    <3>3. seq[i] = 0
      BY <3>1
    <3> HIDE DEF j
    <3>4. (a \o z)[i] = 0
      BY <3>1, <3>2, Zenon
    <3>5. b[i] = seq[i]
      BY <1>3
    <3> DEFINE c == a \o z
    <3>6. c[i] = 0
      BY <3>4
    <3> HIDE DEF c
    <3>7. c[i] = b[i]
      BY <3>3, <3>5, <3>6
    <3> QED
      BY <3>7 DEF c
  <2>3. i <= s - 1 \/ i > s - 1
    OBVIOUS
  <2> QED
    BY <2>1, <2>2, <2>3, Zenon
<1>9. Len(a \o z) = t - 1
  BY <1>7
<1>10. a \o z = b
  <2> DEFINE c == a \o z
  <2>1. c \in Seq(Int) /\ Len(c) = t - 1 /\ \A i \in 1..(t - 1) : c[i] = b[i]
    BY <1>6, <1>8, <1>9
  <2> HIDE DEF c
  <2>2. PICK n : n = t - 1
    OBVIOUS
  <2>3. c \in Seq(Int) /\ b \in Seq(Int) /\ Len(c) = n /\ Len(b) = n /\ \A i \in 1..n : c[i] = b[i]
    BY <1>3, <2>1, <2>2
  <2>4. c = b
    BY <2>3, SeqEqual
  <2> QED
    BY <2>4 DEF c
<1> QED
  BY <1>10 DEF a, b, z

-----------------------------------------------------------------------------

Pieces(probs, log) == [s \in 1..Len(probs) |-> Written(probs, log, s)]

\* All of it, as a chain, is at the start of a stream.
Recorded(str, g, base, probs, log) ==
    /\ str \in Seq({0, 1}) /\ Describable(probs, log)
    /\ g \in [0..Len(probs) -> Seq({0, 1})] /\ Chain(g, Pieces(probs, log), base, Len(probs))
    /\ Starts(str, g[Len(probs)])
    /\ probs[Len(probs)] > 0 \/ Len(str) > Len(g[Len(probs)])

LEMMA RecordedIs ==
    ASSUME NEW str, NEW g, NEW base, NEW probs, NEW log, Recorded(str, g, base, probs, log)
    PROVE  /\ Len(probs) \in Nat /\ Len(probs) >= 1 /\ Len(str) \in Nat
           /\ \A s \in 0..Len(probs) : Len(g[s]) \in Nat /\ Len(g[s]) <= Len(str) /\ Starts(str, g[s])
           /\ \A s \in 1..Len(probs) :
                 /\ Written(probs, log, s) \in Seq({0, 1})
                 /\ Len(g[s]) = Len(g[s - 1]) + Len(Written(probs, log, s))
                 /\ \A j \in 1..Len(Written(probs, log, s)) : str[Len(g[s - 1]) + j] = Written(probs, log, s)[j]
           /\ \A s \in 1..Len(probs), t \in 0..Len(probs) :
                 s <= t /\ (\A i \in (s + 1)..t : ~Leading(probs, i)) => g[t] = g[s]
<1> DEFINE n == Len(probs)
           p == Pieces(probs, log)
<1>1. /\ str \in Seq({0, 1}) /\ Describable(probs, log) /\ g \in [0..n -> Seq({0, 1})] /\ Chain(g, p, base, n)
      /\ Starts(str, g[n])
  BY DEF Recorded
<1>2. n \in Nat /\ n >= 1 /\ Len(str) \in Nat
  BY <1>1, SharesAre DEF Describable
<1>3. \A s \in 1..n : p[s] = Written(probs, log, s) /\ p[s] \in Seq({0, 1})
  BY <1>1, PieceIsBits DEF Pieces
<1>p. \A i \in 1..n : p[i] \in Seq({0, 1})
  BY <1>3
<1>w. \A s \in 1..n : ~Leading(probs, s) => p[s] = <<>>
  <2> SUFFICES ASSUME NEW s \in 1..n, ~Leading(probs, s) PROVE p[s] = <<>>
    OBVIOUS
  <2>1. Written(probs, log, s) = <<>>
    BY <1>1, WrittenIs
  <2> QED
    BY <1>3, <2>1
<1> HIDE DEF n, p
<1>4. \A s \in 0..n : Len(g[s]) \in Nat
  <2> SUFFICES ASSUME NEW s \in 0..n PROVE Len(g[s]) \in Nat
    OBVIOUS
  <2>1. g[s] \in Seq({0, 1})
    BY <1>1
  <2> QED
    BY <2>1
<1>5. \A s \in 0..n : Starts(str, g[s])
  <2> SUFFICES ASSUME NEW s \in 0..n PROVE Starts(str, g[s])
    OBVIOUS
  <2>1. \A k \in 0..n : \A i \in 0..k : Starts(g[k], g[i])
    BY <1>1, <1>2, <1>p, ChainStarts
  <2>2. n \in 0..n /\ s \in 0..n
    BY <1>2
  <2>3. Starts(g[n], g[s])
    BY <2>1, <2>2
  <2> QED
    BY <1>1, <1>4, <2>2, <2>3, StartsOn, Zenon
<1>6. ASSUME NEW s \in 1..n
      PROVE  /\ Len(g[s]) = Len(g[s - 1]) + Len(p[s])
             /\ \A j \in 1..Len(p[s]) : str[Len(g[s - 1]) + j] = p[s][j]
  <2>1. /\ Len(g[s - 1]) \in Nat /\ Len(g[s]) \in Nat /\ Len(p[s]) \in Nat
        /\ Len(g[s]) = Len(g[s - 1]) + Len(p[s])
        /\ \A j \in 1..Len(p[s]) : g[s][Len(g[s - 1]) + j] = p[s][j]
    <3>1. Link(g, p, s)
      BY <1>1, <1>2, <1>p, ChainStep, Zenon
    <3> QED
      BY <3>1, Zenon DEF Link
  <2>2. Starts(str, g[s])
    BY <1>2, <1>5
  <2>3. ASSUME NEW j \in 1..Len(p[s]) PROVE str[Len(g[s - 1]) + j] = p[s][j]
    <3>1. Len(g[s - 1]) + j \in 1..Len(g[s])
      <4> DEFINE a == Len(g[s - 1])
                 b == Len(p[s])
                 c == Len(g[s])
      <4>1. a \in Nat /\ b \in Nat /\ c = a + b /\ j \in 1..b
        BY <2>1, Zenon
      <4> HIDE DEF a, b, c
      <4>2. a + j \in 1..c
        BY <4>1
      <4> QED
        BY <4>2 DEF a, c
    <3>2. str[Len(g[s - 1]) + j] = g[s][Len(g[s - 1]) + j]
      BY <2>2, <3>1 DEF Starts
    <3> QED
      BY <2>1, <3>2
  <2> QED
    BY <2>1, <2>3
<1>7. ASSUME NEW s \in 1..n, NEW t \in 0..n, s <= t, \A i \in (s + 1)..t : ~Leading(probs, i)
      PROVE  g[t] = g[s]
  <2>1. s \in 0..n /\ t \in 0..n /\ s <= t
    BY <1>7
  <2>2. ASSUME NEW i \in (s + 1)..t PROVE p[i] = <<>>
    <3>1. i \in 1..n
      BY <1>2, <2>1
    <3> QED
      BY <1>7, <1>w, <3>1
  <2>3. NoPiece(p, s, t)
    BY <2>2 DEF NoPiece
  <2>4. g \in [0..n -> Seq({0, 1})] /\ n \in Nat /\ \A i \in 1..n : p[i] \in Seq({0, 1})
    BY <1>1, <1>2, <1>p
  <2>5. PICK a : Chain(g, p, a, n)
    BY <1>1
  <2> QED
    BY <2>1, <2>3, <2>4, <2>5, ChainRests, ZenonT(60)
<1>8. ASSUME NEW s \in 1..n
      PROVE  /\ Written(probs, log, s) \in Seq({0, 1})
             /\ Len(g[s]) = Len(g[s - 1]) + Len(Written(probs, log, s))
             /\ \A j \in 1..Len(Written(probs, log, s)) : str[Len(g[s - 1]) + j] = Written(probs, log, s)[j]
  BY <1>3, <1>6, ZenonT(60)
<1>9. \A s \in 0..n : Len(g[s]) <= Len(str)
  BY <1>5 DEF Starts
<1> QED
  BY <1>2, <1>4, <1>5, <1>7, <1>8, <1>9 DEF n

-----------------------------------------------------------------------------
\* What the reader has when it comes to a symbol.
Boundary(g, probs, log, s) ==
    [pos |-> Len(g[s - 1]), rest |-> Unused(probs, log, s), probs |-> SubSeq(probs, 1, s - 1)]

\* What is written for a leading symbol: its number, and zeros behind a zero.
TwoParts(str, pos, bits, run) ==
    /\ bits \in Seq({0, 1}) /\ run \in Seq({0, 1}) /\ Len(bits) \in Nat /\ Len(run) \in Nat
    /\ \A j \in 1..Len(bits) : str[pos + j] = bits[j]
    /\ \A j \in 1..Len(run) : str[(pos + Len(bits)) + j] = run[j]

Parted(str, g, probs, s, t, bits, run) ==
    /\ TwoParts(str, Len(g[s - 1]), bits, run) /\ Len(g[s]) = (Len(g[s - 1]) + Len(bits)) + Len(run)
    /\ Len(g[s - 1]) \in Nat /\ Len(g[s]) \in Nat /\ Len(g[s]) <= Len(str)
    /\ IF probs[s] = 0 THEN t - s - 1 \in Nat /\ Len(run) >= 2 ELSE Len(run) = 0

LEMMA PartsAre ==
    ASSUME NEW str, NEW g, NEW base, NEW probs, NEW log, Recorded(str, g, base, probs, log),
           NEW s \in 1..Len(probs), Leading(probs, s), NEW t, t = Following(probs, s),
           NEW bits, bits = ProbabilityBits(probs[s], Unused(probs, log, s) + 1),
           NEW run, run = IF probs[s] = 0 THEN ZeroRun(t - s - 1) ELSE <<>>
    PROVE  Parted(str, g, probs, s, t, bits, run)
<1> DEFINE pos == Len(g[s - 1])
           w == Written(probs, log, s)
<1>0. Describable(probs, log)
  BY DEF Recorded
<1>1. /\ pos \in Nat /\ Len(g[s]) \in Nat /\ Len(g[s]) <= Len(str)
      /\ w \in Seq({0, 1}) /\ Len(g[s]) = pos + Len(w)
      /\ \A j \in 1..Len(w) : str[pos + j] = w[j]
  <2>1. s - 1 \in 0..Len(probs) /\ s \in 0..Len(probs)
    OBVIOUS
  <2> QED
    BY <2>1, RecordedIs, SMTT(40)
<1>2. bits \in Seq({0, 1}) /\ Len(bits) \in Nat
  BY <1>0, UnusedFits
<1>3. run \in Seq({0, 1}) /\ Len(run) \in Nat
      /\ IF probs[s] = 0 THEN t - s - 1 \in Nat /\ Len(run) >= 2 ELSE Len(run) = 0
  <2>1. CASE probs[s] = 0
    <3>1. t \in (s + 1)..(Len(probs) + 1)
      BY <1>0, FollowingIs
    <3>2. t - s - 1 \in Nat
      BY <3>1
    <3> DEFINE z == t - s - 1
               q == z \div 3
               r == z % 3
    <3>3. z \in Nat /\ run = ZeroRun(z)
      BY <2>1, <3>2
    <3> HIDE DEF z
    <3>4. Threes(z, q, r)
      BY <3>3, ZeroRunIs, Zenon
    <3> HIDE DEF q, r
    <3>5. q \in Nat /\ run \in Seq({0, 1}) /\ Len(run) = 2 * q + 2
      BY <3>3, <3>4, Zenon DEF Threes
    <3> QED
      BY <2>1, <3>2, <3>5
  <2>2. CASE probs[s] # 0
    BY <2>2
  <2> QED
    BY <2>1, <2>2
<1>4. w = bits \o run
  BY <1>0, WrittenIs, Zenon
<1>5. Row(w, bits, Len(bits), run, Len(run))
  <2>1. Row(bits \o run, bits, Len(bits), run, Len(run))
    BY <1>2, <1>3, InARow
  <2> QED
    BY <1>4, <2>1, Zenon
<1> HIDE DEF w, pos
<1> DEFINE lw == Len(w)
           lb == Len(bits)
           lr == Len(run)
<1>l. lb \in Nat /\ lr \in Nat /\ lw = lb + lr
  BY <1>2, <1>3, <1>5, Zenon DEF Row
<1>6. /\ Len(w) = Len(bits) + Len(run) /\ \A j \in 1..Len(bits) : w[j] = bits[j]
      /\ \A j \in 1..Len(run) : w[Len(bits) + j] = run[j]
  BY <1>5, Zenon DEF Row
<1>7. ASSUME NEW j \in 1..Len(bits) PROVE str[pos + j] = bits[j]
  <2>1. j \in 1..Len(w)
    <3>1. j \in 1..lb
      OBVIOUS
    <3> HIDE DEF lb, lw, lr
    <3>2. j \in 1..lw
      BY <1>l, <3>1
    <3> QED
      BY <3>2 DEF lw
  <2> QED
    BY <1>1, <1>6, <2>1
<1>8. ASSUME NEW j \in 1..Len(run) PROVE str[(pos + Len(bits)) + j] = run[j]
  <2>1. Len(bits) + j \in 1..Len(w) /\ (pos + Len(bits)) + j = pos + (Len(bits) + j)
    BY <1>1, <1>2, <1>3, <1>6
  <2> QED
    BY <1>1, <1>6, <2>1, ZenonT(60)
<1>9. TwoParts(str, pos, bits, run)
  BY <1>2, <1>3, <1>7, <1>8 DEF TwoParts
<1>10. Len(g[s]) = (pos + Len(bits)) + Len(run)
  <2>1. pos \in Nat /\ Len(g[s]) = pos + lw
    BY <1>1
  <2> HIDE DEF lb, lw, lr
  <2>2. Len(g[s]) = (pos + lb) + lr
    BY <1>l, <2>1
  <2> QED
    BY <2>2 DEF lb, lr
<1> QED
  BY <1>1, <1>3, <1>9, <1>10, Zenon DEF pos, Parted

\* Enough is there to look at the whole width, even if one bit less was written.
LEMMA RoomIs ==
    ASSUME NEW str, NEW g, NEW base, NEW probs, NEW log, Recorded(str, g, base, probs, log),
           NEW s \in 1..Len(probs), Leading(probs, s), NEW most, most = Unused(probs, log, s) + 1
    PROVE  Len(g[s - 1]) + Width(most) <= Len(str)
<1> DEFINE n == Len(probs)
           bits == ProbabilityBits(probs[s], most)
           t == Following(probs, s)
           run == IF probs[s] = 0 THEN ZeroRun(t - s - 1) ELSE <<>>
           pos == Len(g[s - 1])
<1>0. Describable(probs, log) /\ (probs[n] > 0 \/ Len(str) > Len(g[n]))
  BY DEF Recorded
<1>1. /\ most \in Nat /\ most >= 2 /\ most <= 513 /\ probs[s] \in Int /\ probs[s] >= -1
      /\ Len(bits) \in Nat /\ Len(bits) >= 1
      /\ Len(bits) = Width(most) - (IF probs[s] + 1 < Threshold(most) THEN 1 ELSE 0)
  BY <1>0, UnusedFits
<1>2. /\ TwoParts(str, pos, bits, run) /\ Len(g[s]) = (pos + Len(bits)) + Len(run)
      /\ pos \in Nat /\ Len(g[s]) <= Len(str)
      /\ IF probs[s] = 0 THEN t - s - 1 \in Nat /\ Len(run) >= 2 ELSE Len(run) = 0
  <2>1. Parted(str, g, probs, s, t, bits, run)
    BY PartsAre, Zenon
  <2> QED
    BY <2>1, Zenon DEF Parted
<1>3. n \in Nat /\ n >= 1 /\ Len(str) \in Nat /\ s \in 1..n
  BY RecordedIs
<1>4. Fit(most, Width(most), Pow(Width(most) - 1), Threshold(most))
  BY <1>1, FitIs
<1>5. Width(most) \in Nat
  BY <1>4, SMTT(40) DEF Fit
<1>6. Len(run) \in Nat
  BY <1>2 DEF TwoParts
<1> HIDE DEF bits, run, t, pos, n
<1> DEFINE lb == Len(bits)
           lr == Len(run)
           W == Width(most)
           lg == Len(g[s])
           ls == Len(str)
<1>c. /\ pos \in Nat /\ lb \in Nat /\ lr \in Nat /\ W \in Nat /\ lg \in Nat /\ ls \in Nat
      /\ lg = (pos + lb) + lr /\ lg <= ls
  BY <1>1, <1>2, <1>3, <1>5, <1>6, SMTT(40)
<1>d. lb = W \/ lb = W - 1
  <2>1. CASE probs[s] + 1 < Threshold(most)
    BY <1>1, <2>1
  <2>2. CASE ~(probs[s] + 1 < Threshold(most))
    <3>1. lb = W - 0
      BY <1>1, <2>2, Zenon
    <3> HIDE DEF lb, W
    <3> QED
      BY <1>c, <3>1
  <2> QED
    BY <2>1, <2>2
<1>g. ASSUME pos + W <= ls PROVE Len(g[s - 1]) + Width(most) <= Len(str)
  BY <1>g DEF pos
<1>7. CASE probs[s] = 0
  <2>1. Len(run) >= 2
    BY <1>2, <1>7
  <2>2. lr >= 2
    BY <2>1
  <2> HIDE DEF lb, lr, W, lg, ls
  <2>3. pos + W <= ls
    BY <1>c, <1>d, <2>2
  <2> QED
    BY <1>g, <2>3
<1>8. CASE probs[s] # 0 /\ s # n
  <2> DEFINE u == s + 1
  <2>1. u \in 1..n /\ u - 1 = s /\ u \in 0..n
    BY <1>3, <1>8
  <2> HIDE DEF u
  <2>2. Leading(probs, u)
    BY <1>8, <2>1 DEF Leading
  <2> DEFINE b2 == ProbabilityBits(probs[u], Unused(probs, log, u) + 1)
             t2 == Following(probs, u)
             r2 == IF probs[u] = 0 THEN ZeroRun(t2 - u - 1) ELSE <<>>
  <2>3. /\ TwoParts(str, Len(g[u - 1]), b2, r2) /\ Len(g[u]) = (Len(g[u - 1]) + Len(b2)) + Len(r2)
        /\ Len(g[u - 1]) \in Nat /\ Len(g[u]) <= Len(str)
    <3>1. Parted(str, g, probs, u, t2, b2, r2)
      BY <2>1, <2>2, PartsAre, Zenon DEF n
    <3> QED
      BY <3>1, Zenon DEF Parted
  <2>4. Len(b2) \in Nat /\ Len(b2) >= 1
    BY <1>0, <2>1, UnusedFits DEF n
  <2>5. Len(r2) \in Nat
    BY <2>3 DEF TwoParts
  <2> HIDE DEF b2, r2, t2
  <2>6. Len(g[s]) \in Nat /\ Len(g[s]) + 1 <= Len(str)
    BY <1>3, <2>1, <2>3, <2>4, <2>5
  <2>7. Len(run) = 0
    BY <1>2, <1>8
  <2>8. lr = 0 /\ lg + 1 <= ls
    BY <2>6, <2>7
  <2> HIDE DEF lb, lr, W, lg, ls
  <2>9. pos + W <= ls
    BY <1>c, <1>d, <2>8
  <2> QED
    BY <1>g, <2>9
<1>9. CASE probs[s] # 0 /\ s = n
  <2>1. Len(run) = 0
    BY <1>2, <1>9
  <2>2. CASE Len(str) > Len(g[n])
    <3>1. lr = 0 /\ ls > lg
      BY <1>9, <2>1, <2>2
    <3> HIDE DEF lb, lr, W, lg, ls
    <3>2. pos + W <= ls
      BY <1>c, <1>d, <3>1
    <3> QED
      BY <1>g, <3>2
  <2>3. CASE probs[n] > 0
    <3>1. Unused(probs, log, s + 1) = 0 /\ Unused(probs, log, s + 1) = Unused(probs, log, s) - Shares(probs)[s]
          /\ Unused(probs, log, s) \in Nat
      BY <1>0, <1>9, UnusedIs DEF n
    <3>2. Shares(probs)[s] = IF probs[s] = -1 THEN 1 ELSE probs[s]
      BY <1>0, SharesAre DEF Describable
    <3>3. Shares(probs)[s] = probs[s]
      BY <1>1, <1>9, <2>3, <3>2
    <3>4. probs[s] + 1 = most
      BY <1>1, <3>1, <3>3
    <3>5. ~(probs[s] + 1 < Threshold(most))
      <4>1. /\ Threshold(most) \in Nat /\ Pow(Width(most) - 1) \in Nat
            /\ Threshold(most) < Pow(Width(most) - 1) /\ Pow(Width(most) - 1) <= most
        BY <1>4, Zenon DEF Fit
      <4> QED
        BY <1>1, <3>4, <4>1
    <3>6. Len(bits) = Width(most) - 0
      BY <1>1, <3>5, Zenon
    <3>7. lr = 0 /\ lb = W - 0
      BY <2>1, <3>6
    <3> HIDE DEF lb, lr, W, lg, ls
    <3>8. pos + W <= ls
      BY <1>c, <3>7
    <3> QED
      BY <1>g, <3>8
  <2> QED
    BY <1>0, <2>2, <2>3 DEF n
<1> QED
  BY <1>7, <1>8, <1>9

-----------------------------------------------------------------------------
(* A round of the reader                                                   *)

\* What a round makes of what it reads.
Round(res, str, r, pos, rest, seq, most, value, behind, skip) ==
    res = IF ~Readable(str, pos, Width(most)) \/ (value = 1 /\ skip.pos = 0)
          THEN [r EXCEPT !.rest = -1]
          ELSE IF value = 1
          THEN [r EXCEPT !.pos = skip.pos, !.probs = @ \o [i \in 1..(1 + skip.zeros) |-> 0]]
          ELSE [pos |-> behind, rest |-> rest - (IF value = 0 THEN 1 ELSE value - 1), probs |-> Append(seq, value - 1)]

LEMMA RoundIsSplit ==
    ASSUME NEW str, NEW r, NEW pos, NEW rest, NEW seq, r.pos = pos, r.rest = rest, r.probs = seq,
           NEW most, most = rest + 1, NEW value, value = ValueAt(str, pos, most),
           NEW behind, behind = BehindAt(str, pos, most), NEW skip, skip = SkipZeros(str, behind)
    PROVE  Round(ReadProbability(str, r), str, r, pos, rest, seq, most, value, behind, skip)
<1>1. Round(ReadProbability(str, r), str, r, r.pos, r.rest, r.probs, r.rest + 1, ValueAt(str, r.pos, r.rest + 1),
            BehindAt(str, r.pos, r.rest + 1), SkipZeros(str, BehindAt(str, r.pos, r.rest + 1)))
  BY Zenon DEF ReadProbability, ValueAt, BehindAt, Round
<1> QED
  BY <1>1, Zenon

Rounds == [pos : Nat, rest : -1..2^MaxAccLog, probs : Seq(Int)]

LEMMA RoundsAre ==
    \A r : r \in Rounds <=> \E pos \in Nat : \E rest \in -1..512 : \E probs \in Seq(Int) :
                               r = [pos |-> pos, rest |-> rest, probs |-> probs]
<1>1. 2^MaxAccLog = 512
  BY DEF MaxAccLog
<1>2. Rounds = [pos : Nat, rest : -1..512, probs : Seq(Int)]
  BY <1>1, Zenon DEF Rounds
<1>3. ASSUME NEW r \in Rounds
      PROVE  \E pos \in Nat : \E rest \in -1..512 : \E probs \in Seq(Int) : r = [pos |-> pos, rest |-> rest, probs |-> probs]
  <2>1. r = [pos |-> r.pos, rest |-> r.rest, probs |-> r.probs] /\ r.pos \in Nat /\ r.rest \in -1..512 /\ r.probs \in Seq(Int)
    BY <1>2
  <2> QED
    BY <2>1, Zenon
<1>4. ASSUME NEW pos \in Nat, NEW rest \in -1..512, NEW probs \in Seq(Int)
      PROVE  [pos |-> pos, rest |-> rest, probs |-> probs] \in Rounds
  BY <1>2
<1>5. ASSUME NEW r, \E pos \in Nat : \E rest \in -1..512 : \E probs \in Seq(Int) : r = [pos |-> pos, rest |-> rest, probs |-> probs]
      PROVE  r \in Rounds
  <2>1. PICK pos \in Nat : \E rest \in -1..512 : \E probs \in Seq(Int) : r = [pos |-> pos, rest |-> rest, probs |-> probs]
    BY <1>5, Zenon
  <2>2. PICK rest \in -1..512 : \E probs \in Seq(Int) : r = [pos |-> pos, rest |-> rest, probs |-> probs]
    BY <2>1, Zenon
  <2>3. PICK probs \in Seq(Int) : r = [pos |-> pos, rest |-> rest, probs |-> probs]
    BY <2>2, Zenon
  <2> QED
    BY <1>4, <2>3, Zenon
<1> QED
  BY <1>3, <1>5, ZenonT(60)

\* Whatever the stream holds, a round leads on.
LEMMA RoundLeads ==
    ASSUME NEW str \in Seq({0, 1}), NEW r \in Rounds, ~(r.rest <= 0)
    PROVE  ReadProbability(str, r) \in Rounds
<1>0. PICK pos \in Nat, rest \in -1..512, seq \in Seq(Int) : r = [pos |-> pos, rest |-> rest, probs |-> seq]
  BY RoundsAre, Zenon
<1>1. r.pos = pos /\ r.rest = rest /\ r.probs = seq /\ rest >= 1 /\ rest <= 512
  BY <1>0
<1> DEFINE most == rest + 1
           value == ValueAt(str, pos, most)
           behind == BehindAt(str, pos, most)
           skip == SkipZeros(str, behind)
<1>2. most \in Nat /\ most >= 2 /\ most <= 513 /\ rest = most - 1
  BY <1>1
<1>3. ReadProbability(str, r) =
             IF ~Readable(str, pos, Width(most)) \/ (value = 1 /\ skip.pos = 0)
             THEN [r EXCEPT !.rest = -1]
             ELSE IF value = 1
             THEN [r EXCEPT !.pos = skip.pos, !.probs = @ \o [i \in 1..(1 + skip.zeros) |-> 0]]
             ELSE [pos |-> behind, rest |-> rest - (IF value = 0 THEN 1 ELSE value - 1),
                   probs |-> Append(seq, value - 1)]
  <2>1. Round(ReadProbability(str, r), str, r, pos, rest, seq, most, value, behind, skip)
    BY <1>1, RoundIsSplit, Zenon
  <2> QED
    BY <2>1, Zenon DEF Round
<1>4. CASE ~Readable(str, pos, Width(most)) \/ (value = 1 /\ skip.pos = 0)
  <2>1. ReadProbability(str, r) = [r EXCEPT !.rest = -1]
    BY <1>3, <1>4, Zenon
  <2>2. ReadProbability(str, r) = [pos |-> pos, rest |-> -1, probs |-> seq]
    BY <1>0, <2>1
  <2>3. -1 \in -1..512
    OBVIOUS
  <2> QED
    BY <2>2, <2>3, RoundsAre, ZenonT(60)
<1>5. CASE ~(~Readable(str, pos, Width(most)) \/ (value = 1 /\ skip.pos = 0))
  <2>1. Readable(str, pos, Width(most))
    BY <1>5, Zenon
  <2>2. Width(most) \in Nat
    <3>1. Fit(most, Width(most), Pow(Width(most) - 1), Threshold(most))
      BY <1>2, FitIs
    <3> QED
      BY <3>1, SMTT(40) DEF Fit
  <2>3. pos + Width(most) <= Len(str)
    <3>1. Len(str) \in Nat
      OBVIOUS
    <3> HIDE DEF most
    <3> QED
      BY <2>1, <2>2, <3>1 DEF Readable
  <2>4. value \in 0..most /\ behind \in Nat
    <3> HIDE DEF most
    <3> QED
      BY <1>2, <2>3, ValueBound
  <2>5. CASE value = 1
    <3>1. ReadProbability(str, r) = [r EXCEPT !.pos = skip.pos, !.probs = @ \o [i \in 1..(1 + skip.zeros) |-> 0]]
      BY <1>3, <1>5, <2>5, Zenon
    <3>2. skip.pos \in Nat /\ skip.zeros \in Nat
      <4> HIDE DEF behind
      <4> QED
        BY <2>4, SkipBound
    <3> DEFINE z == [i \in 1..(1 + skip.zeros) |-> 0]
               p == skip.pos
    <3>3. ReadProbability(str, r) = [pos |-> p, rest |-> rest, probs |-> seq \o z]
      <4> HIDE DEF skip, z, p
      <4>1. ReadProbability(str, r) = [r EXCEPT !.pos = p, !.probs = @ \o z]
        BY <3>1, Zenon DEF p, z
      <4> QED
        BY <1>0, <4>1
    <3>4. seq \o z \in Seq(Int)
      <4>1. 1 + skip.zeros \in Nat /\ z \in [1..(1 + skip.zeros) -> Int]
        BY <3>2
      <4> HIDE DEF z, skip
      <4>2. z \in Seq(Int)
        BY <4>1, OfLength
      <4> QED
        BY <4>2
    <3> HIDE DEF z, skip, p
    <3>5. p \in Nat
      BY <3>2 DEF p
    <3> QED
      BY <3>3, <3>4, <3>5, RoundsAre, Zenon
  <2>6. CASE value # 1
    <3> DEFINE left == rest - (IF value = 0 THEN 1 ELSE value - 1)
               new == Append(seq, value - 1)
    <3>1. ReadProbability(str, r) = [pos |-> behind, rest |-> left, probs |-> new]
      BY <1>3, <1>5, <2>6, Zenon
    <3>v. value \in Int
      BY <1>2, <2>4
    <3>2. left \in -1..512
      <4>1. value \in Nat /\ value <= rest + 1
        BY <1>2, <2>4
      <4> HIDE DEF value
      <4>2. CASE value = 0
        BY <1>1, <4>1, <4>2
      <4>3. CASE value # 0
        BY <1>1, <4>1, <4>3
      <4> QED
        BY <4>2, <4>3
    <3>3. new \in Seq(Int)
      <4> HIDE DEF value
      <4>1. value - 1 \in Int
        BY <3>v
      <4> QED
        BY <4>1
    <3> HIDE DEF left, new, behind
    <3>4. behind \in Nat
      BY <2>4
    <3> QED
      BY <3>1, <3>2, <3>3, <3>4, RoundsAre, ZenonT(30)
  <2> QED
    BY <2>5, <2>6
<1> QED
  BY <1>4, <1>5

\* The number of a probability is read.
LEMMA NumberIsRead ==
    ASSUME NEW str \in Seq({0, 1}), NEW pos \in Nat, NEW most \in Nat, most >= 2, most <= 513,
           pos + Width(most) <= Len(str), NEW prob \in Int, prob >= -1, prob + 1 <= most,
           NEW bits, bits = ProbabilityBits(prob, most), NEW run, TwoParts(str, pos, bits, run)
    PROVE  IsRead(str, pos, most, prob, bits)
<1>1. Holds(str, pos, bits)
  BY DEF TwoParts, Holds
<1> QED
  BY <1>1, ValueIsRead, Zenon

\* From a symbol to the next one for which something is written.
LEMMA RoundIs ==
    ASSUME NEW str, NEW g, NEW base, NEW probs, NEW log, Recorded(str, g, base, probs, log),
           NEW s \in 1..Len(probs), Leading(probs, s), NEW t, t = Following(probs, s)
    PROVE  ReadProbability(str, Boundary(g, probs, log, s)) = Boundary(g, probs, log, t)
<1> DEFINE pos == Len(g[s - 1])
           rest == Unused(probs, log, s)
           most == rest + 1
           seq == SubSeq(probs, 1, s - 1)
           bits == ProbabilityBits(probs[s], most)
           run == IF probs[s] = 0 THEN ZeroRun(t - s - 1) ELSE <<>>
           r == Boundary(g, probs, log, s)
           value == ValueAt(str, pos, most)
           behind == BehindAt(str, pos, most)
           skip == SkipZeros(str, behind)
           n == Len(probs)
<1>0. Describable(probs, log) /\ str \in Seq({0, 1}) /\ probs \in Seq(Int)
  BY DEF Recorded, Describable, SoundProbs
<1>r. r = [pos |-> pos, rest |-> rest, probs |-> seq]
  BY DEF Boundary
<1>1. /\ most \in Nat /\ most >= 2 /\ most <= 513 /\ probs[s] \in Int /\ probs[s] >= -1 /\ probs[s] + 1 <= most
      /\ Len(bits) \in Nat
  BY <1>0, UnusedFits
<1>2. /\ TwoParts(str, pos, bits, run) /\ Len(g[s]) = (pos + Len(bits)) + Len(run)
      /\ pos \in Nat /\ Len(g[s]) \in Nat /\ Len(g[s]) <= Len(str)
      /\ IF probs[s] = 0 THEN t - s - 1 \in Nat /\ Len(run) >= 2 ELSE Len(run) = 0
  <2>1. Parted(str, g, probs, s, t, bits, run)
    BY PartsAre, Zenon
  <2> QED
    BY <2>1, Zenon DEF Parted
<1>3. pos + Width(most) <= Len(str)
  BY RoomIs, Zenon
<1>4. value = probs[s] + 1 /\ behind = pos + Len(bits)
  <2>1. TwoParts(str, pos, bits, run)
    BY <1>2, Zenon
  <2>2. probs[s] \in Int /\ probs[s] >= -1 /\ probs[s] + 1 <= most /\ most \in Nat /\ most >= 2 /\ most <= 513 /\ pos \in Nat
    BY <1>1, <1>2
  <2> HIDE DEF pos, most
  <2>b. bits = ProbabilityBits(probs[s], most)
    BY DEF bits
  <2> HIDE DEF bits, run
  <2>3. IsRead(str, pos, most, probs[s], bits)
    BY <1>0, <1>3, <2>1, <2>2, <2>b, NumberIsRead, Zenon
  <2> QED
    BY <2>3, Zenon DEF IsRead
<1>5. Readable(str, pos, Width(most))
  <2>1. Len(str) \in Nat /\ Width(most) \in Nat /\ pos \in Nat
    <3>1. Fit(most, Width(most), Pow(Width(most) - 1), Threshold(most))
      BY <1>1, FitIs
    <3>2. Width(most) \in 2..10
      BY <3>1, Zenon DEF Fit
    <3>3. Len(str) \in Nat
      BY <1>0
    <3> QED
      BY <1>2, <3>2, <3>3
  <2> HIDE DEF pos, most
  <2> QED
    BY <1>3, <2>1 DEF Readable
<1>6. ReadProbability(str, r) =
             IF ~Readable(str, pos, Width(most)) \/ (value = 1 /\ skip.pos = 0)
             THEN [r EXCEPT !.rest = -1]
             ELSE IF value = 1
             THEN [r EXCEPT !.pos = skip.pos, !.probs = @ \o [i \in 1..(1 + skip.zeros) |-> 0]]
             ELSE [pos |-> behind, rest |-> rest - (IF value = 0 THEN 1 ELSE value - 1),
                   probs |-> Append(seq, value - 1)]
  <2>1. r.pos = pos /\ r.rest = rest /\ r.probs = seq
    BY <1>r
  <2> HIDE DEF r
  <2>2. Round(ReadProbability(str, r), str, r, pos, rest, seq, most, value, behind, skip)
    BY <2>1, RoundIsSplit, Zenon
  <2> QED
    BY <2>2, Zenon DEF Round
<1>u. /\ rest \in Nat /\ Unused(probs, log, s + 1) = rest - Shares(probs)[s]
      /\ Shares(probs)[s] = IF probs[s] = -1 THEN 1 ELSE probs[s]
  <2>1. rest \in Nat /\ Unused(probs, log, s + 1) = rest - Shares(probs)[s]
    BY <1>0, UnusedIs
  <2>2. Shares(probs)[s] = IF probs[s] = -1 THEN 1 ELSE probs[s]
    BY <1>0, SharesAre DEF Describable
  <2> QED
    BY <2>1, <2>2
<1>t. /\ t \in (s + 1)..(n + 1) /\ \A i \in (s + 1)..(t - 1) : probs[i] = 0 /\ probs[i - 1] = 0
      /\ s \in 1..n /\ n \in Nat
  <2>1. s \in 1..n
    OBVIOUS
  <2> QED
    BY <1>0, <2>1, FollowingIs
<1>b. Boundary(g, probs, log, t) = [pos |-> Len(g[t - 1]), rest |-> Unused(probs, log, t), probs |-> SubSeq(probs, 1, t - 1)]
  BY DEF Boundary
<1> HIDE DEF r, pos, bits, run, value, behind, skip, rest, most, seq, n
<1>7. CASE probs[s] # 0
  <2>1. t = s + 1 /\ t - 1 = s
    BY <1>7, <1>t DEF Following
  <2>2. value # 1 /\ behind = Len(g[s])
    BY <1>1, <1>2, <1>4, <1>7
  <2>3. ReadProbability(str, r) = [pos |-> behind, rest |-> rest - (IF value = 0 THEN 1 ELSE value - 1),
                                   probs |-> Append(seq, value - 1)]
    BY <1>5, <1>6, <2>2, Zenon
  <2>4. rest - (IF value = 0 THEN 1 ELSE value - 1) = Unused(probs, log, t)
    <3>1. CASE probs[s] = -1
      <4>1. value = 0
        BY <1>4, <3>1
      <4> QED
        BY <1>u, <2>1, <3>1, <4>1
    <3>2. CASE probs[s] # -1
      <4>1. value # 0 /\ value - 1 = probs[s]
        BY <1>1, <1>4, <3>2
      <4> QED
        BY <1>u, <2>1, <3>2, <4>1
    <3> QED
      BY <3>1, <3>2
  <2>5. Append(seq, value - 1) = SubSeq(probs, 1, t - 1)
    <3>1. value - 1 = probs[s]
      BY <1>1, <1>4
    <3>2. Append(SubSeq(probs, 1, s - 1), probs[s]) = SubSeq(probs, 1, s)
      BY <1>0, FrontsAre
    <3> QED
      BY <2>1, <3>1, <3>2 DEF seq
  <2>6. ReadProbability(str, r) = Boundary(g, probs, log, t)
    BY <1>b, <2>1, <2>2, <2>3, <2>4, <2>5
  <2> QED
    BY <2>6 DEF r
<1>8. CASE probs[s] = 0
  <2> DEFINE z == t - s - 1
  <2>1. z \in Nat /\ run = ZeroRun(z) /\ Len(run) >= 2 /\ Len(run) \in Nat /\ Len(g[s]) = behind + Len(run) /\ behind \in Nat
    BY <1>1, <1>2, <1>4, <1>8 DEF run, TwoParts
  <2>2. behind + Len(run) <= Len(str) /\ \A i \in 1..Len(run) : str[behind + i] = run[i]
    BY <1>2, <1>4, <2>1 DEF TwoParts
  <2> HIDE DEF z
  <2>3. skip = [pos |-> behind + Len(run), zeros |-> z]
    BY <1>0, <2>1, <2>2, ZerosAreSkipped, ZenonT(60) DEF skip
  <2>4. skip.pos = Len(g[s]) /\ skip.zeros = z /\ skip.pos # 0 /\ value = 1
    <3>1. value = 1
      BY <1>4, <1>8
    <3>2. skip.pos = behind + Len(run) /\ skip.zeros = z
      BY <2>3
    <3> QED
      BY <2>1, <3>1, <3>2
  <2> DEFINE k == 1 + z
  <2>5. ReadProbability(str, r) = [r EXCEPT !.pos = Len(g[s]), !.probs = @ \o [i \in 1..k |-> 0]]
    BY <1>5, <1>6, <2>4
  <2>6. k = t - s
    BY <1>t DEF z
  <2> HIDE DEF k
  <2>7. seq \o [i \in 1..k |-> 0] = SubSeq(probs, 1, t - 1)
    <3>1. ASSUME NEW i \in s..(t - 1) PROVE probs[i] = 0
      <4>1. CASE i = s
        BY <1>8, <4>1
      <4>2. CASE i # s
        <5>1. i \in (s + 1)..(t - 1)
          BY <1>t, <4>2
        <5> QED
          BY <1>t, <5>1
      <4> QED
        BY <4>1, <4>2
    <3>2. t \in (s + 1)..(Len(probs) + 1)
      BY <1>t DEF n
    <3> QED
      BY <1>0, <2>6, <3>1, <3>2, ZerosFollow DEF seq
  <2>8. ReadProbability(str, r) = [pos |-> Len(g[s]), rest |-> rest, probs |-> SubSeq(probs, 1, t - 1)]
    <3> DEFINE zs == [i \in 1..k |-> 0]
    <3>1. ReadProbability(str, r) = [r EXCEPT !.pos = Len(g[s]), !.probs = @ \o zs] /\ seq \o zs = SubSeq(probs, 1, t - 1)
      BY <2>5, <2>7
    <3> HIDE DEF zs
    <3> QED
      BY <1>r, <3>1
  <2>9. Len(g[t - 1]) = Len(g[s])
    <3>1. t - 1 \in 0..Len(probs) /\ s <= t - 1
      BY <1>t DEF n
    <3>2. ASSUME NEW i \in (s + 1)..(t - 1) PROVE ~Leading(probs, i)
      <4>1. probs[i] = 0 /\ probs[i - 1] = 0 /\ i # 1
        BY <1>t
      <4> QED
        BY <4>1 DEF Leading
    <3> DEFINE m == t - 1
    <3>3. \A i \in (s + 1)..m : ~Leading(probs, i)
      BY <3>2
    <3>4. m \in 0..Len(probs) /\ s <= m
      BY <3>1
    <3> HIDE DEF m
    <3>5. \A a \in 1..Len(probs), b \in 0..Len(probs) :
                 a <= b /\ (\A i \in (a + 1)..b : ~Leading(probs, i)) => g[b] = g[a]
      BY RecordedIs
    <3>6. g[m] = g[s]
      BY <3>3, <3>4, <3>5, Zenon
    <3> QED
      BY <3>6 DEF m
  <2>10. Unused(probs, log, t) = rest
    <3> DEFINE T == {j \in Nat : s + j <= t => Unused(probs, log, s + j) = rest}
    <3>1. T \in SUBSET Nat /\ 0 \in T
      BY <1>t DEF rest
    <3>2. ASSUME NEW j \in T PROVE j + 1 \in T
      <4>1. SUFFICES ASSUME s + (j + 1) <= t PROVE Unused(probs, log, s + (j + 1)) = rest
        OBVIOUS
      <4> DEFINE i == s + j
      <4>2. i \in 1..n /\ i \in s..(t - 1) /\ s + (j + 1) = i + 1 /\ i <= t /\ i \in Int
        BY <1>t, <4>1
      <4>3. Unused(probs, log, i) = rest
        BY <4>2
      <4> HIDE DEF i
      <4>4. probs[i] = 0
        <5>1. CASE i = s
          BY <1>8, <5>1
        <5>2. CASE i # s
          <6>1. i \in (s + 1)..(t - 1)
            BY <1>t, <4>2, <5>2
          <6> QED
            BY <1>t, <6>1
        <5> QED
          BY <5>1, <5>2
      <4>5. Shares(probs)[i] = 0
        <5>1. Shares(probs)[i] = IF probs[i] = -1 THEN 1 ELSE probs[i]
          BY <1>0, <4>2, SharesAre DEF Describable, n
        <5> QED
          BY <4>4, <5>1
      <4>6. Unused(probs, log, i + 1) = Unused(probs, log, i) - Shares(probs)[i]
        BY <1>0, <4>2, UnusedIs DEF n
      <4> QED
        BY <1>u, <4>2, <4>3, <4>5, <4>6
    <3>3. \A j \in Nat : j \in T
      <4> HIDE DEF T
      <4> QED
        BY <3>1, <3>2, InductionOnSets, Zenon
    <3>4. t - s \in Nat /\ s + (t - s) = t
      BY <1>t
    <3>5. t - s \in T
      BY <3>3, <3>4
    <3> QED
      BY <3>4, <3>5
  <2>11. ReadProbability(str, r) = Boundary(g, probs, log, t)
    BY <1>b, <2>8, <2>9, <2>10
  <2> QED
    BY <2>11 DEF r
<1> QED
  BY <1>7, <1>8

-----------------------------------------------------------------------------
LEMMA WriteIsChain ==
    ASSUME NEW probs, NEW log, Describable(probs, log), NEW base \in Seq({0, 1})
    PROVE  \E g \in [0..Len(probs) -> Seq({0, 1})] :
              Chain(g, Pieces(probs, log), base, Len(probs)) /\ WriteProbabilities(probs, log, base) = g[Len(probs)]
<1> DEFINE n == Len(probs)
           S == Seq({0, 1})
           p == Pieces(probs, log)
           Solves(f) == f = [s \in 0..n |-> IF s = 0 THEN base ELSE f[s - 1] \o Written(probs, log, s)]
           G == CHOOSE f : Solves(f)
<1>1. n \in Nat /\ n \in 0..n
  BY SharesAre DEF Describable
<1>2. \A s \in 1..n : Written(probs, log, s) \in S /\ p[s] = Written(probs, log, s)
  BY PieceIsBits DEF Pieces
<1>3. WriteProbabilities(probs, log, base) = G[n]
  BY Zenon DEF WriteProbabilities
<1>4. \E f : Solves(f)
  <2>1. \A i \in 1..n : p[i] \in S
    BY <1>2
  <2> HIDE DEF n, p
  <2>2. PICK f \in [0..n -> S] : Chain(f, p, base, n)
    BY <1>1, <2>1, ChainExists
  <2>3. ASSUME NEW s \in 0..n PROVE f[s] = IF s = 0 THEN base ELSE f[s - 1] \o Written(probs, log, s)
    <3>1. CASE s = 0
      BY <2>2, <3>1 DEF Chain
    <3>2. CASE s # 0
      <4>1. s \in 1..n
        BY <3>2
      <4>2. f[s] = f[s - 1] \o p[s]
        BY <2>2, <4>1 DEF Chain
      <4>3. p[s] = Written(probs, log, s)
        BY <1>2, <4>1
      <4> QED
        BY <3>2, <4>2, <4>3
    <3> QED
      BY <3>1, <3>2
  <2>4. f = [s \in 0..n |-> f[s]]
    BY <2>2
  <2>5. Solves(f)
    BY <2>3, <2>4
  <2> QED
    BY <2>5
<1>5. Solves(G)
  BY <1>4, Zenon
<1>6. \A s \in 0..n : G[s] = IF s = 0 THEN base ELSE G[s - 1] \o Written(probs, log, s)
  <2> HIDE DEF G
  <2> QED
    BY <1>5
<1>7. G = [s \in 0..n |-> G[s]]
  <2> HIDE DEF G
  <2> QED
    BY <1>5
<1> HIDE DEF G, Solves, n, p
<1>8. G[0] = base
  <2>1. 0 \in 0..n
    BY <1>1
  <2> QED
    BY <1>6, <2>1
<1>9. \A s \in 1..n : G[s] = G[s - 1] \o p[s]
  <2> SUFFICES ASSUME NEW s \in 1..n PROVE G[s] = G[s - 1] \o p[s]
    OBVIOUS
  <2>1. s \in 0..n /\ s # 0
    OBVIOUS
  <2>2. p[s] = Written(probs, log, s)
    BY <1>2
  <2> QED
    BY <1>6, <2>1, <2>2
<1>10. \A s \in 0..n : G[s] \in S
  <2> DEFINE T == {k \in Nat : k <= n => G[k] \in S}
  <2>1. T \in SUBSET Nat /\ 0 \in T
    BY <1>8
  <2>2. ASSUME NEW k \in T PROVE k + 1 \in T
    <3>1. SUFFICES ASSUME k + 1 <= n PROVE G[k + 1] \in S
      OBVIOUS
    <3> DEFINE m == k + 1
    <3>2. m \in 1..n /\ m - 1 = k /\ k <= n
      <4>1. k \in Nat
        OBVIOUS
      <4> HIDE DEF T
      <4> QED
        BY <1>1, <3>1, <4>1
    <3> HIDE DEF m
    <3>3. G[m] = G[m - 1] \o p[m] /\ G[m - 1] \in S
      BY <1>9, <3>2
    <3>4. p[m] \in S
      BY <1>2, <3>2
    <3>5. G[m] \in S
      BY <3>3, <3>4
    <3> QED
      BY <3>5 DEF m
  <2>3. \A k \in Nat : k \in T
    <3> HIDE DEF T
    <3> QED
      BY <2>1, <2>2, InductionOnSets, Zenon
  <2> QED
    BY <2>3
<1>11. G \in [0..n -> S]
  BY <1>7, <1>10
<1>12. Chain(G, p, base, n)
  BY <1>8, <1>9 DEF Chain
<1> QED
  BY <1>3, <1>11, <1>12 DEF n, p

-----------------------------------------------------------------------------
LEMMA RestLoops ==
    ASSUME NEW str \in Seq({0, 1})
    PROVE  \E G : /\ \A pos, log : ReadRest(str, pos, log) = G[[pos |-> pos, rest |-> 2^log, probs |-> <<>>]]
                  /\ \A r \in Rounds : G[r] = IF r.rest <= 0 THEN r ELSE G[ReadProbability(str, r)]
<1> DEFINE Done == {r \in Rounds : r.rest <= 0}
           H == [r \in Rounds |-> r]
           F == [r \in Rounds |-> ReadProbability(str, r)]
           Solves(g) == g = [r \in Rounds |-> IF r.rest <= 0 THEN r ELSE g[ReadProbability(str, r)]]
           G == CHOOSE g : Solves(g)
<1>1. \A pos, log : ReadRest(str, pos, log) = G[[pos |-> pos, rest |-> 2^log, probs |-> <<>>]]
  BY Zenon DEF ReadRest, Rounds
<1>2. ASSUME NEW r \in Rounds \ Done PROVE F[r] \in Rounds
  <2>1. r \in Rounds /\ ~(r.rest <= 0)
    OBVIOUS
  <2>2. ReadProbability(str, r) \in Rounds
    BY <2>1, RoundLeads, Zenon
  <2> QED
    BY <2>1, <2>2
<1>3. \E g : Solves(g)
  <2>1. Done \in SUBSET Rounds /\ \A r \in Rounds \ Done : F[r] \in Rounds
    <3> HIDE DEF F
    <3> QED
      BY <1>2
  <2>2. \E g : g = [r \in Rounds |-> g[r]] /\ Loops(g, Rounds, Done, H, F)
    <3> HIDE DEF Done, H, F
    <3> QED
      BY <2>1, WhileLoop, Zenon
  <2>3. PICK g : g = [r \in Rounds |-> g[r]] /\ Loops(g, Rounds, Done, H, F)
    BY <2>2
  <2>4. ASSUME NEW r \in Rounds
        PROVE  g[r] = IF r.rest <= 0 THEN r ELSE g[ReadProbability(str, r)]
    <3>1. r \in Done <=> r.rest <= 0
      OBVIOUS
    <3>2. H[r] = r /\ F[r] = ReadProbability(str, r)
      BY Zenon
    <3>3. g[r] = IF r \in Done THEN H[r] ELSE g[F[r]]
      <4> HIDE DEF Done, H, F
      <4> QED
        BY <2>3, Zenon DEF Loops
    <3> HIDE DEF Done, H, F
    <3> QED
      BY <3>1, <3>2, <3>3, Zenon
  <2>5. Solves(g)
    <3> HIDE DEF Done, H, F
    <3> QED
      BY <2>3, <2>4
  <2> QED
    BY <2>5
<1>4. Solves(G)
  BY <1>3, Zenon
<1>5. ASSUME NEW r \in Rounds
      PROVE  G[r] = IF r.rest <= 0 THEN r ELSE G[ReadProbability(str, r)]
  <2> HIDE DEF G
  <2> QED
    BY <1>4, Zenon
<1> HIDE DEF G
<1> QED
  BY <1>1, <1>5

\* The reader gets all the probabilities, and stops right behind them.
LEMMA RestIsRead ==
    ASSUME NEW str, NEW g, NEW base, NEW probs, NEW log, Recorded(str, g, base, probs, log),
           NEW pos, pos = Len(base)
    PROVE  ReadRest(str, pos, log) = [pos |-> Len(g[Len(probs)]), rest |-> 0, probs |-> probs]
<1> DEFINE n == Len(probs)
           B(s) == Boundary(g, probs, log, s)
<1>0. /\ Describable(probs, log) /\ str \in Seq({0, 1}) /\ probs \in Seq(Int) /\ g[0] = base
  BY DEF Recorded, Describable, SoundProbs, Chain
<1>1. n \in Nat /\ n >= 1 /\ \A s \in 0..n : Len(g[s]) \in Nat
  BY RecordedIs
<1>2. PICK G : /\ \A q, l : ReadRest(str, q, l) = G[[pos |-> q, rest |-> 2^l, probs |-> <<>>]]
               /\ \A r \in Rounds : G[r] = IF r.rest <= 0 THEN r ELSE G[ReadProbability(str, r)]
  BY <1>0, RestLoops, Zenon
<1>u. /\ Unused(probs, log, 1) = Pow(log) /\ Unused(probs, log, n + 1) = 0
      /\ \A s \in 1..n : Unused(probs, log, s) \in Nat /\ Unused(probs, log, s) >= 1 /\ Unused(probs, log, s) <= 512
  BY <1>0, UnusedIs
<1>f. /\ SubSeq(probs, 1, 0) = <<>> /\ SubSeq(probs, 1, n) = probs
  BY <1>0, FrontsAre
<1>b. \A s : B(s) = [pos |-> Len(g[s - 1]), rest |-> Unused(probs, log, s), probs |-> SubSeq(probs, 1, s - 1)]
  BY Zenon DEF Boundary
<1>3. B(n + 1) = [pos |-> Len(g[n]), rest |-> 0, probs |-> probs]
  <2>1. (n + 1) - 1 = n
    BY <1>1
  <2>2. B(n + 1) = [pos |-> Len(g[(n + 1) - 1]), rest |-> Unused(probs, log, n + 1), probs |-> SubSeq(probs, 1, (n + 1) - 1)]
    BY <1>b, Zenon
  <2> HIDE DEF B, n
  <2> QED
    BY <1>u, <1>f, <2>1, <2>2
<1>4. B(1) = [pos |-> pos, rest |-> 2^log, probs |-> <<>>]
  <2>1. 1 - 1 = 0
    OBVIOUS
  <2>2. B(1) = [pos |-> Len(g[1 - 1]), rest |-> Unused(probs, log, 1), probs |-> SubSeq(probs, 1, 1 - 1)]
    BY <1>b, Zenon
  <2>3. Unused(probs, log, 1) = 2^log
    BY <1>u, Zenon DEF Pow
  <2> HIDE DEF B, n
  <2> QED
    BY <1>0, <1>f, <2>1, <2>2, <2>3
<1>5. ASSUME NEW s \in 1..n PROVE B(s) \in Rounds /\ ~(B(s).rest <= 0)
  <2> DEFINE a == Len(g[s - 1])
             b == Unused(probs, log, s)
             c == SubSeq(probs, 1, s - 1)
  <2>1. a \in Nat
    <3>1. s - 1 \in 0..n
      BY <1>1
    <3> QED
      BY <1>1, <3>1
  <2>2. b \in -1..512 /\ b >= 1
    <3>1. b \in Nat /\ b >= 1 /\ b <= 512
      BY <1>u
    <3> HIDE DEF b
    <3> QED
      BY <3>1
  <2>3. c \in Seq(Int)
    <3>1. s - 1 \in 0..Len(probs)
      BY <1>1
    <3> QED
      BY <1>0, <3>1, FrontIs
  <2>4. B(s) = [pos |-> a, rest |-> b, probs |-> c]
    BY <1>b, Zenon
  <2> HIDE DEF B, a, b, c
  <2>5. B(s) \in Rounds
    BY <2>1, <2>2, <2>3, <2>4, RoundsAre, ZenonT(60)
  <2>6. B(s).rest = b
    BY <2>4
  <2> QED
    BY <2>2, <2>5, <2>6
<1>6. B(n + 1) \in Rounds /\ B(n + 1).rest <= 0
  <2>1. Len(g[n]) \in Nat /\ 0 \in -1..512
    BY <1>1
  <2>2. B(n + 1).rest = 0
    BY <1>3
  <2> HIDE DEF B
  <2>3. B(n + 1) \in Rounds
    BY <1>0, <1>3, <2>1, RoundsAre, Zenon
  <2> QED
    BY <2>2, <2>3
<1>7. ASSUME NEW s \in 1..n, Leading(probs, s), NEW t, t = Following(probs, s) PROVE G[B(s)] = G[B(t)]
  <2>1. ReadProbability(str, B(s)) = B(t)
    <3>1. s \in 1..Len(probs)
      OBVIOUS
    <3>2. ReadProbability(str, Boundary(g, probs, log, s)) = Boundary(g, probs, log, t)
      BY <1>7, <3>1, RoundIs
    <3> QED
      BY <3>2
  <2>2. B(s) \in Rounds /\ ~(B(s).rest <= 0)
    BY <1>5
  <2> HIDE DEF B
  <2> QED
    BY <1>2, <2>1, <2>2, Zenon
<1>8. ASSUME NEW s \in 1..n, NEW t, t = Following(probs, s)
      PROVE  t \in (s + 1)..(n + 1) /\ (t <= n => Leading(probs, t))
  BY <1>0, <1>8, FollowingIs
<1>9. G[B(n + 1)] = B(n + 1)
  <2> HIDE DEF B
  <2> QED
    BY <1>2, <1>6, Zenon
<1> HIDE DEF n, B
<1> DEFINE T == {k \in Nat : \A s \in 1..n : Leading(probs, s) /\ s + k >= n => G[B(s)] = G[B(n + 1)]}
<1>10. T \in SUBSET Nat
  OBVIOUS
<1>11. ASSUME NEW s \in 1..n, NEW k \in Nat, Leading(probs, s), s + k >= n,
              \A i \in 1..n : i > s /\ Leading(probs, i) => G[B(i)] = G[B(n + 1)]
       PROVE  G[B(s)] = G[B(n + 1)]
  <2> DEFINE t == Following(probs, s)
  <2>1. t \in (s + 1)..(n + 1) /\ (t <= n => Leading(probs, t)) /\ G[B(s)] = G[B(t)]
    BY <1>7, <1>8, <1>11, Zenon
  <2> HIDE DEF t
  <2>2. CASE t = n + 1
    BY <2>1, <2>2
  <2>3. CASE t # n + 1
    <3>1. t \in 1..n /\ t > s /\ t <= n
      BY <1>1, <2>1, <2>3
    <3> QED
      BY <1>11, <2>1, <3>1
  <2> QED
    BY <2>2, <2>3
<1>12. 0 \in T
  <2> SUFFICES ASSUME NEW s \in 1..n, Leading(probs, s), s + 0 >= n PROVE G[B(s)] = G[B(n + 1)]
    OBVIOUS
  <2>1. \A i \in 1..n : ~(i > s)
    BY <1>1
  <2>2. s + 0 >= n /\ 0 \in Nat
    OBVIOUS
  <2> QED
    BY <1>11, <2>1, <2>2
<1>13. ASSUME NEW k \in T PROVE k + 1 \in T
  <2> SUFFICES ASSUME NEW s \in 1..n, Leading(probs, s), s + (k + 1) >= n PROVE G[B(s)] = G[B(n + 1)]
    OBVIOUS
  <2>1. ASSUME NEW i \in 1..n, i > s, Leading(probs, i) PROVE G[B(i)] = G[B(n + 1)]
    <3>1. i + k >= n
      BY <1>1, <2>1
    <3> QED
      BY <2>1, <3>1
  <2>2. k + 1 \in Nat
    OBVIOUS
  <2> QED
    BY <1>11, <2>1, <2>2
<1>14. \A k \in Nat : k \in T
  <2> HIDE DEF T
  <2> QED
    BY <1>10, <1>12, <1>13, InductionOnSets, Zenon
<1>15. G[B(1)] = G[B(n + 1)]
  <2>1. n \in T /\ 1 \in 1..n /\ 1 + n >= n /\ Leading(probs, 1)
    BY <1>1, <1>14 DEF Leading
  <2> QED
    BY <2>1
<1>16. ReadRest(str, pos, log) = G[[pos |-> pos, rest |-> 2^log, probs |-> <<>>]]
  BY <1>2, Zenon
<1>17. ReadRest(str, pos, log) = B(n + 1)
  BY <1>4, <1>9, <1>15, <1>16, Zenon
<1> QED
  BY <1>3, <1>17, Zenon DEF n

-----------------------------------------------------------------------------
(* The description of a table is read as it was written                    *)

LEMMA FilledUp ==
    ASSUME NEW w \in Seq({0, 1})
    PROVE  /\ Aligned(w) \in Seq({0, 1}) /\ Starts(Aligned(w), w)
           /\ Len(Aligned(w)) = ((Len(w) + 7) \div 8) * 8 /\ Len(Aligned(w)) % 8 = 0
           /\ Len(w) <= Len(Aligned(w))
<1> DEFINE n == Len(w)
           m == Missing(w)
           zeros == Bits(0, m)
<1>1. n \in Nat
  OBVIOUS
<1>2. m = (8 - (n % 8)) % 8
  BY DEF Missing
<1> HIDE DEF m, n
<1> DEFINE c == n \div 8
           d == n % 8
<1>3. c \in Nat /\ d \in 0..7 /\ n = 8 * c + d /\ m = (8 - d) % 8
  BY <1>1, <1>2
<1> HIDE DEF c, d
<1>4. m \in 0..7 /\ n + m = ((n + 7) \div 8) * 8 /\ (n + m) % 8 = 0
  <2>1. CASE d = 0
    <3>1. m = 0 /\ n = 8 * c
      BY <1>3, <2>1
    <3>2. (n + 7) \div 8 = c /\ (n + m) % 8 = 0
      BY <1>3, <3>1
    <3> QED
      BY <1>3, <3>1, <3>2
  <2>2. CASE d # 0
    <3>1. m = 8 - d /\ n + m = 8 * (c + 1)
      BY <1>3, <2>2
    <3>2. n + 7 = 8 * (c + 1) + (d - 1) /\ d - 1 \in 0..7
      BY <1>3, <2>2
    <3>3. (n + 7) \div 8 = c + 1
      BY <1>3, <3>2
    <3>4. (n + m) % 8 = 0
      BY <1>3, <3>1
    <3> QED
      BY <1>3, <2>2, <3>1, <3>3, <3>4
  <2> QED
    BY <2>1, <2>2
<1>5. zeros \in Seq({0, 1}) /\ Len(zeros) = m
  <2>1. 0 \in Nat /\ m \in 0..30
    BY <1>4
  <2> QED
    BY <2>1, BitsAre
<1>6. Aligned(w) = w \o zeros
  BY DEF Aligned, m
<1> HIDE DEF zeros
<1>7. w \o zeros \in Seq({0, 1}) /\ Row(w \o zeros, w, n, zeros, m)
  <2>1. n \in Nat /\ m \in Nat /\ Len(w) = n /\ Len(zeros) = m
    BY <1>1, <1>4, <1>5 DEF n
  <2> QED
    BY <1>5, <2>1, InARow
<1>8. Row(Aligned(w), w, n, zeros, m) /\ Aligned(w) \in Seq({0, 1})
  BY <1>6, <1>7, Zenon
<1>9. Len(Aligned(w)) = n + m /\ \A i \in 1..n : Aligned(w)[i] = w[i]
  BY <1>8, Zenon DEF Row
<1>10. Starts(Aligned(w), w)
  <2>1. Len(w) <= Len(Aligned(w)) /\ \A i \in 1..Len(w) : Aligned(w)[i] = w[i]
    BY <1>1, <1>4, <1>9 DEF n
  <2> QED
    BY <2>1 DEF Starts
<1>11. n <= Len(Aligned(w))
  BY <1>1, <1>4, <1>9, SMTT(30)
<1> QED
  BY <1>4, <1>8, <1>9, <1>10, <1>11 DEF n

\* What a reader finds at a place.
Found(read, log, probs, at) == read = [log |-> log, probs |-> probs, pos |-> at]

LEMMA TableIsRead ==
    ASSUME NEW probs, NEW log, Describable(probs, log), NEW base \in Seq({0, 1}),
           NEW table, table.probs = probs, table.log = log,
           NEW text, text = WriteTable(table, base),
           NEW str \in Seq({0, 1}), Starts(str, text), probs[Len(probs)] > 0 \/ Len(str) > Len(text),
           NEW maxLog \in Nat, log <= maxLog, NEW at, at = Len(base),
           NEW maxSymbol \in Nat, Len(probs) <= maxSymbol + 1
    PROVE  Found(ReadProbabilities(str, at, maxLog, maxSymbol), log, probs, Len(text))
<1> DEFINE n == Len(probs)
           head == Bits(log - 5, 4)
           h == base \o head
           w == WriteProbabilities(probs, log, h)
<1>1. log \in 5..9 /\ log - 5 \in Nat /\ log - 5 < 16 /\ 4 \in 0..30 /\ at \in Nat
  BY DEF Describable, SoundProbs
<1>2. head \in Seq({0, 1}) /\ Len(head) = 4
  BY <1>1, BitsAre
<1>3. text = Aligned(w)
  BY Zenon DEF WriteTable
<1>4. h \in Seq({0, 1}) /\ Row(h, base, at, head, 4)
  <2>1. 4 \in Nat
    OBVIOUS
  <2> HIDE DEF head
  <2> QED
    BY <1>1, <1>2, <2>1, InARow
<1> HIDE DEF head, h
<1>5. Len(h) = at + 4 /\ \A i \in 1..4 : h[at + i] = head[i]
  BY <1>4, Zenon DEF Row
<1>6. PICK g \in [0..n -> Seq({0, 1})] : Chain(g, Pieces(probs, log), h, n) /\ w = g[n]
  BY <1>4, WriteIsChain
<1>n. n \in Nat /\ n \in 0..n /\ 0 \in 0..n
  BY SharesAre DEF Describable
<1>7. w \in Seq({0, 1})
  <2> HIDE DEF w, n
  <2> QED
    BY <1>6, <1>n
<1> HIDE DEF w
<1>8. /\ Starts(text, w) /\ Len(text) = ((Len(w) + 7) \div 8) * 8 /\ Len(w) <= Len(text)
      /\ text \in Seq({0, 1})
  BY <1>3, <1>7, FilledUp
<1>9. Starts(str, w)
  <2>1. Len(w) \in Nat /\ Len(text) \in Nat
    BY <1>7, <1>8
  <2> QED
    BY <1>8, <2>1, StartsOn, Zenon
<1>10. Recorded(str, g, h, probs, log)
  <2>1. probs[Len(probs)] > 0 \/ Len(str) > Len(g[Len(probs)])
    <3>1. Len(w) \in Nat /\ Len(text) \in Nat /\ Len(str) \in Nat
      BY <1>7, <1>8
    <3>2. ASSUME Len(str) > Len(text) PROVE Len(str) > Len(w)
      BY <1>8, <3>1, <3>2
    <3> QED
      BY <1>6, <3>2
  <2> QED
    BY <1>6, <1>9, <2>1 DEF Recorded
<1>11. ReadRest(str, at + 4, log) = [pos |-> Len(w), rest |-> 0, probs |-> probs]
  <2>1. at + 4 = Len(h)
    BY <1>5
  <2> DEFINE q == at + 4
  <2>2. q = Len(h)
    BY <2>1
  <2> HIDE DEF q
  <2>3. ReadRest(str, q, log) = [pos |-> Len(g[Len(probs)]), rest |-> 0, probs |-> probs]
    BY <1>10, <2>2, RestIsRead
  <2> QED
    BY <1>6, <2>3 DEF q
<1>12. Starts(str, h)
  <2>1. \A s \in 0..n : Starts(str, g[s])
    BY <1>10, RecordedIs
  <2>2. g[0] = h
    BY <1>6 DEF Chain
  <2> QED
    BY <1>n, <2>1, <2>2
<1>13. at + 4 <= Len(str) /\ \A i \in 1..4 : str[at + i] = head[i]
  <2>1. at + 4 <= Len(str)
    BY <1>5, <1>12 DEF Starts
  <2>2. ASSUME NEW i \in 1..4 PROVE str[at + i] = head[i]
    <3>1. at + i \in 1..Len(h)
      BY <1>1, <1>5
    <3>2. str[at + i] = h[at + i]
      BY <1>12, <3>1 DEF Starts
    <3> QED
      BY <1>5, <3>2
  <2> QED
    BY <2>1, <2>2
<1>14. Read(str, at, 4) = log - 5
  <2>1. Pow(4) = 16
    BY DEF Pow
  <2>2. log - 5 < Pow(4)
    BY <1>1, <2>1
  <2> QED
    BY <1>1, <1>13, <2>2, PieceIsRead DEF head
<1>15. Readable(str, at, 4) /\ 5 + Read(str, at, 4) = log
  <2>1. Len(str) \in Nat
    OBVIOUS
  <2> QED
    BY <1>1, <1>13, <1>14, <2>1 DEF Readable
<1> DEFINE l2 == 5 + Read(str, at, 4)
           rd == ReadRest(str, at + 4, l2)
<1>16. ReadProbabilities(str, at, maxLog, maxSymbol) =
         IF \/ ~Readable(str, at, 4) \/ l2 > maxLog
            \/ rd.rest # 0 \/ Len(rd.probs) > maxSymbol + 1
         THEN Failed
         ELSE [log |-> l2, probs |-> rd.probs, pos |-> ((rd.pos + 7) \div 8) * 8]
  BY Zenon DEF ReadProbabilities
<1>17. l2 = log /\ rd = [pos |-> Len(w), rest |-> 0, probs |-> probs]
  BY <1>11, <1>15
<1>18. rd.rest = 0 /\ rd.probs = probs /\ rd.pos = Len(w)
  BY <1>17
<1> HIDE DEF l2, rd
<1>19. ~(l2 > maxLog) /\ ~(Len(rd.probs) > maxSymbol + 1)
  <2>1. Len(rd.probs) = Len(probs) /\ Len(probs) \in Nat
    BY <1>18, <1>n DEF n
  <2> QED
    BY <1>1, <1>17, <2>1
<1>20. ReadProbabilities(str, at, maxLog, maxSymbol) = [log |-> l2, probs |-> rd.probs, pos |-> ((rd.pos + 7) \div 8) * 8]
  BY <1>15, <1>16, <1>18, <1>19
<1> QED
  BY <1>8, <1>17, <1>18, <1>20 DEF Found

LEMMA TableIsWritten ==
    ASSUME NEW probs, NEW log, Describable(probs, log), NEW base \in Seq({0, 1}),
           NEW table, table.probs = probs, table.log = log,
           NEW text, text = WriteTable(table, base)
    PROVE  text \in Seq({0, 1}) /\ Starts(text, base) /\ Len(text) % 8 = 0
<1> DEFINE n == Len(probs)
           head == Bits(log - 5, 4)
           h == base \o head
           w == WriteProbabilities(probs, log, h)
<1>1. log \in 5..9 /\ log - 5 \in Nat /\ 4 \in 0..30 /\ 4 \in Nat /\ Len(base) \in Nat
  BY DEF Describable, SoundProbs
<1>2. head \in Seq({0, 1}) /\ Len(head) = 4
  BY <1>1, BitsAre
<1>3. text = Aligned(w)
  BY Zenon DEF WriteTable
<1>4. h \in Seq({0, 1}) /\ Row(h, base, Len(base), head, 4)
  <2> HIDE DEF head
  <2> QED
    BY <1>1, <1>2, InARow
<1> HIDE DEF head, h
<1>5. Len(h) = Len(base) + 4 /\ \A i \in 1..Len(base) : h[i] = base[i]
  BY <1>4, Zenon DEF Row
<1>6. PICK g \in [0..n -> Seq({0, 1})] : Chain(g, Pieces(probs, log), h, n) /\ w = g[n]
  BY <1>4, WriteIsChain
<1>n. n \in Nat /\ n \in 0..n /\ 0 \in 0..n
  BY SharesAre DEF Describable
<1>7. w \in Seq({0, 1})
  <2> HIDE DEF w, n
  <2> QED
    BY <1>6, <1>n
<1>8. Starts(w, h)
  <2>1. \A i \in 1..n : Pieces(probs, log)[i] \in Seq({0, 1})
    BY PieceIsBits DEF Pieces
  <2> HIDE DEF w, n
  <2>2. \A k \in 0..n : \A i \in 0..k : Starts(g[k], g[i])
    BY <1>6, <1>n, <2>1, ChainStarts
  <2>3. Starts(g[n], g[0])
    BY <1>n, <2>2
  <2>4. g[0] = h
    BY <1>6 DEF Chain
  <2> QED
    BY <1>6, <2>3, <2>4
<1> HIDE DEF w
<1>9. Starts(text, w) /\ text \in Seq({0, 1}) /\ Len(text) % 8 = 0
  BY <1>3, <1>7, FilledUp
<1>10. Starts(h, base)
  BY <1>1, <1>5 DEF Starts
<1>11. Len(w) \in Nat /\ Len(h) \in Nat
  BY <1>4, <1>7
<1>12. Starts(w, base)
  BY <1>1, <1>8, <1>10, <1>11, StartsOn, Zenon
<1> QED
  BY <1>1, <1>9, <1>11, <1>12, StartsOn, Zenon

-----------------------------------------------------------------------------
(* Tables on their way                                                     *)

IsTable == item.kind \in {"counts", "probabilities"}

\* What a table is made of.
Source(table, probs, log) == Describable(probs, log) /\ Len(probs) <= 256 /\ table = EncodingTable(probs, log)

\* What the reader gets of a table.
Got(text, read, got) ==
    /\ read = ReadProbabilities(text \o Bits(1, 8), 0, 9, 255)
    /\ got = [log |-> read.log, probs |-> read.probs, pos |-> read.pos,
              decode |-> IF read.log = 0 THEN <<>> ELSE DecodingTable(read.probs, read.log)]

\* A table is made of sound probabilities unless the only symbol is 0; what is on
\* its way describes it, and what arrived was read from that.
TableOnItsWay ==
    IsTable =>
       /\ item \in Items /\ place \in {"given", "panicked", "made", "sent", "received"}
       /\ place = "panicked" => item.kind = "counts" /\ Len(item.value.counts) = 1
       /\ place \in {"made", "sent", "received"} => \E probs, log : Source(made, probs, log)
       /\ place \in {"sent", "received"} => sent = WriteTable(made, <<>>)
       /\ place = "received" => \E read : Got(sent, read, received)

LEMMA SourceIs ==
    ASSUME NEW table, NEW probs, NEW log, Source(table, probs, log)
    PROVE  /\ table.probs = probs /\ table.log = log /\ log \in 5..9 /\ probs \in Seq(Int) /\ SoundProbs(probs, log)
           /\ SameStates(table, DecodingTable(probs, log)) /\ EveryStepIsPossible(table)
<1>1. SoundProbs(probs, log) /\ table = EncodingTable(probs, log)
  BY DEF Source, Describable
<1>2. table.probs = probs /\ table.log = log
  <2>1. EncodingTable(probs, log).probs = probs /\ EncodingTable(probs, log).log = log
    BY DEF EncodingTable
  <2> QED
    BY <1>1, <2>1
<1>3. log \in 5..9 /\ probs \in Seq(Int)
  BY <1>1 DEF SoundProbs
<1>4. SameStates(table, DecodingTable(probs, log)) /\ EveryStepIsPossible(table)
  BY <1>1, StatesAreSame, EveryStepIs
<1> QED
  BY <1>1, <1>2, <1>3, <1>4

LEMMA TableArrives ==
    ASSUME NEW table, NEW probs, NEW log, Source(table, probs, log),
           NEW text, text = WriteTable(table, <<>>), NEW read, NEW got, Got(text, read, got)
    PROVE  /\ got.log = table.log /\ got.probs = table.probs /\ got.pos = Len(text)
           /\ SameStates(table, got.decode) /\ EveryStepIsPossible(table)
<1> DEFINE more == Bits(1, 8)
           str == text \o more
<1>1. /\ table.probs = probs /\ table.log = log /\ log \in 5..9
      /\ SameStates(table, DecodingTable(probs, log)) /\ EveryStepIsPossible(table)
  BY SourceIs
<1>2. Describable(probs, log) /\ <<>> \in Seq({0, 1}) /\ Len(<<>>) = 0
  BY DEF Source
<1>3. text \in Seq({0, 1})
  BY <1>1, <1>2, TableIsWritten
<1>4. more \in Seq({0, 1}) /\ Len(more) = 8
  <2>1. 1 \in Nat /\ 8 \in 0..30
    OBVIOUS
  <2> QED
    BY <2>1, BitsAre
<1> HIDE DEF more
<1>5. str \in Seq({0, 1}) /\ Len(str) = Len(text) + 8 /\ \A i \in 1..Len(text) : str[i] = text[i]
  <2> DEFINE n == Len(text)
  <2>1. n \in Nat /\ 8 \in Nat
    BY <1>3
  <2>2. str \in Seq({0, 1}) /\ Row(str, text, n, more, 8)
    BY <1>3, <1>4, <2>1, InARow
  <2> HIDE DEF str
  <2> QED
    BY <2>2, Zenon DEF Row
<1> HIDE DEF str
<1>6. Starts(str, text) /\ Len(str) > Len(text)
  <2>1. Len(text) \in Nat
    BY <1>3
  <2> QED
    BY <1>5, <2>1 DEF Starts
<1>7. Found(ReadProbabilities(str, 0, 9, 255), log, probs, Len(text))
  <2>1. PICK maxSymbol : maxSymbol = 255
    OBVIOUS
  <2>2. 9 \in Nat /\ log <= 9 /\ maxSymbol \in Nat /\ Len(probs) <= maxSymbol + 1
    BY <1>1, <2>1 DEF Source
  <2>3. probs[Len(probs)] > 0 \/ Len(str) > Len(text)
    BY <1>6, Zenon
  <2>4. str \in Seq({0, 1}) /\ Starts(str, text) /\ 0 = Len(<<>>)
    BY <1>2, <1>5, <1>6
  <2>5. Found(ReadProbabilities(str, 0, 9, maxSymbol), log, probs, Len(text))
    BY <1>1, <1>2, <2>2, <2>3, <2>4, TableIsRead, Zenon
  <2> QED
    BY <2>1, <2>5, Zenon
<1>8. read = [log |-> log, probs |-> probs, pos |-> Len(text)]
  BY <1>7, Zenon DEF Found, Got, str, more
<1>9. read.log = log /\ read.probs = probs /\ read.pos = Len(text)
  BY <1>8
<1>10. got = [log |-> read.log, probs |-> read.probs, pos |-> read.pos,
              decode |-> IF read.log = 0 THEN <<>> ELSE DecodingTable(read.probs, read.log)]
  BY Zenon DEF Got
<1>11. read.log # 0
  BY <1>1, <1>9
<1>12. got.log = read.log /\ got.probs = read.probs /\ got.pos = read.pos /\ got.decode = DecodingTable(read.probs, read.log)
  <2> HIDE DEF Got
  <2> QED
    BY <1>10, <1>11
<1> QED
  BY <1>1, <1>9, <1>12

LEMMA KindsAreApart ==
    ASSUME NEW it, it \in Items, it.kind \in {"counts", "probabilities"}
    PROVE  \/ it.kind = "counts" /\ it.value \in Counts
           \/ it.kind = "probabilities" /\ it.value \in Distributions
BY DEF Items, HeaderItems

\* The first step makes a table of sound probabilities.
LEMMA CountsMakeTable ==
    ASSUME NEW c \in Counts, NEW p, p = Probabilities(c.counts, c.maxLog)
    PROVE  IF Len(c.counts) = 1 THEN p.probs = NoTable
           ELSE p.probs # NoTable /\ Source(EncodingTable(p.probs, p.log), p.probs, p.log)
<1> DEFINE counts == c.counts
           n == Len(counts)
<1>1. /\ c.maxLog \in 5..9 /\ counts \in Seq(Nat) /\ n \in 1..2^c.maxLog /\ counts[n] # 0 /\ n <= 256
  BY CountsAssumption
<1>2. n \in Nat /\ n >= 1
  BY <1>1
<1>3. n <= Pow(c.maxLog)
  <2>1. 2^c.maxLog = Pow(c.maxLog)
    BY Zenon DEF Pow
  <2>2. c.maxLog \in 0..31
    BY <1>1
  <2>3. Pow(c.maxLog) \in Nat
    BY <2>2, Powers
  <2> HIDE DEF n
  <2> QED
    BY <1>1, <2>1, <2>3
<1> HIDE DEF counts, n
<1>4. IF n = 1 THEN p.probs = NoTable ELSE p.log \in 5..c.maxLog /\ Even(p.probs, counts, p.log)
  BY <1>1, <1>2, <1>3, ProbabilitiesAre DEF counts, n
<1>5. CASE n = 1
  BY <1>4, <1>5 DEF counts, n
<1>6. CASE n # 1
  <2>1. p.log \in 5..9 /\ Even(p.probs, counts, p.log)
    <3> DEFINE m == c.maxLog
    <3>1. m \in 5..9 /\ p.log \in 5..m /\ Even(p.probs, counts, p.log)
      BY <1>1, <1>4, <1>6
    <3> HIDE DEF m
    <3> QED
      BY <3>1
  <2>2. SoundProbs(p.probs, p.log)
    BY <2>1, EvenIsSound
  <2>3. p.probs \in Seq(Nat) /\ Len(p.probs) = n /\ p.probs[n] # 0
    <3>1. n \in 1..n
      BY <1>2
    <3> QED
      BY <1>1, <2>1, <3>1 DEF Even, Keeps, n
  <2>4. p.probs # NoTable
    BY <1>2, <2>3 DEF NoTable
  <2>5. Source(EncodingTable(p.probs, p.log), p.probs, p.log)
    BY <1>1, <1>2, <2>2, <2>3 DEF Source, Describable
  <2> QED
    BY <1>6, <2>4, <2>5 DEF counts, n
<1> QED
  BY <1>5, <1>6

LEMMA DistributionMakesTable ==
    ASSUME NEW p \in Distributions
    PROVE  p.probs # NoTable /\ Source(EncodingTable(p.probs, p.log), p.probs, p.log)
<1>1. /\ p.log \in 5..9 /\ p.probs \in Seq(Int) /\ Len(p.probs) >= 1 /\ Len(p.probs) <= 256 /\ p.probs[Len(p.probs)] # 0
      /\ \A s \in 1..Len(p.probs) : p.probs[s] >= -1
      /\ SumTo(Shares(p.probs), Len(p.probs)) = Pow(p.log)
  BY DistributionsAssumption DEF Pow
<1>2. p.probs # NoTable
  BY <1>1 DEF NoTable
<1>3. Describable(p.probs, p.log)
  BY <1>1 DEF Describable, SoundProbs
<1> QED
  BY <1>1, <1>2, <1>3 DEF Source

LEMMA TablesStart == Init => TableOnItsWay
<1> SUFFICES ASSUME Init, IsTable PROVE TableOnItsWay
  BY DEF TableOnItsWay
<1>1. place = "given"
  BY DEF Init
<1>2. item \in Items
  <2>1. \/ item = Nothing \/ item \in Items \/ item = [kind |-> "reader"] \/ item = [kind |-> "writer"]
    BY DEF Init
  <2>2. item # Nothing /\ item # [kind |-> "reader"] /\ item # [kind |-> "writer"]
    BY DEF IsTable, Nothing
  <2> QED
    BY <2>1, <2>2
<1> QED
  BY <1>1, <1>2 DEF TableOnItsWay

\* The steps of the other codecs are none of a table's.
LEMMA TableSteps ==
    ASSUME TableOnItsWay, [Next]_vars, IsTable
    PROVE  \/ MakeTable \/ SendTable \/ ReceiveTable \/ UNCHANGED codecVars
<1>1. place \in {"given", "panicked", "made", "sent", "received"}
  BY DEF TableOnItsWay
<1>2. item.kind \notin {"nothing", "literals", "section", "frame", "block", "literals header", "reader", "writer"}
  BY DEF IsTable
<1>3. item # Nothing
  <2>1. Nothing.kind = "nothing" /\ item.kind # "nothing"
    BY <1>2 DEF Nothing
  <2> QED
    BY <2>1, Zenon
<1>4. CASE UNCHANGED vars
  BY <1>4 DEF vars
<1>5. CASE Next
  <2>1. CodecNext \/ BitNext
    BY <1>3, <1>5 DEF Next
  <2>2. ~BitNext
    BY <1>2, Zenon DEF BitNext
  <2>3. ~Weigh /\ ~SendWeights /\ ~ReceiveWeights /\ ~ChooseTable /\ ~ReceiveSection
    BY <1>2 DEF Weigh, SendWeights, ReceiveWeights, ChooseTable, ReceiveSection
  <2>4. ~AssignCodes /\ ~StartSection /\ ~WriteStream /\ ~FinishSection /\ ~ReceiveStream /\ ~FinishReceiving
    BY <1>1 DEF AssignCodes, StartSection, WriteStream, FinishSection, ReceiveStream, FinishReceiving
  <2>5. ~HeaderNext
    BY <1>2 DEF HeaderNext, WriteItem, ReadItem, IsHeader
  <2> QED
    BY <2>1, <2>2, <2>3, <2>4, <2>5, Zenon DEF CodecNext
<1> QED
  BY <1>4, <1>5, Zenon

\* What is on its way stays what it is.
LEMMA ItemStays ==
    ASSUME [Next]_vars
    PROVE  item' = item
<1>1. CASE Next
  <2>1. CASE UNCHANGED codecVars
    BY <2>1 DEF codecVars
  <2>2. CASE BitNext
    BY <2>2, Zenon DEF BitNext
  <2>3. CASE CodecNext
    BY <2>3, Zenon DEF CodecNext, MakeTable, SendTable, ReceiveTable, Weigh, AssignCodes, SendWeights, ReceiveWeights,
                ChooseTable, StartSection, WriteStream, FinishSection, ReceiveSection, ReceiveStream,
                FinishReceiving, HeaderNext, WriteItem, ReadItem
  <2> QED
    BY <1>1, <2>1, <2>2, <2>3, Zenon DEF Next
<1>2. CASE UNCHANGED vars
  BY <1>2 DEF vars, codecVars
<1> QED
  BY <1>1, <1>2, Zenon

LEMMA TablesGoOn ==
    ASSUME TableOnItsWay, [Next]_vars
    PROVE  TableOnItsWay'
<1>0. item' = item
  BY ItemStays
<1> SUFFICES ASSUME IsTable' PROVE TableOnItsWay'
  BY DEF TableOnItsWay
<1>1. IsTable
  BY <1>0 DEF IsTable
<1>2. /\ item \in Items /\ place \in {"given", "panicked", "made", "sent", "received"}
      /\ place = "panicked" => item.kind = "counts" /\ Len(item.value.counts) = 1
      /\ place \in {"made", "sent", "received"} => \E probs, log : Source(made, probs, log)
      /\ place \in {"sent", "received"} => sent = WriteTable(made, <<>>)
      /\ place = "received" => \E read : Got(sent, read, received)
  BY <1>1, Zenon DEF TableOnItsWay
<1>3. CASE MakeTable
  <2> DEFINE p == IF item.kind = "counts" THEN Probabilities(item.value.counts, item.value.maxLog) ELSE item.value
  <2>1. IF p.probs = NoTable THEN place' = "panicked" ELSE place' = "made" /\ made' = EncodingTable(p.probs, p.log)
    BY <1>3, Zenon DEF MakeTable
  <2>2. IF p.probs = NoTable THEN item.kind = "counts" /\ Len(item.value.counts) = 1
        ELSE Source(EncodingTable(p.probs, p.log), p.probs, p.log)
    <3>1. CASE item.kind = "counts" /\ item.value \in Counts
      <4>1. p = Probabilities(item.value.counts, item.value.maxLog)
        BY <3>1
      <4> HIDE DEF p
      <4> DEFINE c == item.value
      <4>2. IF Len(c.counts) = 1 THEN p.probs = NoTable
            ELSE p.probs # NoTable /\ Source(EncodingTable(p.probs, p.log), p.probs, p.log)
        <5>1. c \in Counts /\ p = Probabilities(c.counts, c.maxLog)
          BY <3>1, <4>1
        <5> HIDE DEF c
        <5> QED
          BY <5>1, CountsMakeTable
      <4> QED
        BY <3>1, <4>2
    <3>2. CASE item.kind = "probabilities" /\ item.value \in Distributions
      <4>1. p = item.value
        BY <3>2
      <4> HIDE DEF p
      <4>2. p.probs # NoTable /\ Source(EncodingTable(p.probs, p.log), p.probs, p.log)
        BY <3>2, <4>1, DistributionMakesTable
      <4> QED
        BY <4>2
    <3> HIDE DEF p
    <3> QED
      BY <1>1, <1>2, <3>1, <3>2, KindsAreApart, Zenon DEF IsTable
  <2> HIDE DEF p
  <2>3. CASE p.probs = NoTable
    BY <1>0, <1>2, <2>1, <2>2, <2>3 DEF TableOnItsWay
  <2>4. CASE p.probs # NoTable
    <3>1. place' = "made" /\ \E probs, log : Source(made', probs, log)
      BY <2>1, <2>2, <2>4, Zenon
    <3> QED
      BY <1>0, <1>2, <3>1 DEF TableOnItsWay
  <2> QED
    BY <2>3, <2>4
<1>4. CASE SendTable
  <2>1. place = "made" /\ place' = "sent" /\ made' = made /\ sent' = WriteTable(made, <<>>)
    BY <1>4, Zenon DEF SendTable
  <2>2. \E probs, log : Source(made', probs, log)
    BY <1>2, <2>1
  <2> QED
    BY <1>0, <1>2, <2>1, <2>2 DEF TableOnItsWay
<1>5. CASE ReceiveTable
  <2>1. place = "sent" /\ place' = "received" /\ made' = made /\ sent' = sent
    BY <1>5, Zenon DEF ReceiveTable
  <2>2. \E read : Got(sent, read, received')
    <3> DEFINE read == ReadProbabilities(sent \o Bits(1, 8), 0, 9, 255)
    <3>1. received' = [log |-> read.log, probs |-> read.probs, pos |-> read.pos,
                       decode |-> IF read.log = 0 THEN <<>> ELSE DecodingTable(read.probs, read.log)]
      BY <1>5, Zenon DEF ReceiveTable
    <3>2. Got(sent, read, received')
      BY <3>1, Zenon DEF Got
    <3> HIDE DEF read
    <3> QED
      BY <3>2
  <2>3. \E probs, log : Source(made', probs, log)
    BY <1>2, <2>1
  <2> QED
    BY <1>0, <1>2, <2>1, <2>2, <2>3 DEF TableOnItsWay
<1>6. CASE UNCHANGED codecVars
  BY <1>2, <1>6 DEF TableOnItsWay, codecVars
<1> QED
  BY <1>1, <1>3, <1>4, <1>5, <1>6, TableSteps, Zenon

\* Tables always agree: whatever counts or probabilities a table is made from, the
\* description that fse_encoder.rs writes is read back to its last bit, each of its
\* states is that state of the table fse_decoder.rs builds, and from every state
\* there is a step for every symbol; only counts of symbol 0 alone make no table.
THEOREM TablesAlwaysAgree == Spec => []TablesAreTheSameAutomaton
<1>1. TableOnItsWay => TablesAreTheSameAutomaton
  <2> SUFFICES ASSUME TableOnItsWay PROVE TablesAreTheSameAutomaton
    OBVIOUS
  <2>1. place = "panicked" /\ item.kind = "counts" => Len(item.value.counts) = 1
    BY DEF TableOnItsWay, IsTable
  <2>2. ASSUME place = "received", item.kind \in {"counts", "probabilities"}
        PROVE  /\ received.log = made.log /\ received.probs = made.probs /\ received.pos = Len(sent)
               /\ SameStates(made, received.decode) /\ EveryStepIsPossible(made)
    <3>1. PICK probs, log : Source(made, probs, log)
      BY <2>2 DEF TableOnItsWay, IsTable
    <3>2. PICK read : Got(sent, read, received)
      BY <2>2 DEF TableOnItsWay, IsTable
    <3>3. sent = WriteTable(made, <<>>)
      BY <2>2 DEF TableOnItsWay, IsTable
    <3> QED
      BY <3>1, <3>2, <3>3, TableArrives
  <2> QED
    BY <2>1, <2>2 DEF TablesAreTheSameAutomaton
<1> QED
  BY <1>1, TablesStart, TablesGoOn, PTL DEF Spec

=============================================================================
