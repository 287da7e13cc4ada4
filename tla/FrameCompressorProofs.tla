------------------------ MODULE FrameCompressorProofs ------------------------
(***************************************************************************)
(* What a decoder makes of the blocks is what was read from the source,    *)
(* and it has the Huffman table the compressor goes on with, for every     *)
(* input, way of reading it, level, and parse a matcher hands out.         *)
(***************************************************************************)
EXTENDS FrameCompressor, NaturalsInduction, WellFoundedInduction,
        FiniteSetTheorems, SequenceTheorems, TLAPS
-----------------------------------------------------------------------------
(* Numbers and sequences.                                                  *)

\* Induction, stated with a set: no operator parameter is needed.
LEMMA InductionOnSets ==
    ASSUME NEW S \in SUBSET Nat, 0 \in S, \A n \in S : n + 1 \in S
    PROVE  \A n \in Nat : n \in S
<1> DEFINE T == Nat \ S
<1> SUFFICES ASSUME T # {} PROVE FALSE
  OBVIOUS
<1>1. PICK m \in T : \A y \in T : ~ (<<y, m>> \in OpToRel(<, Nat))
  BY NatLessThanWellFounded, WFMin, Zenon
<1>2. \A y \in T : ~(y < m)
  BY <1>1, Zenon DEF OpToRel
<1>3. m # 0 /\ m \in Nat
  OBVIOUS
<1>4. m - 1 \in Nat /\ m - 1 < m /\ (m - 1) + 1 = m
  BY <1>3
<1>5. m - 1 \in S
  BY <1>2, <1>4
<1> QED
  BY <1>4, <1>5

\* The remainder is the j of q * o + j.
LEMMA ModUnique ==
    ASSUME NEW o \in Nat, NEW q \in Nat, NEW j \in Nat, j < o
    PROVE  (q * o + j) % o = j
<1> DEFINE x == q * o + j
<1>1. x \in Nat /\ o > 0
  OBVIOUS
<1>2. x = o * (x \div o) + (x % o) /\ x % o \in 0..(o - 1) /\ x \div o \in Nat
  BY <1>1
<1> DEFINE d == x \div o
           m == x % o
<1> HIDE DEF d, m
<1>3. CASE q >= d + 1
  OBVIOUS
<1> QED
  OBVIOUS

\* Once round does not change a remainder.
LEMMA ModRound ==
    ASSUME NEW o \in Nat, o > 0, NEW x \in Nat
    PROVE  (x + o) % o = x % o /\ x % o \in 0..(o - 1) /\ (x < o => x % o = x)
<1> DEFINE q == x \div o
           j == x % o
<1>1. q \in Nat /\ j \in Nat /\ j < o /\ x = q * o + j
  OBVIOUS
<1> HIDE DEF q, j
<1>2. x + o = (q + 1) * o + j /\ q + 1 \in Nat
  BY <1>1
<1>3. ((q + 1) * o + j) % o = j
  BY <1>1, <1>2, ModUnique
<1>4. x < o => x % o = x
  OBVIOUS
<1> QED
  BY <1>1, <1>2, <1>3, <1>4 DEF j

\* A part of a sequence.
LEMMA Part ==
    ASSUME NEW S, NEW p \in Seq(S), NEW b \in 0..Len(p), NEW a \in 1..(b + 1)
    PROVE  /\ SubSeq(p, a, b) \in Seq(S) /\ Len(SubSeq(p, a, b)) = b - a + 1
           /\ \A k \in 1..(b - a + 1) : SubSeq(p, a, b)[k] = p[a + k - 1]
  OBVIOUS

\* Two sequences in a row.
LEMMA Joined ==
    ASSUME NEW S, NEW a \in Seq(S), NEW b \in Seq(S)
    PROVE  /\ a \o b \in Seq(S) /\ Len(a \o b) = Len(a) + Len(b)
           /\ \A i \in 1..Len(a) : (a \o b)[i] = a[i]
           /\ \A i \in 1..Len(b) : (a \o b)[Len(a) + i] = b[i]
  OBVIOUS

\* Sequences of one length are equal when their elements are.
LEMMA SameElements ==
    ASSUME NEW S, NEW a \in Seq(S), NEW b \in Seq(S), Len(a) = Len(b),
           \A i \in 1..Len(a) : a[i] = b[i]
    PROVE  a = b
  OBVIOUS

\* A beginning of a sequence, and what stands next in it.
LEMMA NextPart ==
    ASSUME NEW S, NEW s \in Seq(S), NEW p \in Nat, NEW q \in Nat, p <= q, q <= Len(s)
    PROVE  SubSeq(s, 1, p) \o SubSeq(s, p + 1, q) = SubSeq(s, 1, q)
<1> DEFINE a == SubSeq(s, 1, p)
           b == SubSeq(s, p + 1, q)
           c == SubSeq(s, 1, q)
<1>1. /\ a \in Seq(S) /\ Len(a) = p /\ \A i \in 1..p : a[i] = s[i]
      /\ c \in Seq(S) /\ Len(c) = q /\ \A i \in 1..q : c[i] = s[i]
  OBVIOUS
<1>2. b \in Seq(S) /\ Len(b) = q - p /\ \A i \in 1..(q - p) : b[i] = s[p + i]
  OBVIOUS
<1> HIDE DEF a, b, c
<1>3. /\ a \o b \in Seq(S) /\ Len(a \o b) = q
      /\ \A i \in 1..p : (a \o b)[i] = s[i]
      /\ \A i \in 1..(q - p) : (a \o b)[p + i] = s[p + i]
  BY <1>1, <1>2, Joined
<1>4. ASSUME NEW i \in 1..q PROVE (a \o b)[i] = c[i]
  <2>1. CASE i <= p
    BY <1>1, <1>3, <2>1
  <2>2. CASE ~(i <= p)
    <3>1. i - p \in 1..(q - p) /\ p + (i - p) = i
      BY <2>2
    <3> QED
      BY <1>1, <1>3, <3>1
  <2> QED
    BY <2>1, <2>2
<1> QED
  BY <1>1, <1>3, <1>4, SameElements DEF a, b, c

-----------------------------------------------------------------------------
(* Matches and literals.                                                   *)

Triples == [ll : Nat, len : Nat \ {0}, offset : Nat \ {0}]

\* What Ends says of a parse, match by match.
LEMMA EndsAddUp ==
    ASSUME NEW parse \in Seq(Triples)
    PROVE  /\ Ends(parse)[0] = 0
           /\ \A k \in 1..Len(parse) :
                 Ends(parse)[k] = Ends(parse)[k - 1] + parse[k].ll + parse[k].len
           /\ \A k \in 0..Len(parse) : Ends(parse)[k] \in Nat
<1> DEFINE l == Len(parse)
           Solves(f, n) == f = [k \in 0..n |-> IF k = 0 THEN 0
                                               ELSE f[k - 1] + parse[k].ll + parse[k].len]
           S == {n \in Nat : \E f : Solves(f, n)}
           end == CHOOSE f : Solves(f, l)
<1>1. 0 \in S
  <2> DEFINE f == [k \in 0..0 |-> 0]
  <2>1. Solves(f, 0)
    OBVIOUS
  <2> QED
    BY <2>1, Zenon
<1>2. ASSUME NEW n \in S PROVE n + 1 \in S
  <2>1. n \in Nat /\ n + 1 \in Nat
    OBVIOUS
  <2>2. PICK f : Solves(f, n)
    BY Zenon
  <2> DEFINE Further(x, k) == x + parse[k].ll + parse[k].len
             g == [k \in 0..(n + 1) |-> IF k <= n THEN f[k] ELSE Further(f[n], k)]
  <2>3. \A k \in 0..n : f[k] = IF k = 0 THEN 0 ELSE Further(f[k - 1], k)
    BY <2>2, Zenon
  <2> HIDE DEF Further
  <2>4. \A k \in 0..(n + 1) : g[k] = IF k = 0 THEN 0 ELSE Further(g[k - 1], k)
    BY <2>1, <2>3
  <2>5. g = [k \in 0..(n + 1) |-> g[k]]
    OBVIOUS
  <2> HIDE DEF g
  <2>6. Solves(g, n + 1)
    BY <2>4, <2>5 DEF Further
  <2> QED
    BY <2>1, <2>6, Zenon
<1>3. \A n \in Nat : n \in S
  <2> HIDE DEF S
  <2>1. S \in SUBSET Nat
    BY Zenon DEF S
  <2> QED
    BY <1>1, <1>2, <2>1, InductionOnSets, Zenon
<1>4. l \in Nat
  OBVIOUS
<1>5. Solves(end, l)
  <2>1. \E f : Solves(f, l)
    BY <1>3, <1>4, Zenon
  <2> QED
    BY <2>1, Zenon
<1>6. Ends(parse) = end
  BY Zenon DEF Ends
<1> HIDE DEF end
<1>7. \A k \in 0..l : end[k] = IF k = 0 THEN 0 ELSE end[k - 1] + parse[k].ll + parse[k].len
  BY <1>5, Zenon
<1> HIDE DEF S, Solves
<1>8. \A k \in 1..l : parse[k].ll \in Nat /\ parse[k].len \in Nat
  <2>1. \A k \in 1..l : parse[k] \in Triples
    OBVIOUS
  <2> QED
    BY <2>1 DEF Triples
<1> DEFINE R == {n \in Nat : n <= l => end[n] \in Nat}
<1>9. 0 \in R
  BY <1>4, <1>7
<1>10. ASSUME NEW n \in R PROVE n + 1 \in R
  BY <1>4, <1>7, <1>8
<1>11. \A n \in Nat : n \in R
  <2> HIDE DEF R
  <2>1. R \in SUBSET Nat
    BY Zenon DEF R
  <2> QED
    BY <1>9, <1>10, <2>1, InductionOnSets, Zenon
<1>12. \A n \in 0..l : end[n] \in Nat
  BY <1>4, <1>11
<1> QED
  BY <1>4, <1>6, <1>7, <1>12

\* The last match ends where the parse does, so every match is inside.
LEMMA EndsInside ==
    ASSUME NEW parse \in Seq(Triples), NEW k \in 0..Len(parse)
    PROVE  Ends(parse)[k] <= Ends(parse)[Len(parse)]
<1> DEFINE l == Len(parse)
           end == Ends(parse)
           S == {n \in Nat : k + n <= l => end[k] <= end[k + n]}
<1>1. /\ l \in Nat /\ k \in Nat /\ k <= l
      /\ \A n \in 0..l : end[n] \in Nat
      /\ \A n \in 1..l : end[n] = end[n - 1] + parse[n].ll + parse[n].len
  BY EndsAddUp
<1>2. \A n \in 1..l : parse[n].ll \in Nat /\ parse[n].len \in Nat
  <2>1. \A n \in 1..l : parse[n] \in Triples
    OBVIOUS
  <2> QED
    BY <2>1 DEF Triples
<1> HIDE DEF end
<1>3. 0 \in S
  BY <1>1
<1>4. ASSUME NEW n \in S PROVE n + 1 \in S
  <2> SUFFICES ASSUME k + (n + 1) <= l PROVE end[k] <= end[k + (n + 1)]
    OBVIOUS
  <2>1. /\ n \in Nat /\ k + n <= l /\ k + n \in 0..l /\ k + (n + 1) \in 1..l
        /\ (k + (n + 1)) - 1 = k + n /\ k \in 0..l
    BY <1>1
  <2>2. end[k + (n + 1)] = end[k + n] + parse[k + (n + 1)].ll + parse[k + (n + 1)].len
    BY <1>1, <2>1
  <2>3. end[k] <= end[k + n]
    BY <2>1
  <2> QED
    BY <1>1, <1>2, <2>1, <2>2, <2>3
<1>5. \A n \in Nat : n \in S
  <2> HIDE DEF S
  <2>1. S \in SUBSET Nat
    BY Zenon DEF S
  <2> QED
    BY <1>3, <1>4, <2>1, InductionOnSets, Zenon
<1>6. l - k \in Nat /\ k + (l - k) = l
  BY <1>1
<1> QED
  BY <1>5, <1>6 DEF end

\* The literals in front of each match, in a row: what LiteralsOf collects.
LEMMA LiteralsCollected ==
    ASSUME NEW data \in Seq(Byte), NEW parse \in Seq(Triples),
           Ends(parse)[Len(parse)] <= Len(data)
    PROVE  \E lits \in [0..Len(parse) -> Seq(Byte)] :
              /\ lits[0] = <<>>
              /\ \A k \in 1..Len(parse) :
                    lits[k] = lits[k - 1] \o SubSeq(data, Ends(parse)[k - 1] + 1,
                                                    Ends(parse)[k - 1] + parse[k].ll)
              /\ LiteralsOf(data, parse)
                   = lits[Len(parse)] \o SubSeq(data, Ends(parse)[Len(parse)] + 1, Len(data))
<1> DEFINE l == Len(parse)
           end == Ends(parse)
           Piece(k) == SubSeq(data, end[k - 1] + 1, end[k - 1] + parse[k].ll)
           Solves(f, n) == f = [k \in 0..n |-> IF k = 0 THEN <<>> ELSE f[k - 1] \o Piece(k)]
           S == {n \in Nat : \E f : Solves(f, n)}
           lits == CHOOSE f : Solves(f, l)
<1>1. 0 \in S
  <2> DEFINE f == [k \in 0..0 |-> <<>>]
  <2> HIDE DEF Piece
  <2>1. Solves(f, 0)
    OBVIOUS
  <2> QED
    BY <2>1, Zenon
<1>2. ASSUME NEW n \in S PROVE n + 1 \in S
  <2>1. n \in Nat /\ n + 1 \in Nat
    OBVIOUS
  <2>2. PICK f : Solves(f, n)
    BY Zenon
  <2> DEFINE Then(x, k) == x \o Piece(k)
             g == [k \in 0..(n + 1) |-> IF k <= n THEN f[k] ELSE Then(f[n], k)]
  <2>3. \A k \in 0..n : f[k] = IF k = 0 THEN <<>> ELSE Then(f[k - 1], k)
    BY <2>2, Zenon
  <2> HIDE DEF Then, Piece
  <2>4. \A k \in 0..(n + 1) : g[k] = IF k = 0 THEN <<>> ELSE Then(g[k - 1], k)
    BY <2>1, <2>3
  <2>5. g = [k \in 0..(n + 1) |-> g[k]]
    OBVIOUS
  <2> HIDE DEF g
  <2>6. Solves(g, n + 1)
    BY <2>4, <2>5 DEF Then
  <2> QED
    BY <2>1, <2>6, Zenon
<1>3. \A n \in Nat : n \in S
  <2> HIDE DEF S
  <2>1. S \in SUBSET Nat
    BY Zenon DEF S
  <2> QED
    BY <1>1, <1>2, <2>1, InductionOnSets, Zenon
<1>4. /\ l \in Nat /\ Len(data) \in Nat
      /\ \A k \in 0..l : end[k] \in Nat /\ end[k] <= Len(data)
      /\ \A k \in 1..l : end[k] = end[k - 1] + parse[k].ll + parse[k].len
  <2>1. l \in Nat /\ Len(data) \in Nat /\ l \in 0..l
    OBVIOUS
  <2>2. \A k \in 0..l : end[k] \in Nat /\ end[k] <= end[l]
    BY EndsAddUp, EndsInside
  <2> HIDE DEF end
  <2>3. \A k \in 0..l : end[k] \in Nat /\ end[k] <= Len(data)
    BY <2>1, <2>2 DEF end
  <2> QED
    BY <2>1, <2>3, EndsAddUp DEF end
<1>5. Solves(lits, l)
  <2>1. \E f : Solves(f, l)
    BY <1>3, <1>4, Zenon
  <2> QED
    BY <2>1, Zenon
<1>6. LiteralsOf(data, parse) = lits[l] \o SubSeq(data, end[l] + 1, Len(data))
  BY Zenon DEF LiteralsOf
<1> HIDE DEF lits, S
<1>7. /\ \A k \in 0..l : lits[k] = IF k = 0 THEN <<>> ELSE lits[k - 1] \o Piece(k)
      /\ DOMAIN lits = 0..l
      /\ lits = [k \in 0..l |-> lits[k]]
  <2> HIDE DEF Piece
  <2> DEFINE g == [k \in 0..l |-> IF k = 0 THEN <<>> ELSE lits[k - 1] \o Piece(k)]
  <2>1. lits = g
    BY <1>5, Zenon
  <2>2. /\ \A k \in 0..l : g[k] = IF k = 0 THEN <<>> ELSE lits[k - 1] \o Piece(k)
        /\ DOMAIN g = 0..l
        /\ g = [k \in 0..l |-> g[k]]
    OBVIOUS
  <2> HIDE DEF g
  <2> QED
    BY <2>1, <2>2, Zenon
<1>8. ASSUME NEW k \in 1..l PROVE Piece(k) \in Seq(Byte)
  <2>1. parse[k] \in Triples
    OBVIOUS
  <2>2. parse[k].ll \in Nat /\ parse[k].len \in Nat
    BY <2>1 DEF Triples
  <2>3. /\ k \in 0..l /\ k - 1 \in 0..l /\ end[k - 1] \in Nat
        /\ end[k - 1] + parse[k].ll <= Len(data)
    <3> HIDE DEF end
    <3>1. k \in 0..l /\ k - 1 \in 0..l
      BY <1>4
    <3> DEFINE a == end[k - 1]
               b == end[k]
               m == parse[k].ll
               n == parse[k].len
    <3>2. a \in Nat /\ b \in Nat /\ b <= Len(data) /\ b = a + m + n
      BY <1>4, <3>1, Zenon
    <3>3. m \in Nat /\ n \in Nat /\ Len(data) \in Nat
      BY <1>4, <2>2
    <3> HIDE DEF a, b, m, n
    <3>4. a + m <= Len(data)
      BY <3>2, <3>3
    <3> QED
      BY <3>1, <3>2, <3>4 DEF a, m
  <2> DEFINE a == end[k - 1]
             b == parse[k].ll
  <2> HIDE DEF a, b
  <2>4. a \in Nat /\ b \in Nat /\ a + b <= Len(data)
    BY <2>2, <2>3 DEF a, b
  <2>5. SubSeq(data, a + 1, a + b) \in Seq(Byte)
    BY <2>4
  <2> QED
    BY <2>5 DEF a, b
<1> HIDE DEF Piece, Solves
<1> DEFINE R == {n \in Nat : n <= l => lits[n] \in Seq(Byte)}
<1>9. 0 \in R
  <2>1. 0 \in 0..l /\ <<>> \in Seq(Byte)
    BY <1>4
  <2>2. lits[0] = <<>>
    BY <1>7, <2>1, Zenon
  <2> QED
    BY <2>1, <2>2
<1>10. ASSUME NEW n \in R PROVE n + 1 \in R
  <2> SUFFICES ASSUME n + 1 <= l PROVE lits[n + 1] \in Seq(Byte)
    OBVIOUS
  <2>1. /\ n \in Nat /\ n <= l /\ n + 1 \in 1..l /\ n + 1 \in 0..l /\ (n + 1) - 1 = n
        /\ n + 1 # 0
    BY <1>4
  <2>2. lits[n + 1] = lits[n] \o Piece(n + 1)
    BY <1>7, <2>1
  <2>3. lits[n] \in Seq(Byte) /\ Piece(n + 1) \in Seq(Byte)
    BY <1>8, <2>1
  <2> QED
    BY <2>2, <2>3
<1>11. \A n \in Nat : n \in R
  <2> HIDE DEF R
  <2>1. R \in SUBSET Nat
    BY Zenon DEF R
  <2> QED
    BY <1>9, <1>10, <2>1, InductionOnSets, Zenon
<1>12. \A n \in 0..l : lits[n] \in Seq(Byte)
  BY <1>4, <1>11
<1>13. lits \in [0..l -> Seq(Byte)]
  BY <1>7, <1>12
<1>14. 0 \in 0..l /\ \A k \in 1..l : k \in 0..l /\ k # 0
  BY <1>4
<1>15. lits[0] = <<>>
  BY <1>7, <1>14, Zenon
<1>16. \A k \in 1..l : lits[k] = lits[k - 1] \o Piece(k)
  BY <1>7, <1>14, Zenon
<1> QED
  BY <1>6, <1>13, <1>15, <1>16, Zenon DEF Piece

\* A match whose bytes stand offset back is copied right, also where it reaches
\* into itself.
LEMMA MatchCopied ==
    ASSUME NEW all \in Seq(Byte), NEW p \in Nat, NEW m \in Triples,
           m.offset <= p, p + m.len <= Len(all),
           \A i \in 1..m.len : all[p + i] = all[p + i - m.offset]
    PROVE  WithMatch(SubSeq(all, 1, p), m) = SubSeq(all, 1, p + m.len)
<1> DEFINE o == m.offset
           len == m.len
           from(i) == p - o + 1 + ((i - 1) % o)
           S == {n \in Nat : \A i \in 1..n : i <= len => all[p + i] = all[from(i)]}
<1>1. o \in Nat /\ o > 0 /\ len \in Nat /\ o <= p /\ p + len <= Len(all) /\ Len(all) \in Nat
  BY DEF Triples
<1>2. \A i \in 1..len : all[p + i] = all[p + i - o]
  OBVIOUS
<1> HIDE DEF o, len
<1>3. 0 \in S
  OBVIOUS
<1>4. ASSUME NEW n \in S PROVE n + 1 \in S
  <2> SUFFICES ASSUME n + 1 <= len PROVE all[p + (n + 1)] = all[from(n + 1)]
    BY <1>1
  <2>1. n \in Nat /\ n + 1 \in 1..len /\ (n + 1) - 1 = n
    BY <1>1
  <2>2. all[p + (n + 1)] = all[p + (n + 1) - o]
    BY <1>2, <2>1
  <2>3. from(n + 1) = p - o + 1 + (n % o)
    BY <2>1
  <2>4. CASE n < o
    <3>1. n % o = n
      BY <1>1, <2>1, <2>4, ModRound
    <3>2. p + (n + 1) - o = p - o + 1 + n
      BY <1>1, <2>1
    <3> QED
      BY <2>2, <2>3, <3>1, <3>2
  <2>5. CASE ~(n < o)
    <3> DEFINE j == n - o
    <3>1. j \in Nat /\ j + o = n /\ j + 1 \in 1..n /\ j + 1 <= len /\ (j + 1) - 1 = j
      BY <1>1, <2>1, <2>5
    <3>2. all[p + (j + 1)] = all[from(j + 1)]
      BY <3>1
    <3>3. j % o = n % o
      BY <1>1, <3>1, ModRound
    <3>4. from(j + 1) = p - o + 1 + (j % o)
      BY <3>1
    <3>5. p + (n + 1) - o = p + (j + 1)
      BY <1>1, <2>1
    <3> HIDE DEF from, j
    <3> QED
      BY <2>2, <2>3, <3>2, <3>3, <3>4, <3>5
  <2> QED
    BY <2>4, <2>5
<1>5. \A n \in Nat : n \in S
  <2> HIDE DEF S
  <2>1. S \in SUBSET Nat
    BY Zenon DEF S
  <2> QED
    BY <1>3, <1>4, <2>1, InductionOnSets, Zenon
<1>6. \A i \in 1..len : all[p + i] = all[from(i)]
  <2>1. len \in S
    BY <1>1, <1>5
  <2> QED
    BY <1>1, <2>1
<1> DEFINE out == SubSeq(all, 1, p)
           copy == [i \in 1..len |-> IF o <= Len(out) THEN out[Len(out) - o + 1 + ((i - 1) % o)]
                                                      ELSE None]
           more == [i \in 1..len |-> all[p + i]]
           next == SubSeq(all, p + 1, p + len)
<1>7. out \in Seq(Byte) /\ Len(out) = p /\ \A i \in 1..p : out[i] = all[i]
  BY <1>1
<1>8. ASSUME NEW i \in 1..len PROVE copy[i] = all[p + i]
  <2>1. i - 1 \in Nat /\ (i - 1) % o \in 0..(o - 1)
    <3>1. i - 1 \in Nat
      BY <1>1
    <3> QED
      BY <1>1, <3>1, ModRound
  <2>2. from(i) \in 1..p
    BY <1>1, <2>1
  <2>3. copy[i] = out[from(i)]
    <3> HIDE DEF out
    <3> QED
      BY <1>1, <1>7
  <2> HIDE DEF out, copy, from
  <2> QED
    BY <1>6, <1>7, <2>2, <2>3
<1>9. next \in Seq(Byte) /\ Len(next) = len /\ \A i \in 1..len : next[i] = all[p + i]
  BY <1>1
<1>10. copy = next
  <2>1. DOMAIN copy = 1..len /\ copy = [i \in 1..len |-> copy[i]]
    OBVIOUS
  <2>2. next = [i \in 1..len |-> next[i]]
    <3> HIDE DEF next
    <3> QED
      BY <1>1, <1>9
  <2> HIDE DEF copy, next
  <2> QED
    BY <1>8, <1>9, <2>1, <2>2
<1>11. WithMatch(out, m) = out \o copy
  BY Zenon DEF WithMatch, o, len
<1>12. out \o next = SubSeq(all, 1, p + len)
  BY <1>1, NextPart
<1> QED
  BY <1>10, <1>11, <1>12 DEF len

-----------------------------------------------------------------------------
(* What a decoder does with a parse.                                       *)

Beginning(a, b) == Len(a) <= Len(b) /\ \A i \in 1..Len(a) : b[i] = a[i]

LEMMA BeginningOfJoined ==
    ASSUME NEW S, NEW a \in Seq(S), NEW b \in Seq(S), NEW c \in Seq(S), Beginning(a \o b, c)
    PROVE  /\ Beginning(a, c)
           /\ Len(a) + Len(b) <= Len(c)
           /\ \A i \in 1..Len(b) : c[Len(a) + i] = b[i]
<1> DEFINE ab == a \o b
<1>1. /\ ab \in Seq(S) /\ Len(ab) = Len(a) + Len(b)
      /\ \A i \in 1..Len(a) : ab[i] = a[i]
      /\ \A i \in 1..Len(b) : ab[Len(a) + i] = b[i]
  BY Joined
<1>2. Len(a) \in Nat /\ Len(b) \in Nat /\ Len(c) \in Nat
  OBVIOUS
<1>3. Len(ab) <= Len(c) /\ \A i \in 1..Len(ab) : c[i] = ab[i]
  BY DEF Beginning
<1> HIDE DEF ab
<1>4. \A i \in 1..Len(a) : i \in 1..Len(ab)
  BY <1>1, <1>2
<1>5. \A i \in 1..Len(b) : Len(a) + i \in 1..Len(ab)
  BY <1>1, <1>2
<1>6. Len(a) <= Len(c) /\ Len(a) + Len(b) <= Len(c)
  BY <1>1, <1>2, <1>3
<1>7. \A i \in 1..Len(a) : c[i] = a[i]
  BY <1>1, <1>3, <1>4
<1>8. \A i \in 1..Len(b) : c[Len(a) + i] = b[i]
  BY <1>1, <1>3, <1>5
<1> QED
  BY <1>6, <1>7, <1>8 DEF Beginning

\* The decoder takes from the literals what the matches left of the data, and
\* its matches copy the rest.
LEMMA ParseIsExecuted ==
    ASSUME NEW history \in Seq(Byte), NEW data \in Seq(Byte), NEW parse \in Seq(Triples),
           IsParse(history, data, parse)
    PROVE  /\ LiteralsOf(data, parse) \in Seq(Byte)
           /\ Executed(history, LiteralsOf(data, parse), parse) = history \o data
<1> DEFINE l == Len(parse)
           end == Ends(parse)
           h == Len(history)
           d == Len(data)
           all == history \o data
           literals == LiteralsOf(data, parse)
           tail == SubSeq(data, end[l] + 1, d)
           ll(k) == parse[k].ll
           Piece(k) == SubSeq(data, end[k - 1] + 1, end[k - 1] + ll(k))
<1>1. end[l] <= d
  BY Zenon DEF IsParse
<1>2. PICK lits \in [0..l -> Seq(Byte)] :
         /\ lits[0] = <<>>
         /\ \A k \in 1..l : lits[k] = lits[k - 1] \o Piece(k)
         /\ literals = lits[l] \o tail
  BY <1>1, LiteralsCollected, Zenon
<1>3. /\ l \in Nat /\ h \in Nat /\ d \in Nat /\ l \in 0..l /\ 0 \in 0..l
      /\ \A k \in 1..l : k \in 0..l /\ k - 1 \in 0..l /\ k # 0 /\ parse[k] \in Triples
      /\ \A k \in 0..l : lits[k] \in Seq(Byte)
  OBVIOUS
<1>4. /\ end[0] = 0
      /\ \A k \in 0..l : end[k] \in Nat /\ end[k] <= end[l]
      /\ \A k \in 1..l : end[k] = end[k - 1] + ll(k) + parse[k].len
  BY EndsAddUp, EndsInside
<1>5. \A k \in 1..l : ll(k) \in Nat /\ parse[k].len \in Nat
  <2> HIDE DEF l
  <2> QED
    BY <1>3 DEF Triples
<1>6. all \in Seq(Byte) /\ Len(all) = h + d
      /\ \A i \in 1..d : all[h + i] = data[i]
  BY Joined
<1> HIDE DEF end, h, all, ll
<1>7. ASSUME NEW k \in 1..l
      PROVE  /\ end[k - 1] \in Nat /\ ll(k) \in Nat /\ end[k - 1] + ll(k) <= d
             /\ Piece(k) \in Seq(Byte) /\ Len(Piece(k)) = ll(k)
             /\ \A i \in 1..ll(k) : Piece(k)[i] = data[end[k - 1] + i]
  <2> DEFINE a == end[k - 1]
             b == ll(k)
             c == parse[k].len
             e == end[k]
             z == end[l]
  <2>1. a \in Nat /\ e \in Nat /\ z \in Nat /\ e <= z /\ e = a + b + c
    BY <1>3, <1>4, Zenon
  <2>2. b \in Nat /\ c \in Nat
    BY <1>5
  <2>3. z <= d
    BY <1>1
  <2> HIDE DEF a, b, c, e, z, d
  <2>4. a + b <= d /\ d \in Nat
    BY <1>3, <2>1, <2>2, <2>3
  <2>5. /\ SubSeq(data, a + 1, a + b) \in Seq(Byte) /\ Len(SubSeq(data, a + 1, a + b)) = b
        /\ \A i \in 1..b : SubSeq(data, a + 1, a + b)[i] = data[a + i]
    <3>1. a + 1 \in 1..(a + b + 1) /\ a + b \in 0..Len(data)
      BY <2>1, <2>2, <2>4 DEF d
    <3>2. /\ SubSeq(data, a + 1, a + b) \in Seq(Byte)
          /\ Len(SubSeq(data, a + 1, a + b)) = (a + b) - (a + 1) + 1
          /\ \A i \in 1..((a + b) - (a + 1) + 1) :
                SubSeq(data, a + 1, a + b)[i] = data[(a + 1) + i - 1]
      BY <3>1, Part
    <3>3. (a + b) - (a + 1) + 1 = b /\ \A i \in 1..b : (a + 1) + i - 1 = a + i
      BY <2>1, <2>2
    <3> QED
      BY <3>2, <3>3
  <2> QED
    BY <2>1, <2>2, <2>4, <2>5 DEF a, b
<1>8. tail \in Seq(Byte) /\ Len(tail) = d - end[l]
      /\ \A i \in 1..(d - end[l]) : tail[i] = data[end[l] + i]
  <2> DEFINE z == end[l]
  <2>1. z \in Nat /\ z <= d
    BY <1>1, <1>3, <1>4
  <2> HIDE DEF z
  <2>2. z + 1 \in 1..(d + 1) /\ d \in 0..Len(data)
    BY <1>3, <2>1
  <2>3. /\ SubSeq(data, z + 1, d) \in Seq(Byte) /\ Len(SubSeq(data, z + 1, d)) = d - (z + 1) + 1
        /\ \A i \in 1..(d - (z + 1) + 1) : SubSeq(data, z + 1, d)[i] = data[(z + 1) + i - 1]
    <3> HIDE DEF d
    <3> QED
      BY <2>2, Part
  <2>4. d - (z + 1) + 1 = d - z /\ \A i \in 1..(d - z) : (z + 1) + i - 1 = z + i
    BY <1>3, <2>1
  <2>5. /\ SubSeq(data, z + 1, d) \in Seq(Byte) /\ Len(SubSeq(data, z + 1, d)) = d - z
        /\ \A i \in 1..(d - z) : SubSeq(data, z + 1, d)[i] = data[z + i]
    <3> HIDE DEF d
    <3> QED
      BY <2>3, <2>4
  <2> QED
    BY <2>5 DEF z
<1> HIDE DEF Piece, tail, literals, d
<1>9. literals \in Seq(Byte)
  BY <1>2, <1>3, <1>8
<1>10. \A k \in 0..l : Beginning(lits[k], literals)
  <2> DEFINE S == {n \in Nat : n <= l => Beginning(lits[l - n], literals)}
  <2>1. 0 \in S
    <3>1. l - 0 = l /\ lits[l] \in Seq(Byte)
      BY <1>3
    <3>2. Beginning(lits[l], literals)
      BY <1>2, <1>8, <3>1, Joined DEF Beginning
    <3> QED
      BY <3>1, <3>2
  <2>2. ASSUME NEW n \in S PROVE n + 1 \in S
    <3> SUFFICES ASSUME n + 1 <= l PROVE Beginning(lits[l - (n + 1)], literals)
      OBVIOUS
    <3>1. n \in Nat /\ n <= l /\ l - n \in 1..l /\ l - (n + 1) = (l - n) - 1
      BY <1>3
    <3> DEFINE k == l - n
    <3>2. k \in 1..l /\ l - (n + 1) = k - 1 /\ Beginning(lits[k], literals)
      BY <3>1
    <3> HIDE DEF k
    <3>3. /\ lits[k - 1] \in Seq(Byte) /\ Piece(k) \in Seq(Byte)
          /\ lits[k] = lits[k - 1] \o Piece(k)
      BY <1>2, <1>3, <1>7, <3>2
    <3>4. Beginning(lits[k - 1], literals)
      <4>1. Beginning(lits[k - 1] \o Piece(k), literals)
        BY <3>2, <3>3, Zenon
      <4> QED
        BY <1>9, <3>3, <4>1, BeginningOfJoined
    <3> QED
      BY <3>2, <3>4
  <2>3. \A n \in Nat : n \in S
    <3> HIDE DEF S
    <3>1. S \in SUBSET Nat
      BY Zenon DEF S
    <3> QED
      BY <2>1, <2>2, <3>1, InductionOnSets, Zenon
  <2> SUFFICES ASSUME NEW k \in 0..l PROVE Beginning(lits[k], literals)
    OBVIOUS
  <2>4. l - k \in Nat /\ l - k <= l /\ l - (l - k) = k
    BY <1>3
  <2> QED
    BY <2>3, <2>4
<1> DEFINE used(k) == Len(lits[k])
<1>11. ASSUME NEW k \in 1..l
       PROVE  /\ used(k - 1) \in Nat /\ used(k) = used(k - 1) + ll(k)
              /\ SubSeq(literals, used(k - 1) + 1, used(k - 1) + ll(k)) = Piece(k)
  <2> DEFINE a == lits[k - 1]
             p == Piece(k)
             n == ll(k)
             u == Len(a)
  <2>1. a \in Seq(Byte) /\ p \in Seq(Byte) /\ Len(p) = n /\ lits[k] = a \o p /\ n \in Nat
    BY <1>2, <1>3, <1>7
  <2>2. Beginning(a \o p, literals)
    BY <1>3, <1>10, <2>1
  <2> HIDE DEF a, p, n
  <2>3. u + n <= Len(literals) /\ \A i \in 1..n : literals[u + i] = p[i]
    <3>1. /\ Beginning(a, literals)
          /\ Len(a) + Len(p) <= Len(literals)
          /\ \A i \in 1..Len(p) : literals[Len(a) + i] = p[i]
      BY <1>9, <2>1, <2>2, BeginningOfJoined, Zenon
    <3> QED
      BY <2>1, <3>1, Zenon
  <2>4. u \in Nat /\ Len(a \o p) = u + n /\ Len(literals) \in Nat
    <3>1. Len(a \o p) = Len(a) + Len(p)
      BY <2>1, Joined
    <3> QED
      BY <1>9, <2>1, <3>1
  <2> HIDE DEF u
  <2>5. SubSeq(literals, u + 1, u + n) = p
    <3> DEFINE s == SubSeq(literals, u + 1, u + n)
    <3>1. u + 1 \in 1..(u + n + 1) /\ u + n \in 0..Len(literals)
      BY <2>1, <2>3, <2>4
    <3>2. /\ s \in Seq(Byte) /\ Len(s) = (u + n) - (u + 1) + 1
          /\ \A i \in 1..((u + n) - (u + 1) + 1) : s[i] = literals[(u + 1) + i - 1]
      BY <1>9, <3>1, Part
    <3>3. (u + n) - (u + 1) + 1 = n /\ \A i \in 1..n : (u + 1) + i - 1 = u + i
      BY <2>1, <2>4
    <3> HIDE DEF s
    <3>4. Len(s) = n /\ \A i \in 1..n : s[i] = literals[(u + 1) + i - 1]
      BY <3>2, <3>3, Zenon
    <3>5. ASSUME NEW i \in 1..n PROVE s[i] = p[i]
      <4>1. s[i] = literals[u + i]
        BY <3>3, <3>4, Zenon
      <4> QED
        BY <2>3, <4>1, Zenon
    <3>6. Len(s) = Len(p) /\ \A i \in 1..Len(s) : s[i] = p[i]
      BY <2>1, <3>4, <3>5, Zenon
    <3> QED
      BY <2>1, <3>2, <3>6, SameElements, Zenon DEF s
  <2> QED
    BY <2>1, <2>4, <2>5 DEF a, p, n, u
<1> DEFINE done(k) == [out |-> SubSeq(all, 1, h + end[k]), used |-> used(k)]
           After(before, k) ==
               LET m == parse[k]
               IN  [out  |-> WithMatch(before.out \o SubSeq(literals, before.used + 1,
                                                            before.used + m.ll), m),
                    used |-> before.used + m.ll]
           Solves(f) == f = [k \in 0..l |-> IF k = 0 THEN [out |-> history, used |-> 0]
                                            ELSE After(f[k - 1], k)]
           run == CHOOSE f : Solves(f)
<1>12. done(0) = [out |-> history, used |-> 0]
  <2>1. h + end[0] = h /\ used(0) = 0
    BY <1>2, <1>3, <1>4
  <2>2. SubSeq(all, 1, h) = history
    BY DEF all, h
  <2> QED
    BY <2>1, <2>2
<1>13. ASSUME NEW k \in 1..l PROVE After(done(k - 1), k) = done(k)
  <2> DEFINE m == parse[k]
             a == end[k - 1]
             p == h + a + ll(k)
  <2>1. m \in Triples /\ m.ll = ll(k) /\ m.len \in Nat
    BY <1>3, <1>5 DEF ll
  <2>2. /\ a \in Nat /\ ll(k) \in Nat /\ a + ll(k) <= d
        /\ Piece(k) \in Seq(Byte) /\ Len(Piece(k)) = ll(k)
        /\ \A i \in 1..ll(k) : Piece(k)[i] = data[a + i]
    BY <1>7
  <2>3. end[k] = a + ll(k) + m.len /\ end[k] <= d
    <3>1. end[k] = a + ll(k) + m.len
      BY <1>4
    <3>2. end[k] \in Nat /\ end[l] \in Nat /\ end[k] <= end[l]
      BY <1>3, <1>4
    <3> QED
      BY <1>1, <1>3, <3>1, <3>2
  <2>4. IsMatch(history, data, p, m)
    BY Zenon DEF IsParse, h, end, ll
  <2> HIDE DEF m, a
  <2>5. /\ p \in Nat /\ p + m.len <= Len(all) /\ h + a \in Nat /\ p <= Len(all)
        /\ h + a <= p /\ p = h + (a + ll(k)) /\ p - (h + a) = ll(k)
    <3> DEFINE n == ll(k)
               len == m.len
    <3>1. a \in Nat /\ n \in Nat /\ len \in Nat /\ a + n + len <= d
      BY <2>1, <2>2, <2>3
    <3>2. h \in Nat /\ d \in Nat /\ Len(all) = h + d
      BY <1>3, <1>6
    <3> HIDE DEF n, len
    <3>3. /\ h + a + n \in Nat /\ h + a + n + len <= Len(all) /\ h + a \in Nat
          /\ h + a + n <= Len(all) /\ h + a <= h + a + n /\ h + a + n = h + (a + n)
          /\ (h + a + n) - (h + a) = n
      BY <3>1, <3>2
    <3> QED
      BY <3>3, Zenon DEF n, len
  <2>6. m.offset <= p /\ \A i \in 1..m.len : all[p + i] = all[p + i - m.offset]
    <3>1. m.offset <= Smaller(WindowSize, p)
      BY <2>4, Zenon DEF IsMatch
    <3>2. \A i \in 1..m.len : all[p + i] = all[p + i - m.offset]
      BY <2>4, Zenon DEF IsMatch, all
    <3>3. m.offset \in Nat /\ WindowSize \in Nat
      BY <2>1, NumbersAssumption DEF Triples
    <3> HIDE DEF p
    <3> QED
      BY <2>5, <3>1, <3>2, <3>3 DEF Smaller
  <2>7. SubSeq(all, 1, h + a) \o Piece(k) = SubSeq(all, 1, p)
    <3> DEFINE s == SubSeq(all, h + a + 1, p)
    <3>1. h + a + 1 \in 1..(p + 1) /\ p \in 0..Len(all)
      <4> HIDE DEF p
      <4> QED
        BY <1>3, <1>6, <2>2, <2>5
    <3>2. /\ s \in Seq(Byte) /\ Len(s) = p - (h + a + 1) + 1
          /\ \A i \in 1..(p - (h + a + 1) + 1) : s[i] = all[(h + a + 1) + i - 1]
      <4> HIDE DEF p
      <4> QED
        BY <1>6, <3>1, Part, SMTT(30)
    <3>3. p - (h + a + 1) + 1 = ll(k) /\ \A i \in 1..ll(k) : (h + a + 1) + i - 1 = h + (a + i)
      BY <1>3, <2>2
    <3>4. \A i \in 1..ll(k) : a + i \in 1..d
      BY <1>3, <2>2
    <3>5. Len(s) = Len(Piece(k)) /\ \A i \in 1..Len(s) : s[i] = Piece(k)[i]
      <4> HIDE DEF s, p
      <4> DEFINE n == ll(k)
                 b == Piece(k)
      <4>1. Len(s) = n /\ \A i \in 1..n : s[i] = all[h + (a + i)]
        BY <3>2, <3>3
      <4>2. \A i \in 1..n : all[h + (a + i)] = data[a + i]
        BY <1>6, <3>4
      <4>3. Len(b) = n /\ \A i \in 1..n : b[i] = data[a + i]
        BY <2>2
      <4> HIDE DEF n, b
      <4>4. Len(s) = Len(b) /\ \A i \in 1..Len(s) : s[i] = b[i]
        BY <4>1, <4>2, <4>3
      <4> QED
        BY <4>4 DEF b
    <3>6. s = Piece(k)
      <4> HIDE DEF s
      <4> QED
        BY <2>2, <3>2, <3>5, SameElements
    <3>7. SubSeq(all, 1, h + a) \o s = SubSeq(all, 1, p)
      <4>1. h + a <= p
        BY <2>2, <1>3
      <4> HIDE DEF p
      <4> QED
        BY <1>6, <2>5, <4>1, NextPart
    <3> QED
      BY <3>6, <3>7
  <2>8. WithMatch(SubSeq(all, 1, p), m) = SubSeq(all, 1, p + m.len)
    <3> HIDE DEF p
    <3> QED
      BY <1>6, <2>1, <2>5, <2>6, MatchCopied
  <2>9. p + m.len = h + end[k]
    BY <1>3, <2>1, <2>2, <2>3, SMTT(30)
  <2>10. SubSeq(literals, used(k - 1) + 1, used(k - 1) + m.ll) = Piece(k)
         /\ used(k - 1) + m.ll = used(k)
    BY <1>11, <2>1
  <2>11. done(k - 1).out = SubSeq(all, 1, h + a) /\ done(k - 1).used = used(k - 1)
    BY DEF a
  <2> HIDE DEF p, used
  <2>12. After(done(k - 1), k)
          = [out  |-> WithMatch(done(k - 1).out \o SubSeq(literals, done(k - 1).used + 1,
                                                          done(k - 1).used + m.ll), m),
             used |-> done(k - 1).used + m.ll]
    BY Zenon DEF m
  <2> HIDE DEF After
  <2> QED
    BY <2>7, <2>8, <2>9, <2>10, <2>11, <2>12
<1> HIDE DEF After, done
<1>14. Solves([k \in 0..l |-> done(k)])
  <2> DEFINE f == [k \in 0..l |-> done(k)]
  <2>1. ASSUME NEW k \in 0..l
        PROVE  f[k] = IF k = 0 THEN [out |-> history, used |-> 0] ELSE After(f[k - 1], k)
    <3>1. CASE k = 0
      BY <1>12, <3>1
    <3>2. CASE k # 0
      <4>1. k \in 1..l /\ k - 1 \in 0..l
        BY <1>3, <3>2
      <4>2. f[k] = done(k) /\ f[k - 1] = done(k - 1)
        BY <4>1
      <4> QED
        BY <1>13, <3>2, <4>1, <4>2
    <3> QED
      BY <3>1, <3>2
  <2>2. f = [k \in 0..l |-> f[k]]
    OBVIOUS
  <2> HIDE DEF f
  <2>3. Solves(f)
    BY <2>1, <2>2
  <2> QED
    BY <2>3 DEF f
<1>15. Solves(run)
  BY <1>14, Zenon
<1>16. Executed(history, literals, parse)
         = run[l].out \o SubSeq(literals, run[l].used + 1, Len(literals))
  BY Zenon DEF Executed, After
<1> HIDE DEF run
<1>17. \A k \in 0..l : run[k] = IF k = 0 THEN [out |-> history, used |-> 0]
                                ELSE After(run[k - 1], k)
  BY <1>15, Zenon
<1> HIDE DEF Solves
<1>18. run[l] = done(l)
  <2> DEFINE S == {n \in Nat : n <= l => run[n] = done(n)}
  <2>1. 0 \in S
    <3>1. run[0] = done(0)
      BY <1>3, <1>12, <1>17
    <3> QED
      BY <3>1
  <2>2. ASSUME NEW n \in S PROVE n + 1 \in S
    <3> SUFFICES ASSUME n + 1 <= l PROVE run[n + 1] = done(n + 1)
      OBVIOUS
    <3>1. /\ n \in Nat /\ n <= l /\ n + 1 \in 1..l /\ n + 1 \in 0..l /\ n + 1 # 0
          /\ (n + 1) - 1 = n
      BY <1>3
    <3>2. run[n + 1] = After(run[n], n + 1)
      BY <1>17, <3>1
    <3>3. After(done(n), n + 1) = done(n + 1)
      BY <1>13, <3>1
    <3>4. run[n] = done(n)
      BY <3>1
    <3> QED
      BY <3>2, <3>3, <3>4
  <2>3. \A n \in Nat : n \in S
    <3> HIDE DEF S
    <3>1. S \in SUBSET Nat
      BY Zenon DEF S
    <3> QED
      BY <2>1, <2>2, <3>1, InductionOnSets, Zenon
  <2> QED
    BY <1>3, <2>3
<1>19. SubSeq(literals, used(l) + 1, Len(literals)) = tail
  <2> DEFINE a == lits[l]
  <2>1. a \in Seq(Byte) /\ tail \in Seq(Byte) /\ literals = a \o tail
    BY <1>2, <1>3, <1>8
  <2> HIDE DEF a
  <2>2. SubSeq(a \o tail, Len(a) + 1, Len(a \o tail)) = tail
    <3> DEFINE c == a \o tail
               s == SubSeq(c, Len(a) + 1, Len(c))
    <3>1. /\ c \in Seq(Byte) /\ Len(c) = Len(a) + Len(tail)
          /\ \A i \in 1..Len(tail) : c[Len(a) + i] = tail[i]
      BY <2>1, Joined
    <3>2. Len(a) \in Nat /\ Len(tail) \in Nat
      BY <2>1
    <3> HIDE DEF c
    <3>3. Len(a) + 1 \in 1..(Len(c) + 1) /\ Len(c) \in 0..Len(c)
      BY <3>1, <3>2
    <3>4. /\ s \in Seq(Byte) /\ Len(s) = Len(c) - (Len(a) + 1) + 1
          /\ \A i \in 1..(Len(c) - (Len(a) + 1) + 1) : s[i] = c[(Len(a) + 1) + i - 1]
      BY <3>1, <3>3, Part
    <3>5. Len(c) - (Len(a) + 1) + 1 = Len(tail)
          /\ \A i \in 1..Len(tail) : (Len(a) + 1) + i - 1 = Len(a) + i
      BY <3>1, <3>2
    <3> HIDE DEF s
    <3>6. Len(s) = Len(tail) /\ \A i \in 1..Len(s) : s[i] = tail[i]
      BY <3>1, <3>4, <3>5
    <3> QED
      BY <2>1, <3>4, <3>6, SameElements DEF s, c
  <2> QED
    BY <2>1, <2>2 DEF a
<1>20. SubSeq(all, 1, h + end[l]) \o tail = all
  <2> DEFINE z == end[l]
             s == SubSeq(all, h + z + 1, h + d)
  <2>1. z \in Nat /\ z <= d /\ h + z \in Nat /\ h + d \in Nat /\ h + z <= h + d
    BY <1>1, <1>3, <1>4 DEF d
  <2>2. Len(tail) = d - z /\ tail \in Seq(Byte) /\ \A i \in 1..(d - z) : tail[i] = data[z + i]
    BY <1>8
  <2> HIDE DEF z
  <2>3. h + z + 1 \in 1..(h + d + 1) /\ h + d \in 0..Len(all)
    BY <1>3, <1>6, <2>1
  <2>4. /\ s \in Seq(Byte) /\ Len(s) = (h + d) - (h + z + 1) + 1
        /\ \A i \in 1..((h + d) - (h + z + 1) + 1) : s[i] = all[(h + z + 1) + i - 1]
    BY <1>6, <2>3, Part, SMTT(30)
  <2>5. /\ (h + d) - (h + z + 1) + 1 = d - z
        /\ \A i \in 1..(d - z) : (h + z + 1) + i - 1 = h + (z + i) /\ z + i \in 1..d
    BY <1>3, <2>1
  <2> HIDE DEF s
  <2>6. Len(s) = Len(tail) /\ \A i \in 1..Len(s) : s[i] = tail[i]
    BY <1>6, <2>2, <2>4, <2>5, SMTT(30)
  <2>7. s = tail
    BY <2>2, <2>4, <2>6, SameElements
  <2>8. SubSeq(all, 1, h + z) \o s = SubSeq(all, 1, h + d)
    <3>1. h + d <= Len(all)
      BY <1>6, <2>1
    <3> QED
      BY <1>6, <2>1, <3>1, NextPart DEF s
  <2>9. SubSeq(all, 1, Len(all)) = all
    BY <1>6
  <2> QED
    BY <1>6, <2>7, <2>8, <2>9 DEF z
<1>21. run[l].out = SubSeq(all, 1, h + end[l]) /\ run[l].used = used(l)
  <2> HIDE DEF used
  <2>1. done(l).out = SubSeq(all, 1, h + end[l]) /\ done(l).used = used(l)
    BY DEF done
  <2> QED
    BY <1>18, <2>1, Zenon
<1> HIDE DEF used
<1>22. Executed(history, literals, parse) = all
  BY <1>16, <1>19, <1>20, <1>21
<1> QED
  BY <1>9, <1>22 DEF literals, all

-----------------------------------------------------------------------------
(* Block after block.                                                      *)

Start == [out |-> <<>>, tree |-> None, good |-> TRUE]

\* What the decoder has after each block.
Chain(after, blocks) ==
    after = [k \in 0..Len(blocks) |-> IF k = 0 THEN Start ELSE Decoded(after[k - 1], blocks[k])]

LEMMA ChainExists ==
    ASSUME NEW blocks, Len(blocks) \in Nat
    PROVE  \E after : Chain(after, blocks)
<1> DEFINE Then(x, k) == Decoded(x, blocks[k])
           Solves(f, n) == f = [k \in 0..n |-> IF k = 0 THEN Start ELSE Then(f[k - 1], k)]
           S == {n \in Nat : \E f : Solves(f, n)}
<1> HIDE DEF Then
<1>1. 0 \in S
  <2> DEFINE f == [k \in 0..0 |-> Start]
  <2>1. Solves(f, 0)
    OBVIOUS
  <2> QED
    BY <2>1, Zenon
<1>2. ASSUME NEW n \in S PROVE n + 1 \in S
  <2>1. n \in Nat /\ n + 1 \in Nat
    OBVIOUS
  <2>2. PICK f : Solves(f, n)
    BY Zenon
  <2> DEFINE g == [k \in 0..(n + 1) |-> IF k <= n THEN f[k] ELSE Then(f[n], k)]
  <2>3. \A k \in 0..n : f[k] = IF k = 0 THEN Start ELSE Then(f[k - 1], k)
    BY <2>2, Zenon
  <2>4. \A k \in 0..(n + 1) : g[k] = IF k = 0 THEN Start ELSE Then(g[k - 1], k)
    BY <2>1, <2>3
  <2>5. g = [k \in 0..(n + 1) |-> g[k]]
    OBVIOUS
  <2> HIDE DEF g
  <2>6. Solves(g, n + 1)
    BY <2>4, <2>5
  <2> QED
    BY <2>1, <2>6, Zenon
<1>3. \A n \in Nat : n \in S
  <2> HIDE DEF S
  <2>1. S \in SUBSET Nat
    BY Zenon DEF S
  <2> QED
    BY <1>1, <1>2, <2>1, InductionOnSets, Zenon
<1>4. PICK f : Solves(f, Len(blocks))
  BY <1>3, Zenon
<1> QED
  BY <1>4, Zenon DEF Chain, Then

\* The chain AfterBlocks takes.
LEMMA ChainTaken ==
    ASSUME NEW blocks, Len(blocks) \in Nat
    PROVE  \E after :
              /\ AfterBlocks(blocks) = after[Len(blocks)]
              /\ after[0] = Start
              /\ \A k \in 1..Len(blocks) : after[k] = Decoded(after[k - 1], blocks[k])
<1> DEFINE n == Len(blocks)
           after == CHOOSE f : Chain(f, blocks)
<1>1. Chain(after, blocks)
  BY ChainExists, Zenon
<1>2. AfterBlocks(blocks) = after[n]
  BY Zenon DEF AfterBlocks, Chain, Start
<1> HIDE DEF after
<1>3. \A k \in 0..n : after[k] = IF k = 0 THEN Start ELSE Decoded(after[k - 1], blocks[k])
  BY <1>1, Zenon DEF Chain
<1>4. 0 \in 0..n /\ \A k \in 1..n : k \in 0..n /\ k # 0
  OBVIOUS
<1> QED
  BY <1>2, <1>3, <1>4, Zenon

LEMMA AfterNone == AfterBlocks(<<>>) = Start
<1>1. Len(<<>>) = 0
  OBVIOUS
<1>2. PICK after : AfterBlocks(<<>>) = after[Len(<<>>)] /\ after[0] = Start
  BY <1>1, ChainTaken
<1> QED
  BY <1>1, <1>2

\* One more block is decoded with what the blocks before it left.
LEMMA AfterOneMore ==
    ASSUME NEW S, NEW blocks \in Seq(S), NEW block \in S
    PROVE  AfterBlocks(Append(blocks, block)) = Decoded(AfterBlocks(blocks), block)
<1> DEFINE n == Len(blocks)
           more == Append(blocks, block)
<1>1. /\ n \in Nat /\ Len(more) = n + 1 /\ more[n + 1] = block
      /\ \A k \in 1..n : more[k] = blocks[k]
  OBVIOUS
<1>2. PICK f : /\ AfterBlocks(blocks) = f[n] /\ f[0] = Start
               /\ \A k \in 1..n : f[k] = Decoded(f[k - 1], blocks[k])
  BY <1>1, ChainTaken, Zenon
<1> HIDE DEF more
<1>3. PICK g : /\ AfterBlocks(more) = g[n + 1] /\ g[0] = Start
               /\ \A k \in 1..(n + 1) : g[k] = Decoded(g[k - 1], more[k])
  <2>1. Len(more) \in Nat
    BY <1>1
  <2> QED
    BY <1>1, <2>1, ChainTaken
<1> DEFINE R == {k \in Nat : k <= n => g[k] = f[k]}
<1>4. 0 \in R
  BY <1>2, <1>3
<1>5. ASSUME NEW k \in R PROVE k + 1 \in R
  <2> SUFFICES ASSUME k + 1 <= n PROVE g[k + 1] = f[k + 1]
    OBVIOUS
  <2>1. k \in Nat /\ k <= n /\ k + 1 \in 1..n /\ k + 1 \in 1..(n + 1) /\ (k + 1) - 1 = k
    BY <1>1
  <2>2. f[k + 1] = Decoded(f[k], blocks[k + 1])
    BY <1>2, <2>1
  <2>3. g[k + 1] = Decoded(g[k], more[k + 1])
    BY <1>3, <2>1
  <2>4. more[k + 1] = blocks[k + 1] /\ g[k] = f[k]
    BY <1>1, <2>1
  <2> QED
    BY <2>2, <2>3, <2>4
<1>6. \A k \in Nat : k \in R
  <2> HIDE DEF R
  <2>1. R \in SUBSET Nat
    BY Zenon DEF R
  <2> QED
    BY <1>4, <1>5, <2>1, InductionOnSets, Zenon
<1>7. g[n] = f[n]
  BY <1>1, <1>6
<1>8. n + 1 \in 1..(n + 1) /\ (n + 1) - 1 = n
  BY <1>1
<1>9. g[n + 1] = Decoded(g[n], more[n + 1])
  BY <1>3, <1>8
<1> QED
  BY <1>1, <1>2, <1>3, <1>7, <1>9 DEF more

\* What a matcher may hand out are parses of triples.
LEMMA ParsesAreParses ==
    ASSUME NEW history, NEW data \in Seq(Byte), NEW parse \in Parses(history, data)
    PROVE  parse \in Seq(Triples) /\ IsParse(history, data, parse)
<1> DEFINE Solves(f, n) == f = [k \in 0..n |-> IF k = 0 THEN {<<>>}
                                  ELSE f[k - 1] \cup Longer(history, data, f[k - 1])]
           S == {n \in Nat : \E f : Solves(f, n)}
           l == MaxMatches
           parses == CHOOSE f : Solves(f, l)
<1>1. 0 \in S
  <2> DEFINE f == [k \in 0..0 |-> {<<>>}]
  <2>1. Solves(f, 0)
    OBVIOUS
  <2> QED
    BY <2>1, Zenon
<1>2. ASSUME NEW n \in S PROVE n + 1 \in S
  <2>1. n \in Nat /\ n + 1 \in Nat
    OBVIOUS
  <2>2. PICK f : Solves(f, n)
    BY Zenon
  <2> DEFINE Then(x) == x \cup Longer(history, data, x)
             g == [k \in 0..(n + 1) |-> IF k <= n THEN f[k] ELSE Then(f[n])]
  <2>3. \A k \in 0..n : f[k] = IF k = 0 THEN {<<>>} ELSE Then(f[k - 1])
    BY <2>2, Zenon
  <2> HIDE DEF Then
  <2>4. \A k \in 0..(n + 1) : g[k] = IF k = 0 THEN {<<>>} ELSE Then(g[k - 1])
    BY <2>1, <2>3
  <2>5. g = [k \in 0..(n + 1) |-> g[k]]
    OBVIOUS
  <2> HIDE DEF g
  <2>6. Solves(g, n + 1)
    BY <2>4, <2>5 DEF Then
  <2> QED
    BY <2>1, <2>6, Zenon
<1>3. \A n \in Nat : n \in S
  <2> HIDE DEF S
  <2>1. S \in SUBSET Nat
    BY Zenon DEF S
  <2> QED
    BY <1>1, <1>2, <2>1, InductionOnSets, Zenon
<1>4. l \in Nat
  BY NumbersAssumption
<1>5. Solves(parses, l)
  <2>1. \E f : Solves(f, l)
    BY <1>3, <1>4, Zenon
  <2> QED
    BY <2>1, Zenon
<1>6. Parses(history, data) = parses[l]
  BY Zenon DEF Parses
<1> HIDE DEF parses, S
<1>7. \A k \in 0..l : parses[k] = IF k = 0 THEN {<<>>}
                                  ELSE parses[k - 1] \cup Longer(history, data, parses[k - 1])
  BY <1>5, Zenon
<1> HIDE DEF Solves
<1> DEFINE Good(p) == p \in Seq(Triples) /\ IsParse(history, data, p)
           R == {n \in Nat : n <= l => \A p \in parses[n] : Good(p)}
<1>8. 0 \in R
  <2>1. 0 \in 0..l /\ <<>> \in Seq(Triples)
    BY <1>4
  <2>2. parses[0] = {<<>>}
    BY <1>7, <2>1, Zenon
  <2>3. IsParse(history, data, <<>>)
    <3>1. Len(<<>>) = 0 /\ Len(data) \in Nat /\ ~(\E k : k \in 1..0)
      OBVIOUS
    <3>2. Ends(<<>>)[0] = 0
      BY <2>1, EndsAddUp
    <3> DEFINE e == Ends(<<>>)
    <3>3. e[Len(<<>>)] <= Len(data) /\ ~(\E k : k \in 1..Len(<<>>))
      <4> HIDE DEF e
      <4>1. e[0] <= Len(data)
        BY <3>1, <3>2 DEF e
      <4> QED
        BY <3>1, <4>1
    <3> QED
      BY <3>3, Zenon DEF IsParse
  <2>4. \A p \in parses[0] : Good(p)
    BY <2>1, <2>2, <2>3, Zenon
  <2> QED
    BY <2>4
<1>9. ASSUME NEW n \in R PROVE n + 1 \in R
  <2> SUFFICES ASSUME n + 1 <= l, NEW p \in parses[n + 1] PROVE Good(p)
    OBVIOUS
  <2>1. n \in Nat /\ n <= l /\ n + 1 \in 0..l /\ n + 1 # 0 /\ (n + 1) - 1 = n
    BY <1>4
  <2>2. \A q \in parses[n] : Good(q)
    BY <2>1
  <2>3. parses[n + 1] = parses[n] \cup Longer(history, data, parses[n])
    BY <1>7, <2>1
  <2>4. CASE p \in parses[n]
    BY <2>2, <2>4
  <2>5. CASE p \in Longer(history, data, parses[n])
    <3> DEFINE some == parses[n]
               every == Matches(Len(data))
    <3>0. p \in {Append(q, m) : q \in some, m \in every} /\ IsParse(history, data, p)
      <4> HIDE DEF Matches
      <4> QED
        BY <2>5 DEF Longer
    <3> HIDE DEF some, every
    <3>1. PICK q \in some, m \in every : p = Append(q, m) /\ IsParse(history, data, p)
      BY <3>0
    <3>2. q \in Seq(Triples)
      BY <2>2 DEF some
    <3>3. m \in Triples
      <4>1. Len(data) \in Nat /\ WindowSize \in Nat /\ MinMatch \in Nat \ {0}
        BY NumbersAssumption
      <4> QED
        BY <4>1 DEF Matches, Triples, every
    <3>4. p \in Seq(Triples)
      BY <3>1, <3>2, <3>3
    <3> QED
      BY <3>1, <3>4
  <2> HIDE DEF Good
  <2> QED
    BY <2>3, <2>4, <2>5
<1>10. \A n \in Nat : n \in R
  <2> HIDE DEF R
  <2>1. R \in SUBSET Nat
    BY Zenon DEF R
  <2> QED
    BY <1>8, <1>9, <2>1, InductionOnSets, Zenon
<1>11. parse \in parses[l] /\ l \in R
  BY <1>4, <1>6, <1>10
<1> HIDE DEF Good
<1>12. Good(parse)
  BY <1>4, <1>11
<1> QED
  BY <1>12 DEF Good

-----------------------------------------------------------------------------
(* The inductive invariant.                                                *)

Tables == UNION {[B -> Nat] : B \in SUBSET Byte}
Trees == Tables \cup {None}
Sections == [type : {"raw", "treeless", "compressed"}, table : Trees]

RawBlocks == [last : BOOLEAN, type : {"raw"}, data : Seq(Byte)]
RleBlocks == [last : BOOLEAN, type : {"rle"}, byte : Byte, n : Nat]
CompressedBlocks == [last : BOOLEAN, type : {"compressed"}, section : Sections,
                     literals : Seq(Byte), matches : Seq(Triples)]
Blocks == RawBlocks \cup RleBlocks \cup CompressedBlocks

DecoderStates == [out : Seq(Byte), tree : Trees, good : BOOLEAN]

TypeOK ==
    /\ source \in Seq(Byte) /\ level \in Levels /\ last_huff_table \in Trees
    /\ committed \in Seq(Byte) /\ hasher \in Seq(Byte) /\ content \in Seq(Byte)
    /\ space \in Seq(Byte) /\ space_len \in Nat /\ last_block \in BOOLEAN
    /\ drain \in [blocks : Seq(Blocks), checksum : Seq(Byte) \cup {None}]
    /\ pc \in {"idle", "space", "reading", "encode", "checksum", "panicked"}
    /\ unsent \in BOOLEAN
    /\ Decoder \in DecoderStates

\* What was read went into the blocks, but for the space at hand.
AllIsWritten ==
    /\ pc \in {"space", "reading", "checksum"} => Decoder.out = content
    /\ pc = "encode" => Decoder.out \o space = content
    /\ pc = "reading" => Len(space) < space_len

\* The end of the source is met while the last block is read, and no block
\* before it says that it is the last.
LastIsLast ==
    /\ \A k \in DOMAIN drain.blocks :
          drain.blocks[k].last => k = Len(drain.blocks) /\ pc \in {"checksum", "idle", "panicked"}
    /\ pc = "encode" => /\ last_block => source = <<>>
                        /\ space = <<>> => last_block
    /\ pc = "checksum" => /\ drain.blocks # <<>> /\ drain.blocks[Len(drain.blocks)].last
                          /\ source = <<>>

\* The matcher was given what the decoder has.
MatcherKnows ==
    level = "fastest" /\ pc \in {"space", "reading", "encode"} => committed = Decoder.out

\* A table that was not sent was made for a block that is stored raw.
TablesKept == OnlyUnsentTablesDisagree /\ (unsent => StoredRaw)

IInv == TypeOK /\ AllIsWritten /\ LastIsLast /\ MatcherKnows /\ TablesKept

-----------------------------------------------------------------------------
(* Blocks.                                                                 *)

\* A block from which a decoder gets data, and what it then has.
Gives(d, block, last, data, tree, good) ==
    /\ block \in Blocks /\ block.last = last
    /\ Decoded(d, block) \in DecoderStates
    /\ Decoded(d, block).out = d.out \o data
    /\ Decoded(d, block).tree = tree
    /\ Decoded(d, block).good <=> good

LEMMA RawDecoded ==
    ASSUME NEW d \in DecoderStates, NEW last \in BOOLEAN, NEW data \in Seq(Byte)
    PROVE  Gives(d, Raw(last, data), last, data, d.tree, d.good)
<1> DEFINE b == Raw(last, data)
<1>1. b \in RawBlocks /\ b.type = "raw" /\ b.data = data /\ b.last = last
  BY DEF Raw, RawBlocks
<1> HIDE DEF b
<1>2. Decoded(d, b) = [d EXCEPT !.out = d.out \o data]
  BY <1>1 DEF Decoded
<1>3. d.out \o data \in Seq(Byte) /\ d.tree \in Trees /\ d.good \in BOOLEAN
      /\ d = [out |-> d.out, tree |-> d.tree, good |-> d.good]
  BY DEF DecoderStates
<1> DEFINE o == d.out \o data
<1> HIDE DEF o
<1>4. [d EXCEPT !.out = o] = [out |-> o, tree |-> d.tree, good |-> d.good]
  BY <1>3
<1>5. Decoded(d, b) = [out |-> o, tree |-> d.tree, good |-> d.good]
  BY <1>2, <1>4 DEF o
<1>6. o \in Seq(Byte)
  BY <1>3 DEF o
<1>7. Decoded(d, b) \in DecoderStates
  BY <1>3, <1>5, <1>6 DEF DecoderStates
<1>8. Decoded(d, b).out = o /\ Decoded(d, b).tree = d.tree /\ Decoded(d, b).good = d.good
  BY <1>5
<1> QED
  BY <1>1, <1>7, <1>8 DEF Blocks, Gives, b, o

LEMMA RleDecoded ==
    ASSUME NEW d \in DecoderStates, NEW last \in BOOLEAN, NEW data \in Seq(Byte),
           data # <<>>, AllEqual(data)
    PROVE  Gives(d, Rle(last, data[1], Len(data)), last, data, d.tree, d.good)
<1> DEFINE b == Rle(last, data[1], Len(data))
           n == Len(data)
           all == [i \in 1..n |-> data[1]]
           o == d.out \o data
<1>1. n \in Nat /\ data[1] \in Byte
  OBVIOUS
<1>2. b \in RleBlocks /\ b.type = "rle" /\ b.byte = data[1] /\ b.n = n /\ b.last = last
  BY <1>1 DEF Rle, RleBlocks
<1>3. all = data
  <2>1. \A i \in 1..n : data[i] = data[1]
    BY DEF AllEqual
  <2>2. data = [i \in 1..n |-> data[i]]
    OBVIOUS
  <2> QED
    BY <2>1, <2>2
<1> HIDE DEF b
<1>4. Decoded(d, b) = [d EXCEPT !.out = d.out \o all]
  BY <1>2 DEF Decoded
<1>5. d.out \in Seq(Byte) /\ d.tree \in Trees /\ d.good \in BOOLEAN
      /\ d = [out |-> d.out, tree |-> d.tree, good |-> d.good]
  BY DEF DecoderStates
<1>6. o \in Seq(Byte)
  BY <1>5
<1> HIDE DEF all, o
<1>7. [d EXCEPT !.out = o] = [out |-> o, tree |-> d.tree, good |-> d.good]
  BY <1>5
<1>8. Decoded(d, b) = [out |-> o, tree |-> d.tree, good |-> d.good]
  BY <1>3, <1>4, <1>7 DEF o
<1>9. Decoded(d, b) \in DecoderStates
  BY <1>5, <1>6, <1>8 DEF DecoderStates
<1>10. Decoded(d, b).out = o /\ Decoded(d, b).tree = d.tree /\ Decoded(d, b).good = d.good
  BY <1>8
<1> QED
  BY <1>2, <1>9, <1>10 DEF Blocks, Gives, b, o

\* The block that CompressBlock writes when it fits.
Packed(last, section, literals, matches) ==
    [last |-> last, type |-> "compressed", section |-> section,
     literals |-> literals, matches |-> matches]

LEMMA CompressedDecoded ==
    ASSUME NEW d \in DecoderStates, NEW last \in BOOLEAN, NEW data \in Seq(Byte),
           NEW section \in Sections, NEW parse \in Parses(d.out, data)
    PROVE  Gives(d, Packed(last, section, LiteralsOf(data, parse), parse), last, data,
                 IF section.type = "compressed" THEN section.table ELSE d.tree,
                 d.good /\ (section.type = "treeless" => section.table = d.tree))
<1> DEFINE l == LiteralsOf(data, parse)
           b == Packed(last, section, l, parse)
           o == d.out \o data
           tree == IF section.type = "compressed" THEN section.table ELSE d.tree
           good == d.good /\ (section.type = "treeless" => section.table = d.tree)
<1>1. d.out \in Seq(Byte) /\ d.tree \in Trees /\ d.good \in BOOLEAN
  BY DEF DecoderStates
<1>2. parse \in Seq(Triples) /\ IsParse(d.out, data, parse)
  BY <1>1, ParsesAreParses
<1>3. l \in Seq(Byte) /\ Executed(d.out, l, parse) = o
  BY <1>1, <1>2, ParseIsExecuted
<1> HIDE DEF l
<1>4. /\ b \in CompressedBlocks /\ b.type = "compressed" /\ b.last = last
      /\ b.section = section /\ b.literals = l /\ b.matches = parse
  BY <1>2, <1>3 DEF Packed, CompressedBlocks
<1> HIDE DEF b
<1>5. Decoded(d, b) = [out  |-> Executed(d.out, b.literals, b.matches),
                       tree |-> IF b.section.type = "compressed" THEN b.section.table ELSE d.tree,
                       good |-> d.good /\ (b.section.type = "treeless" => b.section.table = d.tree)]
  BY <1>4 DEF Decoded
<1>6. Decoded(d, b) = [out |-> o, tree |-> tree, good |-> good]
  BY <1>3, <1>4, <1>5, Zenon
<1>7. o \in Seq(Byte) /\ tree \in Trees /\ good \in BOOLEAN
  BY <1>1 DEF Sections
<1> HIDE DEF o, tree, good
<1>8. Decoded(d, b) \in DecoderStates
  BY <1>6, <1>7 DEF DecoderStates
<1>9. Decoded(d, b).out = o /\ Decoded(d, b).tree = tree /\ (Decoded(d, b).good <=> good)
  BY <1>6, <1>7
<1> QED
  BY <1>4, <1>8, <1>9, Zenon DEF Blocks, Gives, b, l, o, tree, good

LEMMA TableIsTable ==
    ASSUME NEW literals \in Seq(Byte)
    PROVE  Table(literals) \in Tables
<1> DEFINE B == ToSet(literals)
           Count(b) == Cardinality({i \in 1..Len(literals) : literals[i] = b})
           t == [b \in B |-> Count(b)]
<1>1. B \in SUBSET Byte
  BY DEF ToSet
<1>2. ASSUME NEW b \in B PROVE Count(b) \in Nat
  <2>1. IsFiniteSet(1..Len(literals))
    BY FS_Interval
  <2>2. {i \in 1..Len(literals) : literals[i] = b} \subseteq 1..Len(literals)
    OBVIOUS
  <2>3. IsFiniteSet({i \in 1..Len(literals) : literals[i] = b})
    BY <2>1, <2>2, FS_Subset
  <2> QED
    BY <2>3, FS_CardinalityType
<1>3. t \in [B -> Nat]
  <2> HIDE DEF Count
  <2> QED
    BY <1>2
<1>4. Table(literals) = t
  BY DEF Table
<1> HIDE DEF t, B
<1> QED
  BY <1>1, <1>3, <1>4, Zenon DEF Tables

LEMMA SectionIsSection ==
    ASSUME IInv, NEW literals \in Seq(Byte), NEW near \in BOOLEAN, NEW smaller \in BOOLEAN
    PROVE  LET s == LiteralsSection(literals, near, smaller)
           IN  /\ s \in Sections
               /\ s.type = "treeless" => s.table = last_huff_table
<1>1. Table(literals) \in Trees /\ last_huff_table \in Trees /\ None \in Trees
  BY TableIsTable DEF IInv, TypeOK, Trees
<1> QED
  BY <1>1 DEF LiteralsSection, Sections

-----------------------------------------------------------------------------
(* The steps.                                                              *)

\* A block that stands for the space, whatever its type.
LEMMA WriteKeeps ==
    ASSUME IInv, pc = "encode", NEW block, Write(block),
           NEW last \in BOOLEAN, last <=> last_block \/ space = <<>>,
           NEW tree, NEW good, Gives(Decoder, block, last, space, tree, good),
           committed' \in Seq(Byte),
           level = "fastest" => committed' = committed \o space,
           last_huff_table' \in Trees,
           unsent' \in BOOLEAN, ~unsent' => tree = last_huff_table',
           ~good \/ unsent' => StoredRaw \/ block.type = "raw"
    PROVE  IInv'
<1> DEFINE d == Decoded(Decoder, block)
<1>0. /\ block \in Blocks /\ d \in DecoderStates /\ d.out = Decoder.out \o space
      /\ block.last <=> last_block \/ space = <<>>
      /\ ~unsent' => d.tree = last_huff_table'
      /\ ~d.good \/ unsent' => StoredRaw \/ block.type = "raw"
  BY Zenon DEF Gives
<1> HIDE DEF d
<1> DEFINE old == drain.blocks
           new == Append(old, block)
           n == Len(old)
<1>1. /\ old \in Seq(Blocks) /\ drain \in [blocks : Seq(Blocks), checksum : Seq(Byte) \cup {None}]
      /\ TypeOK /\ AllIsWritten /\ LastIsLast /\ MatcherKnows /\ TablesKept
  BY DEF IInv, TypeOK
<1>2. /\ new \in Seq(Blocks) /\ Len(new) = n + 1 /\ new[n + 1] = block /\ n \in Nat
      /\ \A k \in 1..n : new[k] = old[k]
  BY <1>0, <1>1
<1>3. drain' = [drain EXCEPT !.blocks = new]
  BY DEF Write
<1>4. drain'.blocks = new /\ drain' \in [blocks : Seq(Blocks), checksum : Seq(Byte) \cup {None}]
  <2> HIDE DEF new
  <2> QED
    BY <1>1, <1>2, <1>3
<1>5. Decoder' = d
  <2>1. AfterBlocks(new) = Decoded(AfterBlocks(old), block)
    BY <1>0, <1>1, AfterOneMore
  <2>2. Decoder' = AfterBlocks(drain'.blocks) /\ Decoder = AfterBlocks(old)
    BY DEF Decoder
  <2> HIDE DEF new, old
  <2> QED
    BY <1>4, <2>1, <2>2 DEF d
<1>6. /\ pc' = IF last_block \/ space = <<>> THEN "checksum" ELSE "space"
      /\ UNCHANGED <<source, level, hasher, space, space_len, last_block, content, frames>>
  BY DEF Write
<1>7. \A k \in 1..n : ~old[k].last
  BY <1>1 DEF LastIsLast
<1>8. TypeOK'
  BY <1>0, <1>1, <1>4, <1>5, <1>6 DEF TypeOK
<1>9. AllIsWritten'
  BY <1>0, <1>1, <1>5, <1>6 DEF AllIsWritten
<1> HIDE DEF old, new
<1>10. LastIsLast'
  <2>1. ASSUME NEW k \in DOMAIN drain'.blocks, drain'.blocks[k].last
        PROVE  k = Len(drain'.blocks) /\ pc' \in {"checksum", "idle", "panicked"}
    <3>1. DOMAIN new = 1..(n + 1)
      BY <1>2
    <3>2. k \in 1..(n + 1) /\ new[k].last
      BY <1>4, <2>1, <3>1
    <3>3. k = n + 1
      BY <1>2, <1>7, <3>2
    <3>4. block.last
      BY <1>2, <3>2, <3>3
    <3> QED
      BY <1>0, <1>2, <1>4, <1>6, <3>3, <3>4, <3>4
  <2>2. pc' # "encode"
    BY <1>6
  <2>3. ASSUME pc' = "checksum"
        PROVE  /\ drain'.blocks # <<>> /\ drain'.blocks[Len(drain'.blocks)].last
               /\ source' = <<>>
    <3>1. last_block \/ space = <<>>
      BY <1>6, <2>3
    <3>2. source = <<>> /\ block.last
      BY <1>0, <1>1, <3>1 DEF LastIsLast
    <3>3. new # <<>> /\ new[Len(new)].last
      BY <1>2, <3>2
    <3> QED
      BY <1>4, <1>6, <3>2, <3>3
  <2> QED
    BY <2>1, <2>2, <2>3, Zenon DEF LastIsLast
<1>11. MatcherKnows'
  <2> SUFFICES ASSUME level = "fastest" PROVE committed' = d.out
    BY <1>5, <1>6 DEF MatcherKnows
  <2> QED
    BY <1>0, <1>1 DEF MatcherKnows
<1>12. TablesKept'
  <2>1. ASSUME StoredRaw PROVE StoredRaw'
    <3>1. PICK k \in 1..n : old[k].type = "raw"
      BY <1>1, <2>1 DEF StoredRaw, old
    <3>2. k \in 1..(n + 1) /\ new[k].type = "raw"
      BY <1>2, <3>1
    <3> QED
      BY <1>2, <1>4, <3>2 DEF StoredRaw
  <2>2. ASSUME block.type = "raw" PROVE StoredRaw'
    <3>1. n + 1 \in 1..Len(new) /\ new[n + 1].type = "raw"
      BY <1>2, <2>2
    <3> QED
      BY <1>2, <1>4, <3>1 DEF StoredRaw
  <2>3. ~Decoder'.good \/ unsent' => StoredRaw'
    BY <1>0, <1>5, <2>1, <2>2
  <2>4. ~unsent' => Decoder'.tree = last_huff_table'
    BY <1>0, <1>5
  <2> QED
    BY <2>3, <2>4 DEF TablesKept, OnlyUnsentTablesDisagree
<1> QED
  BY <1>8, <1>9, <1>10, <1>11, <1>12 DEF IInv

LEMMA EmptyBlockKeeps ==
    ASSUME IInv, EmptyBlock
    PROVE  IInv'
<1> DEFINE b == Raw(TRUE, <<>>)
<1>1. /\ pc = "encode" /\ space = <<>> /\ Write(b)
      /\ committed' = committed /\ last_huff_table' = last_huff_table /\ unsent' = unsent
  BY DEF EmptyBlock
<1>2. Decoder \in DecoderStates /\ committed \in Seq(Byte) /\ last_huff_table \in Trees
      /\ space \in Seq(Byte)
  BY DEF IInv, TypeOK
<1>3. Gives(Decoder, b, TRUE, space, Decoder.tree, Decoder.good)
  BY <1>1, <1>2, RawDecoded, Zenon
<1>4. committed' = committed \o space
  BY <1>1, <1>2
<1>5. /\ unsent' \in BOOLEAN
      /\ ~unsent' => Decoder.tree = last_huff_table'
      /\ ~Decoder.good \/ unsent' => StoredRaw
  BY <1>1 DEF IInv, TypeOK, TablesKept, OnlyUnsentTablesDisagree
<1>6. TRUE <=> last_block \/ space = <<>>
  BY <1>1
<1> HIDE DEF b
<1> QED
  BY <1>1, <1>2, <1>3, <1>4, <1>5, <1>6, WriteKeeps, Zenon

LEMMA RawBlockKeeps ==
    ASSUME IInv, RawBlock
    PROVE  IInv'
<1> DEFINE b == Raw(last_block, space)
<1>1. /\ pc = "encode" /\ space # <<>> /\ level # "fastest" /\ Write(b)
      /\ committed' = committed /\ last_huff_table' = last_huff_table /\ unsent' = unsent
  BY DEF RawBlock
<1>2. /\ Decoder \in DecoderStates /\ committed \in Seq(Byte) /\ last_huff_table \in Trees
      /\ space \in Seq(Byte) /\ last_block \in BOOLEAN
  BY DEF IInv, TypeOK
<1>3. Gives(Decoder, b, last_block, space, Decoder.tree, Decoder.good)
  BY <1>2, RawDecoded, Zenon
<1>4. /\ unsent' \in BOOLEAN
      /\ ~unsent' => Decoder.tree = last_huff_table'
      /\ ~Decoder.good \/ unsent' => StoredRaw
  BY <1>1 DEF IInv, TypeOK, TablesKept, OnlyUnsentTablesDisagree
<1>5. last_block <=> last_block \/ space = <<>>
  BY <1>1
<1> HIDE DEF b
<1> QED
  BY <1>1, <1>2, <1>3, <1>4, <1>5, WriteKeeps, Zenon

LEMMA RleBlockKeeps ==
    ASSUME IInv, RleBlock
    PROVE  IInv'
<1> DEFINE b == Rle(last_block, space[1], Len(space))
<1>1. /\ pc = "encode" /\ space # <<>> /\ AllEqual(space) /\ Write(b)
      /\ committed' = committed \o space /\ last_huff_table' = last_huff_table
      /\ unsent' = unsent
  BY DEF RleBlock
<1>2. /\ Decoder \in DecoderStates /\ committed \in Seq(Byte) /\ last_huff_table \in Trees
      /\ space \in Seq(Byte) /\ last_block \in BOOLEAN
  BY DEF IInv, TypeOK
<1>3. Gives(Decoder, b, last_block, space, Decoder.tree, Decoder.good)
  BY <1>1, <1>2, RleDecoded, Zenon
<1>4. /\ unsent' \in BOOLEAN
      /\ ~unsent' => Decoder.tree = last_huff_table'
      /\ ~Decoder.good \/ unsent' => StoredRaw
  BY <1>1 DEF IInv, TypeOK, TablesKept, OnlyUnsentTablesDisagree
<1>5. last_block <=> last_block \/ space = <<>>
  BY <1>1
<1>6. committed' \in Seq(Byte)
  BY <1>1, <1>2
<1> HIDE DEF b
<1> QED
  BY <1>1, <1>2, <1>3, <1>4, <1>5, <1>6, WriteKeeps, Zenon

\* The block fits, and then a table it made is sent with it, or is stored raw.
LEMMA CompressedBlockKeeps ==
    ASSUME IInv, CompressedBlock
    PROVE  IInv'
<1>1. /\ pc = "encode" /\ space # <<>> /\ level = "fastest"
      /\ \E parse \in Parses(committed, space), near, smaller, fits \in BOOLEAN :
            CompressBlock(parse, near, smaller, fits)
  BY Zenon DEF CompressedBlock, Compressing
<1>2. PICK parse \in Parses(committed, space), near \in BOOLEAN, smaller \in BOOLEAN,
           fits \in BOOLEAN : CompressBlock(parse, near, smaller, fits)
  BY <1>1, Zenon
<1> DEFINE l == LiteralsOf(space, parse)
           section == LiteralsSection(l, near, smaller)
           b == IF fits THEN Packed(last_block, section, l, parse) ELSE Raw(last_block, space)
<1>3. /\ committed' = committed \o space
      /\ last_huff_table' = IF section.type = "compressed" THEN section.table ELSE last_huff_table
      /\ unsent' = IF section.type = "compressed" THEN ~fits ELSE unsent
      /\ Write(b)
  BY <1>2, Zenon DEF CompressBlock, Packed
<1>4. /\ Decoder \in DecoderStates /\ committed \in Seq(Byte) /\ last_huff_table \in Trees
      /\ space \in Seq(Byte) /\ last_block \in BOOLEAN
  BY DEF IInv, TypeOK
<1>5. committed = Decoder.out
  BY <1>1 DEF IInv, MatcherKnows
<1>6. l \in Seq(Byte)
  <2>1. parse \in Seq(Triples) /\ IsParse(committed, space, parse)
    BY <1>4, ParsesAreParses
  <2> QED
    BY <1>4, <2>1, ParseIsExecuted
<1>7. section \in Sections /\ (section.type = "treeless" => section.table = last_huff_table)
  BY <1>6, SectionIsSection
<1>8. CASE fits
  <2> DEFINE p == Packed(last_block, section, l, parse)
  <2>1. b = p
    BY <1>8
  <2>2. parse \in Parses(Decoder.out, space)
    BY <1>5
  <2> DEFINE tree == IF section.type = "compressed" THEN section.table ELSE Decoder.tree
             good == Decoder.good /\ (section.type = "treeless" => section.table = Decoder.tree)
  <2>3. Gives(Decoder, p, last_block, space, tree, good)
    <3> HIDE DEF section
    <3> QED
      BY <1>4, <1>7, <2>2, CompressedDecoded, Zenon
  <2>7. Write(p)
    BY <1>3, <2>1
  <2> HIDE DEF p, section
  <2>4. /\ unsent' \in BOOLEAN
        /\ ~unsent' => tree = last_huff_table'
        /\ ~good \/ unsent' => StoredRaw
    BY <1>3, <1>7, <1>8 DEF IInv, TypeOK, TablesKept, OnlyUnsentTablesDisagree
  <2>5. last_block <=> last_block \/ space = <<>>
    BY <1>1
  <2>6. committed' \in Seq(Byte) /\ last_huff_table' \in Trees
    BY <1>3, <1>4, <1>7 DEF Sections
  <2> HIDE DEF tree, good
  <2> QED
    BY <1>1, <1>3, <1>4, <2>3, <2>4, <2>5, <2>6, <2>7, WriteKeeps, Zenon
<1>9. CASE ~fits
  <2> DEFINE r == Raw(last_block, space)
  <2>1. b = r
    BY <1>9
  <2>2. Gives(Decoder, r, last_block, space, Decoder.tree, Decoder.good)
    BY <1>4, RawDecoded, Zenon
  <2>6. Write(r)
    BY <1>3, <2>1
  <2>7. r.type = "raw"
    BY DEF Raw
  <2> HIDE DEF r, section
  <2>3. unsent' \in BOOLEAN /\ (~unsent' => Decoder.tree = last_huff_table')
    BY <1>3, <1>9 DEF IInv, TypeOK, TablesKept, OnlyUnsentTablesDisagree
  <2>4. last_block <=> last_block \/ space = <<>>
    BY <1>1
  <2>5. committed' \in Seq(Byte) /\ last_huff_table' \in Trees
    BY <1>3, <1>4, <1>7 DEF Sections
  <2> QED
    BY <1>1, <1>3, <1>4, <2>2, <2>3, <2>4, <2>5, <2>6, <2>7, WriteKeeps, Zenon
<1> QED
  BY <1>8, <1>9

\* Steps that leave the blocks alone leave what the decoder has.
LEMMA CompressKeeps ==
    ASSUME IInv, NEW input \in Inputs, NEW lvl \in Levels, Compress(input, lvl)
    PROVE  IInv'
<1>1. /\ source' = input /\ level' = lvl /\ committed' = <<>> /\ last_huff_table' = None
      /\ drain' = [blocks |-> <<>>, checksum |-> None] /\ content' = <<>> /\ pc' = "space"
      /\ unsent' = FALSE
      /\ UNCHANGED <<hasher, space, space_len, last_block>>
  BY DEF Compress
<1>2. Decoder' = Start
  <2>1. Decoder' = AfterBlocks(drain'.blocks)
    BY DEF Decoder
  <2> QED
    BY <1>1, <2>1, AfterNone
<1>3. Start \in DecoderStates /\ None \in Trees /\ input \in Seq(Byte)
  BY InputsAssumption DEF Start, DecoderStates, Trees
<1>4. TypeOK'
  <2>1. <<>> \in Seq(Byte) /\ <<>> \in Seq(Blocks)
    OBVIOUS
  <2>2. drain' \in [blocks : Seq(Blocks), checksum : Seq(Byte) \cup {None}]
    BY <1>1, <2>1
  <2>3. /\ hasher \in Seq(Byte) /\ space \in Seq(Byte) /\ space_len \in Nat
        /\ last_block \in BOOLEAN
    BY DEF IInv, TypeOK
  <2> QED
    BY <1>1, <1>2, <1>3, <2>1, <2>2, <2>3 DEF TypeOK
<1>5. AllIsWritten' /\ MatcherKnows' /\ TablesKept'
  BY <1>1, <1>2 DEF AllIsWritten, MatcherKnows, TablesKept, OnlyUnsentTablesDisagree, StoredRaw, Start
<1>6. LastIsLast'
  BY <1>1 DEF LastIsLast
<1> QED
  BY <1>4, <1>5, <1>6 DEF IInv

LEMMA GetNextSpaceKeeps ==
    ASSUME IInv, NEW n \in SpaceSizes, GetNextSpace(n)
    PROVE  IInv'
<1>1. /\ pc = "space" /\ space' = <<>> /\ space_len' = n /\ pc' = "reading"
      /\ UNCHANGED <<source, level, last_huff_table, committed, hasher, last_block,
                     drain, content, unsent, frames>>
  BY DEF GetNextSpace
<1>2. n \in Nat /\ n > 0
  BY SpaceSizesAssumption
<1>3. Decoder' = Decoder
  BY <1>1 DEF Decoder
<1>4. TypeOK'
  BY <1>1, <1>2, <1>3 DEF IInv, TypeOK
<1>5. AllIsWritten'
  BY <1>1, <1>2, <1>3 DEF IInv, AllIsWritten
<1>6. LastIsLast'
  BY <1>1 DEF IInv, LastIsLast
<1>7. MatcherKnows' /\ TablesKept'
  BY <1>1, <1>3 DEF IInv, MatcherKnows, TablesKept, OnlyUnsentTablesDisagree, StoredRaw
<1> QED
  BY <1>4, <1>5, <1>6, <1>7 DEF IInv

LEMMA ReadKeeps ==
    ASSUME IInv, NEW k \in 0..space_len, Read(k)
    PROVE  IInv'
<1> DEFINE got == SubSeq(source, 1, k)
           ends == k = 0 \/ Len(space') = space_len
<1>1. /\ pc = "reading" /\ k <= Smaller(Len(source), space_len - Len(space))
      /\ k = 0 => source = <<>>
      /\ space' = space \o got /\ source' = SubSeq(source, k + 1, Len(source))
      /\ IF ends THEN ReadLoopEnds(space', k = 0) ELSE UNCHANGED <<last_block, hasher, content, pc>>
      /\ UNCHANGED <<level, last_huff_table, committed, space_len, drain, unsent, frames>>
  BY DEF Read
<1>2. /\ source \in Seq(Byte) /\ space \in Seq(Byte) /\ space_len \in Nat /\ k \in Nat
      /\ Decoder.out \in Seq(Byte) /\ hasher \in Seq(Byte) /\ content \in Seq(Byte)
      /\ last_block \in BOOLEAN
      /\ Decoder.out = content /\ Len(space) < space_len
  BY <1>1 DEF IInv, TypeOK, AllIsWritten, DecoderStates
<1>3. k <= Len(source) /\ Len(space) + k <= space_len
  <2>1. Len(source) \in Nat /\ Len(space) \in Nat
    BY <1>2
  <2> QED
    BY <1>1, <1>2, <2>1 DEF Smaller
<1>4. got \in Seq(Byte) /\ Len(got) = k /\ SubSeq(source, k + 1, Len(source)) \in Seq(Byte)
      /\ (k = 0 => SubSeq(source, k + 1, Len(source)) = <<>>)
  <2>1. Len(source) \in Nat
    BY <1>2
  <2>2. got \in Seq(Byte) /\ Len(got) = k
    BY <1>2, <1>3, <2>1
  <2>3. SubSeq(source, k + 1, Len(source)) \in Seq(Byte)
    BY <1>2, <1>3, <2>1
  <2>4. ASSUME k = 0 PROVE SubSeq(source, k + 1, Len(source)) = <<>>
    BY <1>1, <2>4
  <2> QED
    BY <2>2, <2>3, <2>4
<1> HIDE DEF got
<1>5. space' \in Seq(Byte) /\ source' \in Seq(Byte) /\ Len(space') = Len(space) + k
      /\ (k = 0 => source' = <<>>)
  <2>1. space' = space \o got /\ source' = SubSeq(source, k + 1, Len(source))
    BY <1>1
  <2>2. space \o got \in Seq(Byte) /\ Len(space \o got) = Len(space) + Len(got)
    BY <1>2, <1>4, Joined
  <2>3. Len(got) = k
    BY <1>4
  <2> QED
    BY <1>4, <2>1, <2>2, <2>3, Zenon
<1>6. Decoder' = Decoder
  BY <1>1 DEF Decoder
<1>7. CASE ~ends
  <2>1. /\ UNCHANGED <<last_block, hasher, content, pc>> /\ Len(space') # space_len
        /\ Len(space') < space_len
    <3>1. Len(space) \in Nat
      BY <1>2
    <3>2. UNCHANGED <<last_block, hasher, content, pc>> /\ Len(space') # space_len
      BY <1>1, <1>7
    <3> DEFINE length == Len(space)
    <3>3. Len(space') = length + k
      BY <1>5
    <3> HIDE DEF length
    <3>4. length \in Nat /\ length + k <= space_len /\ length + k # space_len
      BY <1>3, <3>1, <3>2, <3>3 DEF length
    <3>5. length + k < space_len
      BY <1>2, <3>4
    <3> QED
      BY <3>2, <3>3, <3>5
  <2>2. TypeOK'
    BY <1>1, <1>5, <1>6, <2>1 DEF IInv, TypeOK
  <2>3. AllIsWritten'
    BY <1>1, <1>6, <2>1 DEF IInv, AllIsWritten
  <2>4. LastIsLast'
    BY <1>1, <2>1 DEF IInv, LastIsLast
  <2>5. MatcherKnows' /\ TablesKept'
    BY <1>1, <1>6, <2>1 DEF IInv, MatcherKnows, TablesKept, OnlyUnsentTablesDisagree, StoredRaw
  <2> QED
    BY <2>2, <2>3, <2>4, <2>5 DEF IInv
<1>8. CASE ends
  <2>1. /\ last_block' = (k = 0) /\ hasher' = hasher \o space' /\ content' = content \o space'
        /\ pc' \in {"encode", "panicked"}
    BY <1>1, <1>8 DEF ReadLoopEnds
  <2>2. hasher' \in Seq(Byte) /\ content' \in Seq(Byte) /\ last_block' \in BOOLEAN
    BY <1>2, <1>5, <2>1
  <2>3. TypeOK'
    BY <1>1, <1>5, <1>6, <2>1, <2>2 DEF IInv, TypeOK
  <2>4. AllIsWritten'
    BY <1>2, <1>6, <2>1 DEF AllIsWritten
  <2>5. LastIsLast'
    <3>1. \A i \in DOMAIN drain'.blocks : ~drain'.blocks[i].last
      BY <1>1 DEF IInv, LastIsLast
    <3>2. last_block' => source' = <<>>
      BY <1>5, <2>1
    <3>3. ASSUME space' = <<>> PROVE last_block'
      <4>1. Len(space') = 0 /\ space_len # 0
        BY <1>2, <3>3
      <4>2. k = 0
        BY <1>8, <4>1
      <4> QED
        BY <2>1, <4>2
    <3> QED
      BY <2>1, <3>1, <3>2, <3>3 DEF LastIsLast
  <2>6. MatcherKnows' /\ TablesKept'
    BY <1>1, <1>6 DEF IInv, MatcherKnows, TablesKept, OnlyUnsentTablesDisagree, StoredRaw
  <2> QED
    BY <2>3, <2>4, <2>5, <2>6 DEF IInv
<1> QED
  BY <1>7, <1>8

LEMMA PanicKeeps ==
    ASSUME IInv, Panics
    PROVE  IInv'
<1>1. /\ pc' = "panicked"
      /\ UNCHANGED <<source, level, last_huff_table, committed, hasher, space, space_len,
                     last_block, drain, content, unsent, frames>>
  BY Zenon DEF Panics
<1>2. Decoder' = Decoder
  BY <1>1 DEF Decoder
<1>3. TypeOK' /\ AllIsWritten'
  BY <1>1, <1>2 DEF IInv, TypeOK, AllIsWritten
<1>4. LastIsLast'
  BY <1>1 DEF IInv, LastIsLast
<1>5. MatcherKnows' /\ TablesKept'
  BY <1>1, <1>2 DEF IInv, MatcherKnows, TablesKept, OnlyUnsentTablesDisagree, StoredRaw
<1> QED
  BY <1>3, <1>4, <1>5 DEF IInv

LEMMA WriteChecksumKeeps ==
    ASSUME IInv, WriteChecksum
    PROVE  IInv'
<1>1. /\ pc = "checksum" /\ pc' = "idle" /\ drain' = [drain EXCEPT !.checksum = hasher]
      /\ UNCHANGED <<source, level, last_huff_table, committed, hasher, space, space_len,
                     last_block, content, unsent, frames>>
  BY DEF WriteChecksum
<1>2. drain \in [blocks : Seq(Blocks), checksum : Seq(Byte) \cup {None}] /\ hasher \in Seq(Byte)
  BY DEF IInv, TypeOK
<1>3. drain'.blocks = drain.blocks
      /\ drain' \in [blocks : Seq(Blocks), checksum : Seq(Byte) \cup {None}]
  BY <1>1, <1>2
<1>4. Decoder' = Decoder
  BY <1>3 DEF Decoder
<1>5. TypeOK'
  BY <1>1, <1>3, <1>4 DEF IInv, TypeOK
<1>6. AllIsWritten'
  BY <1>1, <1>4 DEF AllIsWritten
<1>7. LastIsLast'
  <2>1. \A k \in DOMAIN drain'.blocks : drain'.blocks[k].last => k = Len(drain'.blocks)
    BY <1>3 DEF IInv, LastIsLast
  <2> QED
    BY <1>1, <2>1 DEF LastIsLast
<1>8. MatcherKnows' /\ TablesKept'
  BY <1>1, <1>4 DEF IInv, MatcherKnows, TablesKept, OnlyUnsentTablesDisagree, StoredRaw
<1> QED
  BY <1>5, <1>6, <1>7, <1>8 DEF IInv

LEMMA InitIsInvariant == Init => IInv
<1> SUFFICES ASSUME Init PROVE IInv
  OBVIOUS
<1>1. Decoder = Start
  BY AfterNone DEF Init, Decoder
<1>2. Start \in DecoderStates /\ None \in Trees
  BY DEF Start, DecoderStates, Trees
<1>3. TypeOK
  <2>1. <<>> \in Seq(Byte) /\ <<>> \in Seq(Blocks)
    OBVIOUS
  <2>2. [blocks |-> <<>>, checksum |-> None] \in [blocks : Seq(Blocks), checksum : Seq(Byte) \cup {None}]
    BY <2>1
  <2> QED
    BY <1>1, <1>2, <2>1, <2>2 DEF Init, TypeOK
<1>4. AllIsWritten /\ LastIsLast /\ MatcherKnows
  BY DEF Init, AllIsWritten, LastIsLast, MatcherKnows
<1>5. TablesKept
  BY <1>1 DEF Init, TablesKept, OnlyUnsentTablesDisagree, StoredRaw, Start
<1> QED
  BY <1>3, <1>4, <1>5 DEF IInv

LEMMA StepKeepsInvariant == IInv /\ [Next]_vars => IInv'
<1> SUFFICES ASSUME IInv, [Next]_vars PROVE IInv'
  OBVIOUS
<1>1. ASSUME NEW input \in Inputs, NEW lvl \in Levels, Compress(input, lvl) PROVE IInv'
  BY <1>1, CompressKeeps
<1>2. ASSUME NEW n \in SpaceSizes, GetNextSpace(n) PROVE IInv'
  BY <1>2, GetNextSpaceKeeps
<1>3. ASSUME NEW k \in 0..space_len, Read(k) PROVE IInv'
  BY <1>3, ReadKeeps
<1>4. CASE EmptyBlock
  BY <1>4, EmptyBlockKeeps
<1>5. CASE RawBlock
  BY <1>5, RawBlockKeeps
<1>6. CASE RleBlock
  BY <1>6, RleBlockKeeps
<1>7. CASE CompressedBlock
  BY <1>7, CompressedBlockKeeps
<1>8. CASE TablePanics \/ IoPanics
  <2>1. Panics
    BY <1>8, Zenon DEF TablePanics, IoPanics
  <2> QED
    BY <2>1, PanicKeeps
<1>9. CASE WriteChecksum
  BY <1>9, WriteChecksumKeeps
<1>10. CASE UNCHANGED vars
  <2>1. UNCHANGED <<source, level, last_huff_table, committed, hasher, space, space_len,
                    last_block, drain, content, unsent, frames, pc>>
    BY <1>10, Zenon DEF vars
  <2>2. Decoder' = Decoder
    BY <2>1 DEF Decoder
  <2> QED
    BY <2>1, <2>2 DEF IInv, TypeOK, AllIsWritten, LastIsLast, MatcherKnows, TablesKept, OnlyUnsentTablesDisagree, StoredRaw
<1> QED
  BY <1>1, <1>2, <1>3, <1>4, <1>5, <1>6, <1>7, <1>8, <1>9, <1>10, Zenon DEF Next

LEMMA Invariance == Spec => []IInv
  BY InitIsInvariant, StepKeepsInvariant, PTL DEF Spec

-----------------------------------------------------------------------------
\* compress, with any matcher that keeps the promise of the trait: block by block
\* the decoder gets the bytes that were read, and the block that says it is the
\* last one is the last one, written when the source is used up.
THEOREM BlocksAreTheSource == Spec => []FrameReproducesInput
<1>1. IInv => FrameReproducesInput
  BY DEF IInv, AllIsWritten, LastIsLast, FrameReproducesInput
<1> QED
  BY <1>1, Invariance, PTL

\* last_huff_table of the compressor and the tree of the decoder come apart only by
\* a block stored raw after its table was made, until the next table is sent; and
\* no treeless section was written with a table the decoder lacks unless such a
\* block went before.
THEOREM HuffmanTablesAgree == Spec => []OnlyUnsentTablesDisagree
<1>1. IInv => OnlyUnsentTablesDisagree
  BY DEF IInv, TablesKept
<1> QED
  BY <1>1, Invariance, PTL

=============================================================================
