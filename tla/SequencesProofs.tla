--------------------------- MODULE SequencesProofs ---------------------------
(***************************************************************************)
(* A sequences section is read as it was written, with every choice of the *)
(* three tables and whatever the lengths and offsets are, up to the bounds *)
(* of InputsAssumption; and the readers and writers of bits underneath     *)
(* are a plain source and a plain sink.                                    *)
(***************************************************************************)
EXTENDS CodecsProofs

-----------------------------------------------------------------------------
(* Codes of lengths and offsets                                            *)

\* A row of a table of codes: its lengths differ in its extra bits, and the
\* decoder's row starts where the encoder's does.
RowFits(row, other) ==
    /\ row[1] \in Nat /\ row[2] \in Nat /\ row[3] \in 1..16 /\ row[2] - row[1] < Pow(row[3])
    /\ other = <<row[1], row[3]>>

LEMMA FewPowers ==
    /\ Pow(1) = 2 /\ Pow(2) = 4 /\ Pow(3) = 8 /\ Pow(4) = 16 /\ Pow(5) = 32 /\ Pow(6) = 64 /\ Pow(7) = 128
    /\ Pow(8) = 256 /\ Pow(9) = 512 /\ Pow(10) = 1024 /\ Pow(11) = 2048 /\ Pow(12) = 4096 /\ Pow(13) = 8192
    /\ Pow(14) = 16384 /\ Pow(15) = 32768 /\ Pow(16) = 65536
<1>1. /\ Pow(0) = 1 /\ Pow(1) = 2 * Pow(0) /\ Pow(2) = 2 * Pow(1) /\ Pow(3) = 2 * Pow(2) /\ Pow(4) = 2 * Pow(3)
      /\ Pow(5) = 2 * Pow(4) /\ Pow(6) = 2 * Pow(5) /\ Pow(7) = 2 * Pow(6) /\ Pow(8) = 2 * Pow(7)
  BY Powers
<1>2. /\ Pow(9) = 2 * Pow(8) /\ Pow(10) = 2 * Pow(9) /\ Pow(11) = 2 * Pow(10) /\ Pow(12) = 2 * Pow(11)
      /\ Pow(13) = 2 * Pow(12) /\ Pow(14) = 2 * Pow(13) /\ Pow(15) = 2 * Pow(14) /\ Pow(16) = 2 * Pow(15)
  BY Powers
<1> QED
  BY <1>1, <1>2

LEMMA LiteralLengthRowsFit ==
    \A r \in 1..20 : RowFits(LiteralLengthRows[r], LiteralLengthTable[r])
<1> SUFFICES ASSUME NEW r \in 1..20 PROVE RowFits(LiteralLengthRows[r], LiteralLengthTable[r])
  OBVIOUS
<1> QED
  BY FewPowers, SMTT(60) DEF LiteralLengthRows, LiteralLengthTable, RowFits

LEMMA LiteralLengthHasRow ==
    ASSUME NEW len \in Nat, len >= 16, len <= 131071
    PROVE  \E r \in DOMAIN LiteralLengthRows : r <= 20 /\ LiteralLengthRows[r][1] <= len /\ len <= LiteralLengthRows[r][2]
<1>1. \E r \in 1..20 : LiteralLengthRows[r][1] <= len /\ len <= LiteralLengthRows[r][2]
  BY DEF LiteralLengthRows
<1>2. DOMAIN LiteralLengthRows = 1..20
  BY DEF LiteralLengthRows
<1> QED
  BY <1>1, <1>2

LEMMA MatchLenRowsFit ==
    \A r \in 1..20 : RowFits(MatchLenRows[r], MatchLenTable[r])
<1> SUFFICES ASSUME NEW r \in 1..20 PROVE RowFits(MatchLenRows[r], MatchLenTable[r])
  OBVIOUS
<1> QED
  BY FewPowers, SMTT(60) DEF MatchLenRows, MatchLenTable, RowFits

LEMMA MatchLenHasRow ==
    ASSUME NEW len \in Nat, len >= 35, len <= 65538
    PROVE  \E r \in DOMAIN MatchLenRows : r <= 20 /\ MatchLenRows[r][1] <= len /\ len <= MatchLenRows[r][2]
<1>1. \E r \in 1..20 : MatchLenRows[r][1] <= len /\ len <= MatchLenRows[r][2]
  BY DEF MatchLenRows
<1>2. DOMAIN MatchLenRows = 1..21
  BY DEF MatchLenRows
<1> QED
  BY <1>1, <1>2

LEMMA MatchLenLastRow ==
    ASSUME NEW len \in Nat, len <= 65538
    PROVE  ~(MatchLenRows[21][1] <= len /\ len <= MatchLenRows[21][2])
BY DEF MatchLenRows

\* What is made of a number and what a decoder looks up for its code: a first
\* number and bits for what is added.
Codes(e, number, look, last) ==
    /\ e.code \in 0..last /\ e.add \in Nat /\ e.bits \in 0..29 /\ e.add < Pow(e.bits)
    /\ look[1] \in Nat /\ look[1] + e.add = number /\ look[2] = e.bits

LEMMA RowCodes ==
    ASSUME NEW len \in Nat, NEW row, NEW other, RowFits(row, other), row[1] <= len, len <= row[2],
           NEW last \in Nat, NEW c \in 0..last,
           NEW e, e = [code |-> c, add |-> len - row[1], bits |-> row[3]]
    PROVE  Codes(e, len, other, last)
<1> DEFINE x == row[1]
           y == row[2]
           z == row[3]
<1>1. /\ x \in Nat /\ y \in Nat /\ z \in 1..16 /\ y - x < Pow(z) /\ x <= len /\ len <= y
      /\ other = <<x, z>> /\ e = [code |-> c, add |-> len - x, bits |-> z]
  BY DEF RowFits
<1> HIDE DEF x, y, z
<1>2. e.code = c /\ e.add = len - x /\ e.bits = z /\ other[1] = x /\ other[2] = z
  BY <1>1
<1>3. Pow(z) \in Nat /\ z \in 0..29
  BY <1>1, Powers
<1>4. len - x \in Nat /\ len - x < Pow(z) /\ x + (len - x) = len
  BY <1>1, <1>3
<1> QED
  BY <1>1, <1>2, <1>3, <1>4 DEF Codes

LEMMA OneCodes ==
    ASSUME NEW len \in Nat, NEW c, NEW last, c \in 0..last,
           NEW e, e = [code |-> c, add |-> 0, bits |-> 0]
    PROVE  Codes(e, len, <<len, 0>>, last)
<1>1. Pow(0) = 1
  BY Powers
<1>2. e.code = c /\ e.add = 0 /\ e.bits = 0
  OBVIOUS
<1> QED
  BY <1>1, <1>2 DEF Codes

LEMMA LiteralLengthRowCodes ==
    ASSUME NEW len \in Nat, ~(len <= 15), NEW e, e = EncodeLiteralLength(len),
           \E r \in DOMAIN LiteralLengthRows : LiteralLengthRows[r][1] <= len /\ len <= LiteralLengthRows[r][2]
    PROVE  Codes(e, len, LookupLiteralLength(e.code), 35)
<1>1. PICK r : r = RowOf(LiteralLengthRows, len)
  OBVIOUS
<1>3. r \in DOMAIN LiteralLengthRows /\ LiteralLengthRows[r][1] <= len /\ len <= LiteralLengthRows[r][2]
  BY <1>1, Zenon DEF RowOf
<1>4. r \in 1..20
  BY <1>3 DEF LiteralLengthRows
<1>5. e = [code |-> 15 + r, add |-> len - LiteralLengthRows[r][1], bits |-> LiteralLengthRows[r][3]]
  BY <1>1, Zenon DEF EncodeLiteralLength
<1>6. PICK c : c = 15 + r
  OBVIOUS
<1>7. c \in 0..35 /\ c - 15 = r /\ ~(c <= 15) /\ 35 \in Nat
  BY <1>4, <1>6
<1>8. LookupLiteralLength(c) = LiteralLengthTable[r]
  BY <1>7, Zenon DEF LookupLiteralLength
<1>9. Codes(e, len, LiteralLengthTable[r], 35)
  BY <1>3, <1>4, <1>5, <1>6, <1>7, LiteralLengthRowsFit, RowCodes, Zenon
<1>10. e.code = c
  BY <1>5, <1>6
<1> QED
  BY <1>8, <1>9, <1>10, Zenon

LEMMA LiteralLengthCodes ==
    ASSUME NEW len \in Nat, len <= 131071, NEW e, e = EncodeLiteralLength(len)
    PROVE  Codes(e, len, LookupLiteralLength(e.code), 35)
<1>1. CASE len <= 15
  <2>1. e = [code |-> len, add |-> 0, bits |-> 0]
    BY <1>1 DEF EncodeLiteralLength
  <2>2. LookupLiteralLength(len) = <<len, 0>>
    BY <1>1 DEF LookupLiteralLength
  <2>3. len \in 0..35 /\ e.code = len
    BY <1>1, <2>1
  <2> QED
    BY <2>1, <2>2, <2>3, OneCodes
<1>2. CASE ~(len <= 15)
  <2>1. \E r \in DOMAIN LiteralLengthRows : LiteralLengthRows[r][1] <= len /\ len <= LiteralLengthRows[r][2]
    BY <1>2, LiteralLengthHasRow
  <2> QED
    BY <1>2, <2>1, LiteralLengthRowCodes
<1> QED
  BY <1>1, <1>2

\* The last row is for lengths the two sides think differently of.
InSomeRow(len) ==
    /\ \E r \in DOMAIN MatchLenRows : MatchLenRows[r][1] <= len /\ len <= MatchLenRows[r][2]
    /\ ~(MatchLenRows[21][1] <= len /\ len <= MatchLenRows[21][2])

LEMMA MatchLenRowCodes ==
    ASSUME NEW len \in Nat, ~(len <= 34), NEW e, e = EncodeMatchLen(len), InSomeRow(len)
    PROVE  Codes(e, len, LookupMatchLen(e.code), 51)
<1>1. PICK r : r = RowOf(MatchLenRows, len)
  OBVIOUS
<1>3. r \in DOMAIN MatchLenRows /\ MatchLenRows[r][1] <= len /\ len <= MatchLenRows[r][2]
  BY <1>1, Zenon DEF RowOf, InSomeRow
<1>4. r \in 1..20
  <2>1. r \in 1..21
    BY <1>3 DEF MatchLenRows
  <2>2. r # 21
    BY <1>3, Zenon DEF InSomeRow
  <2> QED
    BY <2>1, <2>2
<1>5. e = [code |-> 31 + r, add |-> len - MatchLenRows[r][1], bits |-> MatchLenRows[r][3]]
  <2>1. r # 21
    BY <1>4
  <2> QED
    BY <1>1, <2>1 DEF EncodeMatchLen
<1>6. PICK c : c = 31 + r
  OBVIOUS
<1>7. c \in 0..51 /\ c - 31 = r /\ ~(c <= 31) /\ 51 \in Nat
  BY <1>4, <1>6
<1>8. LookupMatchLen(c) = MatchLenTable[r]
  BY <1>7, Zenon DEF LookupMatchLen
<1>9. Codes(e, len, MatchLenTable[r], 51)
  BY <1>3, <1>4, <1>5, <1>6, <1>7, MatchLenRowsFit, RowCodes, Zenon
<1>10. e.code = c
  BY <1>5, <1>6
<1> QED
  BY <1>8, <1>9, <1>10, Zenon

LEMMA MatchLenInRow ==
    ASSUME NEW len \in Nat, len <= 65538
    PROVE  len <= 34 \/ InSomeRow(len)
BY MatchLenHasRow, MatchLenLastRow DEF InSomeRow

LEMMA MatchLenCodes ==
    ASSUME NEW len \in Nat, len >= 3, len <= 34 \/ InSomeRow(len), NEW e, e = EncodeMatchLen(len)
    PROVE  Codes(e, len, LookupMatchLen(e.code), 51)
<1>1. CASE len <= 34
  <2>1. e = [code |-> len - 3, add |-> 0, bits |-> 0]
    BY <1>1 DEF EncodeMatchLen
  <2>2. LookupMatchLen(len - 3) = <<len, 0>>
    <3>1. len - 3 <= 31 /\ (len - 3) + 3 = len
      BY <1>1
    <3> QED
      BY <3>1 DEF LookupMatchLen
  <2>3. len - 3 \in 0..51 /\ e.code = len - 3
    BY <1>1, <2>1
  <2> QED
    BY <2>1, <2>2, <2>3, OneCodes
<1>2. CASE ~(len <= 34)
  BY <1>2, MatchLenRowCodes, Zenon
<1> QED
  BY <1>1, <1>2

\* The code of an offset is the number of its extra bits, and its highest bit
\* what they are added to.
LEMMA OffsetCodes ==
    ASSUME NEW of \in Nat, of >= 1, of < Pow(30)
    PROVE  /\ EncodeOffset(of).bits = EncodeOffset(of).code
           /\ Codes(EncodeOffset(of), of, <<2^EncodeOffset(of).code, EncodeOffset(of).code>>, 29)
<1> DEFINE k == Log2(of)
           p == Pow(k)
           e == EncodeOffset(of)
<1>1. e = [code |-> k, add |-> of % 2^k, bits |-> k]
  BY Zenon DEF EncodeOffset, Log2
<1>2. k \in 0..29 /\ p <= of /\ of < Pow(k + 1)
  BY Log2Is
<1>3. 2^k = p
  BY Zenon DEF Pow
<1> HIDE DEF k
<1>4. p \in Nat \ {0} /\ Pow(k + 1) = 2 * p
  BY <1>2, Doubles
<1>5. e.code = k /\ e.add = of % p /\ e.bits = k
  <2> HIDE DEF e, p
  <2> QED
    BY <1>1, <1>3
<1> DEFINE look == <<p, k>>
<1>6. look[1] = p /\ look[2] = k
  OBVIOUS
<1> HIDE DEF p, e, look
<1>7. of % p = of - p
  <2>1. of - p \in Nat /\ of - p < p /\ 1 \in Nat /\ 1 * p + (of - p) = of
    BY <1>2, <1>4
  <2> QED
    BY <1>4, <2>1, QuotientIs, ZenonT(60)
<1>8. Codes(e, of, look, 29)
  BY <1>2, <1>4, <1>5, <1>6, <1>7 DEF Codes, p
<1>9. <<2^e.code, e.code>> = look
  BY <1>3, <1>5 DEF look
<1> QED
  BY <1>5, <1>8, <1>9 DEF e

-----------------------------------------------------------------------------
(* Codes of a list of sequences                                            *)

\* Counts of codes end with one that occurs, and count each that occurs.
CountsMatch(counts, data, most) ==
    /\ counts \in Seq(Nat) /\ Len(counts) \in 1..(most + 1) /\ counts[Len(counts)] # 0
    /\ \A i \in 1..Len(data) : data[i] + 1 \in 1..Len(counts) /\ counts[data[i] + 1] # 0
    /\ Len(counts) = 1 => Range(data) = {0}

LEMMA CountsAre ==
    ASSUME NEW most \in Nat, NEW data \in Seq(0..most), Len(data) >= 1
    PROVE  CountsMatch(CountsOf(data), data, most)
<1> DEFINE n == Len(data)
           m == Max(Range(data))
           At(c) == {i \in 1..n : data[i] = c - 1}
           counts == CountsOf(data)
<1>1. n \in Nat /\ n >= 1 /\ DOMAIN data = 1..n /\ \A i \in 1..n : data[i] \in 0..most
  OBVIOUS
<1>2. data \in Seq(Nat)
  <2>1. \A i \in 1..n : data[i] \in Nat
    BY <1>1
  <2> QED
    BY <1>1, <2>1, OfLength
<1>3. m \in Nat /\ (\A i \in 1..n : data[i] <= m) /\ \E i \in 1..n : data[i] = m
  BY <1>1, <1>2, MaxIs
<1>4. m <= most
  BY <1>1, <1>3
<1>5. counts = [c \in 1..(m + 1) |-> Cardinality(At(c))]
  BY <1>1 DEF CountsOf
<1> HIDE DEF m, counts
<1>6. \A c \in 1..(m + 1) : Cardinality(At(c)) \in Nat /\ (At(c) # {} => Cardinality(At(c)) # 0)
  <2> SUFFICES ASSUME NEW c \in 1..(m + 1)
               PROVE  Cardinality(At(c)) \in Nat /\ (At(c) # {} => Cardinality(At(c)) # 0)
    OBVIOUS
  <2>1. IsFiniteSet(1..n)
    BY <1>1, FS_Interval
  <2>2. At(c) \in SUBSET (1..n)
    OBVIOUS
  <2> HIDE DEF At
  <2>3. IsFiniteSet(At(c))
    BY <2>1, <2>2, FS_Subset
  <2> QED
    BY <2>3, FS_CardinalityType, FS_EmptySet
<1>7. \A i \in 1..n : data[i] + 1 \in 1..(m + 1) /\ At(data[i] + 1) # {}
  <2> SUFFICES ASSUME NEW i \in 1..n PROVE data[i] + 1 \in 1..(m + 1) /\ At(data[i] + 1) # {}
    OBVIOUS
  <2>1. data[i] \in Nat /\ data[i] <= m /\ (data[i] + 1) - 1 = data[i]
    BY <1>1, <1>3
  <2>2. i \in At(data[i] + 1)
    BY <2>1
  <2>3. data[i] + 1 \in 1..(m + 1)
    BY <1>3, <2>1, SMTT(30)
  <2> HIDE DEF At
  <2> QED
    BY <2>2, <2>3
<1>8. At(m + 1) # {}
  <2>1. PICK i \in 1..n : data[i] = m
    BY <1>3
  <2> QED
    BY <1>7, <2>1
<1> HIDE DEF At
<1>9. counts \in [1..(m + 1) -> Nat]
  BY <1>5, <1>6
<1>10. counts \in Seq(Nat) /\ Len(counts) = m + 1
  BY <1>3, <1>9, OfLength
<1>11. \A c \in 1..(m + 1) : At(c) # {} => counts[c] # 0
  BY <1>5, <1>6
<1>12. m + 1 \in 1..(m + 1) /\ m + 1 \in 1..(most + 1)
  BY <1>3, <1>4
<1>13. ASSUME m = 0 PROVE Range(data) = {0}
  <2>1. \A i \in 1..n : data[i] = 0
    BY <1>1, <1>3, <1>13
  <2>2. Range(data) = {data[i] : i \in 1..n}
    BY <1>2, RangeIs DEF Firsts
  <2>3. 1 \in 1..n
    BY <1>1
  <2> QED
    BY <2>1, <2>2, <2>3
<1>14. counts[m + 1] # 0
  BY <1>8, <1>11, <1>12
<1>15. \A i \in 1..n : data[i] + 1 \in 1..(m + 1) /\ counts[data[i] + 1] # 0
  BY <1>7, <1>11
<1>16. m + 1 = 1 => m = 0
  BY <1>3
<1> QED
  BY <1>10, <1>12, <1>13, <1>14, <1>15, <1>16 DEF CountsMatch, counts

-----------------------------------------------------------------------------
\* Numbers that have codes.
Fitting(s) ==
    /\ s[1] \in Nat /\ s[2] \in Nat /\ s[3] \in Nat /\ s = <<s[1], s[2], s[3]>>
    /\ s[1] <= 131071 /\ s[2] >= 3 /\ (s[2] <= 34 \/ InSomeRow(s[2])) /\ s[3] >= 1 /\ s[3] < Pow(30)

\* What the codes of a sequence are.
CodesOfSequence(e, s) ==
    /\ Codes(e[1], s[1], LookupLiteralLength(e[1].code), 35)
    /\ Codes(e[2], s[2], LookupMatchLen(e[2].code), 51)
    /\ Codes(e[3], s[3], <<2^e[3].code, e[3].code>>, 29)
    /\ e[3].bits = e[3].code

LEMMA SequenceHasCodes ==
    ASSUME NEW s, Fitting(s)
    PROVE  CodesOfSequence(EncodedSequence(s), s)
<1> DEFINE a == EncodeLiteralLength(s[1])
           b == EncodeMatchLen(s[2])
           c == EncodeOffset(s[3])
           e == EncodedSequence(s)
<1>1. e = <<a, b, c>>
  BY DEF EncodedSequence
<1>2. Codes(a, s[1], LookupLiteralLength(a.code), 35)
  BY LiteralLengthCodes DEF Fitting
<1>3. Codes(b, s[2], LookupMatchLen(b.code), 51)
  BY MatchLenCodes DEF Fitting
<1>4. Codes(c, s[3], <<2^c.code, c.code>>, 29) /\ c.bits = c.code
  BY OffsetCodes DEF Fitting
<1> HIDE DEF a, b, c, e
<1>5. e[1] = a /\ e[2] = b /\ e[3] = c
  BY <1>1
<1>6. CodesOfSequence(e, s)
  BY <1>2, <1>3, <1>4, <1>5 DEF CodesOfSequence
<1> QED
  BY <1>6 DEF e

\* The largest codes of each kind.
LastCodes == <<35, 51, 29>>

LEMMA InputsFit ==
    ASSUME NEW list \in Inputs
    PROVE  /\ DOMAIN list = 1..Len(list) /\ Len(list) \in Nat /\ Len(list) >= 1 /\ Len(list) < 32512
           /\ \A i \in 1..Len(list) : Fitting(list[i])
<1>1. list \in Seq(Nat \X Nat \X Nat) /\ Len(list) >= 1 /\ Len(list) < 32512
  BY InputsAssumption
<1>2. Pow(30) = 2^30
  BY Zenon DEF Pow
<1>3. ASSUME NEW i \in 1..Len(list) PROVE Fitting(list[i])
  <2>1. PICK s : s = list[i]
    OBVIOUS
  <2>2. s[1] <= 131071 /\ s[2] >= 3 /\ s[2] < 65539 /\ s[3] >= 1 /\ s[3] < 2^30
    BY <2>1, InputsAssumption
  <2>3. s \in Nat \X Nat \X Nat
    BY <1>1, <2>1
  <2>4. s[1] \in Nat /\ s[2] \in Nat /\ s[3] \in Nat /\ s = <<s[1], s[2], s[3]>>
    BY <2>3
  <2>5. s[2] <= 34 \/ InSomeRow(s[2])
    BY <2>2, <2>4, MatchLenInRow
  <2>6. Fitting(s)
    BY <1>2, <2>2, <2>4, <2>5 DEF Fitting
  <2> QED
    BY <2>1, <2>6
<1>4. DOMAIN list = 1..Len(list) /\ Len(list) \in Nat
  BY <1>1
<1> QED
  BY <1>1, <1>3, <1>4

LEMMA CodesInAre ==
    ASSUME NEW list \in Inputs, NEW kind \in Kinds
    PROVE  /\ CodesIn(list, kind) \in Seq(0..LastCodes[kind]) /\ Len(CodesIn(list, kind)) = Len(list)
           /\ \A i \in 1..Len(list) : CodesIn(list, kind)[i] = EncodedSequence(list[i])[kind].code
<1> DEFINE n == Len(list)
           data == CodesIn(list, kind)
<1>1. DOMAIN list = 1..n /\ n \in Nat /\ \A i \in 1..n : Fitting(list[i])
  BY InputsFit
<1>2. data = [i \in 1..n |-> EncodedSequence(list[i])[kind].code]
  BY <1>1 DEF CodesIn
<1>3. ASSUME NEW i \in 1..n PROVE EncodedSequence(list[i])[kind].code \in 0..LastCodes[kind]
  <2>1. CodesOfSequence(EncodedSequence(list[i]), list[i])
    BY <1>1, SequenceHasCodes
  <2>2. PICK e : e = EncodedSequence(list[i])
    OBVIOUS
  <2>3. e[1].code \in 0..35 /\ e[2].code \in 0..51 /\ e[3].code \in 0..29
    BY <2>1, <2>2 DEF CodesOfSequence, Codes
  <2>4. LastCodes[1] = 35 /\ LastCodes[2] = 51 /\ LastCodes[3] = 29
    BY DEF LastCodes
  <2>5. kind = 1 \/ kind = 2 \/ kind = 3
    BY DEF Kinds
  <2> QED
    BY <2>2, <2>3, <2>4, <2>5
<1> HIDE DEF data
<1>4. data \in [1..n -> 0..LastCodes[kind]]
  BY <1>2, <1>3
<1>5. data \in Seq(0..LastCodes[kind]) /\ Len(data) = n
  BY <1>1, <1>4, OfLength
<1> QED
  BY <1>2, <1>5 DEF data

-----------------------------------------------------------------------------
(* Tables of a section                                                     *)

CodeOf(list, i, kind) == EncodedSequence(list[i])[kind].code

ModelOf(list, kind) == Probabilities(CountsOf(CodesIn(list, kind)), MaxLogs[kind])

ProbsOf(list, kind) == ModelOf(list, kind).probs

LogOf(list, kind) == ModelOf(list, kind).log

\* Probabilities that are made for a list have a state for each of its codes.
Suited(list, kind, probs, log) ==
    /\ Describable(probs, log) /\ log <= MaxLogs[kind] /\ Len(probs) <= MaxCodes[kind] + 1 /\ probs[Len(probs)] > 0
    /\ \A i \in 1..Len(list) : CodeOf(list, i, kind) + 1 \in 1..Len(probs) /\ probs[CodeOf(list, i, kind) + 1] # 0

LEMMA ModelIs ==
    ASSUME NEW list \in Inputs, NEW kind \in Kinds
    PROVE  IF ProbsOf(list, kind) = NoTable THEN Range(CodesIn(list, kind)) = {0}
           ELSE Suited(list, kind, ProbsOf(list, kind), LogOf(list, kind))
<1> DEFINE data == CodesIn(list, kind)
           counts == CountsOf(data)
           m == MaxLogs[kind]
           most == LastCodes[kind]
           p == Probabilities(counts, m)
           n == Len(counts)
<1>1. /\ data \in Seq(0..most) /\ Len(data) = Len(list)
      /\ \A i \in 1..Len(list) : data[i] = CodeOf(list, i, kind)
  BY CodesInAre DEF CodeOf
<1>2. Len(list) \in Nat /\ Len(list) >= 1
  BY InputsFit
<1>3. m \in 5..9 /\ most \in Nat /\ most + 1 <= Pow(m) /\ most <= MaxCodes[kind]
  <2>1. kind = 1 \/ kind = 2 \/ kind = 3
    BY DEF Kinds
  <2>2. Pow(8) = 256 /\ Pow(9) = 512
    BY FewPowers
  <2> QED
    BY <2>1, <2>2 DEF LastCodes, MaxLogs, MaxCodes
<1> HIDE DEF data, m, most
<1>4. CountsMatch(counts, data, most)
  BY <1>1, <1>2, <1>3, CountsAre
<1> HIDE DEF counts
<1>5. /\ counts \in Seq(Nat) /\ n \in 1..(most + 1) /\ counts[n] # 0
      /\ \A i \in 1..Len(list) : data[i] + 1 \in 1..n /\ counts[data[i] + 1] # 0
      /\ n = 1 => Range(data) = {0}
  BY <1>1, <1>4 DEF CountsMatch
<1>6. n \in Nat /\ n >= 1 /\ n <= Pow(m)
  <2>1. m \in 0..31
    BY <1>3
  <2>2. Pow(m) \in Nat
    BY <2>1, Powers
  <2> HIDE DEF n
  <2> QED
    BY <1>3, <1>5, <2>2
<1>7. IF n = 1 THEN p.probs = NoTable ELSE p.log \in 5..m /\ Even(p.probs, counts, p.log)
  BY <1>3, <1>5, <1>6, ProbabilitiesAre
<1>8. p = ModelOf(list, kind)
  BY Zenon DEF ModelOf, counts, data, m
<1>9. ProbsOf(list, kind) = p.probs /\ LogOf(list, kind) = p.log
  BY <1>8, Zenon DEF ProbsOf, LogOf
<1> HIDE DEF p, n
<1>10. CASE n = 1
  BY <1>5, <1>7, <1>9, <1>10 DEF data
<1>11. CASE n # 1
  <2> DEFINE probs == p.probs
             log == p.log
  <2>1. log \in 5..m /\ Even(probs, counts, log)
    BY <1>7, <1>11
  <2>2. log \in 5..9 /\ log <= m
    <3> HIDE DEF log
    <3> QED
      BY <1>3, <2>1
  <2> HIDE DEF probs, log
  <2>3. SoundProbs(probs, log)
    BY <2>1, <2>2, EvenIsSound
  <2>4. probs \in Seq(Nat) /\ Len(probs) = n /\ \A s \in 1..n : counts[s] # 0 => probs[s] # 0
    BY <2>1 DEF Even, Keeps, n
  <2>5. n \in 1..n
    BY <1>6
  <2>6. probs[n] # 0 /\ probs[n] \in Nat
    BY <1>5, <2>4, <2>5
  <2>7. probs # NoTable
    BY <1>6, <2>4 DEF NoTable
  <2>8. \A i \in 1..Len(list) : CodeOf(list, i, kind) + 1 \in 1..n /\ probs[CodeOf(list, i, kind) + 1] # 0
    BY <1>1, <1>5, <2>4
  <2>10. n <= MaxCodes[kind] + 1
    <3>1. MaxCodes[kind] \in Nat
      BY DEF MaxCodes, Kinds
    <3> QED
      BY <1>3, <1>5, <1>6, <3>1
  <2>9. Suited(list, kind, probs, log)
    BY <1>6, <2>2, <2>3, <2>4, <2>6, <2>8, <2>10 DEF Suited, Describable, m
  <2> QED
    BY <1>9, <2>7, <2>9 DEF probs, log
<1> QED
  BY <1>10, <1>11

\* The tables are made: all three suit.
Prepared(list) == \A kind \in Kinds : Suited(list, kind, ProbsOf(list, kind), LogOf(list, kind))

TablesFor(list) == [kind \in Kinds |-> EncodingTable(ProbsOf(list, kind), LogOf(list, kind))]

\* A state of each table, each of a symbol of the i-th sequence.
Stands(st, list, i) ==
    \A kind \in Kinds : Known(st[kind], CodeOf(list, i, kind) + 1, ProbsOf(list, kind), LogOf(list, kind))

LEMMA StartStands ==
    ASSUME NEW list, Prepared(list), NEW i \in 1..Len(list), NEW st,
           st = [kind \in Kinds |-> StartState(TablesFor(list)[kind], CodeOf(list, i, kind))]
    PROVE  Stands(st, list, i)
<1> SUFFICES ASSUME NEW kind \in Kinds
             PROVE  Known(st[kind], CodeOf(list, i, kind) + 1, ProbsOf(list, kind), LogOf(list, kind))
  BY DEF Stands
<1> DEFINE probs == ProbsOf(list, kind)
           log == LogOf(list, kind)
           s == CodeOf(list, i, kind) + 1
           all == EncodingTable(probs, log).states[s]
<1>1. Suited(list, kind, probs, log)
  BY DEF Prepared
<1>2. SoundProbs(probs, log) /\ s \in 1..Len(probs) /\ probs[s] # 0
  BY <1>1 DEF Suited, Describable
<1>3. st[kind] = StartState(EncodingTable(probs, log), CodeOf(list, i, kind))
  BY DEF TablesFor
<1>4. st[kind] = all[1]
  BY <1>3, Zenon DEF StartState
<1> HIDE DEF probs, log, s, all
<1>5. AllKnown(all, s, probs, log)
  BY <1>2, StatesAreKnown DEF all
<1>6. Known(all[1], s, probs, log)
  BY <1>5 DEF AllKnown
<1>7. Known(st[kind], s, probs, log)
  BY <1>4, <1>6
<1> QED
  BY <1>7 DEF probs, log, s

\* What the encoder writes so that the decoder gets from one state to the other.
Distance(from, to, kind) == from[kind].index - to[kind].baseline

Apiece(from, to) == \A kind \in Kinds : Distance(from, to, kind) \in 0..(Pow(to[kind].bits) - 1)

LEMMA NextStands ==
    ASSUME NEW list \in Inputs, Prepared(list), NEW i \in 1..Len(list), NEW j \in 1..Len(list),
           NEW from, Stands(from, list, j), NEW to,
           to = [kind \in Kinds |-> NextState(TablesFor(list)[kind], CodeOf(list, i, kind), from[kind].index)]
    PROVE  Stands(to, list, i) /\ Apiece(from, to)
<1> SUFFICES ASSUME NEW kind \in Kinds
             PROVE  /\ Known(to[kind], CodeOf(list, i, kind) + 1, ProbsOf(list, kind), LogOf(list, kind))
                    /\ Distance(from, to, kind) \in 0..(Pow(to[kind].bits) - 1)
  BY DEF Stands, Apiece
<1> DEFINE probs == ProbsOf(list, kind)
           log == LogOf(list, kind)
           c == CodeOf(list, i, kind)
           s == c + 1
           table == EncodingTable(probs, log)
           idx == from[kind].index
<1>1. Suited(list, kind, probs, log)
  BY DEF Prepared
<1>2. SoundProbs(probs, log) /\ s \in 1..Len(probs) /\ probs[s] # 0
  BY <1>1 DEF Suited, Describable
<1>3. to[kind] = NextState(table, c, idx)
  BY DEF TablesFor
<1>4. idx \in 0..(Pow(log) - 1)
  BY DEF Stands, Known
<1> HIDE DEF probs, log, idx, table
<1>6. AllKnown(table.states[s], s, probs, log) /\ Leads(table.states[s], log)
  BY <1>2, StatesAreKnown DEF table
<1>7. table.log = log
  BY <1>2, TableIs DEF table
<1>8. log \in 5..9 /\ s \in Int
  BY <1>2 DEF SoundProbs
<1>9. /\ Known(NextState(table, s - 1, idx), s, probs, log)
      /\ idx - NextState(table, s - 1, idx).baseline \in 0..(Pow(NextState(table, s - 1, idx).bits) - 1)
  <2> HIDE DEF s
  <2> QED
    BY <1>4, <1>6, <1>7, <1>8, StepIs
<1>10. s - 1 = c
  <2>1. c = CodesIn(list, kind)[i] /\ CodesIn(list, kind) \in Seq(0..LastCodes[kind]) /\ i \in 1..Len(CodesIn(list, kind))
    BY CodesInAre DEF CodeOf
  <2>2. c \in 0..LastCodes[kind]
    <3> DEFINE data == CodesIn(list, kind)
               set == 0..LastCodes[kind]
    <3>1. data \in Seq(set) /\ i \in 1..Len(data)
      BY <2>1
    <3> HIDE DEF data, set
    <3>2. data[i] \in set
      BY <3>1
    <3> QED
      BY <2>1, <3>2 DEF data, set
  <2>3. c \in Int
    BY <2>2
  <2> HIDE DEF c
  <2> QED
    BY <2>3
<1>11. Known(to[kind], s, probs, log) /\ idx - to[kind].baseline \in 0..(Pow(to[kind].bits) - 1)
  BY <1>3, <1>9, <1>10
<1> QED
  BY <1>11 DEF Distance, probs, log, idx

-----------------------------------------------------------------------------
(* Reading backwards                                                       *)

\* With "at" bits left the n next ones of a stream are v.
Backwards(str, at, n, v) == ReadReversed(str, at, n) = v

\* A stream is another one and a number behind it.
Pushed(new, base, n, v) ==
    /\ new \in Seq({0, 1}) /\ Len(new) = Len(base) + n /\ Len(base) \in Nat /\ Starts(new, base)
    /\ \A str \in Seq({0, 1}) : Starts(str, new) => Backwards(str, Len(new), n, v)

LEMMA PieceIsPushed ==
    ASSUME NEW base \in Seq({0, 1}), NEW n \in 0..30, NEW v \in Nat, v < Pow(n),
           NEW new, new = base \o Bits(v, n)
    PROVE  Pushed(new, base, n, v)
<1> DEFINE bits == Bits(v, n)
           at == Len(base)
<1>1. /\ bits \in Seq({0, 1}) /\ Len(bits) = n
      /\ \A i \in 1..n : bits[i] = (v \div Pow(i - 1)) % 2
  BY BitsAre
<1>2. at \in Nat /\ n \in Nat
  OBVIOUS
<1> HIDE DEF bits
<1>3. new \in Seq({0, 1}) /\ Row(new, base, at, bits, n)
  <2>1. new = base \o bits
    BY DEF bits
  <2> QED
    BY <1>1, <1>2, <2>1, InARow
<1>4. /\ Len(new) = at + n /\ \A i \in 1..at : new[i] = base[i]
      /\ \A i \in 1..n : new[at + i] = bits[i]
  BY <1>3, Zenon DEF Row
<1>5. Starts(new, base)
  BY <1>2, <1>4 DEF Starts
<1> DEFINE all == Len(new)
<1>6. ASSUME NEW str \in Seq({0, 1}), Starts(str, new) PROVE Backwards(str, all, n, v)
  <2> DEFINE some == [i \in 1..n |-> IF all - n + i >= 1 THEN str[all - n + i] ELSE 0]
  <2>1. ASSUME NEW i \in 1..n PROVE some[i] = bits[i] /\ bits[i] \in {0, 1}
    <3>1. all - n + i = at + i /\ at + i >= 1 /\ at + i \in 1..Len(new)
      BY <1>2, <1>4
    <3>2. some[i] = str[at + i]
      BY <3>1
    <3>3. str[at + i] = new[at + i]
      BY <1>6, <3>1 DEF Starts
    <3>4. new[at + i] = bits[i]
      BY <1>4
    <3>5. bits[i] \in {0, 1}
      BY <1>1
    <3> QED
      BY <3>2, <3>3, <3>4, <3>5
  <2>2. some \in [1..n -> {0, 1}]
    BY <2>1
  <2>3. ReadReversed(str, all, n) = Number(some)
    BY Zenon DEF ReadReversed
  <2> HIDE DEF some
  <2>4. some \in Seq({0, 1}) /\ Len(some) = n
    BY <1>2, <2>2, OfLength
  <2>5. \A i \in 1..n : some[i] = (v \div Pow(i - 1)) % 2
    BY <1>1, <2>1
  <2>6. Number(some) = v % Pow(n)
    <3>1. n <= 30
      OBVIOUS
    <3> QED
      BY <2>4, <2>5, <3>1, NumberIs
  <2>7. v % Pow(n) = v
    <3>1. n \in 0..31
      OBVIOUS
    <3>2. PICK p : p = Pow(n)
      OBVIOUS
    <3>3. p \in Nat /\ v < p
      BY <3>1, <3>2, Powers
    <3>4. p \in Nat \ {0} /\ 0 \in Nat /\ 0 * p + v = v
      BY <3>3
    <3>5. v % p = v
      BY <3>3, <3>4, QuotientIs
    <3> QED
      BY <3>2, <3>5
  <2> QED
    BY <2>3, <2>6, <2>7 DEF Backwards
<1> QED
  BY <1>2, <1>3, <1>4, <1>5, <1>6 DEF Pushed

\* Of three numbers the last is the first that is read.
Three(new, base, n1, v1, n2, v2, n3, v3) ==
    /\ new \in Seq({0, 1}) /\ Len(base) \in Nat /\ Len(new) = Len(base) + n3 + n2 + n1 /\ Starts(new, base)
    /\ \A str \in Seq({0, 1}) : Starts(str, new) => /\ Backwards(str, Len(new), n1, v1)
                                                    /\ Backwards(str, Len(new) - n1, n2, v2)
                                                    /\ Backwards(str, Len(new) - n1 - n2, n3, v3)

\* A number with its width.
Number30(n, v) == n \in 0..30 /\ v \in Nat /\ v < Pow(n)

LEMMA ThreeArePushed ==
    ASSUME NEW base \in Seq({0, 1}), NEW n1, NEW v1, NEW n2, NEW v2, NEW n3, NEW v3,
           Number30(n1, v1), Number30(n2, v2), Number30(n3, v3),
           NEW new, new = base \o Bits(v3, n3) \o Bits(v2, n2) \o Bits(v1, n1)
    PROVE  Three(new, base, n1, v1, n2, v2, n3, v3)
<1>1. PICK one : one = base \o Bits(v3, n3)
  OBVIOUS
<1>2. PICK two : two = one \o Bits(v2, n2)
  OBVIOUS
<1>3. new = two \o Bits(v1, n1)
  BY <1>1, <1>2
<1>4. Pushed(one, base, n3, v3)
  BY <1>1, PieceIsPushed DEF Number30
<1>5. one \in Seq({0, 1})
  BY <1>4 DEF Pushed
<1>6. Pushed(two, one, n2, v2)
  BY <1>2, <1>5, PieceIsPushed DEF Number30
<1>7. two \in Seq({0, 1})
  BY <1>6 DEF Pushed
<1>8. Pushed(new, two, n1, v1)
  BY <1>3, <1>7, PieceIsPushed DEF Number30
<1>9. /\ new \in Seq({0, 1}) /\ Len(base) \in Nat /\ Len(one) \in Nat /\ Len(two) \in Nat /\ Len(new) \in Nat
      /\ Len(one) = Len(base) + n3 /\ Len(two) = Len(one) + n2 /\ Len(new) = Len(two) + n1
      /\ Starts(one, base) /\ Starts(two, one) /\ Starts(new, two)
  BY <1>4, <1>6, <1>8 DEF Pushed
<1>10. n1 \in Nat /\ n2 \in Nat /\ n3 \in Nat
  BY DEF Number30
<1>11. Starts(new, one) /\ Starts(new, base)
  <2>1. Starts(new, one)
    BY <1>9, StartsOn, Zenon
  <2> QED
    BY <1>9, <2>1, StartsOn, Zenon
<1>12. Len(new) = Len(base) + n3 + n2 + n1 /\ Len(new) - n1 = Len(two) /\ Len(new) - n1 - n2 = Len(one)
  BY <1>9, <1>10
<1>13. ASSUME NEW str \in Seq({0, 1}), Starts(str, new)
       PROVE  /\ Backwards(str, Len(new), n1, v1) /\ Backwards(str, Len(two), n2, v2)
              /\ Backwards(str, Len(one), n3, v3)
  <2>1. Starts(str, two) /\ Starts(str, one)
    BY <1>9, <1>11, <1>13, StartsOn, Zenon
  <2> QED
    BY <1>4, <1>6, <1>8, <1>13, <2>1, Zenon DEF Pushed
<1> QED
  BY <1>9, <1>11, <1>12, <1>13, Zenon DEF Three

-----------------------------------------------------------------------------
\* The end of a stream is found behind its closing one.
LEMMA ClosedIs ==
    ASSUME NEW w \in Seq({0, 1}), NEW str, str = Closed(w)
    PROVE  str \in Seq({0, 1}) /\ Starts(str, w) /\ Opened(str) = Len(w)
<1> DEFINE n == IF Missing(w) = 0 THEN 8 ELSE Missing(w)
           bits == Bits(1, n)
           at == Len(w)
<1>1. at \in Nat /\ n \in 1..8
  <2>1. at \in Nat
    OBVIOUS
  <2>2. at % 8 \in 0..7
    BY <2>1
  <2> HIDE DEF at
  <2>3. PICK q : q = at % 8
    OBVIOUS
  <2>4. Missing(w) = (8 - q) % 8
    BY <2>3 DEF Missing, at
  <2> QED
    BY <2>1, <2>2, <2>3, <2>4
<1>2. str = w \o bits
  BY DEF Closed
<1> HIDE DEF n
<1>3. /\ bits \in Seq({0, 1}) /\ Len(bits) = n /\ \A i \in 1..n : bits[i] = (1 \div Pow(i - 1)) % 2
  <2>1. 1 \in Nat /\ n \in 0..30
    BY <1>1
  <2> QED
    BY <2>1, BitsAre
<1>4. bits[1] = 1 /\ \A i \in 2..n : bits[i] = 0
  <2>1. bits[1] = 1
    <3>1. Pow(1 - 1) = 1 /\ 1 \in 1..n
      BY <1>1, Powers
    <3> QED
      BY <1>3, <3>1
  <2>2. ASSUME NEW i \in 2..n PROVE bits[i] = 0
    <3>1. i - 2 \in 0..30 /\ i - 2 \in 0..31 /\ (i - 2) + 1 = i - 1 /\ i \in 1..n
      BY <1>1
    <3>2. Pow(i - 1) = 2 * Pow(i - 2) /\ Pow(i - 2) \in Nat /\ Pow(i - 2) >= 1
      BY <3>1, Powers
    <3>3. PICK p : p = Pow(i - 1)
      OBVIOUS
    <3>4. p \in Nat /\ p > 1
      BY <3>2, <3>3
    <3>5. 1 \div p = 0
      BY <3>4
    <3> QED
      BY <1>3, <3>1, <3>3, <3>5
  <2> QED
    BY <2>1, <2>2
<1> HIDE DEF bits
<1>5. str \in Seq({0, 1}) /\ Row(str, w, at, bits, n)
  BY <1>1, <1>2, <1>3, InARow
<1>6. /\ Len(str) = at + n /\ \A i \in 1..at : str[i] = w[i]
      /\ \A i \in 1..n : str[at + i] = bits[i]
  BY <1>5, Zenon DEF Row
<1>7. Starts(str, w)
  BY <1>1, <1>6 DEF Starts
<1> DEFINE ones == {skipped \in 1..8 : skipped <= Len(str) /\ str[Len(str) + 1 - skipped] = 1}
<1>8. n \in ones
  <2>1. Len(str) + 1 - n = at + 1 /\ n <= Len(str) /\ 1 \in 1..n
    BY <1>1, <1>6
  <2>2. str[at + 1] = 1
    BY <1>4, <1>6, <2>1
  <2> QED
    BY <1>1, <2>1, <2>2
<1>9. ASSUME NEW t \in ones PROVE n <= t
  <2> SUFFICES ASSUME t < n PROVE FALSE
    BY <1>1
  <2>1. t \in 1..8 /\ str[Len(str) + 1 - t] = 1
    OBVIOUS
  <2>2. PICK i : i = n + 1 - t
    OBVIOUS
  <2>3. i \in 2..n /\ i \in 1..n /\ Len(str) + 1 - t = at + i
    BY <1>1, <1>6, <2>1, <2>2
  <2>4. str[at + i] = 0
    BY <1>4, <1>6, <2>3
  <2> QED
    BY <2>1, <2>3, <2>4
<1>10. \A t \in ones : t \in Nat
  OBVIOUS
<1>11. Opened(str) = IF ones = {} THEN -1 ELSE Len(str) - (CHOOSE s \in ones : \A t \in ones : s <= t)
  BY Zenon DEF Opened
<1> HIDE DEF ones
<1>12. PICK c : c = CHOOSE s \in ones : \A t \in ones : s <= t
  OBVIOUS
<1>13. c \in ones /\ \A t \in ones : c <= t
  BY <1>8, <1>9, <1>12, Zenon
<1>14. c = n
  BY <1>1, <1>8, <1>9, <1>10, <1>13
<1>15. Opened(str) = Len(str) - n
  BY <1>8, <1>11, <1>12, <1>14
<1> QED
  BY <1>1, <1>5, <1>6, <1>7, <1>15

-----------------------------------------------------------------------------
(* What the encoder leaves behind                                          *)

\* Extra bits, and the bits of states that move on, as they will be read.
Extras(new, base, e) == Three(new, base, e[3].bits, e[3].add, e[2].bits, e[2].add, e[1].bits, e[1].add)

Moves(new, base, from, to) ==
    Three(new, base, to[1].bits, Distance(from, to, 1), to[2].bits, Distance(from, to, 2),
          to[3].bits, Distance(from, to, 3))

LEMMA InSteps ==
    ASSUME NEW a \in Seq({0, 1}), NEW b \in Seq({0, 1}), NEW c \in Seq({0, 1})
    PROVE  a \o (b \o c) = (a \o b) \o c
BY ConcatAssociative, SMTT(40)

LEMMA ExtrasAre ==
    ASSUME NEW s, Fitting(s), NEW base \in Seq({0, 1}), NEW new, new = base \o ExtraBits(s)
    PROVE  Extras(new, base, EncodedSequence(s))
<1>1. PICK e : e = EncodedSequence(s)
  OBVIOUS
<1> DEFINE x == Bits(e[1].add, e[1].bits)
           y == Bits(e[2].add, e[2].bits)
           z == Bits(e[3].add, e[3].bits)
<1>2. CodesOfSequence(e, s)
  BY <1>1, SequenceHasCodes
<1>3. Number30(e[1].bits, e[1].add) /\ Number30(e[2].bits, e[2].add) /\ Number30(e[3].bits, e[3].add)
  BY <1>2, SMTT(40) DEF CodesOfSequence, Codes, Number30
<1>4. ExtraBits(s) = x \o y \o z
  BY <1>1, Zenon DEF ExtraBits
<1>5. x \in Seq({0, 1}) /\ y \in Seq({0, 1}) /\ z \in Seq({0, 1})
  BY <1>3, BitsAre DEF Number30
<1>6. new = base \o x \o y \o z
  <2> HIDE DEF x, y, z
  <2>1. x \o y \in Seq({0, 1})
    BY <1>5
  <2>2. base \o (x \o y \o z) = (base \o (x \o y)) \o z
    BY <1>5, <2>1, InSteps, SMTT(40)
  <2>3. base \o (x \o y) = (base \o x) \o y
    BY <1>5, InSteps
  <2> QED
    BY <1>4, <2>2, <2>3
<1> QED
  BY <1>1, <1>3, <1>6, ThreeArePushed DEF Extras

\* The bits in which an encoder moves on.
MovingBits(from, to, kind) == Bits(Distance(from, to, kind), to[kind].bits)

LEMMA MovesAre ==
    ASSUME NEW list, NEW i, NEW to, Stands(to, list, i), NEW from, Apiece(from, to), NEW base \in Seq({0, 1}),
           NEW new, new = base \o MovingBits(from, to, 3) \o MovingBits(from, to, 2) \o MovingBits(from, to, 1)
    PROVE  Moves(new, base, from, to)
<1>1. ASSUME NEW kind \in Kinds PROVE Number30(to[kind].bits, Distance(from, to, kind))
  <2>1. to[kind].bits \in 0..9 /\ Distance(from, to, kind) \in 0..(Pow(to[kind].bits) - 1)
    BY DEF Stands, Known, Apiece
  <2> DEFINE n == to[kind].bits
             v == Distance(from, to, kind)
  <2>2. n \in 0..9 /\ v \in 0..(Pow(n) - 1)
    BY <2>1
  <2> HIDE DEF n, v
  <2>3. n \in 0..31 /\ n \in 0..30
    BY <2>2
  <2>4. Pow(n) \in Nat
    BY <2>3, Powers
  <2>5. Number30(n, v)
    BY <2>2, <2>3, <2>4 DEF Number30
  <2> QED
    BY <2>5 DEF n, v
<1>2. 1 \in Kinds /\ 2 \in Kinds /\ 3 \in Kinds
  BY DEF Kinds
<1> QED
  BY <1>1, <1>2, ThreeArePushed DEF Moves, MovingBits

\* From its k-th sequence on a list is written: g are the streams with the i-th
\* sequence, h those without its extra bits, st the states it was written with.
Trace(list, k, g, h, st) ==
    /\ h[Len(list)] = <<>>
    /\ \A i \in k..Len(list) : Stands(st[i], list, i) /\ Extras(g[i], h[i], EncodedSequence(list[i]))
    /\ \A i \in k..(Len(list) - 1) : Moves(h[i], g[i + 1], st[i + 1], st[i])

LEMMA TraceStarts ==
    ASSUME NEW list \in Inputs, Prepared(list), NEW n, n = Len(list), NEW from,
           from = [kind \in Kinds |-> StartState(TablesFor(list)[kind], CodeOf(list, n, kind))],
           NEW text, text = ExtraBits(list[n])
    PROVE  \E g, h, st : Trace(list, n, g, h, st) /\ g[n] = text /\ st[n] = from
<1>1. n \in Nat /\ n >= 1 /\ n \in 1..Len(list) /\ Fitting(list[n])
  BY InputsFit
<1>2. Stands(from, list, n)
  BY <1>1, StartStands
<1>3. Extras(text, <<>>, EncodedSequence(list[n]))
  <2>1. <<>> \in Seq({0, 1})
    OBVIOUS
  <2>2. <<>> \o ExtraBits(list[n]) = ExtraBits(list[n])
    <3>1. PICK s : s = list[n]
      OBVIOUS
    <3>2. PICK e : e = EncodedSequence(s)
      OBVIOUS
    <3> DEFINE x == Bits(e[1].add, e[1].bits)
               y == Bits(e[2].add, e[2].bits)
               z == Bits(e[3].add, e[3].bits)
    <3>3. CodesOfSequence(e, s)
      BY <1>1, <3>1, <3>2, SequenceHasCodes
    <3>4. Number30(e[1].bits, e[1].add) /\ Number30(e[2].bits, e[2].add) /\ Number30(e[3].bits, e[3].add)
      BY <3>3, SMTT(30) DEF CodesOfSequence, Codes, Number30
    <3>5. x \in Seq({0, 1}) /\ y \in Seq({0, 1}) /\ z \in Seq({0, 1})
      BY <3>4, BitsAre DEF Number30
    <3>6. ExtraBits(s) = x \o y \o z
      BY <3>2, Zenon DEF ExtraBits
    <3> HIDE DEF x, y, z
    <3>7. ExtraBits(s) \in Seq({0, 1})
      BY <3>5, <3>6
    <3> QED
      BY <3>1, <3>7
  <2> QED
    BY <1>1, <2>1, <2>2, ExtrasAre
<1> DEFINE g == [i \in 1..n |-> text]
           h == [i \in 1..n |-> <<>>]
           st == [i \in 1..n |-> from]
<1>4. n \in 1..n /\ n..Len(list) = {n} /\ n..(Len(list) - 1) = {}
  BY <1>1
<1>5. g[n] = text /\ h[n] = <<>> /\ st[n] = from
  BY <1>4
<1> HIDE DEF g, h, st
<1>6. Trace(list, n, g, h, st)
  BY <1>2, <1>3, <1>4, <1>5 DEF Trace
<1> QED
  BY <1>5, <1>6

\* One sequence more.
Successors(list, k, from) ==
    [kind \in Kinds |-> NextState(TablesFor(list)[kind], CodeOf(list, k, kind), from[kind].index)]

GrownBy(text, list, k, from, to) ==
    text \o MovingBits(from, to, 3) \o MovingBits(from, to, 2) \o MovingBits(from, to, 1) \o ExtraBits(list[k])

LEMMA TraceGoesOn ==
    ASSUME NEW list \in Inputs, Prepared(list), NEW k \in Nat, k >= 1, k < Len(list),
           NEW g, NEW h, NEW st, Trace(list, k + 1, g, h, st), NEW from, from = st[k + 1], NEW text, text = g[k + 1],
           NEW to, to = Successors(list, k, from), NEW new, new = GrownBy(text, list, k, from, to)
    PROVE  \E g2, h2, st2 : Trace(list, k, g2, h2, st2) /\ g2[k] = new /\ st2[k] = to
<1> DEFINE n == Len(list)
<1>1. /\ n \in Nat /\ k \in 1..n /\ k + 1 \in 1..n /\ k + 1 \in (k + 1)..n /\ Fitting(list[k])
  BY InputsFit
<1>2. Stands(from, list, k + 1) /\ Extras(text, h[k + 1], EncodedSequence(list[k + 1]))
  BY <1>1 DEF Trace
<1>3. Stands(to, list, k) /\ Apiece(from, to)
  BY <1>1, <1>2, NextStands DEF Successors
<1>4. text \in Seq({0, 1})
  BY <1>2 DEF Extras, Three
<1>5. PICK moved : moved = text \o MovingBits(from, to, 3) \o MovingBits(from, to, 2) \o MovingBits(from, to, 1)
  OBVIOUS
<1>6. Moves(moved, text, from, to)
  BY <1>3, <1>4, <1>5, MovesAre
<1>7. moved \in Seq({0, 1})
  BY <1>6 DEF Moves, Three
<1>8. new = moved \o ExtraBits(list[k])
  BY <1>5 DEF GrownBy
<1>9. Extras(new, moved, EncodedSequence(list[k]))
  BY <1>1, <1>7, <1>8, ExtrasAre
<1> DEFINE G == [i \in 1..n |-> IF i = k THEN new ELSE g[i]]
           H == [i \in 1..n |-> IF i = k THEN moved ELSE h[i]]
           ST == [i \in 1..n |-> IF i = k THEN to ELSE st[i]]
<1>10. /\ G[k] = new /\ H[k] = moved /\ ST[k] = to
       /\ \A i \in (k + 1)..n : G[i] = g[i] /\ H[i] = h[i] /\ ST[i] = st[i]
  <2>1. G[k] = new /\ H[k] = moved /\ ST[k] = to
    BY <1>1
  <2>2. ASSUME NEW i \in (k + 1)..n PROVE G[i] = g[i] /\ H[i] = h[i] /\ ST[i] = st[i]
    <3>1. i \in 1..n /\ i # k
      BY <1>1
    <3> QED
      BY <3>1
  <2> HIDE DEF G, H, ST
  <2> QED
    BY <2>1, <2>2
<1> HIDE DEF G, H, ST
<1>11. H[n] = <<>>
  <2>1. n \in (k + 1)..n
    BY <1>1
  <2> QED
    BY <1>10, <2>1 DEF Trace
<1>12. ASSUME NEW i \in k..n PROVE Stands(ST[i], list, i) /\ Extras(G[i], H[i], EncodedSequence(list[i]))
  <2>1. CASE i = k
    BY <1>3, <1>9, <1>10, <2>1
  <2>2. CASE i # k
    <3>1. i \in (k + 1)..n
      BY <1>1, <2>2
    <3> QED
      BY <1>10, <3>1 DEF Trace
  <2> QED
    BY <2>1, <2>2
<1>13. ASSUME NEW i \in k..(n - 1) PROVE Moves(H[i], G[i + 1], ST[i + 1], ST[i])
  <2>1. CASE i = k
    <3>1. G[k + 1] = text /\ ST[k + 1] = from
      BY <1>1, <1>10
    <3> QED
      BY <1>6, <1>10, <2>1, <3>1
  <2>2. CASE i # k
    <3>1. i \in (k + 1)..n /\ i + 1 \in (k + 1)..n /\ i \in (k + 1)..(n - 1)
      BY <1>1, <2>2
    <3>2. Moves(h[i], g[i + 1], st[i + 1], st[i])
      BY <3>1 DEF Trace
    <3>3. H[i] = h[i] /\ G[i + 1] = g[i + 1] /\ ST[i + 1] = st[i + 1] /\ ST[i] = st[i]
      BY <1>10, <3>1
    <3> QED
      BY <3>2, <3>3
  <2> QED
    BY <2>1, <2>2
<1>14. Trace(list, k, G, H, ST)
  BY <1>11, <1>12, <1>13, Zenon DEF Trace
<1>15. G[k] = new /\ ST[k] = to
  BY <1>10
<1> QED
  BY <1>14, <1>15, Zenon

-----------------------------------------------------------------------------
(* The header of a section                                                 *)

\* As many sequences as the two sides agree on.
Few(n) == n \in Nat /\ n >= 1 /\ n < 32512

LEMMA SeqNumIs ==
    ASSUME NEW n, Few(n)
    PROVE  /\ n < 128 => SeqNum(n) = Bits(n, 8)
           /\ n >= 128 => SeqNum(n) = Bits(n \div 256 + 128, 8) \o Bits(n % 256, 8)
BY SMTT(30) DEF SeqNum, Few

\* Of two and three bytes each is read where it is.
TwoBytes(base, a, b) ==
    /\ base \in Seq({0, 1}) /\ Len(base) = 16
    /\ \A str \in Seq({0, 1}) : Starts(str, base) => Read(str, 0, 8) = a /\ Read(str, 8, 8) = b

OneMore(more, base, at, c) ==
    /\ more \in Seq({0, 1}) /\ Len(more) = at + 8 /\ Starts(more, base)
    /\ \A str \in Seq({0, 1}) : Starts(str, more) => Read(str, at, 8) = c /\ Starts(str, base)

\* What starts with a row has its second part behind the first.
RowIsThere(more, base, at, x, w) ==
    /\ Len(more) = at + w /\ Starts(more, base)
    /\ \A str \in Seq({0, 1}) :
           Starts(str, more) => at + w <= Len(str) /\ \A i \in 1..w : str[at + i] = x[i]

LEMMA RowStarts ==
    ASSUME NEW base \in Seq({0, 1}), NEW at \in Nat, Len(base) = at, NEW w \in Nat, NEW x,
           NEW more \in Seq({0, 1}), Row(more, base, at, x, w)
    PROVE  RowIsThere(more, base, at, x, w)
<1>1. Len(more) = at + w /\ (\A i \in 1..at : more[i] = base[i]) /\ \A i \in 1..w : more[at + i] = x[i]
  BY Zenon DEF Row
<1>2. Starts(more, base)
  BY <1>1 DEF Starts
<1>3. ASSUME NEW str \in Seq({0, 1}), Starts(str, more), NEW i \in 1..w PROVE str[at + i] = x[i]
  <2>1. at + i \in 1..Len(more)
    BY <1>1
  <2>2. str[at + i] = more[at + i]
    BY <1>3, <2>1, Zenon DEF Starts
  <2> QED
    BY <1>1, <2>2
<1>4. ASSUME NEW str \in Seq({0, 1}), Starts(str, more) PROVE at + w <= Len(str)
  BY <1>1, <1>4 DEF Starts
<1> QED
  BY <1>1, <1>2, <1>3, <1>4, Zenon DEF RowIsThere

LEMMA ByteBehind ==
    ASSUME NEW base \in Seq({0, 1}), NEW at \in Nat, Len(base) = at, NEW c \in Nat, c < 256,
           NEW more, more = base \o Bits(c, 8)
    PROVE  OneMore(more, base, at, c)
<1>0. Pow(8) = 256 /\ 8 \in 0..30 /\ 8 \in Nat
  BY FewPowers
<1>1. PICK w : w = 8 /\ w \in 0..30 /\ w \in Nat /\ c < Pow(w)
  BY <1>0
<1> DEFINE x == Bits(c, w)
<1>2. x \in Seq({0, 1}) /\ Len(x) = w /\ more = base \o x
  BY <1>1, BitsAre
<1> HIDE DEF x
<1>3. more \in Seq({0, 1}) /\ Row(more, base, at, x, w)
  BY <1>1, <1>2, InARow, Zenon
<1>4. RowIsThere(more, base, at, x, w)
  BY <1>1, <1>3, RowStarts, Zenon
<1>5. Len(more) = at + 8 /\ Starts(more, base)
  BY <1>1, <1>4, Zenon DEF RowIsThere
<1>6. ASSUME NEW str \in Seq({0, 1}), Starts(str, more) PROVE Read(str, at, 8) = c /\ Starts(str, base)
  <2>1. at + w <= Len(str) /\ \A i \in 1..w : str[at + i] = x[i]
    BY <1>4, <1>6, Zenon DEF RowIsThere
  <2>2. Read(str, at, w) = c
    BY <1>1, <2>1, PieceIsRead, Zenon DEF x
  <2>3. Len(more) \in Nat /\ Len(base) \in Nat
    BY <1>3
  <2>4. Starts(str, base)
    BY <1>5, <1>6, <2>3, StartsOn, Zenon
  <2> QED
    BY <1>1, <2>2, <2>4
<1> QED
  BY <1>3, <1>4, <1>5, <1>6 DEF OneMore

LEMMA TwoBytesAreRead ==
    ASSUME NEW a \in Nat, a < 256, NEW b \in Nat, b < 256, NEW base, base = Bits(a, 8) \o Bits(b, 8)
    PROVE  TwoBytes(base, a, b)
<1>0. Pow(8) = 256 /\ 8 \in 0..30 /\ 8 \in Nat
  BY FewPowers
<1>1. PICK w : w = 8 /\ w \in 0..30 /\ w \in Nat /\ a < Pow(w)
  BY <1>0
<1> DEFINE x == Bits(a, w)
<1>2. x \in Seq({0, 1}) /\ Len(x) = w /\ base = x \o Bits(b, 8)
  BY <1>1, BitsAre
<1> HIDE DEF x
<1>3. OneMore(base, x, w, b)
  BY <1>1, <1>2, ByteBehind, Zenon
<1>4. base \in Seq({0, 1}) /\ Len(base) = 16
  BY <1>1, <1>3 DEF OneMore
<1>5. ASSUME NEW str \in Seq({0, 1}), Starts(str, base)
      PROVE  Read(str, 0, 8) = a /\ Read(str, 8, 8) = b
  <2>1. Read(str, 8, 8) = b /\ Starts(str, x)
    BY <1>1, <1>3, <1>5, Zenon DEF OneMore
  <2>2. 0 + w <= Len(str) /\ \A i \in 1..w : str[0 + i] = x[i]
    BY <1>1, <1>2, <2>1 DEF Starts
  <2>3. 0 \in Nat
    OBVIOUS
  <2>4. Read(str, 0, w) = a
    BY <1>1, <2>2, <2>3, PieceIsRead, Zenon DEF x
  <2> QED
    BY <1>1, <2>1, <2>4
<1> QED
  BY <1>4, <1>5 DEF TwoBytes

\* What is in front of the tables: the number of sequences in "at" bytes, and
\* the modes.
Leads16(str, n, at) ==
    /\ at \in {1, 2} /\ Read(str, 8 * at, 8) = 168
    /\ at = 1 => n < 128 /\ Read(str, 0, 8) = n
    /\ at = 2 => n >= 128 /\ Read(str, 0, 8) = n \div 256 + 128 /\ Read(str, 8, 8) = n % 256

LEMMA FrontOfSection ==
    ASSUME NEW n, Few(n), NEW base, base = SeqNum(n) \o Bits(Modes, 8)
    PROVE  /\ base \in Seq({0, 1})
           /\ \E at \in {1, 2} : /\ Len(base) = 8 * (at + 1)
                                 /\ \A str \in Seq({0, 1}) : Starts(str, base) => Leads16(str, n, at)
<1>1. Modes = 168
  BY DEF Modes
<1>2. PICK m : m = 168
  OBVIOUS
<1>3. m \in Nat /\ m < 256 /\ n \in Nat
  BY <1>2 DEF Few
<1>4. CASE n < 128
  <2>1. base = Bits(n, 8) \o Bits(m, 8)
    <3>1. SeqNum(n) = Bits(n, 8)
      BY <1>4, SeqNumIs
    <3> QED
      BY <1>1, <1>2, <3>1
  <2>2. n < 256
    BY <1>3, <1>4
  <2>3. TwoBytes(base, n, m)
    BY <1>3, <2>1, <2>2, TwoBytesAreRead, Zenon
  <2>4. ASSUME NEW str \in Seq({0, 1}), Starts(str, base) PROVE Leads16(str, n, 1)
    <3>1. Read(str, 0, 8) = n /\ Read(str, 8, 8) = m
      BY <2>3, <2>4 DEF TwoBytes
    <3> QED
      BY <1>2, <1>4, <3>1 DEF Leads16
  <2>5. Len(base) = 8 * (1 + 1)
    BY <2>3 DEF TwoBytes
  <2> QED
    BY <2>3, <2>4, <2>5 DEF TwoBytes
<1>5. CASE n >= 128
  <2> DEFINE num == SeqNum(n)
             hi == n \div 256 + 128
             lo == n % 256
  <2>1. num = Bits(hi, 8) \o Bits(lo, 8)
    BY <1>5, SeqNumIs
  <2>2. hi \in Nat /\ hi < 256 /\ lo \in Nat /\ lo < 256
    BY DEF Few
  <2>3. base = num \o Bits(m, 8)
    BY <1>1, <1>2
  <2> HIDE DEF num, hi, lo
  <2>4. TwoBytes(num, hi, lo)
    BY <2>1, <2>2, TwoBytesAreRead, Zenon
  <2>5. PICK at : at = 16
    OBVIOUS
  <2>9. num \in Seq({0, 1}) /\ Len(num) = at /\ at \in Nat
    BY <2>4, <2>5 DEF TwoBytes
  <2>6. OneMore(base, num, at, m)
    BY <1>3, <2>3, <2>9, ByteBehind, Zenon
  <2>7. ASSUME NEW str \in Seq({0, 1}), Starts(str, base) PROVE Leads16(str, n, 2)
    <3>1. Read(str, 16, 8) = m /\ Read(str, 0, 8) = hi /\ Read(str, 8, 8) = lo
      BY <2>4, <2>5, <2>6, <2>7 DEF TwoBytes, OneMore
    <3> QED
      BY <1>2, <1>5, <3>1 DEF Leads16, hi, lo
  <2>8. Len(base) = 8 * (2 + 1)
    BY <2>5, <2>6 DEF OneMore
  <2> QED
    BY <2>6, <2>7, <2>8 DEF OneMore
<1> QED
  BY <1>3, <1>4, <1>5

-----------------------------------------------------------------------------
(* The header is read                                                      *)

HeaderFor(list) ==
    WriteTable(TablesFor(list)[2], WriteTable(TablesFor(list)[3], WriteTable(TablesFor(list)[1],
        SeqNum(Len(list)) \o Bits(Modes, 8))))

LEMMA UpperByte ==
    ASSUME NEW n, Few(n)
    PROVE  n \div 256 \in 0..126 /\ (n \div 256) * 256 + (n % 256) = n
BY DEF Few

\* parse_from_header gets what is in front of the tables.
LEMMA FrontIsParsed ==
    ASSUME NEW n, Few(n), NEW at, Leads16(header, n, at)
    PROVE  ParsedNum = [num |-> n, at |-> at] /\ ParsedModes = <<2, 2, 2>>
<1>1. n \in Nat /\ n >= 1
  BY DEF Few
<1>2. ParsedNum = [num |-> n, at |-> at]
  <2>1. CASE at = 1
    <3>1. Byte(0) = n /\ n \in 1..127
      <4>1. 8 * 0 = 0
        OBVIOUS
      <4> QED
        BY <1>1, <2>1, <4>1 DEF Leads16, Byte
    <3>2. ParsedNum = [num |-> Byte(0), at |-> 1]
      BY <3>1, SMTT(30) DEF ParsedNum
    <3> QED
      BY <2>1, <3>1, <3>2
  <2>2. CASE at = 2
    <3>1. 8 * 0 = 0 /\ 8 * 1 = 8
      OBVIOUS
    <3>2. Byte(0) = n \div 256 + 128 /\ Byte(1) = n % 256
      BY <2>2, <3>1 DEF Leads16, Byte
    <3>3. PICK hi : hi = n \div 256
      OBVIOUS
    <3>4. PICK lo : lo = n % 256
      OBVIOUS
    <3>5. hi \in 0..126 /\ hi * 256 + lo = n /\ Byte(0) = hi + 128 /\ Byte(1) = lo
      BY <3>2, <3>3, <3>4, UpperByte
    <3>6. Byte(0) \in 128..254 /\ Byte(0) \notin 1..127 /\ Byte(0) - 128 = hi
      BY <3>5
    <3>7. ParsedNum = [num |-> (Byte(0) - 128) * 256 + Byte(1), at |-> 2]
      BY <3>6 DEF ParsedNum
    <3> QED
      BY <2>2, <3>5, <3>6, <3>7
  <2> QED
    BY <2>1, <2>2 DEF Leads16
<1>3. ParsedModes = <<2, 2, 2>>
  <2>1. Byte(ParsedNum.at) = 168
    BY <1>2 DEF Leads16, Byte
  <2> QED
    BY <2>1 DEF ParsedModes
<1> QED
  BY <1>2, <1>3

\* Three descriptions, of literal lengths, offsets and match lengths.
Descriptions(list, start) ==
    \E a, b, c : /\ Found(ReadProbabilities(header, start, 9, MaxCodes[1]), LogOf(list, 1), ProbsOf(list, 1), a)
                 /\ Found(ReadProbabilities(header, a, 8, MaxCodes[3]), LogOf(list, 3), ProbsOf(list, 3), b)
                 /\ Found(ReadProbabilities(header, b, 9, MaxCodes[2]), LogOf(list, 2), ProbsOf(list, 2), c)

\* A table that is made for a list, behind something else.
LEMMA DescriptionOf ==
    ASSUME NEW list, Prepared(list), NEW kind \in Kinds, NEW base \in Seq({0, 1}),
           NEW text, text = WriteTable(TablesFor(list)[kind], base)
    PROVE  /\ text \in Seq({0, 1}) /\ Starts(text, base)
           /\ \A str \in Seq({0, 1}) : Starts(str, text) =>
                 Found(ReadProbabilities(str, Len(base), MaxLogs[kind], MaxCodes[kind]), LogOf(list, kind), ProbsOf(list, kind), Len(text))
<1>1. Suited(list, kind, ProbsOf(list, kind), LogOf(list, kind))
  BY DEF Prepared
<1>2. PICK probs : probs = ProbsOf(list, kind)
  OBVIOUS
<1>3. PICK log : log = LogOf(list, kind)
  OBVIOUS
<1>4. PICK maxLog : maxLog = MaxLogs[kind]
  OBVIOUS
<1> DEFINE most == MaxCodes[kind]
<1>5. Describable(probs, log) /\ log <= maxLog /\ Len(probs) <= most + 1 /\ probs[Len(probs)] > 0
  BY <1>1, <1>2, <1>3, <1>4 DEF Suited
<1>6. maxLog \in Nat /\ most \in Nat
  BY <1>4 DEF MaxLogs, MaxCodes, Kinds
<1> HIDE DEF most
<1>7. PICK table : table = EncodingTable(probs, log)
  OBVIOUS
<1>8. text = WriteTable(table, base)
  BY <1>2, <1>3, <1>7 DEF TablesFor
<1>9. table.probs = probs /\ table.log = log
  <2>1. SoundProbs(probs, log)
    BY <1>5 DEF Describable
  <2> QED
    BY <1>7, <2>1, TableIs
<1>10. text \in Seq({0, 1}) /\ Starts(text, base)
  BY <1>5, <1>8, <1>9, TableIsWritten
<1>11. ASSUME NEW str \in Seq({0, 1}), Starts(str, text)
       PROVE  Found(ReadProbabilities(str, Len(base), maxLog, most), log, probs, Len(text))
  <2>1. PICK at : at = Len(base)
    OBVIOUS
  <2>2. probs[Len(probs)] > 0 \/ Len(str) > Len(text)
    BY <1>5
  <2>3. Found(ReadProbabilities(str, at, maxLog, most), log, probs, Len(text))
    BY <1>5, <1>6, <1>8, <1>9, <1>11, <2>1, <2>2, TableIsRead, Zenon
  <2> QED
    BY <2>1, <2>3
<1> QED
  BY <1>2, <1>3, <1>4, <1>10, <1>11 DEF most

LEMMA HeaderIsRead ==
    ASSUME NEW list \in Inputs, Prepared(list), header = HeaderFor(list)
    PROVE  /\ ParsedNum.num = Len(list) /\ ParsedModes = <<2, 2, 2>>
           /\ Descriptions(list, 8 * (ParsedNum.at + 1))
<1>1. PICK n : n = Len(list)
  OBVIOUS
<1>2. Few(n)
  BY <1>1, InputsFit DEF Few
<1>3. PICK base : base = SeqNum(n) \o Bits(Modes, 8)
  OBVIOUS
<1>4. PICK at \in {1, 2} :
         /\ base \in Seq({0, 1}) /\ Len(base) = 8 * (at + 1)
         /\ \A str \in Seq({0, 1}) : Starts(str, base) => Leads16(str, n, at)
  BY <1>2, <1>3, FrontOfSection
<1>5. PICK one : one = WriteTable(TablesFor(list)[1], base)
  OBVIOUS
<1>6. PICK two : two = WriteTable(TablesFor(list)[3], one)
  OBVIOUS
<1>7. header = WriteTable(TablesFor(list)[2], two)
  BY <1>1, <1>3, <1>5, <1>6 DEF HeaderFor
<1>8. 1 \in Kinds /\ 2 \in Kinds /\ 3 \in Kinds /\ MaxLogs[1] = 9 /\ MaxLogs[2] = 9 /\ MaxLogs[3] = 8
  BY DEF Kinds, MaxLogs
<1>9. /\ one \in Seq({0, 1}) /\ Starts(one, base)
      /\ \A str \in Seq({0, 1}) : Starts(str, one) =>
            Found(ReadProbabilities(str, Len(base), 9, MaxCodes[1]), LogOf(list, 1), ProbsOf(list, 1), Len(one))
  BY <1>4, <1>5, <1>8, DescriptionOf
<1>10. /\ two \in Seq({0, 1}) /\ Starts(two, one)
       /\ \A str \in Seq({0, 1}) : Starts(str, two) =>
             Found(ReadProbabilities(str, Len(one), 8, MaxCodes[3]), LogOf(list, 3), ProbsOf(list, 3), Len(two))
  BY <1>6, <1>8, <1>9, DescriptionOf
<1>11. /\ header \in Seq({0, 1}) /\ Starts(header, two)
       /\ \A str \in Seq({0, 1}) : Starts(str, header) =>
             Found(ReadProbabilities(str, Len(two), 9, MaxCodes[2]), LogOf(list, 2), ProbsOf(list, 2), Len(header))
  BY <1>7, <1>8, <1>10, DescriptionOf
<1>12. Len(header) \in Nat /\ Len(two) \in Nat /\ Len(one) \in Nat /\ Len(base) \in Nat
  BY <1>4, <1>9, <1>10, <1>11
<1>13. Starts(header, one) /\ Starts(header, base) /\ Starts(header, header)
  <2>1. Starts(header, one)
    BY <1>10, <1>11, <1>12, StartsOn, Zenon
  <2>2. Starts(header, base)
    BY <1>9, <1>12, <2>1, StartsOn, Zenon
  <2>3. Starts(header, header)
    BY <1>12 DEF Starts
  <2> QED
    BY <2>1, <2>2, <2>3
<1>14. ParsedNum = [num |-> n, at |-> at] /\ ParsedModes = <<2, 2, 2>>
  <2>1. Leads16(header, n, at)
    BY <1>4, <1>11, <1>13
  <2> QED
    BY <1>2, <2>1, FrontIsParsed
<1>15. ParsedNum.num = Len(list) /\ 8 * (ParsedNum.at + 1) = Len(base)
  BY <1>1, <1>4, <1>14
<1>16. Descriptions(list, Len(base))
  BY <1>9, <1>10, <1>11, <1>13, Zenon DEF Descriptions
<1> QED
  BY <1>14, <1>15, <1>16

-----------------------------------------------------------------------------
(* The stream is read                                                      *)

\* What the decoder has: the tables made for a list.
Decoders(t, list) ==
    \A kind \in Kinds : /\ t[kind].log = LogOf(list, kind)
                        /\ t[kind].decode = DecodingTable(ProbsOf(list, kind), LogOf(list, kind))

\* States of the decoder are those of the encoder.
Follows(ds, list, from, i) ==
    \A kind \in Kinds : /\ ds[kind].symbol = CodeOf(list, i, kind)
                        /\ ds[kind].base = from[kind].baseline /\ ds[kind].bits = from[kind].bits

\* A whole stream.
Transmitted(list, str, g, h, st, w) ==
    /\ Trace(list, 1, g, h, st)
    /\ Three(w, g[1], LogOf(list, 1), st[1][1].index, LogOf(list, 3), st[1][3].index,
             LogOf(list, 2), st[1][2].index)
    /\ str \in Seq({0, 1}) /\ Starts(str, w) /\ Opened(str) = Len(w)

\* Codes and their bits are numbers.
LEMMA CodesAre ==
    ASSUME NEW e, NEW number, NEW look, NEW last \in Nat, Codes(e, number, look, last)
    PROVE  /\ e.code \in Int /\ look[1] \in Nat /\ look[1] + e.add = number /\ look[2] = e.bits
           /\ e.bits \in Nat /\ e.add \in Nat
<1>1. e.code \in 0..last /\ e.bits \in 0..29
  BY DEF Codes
<1>2. e.code \in Int /\ e.bits \in Nat
  BY <1>1
<1> QED
  BY <1>2 DEF Codes

LEMMA CodeIsNumber ==
    ASSUME NEW list \in Inputs, NEW i \in 1..Len(list), NEW kind \in Kinds
    PROVE  CodeOf(list, i, kind) \in Int
<1>1. PICK e : e = EncodedSequence(list[i])
  OBVIOUS
<1>2. CodesOfSequence(e, list[i])
  BY <1>1, InputsFit, SequenceHasCodes
<1>3. 35 \in Nat /\ 51 \in Nat /\ 29 \in Nat
  OBVIOUS
<1>4. e[1].code \in Int /\ e[2].code \in Int /\ e[3].code \in Int
  BY <1>2, <1>3, CodesAre, Zenon DEF CodesOfSequence
<1>5. kind \in {1, 2, 3}
  BY DEF Kinds
<1> QED
  BY <1>1, <1>4, <1>5 DEF CodeOf

\* Numbers of a state.
LEMMA KnownIs ==
    ASSUME NEW x, NEW s, NEW probs, NEW log, Known(x, s, probs, log)
    PROVE  x.bits \in Nat /\ x.baseline \in Nat /\ x.index \in Int
<1>1. x.bits \in 0..9 /\ x.baseline \in Nat /\ x.index \in 0..(Pow(log) - 1)
  BY DEF Known
<1> QED
  BY <1>1

LEMMA StateIsFollowed ==
    ASSUME NEW list \in Inputs, NEW from, NEW i \in 1..Len(list), Stands(from, list, i), NEW t, Decoders(t, list), NEW ds,
           \A kind \in Kinds : ds[kind] = t[kind].decode[from[kind].index]
    PROVE  Follows(ds, list, from, i)
<1> SUFFICES ASSUME NEW kind \in Kinds
             PROVE  /\ ds[kind].symbol = CodeOf(list, i, kind)
                    /\ ds[kind].base = from[kind].baseline /\ ds[kind].bits = from[kind].bits
  BY DEF Follows
<1>1. PICK c : c = CodeOf(list, i, kind)
  OBVIOUS
<1>2. ds[kind] = [symbol |-> (c + 1) - 1, base |-> from[kind].baseline, bits |-> from[kind].bits]
  <2>1. Known(from[kind], c + 1, ProbsOf(list, kind), LogOf(list, kind))
    BY <1>1 DEF Stands
  <2>2. t[kind].decode = DecodingTable(ProbsOf(list, kind), LogOf(list, kind))
    BY DEF Decoders
  <2>3. ds[kind] = t[kind].decode[from[kind].index]
    OBVIOUS
  <2> QED
    BY <2>1, <2>2, <2>3, Zenon DEF Known
<1>3. ds[kind].symbol = (c + 1) - 1 /\ ds[kind].base = from[kind].baseline /\ ds[kind].bits = from[kind].bits
  BY <1>2
<1>4. c \in Int
  BY <1>1, CodeIsNumber, SMTT(40)
<1> QED
  BY <1>1, <1>3, <1>4

LEMMA StreamIsTransmitted ==
    ASSUME NEW list, Prepared(list), Len(list) \in Nat, Len(list) >= 1, NEW g, NEW h, NEW st, Trace(list, 1, g, h, st),
           NEW text, text = g[1], NEW from, from = st[1], NEW t, t = TablesFor(list),
           NEW w, w = text \o Bits(from[2].index, t[2].log) \o Bits(from[3].index, t[3].log)
                           \o Bits(from[1].index, t[1].log),
           NEW str, str = Closed(w)
    PROVE  Transmitted(list, str, g, h, st, w)
<1>1. 1 \in 1..Len(list)
  BY SMTT(30)
<1>2. Stands(from, list, 1) /\ Extras(text, h[1], EncodedSequence(list[1]))
  BY <1>1, SMTT(30) DEF Trace
<1>3. text \in Seq({0, 1})
  BY <1>2, SMTT(30) DEF Extras, Three
<1>4. ASSUME NEW kind \in Kinds
      PROVE  t[kind].log = LogOf(list, kind) /\ Number30(LogOf(list, kind), from[kind].index)
  <2>1. Describable(ProbsOf(list, kind), LogOf(list, kind))
    BY DEF Prepared, Suited
  <2>2. PICK log : log = LogOf(list, kind)
    BY SMTT(30)
  <2>3. log \in 5..9 /\ SoundProbs(ProbsOf(list, kind), log)
    BY <2>1, <2>2, SMTT(30) DEF Describable, SoundProbs
  <2>4. t[kind].log = log
    BY <2>2, <2>3, TableIs, SMTT(30) DEF TablesFor
  <2>5. from[kind].index \in 0..(Pow(log) - 1)
    BY <1>2, <2>2 DEF Stands, Known
  <2>6. Pow(log) \in Nat /\ log \in 0..30
    <3>1. log \in 0..31 /\ log \in 0..30
      BY <2>3
    <3> QED
      BY <3>1, Powers
  <2>7. Number30(log, from[kind].index)
    BY <2>5, <2>6, SMTT(30) DEF Number30
  <2> QED
    BY <2>2, <2>4, <2>7, SMTT(30)
<1>5. 1 \in Kinds /\ 2 \in Kinds /\ 3 \in Kinds
  BY DEF Kinds
<1>6. Three(w, text, LogOf(list, 1), from[1].index, LogOf(list, 3), from[3].index, LogOf(list, 2), from[2].index)
  <2>1. w = text \o Bits(from[2].index, LogOf(list, 2)) \o Bits(from[3].index, LogOf(list, 3))
                 \o Bits(from[1].index, LogOf(list, 1))
    BY <1>4, <1>5, ZenonT(60)
  <2>2. /\ Number30(LogOf(list, 1), from[1].index) /\ Number30(LogOf(list, 2), from[2].index)
        /\ Number30(LogOf(list, 3), from[3].index)
    BY <1>4, <1>5, SMTT(40)
  <2> QED
    BY <1>3, <2>1, <2>2, ThreeArePushed, ZenonT(60)
<1>7. w \in Seq({0, 1})
  BY <1>6, SMTT(30) DEF Three
<1>8. str \in Seq({0, 1}) /\ Starts(str, w) /\ Opened(str) = Len(w)
  BY <1>7, ClosedIs
<1> QED
  BY <1>6, <1>8 DEF Transmitted

\* A stream starts with all that was written on the way to it.
LEMMA StreamsNest ==
    ASSUME NEW list, NEW n \in Nat, n = Len(list), n >= 1, NEW str, NEW g, NEW h, NEW st, NEW w,
           Transmitted(list, str, g, h, st, w)
    PROVE  \A k \in 1..n : Starts(str, g[k]) /\ Starts(str, h[k]) /\ Len(g[k]) \in Nat /\ Len(h[k]) \in Nat
<1> DEFINE Fine(k) == Starts(str, g[k]) /\ Starts(str, h[k]) /\ Len(g[k]) \in Nat /\ Len(h[k]) \in Nat
<1>1. ASSUME NEW k \in 1..n, Starts(str, g[k]) PROVE Fine(k)
  <2>1. Extras(g[k], h[k], EncodedSequence(list[k]))
    BY DEF Transmitted, Trace
  <2>2. Starts(g[k], h[k]) /\ Len(h[k]) \in Nat /\ Len(g[k]) \in Nat
    BY <2>1 DEF Extras, Three
  <2>3. Starts(str, h[k])
    BY <1>1, <2>2, StartsOn, Zenon
  <2> QED
    BY <1>1, <2>2, <2>3
<1>2. Fine(1)
  <2>1. 1 \in 1..n
    OBVIOUS
  <2>2. Starts(str, w) /\ Starts(w, g[1]) /\ Len(g[1]) \in Nat /\ Len(w) \in Nat
    BY DEF Transmitted, Three
  <2>3. Starts(str, g[1])
    BY <2>2, StartsOn, Zenon
  <2> QED
    BY <1>1, <2>1, <2>3
<1>3. ASSUME NEW k \in 1..n, k + 1 \in 1..n, Fine(k) PROVE Fine(k + 1)
  <2>1. k \in 1..(n - 1)
    BY <1>3
  <2>2. Moves(h[k], g[k + 1], st[k + 1], st[k])
    BY <2>1 DEF Transmitted, Trace
  <2>3. Starts(h[k], g[k + 1]) /\ Len(g[k + 1]) \in Nat
    BY <2>2 DEF Moves, Three
  <2>4. Starts(str, g[k + 1])
    BY <1>3, <2>3, StartsOn, Zenon
  <2> QED
    BY <1>1, <1>3, <2>4
<1> DEFINE S == {k \in Nat : k \in 1..n => Fine(k)}
<1> HIDE DEF Fine
<1>4. 0 \in S
  OBVIOUS
<1>5. ASSUME NEW k \in S PROVE k + 1 \in S
  <2>1. k \in Nat /\ (k \in 1..n => Fine(k))
    OBVIOUS
  <2>2. CASE k = 0
    BY <1>2, <2>2
  <2>3. CASE k # 0
    <3>1. k + 1 \in 1..n => k \in 1..n
      BY <2>1, <2>3
    <3> QED
      BY <1>3, <2>1, <3>1
  <2> QED
    BY <2>2, <2>3
<1>6. S \in SUBSET Nat
  OBVIOUS
<1>7. ASSUME NEW k \in 1..n PROVE Fine(k)
  <2>1. \A b \in Nat : b \in S
    <3> HIDE DEF S
    <3> QED
      BY <1>4, <1>5, <1>6, InductionOnSets, Zenon
  <2> QED
    BY <2>1
<1> QED
  BY <1>7 DEF Fine

\* The states the decoder starts with are those the encoder ended with.
LEMMA DecodingStarts ==
    ASSUME NEW list \in Inputs, NEW n \in Nat, n = Len(list), n >= 1, NEW str, NEW g, NEW h, NEW st, NEW w,
           Transmitted(list, str, g, h, st, w), NEW t, Decoders(t, list),
           NEW left, left = Opened(str), NEW of, of = left - t[1].log, NEW ml, ml = of - t[3].log,
           NEW ds, ds = <<t[1].decode[ReadReversed(str, left, t[1].log)],
                          t[2].decode[ReadReversed(str, ml, t[2].log)],
                          t[3].decode[ReadReversed(str, of, t[3].log)]>>,
           LogOf(list, 1) \in Nat, LogOf(list, 2) \in Nat, LogOf(list, 3) \in Nat
    PROVE  /\ left \in Nat /\ Follows(ds, list, st[1], 1)
           /\ ml - t[2].log = Len(g[1]) /\ Len(g[1]) \in Nat
<1>1. 1 \in Kinds /\ 2 \in Kinds /\ 3 \in Kinds /\ \A kind \in Kinds : kind \in {1, 2, 3}
  BY DEF Kinds
<1>2. t[1].log = LogOf(list, 1) /\ t[2].log = LogOf(list, 2) /\ t[3].log = LogOf(list, 3)
  BY <1>1 DEF Decoders
<1>3. /\ left = Len(w) /\ Len(g[1]) \in Nat /\ Len(w) = Len(g[1]) + LogOf(list, 2) + LogOf(list, 3) + LogOf(list, 1)
      /\ str \in Seq({0, 1}) /\ Starts(str, w)
      /\ Backwards(str, Len(w), LogOf(list, 1), st[1][1].index)
      /\ Backwards(str, Len(w) - LogOf(list, 1), LogOf(list, 3), st[1][3].index)
      /\ Backwards(str, Len(w) - LogOf(list, 1) - LogOf(list, 3), LogOf(list, 2), st[1][2].index)
  BY DEF Transmitted, Three
<1>4. /\ ReadReversed(str, left, t[1].log) = st[1][1].index /\ ReadReversed(str, of, t[3].log) = st[1][3].index
      /\ ReadReversed(str, ml, t[2].log) = st[1][2].index
  BY <1>2, <1>3 DEF Backwards
<1>5. ds[1] = t[1].decode[st[1][1].index] /\ ds[2] = t[2].decode[st[1][2].index] /\ ds[3] = t[3].decode[st[1][3].index]
  BY <1>4
<1>6. \A kind \in Kinds : ds[kind] = t[kind].decode[st[1][kind].index]
  BY <1>1, <1>5
<1>7. Stands(st[1], list, 1)
  <2>1. 1 \in 1..Len(list)
    OBVIOUS
  <2> QED
    BY <2>1 DEF Transmitted, Trace
<1>8. Follows(ds, list, st[1], 1)
  <2>1. PICK from : from = st[1]
    OBVIOUS
  <2>2. \A kind \in Kinds : ds[kind] = t[kind].decode[from[kind].index]
    BY <1>6, <2>1
  <2>3. Stands(from, list, 1) /\ 1 \in 1..Len(list)
    BY <1>7, <2>1
  <2>4. Follows(ds, list, from, 1)
    BY <2>2, <2>3, StateIsFollowed, SMTT(40)
  <2> QED
    BY <2>1, <2>4
<1>9. left \in Nat /\ ml - t[2].log = Len(g[1])
  <2>1. left = Len(g[1]) + LogOf(list, 2) + LogOf(list, 3) + LogOf(list, 1) /\ Len(g[1]) \in Nat
    BY <1>3
  <2>2. of = left - LogOf(list, 1) /\ ml = of - LogOf(list, 3)
    BY <1>2
  <2>4. PICK r : r = Len(g[1])
    OBVIOUS
  <2>5. PICK a : a = LogOf(list, 1)
    OBVIOUS
  <2>6. PICK b : b = LogOf(list, 3)
    OBVIOUS
  <2>7. PICK c : c = LogOf(list, 2)
    OBVIOUS
  <2>8. r + c + b + a \in Nat /\ (r + c + b + a) - a - b - c = r
    <3>1. r \in Nat /\ a \in Nat /\ b \in Nat /\ c \in Nat
      BY <2>1, <2>4, <2>5, <2>6, <2>7
    <3> QED
      BY <3>1
  <2>3. left \in Nat /\ ml - LogOf(list, 2) = Len(g[1])
    BY <2>1, <2>2, <2>4, <2>5, <2>6, <2>7, <2>8, Zenon
  <2> QED
    BY <1>2, <2>3
<1> QED
  BY <1>3, <1>8, <1>9

\* What is read for the states of a sequence is the sequence.
LEMMA SequenceIsRead ==
    ASSUME NEW list \in Inputs, NEW k \in 1..Len(list), NEW str, NEW g, NEW h, NEW st, NEW w,
           Transmitted(list, str, g, h, st, w), NEW ds, Follows(ds, list, st[k], k),
           NEW left, left = Len(g[k]),
           NEW ll, ll = LookupLiteralLength(ds[1].symbol), NEW ml, ml = LookupMatchLen(ds[2].symbol),
           NEW of, of = ds[3].symbol, NEW afterOf, afterOf = left - of, NEW afterMl, afterMl = afterOf - ml[2]
    PROVE  /\ <<ll[1] + ReadReversed(str, afterMl, ll[2]), ml[1] + ReadReversed(str, afterOf, ml[2]),
                ReadReversed(str, left, of) + 2^of>> = list[k]
           /\ afterMl - ll[2] = Len(h[k]) /\ Len(h[k]) \in Nat
<1>1. PICK e : e = EncodedSequence(list[k])
  OBVIOUS
<1>2. 1 \in Kinds /\ 2 \in Kinds /\ 3 \in Kinds
  BY DEF Kinds
<1>3. ds[1].symbol = e[1].code /\ ds[2].symbol = e[2].code /\ ds[3].symbol = e[3].code
  BY <1>1, <1>2 DEF Follows, CodeOf
<1>4. Fitting(list[k]) /\ Len(list) \in Nat /\ Len(list) >= 1
  BY InputsFit
<1>5. CodesOfSequence(e, list[k])
  BY <1>1, <1>4, SequenceHasCodes
<1>6. /\ ll[1] \in Nat /\ ll[1] + e[1].add = list[k][1] /\ ll[2] = e[1].bits
      /\ ml[1] \in Nat /\ ml[1] + e[2].add = list[k][2] /\ ml[2] = e[2].bits
      /\ of = e[3].bits /\ 2^of \in Nat /\ 2^of + e[3].add = list[k][3]
      /\ e[1].bits \in Nat /\ e[2].bits \in Nat /\ e[3].bits \in Nat
      /\ e[1].add \in Nat /\ e[2].add \in Nat /\ e[3].add \in Nat
  <2>1. 35 \in Nat /\ 51 \in Nat /\ 29 \in Nat
    OBVIOUS
  <2>2. PICK power : power = <<2^of, of>>
    OBVIOUS
  <2>3. power[1] = 2^of
    BY <2>2
  <2>4. /\ Codes(e[1], list[k][1], ll, 35) /\ Codes(e[2], list[k][2], ml, 51)
        /\ Codes(e[3], list[k][3], power, 29) /\ of = e[3].bits
    BY <1>3, <1>5, <2>2 DEF CodesOfSequence
  <2>5. ll[1] \in Nat /\ ll[1] + e[1].add = list[k][1] /\ ll[2] = e[1].bits /\ e[1].bits \in Nat /\ e[1].add \in Nat
    <3>1. PICK row : row = ll
      OBVIOUS
    <3>2. Codes(e[1], list[k][1], row, 35)
      BY <2>4, <3>1
    <3> QED
      BY <2>1, <3>1, <3>2, CodesAre, Zenon
  <2>6. ml[1] \in Nat /\ ml[1] + e[2].add = list[k][2] /\ ml[2] = e[2].bits /\ e[2].bits \in Nat /\ e[2].add \in Nat
    <3>1. PICK row : row = ml
      OBVIOUS
    <3>2. Codes(e[2], list[k][2], row, 51)
      BY <2>4, <3>1
    <3> QED
      BY <2>1, <3>1, <3>2, CodesAre, ZenonT(60)
  <2>7. power[1] \in Nat /\ power[1] + e[3].add = list[k][3] /\ e[3].bits \in Nat /\ e[3].add \in Nat
    BY <2>1, <2>4, CodesAre, Zenon
  <2> QED
    BY <2>3, <2>4, <2>5, <2>6, <2>7
<1>7. Extras(g[k], h[k], e)
  BY <1>1 DEF Transmitted, Trace
<1>8. Starts(str, g[k]) /\ str \in Seq({0, 1})
  <2>1. Starts(str, g[k])
    BY <1>4, StreamsNest
  <2> QED
    BY <2>1 DEF Transmitted
<1>9. /\ Len(h[k]) \in Nat /\ Len(g[k]) = Len(h[k]) + e[1].bits + e[2].bits + e[3].bits
      /\ Backwards(str, Len(g[k]), e[3].bits, e[3].add)
      /\ Backwards(str, Len(g[k]) - e[3].bits, e[2].bits, e[2].add)
      /\ Backwards(str, Len(g[k]) - e[3].bits - e[2].bits, e[1].bits, e[1].add)
  BY <1>7, <1>8 DEF Extras, Three
<1>10. /\ left \in Nat /\ afterOf = left - e[3].bits /\ afterMl = left - e[3].bits - e[2].bits
       /\ afterMl - e[1].bits = Len(h[k])
  <2>1. PICK r : r = Len(h[k])
    OBVIOUS
  <2>2. PICK a : a = e[3].bits
    OBVIOUS
  <2>3. PICK b : b = e[2].bits
    OBVIOUS
  <2>4. PICK c : c = e[1].bits
    OBVIOUS
  <2>5. left = r + c + b + a /\ afterOf = left - a /\ afterMl = afterOf - b
    BY <1>6, <1>9, <2>1, <2>2, <2>3, <2>4, Zenon
  <2>6. r + c + b + a \in Nat /\ (r + c + b + a) - a - b - c = r
    <3>1. r \in Nat /\ a \in Nat /\ b \in Nat /\ c \in Nat
      BY <1>6, <1>9, <2>1, <2>2, <2>3, <2>4
    <3> QED
      BY <3>1
  <2> QED
    BY <2>1, <2>2, <2>3, <2>4, <2>5, <2>6, Zenon
<1>14. /\ ReadReversed(str, left, of) = e[3].add /\ ReadReversed(str, afterOf, ml[2]) = e[2].add
       /\ ReadReversed(str, afterMl, ll[2]) = e[1].add
  BY <1>6, <1>9, <1>10 DEF Backwards
<1>11. /\ ll[1] + ReadReversed(str, afterMl, ll[2]) = list[k][1]
       /\ ml[1] + ReadReversed(str, afterOf, ml[2]) = list[k][2]
       /\ ReadReversed(str, left, of) + 2^of = list[k][3]
  <2>1. PICK power : power = 2^of
    OBVIOUS
  <2>2. power \in Nat /\ e[3].add \in Nat /\ power + e[3].add = list[k][3]
    BY <1>6, <2>1
  <2>3. e[3].add + power = list[k][3]
    BY <2>2
  <2> QED
    BY <1>6, <1>14, <2>1, <2>3, Zenon
<1>12. list[k] = <<list[k][1], list[k][2], list[k][3]>>
  BY <1>4 DEF Fitting
<1>13. afterMl - ll[2] = Len(h[k])
  BY <1>6, <1>10
<1> QED
  BY <1>9, <1>11, <1>12, <1>13

\* What decoders get behind three places of a stream.
NextStates(t, ds, str, first, second, third) ==
    <<t[1].decode[ds[1].base + ReadReversed(str, first, ds[1].bits)],
      t[2].decode[ds[2].base + ReadReversed(str, second, ds[2].bits)],
      t[3].decode[ds[3].base + ReadReversed(str, third, ds[3].bits)]>>

\* In front of a sequence.
Arrives(ds, left, list, i, g, st) == Follows(ds, list, st[i], i) /\ Len(g[i]) \in Nat /\ left = Len(g[i])

\* Then the states move on to those of the next sequence.
LEMMA StatesMoveOn ==
    ASSUME NEW list \in Inputs, NEW k \in 1..(Len(list) - 1), NEW i, i = k + 1, NEW str, NEW g, NEW h, NEW st, NEW w,
           Transmitted(list, str, g, h, st, w), NEW t, Decoders(t, list),
           NEW ds, Follows(ds, list, st[k], k), NEW left, left = Len(h[k]),
           NEW llMoved, llMoved = left - ds[1].bits, NEW mlMoved, mlMoved = llMoved - ds[2].bits,
           NEW to, to = NextStates(t, ds, str, left, llMoved, mlMoved)
    PROVE  Arrives(to, mlMoved - ds[3].bits, list, i, g, st)
<1>1. /\ 1 \in Kinds /\ 2 \in Kinds /\ 3 \in Kinds /\ \A kind \in Kinds : kind \in {1, 2, 3}
      /\ Len(list) \in Nat /\ k \in 1..Len(list) /\ k + 1 \in 1..Len(list)
  BY InputsFit DEF Kinds
<1>2. PICK from : from = st[k]
  OBVIOUS
<1>3. PICK goal : goal = st[k + 1]
  OBVIOUS
<1>4. Stands(from, list, k) /\ Stands(goal, list, k + 1) /\ Moves(h[k], g[k + 1], goal, from)
  BY <1>1, <1>2, <1>3 DEF Transmitted, Trace
<1>5. /\ ds[1].bits = from[1].bits /\ ds[2].bits = from[2].bits /\ ds[3].bits = from[3].bits
      /\ ds[1].base = from[1].baseline /\ ds[2].base = from[2].baseline /\ ds[3].base = from[3].baseline
  BY <1>1, <1>2 DEF Follows
<1>6. ASSUME NEW kind \in Kinds
      PROVE  from[kind].bits \in Nat /\ from[kind].baseline \in Nat /\ goal[kind].index \in Int
  <2>1. /\ Known(from[kind], CodeOf(list, k, kind) + 1, ProbsOf(list, kind), LogOf(list, kind))
        /\ Known(goal[kind], CodeOf(list, k + 1, kind) + 1, ProbsOf(list, kind), LogOf(list, kind))
    BY <1>4 DEF Stands
  <2> QED
    BY <2>1, KnownIs
<1>7. Starts(str, h[k]) /\ str \in Seq({0, 1})
  <2>1. Starts(str, h[k])
    BY <1>1, StreamsNest
  <2> QED
    BY <2>1 DEF Transmitted
<1>8. /\ Len(g[k + 1]) \in Nat /\ Len(h[k]) = Len(g[k + 1]) + from[3].bits + from[2].bits + from[1].bits
      /\ Backwards(str, Len(h[k]), from[1].bits, Distance(goal, from, 1))
      /\ Backwards(str, Len(h[k]) - from[1].bits, from[2].bits, Distance(goal, from, 2))
      /\ Backwards(str, Len(h[k]) - from[1].bits - from[2].bits, from[3].bits, Distance(goal, from, 3))
  BY <1>4, <1>7 DEF Moves, Three
<1>9. left \in Nat /\ mlMoved = left - ds[1].bits - ds[2].bits /\ mlMoved - ds[3].bits = Len(g[k + 1])
  <2>1. PICK r : r = Len(g[k + 1])
    OBVIOUS
  <2>2. PICK a : a = ds[1].bits
    OBVIOUS
  <2>3. PICK b : b = ds[2].bits
    OBVIOUS
  <2>4. PICK c : c = ds[3].bits
    OBVIOUS
  <2>5. left = r + c + b + a /\ llMoved = left - a /\ mlMoved = llMoved - b
    BY <1>5, <1>8, <2>1, <2>2, <2>3, <2>4, Zenon
  <2>6. r + c + b + a \in Nat /\ (r + c + b + a) - a - b - c = r
    <3>1. r \in Nat /\ a \in Nat /\ b \in Nat /\ c \in Nat
      BY <1>1, <1>5, <1>6, <1>8, <2>1, <2>2, <2>3, <2>4
    <3> QED
      BY <3>1
  <2> QED
    BY <2>1, <2>2, <2>3, <2>4, <2>5, <2>6, Zenon
<1>10. /\ ds[1].base + ReadReversed(str, left, ds[1].bits) = goal[1].index
       /\ ds[2].base + ReadReversed(str, llMoved, ds[2].bits) = goal[2].index
       /\ ds[3].base + ReadReversed(str, mlMoved, ds[3].bits) = goal[3].index
  <2>1. ASSUME NEW kind \in Kinds PROVE from[kind].baseline + Distance(goal, from, kind) = goal[kind].index
    BY <1>6 DEF Distance
  <2>2. /\ ReadReversed(str, left, ds[1].bits) = Distance(goal, from, 1)
        /\ ReadReversed(str, llMoved, ds[2].bits) = Distance(goal, from, 2)
        /\ ReadReversed(str, mlMoved, ds[3].bits) = Distance(goal, from, 3)
    BY <1>5, <1>8, <1>9 DEF Backwards
  <2> QED
    BY <1>1, <1>5, <2>1, <2>2
<1>11. to[1] = t[1].decode[goal[1].index] /\ to[2] = t[2].decode[goal[2].index] /\ to[3] = t[3].decode[goal[3].index]
  BY <1>10 DEF NextStates
<1>12. \A kind \in Kinds : to[kind] = t[kind].decode[goal[kind].index]
  BY <1>1, <1>11
<1>13. Follows(to, list, goal, k + 1)
  BY <1>1, <1>4, <1>12, StateIsFollowed
<1> QED
  BY <1>3, <1>8, <1>9, <1>13 DEF Arrives

-----------------------------------------------------------------------------
(* A section on its way                                                    *)

\* What holds where encoder and decoder are; nothing is decoded before "decode".
AtChoice == step = "choose tables" /\ target = <<>>

AtPanic == step = "panicked" /\ target = <<>> /\ \E kind \in Kinds : Range(CodesIn(sequences, kind)) = {0}

AtHeader == step = "write header" /\ target = <<>> /\ Prepared(sequences) /\ tables = TablesFor(sequences)

AtLast == /\ step = "encode last" /\ target = <<>> /\ Prepared(sequences) /\ tables = TablesFor(sequences)
          /\ header = HeaderFor(sequences)

\* From the k-th sequence on a list is written.
Halfway(list, k, text, from) == \E g, h, st : Trace(list, k, g, h, st) /\ text = g[k] /\ from = st[k]

\* The sequences behind "next" are written.
AtEncode == /\ step = "encode" /\ target = <<>> /\ Prepared(sequences) /\ tables = TablesFor(sequences)
            /\ header = HeaderFor(sequences) /\ next \in 0..(Len(sequences) - 1)
            /\ Halfway(sequences, next + 1, stream, states)

AtRead == /\ step = "read header" /\ target = <<>> /\ Prepared(sequences) /\ header = HeaderFor(sequences)
          /\ \E g, h, st, w : Transmitted(sequences, stream, g, h, st, w)

AtStart == /\ step = "start" /\ target = <<>> /\ Prepared(sequences) /\ header = HeaderFor(sequences)
           /\ Decoders(tables, sequences)
           /\ \E g, h, st, w : Transmitted(sequences, stream, g, h, st, w)

\* In front of the sequence k the decoder has the states it was written with and
\* what was written with it and before, and behind the last one nothing.
Reading(list, k, left, ds, g, st) ==
    IF k \in 1..Len(list) THEN left = Len(g[k]) /\ Follows(ds, list, st[k], k) ELSE left = 0

AtDecode == /\ step = "decode" /\ Prepared(sequences) /\ header = HeaderFor(sequences)
            /\ Decoders(tables, sequences)
            /\ \E d \in 0..Len(sequences) :
                  /\ target = SubSeq(sequences, 1, d)
                  /\ \E g, h, st, w : /\ Transmitted(sequences, stream, g, h, st, w)
                                      /\ Reading(sequences, d + 1, next, states, g, st)

AtEnd == step = "done" /\ target = sequences

SectionOnItsWay ==
    IF item = Nothing
    THEN /\ sequences \in Inputs
         /\ AtChoice \/ AtPanic \/ AtHeader \/ AtLast \/ AtEncode \/ AtRead \/ AtStart \/ AtDecode \/ AtEnd
    ELSE step = "idle" /\ target = <<>> /\ sequences = <<>>

LEMMA TablesAreChosen ==
    ASSUME sequences \in Inputs, AtChoice, ChooseTables
    PROVE  AtPanic' \/ AtHeader'
<1> DEFINE built == [kind \in Kinds |-> Probabilities(CountsOf(CodesIn(sequences, kind)), MaxLogs[kind])]
           fails == \E kind \in Kinds : built[kind].probs = NoTable
<1>1. /\ step' = IF fails THEN "panicked" ELSE "write header"
      /\ tables' = IF fails THEN tables
                   ELSE [kind \in Kinds |-> EncodingTable(built[kind].probs, built[kind].log)]
      /\ sequences' = sequences /\ target' = target
  BY Zenon DEF ChooseTables
<1>2. ASSUME NEW kind \in Kinds
      PROVE  built[kind].probs = ProbsOf(sequences, kind) /\ built[kind].log = LogOf(sequences, kind)
  BY DEF ProbsOf, LogOf, ModelOf
<1> HIDE DEF built
<1>3. target' = <<>>
  BY <1>1 DEF AtChoice
<1>4. CASE fails
  <2>1. PICK kind \in Kinds : built[kind].probs = NoTable
    BY <1>4
  <2>2. Range(CodesIn(sequences, kind)) = {0}
    BY <1>2, <2>1, ModelIs
  <2>3. step' = "panicked"
    BY <1>1, <1>4
  <2> QED
    BY <1>1, <1>3, <2>2, <2>3 DEF AtPanic
<1>5. CASE ~fails
  <2>1. ASSUME NEW kind \in Kinds
        PROVE  Suited(sequences, kind, ProbsOf(sequences, kind), LogOf(sequences, kind))
    <3>1. ProbsOf(sequences, kind) # NoTable
      BY <1>2, <1>5
    <3> QED
      BY <3>1, ModelIs
  <2>2. Prepared(sequences)
    BY <2>1 DEF Prepared
  <2>3. tables' = TablesFor(sequences)
    <3>1. tables' = [kind \in Kinds |-> EncodingTable(built[kind].probs, built[kind].log)]
      BY <1>1, <1>5
    <3> QED
      BY <1>2, <3>1 DEF TablesFor
  <2>4. step' = "write header"
    BY <1>1, <1>5
  <2> QED
    BY <1>1, <1>3, <2>2, <2>3, <2>4 DEF AtHeader
<1> QED
  BY <1>4, <1>5

LEMMA HeaderIsWritten ==
    ASSUME AtHeader, WriteHeader
    PROVE  AtLast'
<1>1. /\ step' = "encode last" /\ sequences' = sequences /\ tables' = tables /\ target' = target
      /\ header' = WriteTable(tables[2], WriteTable(tables[3], WriteTable(tables[1],
                        SeqNum(Len(sequences)) \o Bits(Modes, 8))))
  BY Zenon DEF WriteHeader
<1>2. header' = HeaderFor(sequences)
  BY <1>1, Zenon DEF AtHeader, HeaderFor
<1> QED
  BY <1>1, <1>2 DEF AtHeader, AtLast

LEMMA LastIsEncoded ==
    ASSUME sequences \in Inputs, AtLast, EncodeLast
    PROVE  AtEncode'
<1>1. PICK n : n = Len(sequences)
  OBVIOUS
<1>2. n \in Nat /\ n >= 1
  BY <1>1, InputsFit
<1>3. PICK text : text = ExtraBits(sequences[n])
  OBVIOUS
<1>4. PICK from : from = [kind \in Kinds |-> StartState(TablesFor(sequences)[kind], CodeOf(sequences, n, kind))]
  OBVIOUS
<1>5. /\ step' = "encode" /\ sequences' = sequences /\ tables' = tables /\ header' = header /\ target' = target
      /\ next' = n - 1 /\ stream' = text
      /\ states' = [kind \in Kinds |-> StartState(tables[kind], EncodedSequence(sequences[n])[kind].code)]
  BY <1>1, <1>3 DEF EncodeLast
<1>6. states' = from
  BY <1>4, <1>5, Zenon DEF AtLast, CodeOf
<1>7. Halfway(sequences, n, text, from)
  <2>1. Prepared(sequences)
    BY DEF AtLast
  <2>2. \E g, h, st : Trace(sequences, n, g, h, st) /\ g[n] = text /\ st[n] = from
    BY <1>1, <1>3, <1>4, <2>1, TraceStarts
  <2> QED
    BY <2>2 DEF Halfway
<1>8. next' + 1 = n /\ next' \in 0..(Len(sequences) - 1)
  BY <1>1, <1>2, <1>5
<1>9. Halfway(sequences', next' + 1, stream', states')
  BY <1>5, <1>6, <1>7, <1>8
<1> QED
  BY <1>5, <1>8, <1>9 DEF AtLast, AtEncode

LEMMA SequenceIsEncoded ==
    ASSUME sequences \in Inputs, AtEncode, EncodeSequence
    PROVE  AtEncode'
<1>1. PICK k : k = next
  OBVIOUS
<1>2. Len(sequences) \in Nat /\ Len(sequences) >= 1
  BY InputsFit, SMTT(30)
<1>3. k \in Nat /\ k >= 1 /\ k < Len(sequences)
  BY <1>1, <1>2 DEF AtEncode, EncodeSequence
<1>4. PICK to : to = [kind \in Kinds |-> NextState(TablesFor(sequences)[kind], CodeOf(sequences, k, kind), states[kind].index)]
  OBVIOUS
<1>5. PICK new : new = stream \o MovingBits(states, to, 3) \o MovingBits(states, to, 2) \o MovingBits(states, to, 1)
                             \o ExtraBits(sequences[k])
  OBVIOUS
<1>6. /\ step' = step /\ sequences' = sequences /\ tables' = tables /\ header' = header /\ target' = target
      /\ next' = next - 1
  BY DEF EncodeSequence
<1>7. states' = to /\ stream' = new
  <2> DEFINE goal == [kind \in Kinds |-> NextState(tables[kind], EncodedSequence(sequences[next])[kind].code, states[kind].index)]
  <2>1. goal = to
    BY <1>1, <1>4, Zenon DEF AtEncode, CodeOf
  <2>2. /\ states' = goal
        /\ stream' = stream \o MovedBits(goal, 3) \o MovedBits(goal, 2) \o MovedBits(goal, 1) \o ExtraBits(sequences[next])
    BY Zenon DEF EncodeSequence
  <2> HIDE DEF goal
  <2>3. \A kind \in {1, 2, 3} : MovedBits(to, kind) = MovingBits(states, to, kind)
    BY DEF MovedBits, MovingBits, Distance
  <2> QED
    BY <1>1, <1>5, <2>1, <2>2, <2>3
<1>8. PICK g, h, st : Trace(sequences, k + 1, g, h, st) /\ stream = g[k + 1] /\ states = st[k + 1]
  BY <1>1 DEF AtEncode, Halfway
<1>9. Halfway(sequences, k, new, to)
  <2>1. Prepared(sequences)
    BY SMTT(40) DEF AtEncode
  <2>2. PICK from : from = states
    OBVIOUS
  <2>3. PICK text : text = stream
    OBVIOUS
  <2>4. /\ to = Successors(sequences, k, from) /\ new = GrownBy(text, sequences, k, from, to)
        /\ from = st[k + 1] /\ text = g[k + 1]
    BY <1>4, <1>5, <1>8, <2>2, <2>3 DEF Successors, GrownBy
  <2>5. \E g2, h2, st2 : Trace(sequences, k, g2, h2, st2) /\ g2[k] = new /\ st2[k] = to
    BY <1>3, <1>8, <2>1, <2>4, TraceGoesOn
  <2> QED
    BY <2>5 DEF Halfway
<1>10. next' + 1 = k /\ next' \in 0..(Len(sequences) - 1)
  BY <1>1, <1>3, <1>6
<1>11. Halfway(sequences', next' + 1, stream', states')
  BY <1>6, <1>7, <1>9, <1>10
<1> QED
  BY <1>6, <1>10, <1>11 DEF AtEncode

LEMMA EncodingIsFinished ==
    ASSUME sequences \in Inputs, AtEncode, FinishEncoding
    PROVE  AtRead'
<1>1. Len(sequences) \in Nat /\ Len(sequences) >= 1
  BY InputsFit
<1>2. next = 0
  BY Zenon DEF FinishEncoding
<1>3. PICK g, h, st : Trace(sequences, 1, g, h, st) /\ stream = g[1] /\ states = st[1]
  <2>1. Halfway(sequences, next + 1, stream, states)
    BY DEF AtEncode
  <2>2. next + 1 = 1
    BY <1>2
  <2> QED
    BY <2>1, <2>2 DEF Halfway
<1>4. PICK t : t = TablesFor(sequences)
  OBVIOUS
<1>5. PICK w : w = stream \o Bits(states[2].index, t[2].log) \o Bits(states[3].index, t[3].log)
                          \o Bits(states[1].index, t[1].log)
  OBVIOUS
<1>6. /\ step' = "read header" /\ sequences' = sequences /\ header' = header /\ target' = target
      /\ stream' = Closed(w)
  BY <1>4, <1>5, Zenon DEF FinishEncoding, AtEncode, FinalBits
<1>7. Transmitted(sequences, stream', g, h, st, w)
  <2>1. Prepared(sequences)
    BY DEF AtEncode
  <2>2. PICK str : str = stream'
    BY SMTT(40)
  <2>3. Transmitted(sequences, str, g, h, st, w)
    BY <1>1, <1>3, <1>4, <1>5, <1>6, <2>1, <2>2, StreamIsTransmitted
  <2> QED
    BY <2>2, <2>3
<1> QED
  BY <1>6, <1>7 DEF AtEncode, AtRead


LEMMA TablesAreFound ==
    ASSUME sequences \in Inputs, AtRead, ReadHeader
    PROVE  AtStart'
<1> DEFINE ll == ReadProbabilities(header, 8 * (ParsedNum.at + 1), 9, MaxCodes[1])
           of == ReadProbabilities(header, ll.pos, 8, MaxCodes[3])
           ml == ReadProbabilities(header, of.pos, 9, MaxCodes[2])
<1>1. /\ IF ll.log = 0 \/ of.log = 0 \/ ml.log = 0 \/ ParsedModes # <<2, 2, 2>>
         THEN step' = "failed" /\ tables' = tables
         ELSE /\ step' = "start"
              /\ tables' = <<[log |-> ll.log, decode |-> DecodingTable(ll.probs, ll.log)],
                             [log |-> ml.log, decode |-> DecodingTable(ml.probs, ml.log)],
                             [log |-> of.log, decode |-> DecodingTable(of.probs, of.log)]>>
      /\ sequences' = sequences /\ header' = header /\ stream' = stream /\ target' = target
  BY Zenon DEF ReadHeader, Built
<1>2. Prepared(sequences) /\ header = HeaderFor(sequences)
  BY DEF AtRead
<1>3. ParsedModes = <<2, 2, 2>> /\ Descriptions(sequences, 8 * (ParsedNum.at + 1))
  BY <1>2, HeaderIsRead
<1>4. PICK a, b, c :
         /\ Found(ll, LogOf(sequences, 1), ProbsOf(sequences, 1), a)
         /\ Found(ReadProbabilities(header, a, 8, MaxCodes[3]), LogOf(sequences, 3), ProbsOf(sequences, 3), b)
         /\ Found(ReadProbabilities(header, b, 9, MaxCodes[2]), LogOf(sequences, 2), ProbsOf(sequences, 2), c)
  BY <1>3, Zenon DEF Descriptions
<1>5. ll.log = LogOf(sequences, 1) /\ ll.probs = ProbsOf(sequences, 1) /\ ll.pos = a
  <2> HIDE DEF ll
  <2> QED
    BY <1>4 DEF Found
<1>6. of.log = LogOf(sequences, 3) /\ of.probs = ProbsOf(sequences, 3) /\ of.pos = b
  <2>1. Found(of, LogOf(sequences, 3), ProbsOf(sequences, 3), b)
    BY <1>4, <1>5, Zenon
  <2> HIDE DEF of
  <2> QED
    BY <2>1 DEF Found
<1>7. ml.log = LogOf(sequences, 2) /\ ml.probs = ProbsOf(sequences, 2)
  <2>1. Found(ml, LogOf(sequences, 2), ProbsOf(sequences, 2), c)
    BY <1>4, <1>6, Zenon
  <2> HIDE DEF ml
  <2> QED
    BY <2>1 DEF Found
<1> HIDE DEF ll, of, ml
<1>8. ASSUME NEW kind \in Kinds PROVE LogOf(sequences, kind) # 0
  <2>1. LogOf(sequences, kind) \in 5..9
    BY <1>2 DEF Prepared, Suited, Describable, SoundProbs
  <2> QED
    BY <2>1
<1>9. 1 \in Kinds /\ 2 \in Kinds /\ 3 \in Kinds /\ \A kind \in Kinds : kind \in {1, 2, 3}
  BY DEF Kinds
<1>10. /\ step' = "start"
       /\ tables' = <<[log |-> ll.log, decode |-> DecodingTable(ll.probs, ll.log)],
                      [log |-> ml.log, decode |-> DecodingTable(ml.probs, ml.log)],
                      [log |-> of.log, decode |-> DecodingTable(of.probs, of.log)]>>
  BY <1>1, <1>3, <1>5, <1>6, <1>7, <1>8, <1>9
<1>11. Decoders(tables', sequences)
  <2>1. PICK one : one = DecodingTable(ll.probs, ll.log)
    OBVIOUS
  <2>2. PICK two : two = DecodingTable(ml.probs, ml.log)
    OBVIOUS
  <2>3. PICK three : three = DecodingTable(of.probs, of.log)
    OBVIOUS
  <2>4. tables' = <<[log |-> ll.log, decode |-> one], [log |-> ml.log, decode |-> two],
                    [log |-> of.log, decode |-> three]>>
    BY <1>10, <2>1, <2>2, <2>3
  <2>5. /\ tables'[1].log = ll.log /\ tables'[1].decode = one
        /\ tables'[2].log = ml.log /\ tables'[2].decode = two
        /\ tables'[3].log = of.log /\ tables'[3].decode = three
    BY <2>4
  <2>6. /\ one = DecodingTable(ProbsOf(sequences, 1), LogOf(sequences, 1))
        /\ two = DecodingTable(ProbsOf(sequences, 2), LogOf(sequences, 2))
        /\ three = DecodingTable(ProbsOf(sequences, 3), LogOf(sequences, 3))
    BY <1>5, <1>6, <1>7, <2>1, <2>2, <2>3
  <2>7. ASSUME NEW kind \in Kinds
        PROVE  /\ tables'[kind].log = LogOf(sequences, kind)
               /\ tables'[kind].decode = DecodingTable(ProbsOf(sequences, kind), LogOf(sequences, kind))
    <3>1. kind = 1 \/ kind = 2 \/ kind = 3
      BY <1>9
    <3> QED
      BY <1>5, <1>6, <1>7, <2>5, <2>6, <3>1
  <2> QED
    BY <2>7 DEF Decoders
<1>12. target' = <<>> /\ \E g, h, st, w : Transmitted(sequences, stream, g, h, st, w)
  BY <1>1 DEF AtRead
<1> QED
  BY <1>1, <1>2, <1>10, <1>11, <1>12 DEF AtStart

LEMMA DecodingIsStarted ==
    ASSUME sequences \in Inputs, AtStart, StartDecoding
    PROVE  AtDecode'
<1>1. PICK n : n = Len(sequences)
  OBVIOUS
<1>2. n \in Nat /\ n >= 1
  BY <1>1, InputsFit
<1>3. PICK left : left = Opened(stream)
  OBVIOUS
<1>4. PICK of : of = left - tables[1].log
  OBVIOUS
<1>5. PICK ml : ml = of - tables[3].log
  OBVIOUS
<1>6. PICK ds : ds = <<tables[1].decode[ReadReversed(stream, left, tables[1].log)],
                       tables[2].decode[ReadReversed(stream, ml, tables[2].log)],
                       tables[3].decode[ReadReversed(stream, of, tables[3].log)]>>
  OBVIOUS
<1>7. /\ IF left < 0 THEN step' = "failed" ELSE states' = ds /\ next' = ml - tables[2].log /\ step' = "decode"
      /\ sequences' = sequences /\ tables' = tables /\ header' = header /\ stream' = stream /\ target' = target
  BY <1>3, <1>4, <1>5, <1>6, Zenon DEF StartDecoding
<1>8. /\ target = <<>> /\ Prepared(sequences) /\ header = HeaderFor(sequences) /\ Decoders(tables, sequences)
  BY DEF AtStart
<1>9. PICK g, h, st, w : Transmitted(sequences, stream, g, h, st, w)
  BY DEF AtStart
<1>10. LogOf(sequences, 1) \in Nat /\ LogOf(sequences, 2) \in Nat /\ LogOf(sequences, 3) \in Nat
  <2>1. ASSUME NEW kind \in Kinds PROVE LogOf(sequences, kind) \in Nat
    <3>1. LogOf(sequences, kind) \in 5..9
      BY <1>8 DEF Prepared, Suited, Describable, SoundProbs
    <3> QED
      BY <3>1
  <2>2. 1 \in Kinds /\ 2 \in Kinds /\ 3 \in Kinds
    BY DEF Kinds
  <2> QED
    BY <2>1, <2>2
<1>11. /\ left \in Nat /\ Follows(ds, sequences, st[1], 1) /\ ml - tables[2].log = Len(g[1])
  <2>1. PICK str : str = stream
    OBVIOUS
  <2>2. PICK t : t = tables
    OBVIOUS
  <2>3. /\ left = Opened(str) /\ of = left - t[1].log /\ ml = of - t[3].log
        /\ ds = <<t[1].decode[ReadReversed(str, left, t[1].log)], t[2].decode[ReadReversed(str, ml, t[2].log)],
                  t[3].decode[ReadReversed(str, of, t[3].log)]>>
        /\ Transmitted(sequences, str, g, h, st, w) /\ Decoders(t, sequences)
    BY <1>3, <1>4, <1>5, <1>6, <1>8, <1>9, <2>1, <2>2
  <2>4. left \in Nat /\ Follows(ds, sequences, st[1], 1) /\ ml - t[2].log = Len(g[1])
    BY <1>1, <1>2, <1>10, <2>3, DecodingStarts
  <2> QED
    BY <2>2, <2>4
<1>12. step' = "decode" /\ states' = ds /\ next' = Len(g[1])
  BY <1>7, <1>11
<1>13. Reading(sequences, 0 + 1, next', states', g, st)
  <2>1. 0 + 1 = 1 /\ 1 \in 1..Len(sequences)
    BY <1>1, <1>2
  <2> QED
    BY <1>11, <1>12, <2>1 DEF Reading
<1>14. 0 \in 0..Len(sequences) /\ target' = SubSeq(sequences, 1, 0)
  <2>1. SubSeq(sequences, 1, 0) = <<>>
    BY InputsAssumption, FrontsAre
  <2> QED
    BY <1>1, <1>2, <1>7, <1>8, <2>1
<1> QED
  BY <1>7, <1>8, <1>9, <1>12, <1>13, <1>14 DEF AtDecode


\* A front of a list.
LEMMA FrontOfList ==
    ASSUME NEW list \in Inputs, NEW d \in 0..Len(list)
    PROVE  /\ Len(SubSeq(list, 1, d)) = d /\ IsPrefix(SubSeq(list, 1, d), list)
           /\ d < Len(list) => Append(SubSeq(list, 1, d), list[d + 1]) = SubSeq(list, 1, d + 1)
           /\ d = Len(list) => SubSeq(list, 1, d) = list
<1>1. PICK S : list \in Seq(S)
  BY InputsAssumption
<1>2. Len(list) \in Nat /\ Len(list) \in 0..Len(list)
  BY <1>1
<1>3. Len(SubSeq(list, 1, d)) = d
  BY <1>1, FrontIs
<1>4. SubSeq(list, 1, Len(list)) = list /\ \A s \in 1..Len(list) : Append(SubSeq(list, 1, s - 1), list[s]) = SubSeq(list, 1, s)
  BY <1>1, FrontsAre
<1>5. IsPrefix(SubSeq(list, 1, d), list)
  <2>1. PICK front : front = SubSeq(list, 1, d)
    OBVIOUS
  <2>2. Len(front) = d /\ d <= Len(list)
    BY <1>2, <1>3, <2>1
  <2>3. front \in Seq(S)
    BY <1>1, <2>1, FrontIs
  <2>4. SubSeq(front, 1, Len(front)) = front
    BY <2>3, FrontsAre
  <2>5. SubSeq(list, 1, Len(front)) = front
    BY <2>1, <2>2
  <2> QED
    BY <2>1, <2>2, <2>4, <2>5 DEF IsPrefix
<1>6. ASSUME d < Len(list) PROVE Append(SubSeq(list, 1, d), list[d + 1]) = SubSeq(list, 1, d + 1)
  <2>1. d + 1 \in 1..Len(list) /\ (d + 1) - 1 = d
    BY <1>2, <1>6
  <2> QED
    BY <1>4, <2>1
<1> QED
  BY <1>3, <1>4, <1>5, <1>6, ZenonT(60)

LEMMA SequenceIsDecoded ==
    ASSUME sequences \in Inputs, AtDecode, DecodeSequence
    PROVE  AtDecode'
<1>1. PICK n : n = Len(sequences)
  OBVIOUS
<1>2. n \in Nat /\ n >= 1
  BY <1>1, InputsFit
<1>3. Prepared(sequences) /\ header = HeaderFor(sequences) /\ Decoders(tables, sequences)
  BY DEF AtDecode
<1>4. PICK d \in 0..n : /\ target = SubSeq(sequences, 1, d)
                        /\ \E g, h, st, w : /\ Transmitted(sequences, stream, g, h, st, w)
                                            /\ Reading(sequences, d + 1, next, states, g, st)
  BY <1>1 DEF AtDecode
<1>5. PICK g, h, st, w : /\ Transmitted(sequences, stream, g, h, st, w)
                         /\ Reading(sequences, d + 1, next, states, g, st)
  BY <1>4
<1>6. Len(target) = d /\ ParsedNum.num = n
  BY <1>1, <1>3, <1>4, FrontOfList, HeaderIsRead
<1>7. PICK ll : ll = LookupLiteralLength(states[1].symbol)
  OBVIOUS
<1>8. PICK ml : ml = LookupMatchLen(states[2].symbol)
  OBVIOUS
<1>9. PICK of : of = states[3].symbol
  OBVIOUS
<1>10. PICK afterOf : afterOf = next - of
  OBVIOUS
<1>11. PICK afterMl : afterMl = afterOf - ml[2]
  OBVIOUS
<1>12. PICK afterLl : afterLl = afterMl - ll[2]
  OBVIOUS
<1>13. PICK s : s = <<ll[1] + ReadReversed(stream, afterMl, ll[2]), ml[1] + ReadReversed(stream, afterOf, ml[2]),
                      ReadReversed(stream, next, of) + 2^of>>
  OBVIOUS
<1>14. PICK llMoved : llMoved = afterLl - states[1].bits
  OBVIOUS
<1>15. PICK mlMoved : mlMoved = llMoved - states[2].bits
  OBVIOUS
<1>16. PICK to : to = <<Updated(1, afterLl), Updated(2, llMoved), Updated(3, mlMoved)>>
  OBVIOUS
<1>17. PICK left : left = IF Len(target) + 1 >= ParsedNum.num THEN afterLl ELSE mlMoved - states[3].bits
  OBVIOUS
<1>18. /\ step = "decode" /\ Len(target) < ParsedNum.num /\ target' = Append(target, s)
       /\ states' = (IF Len(target) + 1 >= ParsedNum.num THEN states ELSE to)
       /\ next' = left /\ step' = (IF left < 0 THEN "failed" ELSE step)
       /\ sequences' = sequences /\ tables' = tables /\ header' = header /\ stream' = stream
  BY <1>7, <1>8, <1>9, <1>10, <1>11, <1>12, <1>13, <1>14, <1>15, <1>16, <1>17, Zenon DEF DecodeSequence
<1>19. PICK k : k = d + 1
  OBVIOUS
<1>20. d < n /\ k \in 1..n /\ k \in 1..Len(sequences) /\ d \in 0..Len(sequences)
  BY <1>1, <1>2, <1>6, <1>18, <1>19
<1>21. next = Len(g[k]) /\ Follows(states, sequences, st[k], k)
  BY <1>5, <1>19, <1>20 DEF Reading
<1>22. s = sequences[k] /\ afterLl = Len(h[k]) /\ Len(h[k]) \in Nat
  <2>1. PICK str : str = stream
    OBVIOUS
  <2>2. PICK ds : ds = states
    OBVIOUS
  <2>3. PICK at : at = next
    OBVIOUS
  <2>4. /\ Transmitted(sequences, str, g, h, st, w) /\ Follows(ds, sequences, st[k], k) /\ at = Len(g[k])
        /\ ll = LookupLiteralLength(ds[1].symbol) /\ ml = LookupMatchLen(ds[2].symbol) /\ of = ds[3].symbol
        /\ afterOf = at - of
    BY <1>5, <1>7, <1>8, <1>9, <1>10, <1>21, <2>1, <2>2, <2>3
  <2>5. /\ <<ll[1] + ReadReversed(str, afterMl, ll[2]), ml[1] + ReadReversed(str, afterOf, ml[2]),
             ReadReversed(str, at, of) + 2^of>> = sequences[k]
        /\ afterMl - ll[2] = Len(h[k]) /\ Len(h[k]) \in Nat
    BY <1>11, <1>20, <2>4, SequenceIsRead, SMTT(30)
  <2> QED
    BY <1>12, <1>13, <2>1, <2>3, <2>5, Zenon
<1>23. target' = SubSeq(sequences, 1, k)
  BY <1>4, <1>18, <1>19, <1>20, <1>22, FrontOfList
<1>24. next' \in Nat /\ Reading(sequences, k + 1, next', states', g, st)
  <2>1. CASE k = n
    <3>1. Len(target) + 1 >= ParsedNum.num
      BY <1>2, <1>6, <1>19, <2>1
    <3>2. next' = Len(h[n])
      BY <1>17, <1>18, <1>22, <2>1, <3>1
    <3>3. h[n] = <<>>
      BY <1>1, <1>5 DEF Transmitted, Trace
    <3>4. next' = 0
      BY <3>2, <3>3
    <3>5. k + 1 \notin 1..Len(sequences)
      BY <1>1, <1>2, <2>1
    <3> QED
      BY <3>4, <3>5 DEF Reading
  <2>2. CASE k # n
    <3>1. ~(Len(target) + 1 >= ParsedNum.num) /\ k \in 1..(Len(sequences) - 1) /\ k + 1 \in 1..Len(sequences)
      BY <1>1, <1>2, <1>6, <1>19, <1>20, <2>2
    <3>2. next' = mlMoved - states[3].bits /\ states' = to
      BY <1>17, <1>18, <3>1
    <3>3. Follows(to, sequences, st[k + 1], k + 1) /\ Len(g[k + 1]) \in Nat /\ mlMoved - states[3].bits = Len(g[k + 1])
      <4>1. PICK str : str = stream
        OBVIOUS
      <4>2. PICK ds : ds = states
        OBVIOUS
      <4>3. PICK t : t = tables
        OBVIOUS
      <4>4. /\ Transmitted(sequences, str, g, h, st, w) /\ Follows(ds, sequences, st[k], k) /\ Decoders(t, sequences)
            /\ afterLl = Len(h[k]) /\ llMoved = afterLl - ds[1].bits /\ mlMoved = llMoved - ds[2].bits
            /\ to = NextStates(t, ds, str, afterLl, llMoved, mlMoved)
        BY <1>3, <1>5, <1>14, <1>15, <1>16, <1>21, <1>22, <4>1, <4>2, <4>3 DEF Updated, NextStates
      <4>5. PICK i : i = k + 1
        OBVIOUS
      <4>6. Arrives(to, mlMoved - ds[3].bits, sequences, i, g, st)
        BY <3>1, <4>4, <4>5, StatesMoveOn, Zenon
      <4> QED
        BY <4>2, <4>5, <4>6 DEF Arrives
    <3> QED
      BY <3>1, <3>2, <3>3 DEF Reading
  <2> QED
    BY <2>1, <2>2
<1>25. step' = "decode"
  BY <1>18, <1>24
<1>26. k \in 0..Len(sequences)
  BY <1>20
<1> QED
  BY <1>3, <1>5, <1>18, <1>23, <1>24, <1>25, <1>26 DEF AtDecode

LEMMA DecodingIsFinished ==
    ASSUME sequences \in Inputs, AtDecode, FinishDecoding
    PROVE  AtEnd'
<1>1. PICK n : n = Len(sequences)
  OBVIOUS
<1>2. n \in Nat /\ n >= 1
  BY <1>1, InputsFit
<1>3. PICK d \in 0..n : /\ target = SubSeq(sequences, 1, d)
                        /\ \E g, h, st, w : /\ Transmitted(sequences, stream, g, h, st, w)
                                            /\ Reading(sequences, d + 1, next, states, g, st)
  BY <1>1 DEF AtDecode
<1>4. PICK g, st : Reading(sequences, d + 1, next, states, g, st)
  BY <1>3
<1>5. Len(target) = d /\ ParsedNum.num = n
  BY <1>1, <1>3, FrontOfList, HeaderIsRead DEF AtDecode
<1>6. /\ Len(target) >= ParsedNum.num /\ step' = (IF next > 0 THEN "failed" ELSE "done")
      /\ sequences' = sequences /\ target' = target
  BY Zenon DEF FinishDecoding
<1>7. d = n /\ d + 1 \notin 1..Len(sequences) /\ d \in 0..Len(sequences)
  BY <1>1, <1>2, <1>5, <1>6
<1>8. next = 0
  BY <1>4, <1>7 DEF Reading
<1>9. target = sequences
  BY <1>1, <1>3, <1>7, FrontOfList
<1> QED
  BY <1>6, <1>8, <1>9 DEF AtEnd


\* Each step of a section leads on.
LEMMA SectionSteps ==
    ASSUME SectionOnItsWay, item = Nothing, SectionNext
    PROVE  AtPanic' \/ AtHeader' \/ AtLast' \/ AtEncode' \/ AtRead' \/ AtStart' \/ AtDecode' \/ AtEnd'
<1>1. /\ sequences \in Inputs
      /\ AtChoice \/ AtPanic \/ AtHeader \/ AtLast \/ AtEncode \/ AtRead \/ AtStart \/ AtDecode \/ AtEnd
  BY Zenon DEF SectionOnItsWay
<1>2. /\ AtChoice => step = "choose tables"
      /\ AtPanic => step = "panicked"
      /\ AtHeader => step = "write header"
      /\ AtLast => step = "encode last"
      /\ AtEncode => step = "encode"
      /\ AtRead => step = "read header"
      /\ AtStart => step = "start"
      /\ AtDecode => step = "decode"
      /\ AtEnd => step = "done"
  BY Zenon DEF AtChoice, AtPanic, AtHeader, AtLast, AtEncode, AtRead, AtStart, AtDecode, AtEnd
<1>3. CASE ChooseTables
  <2>1. step = "choose tables"
    BY <1>3, Zenon DEF ChooseTables
  <2>2. AtChoice
    BY <1>1, <1>2, <2>1
  <2> QED
    BY <1>1, <1>3, <2>2, TablesAreChosen, Zenon
<1>4. CASE WriteHeader
  <2>1. step = "write header"
    BY <1>4, Zenon DEF WriteHeader
  <2>2. AtHeader
    BY <1>1, <1>2, <2>1
  <2> QED
    BY <1>4, <2>2, HeaderIsWritten, Zenon
<1>5. CASE EncodeLast
  <2>1. step = "encode last"
    BY <1>5, Zenon DEF EncodeLast
  <2>2. AtLast
    BY <1>1, <1>2, <2>1
  <2> QED
    BY <1>1, <1>5, <2>2, LastIsEncoded, Zenon
<1>6. CASE EncodeSequence
  <2>1. step = "encode"
    BY <1>6, Zenon DEF EncodeSequence
  <2>2. AtEncode
    BY <1>1, <1>2, <2>1
  <2> QED
    BY <1>1, <1>6, <2>2, SequenceIsEncoded, Zenon
<1>7. CASE FinishEncoding
  <2>1. step = "encode"
    BY <1>7, Zenon DEF FinishEncoding
  <2>2. AtEncode
    BY <1>1, <1>2, <2>1
  <2> QED
    BY <1>1, <1>7, <2>2, EncodingIsFinished, Zenon
<1>8. CASE ReadHeader
  <2>1. step = "read header"
    BY <1>8, Zenon DEF ReadHeader
  <2>2. AtRead
    BY <1>1, <1>2, <2>1
  <2> QED
    BY <1>1, <1>8, <2>2, TablesAreFound, Zenon
<1>9. CASE StartDecoding
  <2>1. step = "start"
    BY <1>9, Zenon DEF StartDecoding
  <2>2. AtStart
    BY <1>1, <1>2, <2>1
  <2> QED
    BY <1>1, <1>9, <2>2, DecodingIsStarted, Zenon
<1>10. CASE DecodeSequence
  <2>1. step = "decode"
    BY <1>10, Zenon DEF DecodeSequence
  <2>2. AtDecode
    BY <1>1, <1>2, <2>1
  <2> QED
    BY <1>1, <1>10, <2>2, SequenceIsDecoded, Zenon
<1>11. CASE FinishDecoding
  <2>1. step = "decode"
    BY <1>11, Zenon DEF FinishDecoding
  <2>2. AtDecode
    BY <1>1, <1>2, <2>1
  <2> QED
    BY <1>1, <1>11, <2>2, DecodingIsFinished, Zenon
<1> QED
  BY <1>3, <1>4, <1>5, <1>6, <1>7, <1>8, <1>9, <1>10, <1>11, Zenon DEF SectionNext

LEMMA NothingIsFront ==
    ASSUME sequences \in Inputs \/ sequences = <<>>
    PROVE  IsPrefix(<<>>, sequences)
<1>1. \E S : sequences \in Seq(S)
  <2>1. CASE sequences \in Inputs
    BY <2>1, InputsAssumption
  <2>2. CASE sequences = <<>>
    <3>1. sequences \in Seq(Nat)
      BY <2>2
    <3> QED
      BY <3>1
  <2> QED
    BY <2>1, <2>2
<1>5. PICK S : sequences \in Seq(S)
  BY <1>1
<1>2. Len(sequences) \in Nat /\ 0 \in 0..Len(sequences)
  BY <1>5
<1>3. SubSeq(sequences, 1, 0) = <<>>
  BY <1>5, FrontsAre
<1>4. SubSeq(<<>>, 1, 0) = <<>> /\ Len(<<>>) = 0
  OBVIOUS
<1> QED
  BY <1>2, <1>3, <1>4 DEF IsPrefix

LEMMA SectionStarts == Init => SectionOnItsWay
<1> SUFFICES ASSUME Init PROVE SectionOnItsWay
  OBVIOUS
<1>1. CASE SectionInit /\ item = Nothing
  BY <1>1, Zenon DEF SectionInit, SectionOnItsWay, AtChoice
<1>2. CASE NoSection /\ item # Nothing
  BY <1>2, Zenon DEF NoSection, SectionOnItsWay
<1>3. ASSUME item \in Items PROVE item # Nothing
  <2>1. item.kind # "nothing"
    BY <1>3 DEF Items, HeaderItems
  <2>2. Nothing.kind = "nothing"
    BY DEF Nothing
  <2> QED
    BY <2>1, <2>2
<1>4. [kind |-> "reader"] # Nothing /\ [kind |-> "writer"] # Nothing
  <2>1. [kind |-> "reader"].kind = "reader" /\ [kind |-> "writer"].kind = "writer" /\ Nothing.kind = "nothing"
    BY DEF Nothing
  <2> QED
    BY <2>1
<1>5. \/ SectionInit /\ item = Nothing
      \/ NoSection /\ (item \in Items \/ item = [kind |-> "reader"] \/ item = [kind |-> "writer"])
  BY Zenon DEF Init
<1> QED
  BY <1>1, <1>2, <1>3, <1>4, <1>5, Zenon

LEMMA SectionGoesOn ==
    ASSUME SectionOnItsWay, [Next]_vars
    PROVE  SectionOnItsWay'
<1>1. item' = item
  BY ItemStays
<1>2. CASE item = Nothing /\ SectionNext
  <2>1. AtPanic' \/ AtHeader' \/ AtLast' \/ AtEncode' \/ AtRead' \/ AtStart' \/ AtDecode' \/ AtEnd'
    BY <1>2, SectionSteps, Zenon
  <2>2. sequences' = sequences
    BY <1>2, Zenon DEF SectionNext, ChooseTables, WriteHeader, EncodeLast, EncodeSequence, FinishEncoding,
                ReadHeader, StartDecoding, DecodeSequence, FinishDecoding
  <2>3. item' = Nothing' /\ sequences' \in Inputs
    BY <1>1, <1>2, <2>2, Zenon DEF SectionOnItsWay, Nothing
  <2> QED
    BY <2>1, <2>3, Zenon DEF SectionOnItsWay
<1>3. CASE UNCHANGED sectionVars
  BY <1>1, <1>3 DEF SectionOnItsWay, sectionVars, Nothing, AtChoice, AtPanic, AtHeader, AtLast, AtEncode, AtRead,
                    AtStart, AtDecode, AtEnd
<1>4. (item = Nothing /\ SectionNext) \/ UNCHANGED sectionVars
  BY Zenon DEF Next, vars
<1> QED
  BY <1>2, <1>3, <1>4, Zenon

\* Sequences always arrive: whatever lists of sequences there are within the
\* assumption, no step of decode_sequences fails on what compress_block wrote, it
\* has always a beginning of the list, and the list in the end; the encoder panics
\* for codes that are all 0 only.
THEOREM SequencesAlwaysArrive == Spec => []SequencesArrive
<1>1. SectionOnItsWay => SequencesArrive
  <2> SUFFICES ASSUME SectionOnItsWay PROVE SequencesArrive
    OBVIOUS
  <2>1. CASE item # Nothing
    <3>1. step = "idle" /\ target = <<>> /\ sequences = <<>>
      BY <2>1 DEF SectionOnItsWay
    <3>2. IsPrefix(target, sequences)
      BY <3>1, NothingIsFront
    <3> QED
      BY <3>1, <3>2 DEF SequencesArrive
  <2>2. CASE item = Nothing
    <3>1. /\ sequences \in Inputs
          /\ AtChoice \/ AtPanic \/ AtHeader \/ AtLast \/ AtEncode \/ AtRead \/ AtStart \/ AtDecode \/ AtEnd
      BY <2>2, Zenon DEF SectionOnItsWay
    <3>2. /\ step # "failed" /\ (step = "panicked" => \E kind \in Kinds : Range(CodesIn(sequences, kind)) = {0})
          /\ (step = "done" => target = sequences)
      BY <3>1 DEF AtChoice, AtPanic, AtHeader, AtLast, AtEncode, AtRead, AtStart, AtDecode, AtEnd
    <3>3. target = <<>> \/ \E d \in 0..Len(sequences) : target = SubSeq(sequences, 1, d)
      <4>1. CASE AtEnd
        <5>1. Len(sequences) \in 0..Len(sequences)
          BY <3>1, InputsFit
        <5>2. SubSeq(sequences, 1, Len(sequences)) = sequences
          BY <3>1, <5>1, FrontOfList
        <5> QED
          BY <4>1, <5>1, <5>2 DEF AtEnd
      <4> QED
        BY <3>1, <4>1, ZenonT(60) DEF AtChoice, AtPanic, AtHeader, AtLast, AtEncode, AtRead, AtStart, AtDecode
    <3>4. IsPrefix(target, sequences)
      BY <3>1, <3>3, FrontOfList, NothingIsFront
    <3> QED
      BY <3>2, <3>4 DEF SequencesArrive
  <2> QED
    BY <2>1, <2>2
<1>2. SectionOnItsWay /\ [Next]_vars => SectionOnItsWay'
  BY SectionGoesOn
<1> QED
  BY <1>1, <1>2, SectionStarts, PTL DEF Spec

-----------------------------------------------------------------------------
(* The bits underneath: what BitContainerProofs proves of readers and      *)
(* writers holds of those of the codecs, which are defined alike           *)

Containers == INSTANCE BitContainerProofs
    WITH Widths <- ReadWidths, rd <- made, got <- received, w <- made

LEMMA SameReader == Reader!Init = Containers!Init /\ Reader!Next = Containers!Next
<1>1. \A word, n : Reader!Shl(word, n) = Containers!Shl(word, n)
  BY Zenon DEF Reader!Shl, Containers!Shl, Reader!Places, Containers!Places
<1>2. \A r : Reader!BitsRemaining(r) = Containers!BitsRemaining(r)
  BY Zenon DEF Reader!BitsRemaining, Containers!BitsRemaining
<1>3. Reader!Init = Containers!Init
  BY Zenon
  DEF Reader!Init, Containers!Init, Reader!New, Containers!New, Reader!Empty, Containers!Empty,
      Reader!Places, Containers!Places
<1>4. \A source, index : Reader!Eight(source, index) = Containers!Eight(source, index)
  BY Zenon
  DEF Reader!Eight, Containers!Eight, Reader!Places, Containers!Places, Reader!Source!Bit,
      Containers!Source!Bit
<1>5. \A source : Reader!FirstEight(source) = Containers!FirstEight(source)
  BY Zenon
  DEF Reader!FirstEight, Containers!FirstEight, Reader!Places, Containers!Places, Reader!Source!Bit,
      Containers!Source!Bit
<1>6. \A r, bytes : Reader!MovedDown(r, bytes) = Containers!MovedDown(r, bytes)
  BY <1>4, Zenon DEF Reader!MovedDown, Containers!MovedDown
<1>7. \A r, container, used :
          Reader!AtFront(r, container, used) = Containers!AtFront(r, container, used)
  BY <1>1, Zenon DEF Reader!AtFront, Containers!AtFront
<1>8. \A r : Reader!Refill(r) = Containers!Refill(r)
  BY <1>5, <1>6, <1>7, Zenon
  DEF Reader!Refill, Containers!Refill, Reader!Empty, Containers!Empty, Reader!Places,
      Containers!Places
<1>9. \A r, skipped, n : Reader!Peek(r, skipped, n) = Containers!Peek(r, skipped, n)
  BY Zenon DEF Reader!Peek, Containers!Peek
<1>10. \A r, n : Reader!Ready(r, n) = Containers!Ready(r, n)
  BY <1>8, Zenon DEF Reader!Ready, Containers!Ready
<1>11. \A n : Reader!GetBits(n) = Containers!GetBits(n)
  BY <1>9, <1>10, Zenon DEF Reader!GetBits, Containers!GetBits, Reader!Consume, Containers!Consume
<1>12. \A n1, n2, n3 : Reader!ThreeAtOnce(n1, n2, n3) = Containers!ThreeAtOnce(n1, n2, n3)
  BY <1>8, <1>9, Zenon
  DEF Reader!ThreeAtOnce, Containers!ThreeAtOnce, Reader!Consume, Containers!Consume
<1>13. \A n1, n2, n3 : Reader!OneByOne(n1, n2, n3) = Containers!OneByOne(n1, n2, n3)
  <2> TAKE n1, n2, n3
  <2> QED
    BY <1>9, <1>10 DEF Reader!OneByOne, Containers!OneByOne, Reader!Consume, Containers!Consume
<1>14. \A n1, n2, n3 : Reader!GetBitsTriple(n1, n2, n3) = Containers!GetBitsTriple(n1, n2, n3)
  <2> TAKE n1, n2, n3
  <2>1. /\ Reader!ThreeAtOnce(n1, n2, n3) = Containers!ThreeAtOnce(n1, n2, n3)
        /\ Reader!OneByOne(n1, n2, n3) = Containers!OneByOne(n1, n2, n3)
    BY <1>12, <1>13, Zenon
  <2> QED
    BY <2>1, Zenon DEF Reader!GetBitsTriple, Containers!GetBitsTriple
<1>15. Reader!Next = Containers!Next
  BY <1>2, <1>11, <1>14, Zenon DEF Reader!Next, Containers!Next
<1> QED
  BY <1>3, <1>15

LEMMA SameWriter == Writer!WriterInit = Containers!WriterInit /\ Writer!WriterNext = Containers!WriterNext
<1>1. \A word, n : Writer!Shl(word, n) = Containers!Shl(word, n)
  BY Zenon DEF Writer!Shl, Containers!Shl, Writer!Places, Containers!Places
<1>2. Writer!Garbled = Containers!Garbled
  BY DEF Writer!Garbled, Containers!Garbled
<1>3. \A a, b : Writer!Or(a, b) = Containers!Or(a, b)
  BY <1>2, Zenon DEF Writer!Or, Containers!Or
<1>4. \A x, y : Writer!OrWord(x, y) = Containers!OrWord(x, y)
  BY <1>3, Zenon DEF Writer!OrWord, Containers!OrWord, Writer!Places, Containers!Places
<1>5. \A word, n : Writer!Shr(word, n) = Containers!Shr(word, n)
  BY Zenon DEF Writer!Shr, Containers!Shr, Writer!Places, Containers!Places
<1>6. \A word, n : Writer!Mask(word, n) = Containers!Mask(word, n)
  BY Zenon DEF Writer!Mask, Containers!Mask, Writer!Places, Containers!Places
<1>7. \A word, n : Writer!LeBytes(word, n) = Containers!LeBytes(word, n)
  BY Zenon DEF Writer!LeBytes, Containers!LeBytes
<1>8. Writer!WriterInit = Containers!WriterInit
  BY Zenon
  DEF Writer!WriterInit, Containers!WriterInit, Writer!From, Containers!From, Writer!NoWord,
      Containers!NoWord, Writer!Places, Containers!Places, Writer!Sink!New, Containers!Sink!New
<1>9. \A r : Writer!Flushed(r) = Containers!Flushed(r)
  BY <1>5, <1>7, Zenon DEF Writer!Flushed, Containers!Flushed
<1>10. \A r, n : Writer!Value(r, n) = Containers!Value(r, n)
  BY Zenon
  DEF Writer!Value, Containers!Value, Writer!Places, Containers!Places, Writer!Index,
      Containers!Index
<1>11. \A r, bits, n : Writer!Warm(r, bits, n) = Containers!Warm(r, bits, n)
  BY <1>1, <1>4, Zenon DEF Writer!Warm, Containers!Warm
<1>12. \A r, bits, n : Writer!Cold(r, bits, n) = Containers!Cold(r, bits, n)
  <2> TAKE r, bits, n
  <2> QED
    BY <1>1, <1>4, <1>5, <1>6, <1>7 DEF Writer!Cold, Containers!Cold
<1>13. Writer!WriteBits = Containers!WriteBits
  BY <1>10, <1>11, <1>12, Zenon
  DEF Writer!WriteBits, Containers!WriteBits, Writer!Index, Containers!Index, Writer!Misaligned,
      Containers!Misaligned
<1>14. Writer!AppendBytes = Containers!AppendBytes
  BY <1>9, Zenon
  DEF Writer!AppendBytes, Containers!AppendBytes, Writer!Index, Containers!Index, Writer!Misaligned,
      Containers!Misaligned, Writer!Sink!New, Containers!Sink!New
<1>15. \A output, k, kept : Writer!Kept(output, k, kept) = Containers!Kept(output, k, kept)
  BY Zenon DEF Writer!Kept, Containers!Kept
<1>16. \A output, k, word : Writer!Merged(output, k, word) = Containers!Merged(output, k, word)
  BY <1>3, Zenon DEF Writer!Merged, Containers!Merged
<1>17. \A output, k, word, bytes :
          Writer!Replaced(output, k, word, bytes) = Containers!Replaced(output, k, word, bytes)
  BY Zenon DEF Writer!Replaced, Containers!Replaced
<1>18. \A output, idx, bits, upper :
          Writer!FirstByte(output, idx, bits, upper) = Containers!FirstByte(output, idx, bits, upper)
  BY <1>1, <1>15, <1>16, Zenon DEF Writer!FirstByte, Containers!FirstByte
<1>19. \A output, k, bits, lower :
          Writer!LastByte(output, k, bits, lower) = Containers!LastByte(output, k, bits, lower)
  BY <1>15, <1>16, Zenon DEF Writer!LastByte, Containers!LastByte
<1>20. \A idx, n : Writer!ChangeBits(idx, n) = Containers!ChangeBits(idx, n)
  <2> TAKE idx, n
  <2> QED
    BY <1>5, <1>9, <1>17, <1>18, <1>19
    DEF Writer!ChangeBits, Containers!ChangeBits, Writer!Places, Containers!Places, Writer!Index,
        Containers!Index, Writer!Flushable, Containers!Flushable
<1>21. Writer!ResetTo = Containers!ResetTo
  BY Zenon
  DEF Writer!ResetTo, Containers!ResetTo, Writer!From, Containers!From, Writer!NoWord,
      Containers!NoWord, Writer!Places, Containers!Places
<1>22. Writer!Dump = Containers!Dump
  BY <1>9, Zenon
  DEF Writer!Dump, Containers!Dump, Writer!Misaligned, Containers!Misaligned, Writer!Index,
      Containers!Index, Writer!From, Containers!From, Writer!NoWord, Containers!NoWord,
      Writer!Places, Containers!Places, Writer!Flushable, Containers!Flushable
<1>23. Writer!WriterNext = Containers!WriterNext
  BY <1>13, <1>14, <1>20, <1>21, <1>22, Zenon DEF Writer!WriterNext, Containers!WriterNext
<1> QED
  BY <1>8, <1>23

LEMMA SameSource == Reader!Source!Init = Containers!Source!Init /\ Reader!Source!Next = Containers!Source!Next
<1>1. \A r : Reader!BitsRemaining(r) = Containers!BitsRemaining(r)
  BY Zenon DEF Reader!BitsRemaining, Containers!BitsRemaining
<1>2. \A remaining, n : Reader!Source!Last(remaining, n) = Containers!Source!Last(remaining, n)
  BY Zenon DEF Reader!Source!Last, Containers!Source!Last, Reader!Source!Bit, Containers!Source!Bit
<1>3. Reader!Source!Init = Containers!Source!Init
  BY <1>1, Zenon DEF Reader!Source!Init, Containers!Source!Init
<1>4. \A n : Reader!Source!GetBits(n) = Containers!Source!GetBits(n)
  BY <1>2, Zenon
  DEF Reader!Source!GetBits, Containers!Source!GetBits, Reader!BitsRemaining, Containers!BitsRemaining
<1>5. \A n1, n2, n3 : Reader!Source!GetBitsTriple(n1, n2, n3) = Containers!Source!GetBitsTriple(n1, n2, n3)
  <2> TAKE n1, n2, n3
  <2> DEFINE first(r) == Containers!Source!Last(r, n1)
             second(r) == Containers!Source!Last(r - n1, n2)
             third(r) == Containers!Source!Last(r - n1 - n2, n3)
  <2>1. \A r : /\ Reader!Source!Last(r, n1) = first(r)
               /\ Reader!Source!Last(r - n1, n2) = second(r)
               /\ Reader!Source!Last(r - n1 - n2, n3) = third(r)
    BY <1>2, Zenon
  <2> QED
    BY <2>1, Zenon
    DEF Reader!Source!GetBitsTriple, Containers!Source!GetBitsTriple, Reader!BitsRemaining,
        Containers!BitsRemaining
<1>6. Reader!Source!Next = Containers!Source!Next
  BY <1>4, <1>5, Zenon DEF Reader!Source!Next, Containers!Source!Next
<1> QED
  BY <1>3, <1>6

LEMMA SameSink ==
    /\ Writer!Sink!Init = Containers!Sink!Init /\ Writer!Sink!Next = Containers!Sink!Next
    /\ Writer!Sink!sinkVars = Containers!Sink!sinkVars
<1> USE DEF Writer!Written, Containers!Written, Writer!LeBytes, Containers!LeBytes, Writer!Index,
            Containers!Index
<1>1. \A from, n : Writer!Sink!New(from, n) = Containers!Sink!New(from, n)
  BY Zenon DEF Writer!Sink!New, Containers!Sink!New
<1>2. Writer!Sink!Init = Containers!Sink!Init
  BY <1>1, Zenon DEF Writer!Sink!Init, Containers!Sink!Init
<1>3. \A n : Writer!Sink!Extend(n) = Containers!Sink!Extend(n)
  BY <1>1, Zenon DEF Writer!Sink!Extend, Containers!Sink!Extend
<1>4. Writer!Sink!WriteBits = Containers!Sink!WriteBits
  BY <1>3, Zenon DEF Writer!Sink!WriteBits, Containers!Sink!WriteBits
<1>5. Writer!Sink!AppendBytes = Containers!Sink!AppendBytes
  BY <1>3, Zenon DEF Writer!Sink!AppendBytes, Containers!Sink!AppendBytes
<1>6. \A idx, n : Writer!Sink!ChangeBits(idx, n) = Containers!Sink!ChangeBits(idx, n)
  BY Zenon DEF Writer!Sink!ChangeBits, Containers!Sink!ChangeBits
<1>7. Writer!Sink!ResetTo = Containers!Sink!ResetTo
  BY Zenon DEF Writer!Sink!ResetTo, Containers!Sink!ResetTo
<1>8. Writer!Sink!Next = Containers!Sink!Next
  BY <1>4, <1>5, <1>6, <1>7, Zenon DEF Writer!Sink!Next, Containers!Sink!Next
<1>9. Writer!Sink!sinkVars = Containers!Sink!sinkVars
  BY Zenon DEF Writer!Sink!sinkVars, Containers!Sink!sinkVars
<1> QED
  BY <1>2, <1>8, <1>9

-----------------------------------------------------------------------------
\* Readers and writers of bits are what BitContainerProofs proves them to be,
\* and nothing else of the codecs happens to them.
BitsOnTheirWay ==
    /\ item.kind \in {"reader", "writer"} => place = "given"
    /\ item.kind = "reader" => Containers!Sound(made)
    /\ item.kind = "writer" => Containers!Orderly(made)

LEMMA BitsStart ==
    Init => /\ BitsOnTheirWay
            /\ item.kind = "reader" => Reader!Source!Init
            /\ item.kind = "writer" => Writer!Sink!Init
<1> SUFFICES ASSUME Init
             PROVE  /\ BitsOnTheirWay
                    /\ item.kind = "reader" => Reader!Source!Init
                    /\ item.kind = "writer" => Writer!Sink!Init
  OBVIOUS
<1>1. place = "given"
  BY DEF Init
<1>2. CASE item = Nothing
  BY <1>1, <1>2 DEF Nothing, BitsOnTheirWay
<1>3. CASE item \in Items
  <2>1. item.kind \in {"counts", "probabilities", "literals", "section", "frame", "block", "literals header"}
    BY <1>3 DEF Items, HeaderItems
  <2> QED
    BY <1>1, <2>1 DEF BitsOnTheirWay
<1>4. CASE item = [kind |-> "reader"] /\ Reader!Init
  <2>1. item.kind = "reader"
    BY <1>4
  <2>2. Containers!Sound(made) /\ Containers!Source!Init
    BY <1>4, SameReader, Containers!InitIsSound
  <2> QED
    BY <1>1, <2>1, <2>2, SameSource DEF BitsOnTheirWay
<1>5. CASE item = [kind |-> "writer"] /\ Writer!WriterInit
  <2>1. item.kind = "writer"
    BY <1>5
  <2>2. Containers!Orderly(made) /\ Containers!Sink!Init
    BY <1>5, SameWriter, Containers!InitIsOrderly
  <2> QED
    BY <1>1, <2>1, <2>2, SameSink DEF BitsOnTheirWay
<1> QED
  BY <1>2, <1>3, <1>4, <1>5 DEF Init

\* What a step of the codecs may do to bits.
BitsGoOn ==
    /\ BitsOnTheirWay'
    /\ item' = item
    /\ item.kind = "reader" => Reader!Source!Next \/ UNCHANGED <<made, received>>
    /\ item.kind = "writer" => [Writer!Sink!Next]_(Writer!Sink!sinkVars) \/ UNCHANGED made

LEMMA BitsStep == BitsOnTheirWay /\ [Next]_vars => BitsGoOn
<1> SUFFICES ASSUME BitsOnTheirWay, [Next]_vars PROVE BitsGoOn
  OBVIOUS
<1>s. Containers!Sound(made)' <=> Containers!Sound(made')
  BY Zenon DEF Containers!Sound, Containers!Readers, Containers!IndexFits, Containers!ContainerMatches
<1>o. Containers!Orderly(made)' <=> Containers!Orderly(made')
  BY Zenon DEF Containers!Orderly, Containers!Writers
<1>1. CASE UNCHANGED codecVars
  BY <1>1, <1>s, <1>o DEF codecVars, BitsOnTheirWay, BitsGoOn
<1>2. CASE CodecNext
  <2>1. item' = item
    BY <1>2
    DEF CodecNext, MakeTable, SendTable, ReceiveTable, Weigh, AssignCodes, SendWeights, ReceiveWeights,
        ChooseTable, StartSection, WriteStream, FinishSection, ReceiveSection, ReceiveStream,
        FinishReceiving, HeaderNext, WriteItem, ReadItem
  <2>2. ~(item.kind \in {"reader", "writer"})
    BY <1>2
    DEF CodecNext, MakeTable, SendTable, ReceiveTable, Weigh, AssignCodes, SendWeights, ReceiveWeights,
        ChooseTable, StartSection, WriteStream, FinishSection, ReceiveSection, ReceiveStream,
        FinishReceiving, HeaderNext, WriteItem, ReadItem, IsHeader, BitsOnTheirWay
  <2> QED
    BY <2>1, <2>2 DEF BitsOnTheirWay, BitsGoOn
<1>3. CASE item.kind = "reader" /\ Reader!Next /\ UNCHANGED <<item, place, sent>>
  <2>1. Containers!Sound(made)' /\ [Containers!Source!Next]_(Containers!readerVars)
    BY <1>3, SameReader, Containers!NextIsSound DEF BitsOnTheirWay
  <2> QED
    BY <1>3, <2>1, SameSource DEF BitsOnTheirWay, BitsGoOn, Containers!readerVars
<1>4. CASE item.kind = "writer" /\ Writer!WriterNext /\ UNCHANGED <<item, place, sent, received>>
  <2>1. Containers!Orderly(made)' /\ [Containers!Sink!Next]_made
    BY <1>4, SameWriter, Containers!StepIsStep DEF BitsOnTheirWay
  <2> QED
    BY <1>4, <2>1, SameSink DEF BitsOnTheirWay, BitsGoOn
<1> QED
  BY <1>1, <1>2, <1>3, <1>4 DEF Next, BitNext, vars, codecVars

\* What a step does to a reader and to a writer, as the properties say it.
LEMMA BitsStepIs ==
    BitsOnTheirWay /\ [Next]_vars =>
        /\ BitsOnTheirWay'
        /\ [item.kind = "reader" => Reader!Source!Next]_<<made, received>>
        /\ [item.kind = "writer" => [Writer!Sink!Next]_(Writer!Sink!sinkVars)]_made
  BY BitsStep DEF BitsGoOn

\* The codecs' readers implement the plain source: the containers of
\* bit_reader_reverse.rs do not show, for all sources, widths and calls.
THEOREM ReadersImplementSource == Spec => ImplementsBitSource
  BY BitsStart, BitsStepIs, PTL DEF Spec, ImplementsBitSource

\* The codecs' writers implement the plain sink: the word of bit_writer.rs that
\* is not yet full does not show, for all widths, changes and resets.
THEOREM WritersImplementSink == Spec => ImplementsBitSink
  BY BitsStart, BitsStepIs, PTL DEF Spec, ImplementsBitSink

=============================================================================
