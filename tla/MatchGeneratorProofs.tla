------------------------- MODULE MatchGeneratorProofs -------------------------
(***************************************************************************)
(* The matcher, for all blocks, slice sizes, window sizes and hash         *)
(* functions.  The argument: the distances the entries keep are where      *)
(* their data stands in the input, measured from its end; a table only     *)
(* holds places of its own entry; so what a candidate copies is what comes *)
(* next, and what the sequences stand for stays a prefix of the input.     *)
(***************************************************************************)
EXTENDS MatchGenerator, NaturalsInduction, WellFoundedInduction,
        FiniteSetTheorems, SequenceTheorems, TLAPS
-----------------------------------------------------------------------------
(* The inductive invariant.                                                *)

\* A table of at most as many slots as a block has bytes.
Tables == UNION {[0..(slots - 1) -> Nat \cup {None}] : slots \in 1..SliceSize}

Entries == [data : Seq(Byte), suffixes : Tables, base_offset : Nat]

TypeOK ==
    /\ window \in Seq(Entries) /\ suffix_pool \in Seq(Tables)
    /\ suffix_idx \in Nat /\ last_idx_in_sequence \in Nat /\ window_size \in Nat
    /\ pc \in {"idle", "committed", "matching"}
    /\ input \in Seq(Byte)

\* How far the k-th entry starts from the end of the window; past the last
\* entry there is nothing.
Distance(entries, k) ==
    IF k \in 1..Len(entries) THEN entries[k].base_offset + Len(entries[Len(entries)].data) ELSE 0

\* The entries follow each other without a gap.
Contiguous(entries) ==
    /\ \A k \in 1..Len(entries) :
          Distance(entries, k) = Len(entries[k].data) + Distance(entries, k + 1)
    /\ \A j, k \in 1..Len(entries) : j <= k => Distance(entries, k) <= Distance(entries, j)

\* Each holds what the input has at its distance from the end.
InPlace(entries, bytes) ==
    \A k \in 1..Len(entries) : \A i \in 1..Len(entries[k].data) :
        entries[k].data[i] = bytes[Len(bytes) - Distance(entries, k) + i]

WindowInPlace ==
    /\ Contiguous(window) /\ InPlace(window, input)
    /\ window_size = Distance(window, 1)
    /\ window_size <= Len(input) /\ window_size <= MaxWindowSize

IndicesInOrder ==
    /\ window = <<>> => pc = "idle"
    /\ window # <<>> => /\ last_idx_in_sequence <= suffix_idx /\ suffix_idx <= Len(Data)
                        /\ pc = "idle" => last_idx_in_sequence = Len(Data)
    /\ pc = "committed" => last_idx_in_sequence = 0

Cleared(tables) == \A k \in 1..Len(tables) : \A s \in DOMAIN tables[k] : tables[k][s] = None

PoolIsCleared == Cleared(suffix_pool)

IInv ==
    /\ TypeOK /\ WindowInPlace /\ IndicesInOrder /\ PoolIsCleared
    /\ TablesPointIntoTheirData /\ SequencesReproduceData

-----------------------------------------------------------------------------
(* Numbers and sums.                                                       *)

\* A nonempty set of numbers has a least element.
LEMMA LeastNumber ==
    ASSUME NEW T \in SUBSET Nat, T # {}
    PROVE  \E m \in T : \A n \in T : m <= n
<1>1. PICK m \in T : \A y \in T : ~ (<<y, m>> \in OpToRel(<, Nat))
  BY NatLessThanWellFounded, WFMin, Zenon
<1>2. \A y \in T : ~(y < m)
  BY <1>1, Zenon DEF OpToRel
<1> QED
  BY <1>2

\* Induction, stated with a set: no operator parameter is needed.
LEMMA InductionOnSets ==
    ASSUME NEW S \in SUBSET Nat, 0 \in S, \A n \in S : n + 1 \in S
    PROVE  \A n \in Nat : n \in S
<1> DEFINE T == Nat \ S
<1> SUFFICES ASSUME T # {} PROVE FALSE
  OBVIOUS
<1>1. PICK m \in T : \A n \in T : m <= n
  BY LeastNumber
<1>2. m # 0 /\ m \in Nat
  OBVIOUS
<1>3. m - 1 \in Nat /\ ~(m <= m - 1) /\ (m - 1) + 1 = m
  BY <1>2
<1>4. m - 1 \in S
  BY <1>1, <1>3
<1> QED
  BY <1>3, <1>4

\* The smallest number that a set has.
LEMMA LeastOfSet ==
    ASSUME NEW T \in SUBSET Nat, T # {}
    PROVE  Min(T) \in T /\ \A n \in T : Min(T) <= n
BY LeastNumber, Zenon DEF Min

\* A bounded set of numbers has a greatest one.
LEMMA GreatestOfSet ==
    ASSUME NEW n \in Nat, NEW T \in SUBSET (0..n), T # {}
    PROVE  Max(T) \in T /\ \A m \in T : m <= Max(T)
<1> DEFINE R == {n - m : m \in T}
<1>1. R \in SUBSET Nat /\ R # {}
  <2>1. \A m \in T : m \in Nat /\ m <= n
    OBVIOUS
  <2>2. \A m \in T : n - m \in Nat
    BY <2>1
  <2>3. \A r \in R : r \in Nat
    BY <2>2, Zenon DEF R
  <2> QED
    BY <2>3, Zenon DEF R
<1>2. PICK r \in R : \A q \in R : r <= q
  BY <1>1, LeastNumber
<1>3. PICK t \in T : r = n - t
  OBVIOUS
<1>4. \A m \in T : n - t <= n - m
  BY <1>2, <1>3
<1>5. \A m \in T : m <= t
  BY <1>4
<1> QED
  BY <1>5, Zenon DEF Max

\* Where the distances of the entries say so, the bytes of some entries in a
\* row are the difference of two distances.
LEMMA BytesBetween ==
    ASSUME NEW w \in Seq(Entries), Contiguous(w),
           NEW i \in 1..(Len(w) + 1), NEW j \in (i - 1)..Len(w)
    PROVE  Bytes(SubSeq(w, i, j)) = Distance(w, i) - Distance(w, j + 1)
<1> DEFINE e == SubSeq(w, i, j)
           n == j - i + 1
           d(k) == Distance(w, i) - Distance(w, i + k)
           Solves(f) == f = [k \in 0..n |-> IF k = 0 THEN 0 ELSE f[k - 1] + Len(e[k].data)]
           explicit == [k \in 0..n |-> d(k)]
           sum == CHOOSE f : Solves(f)
<1>1. n \in Nat /\ Len(w) \in Nat /\ i \in Nat /\ j \in Nat /\ i + n = j + 1
  OBVIOUS
<1>2. Len(e) = n /\ \A k \in 1..n : e[k] = w[i + k - 1]
  OBVIOUS
<1>3. \A k \in 1..(Len(w) + 1) : Distance(w, k) \in Nat
  <2>1. ASSUME NEW k \in 1..Len(w) PROVE w[k] \in Entries
    OBVIOUS
  <2> QED
    BY <2>1, SMTT(40) DEF Distance, Entries
<1>4. \A k \in 1..n : Len(e[k].data) = d(k) - d(k - 1) /\ d(k) \in Int /\ d(k - 1) \in Int
  <2> SUFFICES ASSUME NEW k \in 1..n
               PROVE  Len(e[k].data) = d(k) - d(k - 1) /\ d(k) \in Int /\ d(k - 1) \in Int
    OBVIOUS
  <2> DEFINE p == i + k - 1
  <2>1. /\ p \in 1..Len(w) /\ p \in 1..(Len(w) + 1) /\ p + 1 \in 1..(Len(w) + 1) /\ i \in 1..(Len(w) + 1)
        /\ i + k = p + 1 /\ i + (k - 1) = p
    BY <1>1
  <2>2. Distance(w, p) \in Nat /\ Distance(w, p + 1) \in Nat /\ Distance(w, i) \in Nat
    BY <1>3, <2>1, Zenon
  <2>3. Distance(w, p) = Len(w[p].data) + Distance(w, p + 1)
    BY <2>1, Zenon DEF Contiguous
  <2>4. e[k] = w[p]
    BY <1>2
  <2>5. Len(w[p].data) \in Nat
    <3>1. w[p] \in Entries
      BY <2>1
    <3> QED
      BY <3>1 DEF Entries
  <2>6. d(k) = Distance(w, i) - Distance(w, p + 1) /\ d(k - 1) = Distance(w, i) - Distance(w, p)
    BY <2>1, Zenon
  <2> HIDE DEF p, d
  <2> DEFINE a == Distance(w, i)
             b == Distance(w, p)
             c == Distance(w, p + 1)
             l == Len(w[p].data)
  <2>7. /\ a \in Nat /\ b \in Nat /\ c \in Nat /\ l \in Nat /\ b = l + c
        /\ d(k) = a - c /\ d(k - 1) = a - b
    BY <2>2, <2>3, <2>5, <2>6, Zenon
  <2> HIDE DEF a, b, c, l
  <2>8. l = d(k) - d(k - 1) /\ d(k) \in Int /\ d(k - 1) \in Int
    BY <2>7
  <2> QED
    BY <2>4, <2>8, Zenon DEF l
<1>5. d(0) = 0
  <2>1. i + 0 = i /\ i \in 1..(Len(w) + 1)
    BY <1>1
  <2> QED
    BY <1>3, <2>1
<1> HIDE DEF e, d
<1>6. \A k \in 0..n : explicit[k] = IF k = 0 THEN 0 ELSE explicit[k - 1] + Len(e[k].data)
  <2> SUFFICES ASSUME NEW k \in 0..n
               PROVE  explicit[k] = IF k = 0 THEN 0 ELSE explicit[k - 1] + Len(e[k].data)
    OBVIOUS
  <2>1. CASE k = 0
    BY <1>5, <2>1
  <2>2. CASE k # 0
    <3>1. k \in 1..n /\ k - 1 \in 0..n
      BY <1>1, <2>2
    <3>2. explicit[k] = d(k) /\ explicit[k - 1] = d(k - 1)
      BY <3>1
    <3> QED
      BY <1>4, <2>2, <3>1, <3>2
  <2> QED
    BY <2>1, <2>2
<1>7. Solves(explicit)
  <2>1. explicit = [k \in 0..n |-> explicit[k]]
    OBVIOUS
  <2> HIDE DEF explicit
  <2> QED
    BY <1>6, <2>1
<1>8. Solves(sum)
  BY <1>7, Zenon DEF sum
<1>9. Bytes(e) = sum[n]
  <2>1. Bytes(e) = LET f == CHOOSE f : f = [k \in 0..Len(e) |-> IF k = 0 THEN 0 ELSE f[k - 1] + Len(e[k].data)]
                   IN  f[Len(e)]
    BY Zenon DEF Bytes
  <2> QED
    BY <1>2, <2>1, Zenon
<1> HIDE DEF sum
<1>10. \A k \in 0..n : sum[k] = IF k = 0 THEN 0 ELSE sum[k - 1] + Len(e[k].data)
  BY <1>8, Zenon
<1> DEFINE S == {k \in Nat : k <= n => sum[k] = d(k)}
<1>11. 0 \in S
  <2>1. 0 \in 0..n
    BY <1>1
  <2> QED
    BY <1>5, <1>10, <2>1, Zenon
<1>12. ASSUME NEW k \in S PROVE k + 1 \in S
  <2> SUFFICES ASSUME k + 1 <= n PROVE sum[k + 1] = d(k + 1)
    OBVIOUS
  <2>1. /\ k \in Nat /\ k <= n /\ k + 1 \in 0..n /\ k + 1 \in 1..n
        /\ (k + 1) - 1 = k /\ k + 1 # 0
    BY <1>1
  <2>2. sum[k + 1] = sum[k] + Len(e[k + 1].data)
    BY <1>10, <2>1
  <2>3. Len(e[k + 1].data) = d(k + 1) - d(k) /\ d(k + 1) \in Int /\ d(k) \in Int
    BY <1>4, <2>1
  <2> QED
    BY <2>1, <2>2, <2>3
<1> HIDE DEF S
<1>13. \A k \in Nat : k \in S
  BY <1>11, <1>12, InductionOnSets DEF S
<1>14. sum[n] = d(n)
  BY <1>1, <1>13 DEF S
<1> QED
  BY <1>1, <1>9, <1>14 DEF e, d
-----------------------------------------------------------------------------
(* Tables.                                                                 *)

\* A part of a sequence.
LEMMA Part ==
    ASSUME NEW S, NEW p \in Seq(S), NEW b \in 0..Len(p), NEW a \in 1..(b + 1)
    PROVE  /\ SubSeq(p, a, b) \in Seq(S) /\ Len(SubSeq(p, a, b)) = b - a + 1
           /\ \A k \in 1..(b - a + 1) : SubSeq(p, a, b)[k] = p[a + k - 1]
  OBVIOUS

\* A table's slots are numbered from 0.
LEMMA TableSlots ==
    ASSUME NEW t \in Tables
    PROVE  /\ Slots(t) \in 1..SliceSize /\ DOMAIN t = 0..(Slots(t) - 1)
           /\ \A s \in DOMAIN t : t[s] \in Nat \cup {None}
<1>1. PICK n \in 1..SliceSize : t \in [0..(n - 1) -> Nat \cup {None}]
  BY Zenon DEF Tables
<1>2. n \in Nat /\ DOMAIN t = 0..(n - 1)
  BY <1>1, SlicesAssumption
<1>3. Cardinality(0..(n - 1)) = n
  <2>1. 0 \in Int /\ n - 1 \in Int
    BY <1>2
  <2>2. Cardinality(0..(n - 1)) = IF 0 > n - 1 THEN 0 ELSE (n - 1) - 0 + 1
    BY <2>1, FS_Interval
  <2> QED
    BY <1>2, <2>2
<1> QED
  BY <1>1, <1>2, <1>3 DEF Slots

\* Empty tables, new ones and those on their way to the pool.
LEMMA EmptyTables ==
    ASSUME NEW n \in 1..SliceSize
    PROVE  WithCapacity(n) \in Tables /\ \A s \in DOMAIN WithCapacity(n) : WithCapacity(n)[s] = None
<1>1. WithCapacity(n) \in [0..(n - 1) -> Nat \cup {None}]
  BY DEF WithCapacity
<1>2. WithCapacity(n) \in Tables
  BY <1>1, Zenon DEF Tables
<1> QED
  BY <1>2 DEF WithCapacity

\* What reset puts back into the pool is a pool of empty tables.
LEMMA RecycledTables ==
    ASSUME NEW w \in Seq(Entries)
    PROVE  RecycledStores(w) \in Seq(Tables) /\ Cleared(RecycledStores(w))
<1>1. ASSUME NEW k \in 1..Len(w)
      PROVE  /\ Recycled(w[k].suffixes) \in Tables
             /\ \A s \in DOMAIN Recycled(w[k].suffixes) : Recycled(w[k].suffixes)[s] = None
  <2>1. w[k] \in Entries
    OBVIOUS
  <2>2. w[k].suffixes \in Tables
    BY <2>1, Zenon DEF Entries
  <2>3. Slots(w[k].suffixes) \in 1..SliceSize
    BY <2>2, TableSlots
  <2> QED
    BY <2>3, EmptyTables, Zenon DEF Recycled
<1>2. Len(w) \in Nat
  OBVIOUS
<1> DEFINE r == RecycledStores(w)
<1>3. r \in [1..Len(w) -> Tables] /\ \A k \in 1..Len(w) : r[k] = Recycled(w[k].suffixes)
  BY <1>1, Zenon DEF RecycledStores
<1> HIDE DEF r
<1>4. r \in Seq(Tables) /\ Len(r) = Len(w)
  BY <1>2, <1>3
<1> QED
  BY <1>1, <1>3, <1>4, ZenonT(40) DEF r, Cleared

\* Two pools of empty tables are one.
LEMMA PoolsTogether ==
    ASSUME NEW p \in Seq(Tables), NEW q \in Seq(Tables), Cleared(p), Cleared(q)
    PROVE  p \o q \in Seq(Tables) /\ Cleared(p \o q)
<1>1. p \o q \in Seq(Tables) /\ Len(p \o q) = Len(p) + Len(q) /\ Len(p) \in Nat /\ Len(q) \in Nat
  OBVIOUS
<1>2. ASSUME NEW k \in 1..Len(p \o q), NEW s \in DOMAIN (p \o q)[k]
      PROVE  (p \o q)[k][s] = None
  <2>1. CASE k <= Len(p)
    <3>1. (p \o q)[k] = p[k] /\ k \in 1..Len(p)
      BY <1>1, <2>1
    <3> QED
      BY <3>1, Zenon DEF Cleared
  <2>2. CASE ~(k <= Len(p))
    <3>1. (p \o q)[k] = q[k - Len(p)] /\ k - Len(p) \in 1..Len(q)
      BY <1>1, <2>2
    <3> QED
      BY <3>1, Zenon DEF Cleared
  <2> QED
    BY <2>1, <2>2
<1> QED
  BY <1>1, <1>2, Zenon DEF Cleared

\* What the pool gives and what it keeps.
LEMMA PoolPopped ==
    ASSUME NEW p \in Seq(Tables), p # <<>>, Cleared(p)
    PROVE  /\ Last(p) \in Tables /\ \A s \in DOMAIN Last(p) : Last(p)[s] = None
           /\ Front(p) \in Seq(Tables) /\ Cleared(Front(p))
<1>1. Len(p) \in Nat /\ Len(p) \in 1..Len(p)
  OBVIOUS
<1>2. Last(p) = p[Len(p)] /\ Front(p) = SubSeq(p, 1, Len(p) - 1)
  BY DEF Last, Front
<1>3. /\ SubSeq(p, 1, Len(p) - 1) \in Seq(Tables)
      /\ Len(SubSeq(p, 1, Len(p) - 1)) = Len(p) - 1
      /\ \A k \in 1..(Len(p) - 1) : SubSeq(p, 1, Len(p) - 1)[k] = p[k] /\ k \in 1..Len(p)
  <2> DEFINE n == Len(p) - 1
  <2>1. /\ n \in 0..Len(p) /\ n - 1 + 1 = n /\ 1 \in 1..(n + 1)
        /\ \A k \in 1..n : k \in 1..Len(p) /\ 1 + k - 1 = k
    BY <1>1
  <2> HIDE DEF n
  <2>2. /\ SubSeq(p, 1, n) \in Seq(Tables) /\ Len(SubSeq(p, 1, n)) = n - 1 + 1
        /\ \A k \in 1..(n - 1 + 1) : SubSeq(p, 1, n)[k] = p[1 + k - 1]
    BY <2>1, Part, ZenonT(40)
  <2> QED
    BY <2>1, <2>2, Zenon DEF n
<1>4. Cleared(Front(p))
  BY <1>2, <1>3, ZenonT(40) DEF Cleared
<1>5. p[Len(p)] \in Tables
  BY <1>1
<1> QED
  BY <1>1, <1>2, <1>3, <1>4, <1>5, Zenon DEF Cleared

\* A key is found in a slot of the table.
LEMMA SlotInTable ==
    ASSUME NEW t \in Tables, NEW data \in Seq(Byte), NEW idx \in Nat, idx + MinMatchLen <= Len(data)
    PROVE  SlotOf(t, Key(data, idx)) \in DOMAIN t
<1>1. MinMatchLen \in Nat
  BY MinMatchLenAssumption
<1>2. Key(data, idx) \in [1..MinMatchLen -> Byte]
  <2>1. /\ Key(data, idx) \in Seq(Byte) /\ Len(Key(data, idx)) = MinMatchLen
    BY <1>1 DEF Key
  <2> QED
    BY <2>1
<1>3. Slots(t) \in 1..SliceSize /\ DOMAIN t = 0..(Slots(t) - 1)
  BY TableSlots
<1> QED
  BY <1>2, <1>3, SlotAssumption, Zenon DEF SlotOf

\* Inserting indices changes slots to some of them.
LEMMA InsertedIndices ==
    ASSUME NEW t \in Tables, NEW data, NEW a \in Nat, NEW b \in Int
    PROVE  /\ Inserted(t, data, a..b) \in Tables /\ DOMAIN Inserted(t, data, a..b) = DOMAIN t
           /\ \A s \in DOMAIN t : \/ Inserted(t, data, a..b)[s] = t[s]
                                  \/ Inserted(t, data, a..b)[s] \in a..b
<1> DEFINE same(s) == {i \in a..b : SlotOf(t, Key(data, i)) = s}
           r == Inserted(t, data, a..b)
<1>1. PICK n \in 1..SliceSize : t \in [0..(n - 1) -> Nat \cup {None}]
  BY Zenon DEF Tables
<1>2. DOMAIN t = 0..(n - 1) /\ \A s \in DOMAIN t : t[s] \in Nat \cup {None}
  BY <1>1, Zenon
<1>3. r = [s \in DOMAIN t |-> IF t[s] # None \/ same(s) = {} THEN t[s] ELSE Min(same(s))]
  BY Zenon DEF Inserted
<1>4. ASSUME NEW s, same(s) # {} PROVE Min(same(s)) \in a..b
  <2>1. same(s) \in SUBSET Nat
    OBVIOUS
  <2>2. Min(same(s)) \in same(s)
    BY <1>4, <2>1, LeastOfSet
  <2> QED
    BY <2>2, Zenon
<1> HIDE DEF r, same
<1>5. ASSUME NEW s \in DOMAIN t PROVE r[s] = t[s] \/ r[s] \in a..b
  BY <1>3, <1>4, Zenon
<1>6. \A i \in a..b : i \in Nat
  OBVIOUS
<1>7. \A s \in DOMAIN t : r[s] \in Nat \cup {None}
  BY <1>2, <1>5, <1>6, Zenon
<1>8. r \in [0..(n - 1) -> Nat \cup {None}]
  BY <1>2, <1>3, <1>7, Zenon
<1>9. r \in Tables
  BY <1>8, Zenon DEF Tables
<1>10. DOMAIN r = DOMAIN t
  BY <1>3, Zenon
<1> QED
  BY <1>5, <1>9, <1>10, Zenon DEF r
-----------------------------------------------------------------------------
(* A block is committed.                                                   *)

\* Distances are numbers, none is larger than the first.
LEMMA Distances ==
    ASSUME NEW w \in Seq(Entries), Contiguous(w)
    PROVE  /\ \A k \in Nat : Distance(w, k) \in Nat
           /\ \A k \in 1..Len(w) : /\ w[k] \in Entries /\ w[k].data \in Seq(Byte)
                                   /\ w[k].base_offset \in Nat
                                   /\ Len(w[k].data) <= Distance(w, k)
                                   /\ Distance(w, k) <= Distance(w, 1)
<1>1. ASSUME NEW k \in 1..Len(w)
      PROVE  /\ w[k] \in Entries /\ w[k].data \in Seq(Byte) /\ w[k].base_offset \in Nat
             /\ Len(w[k].data) \in Nat
  <2>1. w[k] \in Entries
    OBVIOUS
  <2>2. w[k].data \in Seq(Byte) /\ w[k].base_offset \in Nat
    BY <2>1, Zenon DEF Entries
  <2> QED
    BY <2>1, <2>2
<1>2. ASSUME NEW k \in Nat PROVE Distance(w, k) \in Nat
  <2>1. CASE k \in 1..Len(w)
    <3>1. Len(w) \in 1..Len(w)
      BY <2>1
    <3> QED
      BY <1>1, <2>1, <3>1 DEF Distance
  <2> QED
    BY <2>1 DEF Distance
<1>3. ASSUME NEW k \in 1..Len(w)
      PROVE  Len(w[k].data) <= Distance(w, k) /\ Distance(w, k) <= Distance(w, 1)
  <2>1. k \in Nat /\ k + 1 \in Nat /\ 1 \in 1..Len(w) /\ 1 <= k
    OBVIOUS
  <2>2. Distance(w, k) = Len(w[k].data) + Distance(w, k + 1)
    BY Zenon DEF Contiguous
  <2>3. Distance(w, k) <= Distance(w, 1)
    BY <2>1, Zenon DEF Contiguous
  <2>4. Distance(w, k) \in Nat /\ Distance(w, k + 1) \in Nat /\ Len(w[k].data) \in Nat
    BY <1>1, <1>2, <2>1
  <2> QED
    BY <2>2, <2>3, <2>4
<1> QED
  BY <1>1, <1>2, <1>3

\* What CommitSpace makes of the window when n entries leave.
Committed(w, n, space, t) ==
    Append(Moved(SubSeq(w, n + 1, Len(w))), [data |-> space, suffixes |-> t, base_offset |-> 0])

\* c has the last m entries of w, further from the end by the new entry.
Follows(c, w, n, space, t) ==
    LET m == Len(w) - n
    IN  /\ c \in Seq(Entries) /\ Len(c) = m + 1
        /\ c[m + 1].data = space /\ c[m + 1].suffixes = t
        /\ \A k \in 1..m : c[k].data = w[n + k].data /\ c[k].suffixes = w[n + k].suffixes
        /\ \A k \in 1..(m + 1) : Distance(c, k) = Distance(w, n + k) + Len(space)
        /\ Distance(c, m + 2) = 0

\* The window after add_data: entries, with a table and a distance each.
LEMMA CommittedEntries ==
    ASSUME NEW w \in Seq(Entries), Contiguous(w), NEW n \in 0..Len(w),
           NEW space \in Spaces, NEW t \in Tables
    PROVE  Follows(Committed(w, n, space, t), w, n, space, t)
<1> DEFINE c == Committed(w, n, space, t)
           m == Len(w) - n
           kept == SubSeq(w, n + 1, Len(w))
           last == Len(w[Len(w)].data)
           moved(k) == [w[n + k] EXCEPT !.base_offset = @ + last]
           e == [data |-> space, suffixes |-> t, base_offset |-> 0]
<1>1. m \in Nat /\ n \in Nat /\ Len(w) \in Nat /\ n + m = Len(w) /\ n + (m + 1) = Len(w) + 1
  OBVIOUS
<1>2. space \in Seq(Byte) /\ Len(space) \in Nat
  BY SpacesAssumption
<1>3. kept \in Seq(Entries) /\ Len(kept) = m /\ \A k \in 1..m : kept[k] = w[n + k] /\ n + k \in 1..Len(w)
  OBVIOUS
<1> HIDE DEF m, kept, last
<1>4. m # 0 => Last(kept) = w[Len(w)]
  <2> SUFFICES ASSUME m # 0 PROVE Last(kept) = w[Len(w)]
    OBVIOUS
  <2>1. m \in 1..m
    BY <1>1
  <2>2. kept[Len(kept)] = w[Len(w)]
    BY <1>1, <1>3, <2>1
  <2> QED
    BY <2>2, Zenon DEF Last
<1>5. ASSUME NEW k \in 1..m
      PROVE  /\ moved(k) \in Entries /\ moved(k).data = w[n + k].data
             /\ moved(k).suffixes = w[n + k].suffixes
             /\ moved(k).base_offset = w[n + k].base_offset + last
  <2>1. n + k \in 1..Len(w) /\ Len(w) \in 1..Len(w)
    BY <1>1, <1>3
  <2>2. /\ w[n + k] \in Entries /\ w[Len(w)].data \in Seq(Byte)
    BY <2>1, Distances
  <2>3. last \in Nat
    BY <2>2 DEF last
  <2> DEFINE old == w[n + k]
             off == old.base_offset + last
  <2>4. old.base_offset \in Nat /\ old \in Entries
    BY <2>2, Zenon DEF Entries
  <2> HIDE DEF last, old
  <2>5. off \in Nat
    BY <2>3, <2>4
  <2> HIDE DEF off
  <2>6. /\ [old EXCEPT !.base_offset = off] \in Entries
        /\ [old EXCEPT !.base_offset = off].data = old.data
        /\ [old EXCEPT !.base_offset = off].suffixes = old.suffixes
        /\ [old EXCEPT !.base_offset = off].base_offset = off
    BY <2>4, <2>5 DEF Entries
  <2> QED
    BY <2>6, Zenon DEF old, off
<1> HIDE DEF moved
<1>6. Moved(kept) = [k \in 1..m |-> moved(k)]
  <2>1. Moved(kept) = [k \in 1..Len(kept) |-> [kept[k] EXCEPT !.base_offset = @ + Len(Last(kept).data)]]
    BY Zenon DEF Moved
  <2>2. \A k \in 1..m : Last(kept) = w[Len(w)] /\ kept[k] = w[n + k]
    BY <1>3, <1>4
  <2>3. \A k \in 1..m : [kept[k] EXCEPT !.base_offset = @ + Len(Last(kept).data)] = moved(k)
    BY <2>2, Zenon DEF moved, last
  <2>4. Len(kept) = m
    BY <1>3
  <2> QED
    BY <2>1, <2>3, <2>4
<1>7. e \in Entries /\ e.data = space /\ e.suffixes = t /\ e.base_offset = 0
  BY <1>2 DEF Entries
<1> HIDE DEF e
<1>8. Moved(kept) \in Seq(Entries) /\ Len(Moved(kept)) = m /\ \A k \in 1..m : Moved(kept)[k] = moved(k)
  <2>1. Moved(kept) \in [1..m -> Entries]
    BY <1>5, <1>6
  <2>2. Moved(kept) \in Seq(Entries) /\ Len(Moved(kept)) = m
    BY <1>1, <2>1
  <2> QED
    BY <1>6, <2>2, Zenon
<1>9. c = Append(Moved(kept), e)
  BY Zenon DEF Committed, e, kept
<1> HIDE DEF c, kept
<1>10. /\ c \in Seq(Entries) /\ Len(c) = m + 1 /\ c[m + 1] = e
       /\ \A k \in 1..m : c[k] = moved(k)
  BY <1>1, <1>7, <1>8, <1>9
<1>11. Distance(c, m + 2) = 0
  BY <1>1, <1>10 DEF Distance
<1>12. ASSUME NEW k \in 1..(m + 1) PROVE Distance(c, k) = Distance(w, n + k) + Len(space)
  <2>1. Distance(c, k) = c[k].base_offset + Len(space)
    <3>1. k \in 1..Len(c) /\ c[Len(c)].data = space
      BY <1>7, <1>10
    <3> QED
      BY <3>1, Zenon DEF Distance
  <2>2. CASE k = m + 1
    <3>1. ~(n + k \in 1..Len(w))
      BY <1>1, <2>2
    <3>2. Distance(w, n + k) = 0
      BY <3>1, Zenon DEF Distance
    <3>3. c[k].base_offset = 0
      BY <1>7, <1>10, <2>2, Zenon
    <3> QED
      BY <1>2, <2>1, <3>2, <3>3
  <2>3. CASE k # m + 1
    <3>1. n + k \in 1..Len(w) /\ k \in 1..m
      BY <1>1, <2>3
    <3>2. c[k].base_offset = w[n + k].base_offset + last
      BY <1>5, <1>10, <3>1
    <3>4. w[n + k].base_offset \in Nat /\ last \in Nat
      <4>1. Len(w) \in 1..Len(w)
        BY <1>1, <3>1
      <4>2. w[n + k].base_offset \in Nat /\ w[Len(w)].data \in Seq(Byte)
        BY <3>1, <4>1, Distances
      <4> QED
        BY <4>2 DEF last
    <3>3. Distance(w, n + k) = w[n + k].base_offset + last
      BY <3>1, Zenon DEF Distance, last
    <3> QED
      BY <2>1, <1>2, <3>2, <3>3, <3>4
  <2> QED
    BY <2>2, <2>3
<1> QED
  BY <1>5, <1>7, <1>10, <1>11, <1>12, Zenon DEF c, m, Follows

\* The window stays in place when entries leave and a block comes.
LEMMA CommittedInPlace ==
    ASSUME NEW w \in Seq(Entries), Contiguous(w), NEW n \in 0..Len(w),
           NEW space \in Spaces, NEW t \in Tables,
           NEW bytes \in Seq(Byte), InPlace(w, bytes), Distance(w, 1) <= Len(bytes)
    PROVE  LET c == Committed(w, n, space, t)
           IN  Contiguous(c) /\ InPlace(c, bytes \o space)
<1> DEFINE c == Committed(w, n, space, t)
           m == Len(w) - n
           a == Len(space)
<1>1. /\ m \in Nat /\ n \in Nat /\ Len(w) \in Nat
      /\ \A k \in 1..m : n + k \in 1..Len(w) /\ k \in Nat /\ n + k \in Nat /\ n + (k + 1) = (n + k) + 1
                         /\ k + 1 \in 1..(m + 1) /\ k \in 1..(m + 1) /\ (n + k) + 1 \in Nat
  OBVIOUS
<1>2. space \in Seq(Byte) /\ a \in Nat
  BY SpacesAssumption
<1>3. /\ c \in Seq(Entries) /\ Len(c) = m + 1
      /\ c[m + 1].data = space
      /\ \A k \in 1..m : c[k].data = w[n + k].data
      /\ \A k \in 1..(m + 1) : Distance(c, k) = Distance(w, n + k) + a
      /\ Distance(c, m + 2) = 0
  <2>1. Follows(c, w, n, space, t)
    BY CommittedEntries, Zenon
  <2> QED
    BY <2>1, Zenon DEF Follows
<1>4. /\ \A k \in Nat : Distance(w, k) \in Nat
      /\ \A k \in 1..Len(w) : /\ w[k].data \in Seq(Byte)
                              /\ Len(w[k].data) <= Distance(w, k)
                              /\ Distance(w, k) <= Distance(w, 1)
  BY Distances, Zenon
<1>5. Distance(c, m + 1) = a
  <2>1. m + 1 \in 1..(m + 1) /\ ~(n + (m + 1) \in 1..Len(w))
    BY <1>1
  <2>2. Distance(w, n + (m + 1)) = 0
    BY <2>1, Zenon DEF Distance
  <2>3. Distance(c, m + 1) = 0 + a
    BY <1>3, <2>1, <2>2, Zenon
  <2> HIDE DEF a, c
  <2> QED
    BY <1>2, <2>3
<1> HIDE DEF c, a, m
<1>6. ASSUME NEW k \in 1..Len(c) PROVE Distance(c, k) = Len(c[k].data) + Distance(c, k + 1)
  <2>1. CASE k = m + 1
    <3>1. k + 1 = m + 2
      BY <1>1, <2>1
    <3> QED
      BY <1>2, <1>3, <1>5, <2>1, <3>1 DEF a
  <2>2. CASE k # m + 1
    <3>1. k \in 1..m
      BY <1>1, <1>3, <2>2
    <3>2. Distance(w, n + k) = Len(w[n + k].data) + Distance(w, (n + k) + 1)
      BY <1>1, <3>1, Zenon DEF Contiguous
    <3>3. /\ Distance(c, k) = Distance(w, n + k) + a
          /\ Distance(c, k + 1) = Distance(w, (n + k) + 1) + a
          /\ c[k].data = w[n + k].data
      BY <1>1, <1>3, <3>1, Zenon
    <3>4. Distance(w, n + k) \in Nat /\ Distance(w, (n + k) + 1) \in Nat /\ w[n + k].data \in Seq(Byte)
      BY <1>1, <1>4, <3>1, Zenon
    <3>5. Len(w[n + k].data) \in Nat
      BY <3>4
    <3> DEFINE d0 == Distance(w, n + k)
               d1 == Distance(w, (n + k) + 1)
               l == Len(w[n + k].data)
    <3>6. /\ d0 \in Nat /\ d1 \in Nat /\ l \in Nat /\ d0 = l + d1
          /\ Distance(c, k) = d0 + a /\ Distance(c, k + 1) = d1 + a /\ Len(c[k].data) = l
      BY <3>2, <3>3, <3>4, <3>5, Zenon
    <3> HIDE DEF d0, d1, l
    <3> QED
      BY <1>2, <3>6
  <2> QED
    BY <2>1, <2>2
<1>7. ASSUME NEW j \in 1..Len(c), NEW k \in 1..Len(c), j <= k
      PROVE  Distance(c, k) <= Distance(c, j)
  <2>1. j \in 1..(m + 1) /\ k \in 1..(m + 1) /\ n + j \in Nat /\ n + k \in Nat
    BY <1>1, <1>3
  <2>2. Distance(c, k) = Distance(w, n + k) + a /\ Distance(c, j) = Distance(w, n + j) + a
    BY <1>3, <2>1, Zenon
  <2>3. Distance(w, n + k) \in Nat /\ Distance(w, n + j) \in Nat
    BY <1>4, <2>1, Zenon
  <2>4. Distance(w, n + k) <= Distance(w, n + j)
    <3>1. CASE k = m + 1
      <4>1. ~(n + k \in 1..Len(w))
        BY <1>1, <3>1 DEF m
      <4>2. Distance(w, n + k) = 0
        BY <4>1, Zenon DEF Distance
      <4> QED
        BY <2>3, <4>2
    <3>2. CASE k # m + 1
      <4>1. k \in 1..m /\ j \in 1..m /\ n + j <= n + k
        BY <1>1, <1>7, <2>1, <3>2
      <4> QED
        BY <1>1, <4>1, Zenon DEF Contiguous
    <3> QED
      BY <3>1, <3>2
  <2> QED
    BY <1>2, <2>2, <2>3, <2>4
<1>8. /\ Len(bytes \o space) = Len(bytes) + a /\ Len(bytes) \in Nat
      /\ \A i \in 1..Len(bytes) : (bytes \o space)[i] = bytes[i]
      /\ \A i \in 1..a : (bytes \o space)[Len(bytes) + i] = space[i]
  BY <1>2 DEF a
<1>9. ASSUME NEW k \in 1..Len(c), NEW i \in 1..Len(c[k].data)
      PROVE  c[k].data[i] = (bytes \o space)[Len(bytes \o space) - Distance(c, k) + i]
  <2>1. CASE k = m + 1
    <3>1. i \in 1..a /\ c[k].data[i] = space[i]
      BY <1>3, <2>1 DEF a
    <3>2. (Len(bytes) + a) - a + i = Len(bytes) + i
      BY <1>2, <1>8, <3>1
    <3> QED
      BY <1>5, <1>8, <2>1, <3>1, <3>2, Zenon
  <2>2. CASE k # m + 1
    <3>1. k \in 1..m
      BY <1>1, <1>3, <2>2
    <3> DEFINE q == n + k
               d == Distance(w, q)
               l == Len(w[q].data)
    <3>2. /\ q \in 1..Len(w) /\ Distance(c, k) = d + a /\ c[k].data = w[q].data
          /\ i \in 1..l
      BY <1>1, <1>3, <3>1
    <3>3. d \in Nat /\ l \in Nat /\ l <= d /\ d <= Distance(w, 1) /\ Distance(w, 1) \in Nat
      <4>1. q \in Nat /\ 1 \in Nat
        BY <3>2
      <4>2. d \in Nat /\ l <= d /\ d <= Distance(w, 1) /\ Distance(w, 1) \in Nat /\ w[q].data \in Seq(Byte)
        BY <1>4, <3>2, <4>1, Zenon
      <4> QED
        BY <4>2
    <3>4. w[q].data[i] = bytes[Len(bytes) - d + i]
      BY <3>2, Zenon DEF InPlace
    <3> HIDE DEF d, l, q
    <3>5. /\ (Len(bytes) + a) - (d + a) + i = Len(bytes) - d + i
          /\ Len(bytes) - d + i \in 1..Len(bytes)
      BY <1>2, <1>8, <3>2, <3>3
    <3> QED
      BY <1>8, <3>2, <3>4, <3>5, Zenon
  <2> QED
    BY <2>1, <2>2
<1> QED
  BY <1>6, <1>7, <1>9, Zenon DEF Contiguous, InPlace, c
-----------------------------------------------------------------------------
(* Matches.                                                                *)

\* A prefix of the input, longer by what stands next in it.
LEMMA Extended ==
    ASSUME NEW S, NEW bytes \in Seq(S), NEW p \in Nat, NEW q \in Nat, p <= q, q <= Len(bytes),
           NEW T, NEW more \in Seq(T), Len(more) = q - p,
           \A i \in 1..(q - p) : more[i] = bytes[p + i]
    PROVE  SubSeq(bytes, 1, p) \o more = SubSeq(bytes, 1, q)
<1> DEFINE a == SubSeq(bytes, 1, p)
           b == SubSeq(bytes, 1, q)
           c == a \o more
<1>1. /\ a \in Seq(S) /\ Len(a) = p /\ \A i \in 1..p : a[i] = bytes[i]
      /\ b \in Seq(S) /\ Len(b) = q /\ \A i \in 1..q : b[i] = bytes[i]
  <2>1. Len(bytes) \in Nat /\ p <= Len(bytes)
    OBVIOUS
  <2>2. a \in Seq(S) /\ Len(a) = p /\ \A i \in 1..p : a[i] = bytes[i]
    BY <2>1
  <2>3. b \in Seq(S) /\ Len(b) = q /\ \A i \in 1..q : b[i] = bytes[i]
    BY <2>1
  <2> QED
    BY <2>2, <2>3
<1> HIDE DEF a, b
<1>2. c \in Seq(S \cup T) /\ Len(c) = q
  <2>1. a \in Seq(S \cup T) /\ more \in Seq(S \cup T)
    BY <1>1
  <2> QED
    BY <1>1, <2>1
<1>3. ASSUME NEW i \in 1..q PROVE c[i] = b[i]
  <2>1. CASE i <= p
    BY <1>1, <2>1
  <2>2. CASE ~(i <= p)
    <3>1. i - p \in 1..(q - p) /\ p + (i - p) = i
      BY <2>2
    <3>2. c[i] = more[i - p]
      BY <1>1, <2>2
    <3> QED
      BY <1>1, <3>1, <3>2
  <2> QED
    BY <2>1, <2>2
<1>4. b \in Seq(S \cup T)
  BY <1>1
<1> QED
  BY <1>1, <1>2, <1>3, <1>4 DEF a, b

\* Two slices agree as far as their common prefix goes.
LEMMA CommonPrefix ==
    ASSUME NEW S, NEW a \in Seq(S), NEW b \in Seq(S)
    PROVE  /\ CommonPrefixLen(a, b) \in Nat /\ CommonPrefixLen(a, b) <= Len(a)
           /\ CommonPrefixLen(a, b) <= Len(b)
           /\ \A i \in 1..CommonPrefixLen(a, b) : a[i] = b[i]
<1> DEFINE T == {n \in 0..Len(a) : n <= Len(b) /\ SubSeq(a, 1, n) = SubSeq(b, 1, n)}
           l == Max(T)
<1>1. Len(a) \in Nat /\ Len(b) \in Nat
  OBVIOUS
<1>2. 0 \in T
  <2>1. SubSeq(a, 1, 0) = <<>> /\ SubSeq(b, 1, 0) = <<>>
    OBVIOUS
  <2> QED
    BY <1>1, <2>1
<1>3. l \in T
  <2>1. T \in SUBSET (0..Len(a)) /\ T # {}
    BY <1>2
  <2> HIDE DEF T
  <2> QED
    BY <1>1, <2>1, GreatestOfSet
<1>4. CommonPrefixLen(a, b) = l
  BY Zenon DEF CommonPrefixLen
<1> HIDE DEF l
<1>5. l \in 0..Len(a) /\ l <= Len(b) /\ SubSeq(a, 1, l) = SubSeq(b, 1, l)
  BY <1>3
<1>6. \A i \in 1..l : SubSeq(a, 1, l)[i] = a[i] /\ SubSeq(b, 1, l)[i] = b[i]
  BY <1>1, <1>5
<1> QED
  BY <1>1, <1>4, <1>5, <1>6

\* Of some candidates no longer than what is left, the best is one.
LEMMA BestIsCandidate ==
    ASSUME NEW n \in Nat, NEW C \in SUBSET [offset : Nat, len : 0..n], C # {}
    PROVE  Best(C) \in C
<1>1. \A m \in C : m.len \in 0..n /\ m.offset \in Nat /\ m = [offset |-> m.offset, len |-> m.len]
  OBVIOUS
<1> DEFINE lens == {m.len : m \in C}
<1>2. lens \in SUBSET (0..n) /\ lens # {}
  BY <1>1
<1>3. Max(lens) \in lens /\ \A l \in lens : l <= Max(lens)
  <2> HIDE DEF lens
  <2> QED
    BY <1>2, GreatestOfSet
<1> DEFINE longest == {m \in C : m.len = Max(lens)}
           offsets == {m.offset : m \in longest}
<1>4. offsets \in SUBSET Nat /\ offsets # {}
  <2>1. PICK m \in C : m.len = Max(lens)
    BY <1>3, Zenon
  <2> QED
    BY <1>1, <2>1, Zenon
<1>5. Min(offsets) \in offsets /\ \A o \in offsets : Min(offsets) <= o
  <2> HIDE DEF offsets
  <2> QED
    BY <1>4, LeastOfSet
<1>6. PICK b \in longest : b.offset = Min(offsets)
  BY <1>5, Zenon
<1>7. b \in C /\ b.len = Max(lens)
  BY <1>6, Zenon
<1> DEFINE Better(m, c) == m.len > c.len \/ (m.len = c.len /\ m.offset < c.offset)
<1>8. ASSUME NEW c \in C \ {b} PROVE Better(b, c)
  <2>1. c.len \in lens
    BY Zenon
  <2>2. c.len <= b.len
    BY <1>3, <1>7, <2>1, Zenon
  <2>3. /\ c.len \in Nat /\ b.len \in Nat /\ c.offset \in Nat /\ b.offset \in Nat
        /\ c = [offset |-> c.offset, len |-> c.len] /\ b = [offset |-> b.offset, len |-> b.len]
        /\ c # b
    BY <1>1, <1>7
  <2>4. CASE c.len # b.len
    BY <2>2, <2>3, <2>4
  <2>5. CASE c.len = b.len
    <3>1. c.offset \in offsets
      BY <1>7, <2>5, Zenon
    <3>2. b.offset <= c.offset
      BY <1>5, <1>6, <3>1, Zenon
    <3>3. b.offset # c.offset
      BY <2>3, <2>5, Zenon
    <3>4. b.offset < c.offset
      BY <2>3, <3>2, <3>3
    <3> QED
      BY <2>5, <3>4, Zenon
  <2> QED
    BY <2>4, <2>5
<1>9. \E m \in C : \A c \in C \ {m} : Better(m, c)
  BY <1>7, <1>8, Zenon
<1> QED
  BY <1>9, Zenon DEF Best

\* A match that does not reach into itself, as the decoder executes it.
LEMMA MatchCopies ==
    ASSUME NEW bytes \in Seq(Byte), NEW p \in Nat, NEW offset \in Nat, NEW len \in Nat,
           offset >= 1, offset <= p, offset <= MaxWindowSize, len <= offset, p + len <= Len(bytes),
           \A i \in 1..len : bytes[p - offset + i] = bytes[p + i]
    PROVE  WithMatch(SubSeq(bytes, 1, p), offset, len) = SubSeq(bytes, 1, p + len)
<1> DEFINE o == SubSeq(bytes, 1, p)
           copy == [i \in 1..len |-> IF offset \in 1..Len(o) /\ offset <= MaxWindowSize
                                     THEN o[Len(o) - offset + 1 + ((i - 1) % offset)]
                                     ELSE None]
<1>1. Len(o) = p /\ \A i \in 1..p : o[i] = bytes[i]
  OBVIOUS
<1>2. ASSUME NEW i \in 1..len PROVE copy[i] = bytes[p + i] /\ copy[i] \in Byte
  <2>1. i - 1 \in Nat /\ i - 1 < offset
    OBVIOUS
  <2>2. (i - 1) % offset = i - 1
    BY <2>1
  <2>3. p - offset + i \in 1..p /\ p - offset + 1 + (i - 1) = p - offset + i /\ offset \in 1..p
    OBVIOUS
  <2>4. copy[i] = o[p - offset + i]
    BY <1>1, <2>2, <2>3
  <2>5. o[p - offset + i] = bytes[p - offset + i]
    BY <1>1, <2>3
  <2>6. bytes[p + i] \in Byte
    <3>1. p + i \in 1..Len(bytes)
      OBVIOUS
    <3> QED
      BY <3>1
  <2> QED
    BY <2>4, <2>5, <2>6
<1>3. WithMatch(o, offset, len) = o \o copy
  BY Zenon DEF WithMatch
<1>4. copy \in Seq(Byte) /\ Len(copy) = len
  <2>1. copy \in [1..len -> Byte]
    BY <1>2
  <2> HIDE DEF copy
  <2> QED
    BY <2>1
<1> HIDE DEF copy
<1> DEFINE q == p + len
<1>5. q \in Nat /\ p <= q /\ q <= Len(bytes) /\ q - p = len
  OBVIOUS
<1> HIDE DEF q
<1>6. \A i \in 1..(q - p) : copy[i] = bytes[p + i]
  BY <1>2, <1>5, Zenon
<1>7. Len(copy) = q - p
  BY <1>4, <1>5, Zenon
<1>8. SubSeq(bytes, 1, p) \o copy = SubSeq(bytes, 1, q)
  BY <1>4, <1>5, <1>6, <1>7, Extended
<1> QED
  BY <1>3, <1>8, Zenon DEF q
-----------------------------------------------------------------------------
(* Tables of a window.                                                     *)

\* TablesPointIntoTheirData of any window, processed to any place.
TablesPoint(w, processed) ==
    \A k \in 1..Len(w) : \A s \in DOMAIN w[k].suffixes :
        LET idx == w[k].suffixes[s]
        IN  idx # None =>
              /\ idx + MinMatchLen <= Len(w[k].data)
              /\ k = Len(w) => idx < processed

\* v has the entries of w, but for their tables.
SameData(v, w) ==
    /\ v \in Seq(Entries) /\ Len(v) = Len(w)
    /\ \A k \in 1..Len(w) : v[k].data = w[k].data /\ v[k].base_offset = w[k].base_offset

\* Distances depend on the data of the entries only.
LEMMA SameDistances ==
    ASSUME NEW w \in Seq(Entries), NEW v, SameData(v, w)
    PROVE  /\ \A k \in Nat : Distance(v, k) = Distance(w, k)
           /\ Contiguous(w) => Contiguous(v)
           /\ \A bytes : InPlace(w, bytes) => InPlace(v, bytes)
<1>1. Len(w) \in Nat /\ Len(v) = Len(w)
  BY DEF SameData
<1>2. ASSUME NEW k \in Nat PROVE Distance(v, k) = Distance(w, k)
  <2>1. CASE k \in 1..Len(w)
    <3>1. Len(w) \in 1..Len(w)
      BY <1>1, <2>1
    <3> QED
      BY <1>1, <2>1, <3>1, Zenon DEF SameData, Distance
  <2>2. CASE ~(k \in 1..Len(w))
    BY <1>1, <2>2, Zenon DEF Distance
  <2> QED
    BY <2>1, <2>2
<1>3. \A k \in 1..Len(w) : k \in Nat /\ k + 1 \in Nat
  OBVIOUS
<1>4. Contiguous(w) => Contiguous(v)
  BY <1>1, <1>2, <1>3, Zenon DEF Contiguous, SameData
<1>5. \A bytes : InPlace(w, bytes) => InPlace(v, bytes)
  BY <1>1, <1>2, <1>3, Zenon DEF InPlace, SameData
<1> QED
  BY <1>2, <1>4, <1>5

\* Indices are inserted into the table of the last entry.
LEMMA IndicesInserted ==
    ASSUME NEW w \in Seq(Entries), w # <<>>, NEW a \in Nat, NEW b \in Int, NEW processed \in Nat,
           TablesPoint(w, a), b + MinMatchLen <= Len(w[Len(w)].data),
           a <= processed, b < processed,
           NEW v, v = [w EXCEPT ![Len(w)].suffixes = Inserted(@, w[Len(w)].data, a..b)]
    PROVE  SameData(v, w) /\ TablesPoint(v, processed)
<1> DEFINE n == Len(w)
           last == w[n]
           t == Inserted(last.suffixes, last.data, a..b)
           e == [last EXCEPT !.suffixes = t]
<1>1. n \in Nat /\ n \in 1..n
  OBVIOUS
<1>2. last \in Entries
  BY <1>1
<1>3. last.suffixes \in Tables /\ last.data \in Seq(Byte) /\ MinMatchLen \in Nat
  BY <1>2, MinMatchLenAssumption DEF Entries
<1>4. /\ t \in Tables /\ DOMAIN t = DOMAIN last.suffixes
      /\ \A s \in DOMAIN last.suffixes : t[s] = last.suffixes[s] \/ t[s] \in a..b
  BY <1>3, InsertedIndices
<1>5. v = [w EXCEPT ![n] = e]
  BY Zenon
<1> HIDE DEF t
<1>6. /\ e \in Entries /\ e.data = last.data /\ e.base_offset = last.base_offset /\ e.suffixes = t
  BY <1>2, <1>4 DEF Entries
<1> HIDE DEF e, n
<1>7. /\ v \in Seq(Entries) /\ Len(v) = n /\ v[n] = e
      /\ \A k \in 1..n : k # n => v[k] = w[k]
  BY <1>1, <1>5, <1>6 DEF n
<1>8. ASSUME NEW k \in 1..n
      PROVE  v[k].data = w[k].data /\ v[k].base_offset = w[k].base_offset
  <2>1. CASE k = n
    BY <1>6, <1>7, <2>1
  <2>2. CASE k # n
    BY <1>7, <2>2
  <2> QED
    BY <2>1, <2>2
<1>9. SameData(v, w)
  BY <1>7, <1>8, Zenon DEF SameData, n
<1>10. ASSUME NEW k \in 1..n, NEW s \in DOMAIN v[k].suffixes, v[k].suffixes[s] # None
       PROVE  /\ v[k].suffixes[s] + MinMatchLen <= Len(v[k].data)
              /\ k = n => v[k].suffixes[s] < processed
  <2>1. CASE k # n
    <3>1. v[k] = w[k]
      BY <1>7, <2>1, Zenon
    <3> QED
      BY <1>10, <2>1, <3>1, Zenon DEF TablesPoint, n
  <2>2. CASE k = n
    <3>1. s \in DOMAIN last.suffixes /\ v[k].suffixes[s] = t[s]
      BY <1>4, <1>6, <1>7, <2>2, Zenon
    <3>2. CASE t[s] = last.suffixes[s]
      <4>1. last.suffixes[s] # None
        BY <1>10, <3>1, <3>2, Zenon
      <4> DEFINE idx == last.suffixes[s]
      <4>2. idx + MinMatchLen <= Len(last.data) /\ idx < a
        BY <1>1, <3>1, <4>1, Zenon DEF TablesPoint, n
      <4>3. idx \in Nat
        <5>1. idx \in Nat \cup {None}
          BY <1>3, <3>1, TableSlots, Zenon
        <5> QED
          BY <4>1, <5>1, Zenon
      <4> HIDE DEF idx
      <4>4. idx < processed
        BY <4>2, <4>3
      <4> QED
        BY <1>8, <2>2, <3>1, <3>2, <4>2, <4>4, Zenon DEF idx
    <3>3. CASE t[s] \in a..b
      <4> DEFINE idx == t[s]
                 l == Len(last.data)
      <4>1. idx \in a..b
        BY <3>3
      <4>2. b + MinMatchLen <= l /\ l \in Nat
        BY <1>3 DEF n
      <4> HIDE DEF idx, l
      <4>3. idx + MinMatchLen <= l /\ idx < processed
        BY <1>3, <4>1, <4>2, SMTT(30)
      <4> QED
        BY <1>8, <2>2, <3>1, <4>3, Zenon DEF idx, l
    <3> QED
      BY <1>4, <3>1, <3>2, <3>3
  <2> QED
    BY <2>1, <2>2
<1>11. TablesPoint(v, processed)
  BY <1>7, <1>10, Zenon DEF TablesPoint
<1> QED
  BY <1>9, <1>11

-----------------------------------------------------------------------------
(* What the invariant says of the block at hand.                           *)

\* While a block is processed it is the last entry, and the input ends with it.
LEMMA BlockAtHand ==
    ASSUME IInv, window # <<>>
    PROVE  /\ Len(window) \in 1..Len(window) /\ LastEntry \in Entries
           /\ Data \in Seq(Byte) /\ Len(Data) \in Nat /\ Len(input) \in Nat /\ Len(Data) <= Len(input)
           /\ Distance(window, Len(window)) = Len(Data) /\ LastEntry.base_offset = 0
           /\ \A i \in 1..Len(Data) : Data[i] = input[Len(input) - Len(Data) + i]
           /\ suffix_idx \in Nat /\ last_idx_in_sequence \in Nat
           /\ last_idx_in_sequence <= suffix_idx /\ suffix_idx <= Len(Data)
<1> DEFINE n == Len(window)
<1>1. window \in Seq(Entries) /\ input \in Seq(Byte) /\ suffix_idx \in Nat /\ last_idx_in_sequence \in Nat
  BY DEF IInv, TypeOK
<1>2. n \in 1..n /\ n \in Nat /\ n + 1 \in Nat /\ ~(n + 1 \in 1..n)
  BY <1>1
<1>3. Contiguous(window) /\ InPlace(window, input) /\ Distance(window, 1) <= Len(input)
  BY Zenon DEF IInv, WindowInPlace
<1>4. /\ \A k \in Nat : Distance(window, k) \in Nat
      /\ \A k \in 1..n : /\ window[k] \in Entries /\ window[k].data \in Seq(Byte)
                         /\ window[k].base_offset \in Nat
                         /\ Len(window[k].data) <= Distance(window, k)
                         /\ Distance(window, k) <= Distance(window, 1)
  BY <1>1, <1>3, Distances, Zenon
<1>5. LastEntry = window[n] /\ Data = window[n].data
  BY Zenon DEF LastEntry, Data
<1>6. /\ LastEntry \in Entries /\ Data \in Seq(Byte) /\ LastEntry.base_offset \in Nat
      /\ Len(Data) <= Distance(window, n) /\ Distance(window, n) <= Distance(window, 1)
      /\ Distance(window, n) \in Nat /\ Distance(window, 1) \in Nat
  BY <1>2, <1>4, <1>5, Zenon
<1>7. Len(Data) \in Nat /\ Len(input) \in Nat /\ Len(Data) <= Len(input)
  BY <1>1, <1>3, <1>6
<1>8. Distance(window, n) = Len(Data) + 0
  <2>1. Distance(window, n) = Len(window[n].data) + Distance(window, n + 1)
    BY <1>2, <1>3, Zenon DEF Contiguous
  <2>2. Distance(window, n + 1) = 0
    BY <1>2, Zenon DEF Distance
  <2> QED
    BY <1>5, <2>1, <2>2, Zenon
<1>9. Distance(window, n) = LastEntry.base_offset + Len(Data)
  BY <1>2, <1>5, Zenon DEF Distance
<1>10. Distance(window, n) = Len(Data) /\ LastEntry.base_offset = 0
  BY <1>6, <1>7, <1>8, <1>9
<1>11. \A i \in 1..Len(Data) : Data[i] = input[Len(input) - Len(Data) + i]
  <2>1. \A i \in 1..Len(window[n].data) :
            window[n].data[i] = input[Len(input) - Distance(window, n) + i]
    BY <1>2, <1>3, Zenon DEF InPlace
  <2> HIDE DEF n
  <2> QED
    BY <1>5, <1>10, <2>1
<1>12. last_idx_in_sequence <= suffix_idx /\ suffix_idx <= Len(Data)
  BY Zenon DEF IInv, IndicesInOrder
<1> QED
  BY <1>1, <1>2, <1>6, <1>7, <1>10, <1>11, <1>12, Zenon

\* Where the next byte to process stands in the input.
Place == Len(input) - Len(Data) + suffix_idx

\* A match the decoder can execute, of bytes that are those to come.
Copyable(m) ==
    /\ m \in [offset : Nat, len : 0..Remaining] /\ m.len >= MinMatchLen
    /\ m.offset >= 1 /\ m.offset <= Place /\ m.offset <= MaxWindowSize /\ m.len <= m.offset
    /\ \A i \in 1..m.len : input[Place - m.offset + i] = input[Place + i]

\* What next_sequence takes for a match stands at its offset in the output.
LEMMA CandidatesAreCopyable ==
    ASSUME IInv, window # <<>>, Remaining >= MinMatchLen, NEW m \in Candidates
    PROVE  Copyable(m)
<1> DEFINE n == Len(window)
           rest == SubSeq(Data, suffix_idx + 1, Len(Data))
           at(k) == window[k].suffixes[SlotOf(window[k].suffixes, Key(Data, suffix_idx))]
           match(k) == [offset |-> window[k].base_offset + suffix_idx - at(k),
                        len    |-> CommonPrefixLen(MatchSlice(k, at(k)), rest)]
<1>1. /\ n \in 1..n /\ Data \in Seq(Byte) /\ Len(Data) \in Nat /\ Len(input) \in Nat
      /\ Distance(window, n) = Len(Data)
      /\ \A i \in 1..Len(Data) : Data[i] = input[Len(input) - Len(Data) + i]
      /\ suffix_idx \in Nat /\ suffix_idx <= Len(Data) /\ MinMatchLen \in Nat /\ MinMatchLen >= 1
  BY BlockAtHand, MinMatchLenAssumption
<1>2. PICK k \in 1..n : at(k) # None /\ m = match(k) /\ m.len >= MinMatchLen
  BY Zenon DEF Candidates, IsCandidate
<1> DEFINE idx == at(k)
           d == window[k].data
           off == window[k].base_offset
           end == IF k = n THEN suffix_idx ELSE Len(d)
           slice == MatchSlice(k, idx)
           len == CommonPrefixLen(slice, rest)
           dist == Distance(window, k)
<1>3. window \in Seq(Entries) /\ Contiguous(window) /\ InPlace(window, input)
      /\ Distance(window, 1) <= Len(input) /\ Distance(window, 1) <= MaxWindowSize
  BY Zenon DEF IInv, TypeOK, WindowInPlace
<1>4. /\ window[k] \in Entries /\ d \in Seq(Byte) /\ off \in Nat /\ dist \in Nat
      /\ Distance(window, 1) \in Nat /\ Distance(window, k + 1) \in Nat
      /\ dist <= Distance(window, 1) /\ dist = off + Len(Data)
      /\ dist = Len(d) + Distance(window, k + 1)
  <2>1. k \in Nat /\ k + 1 \in Nat /\ 1 \in Nat
    OBVIOUS
  <2>2. /\ window[k] \in Entries /\ d \in Seq(Byte) /\ off \in Nat /\ dist \in Nat
        /\ Distance(window, 1) \in Nat /\ Distance(window, k + 1) \in Nat
        /\ dist <= Distance(window, 1)
    BY <1>3, <2>1, Distances, Zenon
  <2>3. dist = off + Len(Data)
    BY Zenon DEF Distance, Data, LastEntry
  <2>4. dist = Len(d) + Distance(window, k + 1)
    BY <1>3, Zenon DEF Contiguous
  <2> QED
    BY <2>2, <2>3, <2>4, Zenon
<1>5. Len(d) \in Nat
  BY <1>4
<1>6. Remaining = Len(Data) - suffix_idx /\ suffix_idx + MinMatchLen <= Len(Data)
  BY <1>1 DEF Remaining
<1>7. /\ idx \in Nat /\ idx + MinMatchLen <= Len(d)
      /\ k = n => idx < suffix_idx
  <2> DEFINE t == window[k].suffixes
             s == SlotOf(t, Key(Data, suffix_idx))
  <2>1. t \in Tables
    BY <1>4, Zenon DEF Entries
  <2>2. s \in DOMAIN t
    BY <1>1, <1>6, <2>1, SlotInTable, Zenon
  <2>3. t[s] \in Nat \cup {None}
    BY <2>1, <2>2, TableSlots, Zenon
  <2>4. TablesPointIntoTheirData
    BY Zenon DEF IInv
  <2> QED
    BY <1>2, <2>2, <2>3, <2>4, Zenon DEF TablesPointIntoTheirData
<1>8. slice = SubSeq(d, idx + 1, end)
  BY Zenon DEF MatchSlice
<1>9. m = [offset |-> off + suffix_idx - idx, len |-> len]
  BY <1>2, Zenon
<1>10. k # n => Len(d) <= off
  <2> SUFFICES ASSUME k # n PROVE Len(d) <= off
    OBVIOUS
  <2>1. k + 1 \in 1..n /\ k + 1 <= n
    BY <1>1
  <2>2. Distance(window, n) <= Distance(window, k + 1)
    BY <1>1, <1>3, <2>1, Zenon DEF Contiguous
  <2> DEFINE next == Distance(window, k + 1)
  <2>3. dist \in Nat /\ next \in Nat /\ dist = off + Len(Data) /\ dist = Len(d) + next /\ Len(Data) <= next
    BY <1>1, <1>4, <2>2, Zenon
  <2> HIDE DEF dist, next, off, d
  <2> QED
    BY <1>1, <1>4, <1>5, <2>3
<1>11. k = n => off = 0
  BY <1>1, <1>4
<1> HIDE DEF idx, d, off, slice, dist, rest
<1>12. end \in 0..Len(d) /\ end \in Nat /\ idx + 1 \in 1..(end + 1) /\ end - (idx + 1) + 1 = end - idx
  <2>1. CASE k = n
    <3>1. d = Data
      BY <2>1, Zenon DEF d, Data, LastEntry
    <3> QED
      BY <1>1, <1>7, <2>1, <3>1
  <2>2. CASE k # n
    BY <1>1, <1>5, <1>7, <2>2
  <2> QED
    BY <2>1, <2>2
<1> HIDE DEF end
<1>13. /\ slice \in Seq(Byte) /\ Len(slice) = end - idx
       /\ \A i \in 1..(end - idx) : slice[i] = d[(idx + 1) + i - 1]
  BY <1>4, <1>8, <1>12, Part, SMTT(40)
<1>14. /\ rest \in Seq(Byte) /\ Len(rest) = Remaining
       /\ \A i \in 1..Remaining : rest[i] = Data[suffix_idx + i]
  <2>1. Len(Data) \in 0..Len(Data) /\ suffix_idx + 1 \in 1..(Len(Data) + 1)
        /\ Len(Data) - (suffix_idx + 1) + 1 = Remaining
    BY <1>1, <1>6
  <2>2. /\ rest \in Seq(Byte) /\ Len(rest) = Remaining
        /\ \A i \in 1..Remaining : rest[i] = Data[(suffix_idx + 1) + i - 1]
    <3> DEFINE a == suffix_idx + 1
               b == Len(Data)
    <3>1. /\ rest = SubSeq(Data, a, b) /\ Data \in Seq(Byte) /\ a \in 1..(b + 1) /\ b \in 0..Len(Data)
          /\ b - a + 1 = Remaining
      BY <1>1, <2>1, Zenon DEF rest
    <3> HIDE DEF a, b
    <3>2. /\ rest \in Seq(Byte) /\ Len(rest) = b - a + 1
          /\ \A i \in 1..(b - a + 1) : rest[i] = Data[a + i - 1]
      BY <3>1, Part, SMTT(40)
    <3> QED
      BY <3>1, <3>2, Zenon DEF a
  <2>3. \A i \in 1..Remaining : (suffix_idx + 1) + i - 1 = suffix_idx + i
    BY <1>1
  <2> QED
    BY <2>2, <2>3, Zenon
<1>15. /\ len \in Nat /\ len <= Len(slice) /\ len <= Len(rest)
       /\ \A i \in 1..len : slice[i] = rest[i]
  <2>1. slice \in Seq(Byte) /\ rest \in Seq(Byte)
    BY <1>13, <1>14
  <2> QED
    BY <2>1, CommonPrefix
<1> HIDE DEF len
<1> DEFINE offset == off + suffix_idx - idx
<1>16. offset \in Nat /\ offset >= 1 /\ len <= offset
  <2>1. CASE k = n
    <3>1. end = suffix_idx
      BY <2>1 DEF end
    <3> QED
      BY <1>1, <1>7, <1>11, <1>13, <1>15, <2>1, <3>1
  <2>2. CASE k # n
    <3>1. end = Len(d)
      BY <2>2 DEF end
    <3> QED
      BY <1>1, <1>4, <1>5, <1>7, <1>10, <1>13, <1>15, <2>2, <3>1
  <2> QED
    BY <2>1, <2>2
<1>17. MaxWindowSize \in Nat
  <2>1. MaxSlices \in Nat /\ SliceSize \in Nat
    BY SlicesAssumption
  <2> QED
    BY <2>1 DEF MaxWindowSize
<1>18. offset <= Place /\ offset <= MaxWindowSize
  BY <1>1, <1>3, <1>4, <1>7, <1>17, SMTT(40) DEF Place
<1>19. ASSUME NEW i \in 1..len PROVE input[Place - offset + i] = input[Place + i]
  <2>1. /\ i \in 1..(end - idx) /\ i \in 1..Remaining /\ idx + i \in 1..Len(d)
        /\ suffix_idx + i \in 1..Len(Data)
    <3>1. len <= end - idx /\ len <= Remaining /\ len \in Nat /\ Remaining \in Int
      BY <1>1, <1>6, <1>13, <1>14, <1>15
    <3>2. i \in 1..(end - idx) /\ i \in 1..Remaining
      BY <1>7, <1>12, <3>1
    <3>3. idx + i \in 1..Len(d)
      BY <1>5, <1>7, <1>12, <3>2
    <3>4. suffix_idx + i \in 1..Len(Data)
      BY <1>1, <1>6, <3>2
    <3> QED
      BY <3>2, <3>3, <3>4
  <2>2. slice[i] = d[idx + i]
    <3>1. (idx + 1) + i - 1 = idx + i
      BY <1>7
    <3> QED
      BY <1>13, <2>1, <3>1, Zenon
  <2>3. d[idx + i] = input[Len(input) - dist + (idx + i)]
    BY <1>3, <2>1, Zenon DEF InPlace, d, dist
  <2>4. Len(input) - dist + (idx + i) = Place - offset + i
    BY <1>1, <1>4, <1>7 DEF Place
  <2>5. rest[i] = input[Len(input) - Len(Data) + (suffix_idx + i)]
    BY <1>1, <1>14, <2>1, Zenon
  <2>6. Len(input) - Len(Data) + (suffix_idx + i) = Place + i
    BY <1>1 DEF Place
  <2>7. slice[i] = rest[i]
    BY <1>15
  <2> QED
    BY <2>2, <2>3, <2>4, <2>5, <2>6, <2>7, Zenon
<1>20. m = [offset |-> offset, len |-> len] /\ m.len >= MinMatchLen
  BY <1>2, <1>9 DEF len
<1> HIDE DEF offset
<1>21. m.offset = offset /\ m.len = len /\ m \in [offset : Nat, len : 0..Remaining]
  <2>1. len \in 0..Remaining
    BY <1>6, <1>1, <1>14, <1>15
  <2> QED
    BY <1>16, <1>20, <2>1
<1> QED
  BY <1>16, <1>18, <1>19, <1>20, <1>21, Zenon DEF Copyable
-----------------------------------------------------------------------------
(* Steps within a block.                                                   *)

\* One slice fits into the window.
LEMMA WindowBound == MaxWindowSize \in Nat /\ SliceSize <= MaxWindowSize
<1>1. MaxSlices \in Nat /\ SliceSize \in Nat /\ MaxSlices >= 1
  BY SlicesAssumption
<1>2. MaxSlices * SliceSize \in Nat /\ MaxSlices * SliceSize >= SliceSize
  BY <1>1
<1> QED
  BY <1>2 DEF MaxWindowSize

\* What was emitted, and the literals up to some place of the block.
LEMMA LiteralsFollow ==
    ASSUME IInv, window # <<>>, pc # "idle",
           NEW to \in Nat, last_idx_in_sequence <= to, to <= Len(Data)
    PROVE  out \o SubSeq(Data, last_idx_in_sequence + 1, to)
             = SubSeq(input, 1, Len(input) - Len(Data) + to)
<1> DEFINE from == last_idx_in_sequence
           before == Len(input) - Len(Data)
           p == before + from
           q == before + to
           literals == SubSeq(Data, from + 1, to)
<1>1. /\ Data \in Seq(Byte) /\ Len(Data) \in Nat /\ before \in Nat /\ Len(input) \in Nat
      /\ input \in Seq(Byte) /\ from \in Nat
      /\ Len(input) - (Len(Data) - from) = p
      /\ \A i \in 1..Len(Data) : Data[i] = input[before + i]
  <2>1. input \in Seq(Byte)
    BY DEF IInv, TypeOK
  <2> QED
    BY <2>1, BlockAtHand
<1>2. out = SubSeq(input, 1, p)
  <2>1. out = SubSeq(input, 1, Len(input) - (Len(Data) - from))
    BY Zenon DEF IInv, SequencesReproduceData
  <2> QED
    BY <1>1, <2>1, Zenon
<1>3. /\ to \in 0..Len(Data) /\ from + 1 \in 1..(to + 1) /\ to - (from + 1) + 1 = q - p
      /\ p \in Nat /\ q \in Nat /\ p <= q /\ q <= Len(input)
  BY <1>1
<1>4. /\ literals \in Seq(Byte) /\ Len(literals) = q - p
      /\ \A i \in 1..(q - p) : literals[i] = Data[(from + 1) + i - 1]
  BY <1>1, <1>3, Part
<1>5. \A i \in 1..(q - p) : /\ (from + 1) + i - 1 = from + i /\ from + i \in 1..Len(Data)
                            /\ before + (from + i) = p + i
  BY <1>1
<1>6. \A i \in 1..(q - p) : literals[i] = input[p + i]
  BY <1>1, <1>4, <1>5, ZenonT(40)
<1> HIDE DEF literals, p, q
<1>7. SubSeq(input, 1, p) \o literals = SubSeq(input, 1, q)
  <2>1. /\ literals \in Seq(Byte) /\ Len(literals) = q - p
        /\ input \in Seq(Byte) /\ p \in Nat /\ q \in Nat /\ p <= q /\ q <= Len(input)
        /\ \A i \in 1..(q - p) : literals[i] = input[p + i]
    BY <1>1, <1>3, <1>4, <1>6, Zenon
  <2> HIDE DEF from, before
  <2> QED
    BY <2>1, Extended
<1> QED
  BY <1>2, <1>7, Zenon DEF literals, q

\* The invariant after a step that leaves the data of the window alone.
LEMMA WithinBlock ==
    ASSUME IInv, window # <<>>, SameData(window', window),
           UNCHANGED <<window_size, suffix_pool, input>>,
           suffix_idx' \in Nat, last_idx_in_sequence' \in Nat,
           last_idx_in_sequence' <= suffix_idx', suffix_idx' <= Len(Data),
           pc' \in {"idle", "committed", "matching"},
           pc' = "idle" => last_idx_in_sequence' = Len(Data),
           pc' = "committed" => last_idx_in_sequence' = 0,
           TablesPoint(window', suffix_idx'),
           out' = SubSeq(input, 1, Len(input) - Len(Data) + last_idx_in_sequence')
    PROVE  IInv'
<1>1. window \in Seq(Entries) /\ window' \in Seq(Entries) /\ Len(window') = Len(window)
  BY DEF IInv, TypeOK, SameData
<1>2. /\ Len(window) \in 1..Len(window) /\ Len(Data) \in Nat /\ Len(input) \in Nat
  BY BlockAtHand
<1>3. window' # <<>>
  BY <1>1, <1>2
<1>4. Data' = Data
  BY <1>1, <1>2, Zenon DEF Data, LastEntry, SameData
<1>5. TypeOK'
  BY <1>1, Zenon DEF IInv, TypeOK
<1>6. WindowInPlace'
  <2>1. Distance(window', 1) = Distance(window, 1) /\ Contiguous(window') /\ InPlace(window', input)
    <3>1. Contiguous(window) /\ InPlace(window, input) /\ 1 \in Nat
      BY DEF IInv, WindowInPlace
    <3> QED
      BY <1>1, <3>1, SameDistances, Zenon
  <2> QED
    BY <2>1, Zenon DEF IInv, WindowInPlace
<1>7. IndicesInOrder'
  BY <1>3, <1>4, Zenon DEF IndicesInOrder
<1>8. PoolIsCleared'
  BY Zenon DEF IInv, PoolIsCleared
<1>9. TablesPointIntoTheirData'
  BY Zenon DEF TablesPointIntoTheirData, TablesPoint
<1>10. SequencesReproduceData'
  <2>1. CASE pc' = "idle"
    <3>1. Len(input) - Len(Data) + last_idx_in_sequence' = Len(input) - 0
      BY <1>2, <2>1
    <3> QED
      BY <2>1, <3>1, Zenon DEF SequencesReproduceData
  <2>2. CASE pc' # "idle"
    <3>1. Len(input) - Len(Data) + last_idx_in_sequence' = Len(input) - (Len(Data) - last_idx_in_sequence')
      BY <1>2
    <3> QED
      BY <1>4, <2>2, <3>1, Zenon DEF SequencesReproduceData
  <2> QED
    BY <2>1, <2>2
<1> QED
  BY <1>5, <1>6, <1>7, <1>8, <1>9, <1>10, Zenon DEF IInv

\* The suffixes of the block at hand up to some place.
LEMMA SuffixesAdded ==
    ASSUME IInv, window # <<>>, NEW idx \in Nat, idx <= Len(Data), AddSuffixesTill(idx),
           suffix_idx' \in Nat, suffix_idx <= suffix_idx', idx < suffix_idx' + MinMatchLen
    PROVE  SameData(window', window) /\ TablesPoint(window', suffix_idx')
<1>1. window \in Seq(Entries) /\ suffix_idx \in Nat /\ MinMatchLen \in Nat
  BY MinMatchLenAssumption DEF IInv, TypeOK
<1>2. TablesPoint(window, suffix_idx)
  BY Zenon DEF IInv, TablesPointIntoTheirData, TablesPoint
<1> DEFINE b == idx - MinMatchLen
<1>3. b \in Int /\ b + MinMatchLen <= Len(Data) /\ b < suffix_idx'
  <2> DEFINE l == Len(Data)
             s == suffix_idx'
  <2>1. l \in Nat /\ s \in Nat /\ idx <= l /\ idx < s + MinMatchLen
    BY BlockAtHand
  <2> HIDE DEF l, s
  <2>2. b \in Int /\ b + MinMatchLen <= l /\ b < s
    BY <1>1, <2>1
  <2> QED
    BY <2>2, Zenon DEF l, s
<1>4. Data = window[Len(window)].data
  BY Zenon DEF Data, LastEntry
<1>5. window' = [window EXCEPT ![Len(window)].suffixes =
                   Inserted(@, window[Len(window)].data, suffix_idx..b)]
  BY <1>4, Zenon DEF AddSuffixesTill
<1>6. b + MinMatchLen <= Len(window[Len(window)].data)
  BY <1>3, <1>4, Zenon
<1> HIDE DEF b
<1> QED
  BY <1>1, <1>2, <1>3, <1>5, <1>6, IndicesInserted, Zenon

\* A window that stays the same, processed further.
LEMMA TablesStill ==
    ASSUME IInv, window # <<>>, UNCHANGED window, suffix_idx' \in Nat, suffix_idx <= suffix_idx'
    PROVE  SameData(window', window) /\ TablesPoint(window', suffix_idx')
<1>1. window \in Seq(Entries) /\ suffix_idx \in Nat
  BY DEF IInv, TypeOK
<1>2. SameData(window', window)
  BY <1>1, Zenon DEF SameData
<1>3. TablesPointIntoTheirData
  BY DEF IInv
<1>4. ASSUME NEW k \in 1..Len(window), NEW s \in DOMAIN window[k].suffixes,
             window[k].suffixes[s] # None
      PROVE  /\ window[k].suffixes[s] + MinMatchLen <= Len(window[k].data)
             /\ k = Len(window) => window[k].suffixes[s] < suffix_idx'
  <2> DEFINE idx == window[k].suffixes[s]
  <2>1. /\ idx + MinMatchLen <= Len(window[k].data)
        /\ k = Len(window) => idx < suffix_idx
    BY <1>3, <1>4, Zenon DEF TablesPointIntoTheirData
  <2>2. idx \in Nat
    <3>1. window[k] \in Entries
      BY <1>1
    <3>2. window[k].suffixes \in Tables
      BY <3>1, Zenon DEF Entries
    <3>3. idx \in Nat \cup {None}
      BY <3>2, TableSlots, Zenon
    <3> QED
      BY <1>4, <3>3, Zenon
  <2> HIDE DEF idx
  <2>3. idx < suffix_idx => idx < suffix_idx'
    BY <1>1, <2>2
  <2> QED
    BY <2>1, <2>3, Zenon DEF idx
<1>5. TablesPoint(window, suffix_idx')
  BY <1>4, Zenon DEF TablesPoint
<1> QED
  BY <1>2, <1>5, Zenon

\* skip_matching keeps the invariant.
LEMMA SkipMatchingKeeps ==
    ASSUME IInv, SkipMatching
    PROVE  IInv'
<1>1. window # <<>>
  BY Zenon DEF IInv, IndicesInOrder, SkipMatching
<1>2. /\ Len(Data) \in Nat /\ Len(input) \in Nat /\ suffix_idx \in Nat /\ suffix_idx <= Len(Data)
      /\ last_idx_in_sequence <= Len(Data) /\ last_idx_in_sequence \in Nat /\ Data \in Seq(Byte)
      /\ MinMatchLen \in Nat /\ MinMatchLen >= 1 /\ last_idx_in_sequence = 0
  <2>1. last_idx_in_sequence = 0
    BY Zenon DEF IInv, IndicesInOrder, SkipMatching
  <2> QED
    BY <1>1, <2>1, BlockAtHand, MinMatchLenAssumption
<1>3. /\ AddSuffixesTill(Len(Data)) /\ suffix_idx' = Len(Data) /\ last_idx_in_sequence' = Len(Data)
      /\ pc # "idle" /\ pc' = "idle" /\ out' = out \o Data /\ UNCHANGED <<window_size, suffix_pool, input>>
  BY DEF SkipMatching
<1>4. SameData(window', window) /\ TablesPoint(window', suffix_idx')
  <2>1. suffix_idx' \in Nat /\ suffix_idx <= suffix_idx' /\ Len(Data) < suffix_idx' + MinMatchLen
        /\ Len(Data) <= Len(Data)
    BY <1>2, <1>3
  <2> QED
    BY <1>1, <1>2, <1>3, <2>1, SuffixesAdded, Zenon
<1>5. out' = SubSeq(input, 1, Len(input) - Len(Data) + last_idx_in_sequence')
  <2>1. SubSeq(Data, last_idx_in_sequence + 1, Len(Data)) = Data
    <3>1. SubSeq(Data, 0 + 1, Len(Data)) = Data
      BY <1>2
    <3> QED
      BY <1>2, <3>1, Zenon
  <2>2. Len(Data) <= Len(Data)
    BY <1>2
  <2>3. out \o SubSeq(Data, last_idx_in_sequence + 1, Len(Data))
           = SubSeq(input, 1, Len(input) - Len(Data) + Len(Data))
    BY <1>1, <1>2, <1>3, <2>2, LiteralsFollow, Zenon
  <2> QED
    BY <1>3, <2>1, <2>3, Zenon
<1>6. last_idx_in_sequence' <= suffix_idx' /\ suffix_idx' <= Len(Data)
  BY <1>2, <1>3
<1> QED
  BY <1>1, <1>2, <1>3, <1>4, <1>5, <1>6, WithinBlock

\* start_matching keeps the invariant.
LEMMA StartMatchingKeeps ==
    ASSUME IInv, StartMatching
    PROVE  IInv'
<1>1. window # <<>>
  BY Zenon DEF IInv, IndicesInOrder, StartMatching
<1>2. /\ Len(Data) \in Nat /\ Len(input) \in Nat /\ suffix_idx \in Nat /\ suffix_idx <= Len(Data)
      /\ last_idx_in_sequence <= suffix_idx /\ last_idx_in_sequence \in Nat
  BY <1>1, BlockAtHand
<1>3. /\ pc = "committed" /\ pc' = "matching"
      /\ UNCHANGED <<window, suffix_idx, last_idx_in_sequence, window_size, suffix_pool, input, out>>
  BY DEF StartMatching
<1>4. SameData(window', window) /\ TablesPoint(window', suffix_idx')
  BY <1>1, <1>2, <1>3, TablesStill
<1>5. out' = SubSeq(input, 1, Len(input) - Len(Data) + last_idx_in_sequence')
  <2>1. out = SubSeq(input, 1, Len(input) - (Len(Data) - last_idx_in_sequence))
    BY <1>3, Zenon DEF IInv, SequencesReproduceData
  <2>2. Len(input) - (Len(Data) - last_idx_in_sequence) = Len(input) - Len(Data) + last_idx_in_sequence
    BY <1>2
  <2> QED
    BY <1>3, <2>1, <2>2, Zenon
<1>6. last_idx_in_sequence' <= suffix_idx' /\ suffix_idx' <= Len(Data)
      /\ suffix_idx' \in Nat /\ last_idx_in_sequence' \in Nat
  BY <1>2, <1>3
<1> QED
  BY <1>1, <1>3, <1>4, <1>5, <1>6, WithinBlock

\* The literals that are left, as EndReached and TooShort emit them.
LEMMA LiteralsKeep ==
    ASSUME IInv, pc = "matching", pc' = "matching", EmitLiterals,
           UNCHANGED <<window, window_size, suffix_pool, input>>
    PROVE  IInv'
<1>1. window # <<>>
  BY Zenon DEF IInv, IndicesInOrder
<1>2. /\ Len(Data) \in Nat /\ suffix_idx \in Nat /\ suffix_idx <= Len(Data)
      /\ last_idx_in_sequence <= Len(Data)
  BY <1>1, BlockAtHand
<1>3. /\ out' = out \o SubSeq(Data, last_idx_in_sequence + 1, Len(Data))
      /\ last_idx_in_sequence' = Len(Data) /\ suffix_idx' = Len(Data)
  BY DEF EmitLiterals
<1>4. SameData(window', window) /\ TablesPoint(window', suffix_idx')
  BY <1>1, <1>2, <1>3, TablesStill
<1>5. out' = SubSeq(input, 1, Len(input) - Len(Data) + last_idx_in_sequence')
  <2>1. Len(Data) <= Len(Data)
    BY <1>2
  <2>2. out \o SubSeq(Data, last_idx_in_sequence + 1, Len(Data))
           = SubSeq(input, 1, Len(input) - Len(Data) + Len(Data))
    BY <1>1, <1>2, <2>1, LiteralsFollow
  <2> QED
    BY <1>3, <2>2, Zenon
<1>6. last_idx_in_sequence' <= suffix_idx' /\ suffix_idx' <= Len(Data)
      /\ suffix_idx' \in Nat /\ last_idx_in_sequence' \in Nat
  BY <1>2, <1>3
<1> QED
  BY <1>1, <1>3, <1>4, <1>5, <1>6, WithinBlock

\* next_sequence at the end of the block keeps the invariant.
LEMMA EndReachedKeeps ==
    ASSUME IInv, EndReached
    PROVE  IInv'
<1>1. window # <<>>
  BY Zenon DEF IInv, IndicesInOrder, EndReached
<1>2. /\ Len(Data) \in Nat /\ Len(input) \in Nat /\ suffix_idx \in Nat /\ last_idx_in_sequence \in Nat
  BY <1>1, BlockAtHand
<1>3. CASE last_idx_in_sequence # suffix_idx
  BY <1>3, LiteralsKeep DEF EndReached
<1>4. CASE last_idx_in_sequence = suffix_idx
  <2>1. /\ pc' = "idle" /\ pc = "matching"
        /\ UNCHANGED <<window, suffix_idx, last_idx_in_sequence, window_size, suffix_pool, input, out>>
    BY <1>4 DEF EndReached
  <2>2. suffix_idx = Len(Data)
    BY <1>2 DEF EndReached, Remaining
  <2>3. SameData(window', window) /\ TablesPoint(window', suffix_idx')
    BY <1>1, <1>2, <2>1, TablesStill
  <2>4. out' = SubSeq(input, 1, Len(input) - Len(Data) + last_idx_in_sequence')
    <3>1. out = SubSeq(input, 1, Len(input) - (Len(Data) - last_idx_in_sequence))
      BY <2>1, Zenon DEF IInv, SequencesReproduceData
    <3>2. Len(input) - (Len(Data) - last_idx_in_sequence) = Len(input) - Len(Data) + last_idx_in_sequence
      BY <1>2
    <3> QED
      BY <2>1, <3>1, <3>2, Zenon
  <2>5. last_idx_in_sequence' <= suffix_idx' /\ suffix_idx' <= Len(Data)
        /\ suffix_idx' \in Nat /\ last_idx_in_sequence' \in Nat /\ last_idx_in_sequence' = Len(Data)
    BY <1>2, <1>4, <2>1, <2>2
  <2> QED
    BY <1>1, <2>1, <2>3, <2>4, <2>5, WithinBlock
<1> QED
  BY <1>3, <1>4

\* next_sequence with fewer bytes left than a key keeps the invariant.
LEMMA TooShortKeeps ==
    ASSUME IInv, TooShort
    PROVE  IInv'
  BY LiteralsKeep DEF TooShort

\* next_sequence with a match keeps the invariant.
LEMMA MatchFoundKeeps ==
    ASSUME IInv, MatchFound
    PROVE  IInv'
<1>1. window # <<>>
  BY Zenon DEF IInv, IndicesInOrder, MatchFound
<1>2. /\ Len(Data) \in Nat /\ Len(input) \in Nat /\ suffix_idx \in Nat /\ suffix_idx <= Len(Data)
      /\ last_idx_in_sequence <= suffix_idx /\ last_idx_in_sequence \in Nat
      /\ Len(Data) <= Len(input) /\ MinMatchLen \in Nat /\ MinMatchLen >= 1
      /\ Remaining = Len(Data) - suffix_idx /\ Remaining \in Nat /\ input \in Seq(Byte)
  <2>1. input \in Seq(Byte)
    BY DEF IInv, TypeOK
  <2> QED
    BY <1>1, <2>1, BlockAtHand, MinMatchLenAssumption DEF Remaining
<1> DEFINE m == Best(Candidates)
           to == suffix_idx + m.len
           literals == SubSeq(Data, last_idx_in_sequence + 1, suffix_idx)
<1>3. /\ pc = "matching" /\ pc' = "matching" /\ Remaining >= MinMatchLen /\ Candidates # {}
      /\ AddSuffixesTill(to) /\ suffix_idx' = to /\ last_idx_in_sequence' = to
      /\ out' = WithMatch(out \o literals, m.offset, m.len)
      /\ UNCHANGED <<window_size, suffix_pool, input>>
  BY Zenon DEF MatchFound
<1>4. \A c \in Candidates : Copyable(c)
  BY <1>1, <1>3, CandidatesAreCopyable, Zenon
<1>5. m \in Candidates
  <2>1. Candidates \in SUBSET [offset : Nat, len : 0..Remaining]
    BY <1>4, Zenon DEF Copyable
  <2> QED
    BY <1>2, <1>3, <2>1, BestIsCandidate, Zenon
<1>6. Copyable(m)
  BY <1>4, <1>5, Zenon
<1> HIDE DEF m
<1>7. /\ m.offset \in Nat /\ m.len \in 0..Remaining /\ m.len >= MinMatchLen
      /\ m.offset >= 1 /\ m.offset <= Place /\ m.offset <= MaxWindowSize /\ m.len <= m.offset
      /\ \A i \in 1..m.len : input[Place - m.offset + i] = input[Place + i]
  BY <1>6 DEF Copyable
<1>8. /\ to \in Nat /\ to <= Len(Data) /\ suffix_idx <= to /\ to < to + MinMatchLen
      /\ Place \in Nat /\ m.len \in Nat /\ Place + m.len <= Len(input)
      /\ Place + m.len = Len(input) - Len(Data) + to
  <2> DEFINE l == Len(Data)
             n == Len(input)
             len == m.len
             s == suffix_idx
  <2>1. /\ l \in Nat /\ n \in Nat /\ s \in Nat /\ l <= n /\ s <= l /\ len \in 0..(l - s)
        /\ MinMatchLen \in Nat /\ MinMatchLen >= 1
    BY <1>2, <1>7
  <2>2. to = s + len /\ Place = n - l + s
    BY Zenon DEF Place
  <2> HIDE DEF l, n, len, s, to
  <2>3. /\ to \in Nat /\ to <= l /\ s <= to /\ to < to + MinMatchLen
        /\ Place \in Nat /\ len \in Nat /\ Place + len <= n /\ Place + len = n - l + to
    BY <2>1, <2>2
  <2> QED
    BY <2>3, Zenon DEF l, n, len, s
<1>9. SameData(window', window) /\ TablesPoint(window', suffix_idx')
  BY <1>1, <1>3, <1>8, SuffixesAdded, Zenon
<1>10. out \o literals = SubSeq(input, 1, Place)
  <2>1. out \o literals = SubSeq(input, 1, Len(input) - Len(Data) + suffix_idx)
    BY <1>1, <1>2, <1>3, LiteralsFollow
  <2> QED
    BY <2>1, Zenon DEF Place
<1>11. WithMatch(SubSeq(input, 1, Place), m.offset, m.len) = SubSeq(input, 1, Place + m.len)
  <2> DEFINE o == m.offset
             l == m.len
  <2>1. /\ o \in Nat /\ l \in Nat /\ o >= 1 /\ o <= Place /\ o <= MaxWindowSize /\ l <= o
        /\ Place \in Nat /\ Place + l <= Len(input) /\ input \in Seq(Byte)
        /\ \A i \in 1..l : input[Place - o + i] = input[Place + i]
    BY <1>2, <1>7, <1>8, Zenon
  <2> HIDE DEF o, l
  <2>2. WithMatch(SubSeq(input, 1, Place), o, l) = SubSeq(input, 1, Place + l)
    BY <2>1, MatchCopies, Zenon
  <2> QED
    BY <2>2, Zenon DEF o, l
<1>12. out' = SubSeq(input, 1, Len(input) - Len(Data) + last_idx_in_sequence')
  BY <1>3, <1>8, <1>10, <1>11, Zenon
<1>13. last_idx_in_sequence' <= suffix_idx' /\ suffix_idx' <= Len(Data)
       /\ suffix_idx' \in Nat /\ last_idx_in_sequence' \in Nat
  BY <1>3, <1>8
<1> QED
  BY <1>1, <1>3, <1>9, <1>12, <1>13, WithinBlock

\* next_sequence without a match keeps the invariant.
LEMMA NoMatchKeeps ==
    ASSUME IInv, NoMatch
    PROVE  IInv'
<1>1. window # <<>>
  BY Zenon DEF IInv, IndicesInOrder, NoMatch
<1>2. /\ Len(Data) \in Nat /\ Len(input) \in Nat /\ suffix_idx \in Nat /\ suffix_idx <= Len(Data)
      /\ last_idx_in_sequence <= suffix_idx /\ last_idx_in_sequence \in Nat
      /\ MinMatchLen \in Nat /\ MinMatchLen >= 1 /\ Remaining = Len(Data) - suffix_idx
  BY <1>1, BlockAtHand, MinMatchLenAssumption DEF Remaining
<1>3. /\ pc = "matching" /\ pc' = "matching" /\ Remaining >= MinMatchLen
      /\ AddSuffixesTill(suffix_idx + MinMatchLen) /\ suffix_idx' = suffix_idx + 1
      /\ UNCHANGED <<last_idx_in_sequence, window_size, suffix_pool, input, out>>
  BY DEF NoMatch
<1>4. /\ suffix_idx + MinMatchLen \in Nat /\ suffix_idx + MinMatchLen <= Len(Data)
      /\ suffix_idx' \in Nat /\ suffix_idx <= suffix_idx' /\ suffix_idx' <= Len(Data)
      /\ suffix_idx + MinMatchLen < suffix_idx' + MinMatchLen
      /\ last_idx_in_sequence' <= suffix_idx' /\ last_idx_in_sequence' \in Nat
  BY <1>2, <1>3
<1>5. SameData(window', window) /\ TablesPoint(window', suffix_idx')
  BY <1>1, <1>3, <1>4, SuffixesAdded, Zenon
<1>6. out' = SubSeq(input, 1, Len(input) - Len(Data) + last_idx_in_sequence')
  <2>1. out = SubSeq(input, 1, Len(input) - (Len(Data) - last_idx_in_sequence))
    BY <1>3, Zenon DEF IInv, SequencesReproduceData
  <2>2. Len(input) - (Len(Data) - last_idx_in_sequence) = Len(input) - Len(Data) + last_idx_in_sequence
    BY <1>2
  <2> QED
    BY <1>3, <2>1, <2>2, Zenon
<1> QED
  BY <1>1, <1>3, <1>4, <1>5, <1>6, WithinBlock
-----------------------------------------------------------------------------
(* Steps between blocks.                                                   *)

\* The entries that leave make room for the block.
LEMMA RoomIsMade ==
    ASSUME IInv, NEW space \in Spaces
    PROVE  LET n == Evicted(Len(space))
           IN  /\ n \in 0..Len(window)
               /\ window_size - Bytes(SubSeq(window, 1, n)) = Distance(window, n + 1)
               /\ Distance(window, n + 1) + Len(space) <= MaxWindowSize
<1> DEFINE l == Len(window)
           a == Len(space)
           gone(k) == Bytes(SubSeq(window, 1, k))
           T == {k \in 0..l : window_size - gone(k) + a <= MaxWindowSize}
<1>1. /\ window \in Seq(Entries) /\ l \in Nat /\ Contiguous(window)
      /\ window_size = Distance(window, 1)
  BY DEF IInv, TypeOK, WindowInPlace
<1>2. a \in Nat /\ a <= SliceSize /\ MaxWindowSize \in Nat /\ SliceSize <= MaxWindowSize /\ SliceSize \in Nat
  BY SpacesAssumption, SlicesAssumption, WindowBound
<1>3. ASSUME NEW k \in 0..l PROVE window_size - gone(k) = Distance(window, k + 1)
  <2>1. 1 \in 1..(Len(window) + 1) /\ k \in (1 - 1)..Len(window) /\ 1 \in Nat /\ k + 1 \in Nat
    BY <1>1
  <2>2. gone(k) = Distance(window, 1) - Distance(window, k + 1)
    BY <1>1, <2>1, BytesBetween
  <2>3. Distance(window, 1) \in Nat /\ Distance(window, k + 1) \in Nat
    BY <1>1, <2>1, Distances
  <2> HIDE DEF gone
  <2> QED
    BY <1>1, <2>2, <2>3
<1>4. l \in T
  <2>1. l \in 0..l /\ ~(l + 1 \in 1..Len(window))
    BY <1>1
  <2>2. Distance(window, l + 1) = 0
    BY <2>1, Zenon DEF Distance
  <2>3. window_size - gone(l) = 0
    BY <1>3, <2>1, <2>2
  <2>4. 0 + a <= MaxWindowSize
    BY <1>2
  <2> QED
    BY <2>1, <2>3, <2>4, Zenon
<1>5. Evicted(a) = Min(T)
  BY Zenon DEF Evicted
<1>6. Min(T) \in T
  <2>1. T \in SUBSET Nat /\ T # {}
    BY <1>1, <1>4
  <2> HIDE DEF T
  <2> QED
    BY <2>1, LeastOfSet
<1>7. \A k \in T : k \in 0..l /\ window_size - gone(k) + a <= MaxWindowSize
  OBVIOUS
<1> HIDE DEF T
<1> QED
  BY <1>3, <1>5, <1>6, <1>7, Zenon

\* commit_space, with its evictions and a table of the pool, keeps the invariant.
LEMMA CommitSpaceKeeps ==
    ASSUME IInv, NEW space \in Spaces, CommitSpace(space)
    PROVE  IInv'
<1> DEFINE n == Evicted(Len(space))
           suffixes == IF suffix_pool = <<>> THEN WithCapacity(Len(space)) ELSE Last(suffix_pool)
           pool == IF suffix_pool = <<>> THEN <<>> ELSE Front(suffix_pool)
           a == Len(space)
           m == Len(window) - n
           leaving == SubSeq(window, 1, n)
           c == Committed(window, n, space, suffixes)
<1>1. /\ pc = "idle" /\ window' = c
      /\ window_size' = window_size - Bytes(leaving) + a
      /\ suffix_pool' = pool \o RecycledStores(leaving)
      /\ suffix_idx' = 0 /\ last_idx_in_sequence' = 0 /\ pc' = "committed"
      /\ input' = input \o space /\ out' = out
  BY DEF CommitSpace, Committed
<1>2. /\ window \in Seq(Entries) /\ input \in Seq(Byte) /\ Len(window) \in Nat /\ Len(input) \in Nat
      /\ Contiguous(window) /\ InPlace(window, input) /\ suffix_pool \in Seq(Tables)
      /\ Distance(window, 1) <= Len(input) /\ Cleared(suffix_pool)
  BY DEF IInv, TypeOK, WindowInPlace, PoolIsCleared
<1>3. space \in Seq(Byte) /\ a \in 1..SliceSize /\ a \in Nat
  BY SpacesAssumption, SlicesAssumption
<1>4. /\ n \in 0..Len(window)
      /\ window_size - Bytes(leaving) = Distance(window, n + 1)
      /\ Distance(window, n + 1) + a <= MaxWindowSize
  BY RoomIsMade
<1>5. suffixes \in Tables /\ \A s \in DOMAIN suffixes : suffixes[s] = None
  <2>1. CASE suffix_pool = <<>>
    BY <1>3, <2>1, EmptyTables
  <2>2. CASE suffix_pool # <<>>
    BY <1>2, <2>2, PoolPopped
  <2> QED
    BY <2>1, <2>2
<1>6. pool \in Seq(Tables) /\ Cleared(pool)
  <2>1. CASE suffix_pool = <<>>
    <3>1. Cleared(<<>>) /\ <<>> \in Seq(Tables)
      BY DEF Cleared
    <3> QED
      BY <2>1, <3>1
  <2>2. CASE suffix_pool # <<>>
    BY <1>2, <2>2, PoolPopped
  <2> QED
    BY <2>1, <2>2
<1>7. leaving \in Seq(Entries)
  <2>1. 1 \in 1..(n + 1)
    BY <1>4
  <2> QED
    BY <1>2, <1>4, <2>1, Part
<1> HIDE DEF n, suffixes, pool, a, leaving
<1>8. suffix_pool' \in Seq(Tables) /\ Cleared(suffix_pool')
  <2>1. RecycledStores(leaving) \in Seq(Tables) /\ Cleared(RecycledStores(leaving))
    BY <1>7, RecycledTables
  <2> QED
    BY <1>1, <1>6, <2>1, PoolsTogether
<1>9. Follows(c, window, n, space, suffixes)
  BY <1>2, <1>4, <1>5, CommittedEntries, Zenon
<1>10. Contiguous(c) /\ InPlace(c, input \o space)
  BY <1>2, <1>4, <1>5, CommittedInPlace, Zenon
<1> HIDE DEF c
<1>11. /\ c \in Seq(Entries) /\ Len(c) = m + 1
       /\ c[m + 1].data = space /\ c[m + 1].suffixes = suffixes
       /\ \A k \in 1..m : c[k].data = window[n + k].data /\ c[k].suffixes = window[n + k].suffixes
       /\ \A k \in 1..(m + 1) : Distance(c, k) = Distance(window, n + k) + a
  BY <1>9, Zenon DEF Follows, a
<1>12. m \in Nat /\ n \in Nat /\ Len(window) = n + m
  BY <1>2, <1>4
<1> HIDE DEF m
<1>13. window' # <<>> /\ Data' = space
  <2>1. window' # <<>>
    BY <1>1, <1>11, <1>12
  <2> QED
    BY <1>1, <1>11, <2>1, Zenon DEF Data, LastEntry
<1> DEFINE d == Distance(window, n + 1)
<1>14. d \in Nat /\ d <= Len(input)
  <2>1. d \in Nat /\ n + 1 \in Nat
    <3>1. n + 1 \in Nat
      BY <1>12
    <3> QED
      BY <1>2, <3>1, Distances, Zenon
  <2>2. CASE n + 1 \in 1..Len(window)
    <3>1. d <= Distance(window, 1) /\ Distance(window, 1) \in Nat
      BY <1>2, <2>2, Distances
    <3> QED
      BY <1>2, <2>1, <3>1
  <2>3. CASE ~(n + 1 \in 1..Len(window))
    <3>1. d = 0
      BY <2>3, Zenon DEF Distance
    <3> QED
      BY <1>2, <3>1
  <2> QED
    BY <2>1, <2>2, <2>3
<1>15. window_size' = d + a /\ window_size' = Distance(window', 1)
  <2>1. 1 \in 1..(m + 1)
    BY <1>12
  <2>2. Distance(c, 1) = d + a
    BY <1>11, <2>1, Zenon
  <2> QED
    BY <1>1, <1>4, <2>2, Zenon
<1>16. input' \in Seq(Byte) /\ Len(input') = Len(input) + a
  BY <1>1, <1>2, <1>3 DEF a
<1>17. TypeOK'
  <2>1. window_size' \in Nat
    BY <1>3, <1>14, <1>15
  <2> QED
    BY <1>1, <1>8, <1>11, <1>16, <2>1, Zenon DEF TypeOK
<1>18. WindowInPlace'
  <2>1. window_size' <= Len(input') /\ window_size' <= MaxWindowSize
    BY <1>2, <1>3, <1>4, <1>14, <1>15, <1>16
  <2> QED
    BY <1>1, <1>10, <1>15, <2>1, Zenon DEF WindowInPlace
<1>19. IndicesInOrder'
  <2>1. 0 <= 0 /\ 0 <= Len(Data')
    BY <1>3, <1>13 DEF a
  <2> QED
    BY <1>1, <1>13, <2>1 DEF IndicesInOrder
<1>20. PoolIsCleared'
  BY <1>8, Zenon DEF PoolIsCleared
<1>21. TablesPointIntoTheirData'
  <2>1. ASSUME NEW k \in 1..(m + 1), NEW s \in DOMAIN c[k].suffixes, c[k].suffixes[s] # None
        PROVE  /\ c[k].suffixes[s] + MinMatchLen <= Len(c[k].data)
               /\ k = m + 1 => c[k].suffixes[s] < 0
    <3>1. CASE k = m + 1
      BY <1>5, <1>11, <2>1, <3>1, Zenon
    <3>2. CASE k # m + 1
      <4>1. k \in 1..m /\ n + k \in 1..Len(window)
        BY <1>12, <3>2
      <4>2. c[k].data = window[n + k].data /\ c[k].suffixes = window[n + k].suffixes
        BY <1>11, <4>1, Zenon
      <4>3. TablesPointIntoTheirData
        BY DEF IInv
      <4>4. window[n + k].suffixes[s] + MinMatchLen <= Len(window[n + k].data)
        BY <2>1, <4>1, <4>2, <4>3, Zenon DEF TablesPointIntoTheirData
      <4> QED
        BY <3>2, <4>2, <4>4, Zenon
    <3> QED
      BY <3>1, <3>2
  <2>2. Len(window') = m + 1 /\ window' = c /\ suffix_idx' = 0
    BY <1>1, <1>11, Zenon
  <2> QED
    BY <2>1, <2>2, Zenon DEF TablesPointIntoTheirData
<1>22. SequencesReproduceData'
  <2>1. out = SubSeq(input, 1, Len(input) - 0)
    BY <1>1, Zenon DEF IInv, SequencesReproduceData
  <2>2. SubSeq(input, 1, Len(input) - 0) = input
    BY <1>2
  <2>3. SubSeq(input \o space, 1, Len(input)) = input
    BY <1>2, <1>3
  <2>4. Len(input') - (Len(Data') - last_idx_in_sequence') = Len(input)
    BY <1>1, <1>2, <1>3, <1>13, <1>16 DEF a
  <2>5. pc' # "idle"
    BY <1>1
  <2> QED
    BY <1>1, <2>1, <2>2, <2>3, <2>4, <2>5, Zenon DEF SequencesReproduceData
<1> QED
  BY <1>17, <1>18, <1>19, <1>20, <1>21, <1>22, Zenon DEF IInv

\* reset keeps the invariant.
LEMMA ResetKeeps ==
    ASSUME IInv, Reset
    PROVE  IInv'
<1>1. /\ window' = <<>> /\ suffix_idx' = 0 /\ last_idx_in_sequence' = 0 /\ window_size' = 0
      /\ input' = <<>> /\ out' = <<>> /\ pc = "idle" /\ pc' = "idle"
      /\ suffix_pool' = suffix_pool \o RecycledStores(window)
  BY DEF Reset
<1>2. suffix_pool' \in Seq(Tables) /\ Cleared(suffix_pool')
  <2>1. window \in Seq(Entries) /\ suffix_pool \in Seq(Tables) /\ Cleared(suffix_pool)
    BY DEF IInv, TypeOK, PoolIsCleared
  <2>2. RecycledStores(window) \in Seq(Tables) /\ Cleared(RecycledStores(window))
    BY <2>1, RecycledTables
  <2> QED
    BY <1>1, <2>1, <2>2, PoolsTogether
<1>3. TypeOK'
  BY <1>1, <1>2 DEF TypeOK
<1>4. WindowInPlace'
  BY <1>1, WindowBound DEF WindowInPlace, Contiguous, InPlace, Distance
<1>5. IndicesInOrder' /\ PoolIsCleared' /\ TablesPointIntoTheirData'
  BY <1>1, <1>2 DEF IndicesInOrder, PoolIsCleared, TablesPointIntoTheirData
<1>6. SequencesReproduceData'
  BY <1>1 DEF SequencesReproduceData
<1> QED
  BY <1>3, <1>4, <1>5, <1>6 DEF IInv

-----------------------------------------------------------------------------
(* The theorems.                                                           *)

\* A new matcher satisfies the invariant.
LEMMA InitIsInvariant == Init => IInv
<1> SUFFICES ASSUME Init PROVE IInv
  OBVIOUS
<1>1. TypeOK
  BY DEF Init, TypeOK
<1>2. WindowInPlace
  BY WindowBound DEF Init, WindowInPlace, Contiguous, InPlace, Distance
<1>3. IndicesInOrder /\ PoolIsCleared /\ TablesPointIntoTheirData
  BY DEF Init, IndicesInOrder, PoolIsCleared, Cleared, TablesPointIntoTheirData
<1>4. SequencesReproduceData
  BY DEF Init, SequencesReproduceData
<1> QED
  BY <1>1, <1>2, <1>3, <1>4 DEF IInv

\* Every step keeps the invariant.
LEMMA StepKeepsInvariant == IInv /\ [Next]_vars => IInv'
<1> SUFFICES ASSUME IInv, [Next]_vars PROVE IInv'
  OBVIOUS
<1>1. CASE Reset
  BY <1>1, ResetKeeps
<1>2. ASSUME NEW space \in Spaces, CommitSpace(space) PROVE IInv'
  BY <1>2, CommitSpaceKeeps
<1>3. CASE SkipMatching
  BY <1>3, SkipMatchingKeeps
<1>4. CASE StartMatching
  BY <1>4, StartMatchingKeeps
<1>5. CASE EndReached
  BY <1>5, EndReachedKeeps
<1>6. CASE TooShort
  BY <1>6, TooShortKeeps
<1>7. CASE MatchFound
  BY <1>7, MatchFoundKeeps
<1>8. CASE NoMatch
  BY <1>8, NoMatchKeeps
<1>9. CASE UNCHANGED vars
  BY <1>9 DEF vars, IInv, TypeOK, WindowInPlace, IndicesInOrder, PoolIsCleared,
              TablesPointIntoTheirData, SequencesReproduceData, Data, LastEntry
<1> QED
  BY <1>1, <1>2, <1>3, <1>4, <1>5, <1>6, <1>7, <1>8, <1>9 DEF Next, NextSequence

\* The invariant holds in every reachable state.
LEMMA Invariance == Spec => []IInv
BY InitIsInvariant, StepKeepsInvariant, PTL DEF Spec

\* What the sequences of next_sequence and the skipped blocks stand for is the
\* data that was committed, for all blocks, hashes and window sizes.
THEOREM SequencesAreTheData == Spec => []SequencesReproduceData
<1>1. IInv => SequencesReproduceData
  BY DEF IInv
<1> QED
  BY <1>1, Invariance, PTL

\* The tables only hold places in the data of their own entry: no slice that
\* next_sequence takes of an entry is out of range.
THEOREM TablesStayInTheirData == Spec => []TablesPointIntoTheirData
<1>1. IInv => TablesPointIntoTheirData
  BY DEF IInv
<1> QED
  BY <1>1, Invariance, PTL

\* The window is the end of what was committed, never more than its maximum,
\* through every sequence of evictions by reserve.
THEOREM WindowStaysInPlace == Spec => []WindowIsEndOfInput
<1>1. ASSUME IInv PROVE WindowIsEndOfInput
  <2> DEFINE l == Len(window)
  <2>1. /\ window \in Seq(Entries) /\ l \in Nat /\ Contiguous(window) /\ InPlace(window, input)
        /\ window_size = Distance(window, 1) /\ window_size <= MaxWindowSize
        /\ Distance(window, 1) <= Len(input) /\ input \in Seq(Byte)
    BY <1>1 DEF IInv, TypeOK, WindowInPlace
  <2>2. window_size = Bytes(window)
    <3>1. /\ 1 \in 1..(Len(window) + 1) /\ l \in (1 - 1)..Len(window)
          /\ ~(l + 1 \in 1..Len(window)) /\ 1 \in Nat
      BY <2>1
    <3>2. Bytes(SubSeq(window, 1, l)) = Distance(window, 1) - Distance(window, l + 1)
      BY <2>1, <3>1, BytesBetween
    <3>3. Distance(window, l + 1) = 0 /\ Distance(window, 1) \in Nat
      BY <2>1, <3>1, Distances DEF Distance
    <3>4. SubSeq(window, 1, l) = window
      BY <2>1
    <3>5. Bytes(window) = Distance(window, 1) - 0
      BY <3>2, <3>3, <3>4, Zenon
    <3>6. Distance(window, 1) - 0 = Distance(window, 1)
      BY <3>3
    <3> QED
      BY <2>1, <3>5, <3>6, Zenon
  <2>3. ASSUME NEW k \in 1..l
        PROVE  LET before == Len(input) - Len(Data) - window[k].base_offset
               IN  /\ window[k].base_offset = Bytes(SubSeq(window, k, l - 1))
                   /\ window[k].data = SubSeq(input, before + 1, before + Len(window[k].data))
    <3> DEFINE d == Distance(window, k)
               off == window[k].base_offset
               data == window[k].data
               before == Len(input) - Len(Data) - off
    <3>1. window # <<>>
      BY <2>1
    <3>2. /\ Len(Data) \in Nat /\ Len(input) \in Nat /\ Distance(window, l) = Len(Data)
          /\ l \in 1..l
      BY <1>1, <3>1, BlockAtHand
    <3>3. /\ off \in Nat /\ data \in Seq(Byte) /\ d \in Nat /\ Len(data) <= d
          /\ d <= Distance(window, 1) /\ Distance(window, 1) \in Nat
      <4>1. k \in Nat /\ 1 \in Nat
        OBVIOUS
      <4> QED
        BY <2>1, <4>1, Distances
    <3>4. d = off + Len(Data)
      BY Zenon DEF Distance, Data, LastEntry
    <3>5. off = Bytes(SubSeq(window, k, l - 1))
      <4>1. k \in 1..(Len(window) + 1) /\ l - 1 \in (k - 1)..Len(window) /\ (l - 1) + 1 = l
        BY <2>1
      <4>2. Bytes(SubSeq(window, k, l - 1)) = d - Distance(window, (l - 1) + 1)
        BY <2>1, <4>1, BytesBetween
      <4>3. Bytes(SubSeq(window, k, l - 1)) = d - Len(Data)
        BY <3>2, <4>1, <4>2, Zenon
      <4> HIDE DEF d, off
      <4> QED
        BY <3>2, <3>3, <3>4, <4>3
    <3>6. \A i \in 1..Len(data) : data[i] = input[Len(input) - d + i]
      BY <2>1, Zenon DEF InPlace
    <3> HIDE DEF d, off, data
    <3>7. /\ Len(data) \in Nat /\ before \in Nat /\ before = Len(input) - d
          /\ before + Len(data) \in 0..Len(input) /\ before + 1 \in 1..(before + Len(data) + 1)
          /\ (before + Len(data)) - (before + 1) + 1 = Len(data)
      BY <2>1, <3>2, <3>3, <3>4
    <3> DEFINE slice == SubSeq(input, before + 1, before + Len(data))
    <3> HIDE DEF before
    <3>8. /\ slice \in Seq(Byte) /\ Len(slice) = Len(data)
          /\ \A i \in 1..Len(data) : slice[i] = input[(before + 1) + i - 1]
      <4> DEFINE a == before + 1
                 b == before + Len(data)
      <4>1. a \in 1..(b + 1) /\ b \in 0..Len(input) /\ b - a + 1 = Len(data)
        BY <3>7, Zenon DEF a, b
      <4>2. slice = SubSeq(input, a, b) /\ input \in Seq(Byte)
        BY <2>1
      <4> HIDE DEF a, b, slice
      <4>3. /\ slice \in Seq(Byte) /\ Len(slice) = b - a + 1
            /\ \A i \in 1..(b - a + 1) : slice[i] = input[a + i - 1]
        BY <4>1, <4>2, Part
      <4> QED
        BY <4>1, <4>3, Zenon DEF a
    <3>9. \A i \in 1..Len(data) : (before + 1) + i - 1 = before + i
      BY <3>7
    <3>10. \A i \in 1..Len(data) : slice[i] = data[i]
      BY <3>6, <3>7, <3>8, <3>9, Zenon
    <3> HIDE DEF slice
    <3>11. data = slice
      BY <3>3, <3>8, <3>10
    <3> QED
      BY <3>5, <3>11, Zenon DEF before, off, data, slice
  <2> QED
    BY <2>1, <2>2, <2>3, Zenon DEF WindowIsEndOfInput
<1>2. IInv => WindowIsEndOfInput
  BY <1>1
<1> QED
  BY <1>2, Invariance, PTL
=============================================================================
