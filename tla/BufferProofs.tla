---------------------------- MODULE BufferProofs ----------------------------
(***************************************************************************)
(* Proofs about the ring and the buffer on it, for every byte alphabet,    *)
(* chunk size, set of capacities and sequence of calls.                    *)
(*                                                                         *)
(* The ring.  An operation takes an intact ring to an intact one, and what *)
(* it does to the bytes between head and tail; then RingBuffer: the safety *)
(* invariants written on the struct, and that callers see a plain queue.   *)
(*                                                                         *)
(* The buffer.  A match is copied in chunks of its offset: the chunks are  *)
(* the match, and each meets the requirements of the unsafe copy in the    *)
(* ring.  Then the inductive invariant: what was drained and what the ring *)
(* holds is the output, and until the frame ends the ring holds its        *)
(* window, so a match into the dictionary finds everything output so far   *)
(* in the ring.                                                            *)
(***************************************************************************)
EXTENDS Buffers, TLAPS, NaturalsInduction, SequenceTheorems,
        WellFoundedInduction

-----------------------------------------------------------------------------
(* The ring.                                                               *)

\* A nonempty set of naturals has a least element (the well-foundedness of <).
LEMMA LeastNatural ==
    ASSUME NEW S \in SUBSET Nat, S # {}
    PROVE  \E m \in S : \A n \in S : m <= n
<1>1. PICK m \in S : \A y \in S : ~ (<<y, m>> \in OpToRel(<, Nat))
  BY NatLessThanWellFounded, WFMin, Zenon
<1>2. \A y \in S : ~(y < m)
  BY <1>1, Zenon DEF OpToRel
<1> QED
  BY <1>2

\* next_power_of_two returns a power of two that is not below its argument.
LEMMA NextPow2Bounds ==
    ASSUME NEW n \in Nat, NEW w \in Pow2s, w >= n
    PROVE  NextPow2(n) \in Pow2s /\ NextPow2(n) >= n
<1> DEFINE S == {p \in Pow2s : p >= n}
<1>1. S \in SUBSET Nat /\ S # {}
  BY Pow2sAssumption
<1>2. PICK m \in S : \A q \in S : m <= q
  BY <1>1, LeastNatural
<1>3. m \in Pow2s /\ m >= n /\ \A q \in Pow2s : q >= n => m <= q
  BY <1>2
<1> QED
  BY <1>3 DEF NextPow2

\* Reallocation keeps a sentinel slot beyond the requested room.
LEMMA NewCapBounds ==
    ASSUME NEW cap \in Nat, NEW amount \in Nat,
           \E p \in Pow2s : p >= cap + amount
    PROVE  NewCap(cap, amount) \in Nat /\ NewCap(cap, amount) > cap + amount
<1>1. PICK w \in Pow2s : w >= cap + amount
  OBVIOUS
<1>2. NextPow2(cap + amount) \in Pow2s /\ NextPow2(cap + amount) >= cap + amount
  BY <1>1, NextPow2Bounds
<1>3. NextPow2(cap) \in Pow2s /\ NextPow2(cap) >= cap
  BY <1>1, NextPow2Bounds, Pow2sAssumption
<1>4. NextPow2(cap + amount) \in Nat /\ NextPow2(cap) \in Nat
  BY <1>2, <1>3, Pow2sAssumption
<1> QED
  BY <1>2, <1>3, <1>4 DEF NewCap

\* A function on 1..n is a sequence of length n.
LEMMA FunctionIsSeq ==
    ASSUME NEW S, NEW n \in Nat, NEW g \in [1..n -> S]
    PROVE  g \in Seq(S) /\ Len(g) = n
  OBVIOUS

-----------------------------------------------------------------------------
(* What a ring holds.                                                      *)

\* The two slices of an intact ring hold its RingLen written bytes.
LEMMA SliceBytes ==
    ASSUME NEW r, RingOK(r)
    PROVE  /\ FirstSlice(r) \in Seq(Byte) /\ SecondSlice(r) \in Seq(Byte)
           /\ RingLen(r) = Len(FirstSlice(r)) + Len(SecondSlice(r))
<1> DEFINE f == DataSliceLengths(r).after_head
           s == DataSliceLengths(r).to_tail
<1> USE DEF RingOK, HasType, InBounds
<1>1. f \in Nat /\ s \in Nat /\ RingLen(r) = f + s
  BY DEF DataSliceLengths, RingLen
<1>2. \A i \in 1..f : r.head + i - 1 \in 0..(r.cap - 1) /\ IsData(r, r.head + i - 1)
  BY SMTT(30) DEF DataSliceLengths, IsData
<1>3. \A i \in 1..s : i - 1 \in 0..(r.cap - 1) /\ IsData(r, i - 1)
  BY DEF DataSliceLengths, IsData
<1>4. FirstSlice(r) \in Seq(Byte) /\ Len(FirstSlice(r)) = f
  <2>1. \A i \in 1..f : r.mem[r.head + i - 1] \in Byte
    BY <1>2 DEF Initialized
  <2>2. FirstSlice(r) \in [1..f -> Byte]
    BY <2>1 DEF FirstSlice, Slice
  <2> QED
    BY <1>1, <2>2, FunctionIsSeq
<1>5. SecondSlice(r) \in Seq(Byte) /\ Len(SecondSlice(r)) = s
  <2>1. \A i \in 1..s : r.mem[0 + i - 1] \in Byte
    BY <1>3 DEF Initialized
  <2>2. SecondSlice(r) \in [1..s -> Byte]
    BY <2>1 DEF SecondSlice, Slice
  <2> QED
    BY <1>1, <2>2, FunctionIsSeq
<1> QED
  BY <1>1, <1>4, <1>5

\* The content of a ring is RingLen bytes, one slot less than its capacity.
LEMMA ContentBytes ==
    ASSUME NEW r, RingOK(r)
    PROVE  /\ RingLen(r) \in Nat
           /\ r.cap > 0 => RingLen(r) < r.cap
           /\ r.cap = 0 => RingLen(r) = 0
           /\ Len(Content(r)) = RingLen(r)
           /\ \A i \in 1..RingLen(r) : Content(r)[i] \in Byte
<1> DEFINE f == DataSliceLengths(r).after_head
           s == DataSliceLengths(r).to_tail
<1> USE DEF RingOK, HasType, InBounds
<1>1. f \in Nat /\ s \in Nat /\ RingLen(r) = f + s
  BY DEF DataSliceLengths, RingLen
<1>2. /\ r.cap > 0 => RingLen(r) < r.cap
      /\ r.cap = 0 => RingLen(r) = 0
  BY DEF DataSliceLengths, RingLen
<1>3. /\ FirstSlice(r) \in Seq(Byte) /\ SecondSlice(r) \in Seq(Byte)
      /\ RingLen(r) = Len(FirstSlice(r)) + Len(SecondSlice(r))
  BY SliceBytes
<1>4. Content(r) \in Seq(Byte) /\ Len(Content(r)) = RingLen(r)
  BY <1>3, ConcatProperties DEF Content
<1> QED
  BY <1>1, <1>2, <1>4

\* One slot of an allocated ring, the sentinel, is neither data nor free.
LEMMA FreeIsTheRest ==
    ASSUME NEW r, RingOK(r)
    PROVE  /\ r.cap > 0 => Free(r) = r.cap - 1 - RingLen(r)
           /\ r.cap = 0 => Free(r) = 0
           /\ Free(r) \in Nat
<1>1. /\ r.cap \in Nat /\ r.head \in Nat /\ r.tail \in Nat
      /\ IF r.cap = 0 THEN r.head = 0 /\ r.tail = 0 ELSE r.head < r.cap /\ r.tail < r.cap
  BY DEF RingOK, HasType, InBounds
<1>2. CASE r.tail < r.head
  BY <1>1, <1>2 DEF Free, FreeSliceLengths, RingLen, DataSliceLengths
<1>3. CASE ~(r.tail < r.head)
  BY <1>1, <1>3 DEF Free, FreeSliceLengths, RingLen, DataSliceLengths
<1> QED
  BY <1>2, <1>3

\* A wrapped index: all of them are below twice the capacity.
LEMMA WrapOnce ==
    ASSUME NEW c \in Nat, c > 0, NEW x \in Nat, x < 2 * c
    PROVE  x % c = IF x < c THEN x ELSE x - c
  OBVIOUS

\* Advancing an index by less than the capacity wraps at most once.
LEMMA WrappedIndex ==
    ASSUME NEW c \in Nat, NEW x \in Nat, NEW n \in Nat, x < c, n < c
    PROVE  /\ (x + n) % c = IF x + n < c THEN x + n ELSE x + n - c
           /\ (x + n) % c \in Nat /\ (x + n) % c < c
<1>1. x + n \in Nat /\ x + n < 2 * c /\ c > 0
  OBVIOUS
<1>2. (x + n) % c = IF x + n < c THEN x + n ELSE x + n - c
  BY <1>1, WrapOnce
<1> QED
  BY <1>2

\* IsData and RingLen on bare indices, for the arithmetic below.
Between(h, t, i) == IF t >= h THEN h <= i /\ i < t ELSE h <= i \/ i < t
Distance(c, h, t) == IF t >= h THEN t - h ELSE c - h + t

\* The numbers of an intact, allocated ring.
LEMMA RingNumbers ==
    ASSUME NEW r, RingOK(r), r.cap > 0
    PROVE  /\ r.cap \in Nat /\ r.head \in Nat /\ r.tail \in Nat
           /\ r.head < r.cap /\ r.tail < r.cap
           /\ RingLen(r) \in Nat /\ RingLen(r) < r.cap
           /\ RingLen(r) = Distance(r.cap, r.head, r.tail)
           /\ Free(r) \in Nat /\ Free(r) = r.cap - 1 - RingLen(r)
<1>1. /\ r.cap \in Nat /\ r.head \in Nat /\ r.tail \in Nat
      /\ r.head < r.cap /\ r.tail < r.cap
  BY DEF RingOK, HasType, InBounds
<1>2. RingLen(r) = Distance(r.cap, r.head, r.tail)
  BY <1>1 DEF Distance, RingLen, DataSliceLengths
<1> QED
  BY <1>1, <1>2, ContentBytes, FreeIsTheRest

\* The slot that lies i behind the front, for i of less than twice the capacity.
Wrap(c, i) == IF i < c THEN i ELSE i - c

\* The slots from head on are in the allocation, and they are the data.
LEMMA WrapGeometry ==
    ASSUME NEW c \in Nat, NEW h \in Nat, NEW t \in Nat, h < c, t < c,
           NEW i \in 0..(Distance(c, h, t) - 1)
    PROVE  /\ Wrap(c, h + i) \in 0..(c - 1) /\ Between(h, t, Wrap(c, h + i))
           /\ t >= h => Wrap(c, h + i) = h + i
           /\ ~(t >= h) => Wrap(c, h + i) = IF i < c - h THEN h + i ELSE i - (c - h)
  BY DEF Wrap, Between, Distance

\* Sequences of bytes with the same bytes at the same places.
LEMMA SameBytes ==
    ASSUME NEW s \in Seq(Byte), NEW t \in Seq(Byte), Len(s) = Len(t),
           \A i \in 1..Len(s) : s[i] = t[i]
    PROVE  s = t
  BY SeqEqual

\* The bytes a caller sees are those of the slots from head on, wrapping.
LEMMA ContentAt ==
    ASSUME NEW r, RingOK(r)
    PROVE  /\ Content(r) \in Seq(Byte) /\ Len(Content(r)) = RingLen(r) /\ RingLen(r) \in Nat
           /\ \A i \in 0..(RingLen(r) - 1) :
                 /\ Wrap(r.cap, r.head + i) \in 0..(r.cap - 1) /\ IsData(r, Wrap(r.cap, r.head + i))
                 /\ Content(r)[i + 1] = r.mem[Wrap(r.cap, r.head + i)]
<1> DEFINE f == DataSliceLengths(r).after_head
           s == DataSliceLengths(r).to_tail
<1>0. r.head \in Nat
  BY DEF RingOK, HasType
<1>1. f \in Nat /\ s \in Nat /\ RingLen(r) = f + s
  BY DEF DataSliceLengths, RingLen, RingOK, HasType, InBounds
<1>2. ASSUME NEW i \in 0..(RingLen(r) - 1)
      PROVE  /\ Wrap(r.cap, r.head + i) \in 0..(r.cap - 1) /\ IsData(r, Wrap(r.cap, r.head + i))
             /\ i < f => Wrap(r.cap, r.head + i) = r.head + i
             /\ i >= f => Wrap(r.cap, r.head + i) = i - f
  <2>1. r.cap > 0
    BY <1>1 DEF RingLen, DataSliceLengths, RingOK, HasType, InBounds
  <2>2. /\ r.cap \in Nat /\ r.head \in Nat /\ r.tail \in Nat /\ r.head < r.cap /\ r.tail < r.cap
        /\ i \in 0..(Distance(r.cap, r.head, r.tail) - 1)
    BY <2>1, RingNumbers
  <2>3. /\ Wrap(r.cap, r.head + i) \in 0..(r.cap - 1)
        /\ Between(r.head, r.tail, Wrap(r.cap, r.head + i))
        /\ r.tail >= r.head => Wrap(r.cap, r.head + i) = r.head + i
        /\ ~(r.tail >= r.head) =>
              Wrap(r.cap, r.head + i) = IF i < r.cap - r.head THEN r.head + i
                                        ELSE i - (r.cap - r.head)
    BY <2>2, WrapGeometry, SMTT(30)
  <2>4. /\ r.tail >= r.head => i < f
        /\ ~(r.tail >= r.head) => f = r.cap - r.head
    BY <2>2 DEF DataSliceLengths, Distance
  <2>5. IsData(r, Wrap(r.cap, r.head + i))
    BY <2>3 DEF IsData, Between
  <2> HIDE DEF f
  <2> QED
    BY <1>1, <2>2, <2>3, <2>4, <2>5
<1>3. /\ FirstSlice(r) = [i \in 1..f |-> r.mem[r.head + i - 1]]
      /\ SecondSlice(r) = [i \in 1..s |-> r.mem[0 + i - 1]]
  BY DEF FirstSlice, SecondSlice, Slice
<1>4. Len(Content(r)) = RingLen(r)
  BY ContentBytes
<1> HIDE DEF f, s
<1>5. \A i \in 1..f : r.mem[r.head + i - 1] \in Byte
  <2> SUFFICES ASSUME NEW i \in 1..f PROVE r.mem[r.head + i - 1] \in Byte
    OBVIOUS
  <2>1. i - 1 \in 0..(RingLen(r) - 1) /\ i - 1 < f /\ r.head + (i - 1) = r.head + i - 1
    BY <1>0, <1>1
  <2>2. r.head + i - 1 \in 0..(r.cap - 1) /\ IsData(r, r.head + i - 1)
    BY <1>2, <2>1
  <2> QED
    BY <2>2 DEF Initialized, RingOK
<1>6. \A i \in 1..s : r.mem[0 + i - 1] \in Byte
  <2> SUFFICES ASSUME NEW i \in 1..s PROVE r.mem[0 + i - 1] \in Byte
    OBVIOUS
  <2> DEFINE j == f + (i - 1)
  <2>1. j \in 0..(RingLen(r) - 1) /\ j >= f /\ j - f = 0 + i - 1
    BY <1>1
  <2> HIDE DEF j
  <2>2. Wrap(r.cap, r.head + j) = 0 + i - 1
    BY <1>2, <2>1
  <2>3. 0 + i - 1 \in 0..(r.cap - 1) /\ IsData(r, 0 + i - 1)
    BY <1>2, <2>1, <2>2
  <2> QED
    BY <2>3 DEF Initialized, RingOK
<1>7. FirstSlice(r) \in Seq(Byte) /\ Len(FirstSlice(r)) = f
  BY <1>1, <1>3, <1>5, FunctionIsSeq
<1>8. SecondSlice(r) \in Seq(Byte) /\ Len(SecondSlice(r)) = s
  BY <1>1, <1>3, <1>6, FunctionIsSeq
<1>9. /\ Content(r) \in Seq(Byte)
      /\ \A i \in 1..f : Content(r)[i] = FirstSlice(r)[i]
      /\ \A i \in 1..s : Content(r)[f + i] = SecondSlice(r)[i]
  BY <1>1, <1>7, <1>8, ConcatProperties DEF Content
<1>10. ASSUME NEW i \in 0..(RingLen(r) - 1)
       PROVE  Content(r)[i + 1] = r.mem[Wrap(r.cap, r.head + i)]
  <2>1. i + 1 \in 1..(f + s) /\ i \in Nat
    BY <1>1
  <2>2. CASE i < f
    <3>1. i + 1 \in 1..f /\ r.head + (i + 1) - 1 = r.head + i
      BY <1>0, <1>1, <2>1, <2>2
    <3>2. Content(r)[i + 1] = FirstSlice(r)[i + 1]
      BY <1>9, <3>1
    <3>3. FirstSlice(r)[i + 1] = r.mem[r.head + i]
      BY <1>3, <3>1
    <3> QED
      BY <1>2, <2>2, <3>2, <3>3
  <2>3. CASE ~(i < f)
    <3> DEFINE j == i + 1 - f
    <3>1. j \in 1..s /\ f + j = i + 1 /\ 0 + j - 1 = i - f /\ i >= f
      BY <1>1, <2>1, <2>3
    <3> HIDE DEF j
    <3>2. Content(r)[f + j] = SecondSlice(r)[j]
      BY <1>9, <3>1
    <3>3. SecondSlice(r)[j] = r.mem[i - f]
      BY <1>3, <3>1
    <3> QED
      BY <1>2, <3>1, <3>2, <3>3
  <2> QED
    BY <2>2, <2>3
<1>11. RingLen(r) \in Nat
  BY <1>1
<1> QED
  BY <1>2, <1>4, <1>9, <1>10, <1>11, Zenon

\* A ring without bytes.
LEMMA NoContent ==
    ASSUME NEW r, RingOK(r), r.head = r.tail
    PROVE  Content(r) = <<>> /\ RingLen(r) = 0
<1>1. RingLen(r) = 0
  BY DEF RingLen, DataSliceLengths, RingOK, HasType
<1> QED
  BY <1>1, ContentAt, EmptySeq

-----------------------------------------------------------------------------
(* Every operation takes an intact ring to an intact ring that holds what it should. *)

\* Reallocation moves the data to the front and keeps it.
LEMMA ReserveAmortizedOK ==
    ASSUME NEW r, RingOK(r), NEW n \in Nat, n > 0,
           \E p \in Pow2s : p >= r.cap + n
    PROVE  /\ RingOK(ReserveAmortized(r, n))
           /\ ReserveAmortized(r, n).cap > r.cap + n
           /\ RingLen(ReserveAmortized(r, n)) = RingLen(r)
<1> DEFINE t == ReserveAmortized(r, n)
<1>1. r.cap \in Nat
  BY DEF RingOK, HasType
<1>2. NewCap(r.cap, n) \in Nat /\ NewCap(r.cap, n) > r.cap + n
  BY <1>1, NewCapBounds
<1>3. /\ RingLen(r) \in Nat /\ RingLen(r) <= r.cap
      /\ \A i \in 1..RingLen(r) : Content(r)[i] \in Byte
  BY <1>1, ContentBytes
<1>4. /\ t.cap = NewCap(r.cap, n) /\ t.head = 0 /\ t.tail = RingLen(r)
      /\ t.mem = [i \in 0..(t.cap - 1) |->
                    IF i < RingLen(r) THEN Content(r)[i + 1] ELSE Uninit]
  BY DEF ReserveAmortized, RingOf
<1>5. \A i \in 0..(t.cap - 1) : i < RingLen(r) => t.mem[i] \in Byte
  BY <1>2, <1>3, <1>4
<1>6. t.mem \in [0..(t.cap - 1) -> Byte \cup {Uninit}]
  BY <1>3, <1>4
<1> HIDE DEF t
<1>7. HasType(t)
  BY <1>2, <1>3, <1>4, <1>6 DEF HasType
<1>8. InBounds(t) /\ Initialized(t)
  BY <1>1, <1>2, <1>3, <1>4, <1>5 DEF InBounds, Initialized, IsData
<1>9. RingLen(t) = RingLen(r)
  BY <1>3, <1>4 DEF RingLen, DataSliceLengths
<1> QED
  BY <1>1, <1>2, <1>4, <1>7, <1>8, <1>9 DEF RingOK, t

\* reserve: afterwards the requested room is there.
LEMMA ReservedOK ==
    ASSUME NEW r, RingOK(r), NEW n \in Nat, Fits(r, n)
    PROVE  /\ RingOK(Reserved(r, n))
           /\ Free(Reserved(r, n)) >= n
           /\ RingLen(Reserved(r, n)) = RingLen(r)
           /\ Reserved(r, n).cap >= r.cap
           /\ n > 0 \/ r.cap > 0 => Reserved(r, n).cap > 0
<1> DEFINE t == Reserved(r, n)
<1>1. Free(r) \in Nat /\ r.cap \in Nat
  BY FreeIsTheRest DEF RingOK, HasType
<1>2. CASE Free(r) >= n
  BY <1>1, <1>2, FreeIsTheRest DEF Reserved
<1>3. CASE ~(Free(r) >= n)
  <2>1. n - Free(r) \in Nat /\ n - Free(r) > 0
    BY <1>1, <1>3
  <2>2. \E p \in Pow2s : p >= r.cap + (n - Free(r))
    BY <1>1, <1>3, Pow2sAssumption DEF Fits
  <2>3. t = ReserveAmortized(r, n - Free(r))
    BY <1>3 DEF Reserved
  <2>4. /\ RingOK(t) /\ t.cap > r.cap + (n - Free(r))
        /\ RingLen(t) = RingLen(r)
    BY <2>1, <2>2, <2>3, ReserveAmortizedOK
  <2>5. Free(t) = t.cap - 1 - RingLen(t) /\ t.cap \in Nat /\ RingLen(r) \in Nat
    <3>1. t.cap \in Nat
      BY <2>4 DEF RingOK, HasType
    <3> QED
      BY <1>1, <2>1, <2>4, <3>1, FreeIsTheRest, ContentBytes
  <2>6. r.cap > 0 => Free(r) = r.cap - 1 - RingLen(r)
    BY FreeIsTheRest
  <2>7. r.cap = 0 => Free(r) = 0 /\ RingLen(r) = 0
    BY FreeIsTheRest, ContentBytes
  <2> QED
    BY <1>1, <2>1, <2>4, <2>5, <2>6, <2>7
<1> QED
  BY <1>2, <1>3

\* reserve changes no byte.
LEMMA ReservedContent ==
    ASSUME NEW r, RingOK(r), NEW n \in Nat, Fits(r, n)
    PROVE  Content(Reserved(r, n)) = Content(r)
<1> DEFINE t == Reserved(r, n)
<1>1. CASE Free(r) >= n
  BY <1>1 DEF Reserved
<1>2. CASE ~(Free(r) >= n)
  <2>1. RingOK(t) /\ RingLen(t) = RingLen(r)
    BY ReservedOK
  <2>2. t = ReserveAmortized(r, n - Free(r))
    BY <1>2 DEF Reserved
  <2>3. t.head = 0 /\ t.tail = RingLen(r)
        /\ t.mem = [i \in 0..(t.cap - 1) |-> IF i < RingLen(r) THEN Content(r)[i + 1] ELSE Uninit]
    BY <2>2 DEF ReserveAmortized, RingOf
  <2> HIDE DEF t
  <2>4. /\ Content(r) \in Seq(Byte) /\ Len(Content(r)) = RingLen(r) /\ RingLen(r) \in Nat
        /\ Content(t) \in Seq(Byte) /\ Len(Content(t)) = RingLen(r)
    BY <2>1, ContentAt
  <2>5. t.cap \in Nat
    BY <2>1 DEF RingOK, HasType
  <2>6. ASSUME NEW k \in 1..Len(Content(t))
        PROVE  Content(t)[k] = Content(r)[k]
    <3> DEFINE i == k - 1
    <3>1. i \in 0..(RingLen(t) - 1) /\ i + 1 = k /\ i \in Nat /\ i < RingLen(r) /\ 0 + i = i
      BY <2>1, <2>4
    <3> HIDE DEF i
    <3>2. /\ Wrap(t.cap, t.head + i) \in 0..(t.cap - 1)
          /\ Content(t)[i + 1] = t.mem[Wrap(t.cap, t.head + i)]
      BY <2>1, <3>1, ContentAt
    <3>3. Wrap(t.cap, t.head + i) = i
      <4>1. RingLen(t) <= t.cap
        BY <2>1, <2>5, ContentBytes
      <4> QED
        BY <2>1, <2>3, <2>4, <2>5, <3>1, <4>1 DEF Wrap
    <3>4. t.mem[i] = Content(r)[i + 1]
      BY <2>3, <3>1, <3>2, <3>3
    <3> QED
      BY <3>1, <3>2, <3>3, <3>4
  <2> QED
    BY <2>4, <2>6, SameBytes DEF t
<1> QED
  BY <1>1, <1>2

LEMMA ClearedOK ==
    ASSUME NEW r, RingOK(r)
    PROVE  RingOK(Cleared(r))
  BY DEF Cleared, RingOf, RingOK, HasType, InBounds, Initialized, IsData

LEMMA NewRingOK == RingOK(NewRing)
  BY DEF NewRing, RingOf, RingOK, HasType, InBounds, Initialized, IsData

\* Dropping n bytes: what is data afterwards was data before.
LEMMA DropGeometry ==
    ASSUME NEW c \in Nat, NEW h \in Nat, NEW t \in Nat, NEW n \in Nat,
           h < c, t < c, n <= Distance(c, h, t),
           NEW i \in 0..(c - 1), Between((h + n) % c, t, i)
    PROVE  Between(h, t, i)
<1>1. n < c
  BY DEF Distance
<1>2. (h + n) % c = IF h + n < c THEN h + n ELSE h + n - c
  BY <1>1, WrappedIndex
<1> QED
  BY <1>1, <1>2 DEF Between, Distance

LEMMA DroppedOK ==
    ASSUME NEW r, RingOK(r), r.cap > 0, NEW n \in Nat, n <= RingLen(r)
    PROVE  RingOK(Dropped(r, n))
<1> DEFINE t == Dropped(r, n)
<1>1. /\ r.cap \in Nat /\ r.head \in Nat /\ r.tail \in Nat
      /\ r.head < r.cap /\ r.tail < r.cap /\ n < r.cap
      /\ n <= Distance(r.cap, r.head, r.tail)
  BY RingNumbers
<1>2. t = RingOf(r.cap, (r.head + n) % r.cap, r.tail, r.mem)
  BY RingNumbers DEF Dropped, Least
<1>3. /\ t.cap = r.cap /\ t.head = (r.head + n) % r.cap /\ t.tail = r.tail
      /\ t.mem = r.mem
  BY <1>2 DEF RingOf
<1> HIDE DEF t
<1>4. t.head \in Nat /\ t.head < r.cap
  <2>1. (r.head + n) % r.cap \in Nat /\ (r.head + n) % r.cap < r.cap
    BY <1>1, WrappedIndex, Zenon
  <2> QED
    BY <1>3, <2>1, Zenon
<1>5. HasType(t)
  BY <1>3, <1>4 DEF RingOK, HasType
<1>6. InBounds(t)
  BY <1>1, <1>3, <1>4 DEF InBounds
<1>7. ASSUME NEW i \in 0..(r.cap - 1), IsData(t, i)
      PROVE  IsData(r, i)
  <2>1. Between((r.head + n) % r.cap, r.tail, i)
    BY <1>3, <1>7 DEF IsData, Between
  <2>2. Between(r.head, r.tail, i)
    BY <1>1, <2>1, DropGeometry
  <2> QED
    BY <2>2 DEF IsData, Between
<1>8. Initialized(t)
  BY <1>3, <1>7 DEF Initialized, RingOK
<1> QED
  BY <1>5, <1>6, <1>8 DEF RingOK, t

\* Dropping shortens the data.
LEMMA DropDistance ==
    ASSUME NEW c \in Nat, NEW h \in Nat, NEW t \in Nat, h < c, t < c,
           NEW n \in Nat, n <= Distance(c, h, t)
    PROVE  Distance(c, (h + n) % c, t) = Distance(c, h, t) - n
<1>1. n < c
  BY DEF Distance
<1>2. (h + n) % c = IF h + n < c THEN h + n ELSE h + n - c
  BY <1>1, WrappedIndex
<1> QED
  BY <1>1, <1>2 DEF Distance

\* Dropping takes the first bytes away and no others.
LEMMA DroppedContent ==
    ASSUME NEW r, RingOK(r), r.cap > 0, NEW n \in Nat, n <= RingLen(r)
    PROVE  /\ Content(Dropped(r, n)) = SubSeq(Content(r), n + 1, RingLen(r))
           /\ RingLen(Dropped(r, n)) = RingLen(r) - n
<1> DEFINE t == Dropped(r, n)
           q == SubSeq(Content(r), n + 1, RingLen(r))
<1>1. /\ r.cap \in Nat /\ r.head \in Nat /\ r.tail \in Nat
      /\ r.head < r.cap /\ r.tail < r.cap
      /\ RingLen(r) = Distance(r.cap, r.head, r.tail) /\ RingLen(r) \in Nat
  BY RingNumbers
<1>2. t = RingOf(r.cap, (r.head + n) % r.cap, r.tail, r.mem)
  BY RingNumbers DEF Dropped, Least
<1>3. RingOK(t)
  BY DroppedOK
<1>4. /\ t.cap = r.cap /\ t.head = (r.head + n) % r.cap /\ t.tail = r.tail
      /\ t.mem = r.mem
  BY <1>2 DEF RingOf
<1> HIDE DEF t
<1>11. \/ r.head + n < r.cap /\ t.head = r.head + n
       \/ r.head + n >= r.cap /\ t.head = r.head + n - r.cap
  <2>1. n < r.cap
    BY <1>1, RingNumbers
  <2>2. (r.head + n) % r.cap = IF r.head + n < r.cap THEN r.head + n ELSE r.head + n - r.cap
    BY <1>1, <2>1, WrappedIndex
  <2> QED
    BY <1>1, <1>4, <2>2
<1>5. RingLen(t) = RingLen(r) - n
  <2>1. RingLen(t) = Distance(t.cap, t.head, t.tail)
    BY <1>1, <1>3, <1>4, RingNumbers
  <2>2. Distance(r.cap, (r.head + n) % r.cap, r.tail) = Distance(r.cap, r.head, r.tail) - n
    BY <1>1, DropDistance
  <2> QED
    BY <1>1, <1>4, <2>1, <2>2
<1>6. Content(r) \in Seq(Byte) /\ Len(Content(r)) = RingLen(r)
  BY ContentAt
<1>7. /\ q \in Seq(Byte) /\ Len(q) = RingLen(r) - n
      /\ \A k \in 1..(RingLen(r) - n) : q[k] = Content(r)[n + k]
  <2>1. n + 1 \in 1..(Len(Content(r)) + 1) /\ RingLen(r) \in n..Len(Content(r))
    BY <1>1, <1>6
  <2> HIDE DEF Content
  <2> QED
    BY <1>1, <1>6, <2>1, SubSeqProperties
<1> HIDE DEF q
<1>8. Content(t) \in Seq(Byte) /\ Len(Content(t)) = RingLen(r) - n
  BY <1>3, <1>5, ContentAt
<1>9. ASSUME NEW k \in 1..Len(Content(t))
      PROVE  Content(t)[k] = q[k]
  <2> DEFINE i == k - 1
  <2>1. /\ i \in 0..(RingLen(t) - 1) /\ i + 1 = k /\ n + i \in 0..(RingLen(r) - 1)
        /\ n + i + 1 = n + k /\ k \in 1..(RingLen(r) - n)
    BY <1>1, <1>5, <1>8
  <2> HIDE DEF i
  <2>2. Content(t)[i + 1] = r.mem[Wrap(r.cap, t.head + i)]
    BY <1>3, <1>4, <2>1, ContentAt
  <2>3. Content(r)[n + i + 1] = r.mem[Wrap(r.cap, r.head + (n + i))]
    BY <2>1, ContentAt
  <2>4. Wrap(r.cap, t.head + i) = Wrap(r.cap, r.head + (n + i))
    <3>1. RingLen(r) < r.cap
      BY RingNumbers
    <3>2. n + i < r.cap /\ i \in Nat
      BY <1>1, <2>1, <3>1
    <3> QED
      BY <1>1, <1>11, <3>2, SMTT(30) DEF Wrap
  <2> QED
    BY <1>7, <2>1, <2>2, <2>3, <2>4
<1>10. Content(t) = q
  BY <1>7, <1>8, <1>9, SameBytes
<1> QED
  BY <1>5, <1>10 DEF t, q

\* Appending n bytes short of the sentinel: what is data afterwards was data
\* before or is one of the n slots from t on, wrapping at c.
LEMMA AppendGeometry ==
    ASSUME NEW c \in Nat, NEW h \in Nat, NEW t \in Nat, NEW n \in Nat,
           h < c, t < c, n + Distance(c, h, t) < c,
           NEW i \in 0..(c - 1), Between(h, (t + n) % c, i)
    PROVE  Between(h, t, i) \/ (t <= i /\ i < t + n) \/ i < t + n - c
<1>1. n < c
  BY DEF Distance
<1>2. (t + n) % c = IF t + n < c THEN t + n ELSE t + n - c
  BY <1>1, WrappedIndex
<1> QED
  BY <1>1, <1>2 DEF Between, Distance

\* The tail behind n appended bytes, and the places of those bytes.
LEMMA AppendedTail ==
    ASSUME NEW c \in Nat, NEW h \in Nat, NEW t \in Nat, NEW n \in Nat,
           h < c, t < c, n + Distance(c, h, t) < c
    PROVE  /\ (t + n) % c = Wrap(c, t + n) /\ Wrap(c, t + n) \in Nat /\ Wrap(c, t + n) < c
           /\ Distance(c, h, Wrap(c, t + n)) = Distance(c, h, t) + n
<1>1. n < c
  BY DEF Distance
<1>2. (t + n) % c = IF t + n < c THEN t + n ELSE t + n - c
  BY <1>1, WrappedIndex
<1>3. (t + n) % c = Wrap(c, t + n)
  BY <1>2 DEF Wrap
<1>4. /\ Wrap(c, t + n) \in Nat /\ Wrap(c, t + n) < c
      /\ Distance(c, h, Wrap(c, t + n)) = Distance(c, h, t) + n
  BY <1>1 DEF Wrap, Distance
<1> QED
  BY <1>3, <1>4

LEMMA AppendedSlot ==
    ASSUME NEW c \in Nat, NEW h \in Nat, NEW t \in Nat, NEW n \in Nat,
           h < c, t < c, n + Distance(c, h, t) < c
    PROVE  /\ \A i \in 0..(c - 1) : t <= i /\ i < t + n =>
                  i - t \in 0..(n - 1) /\ Wrap(c, t + (i - t)) = i
           /\ \A i \in 0..(c - 1) : i < t + n - c =>
                  i + c - t \in 0..(n - 1) /\ Wrap(c, t + (i + c - t)) = i
           /\ \A j \in 0..(n - 1) : Wrap(c, h + (Distance(c, h, t) + j)) = Wrap(c, t + j)
<1>1. ASSUME NEW i \in 0..(c - 1), t <= i, i < t + n
      PROVE  i - t \in 0..(n - 1) /\ Wrap(c, t + (i - t)) = i
  BY <1>1 DEF Wrap
<1>2. ASSUME NEW i \in 0..(c - 1), i < t + n - c
      PROVE  i + c - t \in 0..(n - 1) /\ Wrap(c, t + (i + c - t)) = i
  <2>1. n < c
    BY DEF Distance
  <2> QED
    BY <1>2, <2>1 DEF Wrap
<1>3. ASSUME NEW j \in 0..(n - 1)
      PROVE  Wrap(c, h + (Distance(c, h, t) + j)) = Wrap(c, t + j)
  BY <1>3 DEF Wrap, Distance
<1> QED
  BY <1>1, <1>2, <1>3

\* The same of a ring.
LEMMA RingAppend ==
    ASSUME NEW r, RingOK(r), r.cap > 0, NEW n \in Nat, n <= Free(r)
    PROVE  /\ (r.tail + n) % r.cap \in Nat /\ (r.tail + n) % r.cap < r.cap
           /\ Distance(r.cap, r.head, (r.tail + n) % r.cap) = RingLen(r) + n
           /\ \A i \in 0..(r.cap - 1) : r.tail <= i /\ i < r.tail + n =>
                  i - r.tail \in 0..(n - 1) /\ Wrap(r.cap, r.tail + (i - r.tail)) = i
           /\ \A i \in 0..(r.cap - 1) : i < r.tail + n - r.cap =>
                  i + r.cap - r.tail \in 0..(n - 1) /\ Wrap(r.cap, r.tail + (i + r.cap - r.tail)) = i
           /\ \A j \in 0..(n - 1) : Wrap(r.cap, r.head + (RingLen(r) + j)) = Wrap(r.cap, r.tail + j)
<1> DEFINE c == r.cap
           h == r.head
           t == r.tail
<1>1. /\ c \in Nat /\ h \in Nat /\ t \in Nat /\ h < c /\ t < c
      /\ RingLen(r) = Distance(c, h, t)
  BY RingNumbers
<1>2. n + Distance(c, h, t) < c
  BY RingNumbers
<1> HIDE DEF c, h, t
<1>3. /\ (t + n) % c = Wrap(c, t + n) /\ Wrap(c, t + n) \in Nat /\ Wrap(c, t + n) < c
      /\ Distance(c, h, Wrap(c, t + n)) = Distance(c, h, t) + n
  BY <1>1, <1>2, AppendedTail
<1>4. /\ \A i \in 0..(c - 1) : t <= i /\ i < t + n =>
             i - t \in 0..(n - 1) /\ Wrap(c, t + (i - t)) = i
      /\ \A i \in 0..(c - 1) : i < t + n - c =>
             i + c - t \in 0..(n - 1) /\ Wrap(c, t + (i + c - t)) = i
      /\ \A j \in 0..(n - 1) : Wrap(c, h + (Distance(c, h, t) + j)) = Wrap(c, t + j)
  BY <1>1, <1>2, AppendedSlot
<1> QED
  BY <1>1, <1>3, <1>4 DEF c, h, t

\* A place of a concatenation behind its first part.
LEMMA SecondPart ==
    ASSUME NEW l \in Nat, NEW n \in Nat, NEW k \in 1..(l + n), ~(k - 1 < l)
    PROVE  /\ k - 1 - l \in 0..(n - 1) /\ k - 1 - l + 1 \in 1..n
           /\ l + (k - 1 - l + 1) = k /\ k - 1 - l \in Nat /\ k - 1 = l + (k - 1 - l)
  OBVIOUS

\* The two parts that extend writes.
LEMMA RingTwoParts ==
    ASSUME NEW r, RingOK(r), r.cap > 0, NEW n \in Nat, n <= Free(r),
           NEW m, m = Least(n, FreeSliceLengths(r).after_tail), NEW j \in 0..(n - 1)
    PROVE  /\ j < m => /\ Wrap(r.cap, r.tail + j) = r.tail + j /\ r.tail + j \in 0..(r.cap - 1)
                       /\ ~(r.tail + j < 0 + (n - m))
                       /\ r.tail <= r.tail + j /\ r.tail + j < r.tail + m
                       /\ r.tail + j - r.tail + 1 = j + 1 /\ j + 1 \in 1..m
           /\ ~(j < m) => /\ Wrap(r.cap, r.tail + j) = j - m /\ j - m \in 0..(r.cap - 1)
                          /\ 0 <= j - m /\ j - m < 0 + (n - m)
                          /\ j - m - 0 + 1 = j - m + 1 /\ j - m + 1 \in 1..(n - m)
                          /\ m + (j - m + 1) = j + 1
<1> DEFINE c == r.cap
           h == r.head
           t == r.tail
<1>1. /\ c \in Nat /\ h \in Nat /\ t \in Nat /\ h < c /\ t < c
      /\ n + Distance(c, h, t) < c
  BY RingNumbers
<1>2. /\ m \in 0..n
      /\ m < n => m = c - t /\ t >= h
      /\ m = n => t + m <= c
  BY <1>1 DEF Least, FreeSliceLengths, Distance
<1> HIDE DEF c, h, t
<1>3. /\ j < m => /\ Wrap(c, t + j) = t + j /\ t + j \in 0..(c - 1)
                  /\ ~(t + j < 0 + (n - m)) /\ t <= t + j /\ t + j < t + m
                  /\ t + j - t + 1 = j + 1 /\ j + 1 \in 1..m
      /\ ~(j < m) => /\ Wrap(c, t + j) = j - m /\ j - m \in 0..(c - 1)
                     /\ 0 <= j - m /\ j - m < 0 + (n - m)
                     /\ j - m - 0 + 1 = j - m + 1 /\ j - m + 1 \in 1..(n - m)
                     /\ m + (j - m + 1) = j + 1
  <2>1. CASE j < m
    <3>1. t + j < c
      BY <1>1, <1>2, <2>1
    <3>2. ~(t + j < n - m)
      BY <1>1, <1>2, <2>1, <3>1 DEF Distance
    <3> QED
      BY <1>1, <1>2, <2>1, <3>1, <3>2 DEF Wrap
  <2>2. CASE ~(j < m)
    <3>1. m = c - t /\ t >= h /\ j - m \in 0..(n - m - 1)
      BY <1>1, <1>2, <2>2
    <3> QED
      BY <1>1, <1>2, <2>2, <3>1 DEF Wrap, Distance
  <2> QED
    BY <2>1, <2>2
<1> QED
  BY <1>3, Zenon DEF c, h, t

\* A ring that was written behind its tail, with room for what was written: it
\* is intact and holds the new bytes behind the old ones.
LEMMA Stored ==
    ASSUME NEW r, RingOK(r), r.cap > 0,
           NEW d \in Seq(Byte), Len(d) <= Free(r),
           NEW mem \in [0..(r.cap - 1) -> Byte \cup {Uninit}],
           \A i \in 0..(r.cap - 1) : IsData(r, i) => mem[i] = r.mem[i],
           \A j \in 0..(Len(d) - 1) : mem[Wrap(r.cap, r.tail + j)] = d[j + 1],
           NEW t, t = RingOf(r.cap, r.head, (r.tail + Len(d)) % r.cap, mem)
    PROVE  /\ RingOK(t) /\ Content(t) = Content(r) \o d
           /\ RingLen(t) = RingLen(r) + Len(d)
<1> DEFINE n == Len(d)
<1>0. n \in Nat /\ \A j \in 0..(n - 1) : d[j + 1] \in Byte
  <2>1. \A j \in 0..(n - 1) : j + 1 \in 1..Len(d)
    OBVIOUS
  <2> QED
    BY <2>1, ElementOfSeq
<1>00. \A j \in 0..(n - 1) : mem[Wrap(r.cap, r.tail + j)] = d[j + 1]
  OBVIOUS
<1> HIDE DEF n
<1>1. /\ r.cap \in Nat /\ r.head \in Nat /\ r.tail \in Nat
      /\ r.head < r.cap /\ r.tail < r.cap /\ RingLen(r) \in Nat
      /\ RingLen(r) = Distance(r.cap, r.head, r.tail)
      /\ n + Distance(r.cap, r.head, r.tail) < r.cap
  BY <1>0, RingNumbers DEF n
<1>2. t = RingOf(r.cap, r.head, (r.tail + n) % r.cap, mem)
  BY DEF n
<1>3. /\ t.cap = r.cap /\ t.head = r.head /\ t.tail = (r.tail + n) % r.cap
      /\ t.mem = mem
  BY <1>2 DEF RingOf
<1>4. /\ t.tail \in Nat /\ t.tail < r.cap
      /\ Distance(r.cap, r.head, t.tail) = RingLen(r) + n
  BY <1>0, <1>3, RingAppend DEF n
<1>5. ASSUME NEW i \in 0..(r.cap - 1), IsData(t, i)
      PROVE  mem[i] \in Byte
  <2>1. Between(r.head, (r.tail + n) % r.cap, i)
    BY <1>3, <1>5 DEF IsData, Between
  <2>2. \/ Between(r.head, r.tail, i)
        \/ r.tail <= i /\ i < r.tail + n
        \/ i < r.tail + n - r.cap
    BY <1>0, <1>1, <2>1, AppendGeometry
  <2>3. CASE Between(r.head, r.tail, i)
    BY <2>3 DEF Between, IsData, RingOK, Initialized
  <2>4. CASE r.tail <= i /\ i < r.tail + n
    <3>1. i - r.tail \in 0..(n - 1) /\ Wrap(r.cap, r.tail + (i - r.tail)) = i
      BY <1>0, <2>4, RingAppend DEF n
    <3> QED
      BY <1>0, <1>00, <3>1
  <2>5. CASE i < r.tail + n - r.cap
    <3>1. /\ i + r.cap - r.tail \in 0..(n - 1)
          /\ Wrap(r.cap, r.tail + (i + r.cap - r.tail)) = i
      BY <1>0, <2>5, RingAppend DEF n
    <3> QED
      BY <1>0, <1>00, <3>1
  <2> QED
    BY <2>2, <2>3, <2>4, <2>5
<1>6. RingOK(t)
  <2>1. HasType(t)
    BY <1>1, <1>3, <1>4 DEF HasType
  <2>2. InBounds(t)
    BY <1>1, <1>3, <1>4 DEF InBounds
  <2>3. Initialized(t)
    BY <1>3, <1>5 DEF Initialized
  <2> QED
    BY <2>1, <2>2, <2>3 DEF RingOK
<1>7. RingLen(t) = RingLen(r) + n
  <2>1. RingLen(t) = Distance(r.cap, r.head, t.tail)
    BY <1>1, <1>3, <1>6, RingNumbers
  <2> QED
    BY <1>4, <2>1
<1>8. /\ Content(r) \in Seq(Byte) /\ Len(Content(r)) = RingLen(r)
      /\ Content(t) \in Seq(Byte) /\ Len(Content(t)) = RingLen(r) + n
  BY <1>6, <1>7, ContentAt
<1>9. /\ Content(r) \o d \in Seq(Byte) /\ Len(Content(r) \o d) = RingLen(r) + n
      /\ \A k \in 1..RingLen(r) : (Content(r) \o d)[k] = Content(r)[k]
      /\ \A k \in 1..n : (Content(r) \o d)[RingLen(r) + k] = d[k]
  <2> HIDE DEF Content
  <2> QED
    BY <1>1, <1>8, ConcatProperties, SMTT(30) DEF n
<1>10. ASSUME NEW k \in 1..Len(Content(t))
       PROVE  Content(t)[k] = (Content(r) \o d)[k]
  <2> DEFINE i == k - 1
             w == Wrap(r.cap, r.head + i)
  <2>1. i \in 0..(RingLen(t) - 1) /\ i + 1 = k /\ i \in Nat /\ k \in 1..(RingLen(r) + n)
    BY <1>0, <1>1, <1>7, <1>8
  <2>2. Content(t)[k] = mem[w] /\ w \in 0..(r.cap - 1)
    <3>1. /\ Wrap(t.cap, t.head + i) \in 0..(t.cap - 1)
          /\ Content(t)[i + 1] = t.mem[Wrap(t.cap, t.head + i)]
      BY <1>6, <2>1, ContentAt
    <3> HIDE DEF Content, i
    <3> QED
      BY <1>3, <2>1, <3>1
  <2>3. CASE i < RingLen(r)
    <3>1. i \in 0..(RingLen(r) - 1) /\ k \in 1..RingLen(r)
      BY <1>1, <2>1, <2>3
    <3>2. IsData(r, w) /\ Content(r)[i + 1] = r.mem[w]
      BY <3>1, ContentAt
    <3> QED
      BY <1>9, <2>1, <2>2, <3>1, <3>2
  <2>4. CASE ~(i < RingLen(r))
    <3> DEFINE j == i - RingLen(r)
    <3>1. /\ j \in 0..(n - 1) /\ j + 1 \in 1..n /\ RingLen(r) + (j + 1) = k /\ j \in Nat
          /\ i = RingLen(r) + j
      BY <1>0, <1>1, <2>1, <2>4, SecondPart
    <3> HIDE DEF j
    <3>2. w = Wrap(r.cap, r.tail + j)
      <4> HIDE DEF i
      <4> QED
        BY <1>0, <3>1, RingAppend DEF n
    <3> HIDE DEF w
    <3>3. mem[w] = d[j + 1]
      BY <1>00, <3>1, <3>2
    <3>4. (Content(r) \o d)[RingLen(r) + (j + 1)] = d[j + 1]
      BY <1>9, <3>1
    <3> QED
      BY <2>2, <3>1, <3>3, <3>4
  <2> QED
    BY <2>3, <2>4
<1>11. Content(t) = Content(r) \o d
  BY <1>8, <1>9, <1>10, SameBytes
<1> QED
  BY <1>6, <1>7, <1>11 DEF n

LEMMA SplitSeq ==
    ASSUME NEW S, NEW d \in Seq(S), NEW k \in 0..Len(d)
    PROVE  /\ SubSeq(d, 1, k) \in Seq(S) /\ Len(SubSeq(d, 1, k)) = k
           /\ SubSeq(d, k + 1, Len(d)) \in Seq(S)
           /\ Len(SubSeq(d, k + 1, Len(d))) = Len(d) - k
  BY SubSeqProperties

\* extend, once the room is reserved.
LEMMA FilledStores ==
    ASSUME NEW r, RingOK(r), r.cap > 0,
           NEW data \in Seq(Byte), Len(data) <= Free(r)
    PROVE  /\ RingOK(Filled(r, data)) /\ Content(Filled(r, data)) = Content(r) \o data
           /\ RingLen(Filled(r, data)) = RingLen(r) + Len(data)
<1> DEFINE T   == Byte \cup {Uninit}
           n   == Len(data)
           n1  == Least(n, FreeSliceLengths(r).after_tail)
           d1  == SubSeq(data, 1, n1)
           d2  == SubSeq(data, n1 + 1, n)
           one == Written(r.mem, r.tail, d1)
           two == Written(one, 0, d2)
<1>1. n \in Nat
  OBVIOUS
<1> HIDE DEF n
<1>2. /\ r.cap \in Nat /\ r.head \in Nat /\ r.tail \in Nat
      /\ r.head < r.cap /\ r.tail < r.cap /\ n <= Free(r)
      /\ n + Distance(r.cap, r.head, r.tail) < r.cap
  BY <1>1, RingNumbers DEF n
<1>3. /\ n1 \in 0..n
      /\ n1 < n => n1 = r.cap - r.tail /\ r.tail >= r.head
      /\ n1 = n => r.tail + n1 <= r.cap
  BY <1>1, <1>2 DEF Least, FreeSliceLengths, Distance
<1> HIDE DEF n1
<1>4. /\ d1 \in Seq(Byte) /\ Len(d1) = n1
      /\ d2 \in Seq(Byte) /\ Len(d2) = n - n1
  BY <1>3, SplitSeq, Zenon DEF n
<1>5. /\ \A i \in 1..n1 : d1[i] \in Byte
      /\ \A i \in 1..(n - n1) : d2[i] \in Byte
  BY <1>4, ElementOfSeq
<1>13. /\ \A i \in 1..n1 : d1[i] = data[i]
       /\ \A i \in 1..(n - n1) : d2[i] = data[n1 + i]
  <2>1. 1 \in 1..(Len(data) + 1) /\ n1 \in 0..Len(data) /\ n1 + 1 \in 1..(Len(data) + 1)
    BY <1>1, <1>3 DEF n
  <2> QED
    BY <1>1, <1>3, <2>1, SubSeqProperties DEF n
<1>7. r.mem \in [0..(r.cap - 1) -> T]
  BY DEF RingOK, HasType
<1> HIDE DEF d1, d2
<1>8. one = [i \in 0..(r.cap - 1) |->
               IF r.tail <= i /\ i < r.tail + n1 THEN d1[i - r.tail + 1] ELSE r.mem[i]]
  <2>1. DOMAIN r.mem = 0..(r.cap - 1)
    BY <1>7
  <2> QED
    BY <1>4, <2>1, Zenon DEF Written
<1> HIDE DEF one
<1>9. two = [i \in 0..(r.cap - 1) |->
               IF 0 <= i /\ i < 0 + (n - n1) THEN d2[i - 0 + 1] ELSE one[i]]
  <2>1. DOMAIN one = 0..(r.cap - 1)
    BY <1>8
  <2> QED
    BY <1>4, <2>1, Zenon DEF Written
<1> HIDE DEF two
<1>10. ASSUME NEW i \in 0..(r.cap - 1)
       PROVE  IsData(r, i) => two[i] = r.mem[i]
  <2>1. IsData(r, i) => ~(r.tail <= i /\ i < r.tail + n1) /\ ~(i < n - n1)
    BY <1>1, <1>2, <1>3, SMTT(40) DEF IsData, Distance
  <2>2. one[i] = IF r.tail <= i /\ i < r.tail + n1 THEN d1[i - r.tail + 1] ELSE r.mem[i]
    BY <1>8
  <2>3. two[i] = IF i < n - n1 THEN d2[i + 1] ELSE one[i]
    <3>1. two[i] = IF 0 <= i /\ i < 0 + (n - n1) THEN d2[i - 0 + 1] ELSE one[i]
      BY <1>9
    <3> QED
      BY <1>1, <1>3, <3>1
  <2> QED
    BY <2>1, <2>2, <2>3, Zenon
<1>11. two \in [0..(r.cap - 1) -> T]
  <2>1. \A i \in 0..(r.cap - 1) : two[i] \in T
    <3>1. \A i \in 0..(r.cap - 1) : r.mem[i] \in T
      BY <1>7
    <3> QED
      BY <1>1, <1>2, <1>3, <1>5, <1>8, <1>9, <3>1
  <2> QED
    BY <1>9, <2>1
<1>12. ASSUME NEW j \in 0..(n - 1)
       PROVE  two[Wrap(r.cap, r.tail + j)] = data[j + 1]
  <2>1. CASE j < n1
    <3>1. /\ Wrap(r.cap, r.tail + j) = r.tail + j /\ r.tail + j \in 0..(r.cap - 1)
          /\ ~(r.tail + j < 0 + (n - n1)) /\ r.tail <= r.tail + j /\ r.tail + j < r.tail + n1
          /\ r.tail + j - r.tail + 1 = j + 1 /\ j + 1 \in 1..n1
      BY <1>1, <1>2, <2>1, RingTwoParts DEF n1
    <3> DEFINE i == r.tail + j
    <3>3. i \in 0..(r.cap - 1) /\ ~(i < 0 + (n - n1)) /\ r.tail <= i /\ i < r.tail + n1
      BY <3>1
    <3>4. i - r.tail + 1 = j + 1
      BY <1>1, <1>2
    <3> HIDE DEF i
    <3>5. two[i] = one[i] /\ one[i] = d1[i - r.tail + 1]
      BY <1>8, <1>9, <3>3
    <3>2. two[r.tail + j] = d1[j + 1]
      BY <3>4, <3>5 DEF i
    <3> QED
      BY <1>13, <3>1, <3>2
  <2>2. CASE ~(j < n1)
    <3> DEFINE k == j - n1
    <3>1. /\ Wrap(r.cap, r.tail + j) = k /\ k \in 0..(r.cap - 1) /\ 0 <= k /\ k < 0 + (n - n1)
          /\ k - 0 + 1 = k + 1 /\ k + 1 \in 1..(n - n1) /\ n1 + (k + 1) = j + 1
      BY <1>1, <1>2, <2>2, RingTwoParts DEF n1
    <3> HIDE DEF k
    <3>2. two[k] = d2[k + 1]
      BY <1>9, <3>1
    <3> QED
      BY <1>13, <3>1, <3>2
  <2> QED
    BY <2>1, <2>2
<1>14. Filled(r, data) = RingOf(r.cap, r.head, (r.tail + Len(data)) % r.cap, two)
  BY DEF Filled, two, one, d1, d2, n1, n
<1> QED
  BY <1>10, <1>11, <1>12, <1>14, Stored DEF T, n

\* extend and push_back.
LEMMA ExtendedStores ==
    ASSUME NEW r, RingOK(r), NEW data \in Seq(Byte), Fits(r, Len(data))
    PROVE  /\ RingOK(Extended(r, data)) /\ Content(Extended(r, data)) = Content(r) \o data
           /\ RingLen(Extended(r, data)) = RingLen(r) + Len(data)
<1>1. CASE data = <<>>
  <2>1. Content(r) \in Seq(Byte) /\ RingLen(r) \in Nat
    BY ContentAt
  <2>2. Content(r) \o <<>> = Content(r) /\ RingLen(r) + Len(<<>>) = RingLen(r)
    <3> HIDE DEF Content
    <3> QED
      BY <2>1, ConcatEmptySeq, EmptySeq
  <2> QED
    BY <1>1, <2>2 DEF Extended
<1>2. CASE data # <<>>
  <2> DEFINE s == Reserved(r, Len(data))
  <2>1. Len(data) \in Nat /\ Len(data) > 0
    BY <1>2, EmptySeq
  <2>2. /\ RingOK(s) /\ s.cap > 0 /\ Len(data) <= Free(s)
        /\ RingLen(s) = RingLen(r) /\ Content(s) = Content(r)
    <3>1. Free(s) \in Nat
      BY <2>1, ReservedOK, FreeIsTheRest
    <3> QED
      BY <2>1, <3>1, ReservedOK, ReservedContent
  <2>3. Extended(r, data) = Filled(s, data)
    BY <1>2 DEF Extended
  <2> HIDE DEF s
  <2> QED
    BY <2>2, <2>3, FilledStores
<1> QED
  BY <1>1, <1>2

LEMMA PushedBackStores ==
    ASSUME NEW r, RingOK(r), NEW byte \in Byte, Fits(r, 1)
    PROVE  /\ RingOK(PushedBack(r, byte)) /\ Content(PushedBack(r, byte)) = Content(r) \o <<byte>>
           /\ RingLen(PushedBack(r, byte)) = RingLen(r) + 1
<1> DEFINE s == Reserved(r, 1)
           mem == [s.mem EXCEPT ![s.tail] = byte]
<1>1. RingOK(s) /\ s.cap > 0 /\ 1 <= Free(s) /\ Content(s) = Content(r) /\ RingLen(s) = RingLen(r)
  BY ReservedOK, ReservedContent
<1>2. PushedBack(r, byte) = RingOf(s.cap, s.head, (s.tail + 1) % s.cap, mem)
  BY DEF PushedBack
<1> HIDE DEF s
<1>3. /\ s.cap \in Nat /\ s.head \in Nat /\ s.tail \in Nat
      /\ s.head < s.cap /\ s.tail < s.cap
  BY <1>1, RingNumbers
<1>4. s.mem \in [0..(s.cap - 1) -> Byte \cup {Uninit}]
  BY <1>1 DEF RingOK, HasType
<1>5. mem \in [0..(s.cap - 1) -> Byte \cup {Uninit}] /\ mem[s.tail] = byte
  BY <1>3, <1>4
<1>6. ASSUME NEW i \in 0..(s.cap - 1), IsData(s, i)
      PROVE  mem[i] = s.mem[i]
  <2>1. i # s.tail
    BY <1>3, <1>6 DEF IsData
  <2> QED
    BY <1>4, <2>1
<1> HIDE DEF mem
<1> DEFINE d == <<byte>>
<1>7. d \in Seq(Byte) /\ Len(d) = 1 /\ d[1] = byte
  OBVIOUS
<1> HIDE DEF d
<1>8. ASSUME NEW j \in 0..(Len(d) - 1)
      PROVE  mem[Wrap(s.cap, s.tail + j)] = d[j + 1]
  <2>1. j = 0 /\ j + 1 = 1 /\ Wrap(s.cap, s.tail + j) = s.tail
    BY <1>3, <1>7 DEF Wrap
  <2> QED
    BY <1>5, <1>7, <2>1
<1>9. PushedBack(r, byte) = RingOf(s.cap, s.head, (s.tail + Len(d)) % s.cap, mem)
  BY <1>2, <1>7
<1>10. /\ RingOK(PushedBack(r, byte)) /\ Content(PushedBack(r, byte)) = Content(s) \o d
       /\ RingLen(PushedBack(r, byte)) = RingLen(s) + Len(d)
  <2>1. Len(d) <= Free(s)
    BY <1>1, <1>7
  <2>2. d \in Seq(Byte) /\ RingOK(s) /\ s.cap > 0
    BY <1>1, <1>7
  <2> DEFINE t == PushedBack(r, byte)
  <2>3. t = RingOf(s.cap, s.head, (s.tail + Len(d)) % s.cap, mem)
    BY <1>9
  <2> HIDE DEF t
  <2>4. RingOK(t) /\ Content(t) = Content(s) \o d /\ RingLen(t) = RingLen(s) + Len(d)
    BY <1>5, <1>6, <1>8, <2>1, <2>2, <2>3, Stored
  <2> QED
    BY <2>4 DEF t
<1> QED
  BY <1>1, <1>7, <1>10 DEF d

-----------------------------------------------------------------------------
(* Copies inside the ring.                                                 *)

\* Rounding up to a whole number of chunks does not go below n.
LEMMA RoundUp ==
    ASSUME NEW n \in Nat, NEW k \in Nat, k > 0
    PROVE  ((n + k - 1) \div k) * k \in Nat /\ ((n + k - 1) \div k) * k >= n
  OBVIOUS

\* The overshooting copy moves at least n bytes, and stays on both sides
\* within the bytes it was allowed to touch.
LEMMA MovedBounds ==
    ASSUME NEW c, c.n \in Nat, c.src_len \in Nat, c.dst_len \in Nat,
           c.n <= c.src_len, c.n <= c.dst_len
    PROVE  /\ Moved(c) \in Nat /\ c.n <= Moved(c)
           /\ Moved(c) <= c.src_len /\ Moved(c) <= c.dst_len
<1> DEFINE room  == Least(c.src_len, c.dst_len)
           whole == ((c.n + Chunk - 1) \div Chunk) * Chunk
<1>1. Chunk \in Nat /\ Chunk > 0
  BY ChunkAssumption
<1>2. whole \in Nat /\ whole >= c.n
  BY <1>1, RoundUp
<1>3. room \in Nat /\ c.n <= room /\ room <= c.src_len /\ room <= c.dst_len
  BY DEF Least
<1>4. Moved(c) = IF room >= Chunk /\ c.n <= Chunk THEN Chunk
                 ELSE IF room >= whole THEN whole ELSE c.n
  BY DEF Moved
<1> HIDE DEF room, whole
<1> QED
  BY <1>1, <1>2, <1>3, <1>4

\* A copy whose source is data, where it can be copied from, and whose
\* destination is free.
Placed(r, c) ==
    /\ c.src \in Nat /\ c.src_len \in Nat /\ c.dst \in Nat /\ c.dst_len \in Nat
    /\ c.n \in Nat /\ c.n <= c.src_len /\ c.n <= c.dst_len
    /\ \A i \in 0..(c.src_len - 1) :
          i < c.dst_len => c.src + i < r.cap /\ IsData(r, c.src + i)
    /\ \A i \in 0..(c.dst_len - 1) : c.dst + i < r.cap /\ ~IsData(r, c.dst + i)

\* The fields of a copy.
LEMMA CopyFields ==
    ASSUME NEW s, NEW sl, NEW d, NEW dl, NEW n
    PROVE  /\ Copy(s, sl, d, dl, n).src = s /\ Copy(s, sl, d, dl, n).src_len = sl
           /\ Copy(s, sl, d, dl, n).dst = d /\ Copy(s, sl, d, dl, n).dst_len = dl
           /\ Copy(s, sl, d, dl, n).n = n
  BY DEF Copy

LEMMA PlacedCopy ==
    ASSUME NEW r, NEW s \in Nat, NEW sl \in Nat, NEW d \in Nat, NEW dl \in Nat,
           NEW n \in Nat, n <= sl, n <= dl,
           \A i \in 0..(sl - 1) : i < dl => s + i < r.cap /\ IsData(r, s + i),
           \A i \in 0..(dl - 1) : d + i < r.cap /\ ~IsData(r, d + i)
    PROVE  Placed(r, Copy(s, sl, d, dl, n))
<1> DEFINE c == Copy(s, sl, d, dl, n)
<1>1. c.src = s /\ c.src_len = sl /\ c.dst = d /\ c.dst_len = dl /\ c.n = n
  BY CopyFields
<1> HIDE DEF c
<1> QED
  BY <1>1, Zenon DEF Placed, c

\* What extend_from_within_unchecked relies on: one copy, or two that divide
\* the destination, the first ending where the ring's memory or data wraps.
Plan(r, len, cs) ==
    \/ /\ cs = <<cs[1]>> /\ Placed(r, cs[1]) /\ cs[1].dst = r.tail /\ cs[1].n = len
    \/ /\ cs = <<cs[1], cs[2]>> /\ Placed(r, cs[1]) /\ Placed(r, cs[2])
       /\ cs[1].dst = r.tail /\ cs[1].n + cs[2].n = len
       /\ \/ cs[2].dst = 0 /\ r.tail + cs[1].n = r.cap /\ cs[2].dst_len = r.head /\ r.head <= r.tail
          \/ cs[2].dst = r.tail + cs[1].n /\ r.tail + len <= r.head

LEMMA CopiesPlan ==
    ASSUME NEW r, RingOK(r), r.cap > 0, NEW start \in Nat, NEW len \in Nat,
           start + len <= RingLen(r), len <= Free(r)
    PROVE  Plan(r, len, Copies(r, start, len))
<1> DEFINE cs == Copies(r, start, len)
<1>1. /\ r.cap \in Nat /\ r.head \in Nat /\ r.tail \in Nat
      /\ r.head < r.cap /\ r.tail < r.cap
      /\ start + len <= Distance(r.cap, r.head, r.tail)
      /\ len + Distance(r.cap, r.head, r.tail) < r.cap
  BY RingNumbers
<1>2. CASE r.head < r.tail
  <2> DEFINE n == Least(len, r.cap - r.tail)
             src_len == r.tail - r.head - start
             first   == Copy(r.head + start, src_len, r.tail, r.cap - r.tail, n)
             wrapped == Copy(r.head + start + n, src_len - n, 0, r.head, len - n)
  <2>1. /\ n \in Nat /\ n <= len /\ n <= r.cap - r.tail
        /\ n < len => n = r.cap - r.tail
    BY <1>1 DEF Least
  <2>2. cs = IF n < len THEN <<first, wrapped>> ELSE <<first>>
    BY <1>2 DEF Copies
  <2> HIDE DEF n
  <2>3. Placed(r, first)
    <3>1. \A i \in 0..(src_len - 1) : r.head + start + i < r.cap /\ IsData(r, r.head + start + i)
      BY <1>1, <1>2 DEF IsData, Distance
    <3>2. \A i \in 0..(r.cap - r.tail - 1) : r.tail + i < r.cap /\ ~IsData(r, r.tail + i)
      BY <1>1, <1>2 DEF IsData
    <3>3. /\ r.head + start \in Nat /\ src_len \in Nat /\ r.cap - r.tail \in Nat
          /\ n <= src_len
      BY <1>1, <1>2, <2>1 DEF Distance
    <3> HIDE DEF src_len
    <3> QED
      BY <1>1, <2>1, <3>1, <3>2, <3>3, PlacedCopy
  <2>4. ASSUME n < len PROVE Placed(r, wrapped)
    <3>1. \A i \in 0..(src_len - n - 1) :
             r.head + start + n + i < r.cap /\ IsData(r, r.head + start + n + i)
      BY <1>1, <1>2, <2>1 DEF IsData, Distance
    <3>2. \A i \in 0..(r.head - 1) : 0 + i < r.cap /\ ~IsData(r, 0 + i)
      BY <1>1, <1>2 DEF IsData
    <3>3. /\ r.head + start + n \in Nat /\ src_len - n \in Nat /\ 0 \in Nat
          /\ len - n \in Nat /\ len - n <= src_len - n /\ len - n <= r.head
      BY <1>1, <1>2, <2>1, <2>4 DEF Distance
    <3> HIDE DEF src_len
    <3> QED
      BY <1>1, <3>1, <3>2, <3>3, PlacedCopy
  <2>5. /\ first.dst = r.tail /\ first.n = n
        /\ wrapped.dst = 0 /\ wrapped.dst_len = r.head /\ wrapped.n = len - n
    BY CopyFields
  <2> HIDE DEF first, wrapped, cs
  <2>6. CASE n < len
    <3>1. cs = <<first, wrapped>> /\ cs[1] = first /\ cs[2] = wrapped
      BY <2>2, <2>6
    <3> QED
      BY <1>1, <1>2, <2>1, <2>3, <2>4, <2>5, <2>6, <3>1 DEF Plan, cs
  <2>7. CASE ~(n < len)
    <3>1. cs = <<first>> /\ cs[1] = first
      BY <2>2, <2>7
    <3>2. n = len
      BY <2>1, <2>7
    <3> QED
      BY <2>3, <2>5, <3>1, <3>2 DEF Plan, cs
  <2> QED
    BY <2>6, <2>7
<1>3. CASE ~(r.head < r.tail) /\ r.head + start > r.cap
  <2> DEFINE from == (r.head + start) % r.cap
             only == Copy(from, r.tail - from, r.tail, r.head - r.tail, len)
  <2>1. from = r.head + start - r.cap
    <3>1. start < r.cap /\ ~(r.head + start < r.cap)
      BY <1>1, <1>3 DEF Distance
    <3> QED
      BY <1>1, <3>1, WrappedIndex
  <2>2. cs = <<only>>
    BY <1>3 DEF Copies
  <2> HIDE DEF from
  <2>3. Placed(r, only)
    <3>1. /\ from \in Nat /\ r.tail - from \in Nat /\ r.head - r.tail \in Nat
          /\ len <= r.tail - from /\ len <= r.head - r.tail
      BY <1>1, <1>3, <2>1 DEF Distance
    <3>2. \A i \in 0..(r.tail - from - 1) :
             i < r.head - r.tail => from + i < r.cap /\ IsData(r, from + i)
      BY <1>1, <1>3, <2>1 DEF IsData, Distance
    <3>3. \A i \in 0..(r.head - r.tail - 1) : r.tail + i < r.cap /\ ~IsData(r, r.tail + i)
      BY <1>1, <1>3 DEF IsData
    <3> QED
      BY <1>1, <3>1, <3>2, <3>3, PlacedCopy
  <2>4. only.dst = r.tail /\ only.n = len
    BY CopyFields
  <2> HIDE DEF only, cs
  <2>5. cs[1] = only
    BY <2>2
  <2> QED
    BY <2>2, <2>3, <2>4, <2>5 DEF Plan, cs
<1>4. CASE ~(r.head < r.tail) /\ ~(r.head + start > r.cap)
  <2> DEFINE src_len == r.cap - r.head - start
             n       == Least(len, src_len)
             dst_len == r.head - r.tail
             first   == Copy(r.head + start, src_len, r.tail, dst_len, n)
             wrapped == Copy(0, r.tail, r.tail + n, dst_len - n, len - n)
  <2>1. /\ n \in Nat /\ n <= len /\ n <= src_len /\ src_len \in Nat
        /\ n < len => n = src_len
    BY <1>1, <1>4 DEF Least
  <2>2. cs = IF n < len THEN <<first, wrapped>> ELSE <<first>>
    BY <1>4 DEF Copies
  <2> HIDE DEF n
  <2>3. dst_len \in Nat /\ len <= dst_len
    BY <1>1, <1>4 DEF Distance
  <2>4. Placed(r, first)
    <3>1. \A i \in 0..(src_len - 1) :
             i < dst_len => r.head + start + i < r.cap /\ IsData(r, r.head + start + i)
      BY <1>1, <1>4 DEF IsData
    <3>2. \A i \in 0..(dst_len - 1) : r.tail + i < r.cap /\ ~IsData(r, r.tail + i)
      BY <1>1, <1>4 DEF IsData
    <3>3. r.head + start \in Nat /\ n <= dst_len
      BY <1>1, <2>1, <2>3
    <3> HIDE DEF src_len, dst_len
    <3> QED
      BY <1>1, <2>1, <2>3, <3>1, <3>2, <3>3, PlacedCopy
  <2>5. ASSUME n < len PROVE Placed(r, wrapped)
    <3>1. \A i \in 0..(r.tail - 1) :
             i < dst_len - n => 0 + i < r.cap /\ IsData(r, 0 + i)
      BY <1>1, <1>4, <2>1, <2>5 DEF IsData, Distance
    <3>2. \A i \in 0..(dst_len - n - 1) : r.tail + n + i < r.cap /\ ~IsData(r, r.tail + n + i)
      BY <1>1, <1>4, <2>1 DEF IsData
    <3>3. /\ r.tail + n \in Nat /\ dst_len - n \in Nat /\ 0 \in Nat
          /\ len - n \in Nat /\ len - n <= r.tail /\ len - n <= dst_len - n
      BY <1>1, <1>4, <2>1, <2>3, <2>5 DEF Distance
    <3> HIDE DEF dst_len
    <3> QED
      BY <1>1, <3>1, <3>2, <3>3, PlacedCopy
  <2>6. /\ first.dst = r.tail /\ first.n = n
        /\ wrapped.dst = r.tail + n /\ wrapped.n = len - n
    BY CopyFields
  <2> HIDE DEF first, wrapped, cs
  <2>7. CASE n < len
    <3>1. cs = <<first, wrapped>> /\ cs[1] = first /\ cs[2] = wrapped
      BY <2>2, <2>7
    <3>2. n + (len - n) = len /\ r.tail + len <= r.head
      BY <1>1, <2>1, <2>3
    <3> QED
      BY <2>4, <2>5, <2>6, <2>7, <3>1, <3>2 DEF Plan, cs
  <2>8. CASE ~(n < len)
    <3>1. cs = <<first>> /\ cs[1] = first
      BY <2>2, <2>8
    <3>2. n = len
      BY <2>1, <2>8
    <3> QED
      BY <2>4, <2>6, <3>1, <3>2 DEF Plan, cs
  <2> QED
    BY <2>7, <2>8
<1> QED
  BY <1>2, <1>3, <1>4

\* Where the k-th of n bytes comes from and goes to.
LEMMA CopyPlaces ==
    ASSUME NEW s \in Nat, NEW sl \in Nat, NEW d \in Nat, NEW dl \in Nat,
           NEW n \in Nat, NEW m \in Nat, n <= m, m <= sl, m <= dl, NEW k \in 0..(n - 1)
    PROVE  /\ k \in 0..(dl - 1) /\ k \in 0..(sl - 1) /\ k < dl /\ s + (d + k) - d = s + k
           /\ d <= d + k /\ d + k < d + m
  OBVIOUS

\* What a copy from mem to "after" does to the bytes that count.
MovesBytes(r, c, mem, after) ==
    /\ after \in [0..(r.cap - 1) -> Byte \cup {Uninit}]
    /\ \A i \in 0..(r.cap - 1) : IsData(r, i) => after[i] = r.mem[i]
    /\ \A i \in 0..(r.cap - 1) : i < c.dst \/ i >= c.dst + c.dst_len => after[i] = mem[i]
    /\ \A k \in 0..(c.n - 1) : after[c.dst + k] = r.mem[c.src + k]

\* A placed copy moves data into free slots, whatever it overshoots.
LEMMA PlacedCopyEffect ==
    ASSUME NEW r, RingOK(r), NEW c, Placed(r, c),
           NEW mem \in [0..(r.cap - 1) -> Byte \cup {Uninit}],
           \A i \in 0..(r.cap - 1) : IsData(r, i) => mem[i] = r.mem[i]
    PROVE  MovesBytes(r, c, mem, CopyBytes(mem, c))
<1> DEFINE m     == Moved(c)
           after == CopyBytes(mem, c)
<1>1. /\ c.src \in Nat /\ c.dst \in Nat /\ c.n \in Nat
      /\ c.src_len \in Nat /\ c.dst_len \in Nat /\ r.cap \in Nat
  BY DEF Placed, RingOK, HasType
<1>2. m \in Nat /\ c.n <= m /\ m <= c.src_len /\ m <= c.dst_len
  BY MovedBounds DEF Placed
<1>3. after = [i \in 0..(r.cap - 1) |->
               IF c.dst <= i /\ i < c.dst + m THEN mem[c.src + i - c.dst] ELSE mem[i]]
  <2>1. DOMAIN mem = 0..(r.cap - 1)
    OBVIOUS
  <2> QED
    BY <2>1, Zenon DEF CopyBytes
<1> HIDE DEF m, after
<1>4. ASSUME NEW i \in 0..(r.cap - 1), c.dst <= i, i < c.dst + m
      PROVE  mem[c.src + i - c.dst] \in Byte /\ ~IsData(r, i)
  <2> DEFINE k == i - c.dst
             j == c.src + k
  <2> HIDE DEF m
  <2>0. i \in Nat /\ k \in Nat /\ k < m
    BY <1>1, <1>2, <1>4, SMTT(30)
  <2>1. /\ k \in 0..(c.src_len - 1) /\ k < c.dst_len /\ k \in 0..(c.dst_len - 1)
        /\ c.src + i - c.dst = j /\ c.dst + k = i /\ j \in Nat
    <3>1. c.src + i - c.dst = j /\ c.dst + k = i /\ j \in Nat
      BY <1>1, <2>0
    <3> HIDE DEF k
    <3>2. k \in 0..(c.src_len - 1) /\ k < c.dst_len /\ k \in 0..(c.dst_len - 1)
      BY <1>1, <1>2, <2>0, SMTT(30)
    <3> QED
      BY <3>1, <3>2
  <2> HIDE DEF k
  <2>2. j < r.cap /\ IsData(r, j)
    BY <2>1 DEF Placed
  <2>3. ~IsData(r, c.dst + k)
    BY <2>1 DEF Placed
  <2> HIDE DEF j
  <2>4. j \in 0..(r.cap - 1)
    BY <1>1, <2>1, <2>2
  <2>5. mem[j] = r.mem[j] /\ r.mem[j] \in Byte
    BY <2>2, <2>4 DEF RingOK, Initialized
  <2> QED
    BY <2>1, <2>3, <2>5
<1>5. after \in [0..(r.cap - 1) -> Byte \cup {Uninit}]
  BY <1>3, <1>4
<1>6. ASSUME NEW i \in 0..(r.cap - 1)
      PROVE  /\ IsData(r, i) => after[i] = r.mem[i]
             /\ i < c.dst \/ i >= c.dst + c.dst_len => after[i] = mem[i]
  <2>1. after[i] = IF c.dst <= i /\ i < c.dst + m THEN mem[c.src + i - c.dst] ELSE mem[i]
    BY <1>3
  <2> QED
    BY <1>1, <1>2, <1>4, <2>1
<1>7. ASSUME NEW k \in 0..(c.n - 1)
      PROVE  after[c.dst + k] = r.mem[c.src + k]
  <2>1. /\ k \in 0..(c.dst_len - 1) /\ k \in 0..(c.src_len - 1) /\ k < c.dst_len
        /\ c.src + (c.dst + k) - c.dst = c.src + k
        /\ c.dst <= c.dst + k /\ c.dst + k < c.dst + m
    BY <1>1, <1>2, CopyPlaces, SMTT(30)
  <2>2. /\ c.dst + k < r.cap
        /\ c.src + k < r.cap /\ IsData(r, c.src + k)
    BY <2>1 DEF Placed
  <2>3. c.dst + k \in 0..(r.cap - 1) /\ c.src + k \in 0..(r.cap - 1)
    <3>1. k \in Nat
      BY <1>1
    <3>2. c.dst + k \in Nat /\ c.src + k \in Nat
      BY <1>1, <3>1, SMTT(30)
    <3> QED
      BY <1>1, <2>2, <3>2, SMTT(30)
  <2>4. after[c.dst + k] = mem[c.src + (c.dst + k) - c.dst]
    BY <1>3, <2>1, <2>3, Zenon
  <2> QED
    BY <2>1, <2>2, <2>3, <2>4
<1> QED
  BY <1>5, <1>6, <1>7 DEF after, MovesBytes

\* Where the copies take their bytes: from "start" on, wrapping.
TakenFrom(r, start, c, skipped) ==
    \A j \in 0..(c.n - 1) : c.src + j = Wrap(r.cap, r.head + (start + (skipped + j)))

LEMMA CopySources ==
    ASSUME NEW r, RingOK(r), r.cap > 0, NEW start \in Nat, NEW len \in Nat,
           start + len <= RingLen(r), len <= Free(r)
    PROVE  LET cs == Copies(r, start, len)
           IN  /\ TakenFrom(r, start, cs[1], 0)
               /\ Len(cs) = 2 => TakenFrom(r, start, cs[2], cs[1].n)
<1> DEFINE cs == Copies(r, start, len)
<1>1. /\ r.cap \in Nat /\ r.head \in Nat /\ r.tail \in Nat
      /\ r.head < r.cap /\ r.tail < r.cap
      /\ start + len <= Distance(r.cap, r.head, r.tail)
      /\ len + Distance(r.cap, r.head, r.tail) < r.cap
  BY RingNumbers
<1>2. CASE r.head < r.tail
  <2> DEFINE n == Least(len, r.cap - r.tail)
             src_len == r.tail - r.head - start
             first   == Copy(r.head + start, src_len, r.tail, r.cap - r.tail, n)
             wrapped == Copy(r.head + start + n, src_len - n, 0, r.head, len - n)
  <2>1. n \in Nat /\ n <= len
    BY <1>1 DEF Least
  <2>2. cs = IF n < len THEN <<first, wrapped>> ELSE <<first>>
    BY <1>2 DEF Copies
  <2> HIDE DEF n
  <2>3. /\ first.src = r.head + start /\ first.n = n
        /\ wrapped.src = r.head + start + n /\ wrapped.n = len - n
    BY CopyFields
  <2> HIDE DEF first, wrapped, cs
  <2>4. TakenFrom(r, start, first, 0)
    BY <1>1, <1>2, <2>1, <2>3 DEF TakenFrom, Wrap, Distance
  <2>5. TakenFrom(r, start, wrapped, first.n)
    BY <1>1, <1>2, <2>1, <2>3 DEF TakenFrom, Wrap, Distance
  <2>6. cs[1] = first /\ (Len(cs) = 2 => cs[2] = wrapped)
    BY <2>2
  <2> QED
    BY <2>4, <2>5, <2>6, Zenon DEF cs
<1>3. CASE ~(r.head < r.tail) /\ r.head + start > r.cap
  <2> DEFINE from == (r.head + start) % r.cap
             only == Copy(from, r.tail - from, r.tail, r.head - r.tail, len)
  <2>1. from = r.head + start - r.cap
    <3>1. start < r.cap /\ ~(r.head + start < r.cap)
      BY <1>1, <1>3 DEF Distance
    <3> QED
      BY <1>1, <3>1, WrappedIndex
  <2>2. cs = <<only>>
    BY <1>3 DEF Copies
  <2> HIDE DEF from
  <2>3. only.src = from /\ only.n = len
    BY CopyFields
  <2> HIDE DEF only, cs
  <2>4. TakenFrom(r, start, only, 0)
    BY <1>1, <1>3, <2>1, <2>3 DEF TakenFrom, Wrap, Distance
  <2>5. cs[1] = only /\ Len(cs) = 1
    BY <2>2
  <2> QED
    BY <2>4, <2>5 DEF cs
<1>4. CASE ~(r.head < r.tail) /\ ~(r.head + start > r.cap)
  <2> DEFINE src_len == r.cap - r.head - start
             n       == Least(len, src_len)
             dst_len == r.head - r.tail
             first   == Copy(r.head + start, src_len, r.tail, dst_len, n)
             wrapped == Copy(0, r.tail, r.tail + n, dst_len - n, len - n)
  <2>1. n \in Nat /\ n <= len /\ n <= src_len /\ (n < len => n = src_len)
    BY <1>1, <1>4 DEF Least
  <2>2. cs = IF n < len THEN <<first, wrapped>> ELSE <<first>>
    BY <1>4 DEF Copies
  <2> HIDE DEF n
  <2>3. /\ first.src = r.head + start /\ first.n = n
        /\ wrapped.src = 0 /\ wrapped.n = len - n
    BY CopyFields
  <2> HIDE DEF first, wrapped, cs
  <2>4. TakenFrom(r, start, first, 0)
    BY <1>1, <1>4, <2>1, <2>3 DEF TakenFrom, Wrap
  <2>5. ASSUME n < len PROVE TakenFrom(r, start, wrapped, first.n)
    BY <1>1, <1>4, <2>1, <2>3, <2>5 DEF TakenFrom, Wrap
  <2>6. /\ cs[1] = first
        /\ Len(cs) = 2 => cs[2] = wrapped /\ n < len
    BY <2>2
  <2> QED
    BY <2>4, <2>5, <2>6, Zenon DEF cs
<1> QED
  BY <1>2, <1>3, <1>4

\* extend_from_within_unchecked, once the room is reserved: the bytes from
\* "start" on are appended.
LEMMA CopiedWithinStores ==
    ASSUME NEW r, RingOK(r), r.cap > 0, NEW start \in Nat, NEW len \in Nat,
           start + len <= RingLen(r), len <= Free(r)
    PROVE  /\ RingOK(CopiedWithin(r, start, len))
           /\ Content(CopiedWithin(r, start, len))
                 = Content(r) \o SubSeq(Content(r), start + 1, start + len)
           /\ RingLen(CopiedWithin(r, start, len)) = RingLen(r) + len
<1> DEFINE T   == Byte \cup {Uninit}
           cs  == Copies(r, start, len)
           one == CopyBytes(r.mem, cs[1])
           two == CopyBytes(one, cs[2])
           t   == CopiedWithin(r, start, len)
           d   == SubSeq(Content(r), start + 1, start + len)
<1>1. /\ r.cap \in Nat /\ r.head \in Nat /\ r.tail \in Nat
      /\ r.head < r.cap /\ r.tail < r.cap /\ Free(r) \in Nat
      /\ len + Distance(r.cap, r.head, r.tail) < r.cap
  BY RingNumbers
<1>2. Plan(r, len, cs)
  BY CopiesPlan
<1>3. TakenFrom(r, start, cs[1], 0) /\ (Len(cs) = 2 => TakenFrom(r, start, cs[2], cs[1].n))
  BY CopySources
<1>4. r.mem \in [0..(r.cap - 1) -> T]
  BY DEF RingOK, HasType
<1>5. t = RingOf(r.cap, r.head, (r.tail + len) % r.cap, IF Len(cs) = 1 THEN one ELSE two)
  BY DEF CopiedWithin
<1> HIDE DEF cs, t
<1>6. Placed(r, cs[1]) /\ cs[1].dst = r.tail /\ cs[1].n \in Nat
  BY <1>2 DEF Plan, Placed
<1>7. /\ one \in [0..(r.cap - 1) -> T]
      /\ \A i \in 0..(r.cap - 1) : IsData(r, i) => one[i] = r.mem[i]
      /\ \A k \in 0..(cs[1].n - 1) : one[r.tail + k] = r.mem[cs[1].src + k]
  <2>1. MovesBytes(r, cs[1], r.mem, one)
    BY <1>4, <1>6, PlacedCopyEffect
  <2> QED
    BY <1>6, <2>1 DEF MovesBytes
<1> HIDE DEF one
<1>8. /\ d \in Seq(Byte) /\ Len(d) = len
      /\ \A j \in 0..(len - 1) : d[j + 1] = r.mem[Wrap(r.cap, r.head + (start + j))]
  <2>1. /\ Content(r) \in Seq(Byte) /\ Len(Content(r)) = RingLen(r) /\ RingLen(r) \in Nat
        /\ \A i \in 0..(RingLen(r) - 1) : Content(r)[i + 1] = r.mem[Wrap(r.cap, r.head + i)]
    BY ContentAt
  <2>2. start + 1 \in 1..(Len(Content(r)) + 1) /\ start + len \in start..Len(Content(r))
    BY <2>1
  <2> HIDE DEF Content
  <2>3. /\ d \in Seq(Byte) /\ Len(d) = len
        /\ \A k \in 1..len : d[k] = Content(r)[start + k]
    <3> DEFINE body == Content(r)
               from == start + 1
               to == start + len
    <3>1. from \in Int /\ to \in Int /\ \A k \in from..to : body[k] \in Byte
      BY <2>1, <2>2, ElementOfSeq
    <3>2. /\ to - from + 1 = len /\ (from <= to <=> len # 0)
          /\ \A k \in 1..len : from + k - 1 = start + k
      OBVIOUS
    <3> HIDE DEF body, from, to
    <3>3. d = SubSeq(body, from, to)
      BY DEF body, from, to
    <3> HIDE DEF d
    <3>4. /\ d \in Seq(Byte) /\ Len(d) = IF from <= to THEN to - from + 1 ELSE 0
          /\ \A k \in 1..(to - from + 1) : d[k] = body[from + k - 1]
      BY <3>1, <3>3, SubSeqProperties
    <3> QED
      BY <3>2, <3>4 DEF body
  <2>4. ASSUME NEW j \in 0..(len - 1)
        PROVE  d[j + 1] = r.mem[Wrap(r.cap, r.head + (start + j))]
    <3>1. /\ j + 1 \in 1..len /\ start + (j + 1) = (start + j) + 1
          /\ start + j \in 0..(RingLen(r) - 1)
      BY <2>1
    <3> HIDE DEF d
    <3>2. d[j + 1] = Content(r)[(start + j) + 1]
      BY <2>3, <3>1
    <3> QED
      BY <2>1, <3>1, <3>2
  <2> QED
    BY <2>3, <2>4
<1> HIDE DEF d
\* It suffices that the memory holds the old bytes and the new ones.
<1>9. ASSUME NEW mem \in [0..(r.cap - 1) -> T],
             \A i \in 0..(r.cap - 1) : IsData(r, i) => mem[i] = r.mem[i],
             \A j \in 0..(len - 1) :
                mem[Wrap(r.cap, r.tail + j)] = r.mem[Wrap(r.cap, r.head + (start + j))],
             t = RingOf(r.cap, r.head, (r.tail + len) % r.cap, mem)
      PROVE  RingOK(t) /\ Content(t) = Content(r) \o d /\ RingLen(t) = RingLen(r) + len
  <2>1. \A j \in 0..(Len(d) - 1) : mem[Wrap(r.cap, r.tail + j)] = d[j + 1]
    BY <1>8, <1>9
  <2>2. Len(d) <= Free(r) /\ t = RingOf(r.cap, r.head, (r.tail + Len(d)) % r.cap, mem)
    BY <1>8, <1>9
  <2> HIDE DEF Content, RingLen
  <2> QED
    BY <1>8, <1>9, <2>1, <2>2, Stored DEF T
<1>10. CASE cs = <<cs[1]>> /\ cs[1].n = len
  <2>1. Len(cs) = 1
    BY <1>10
  <2>2. r.tail + len <= r.cap
    <3>1. /\ cs[1].n <= cs[1].dst_len /\ cs[1].dst_len \in Nat
          /\ \A i \in 0..(cs[1].dst_len - 1) : r.tail + i < r.cap
      BY <1>6 DEF Placed
    <3>2. CASE len = 0
      BY <1>1, <3>2
    <3>3. CASE len > 0
      <4>1. len - 1 \in 0..(cs[1].dst_len - 1)
        BY <1>10, <3>1, <3>3
      <4>2. r.tail + (len - 1) < r.cap
        BY <3>1, <4>1
      <4> QED
        BY <1>1, <4>2
    <3> QED
      BY <3>2, <3>3
  <2>3. ASSUME NEW j \in 0..(len - 1)
        PROVE  one[Wrap(r.cap, r.tail + j)] = r.mem[Wrap(r.cap, r.head + (start + j))]
    <3>1. Wrap(r.cap, r.tail + j) = r.tail + j /\ 0 + j = j
      BY <1>1, <2>2 DEF Wrap
    <3>2. cs[1].src + j = Wrap(r.cap, r.head + (start + (0 + j)))
      BY <1>3, <1>10 DEF TakenFrom
    <3>3. one[r.tail + j] = r.mem[cs[1].src + j]
      BY <1>7, <1>10
    <3> QED
      BY <3>1, <3>2, <3>3
  <2>4. t = RingOf(r.cap, r.head, (r.tail + len) % r.cap, one)
    BY <1>5, <2>1
  <2> QED
    BY <1>7, <1>9, <2>3, <2>4 DEF d, t
<1>11. CASE /\ cs = <<cs[1], cs[2]>> /\ Placed(r, cs[2]) /\ cs[1].n + cs[2].n = len
            /\ \/ /\ cs[2].dst = 0 /\ r.tail + cs[1].n = r.cap
                  /\ cs[2].dst_len = r.head /\ r.head <= r.tail
               \/ cs[2].dst = r.tail + cs[1].n /\ r.tail + len <= r.head
  <2> DEFINE n1 == cs[1].n
  <2>1. Len(cs) = 2
    BY <1>11
  <2>2. n1 \in Nat /\ cs[2].n \in Nat /\ n1 + cs[2].n = len /\ cs[2].dst \in Nat
    BY <1>6, <1>11 DEF Placed
  <2>3. /\ two \in [0..(r.cap - 1) -> T]
        /\ \A i \in 0..(r.cap - 1) :
             /\ IsData(r, i) => two[i] = r.mem[i]
             /\ i < cs[2].dst \/ i >= cs[2].dst + cs[2].dst_len => two[i] = one[i]
        /\ \A k \in 0..(cs[2].n - 1) : two[cs[2].dst + k] = r.mem[cs[2].src + k]
    <3>1. Placed(r, cs[2])
      BY <1>11
    <3>2. MovesBytes(r, cs[2], one, two)
      BY <1>7, <3>1, PlacedCopyEffect
    <3> HIDE DEF two
    <3> QED
      BY <3>2, Zenon DEF MovesBytes
  <2>4. \/ cs[2].dst = 0 /\ r.tail + n1 = r.cap /\ cs[2].dst_len = r.head /\ r.head <= r.tail
        \/ cs[2].dst = r.tail + n1 /\ r.tail + len <= r.head
    BY <1>11
  <2> HIDE DEF two
  <2>5. ASSUME NEW j \in 0..(len - 1)
        PROVE  two[Wrap(r.cap, r.tail + j)] = r.mem[Wrap(r.cap, r.head + (start + j))]
    <3>1. CASE j < n1
      <4>1. j \in 0..(cs[1].n - 1) /\ 0 + j = j
        BY <2>2, <3>1
      <4> HIDE DEF n1
      <4>2. Wrap(r.cap, r.tail + j) = r.tail + j /\ r.tail + j \in 0..(r.cap - 1)
        BY <1>1, <2>2, <2>4, <3>1 DEF Wrap
      <4>3. r.tail + j < cs[2].dst \/ r.tail + j >= cs[2].dst + cs[2].dst_len
        BY <1>1, <2>2, <2>4, <3>1
      <4>4. two[r.tail + j] = one[r.tail + j]
        BY <2>3, <4>2, <4>3
      <4>5. one[r.tail + j] = r.mem[cs[1].src + j]
        BY <1>7, <4>1
      <4>6. cs[1].src + j = Wrap(r.cap, r.head + (start + (0 + j)))
        BY <1>3, <4>1 DEF TakenFrom
      <4> QED
        BY <4>1, <4>2, <4>4, <4>5, <4>6
    <3>2. CASE ~(j < n1)
      <4> DEFINE k == j - n1
      <4>1. k \in 0..(cs[2].n - 1) /\ n1 + k = j
        BY <2>2, <3>2
      <4>2. Wrap(r.cap, r.tail + j) = cs[2].dst + k
        BY <1>1, <2>2, <2>4, <3>2 DEF Wrap
      <4> HIDE DEF k
      <4>3. two[cs[2].dst + k] = r.mem[cs[2].src + k]
        BY <2>3, <4>1
      <4>4. cs[2].src + k = Wrap(r.cap, r.head + (start + (n1 + k)))
        BY <1>3, <2>1, <4>1 DEF TakenFrom
      <4> QED
        BY <4>1, <4>2, <4>3, <4>4
    <3> QED
      BY <3>1, <3>2
  <2>6. t = RingOf(r.cap, r.head, (r.tail + len) % r.cap, two)
    BY <1>5, <2>1
  <2> QED
    BY <1>9, <2>3, <2>5, <2>6 DEF d, t
<1> QED
  BY <1>2, <1>10, <1>11 DEF Plan

-----------------------------------------------------------------------------
(* The state machine.                                                      *)

\* The inductive invariant: the ring is intact.
RingIInv == RingOK(rb)

LEMMA InitRingIInv == RingInit => RingIInv
  BY NewRingOK DEF RingInit, RingIInv

LEMMA NextRingIInv == RingIInv /\ [RingNext]_ringVars => RingIInv'
<1> SUFFICES ASSUME RingOK(rb), [RingNext]_ringVars
             PROVE  RingOK(rb')
  BY DEF RingIInv
<1>1. ASSUME NEW n \in 0..MaxCall, Reserve(n)
      PROVE  RingOK(rb')
  BY <1>1, ReservedOK, MaxCallAssumption DEF Reserve, Asks
<1>2. ASSUME NEW n \in 0..MaxCall, DropFirstN(n)
      PROVE  RingOK(rb')
  BY <1>2, DroppedOK, MaxCallAssumption DEF DropFirstN
<1>3. ASSUME NEW data \in Extensions, Extend(data)
      PROVE  RingOK(rb')
  BY <1>3, ExtendedStores, ExtensionsAssumption DEF Extend, Asks
<1>4. ASSUME NEW byte \in Byte, PushBack(byte)
      PROVE  RingOK(rb')
  BY <1>4, PushedBackStores DEF PushBack, Asks
<1>5. ASSUME NEW start \in 0..MaxCall, NEW len \in 0..MaxCall, ExtendFromWithin(start, len)
      PROVE  RingOK(rb')
  <2>1. start \in Nat /\ len \in Nat
    BY MaxCallAssumption
  <2>2. rb.cap > 0 /\ start + len <= RingLen(rb) /\ Fits(rb, len)
    BY <1>5 DEF ExtendFromWithin, Asks
  <2> DEFINE s == Reserved(rb, len)
  <2>3. /\ RingOK(s) /\ s.cap > 0 /\ RingLen(s) = RingLen(rb) /\ Free(s) >= len
    BY <2>1, <2>2, ReservedOK
  <2>4. rb' = CopiedWithin(s, start, len)
    BY <1>5 DEF ExtendFromWithin
  <2> HIDE DEF s
  <2>5. len <= Free(s) /\ start + len <= RingLen(s)
    BY <2>1, <2>2, <2>3, RingNumbers
  <2> QED
    BY <2>1, <2>3, <2>4, <2>5, CopiedWithinStores
<1>6. ASSUME Clear
      PROVE  RingOK(rb')
  BY <1>6, ClearedOK DEF Clear
<1>7. CASE UNCHANGED ringVars
  BY <1>7 DEF ringVars
<1> QED
  BY <1>1, <1>2, <1>3, <1>4, <1>5, <1>6, <1>7 DEF RingNext

THEOREM RingInductive == RingSpec => []RingIInv
  BY InitRingIInv, NextRingIInv, PTL DEF RingSpec

\* The allocation has exactly cap bytes.
THEOREM TypeCorrect == RingSpec => []TypeOK
<1>1. RingIInv => TypeOK
  BY DEF RingIInv, RingOK, TypeOK
<1> QED
  BY <1>1, RingInductive, PTL

\* The struct's safety invariants 1b and 3, after any sequence of calls.
THEOREM IndicesStayInBounds == RingSpec => []IndicesInBounds
<1>1. RingIInv => IndicesInBounds
  BY DEF RingIInv, RingOK, IndicesInBounds
<1> QED
  BY <1>1, RingInductive, PTL

\* The struct's safety invariant 2: no reader reaches an unwritten byte.
THEOREM OnlyWrittenBytesAreRead == RingSpec => []DataInitialized
<1>1. RingIInv => DataInitialized
  BY DEF RingIInv, RingOK, DataInitialized
<1> QED
  BY <1>1, RingInductive, PTL

\* extend_from_within_unchecked is memory safe for every admissible call.
THEOREM CopiesAreSafe == RingSpec => []CopiesStayApart
<1>1. ASSUME RingOK(rb), NEW start \in 0..RingLen(rb), NEW len \in 0..RingLen(rb),
             rb.cap > 0, start + len <= RingLen(rb), len <= Free(rb),
             NEW k \in 1..Len(Copies(rb, start, len)),
             NEW i \in 0..(Moved(Copies(rb, start, len)[k]) - 1)
      PROVE  LET c == Copies(rb, start, len)[k]
             IN  /\ c.src + i < rb.cap /\ IsData(rb, c.src + i)
                 /\ c.dst + i < rb.cap /\ ~IsData(rb, c.dst + i)
  <2> DEFINE cs == Copies(rb, start, len)
             c  == cs[k]
  <2>1. start \in Nat /\ len \in Nat
    BY <1>1, RingNumbers
  <2>2. Plan(rb, len, cs)
    BY <1>1, <2>1, CopiesPlan
  <2>3. k \in 1..Len(cs) /\ i \in 0..(Moved(c) - 1)
    OBVIOUS
  <2> HIDE DEF cs
  <2>4. Placed(rb, c)
    <3>1. CASE cs = <<cs[1]>> /\ Placed(rb, cs[1])
      <4>1. Len(cs) = 1
        BY <3>1
      <4>2. k = 1
        BY <2>3, <4>1
      <4> QED
        BY <3>1, <4>2
    <3>2. CASE cs = <<cs[1], cs[2]>> /\ Placed(rb, cs[1]) /\ Placed(rb, cs[2])
      <4>1. Len(cs) = 2
        BY <3>2
      <4>2. k = 1 \/ k = 2
        BY <2>3, <4>1
      <4> QED
        BY <3>2, <4>2
    <3> QED
      BY <2>2, <3>1, <3>2 DEF Plan
  <2> HIDE DEF c
  <2>5. /\ Moved(c) \in Nat /\ Moved(c) <= c.src_len /\ Moved(c) <= c.dst_len
        /\ c.src_len \in Nat /\ c.dst_len \in Nat
    BY <2>4, MovedBounds DEF Placed
  <2>6. i \in 0..(c.src_len - 1) /\ i \in 0..(c.dst_len - 1) /\ i < c.dst_len
    BY <2>3, <2>5, SMTT(30)
  <2> QED
    BY <2>4, <2>6 DEF Placed, c, cs
<1>2. RingIInv => CopiesStayApart
  BY <1>1 DEF RingIInv, CopiesStayApart
<1> QED
  BY <1>2, RingInductive, PTL

\* reserve leaves the room it was asked for, and no call of it shrinks.
THEOREM ReserveGrows == RingSpec => ReserveMakesRoom
<1> DEFINE Grown == call'.op = "reserve" =>
                      Free(rb') >= call'.amount /\ rb'.cap >= rb.cap
<1>1. ASSUME RingOK(rb), RingNext
      PROVE  Grown
  <2>1. ASSUME NEW n \in 0..MaxCall, Reserve(n)
        PROVE  Grown
    <3>1. call'.amount = n
      BY <2>1 DEF Reserve
    <3> QED
      BY <1>1, <2>1, <3>1, ReservedOK, MaxCallAssumption DEF Reserve, Asks
  <2>2. ASSUME NEW n \in 0..MaxCall, DropFirstN(n)
        PROVE  Grown
    BY <2>2 DEF DropFirstN
  <2>3. ASSUME NEW data \in Extensions, Extend(data)
        PROVE  Grown
    BY <2>3 DEF Extend
  <2>4. ASSUME NEW byte \in Byte, PushBack(byte)
        PROVE  Grown
    BY <2>4 DEF PushBack
  <2>5. ASSUME NEW start \in 0..MaxCall, NEW len \in 0..MaxCall, ExtendFromWithin(start, len)
        PROVE  Grown
    BY <2>5 DEF ExtendFromWithin
  <2>6. ASSUME Clear
        PROVE  Grown
    BY <2>6 DEF Clear
  <2> QED
    BY <1>1, <2>1, <2>2, <2>3, <2>4, <2>5, <2>6 DEF RingNext
<1>2. RingIInv /\ [RingNext]_ringVars => [Grown]_ringVars
  BY <1>1 DEF RingIInv
<1> QED
  BY <1>2, RingInductive, PTL DEF RingSpec, ReserveMakesRoom

-----------------------------------------------------------------------------
(* How much memory the ring takes.                                         *)

\* Rounding bytes and the sentinel up to a power of two does not even double the
\* bytes.
LEMMA RoundingUp ==
    ASSUME NEW m \in Nat, \E p \in Pow2s : p >= m + 1
    PROVE  NextPow2(m + 1) \in Nat /\ (NextPow2(m + 1) = 1 \/ NextPow2(m + 1) <= 2 * m)
<1> DEFINE S == {p \in Pow2s : p >= m + 1}
<1>1. S \in SUBSET Nat /\ S # {}
  BY Pow2sAssumption
<1>2. PICK s \in S : \A q \in S : s <= q
  BY <1>1, LeastNatural
<1>3. s \in Pow2s /\ s >= m + 1 /\ \A q \in Pow2s : q >= m + 1 => s <= q
  BY <1>2
<1> DEFINE n == NextPow2(m + 1)
<1>4. n \in Pow2s /\ n >= m + 1 /\ \A q \in Pow2s : q >= m + 1 => n <= q
  BY <1>3 DEF NextPow2
<1> HIDE DEF n, S
<1>5. CASE n = 1
  BY <1>5 DEF n
<1>6. CASE \E q \in Pow2s : n = 2 * q
  <2>1. PICK q \in Pow2s : n = 2 * q
    BY <1>6
  <2>2. q \in Nat /\ q > 0
    BY Pow2sAssumption
  <2>3. ~(q >= m + 1)
    BY <1>4, <2>1, <2>2
  <2> QED
    BY <2>1, <2>2, <2>3 DEF n
<1>7. n = 1 \/ \E q \in Pow2s : n = 2 * q
  BY <1>4, Pow2sAssumption
<1> QED
  BY <1>5, <1>6, <1>7

\* A larger number is not rounded to a smaller power.
LEMMA RoundingIsMonotone ==
    ASSUME NEW m \in Nat, NEW n \in Nat, m <= n, \E p \in Pow2s : p >= n
    PROVE  NextPow2(m) \in Nat /\ NextPow2(n) \in Nat /\ NextPow2(m) <= NextPow2(n)
<1>1. PICK w \in Pow2s : w >= n
  OBVIOUS
<1>2. w >= m /\ w \in Nat
  BY <1>1, Pow2sAssumption
<1>3. NextPow2(n) \in Pow2s /\ NextPow2(n) >= n /\ NextPow2(m) \in Pow2s
  BY <1>1, <1>2, NextPow2Bounds
<1>4. ASSUME NEW k \in Nat, NEW v \in Pow2s, v >= k
      PROVE  \A q \in Pow2s : q >= k => NextPow2(k) <= q
  <2> DEFINE S == {p \in Pow2s : p >= k}
  <2>1. S \in SUBSET Nat /\ S # {}
    BY <1>4, Pow2sAssumption
  <2>2. PICK s \in S : \A q \in S : s <= q
    BY <2>1, LeastNatural
  <2>3. s \in Pow2s /\ s >= k /\ \A q \in Pow2s : q >= k => s <= q
    BY <2>2
  <2> HIDE DEF S
  <2> QED
    BY <2>3 DEF NextPow2
<1>5. NextPow2(n) \in Nat /\ NextPow2(m) \in Nat
  BY <1>3, Pow2sAssumption
<1>6. NextPow2(n) >= m
  BY <1>3, <1>5
<1> QED
  BY <1>2, <1>3, <1>4, <1>5, <1>6

\* A ring that grows takes at most twice the bytes it is asked to hold, and one.
LEMMA GrowthIsBounded ==
    ASSUME NEW r, RingOK(r), NEW n \in Nat, Fits(r, n), ~(Free(r) >= n)
    PROVE  Reserved(r, n).cap <= 2 * (RingLen(r) + n) + 1
<1> DEFINE c == r.cap
           e == n - Free(r)
           l == RingLen(r)
<1>1. Reserved(r, n).cap = NewCap(c, e)
  BY DEF Reserved, ReserveAmortized, RingOf
<1>2. /\ c \in Nat /\ Free(r) \in Nat /\ l \in Nat
      /\ c > 0 => Free(r) = c - 1 - l
      /\ c = 0 => Free(r) = 0 /\ l = 0
  BY FreeIsTheRest, ContentBytes DEF RingOK, HasType
<1>3. e \in Nat /\ e > 0
  BY <1>2
<1>4. \E p \in Pow2s : p >= c + e
  <2>1. PICK p \in Pow2s : p >= r.cap + n - Free(r)
    BY DEF Fits
  <2>2. p \in Nat
    BY Pow2sAssumption
  <2> QED
    BY <1>2, <2>1, <2>2
<1> HIDE DEF e, c, l
<1>5. /\ NextPow2(c) \in Nat /\ NextPow2(c + e) \in Nat /\ NextPow2(c) <= NextPow2(c + e)
  <2>1. c <= c + e /\ c + e \in Nat
    BY <1>2, <1>3
  <2> QED
    BY <1>2, <1>4, <2>1, RoundingIsMonotone
<1>6. NewCap(c, e) = NextPow2(c + e) + 1
  BY <1>5 DEF NewCap
<1>7. NextPow2(c + e) <= 2 * (l + n)
  <2>1. l + n \in Nat \ {0} /\ l + n + 1 \in Nat /\ c + e <= l + n + 1
    BY <1>2, <1>3 DEF e
  <2>2. CASE c > 0
    <3>1. c + e = l + n + 1
      BY <1>2, <2>2 DEF e
    <3>2. \E p \in Pow2s : p >= (l + n) + 1
      BY <1>4, <3>1
    <3>3. NextPow2((l + n) + 1) = 1 \/ NextPow2((l + n) + 1) <= 2 * (l + n)
      BY <2>1, <3>2, RoundingUp
    <3> QED
      BY <1>5, <2>1, <3>1, <3>3
  <2>3. CASE c = 0
    <3>1. c + e = n /\ l = 0
      BY <1>2, <2>3 DEF e
    <3> DEFINE m == n - 1
    <3>2. m \in Nat /\ m + 1 = n
      BY <2>1, <3>1
    <3> HIDE DEF m
    <3>3. NextPow2(m + 1) = 1 \/ NextPow2(m + 1) <= 2 * m
      BY <1>4, <3>1, <3>2, RoundingUp
    <3> QED
      BY <1>5, <3>1, <3>2, <3>3
  <2> QED
    BY <1>2, <2>2, <2>3
<1> QED
  BY <1>1, <1>2, <1>5, <1>6, <1>7 DEF l

MemoryIInv == RingIInv /\ peak \in Nat /\ MemoryFollowsUse

\* A call that asks for room keeps the bound, whether the ring grows for it or
\* not.
LEMMA AskingKeepsMemory ==
    ASSUME RingOK(rb), peak \in Nat, MemoryFollowsUse, NEW n \in Nat, Asks(n),
           rb'.cap \in {rb.cap, Reserved(rb, n).cap}
    PROVE  peak' \in Nat /\ MemoryFollowsUse'
<1>1. rb.cap \in Nat /\ RingLen(rb) \in Nat /\ rb.cap <= 2 * peak + 1
  BY ContentBytes DEF RingOK, HasType, MemoryFollowsUse
<1>2. Fits(rb, n) /\ peak' = IF RingLen(rb) + n > peak THEN RingLen(rb) + n ELSE peak
  BY DEF Asks
<1>3. peak' \in Nat /\ peak' >= peak /\ peak' >= RingLen(rb) + n
  BY <1>1, <1>2
<1>4. CASE rb'.cap = rb.cap
  BY <1>1, <1>3, <1>4 DEF MemoryFollowsUse
<1>5. CASE rb'.cap = Reserved(rb, n).cap /\ Free(rb) >= n
  BY <1>1, <1>3, <1>5 DEF MemoryFollowsUse, Reserved
<1>6. CASE rb'.cap = Reserved(rb, n).cap /\ ~(Free(rb) >= n)
  <2>1. rb'.cap <= 2 * (RingLen(rb) + n) + 1
    BY <1>2, <1>6, GrowthIsBounded
  <2>2. RingOK(Reserved(rb, n))
    BY <1>2, ReservedOK
  <2>3. rb'.cap \in Nat
    BY <1>6, <2>2 DEF RingOK, HasType
  <2> QED
    BY <1>1, <1>3, <2>1, <2>3 DEF MemoryFollowsUse
<1> QED
  BY <1>3, <1>4, <1>5, <1>6

LEMMA NextMemoryIInv == MemoryIInv /\ [RingNext]_ringVars => MemoryIInv'
<1> SUFFICES ASSUME RingOK(rb), peak \in Nat, MemoryFollowsUse, [RingNext]_ringVars
             PROVE  peak' \in Nat /\ MemoryFollowsUse'
  BY NextRingIInv DEF MemoryIInv, RingIInv
<1>1. ASSUME NEW n \in 0..MaxCall, Reserve(n)
      PROVE  peak' \in Nat /\ MemoryFollowsUse'
  BY <1>1, AskingKeepsMemory, MaxCallAssumption DEF Reserve
<1>2. ASSUME NEW n \in 0..MaxCall, DropFirstN(n)
      PROVE  peak' \in Nat /\ MemoryFollowsUse'
  BY <1>2 DEF DropFirstN, Dropped, RingOf, MemoryFollowsUse
<1>3. ASSUME NEW data \in Extensions, Extend(data)
      PROVE  peak' \in Nat /\ MemoryFollowsUse'
  <2>1. Len(data) \in Nat /\ Asks(Len(data)) /\ rb' = Extended(rb, data)
    BY <1>3, ExtensionsAssumption DEF Extend
  <2>2. rb'.cap \in {rb.cap, Reserved(rb, Len(data)).cap}
    BY <2>1 DEF Extended, Filled, RingOf
  <2> QED
    BY <2>1, <2>2, AskingKeepsMemory
<1>4. ASSUME NEW byte \in Byte, PushBack(byte)
      PROVE  peak' \in Nat /\ MemoryFollowsUse'
  <2>1. Asks(1) /\ rb'.cap = Reserved(rb, 1).cap
    BY <1>4 DEF PushBack, PushedBack, RingOf
  <2> QED
    BY <2>1, AskingKeepsMemory
<1>5. ASSUME NEW start \in 0..MaxCall, NEW len \in 0..MaxCall, ExtendFromWithin(start, len)
      PROVE  peak' \in Nat /\ MemoryFollowsUse'
  <2>1. len \in Nat /\ Asks(len) /\ rb'.cap = Reserved(rb, len).cap
    BY <1>5, MaxCallAssumption DEF ExtendFromWithin, CopiedWithin, RingOf
  <2> QED
    BY <2>1, AskingKeepsMemory
<1>6. CASE Clear
  BY <1>6 DEF Clear, Cleared, RingOf, MemoryFollowsUse
<1>7. CASE UNCHANGED ringVars
  BY <1>7 DEF ringVars, MemoryFollowsUse
<1> QED
  BY <1>1, <1>2, <1>3, <1>4, <1>5, <1>6, <1>7 DEF RingNext

\* reserve_amortized rounds up and adds the sentinel every time it is called;
\* still the allocation stays below twice the bytes the ring was asked to hold
\* at once, and one, for any sequence of calls.
THEOREM MemoryIsBoundedByUse == RingSpec => []MemoryFollowsUse
<1>1. RingInit => MemoryIInv
  BY InitRingIInv DEF RingInit, MemoryIInv, MemoryFollowsUse, NewRing, RingOf
<1>2. MemoryIInv => MemoryFollowsUse
  BY DEF MemoryIInv
<1> QED
  BY <1>1, <1>2, NextMemoryIInv, PTL DEF RingSpec

-----------------------------------------------------------------------------
(* The queue that callers see.  Its state is Content(rb).                  *)

LEMMA InitIsEmptyQueue == RingInit => Queue!Init
<1> SUFFICES ASSUME RingInit
             PROVE  Queue!Init
  OBVIOUS
<1>1. rb = NewRing /\ rb.head = rb.tail /\ RingOK(rb) /\ call = [op |-> "new"]
  BY NewRingOK DEF RingInit, NewRing, RingOf
<1>2. Content(rb) = <<>>
  BY <1>1, NoContent
<1> QED
  BY <1>1, <1>2 DEF Queue!Init

LEMMA StepIsQueueStep == RingIInv /\ [RingNext]_ringVars => [Queue!Next]_(Queue!vars)
<1> SUFFICES ASSUME RingOK(rb), [RingNext]_ringVars
             PROVE  [Queue!Next]_(Queue!vars)
  BY DEF RingIInv
<1>0. Content(rb) \in Seq(Byte) /\ Len(Content(rb)) = RingLen(rb) /\ RingLen(rb) \in Nat
  BY ContentAt
<1>1. ASSUME NEW n \in 0..MaxCall, Reserve(n)
      PROVE  Queue!Next
  <2>1. Content(rb') = Content(rb)
    BY <1>1, ReservedContent, MaxCallAssumption DEF Reserve, Asks
  <2>2. Queue!Reserve(n)
    BY <1>1, <2>1 DEF Reserve, Queue!Reserve
  <2> QED
    BY <2>2 DEF Queue!Next
<1>2. ASSUME NEW n \in 0..MaxCall, DropFirstN(n)
      PROVE  Queue!Next
  <2>1. Content(rb') = SubSeq(Content(rb), n + 1, RingLen(rb))
    BY <1>2, DroppedContent, MaxCallAssumption DEF DropFirstN
  <2>2. Queue!DropFirstN(n)
    <3> HIDE DEF Content
    <3> QED
      BY <1>0, <1>2, <2>1 DEF DropFirstN, Queue!DropFirstN
  <2> QED
    BY <2>2 DEF Queue!Next
<1>3. ASSUME NEW data \in Extensions, Extend(data)
      PROVE  Queue!Next
  <2>1. Content(rb') = Content(rb) \o data
    BY <1>3, ExtendedStores, ExtensionsAssumption DEF Extend, Asks
  <2>2. Queue!Extend(data)
    BY <1>3, <2>1 DEF Extend, Queue!Extend
  <2> QED
    BY <2>2 DEF Queue!Next
<1>4. ASSUME NEW byte \in Byte, PushBack(byte)
      PROVE  Queue!Next
  <2>1. Content(rb') = Content(rb) \o <<byte>>
    BY <1>4, PushedBackStores DEF PushBack, Asks
  <2>2. Content(rb') = Append(Content(rb), byte)
    BY <1>0, <2>1, AppendIsConcat
  <2>3. Queue!PushBack(byte)
    BY <1>4, <2>2 DEF PushBack, Queue!PushBack
  <2> QED
    BY <2>3 DEF Queue!Next
<1>5. ASSUME NEW start \in 0..MaxCall, NEW len \in 0..MaxCall, ExtendFromWithin(start, len)
      PROVE  Queue!Next
  <2> DEFINE s == Reserved(rb, len)
  <2>1. start \in Nat /\ len \in Nat
    BY MaxCallAssumption
  <2>2. rb.cap > 0 /\ start + len <= RingLen(rb) /\ Fits(rb, len)
    BY <1>5 DEF ExtendFromWithin, Asks
  <2>3. /\ RingOK(s) /\ s.cap > 0 /\ RingLen(s) = RingLen(rb) /\ Free(s) >= len
        /\ Content(s) = Content(rb)
    BY <2>1, <2>2, ReservedOK, ReservedContent
  <2>4. rb' = CopiedWithin(s, start, len)
    BY <1>5 DEF ExtendFromWithin
  <2> HIDE DEF s
  <2>5. len <= Free(s) /\ start + len <= RingLen(s)
    BY <2>1, <2>2, <2>3, RingNumbers
  <2>6. Content(rb') = Content(rb) \o SubSeq(Content(rb), start + 1, start + len)
    <3>1. Content(CopiedWithin(s, start, len))
             = Content(s) \o SubSeq(Content(s), start + 1, start + len)
      BY <2>1, <2>3, <2>5, CopiedWithinStores
    <3> HIDE DEF Content
    <3> QED
      BY <2>3, <2>4, <3>1, Zenon
  <2>7. Queue!ExtendFromWithin(start, len)
    BY <1>0, <1>5, <2>2, <2>6 DEF ExtendFromWithin, Queue!ExtendFromWithin
  <2> QED
    BY <2>7 DEF Queue!Next
<1>6. ASSUME Clear
      PROVE  Queue!Next
  <2>1. RingOK(rb') /\ rb'.head = rb'.tail
    BY <1>6, ClearedOK DEF Clear, Cleared, RingOf
  <2>2. Content(rb') = <<>>
    BY <2>1, NoContent
  <2>3. Queue!Clear
    BY <1>6, <2>2 DEF Clear, Queue!Clear
  <2> QED
    BY <2>3 DEF Queue!Next
<1>7. CASE UNCHANGED ringVars
  <2>1. UNCHANGED Queue!vars
    BY <1>7 DEF ringVars, Queue!vars, Content, FirstSlice, SecondSlice, Slice, DataSliceLengths
  <2> QED
    BY <2>1
<1> QED
  BY <1>1, <1>2, <1>3, <1>4, <1>5, <1>6, <1>7 DEF RingNext

\* Callers see a plain queue of bytes: capacity, wrap-around, the sentinel slot,
\* growth and the overshooting copies never show.
THEOREM RingIsAQueue == RingSpec => ImplementsByteQueue
<1>1. RingIInv /\ [RingNext]_ringVars => [Queue!Next]_(Queue!vars)
  BY StepIsQueueStep
<1> QED
  BY <1>1, InitIsEmptyQueue, RingInductive, PTL DEF RingSpec, Queue!Spec, ImplementsByteQueue

-----------------------------------------------------------------------------
(* The buffer on the ring.                                                 *)

-----------------------------------------------------------------------------
(* Arithmetic, and induction without a parameter that is an operator.      *)

\* The remainder is the j of q * o + j.
LEMMA ModUnique ==
    ASSUME NEW o \in Nat, NEW q \in Nat, NEW j \in Nat, j < o
    PROVE  (q * o + j) % o = j
<1> DEFINE x == q * o + j
<1>1. x \in Nat /\ o > 0
  OBVIOUS
<1>2. x = o * (x \div o) + (x % o) /\ x % o \in 0..(o - 1) /\ x \div o \in Nat
  BY <1>1
<1> DEFINE d == x \div o
           m == x % o
<1> HIDE DEF d, m
<1>3. CASE q >= d + 1
  OBVIOUS
<1> QED
  OBVIOUS

\* A number below the divisor is its own remainder.
LEMMA ModSmall ==
    ASSUME NEW o \in Nat, NEW j \in Nat, j < o
    PROVE  j % o = j
  OBVIOUS

\* A remainder is below the divisor.
LEMMA ModRange ==
    ASSUME NEW o \in Nat, o > 0, NEW x \in Nat
    PROVE  x % o \in Nat /\ x % o < o /\ (x \div o) \in Nat /\ x = (x \div o) * o + (x % o)
  OBVIOUS

\* A whole multiple does not change the remainder.
LEMMA ModShift ==
    ASSUME NEW o \in Nat, o > 0, NEW x \in Nat, NEW n \in Nat, n <= o
    PROVE  (n + x) % o = IF n + (x % o) < o THEN n + (x % o) ELSE n + (x % o) - o
<1> DEFINE q == x \div o
           m == x % o
<1>1. m \in Nat /\ m < o /\ q \in Nat /\ x = q * o + m
  BY ModRange
<1> HIDE DEF q, m
<1>2. CASE n + m < o
  <2>1. n + x = q * o + (n + m) /\ n + m \in Nat
    BY <1>1
  <2>2. (q * o + (n + m)) % o = n + m
    BY <1>1, <1>2, ModUnique
  <2> QED
    BY <1>2, <2>1, <2>2 DEF m
<1>3. CASE ~(n + m < o)
  <2> DEFINE e == n + m - o
  <2>1. n + x = (q + 1) * o + e /\ e \in Nat /\ e < o /\ q + 1 \in Nat
    BY <1>1, <1>3
  <2> HIDE DEF e
  <2>2. ((q + 1) * o + e) % o = e
    BY <2>1, ModUnique
  <2> QED
    BY <1>3, <2>1, <2>2 DEF m, e
<1> QED
  BY <1>2, <1>3

\* Rounding a division up.
LEMMA CeilDiv ==
    ASSUME NEW o \in Nat, o > 0, NEW n \in Nat, n > 0,
           NEW c, c = (n + o - 1) \div o
    PROVE  c \in Nat /\ c > 0 /\ c * o >= n /\ (c - 1) * o < n
<1> DEFINE x == n + o - 1
<1>1. x \in Nat
  OBVIOUS
<1>2. x % o \in Nat /\ x % o < o /\ c \in Nat /\ x = c * o + (x % o)
  BY <1>1, ModRange
<1> DEFINE m == x % o
<1> HIDE DEF m
<1>3. n + o - 1 = c * o + m /\ m < o /\ m \in Nat /\ c \in Nat
  BY <1>2 DEF m
<1>4. c # 0
  BY <1>3
<1>5. (c - 1) * o = c * o - o
  BY <1>3
<1> QED
  BY <1>3, <1>4, <1>5

\* A product of numbers is a number.
LEMMA Multiples ==
    ASSUME NEW o \in Nat, NEW k \in Nat
    PROVE  k * o \in Nat /\ (k + 1) * o = k * o + o
  OBVIOUS

\* More multiples are more.
LEMMA MultiplesGrow ==
    ASSUME NEW o \in Nat, NEW k \in Nat, NEW c \in Nat, k < c
    PROVE  k * o <= (c - 1) * o
<1>1. c - 1 - k \in Nat
  OBVIOUS
<1>2. (c - 1) * o = k * o + (c - 1 - k) * o
  OBVIOUS
<1>3. (c - 1 - k) * o \in Nat
  BY <1>1
<1> QED
  BY <1>2, <1>3
-----------------------------------------------------------------------------
(* Recursion over the chunks.                                              *)

\* Induction, stated with a set: no operator parameter is needed.
LEMMA SetInduction ==
    ASSUME NEW S \in SUBSET Nat, 0 \in S, \A n \in S : n + 1 \in S
    PROVE  \A n \in Nat : n \in S
<1> DEFINE T == Nat \ S
<1> SUFFICES ASSUME T # {} PROVE FALSE
  OBVIOUS
<1>1. PICK m \in T : \A n \in T : m <= n
  BY LeastNatural
<1>2. m # 0 /\ m \in Nat
  OBVIOUS
<1>3. m - 1 \in Nat /\ ~(m <= m - 1) /\ (m - 1) + 1 = m
  BY <1>2
<1>4. m - 1 \in S
  BY <1>1, <1>3
<1> QED
  BY <1>3, <1>4

\* The equation AfterChunks solves.
Stepwise(r, chunks, n, ring) ==
    ring = [k \in 0..n |-> IF k = 0 THEN r
                           ELSE CopiedWithin(ring[k - 1], chunks[k].start, chunks[k].len)]

\* A function with one copy per step exists, for any list of chunks.
LEMMA StepwiseExists ==
    ASSUME NEW r, NEW chunks, NEW n \in Nat
    PROVE  \E ring : Stepwise(r, chunks, n, ring)
<1> DEFINE S == {m \in Nat : \E ring : Stepwise(r, chunks, m, ring)}
<1>1. 0 \in S
  <2> DEFINE one == [k \in 0..0 |-> r]
  <2>1. Stepwise(r, chunks, 0, one)
    BY DEF Stepwise
  <2> QED
    BY <2>1
<1>2. ASSUME NEW m \in S
      PROVE  m + 1 \in S
  <2>1. PICK ring : Stepwise(r, chunks, m, ring)
    OBVIOUS
  <2> DEFINE next == [k \in 0..(m + 1) |->
                        IF k = m + 1
                        THEN CopiedWithin(ring[m], chunks[m + 1].start, chunks[m + 1].len)
                        ELSE ring[k]]
  <2>2. m \in Nat
    OBVIOUS
  <2>3. ASSUME NEW k \in 0..(m + 1)
        PROVE  next[k] = IF k = 0 THEN r
                         ELSE CopiedWithin(next[k - 1], chunks[k].start, chunks[k].len)
    <3>1. CASE k = m + 1
      <4>1. k - 1 = m /\ m \in 0..(m + 1) /\ m # m + 1 /\ k # 0
        BY <2>2, <3>1
      <4>2. next[m] = ring[m]
        BY <4>1
      <4> QED
        BY <3>1, <4>1, <4>2
    <3>2. CASE k # m + 1 /\ k # 0
      <4>1. k \in 0..m /\ k - 1 \in 0..(m + 1) /\ k - 1 # m + 1
        BY <2>2, <3>2
      <4>2. next[k - 1] = ring[k - 1] /\ next[k] = ring[k]
        BY <3>2, <4>1
      <4>3. ring[k] = CopiedWithin(ring[k - 1], chunks[k].start, chunks[k].len)
        BY <2>1, <3>2, <4>1, Zenon DEF Stepwise
      <4> QED
        BY <3>2, <4>2, <4>3
    <3>3. CASE k = 0
      <4>1. k \in 0..m /\ k # m + 1
        BY <2>2, <3>3
      <4>2. next[k] = ring[k]
        BY <4>1
      <4>3. ring[k] = r
        BY <2>1, <3>3, <4>1, Zenon DEF Stepwise
      <4> QED
        BY <3>3, <4>2, <4>3
    <3> QED
      BY <3>1, <3>2, <3>3
  <2>4. DOMAIN next = 0..(m + 1)
    OBVIOUS
  <2>5. next = [k \in 0..(m + 1) |-> next[k]]
    OBVIOUS
  <2> HIDE DEF next
  <2>6. Stepwise(r, chunks, m + 1, next)
    BY <2>3, <2>5, Zenon DEF Stepwise
  <2> QED
    BY <2>2, <2>6
<1> HIDE DEF S
<1>3. \A m \in Nat : m \in S
  BY <1>1, <1>2, SetInduction DEF S
<1> QED
  BY <1>3 DEF S

\* AfterChunks makes one copy after the other.
LEMMA AfterChunksSteps ==
    ASSUME NEW r, NEW chunks, Len(chunks) \in Nat
    PROVE  /\ AfterChunks(r, chunks)[0] = r
           /\ \A k \in 1..Len(chunks) :
                 AfterChunks(r, chunks)[k]
                   = CopiedWithin(AfterChunks(r, chunks)[k - 1], chunks[k].start, chunks[k].len)
<1> DEFINE n    == Len(chunks)
           ring == AfterChunks(r, chunks)
<1>1. ring = CHOOSE f : Stepwise(r, chunks, n, f)
  BY Zenon DEF AfterChunks, Stepwise
<1>2. Stepwise(r, chunks, n, ring)
  BY <1>1, StepwiseExists, Zenon
<1> HIDE DEF ring
<1>3. \A k \in 0..n : ring[k] = IF k = 0 THEN r
                       ELSE CopiedWithin(ring[k - 1], chunks[k].start, chunks[k].len)
  BY <1>2, Zenon DEF Stepwise
<1> HIDE DEF n
<1>4. n \in Nat
  BY DEF n
<1>5. ring[0] = r
  BY <1>3, <1>4
<1>6. \A k \in 1..n : ring[k] = CopiedWithin(ring[k - 1], chunks[k].start, chunks[k].len)
  BY <1>3, <1>4
<1> QED
  BY <1>5, <1>6 DEF n, ring
-----------------------------------------------------------------------------
(* Matches and the chunks they are copied in.                              *)

\* A match that reaches no further than the history is a string of its bytes.
LEMMA MatchBytes ==
    ASSUME NEW S, NEW history \in Seq(S), NEW o \in Nat, o > 0, o <= Len(history),
           NEW len \in Nat
    PROVE  /\ Match(history, o, len) \in Seq(S) /\ Len(Match(history, o, len)) = len
           /\ \A i \in 1..len :
                 /\ Match(history, o, len)[i] = history[Len(history) - o + 1 + ((i - 1) % o)]
                 /\ (i - 1) % o \in Nat /\ (i - 1) % o < o
<1> DEFINE m == Match(history, o, len)
<1>1. m = [i \in 1..len |-> history[Len(history) - o + 1 + ((i - 1) % o)]]
  BY DEF Match
<1>2. ASSUME NEW i \in 1..len
      PROVE  (i - 1) % o \in Nat /\ (i - 1) % o < o
  <2>1. i - 1 \in Nat
    OBVIOUS
  <2> QED
    BY <2>1, ModRange
<1>3. ASSUME NEW i \in 1..len
      PROVE  history[Len(history) - o + 1 + ((i - 1) % o)] \in S
  <2> DEFINE j == (i - 1) % o
  <2>1. j \in Nat /\ j < o
    BY <1>2
  <2> HIDE DEF j
  <2>2. Len(history) - o + 1 + j \in 1..Len(history)
    BY <2>1
  <2>3. history[Len(history) - o + 1 + j] \in S
    BY <2>2
  <2> QED
    BY <2>3 DEF j
<1> HIDE DEF m
<1>4. m \in [1..len -> S]
  BY <1>1, <1>3
<1>5. m \in Seq(S) /\ Len(m) = len
  BY <1>4, FunctionIsSeq
<1>6. \A i \in 1..len : m[i] = history[Len(history) - o + 1 + ((i - 1) % o)]
  BY <1>1, Zenon
<1> QED
  BY <1>2, <1>5, <1>6 DEF m

\* Only the end of the history matters.
LEMMA MatchOfSuffix ==
    ASSUME NEW S, NEW p \in Seq(S), NEW s \in Seq(S), NEW o \in Nat, o > 0, o <= Len(s),
           NEW len \in Nat
    PROVE  Match(p \o s, o, len) = Match(s, o, len)
<1> DEFINE h == p \o s
<1>1. /\ h \in Seq(S) /\ Len(h) = Len(p) + Len(s)
      /\ \A i \in 1..Len(s) : h[Len(p) + i] = s[i]
  BY ConcatProperties
<1>2. Len(p) \in Nat /\ Len(s) \in Nat
  OBVIOUS
<1> HIDE DEF h
<1>3. o <= Len(h)
  BY <1>1, <1>2
<1> DEFINE a == Match(h, o, len)
           b == Match(s, o, len)
<1>4. /\ a \in Seq(S) /\ Len(a) = len
      /\ \A i \in 1..len : /\ a[i] = h[Len(h) - o + 1 + ((i - 1) % o)]
                           /\ (i - 1) % o \in Nat /\ (i - 1) % o < o
  BY <1>1, <1>3, MatchBytes
<1>5. /\ b \in Seq(S) /\ Len(b) = len
      /\ \A i \in 1..len : b[i] = s[Len(s) - o + 1 + ((i - 1) % o)]
  BY MatchBytes, ZenonT(40)
<1> HIDE DEF a, b
<1>6. ASSUME NEW i \in 1..len
      PROVE  a[i] = b[i]
  <2> DEFINE j == (i - 1) % o
  <2>1. j \in Nat /\ j < o /\ a[i] = h[Len(h) - o + 1 + j] /\ b[i] = s[Len(s) - o + 1 + j]
    BY <1>4, <1>5
  <2> HIDE DEF j
  <2> DEFINE k == Len(s) - o + 1 + j
  <2>2. k \in 1..Len(s) /\ Len(h) - o + 1 + j = Len(p) + k
    BY <1>1, <1>2, <2>1
  <2> HIDE DEF k
  <2>3. h[Len(p) + k] = s[k]
    BY <1>1, <2>2
  <2> QED
    BY <2>1, <2>2, <2>3 DEF k
<1>7. a = b
  BY <1>4, <1>5, <1>6, SeqEqual
<1> QED
  BY <1>7 DEF a, b, h

\* One copy or many: chunk after chunk of the offset, the last one shorter.
LEMMA ChunkFields ==
    ASSUME NEW r, RingLen(r) \in Nat, NEW o \in Nat, o > 0, o <= RingLen(r),
           NEW len \in Nat, len > 0
    PROVE  LET n == Len(Chunks(r, o, len))
           IN  /\ n \in Nat /\ n > 0 /\ n * o >= len /\ (n - 1) * o < len
               /\ \A k \in 1..n :
                     /\ Chunks(r, o, len)[k].start = RingLen(r) - o + (k - 1) * o
                     /\ Chunks(r, o, len)[k].len = Least(o, len - (k - 1) * o)
<1> DEFINE l  == RingLen(r)
           n  == (len + o - 1) \div o
           cs == Chunks(r, o, len)
<1>1. n \in Nat /\ n > 0 /\ n * o >= len /\ (n - 1) * o < len
  BY CeilDiv
<1> HIDE DEF n
<1>2. CASE l - o + len <= l
  <2>1. cs = <<[start |-> l - o, len |-> len]>>
    BY <1>2 DEF Chunks
  <2> HIDE DEF l, cs
  <2>2. Len(cs) = 1 /\ cs[1].start = l - o /\ cs[1].len = len
    BY <2>1
  <2>3. 1 * o >= len /\ (1 - 1) * o = 0 /\ Least(o, len - (1 - 1) * o) = len /\ len <= o
    BY <1>2 DEF l, Least
  <2>4. \A k \in 1..1 : k = 1
    OBVIOUS
  <2> DEFINE z == (1 - 1) * o
  <2>5. cs[1].start = l - o + z /\ cs[1].len = Least(o, len - z) /\ z < len
    BY <2>2, <2>3 DEF l
  <2> HIDE DEF z
  <2>6. \A k \in 1..1 : /\ cs[k].start = l - o + (k - 1) * o
                         /\ cs[k].len = Least(o, len - (k - 1) * o)
    BY <2>4, <2>5, Zenon DEF z
  <2>7. Len(cs) \in Nat /\ Len(cs) > 0 /\ Len(cs) * o >= len /\ (Len(cs) - 1) * o < len
    BY <2>2, <2>3, <2>5 DEF z
  <2> QED
    BY <2>2, <2>6, <2>7, Zenon DEF l, cs
<1>3. CASE ~(l - o + len <= l)
  <2>1. cs = [k \in 1..n |-> [start |-> l - o + (k - 1) * o, len |-> Least(o, len - (k - 1) * o)]]
    BY <1>3, Zenon DEF Chunks, n, l, cs
  <2> HIDE DEF l, cs
  <2>2. Len(cs) = n
    BY <1>1, <2>1
  <2>3. \A k \in 1..n : /\ cs[k].start = l - o + (k - 1) * o
                         /\ cs[k].len = Least(o, len - (k - 1) * o)
    BY <2>1
  <2> QED
    BY <1>1, <2>2, <2>3 DEF cs, l
<1> QED
  BY <1>2, <1>3
\* A part of a string, byte by byte.
LEMMA Part ==
    ASSUME NEW S, NEW s \in Seq(S), NEW a \in Nat, NEW n \in Nat, a + n <= Len(s)
    PROVE  /\ SubSeq(s, a + 1, a + n) \in Seq(S) /\ Len(SubSeq(s, a + 1, a + n)) = n
           /\ \A i \in 1..n : SubSeq(s, a + 1, a + n)[i] = s[a + i]
<1>1. \A i \in (a + 1)..(a + n) : s[i] \in S
  OBVIOUS
<1> DEFINE x == SubSeq(s, a + 1, a + n)
<1>2. /\ x \in Seq(S) /\ Len(x) = IF a + 1 <= a + n THEN a + n - (a + 1) + 1 ELSE 0
      /\ \A i \in 1..(a + n - (a + 1) + 1) : x[i] = s[a + 1 + i - 1]
  BY <1>1, SubSeqProperties
<1> HIDE DEF x
<1>3. Len(x) = n
  BY <1>2
<1>4. ASSUME NEW i \in 1..n PROVE x[i] = s[a + i]
  <2>1. i \in 1..(a + n - (a + 1) + 1) /\ a + 1 + i - 1 = a + i
    OBVIOUS
  <2> QED
    BY <1>2, <2>1
<1> QED
  BY <1>2, <1>3, <1>4 DEF x

\* The first bytes of a string.
LEMMA Prefix ==
    ASSUME NEW S, NEW s \in Seq(S), NEW n \in Nat, n <= Len(s)
    PROVE  /\ SubSeq(s, 1, n) \in Seq(S) /\ Len(SubSeq(s, 1, n)) = n
           /\ \A i \in 1..n : SubSeq(s, 1, n)[i] = s[i]
<1>1. 0 \in Nat /\ 0 + n <= Len(s) /\ 0 + 1 = 1 /\ 0 + n = n
  OBVIOUS
<1>2. /\ SubSeq(s, 0 + 1, 0 + n) \in Seq(S) /\ Len(SubSeq(s, 0 + 1, 0 + n)) = n
      /\ \A i \in 1..n : SubSeq(s, 0 + 1, 0 + n)[i] = s[0 + i]
  BY <1>1, Part
<1>3. \A i \in 1..n : 0 + i = i
  OBVIOUS
<1> QED
  BY <1>1, <1>2, <1>3

\* Two adjacent parts make one.
LEMMA PartsJoin ==
    ASSUME NEW S, NEW s \in Seq(S), NEW a \in Nat, NEW n \in Nat, a + n <= Len(s)
    PROVE  SubSeq(s, 1, a) \o SubSeq(s, a + 1, a + n) = SubSeq(s, 1, a + n)
<1>1. 1 \in 1..(Len(s) + 1) /\ a \in (1 - 1)..Len(s) /\ a + n \in a..Len(s)
  OBVIOUS
<1> QED
  BY <1>1, ConcatAdjacentSubSeq

\* Concatenation of strings of bytes is associative.
LEMMA BytesAssociate ==
    \A x, y, z \in Seq(Byte) : (x \o y) \o z = x \o (y \o z)
  BY ConcatAssociative

\* The first a bytes of a match end with a whole chunk.
WholeChunks(a, o) ==
    /\ a \in Nat
    /\ a # 0 => a - o \in Nat
    /\ \A j \in 0..(o - 1) : (a + j) % o = j /\ (a # 0 => (a - o + j) % o = j)

\* A multiple of the offset is a number of whole chunks.
LEMMA MultipleIsWhole ==
    ASSUME NEW o \in Nat, o > 0, NEW k \in Nat
    PROVE  WholeChunks(k * o, o)
<1>1. k * o \in Nat /\ (k # 0 => k - 1 \in Nat)
  OBVIOUS
<1>2. k # 0 => k * o - o = (k - 1) * o /\ k * o - o \in Nat
  OBVIOUS
<1>3. k = 0 => k * o = 0
  OBVIOUS
<1>4. ASSUME NEW j \in 0..(o - 1)
      PROVE  (k * o + j) % o = j /\ (k # 0 => (k * o - o + j) % o = j)
  <2>1. j \in Nat /\ j < o
    OBVIOUS
  <2>2. (k * o + j) % o = j
    BY <2>1, ModUnique
  <2>3. k # 0 => ((k - 1) * o + j) % o = j
    BY <1>1, <2>1, ModUnique
  <2> QED
    BY <1>2, <2>2, <2>3
<1> QED
  BY <1>1, <1>2, <1>3, <1>4, Zenon DEF WholeChunks

\* Appending what lies an offset back to h and a bytes of a match goes on with
\* the match: the chunk after a whole number of chunks repeats the one before.
GoesOn(h, o, len, a) ==
    LET M     == Match(h, o, len)
        cur   == h \o SubSeq(M, 1, a)
        size  == Least(o, len - a)
        start == Len(h) - o + a
    IN  /\ size \in Nat /\ size > 0 /\ a + size <= len /\ start \in Nat
        /\ cur \in Seq(Byte) /\ Len(cur) = Len(h) + a /\ start + size <= Len(cur)
        /\ cur \o SubSeq(cur, start + 1, start + size) = h \o SubSeq(M, 1, a + size)

\* Copying the next chunk from the ring is copying the next part of the match:
\* what lies "offset" back is either history or a part copied before.
LEMMA MatchGoesOn ==
    ASSUME NEW h \in Seq(Byte), NEW o \in Nat, o > 0, o <= Len(h),
           NEW len \in Nat, NEW a, WholeChunks(a, o), a < len
    PROVE  GoesOn(h, o, len, a)
<1> DEFINE M == Match(h, o, len)
           head == SubSeq(M, 1, a)
           cur == h \o head
           size == Least(o, len - a)
           start == Len(h) - o + a
<1>1. a \in Nat
  BY DEF WholeChunks
<1>2. /\ M \in Seq(Byte) /\ Len(M) = len
      /\ \A i \in 1..len : M[i] = h[Len(h) - o + 1 + ((i - 1) % o)]
  BY MatchBytes
<1>3. size \in Nat /\ size > 0 /\ size <= o /\ a + size <= len /\ start \in Nat /\ start + size <= Len(h) + a
  BY <1>1 DEF Least
<1>0. start = Len(h) - o + a
  OBVIOUS
<1> HIDE DEF M, size, start
<1>4. head \in Seq(Byte) /\ Len(head) = a /\ \A i \in 1..a : head[i] = M[i]
  BY <1>1, <1>2, Prefix
<1>5. cur = h \o head
  OBVIOUS
<1> HIDE DEF head, cur
<1>6. /\ cur \in Seq(Byte) /\ Len(cur) = Len(h) + a
      /\ \A i \in 1..Len(h) : cur[i] = h[i]
      /\ \A i \in 1..a : cur[Len(h) + i] = M[i]
  <2> DEFINE t == h \o head
  <2>1. /\ t \in Seq(Byte) /\ Len(t) = Len(h) + Len(head)
        /\ \A i \in 1..(Len(h) + Len(head)) : t[i] = IF i <= Len(h) THEN h[i] ELSE head[i - Len(h)]
    BY <1>4, ConcatProperties
  <2>2. Len(h) \in Nat
    OBVIOUS
  <2>3. cur = t
    BY <1>5
  <2> HIDE DEF t
  <2>4. \A i \in 1..Len(h) : t[i] = h[i]
    BY <1>1, <1>4, <2>1, <2>2
  <2>5. ASSUME NEW i \in 1..a PROVE t[Len(h) + i] = M[i]
    <3>1. Len(h) + i \in 1..(Len(h) + Len(head)) /\ ~(Len(h) + i <= Len(h)) /\ Len(h) + i - Len(h) = i
      BY <1>1, <1>4, <2>2
    <3> QED
      BY <1>4, <2>1, <3>1
  <2> QED
    BY <1>4, <2>1, <2>3, <2>4, <2>5
<1> DEFINE more == SubSeq(cur, start + 1, start + size)
           part == SubSeq(M, a + 1, a + size)
<1>7. more \in Seq(Byte) /\ Len(more) = size /\ \A i \in 1..size : more[i] = cur[start + i]
  <2>1. start + size <= Len(cur)
    BY <1>3, <1>6
  <2> QED
    BY <1>3, <1>6, <2>1, Part DEF more
<1>8. part \in Seq(Byte) /\ Len(part) = size /\ \A i \in 1..size : part[i] = M[a + i]
  <2>1. a + size <= Len(M)
    BY <1>2, <1>3
  <2> QED
    BY <1>1, <1>2, <1>3, <2>1, Part DEF part
<1>9. ASSUME NEW i \in 1..size
      PROVE  cur[start + i] = M[a + i]
  <2> DEFINE j == i - 1
  <2>1. /\ j \in 0..(o - 1) /\ j \in Nat /\ i = j + 1
        /\ a + i - 1 = a + j /\ a + i \in 1..len
    BY <1>1, <1>3
  <2> HIDE DEF j
  <2>2. M[a + i] = h[Len(h) - o + 1 + j]
    <3> DEFINE q == a + i
    <3>1. (a + j) % o = j
      BY <2>1, Zenon DEF WholeChunks
    <3>2. q \in 1..len /\ q - 1 = a + j
      BY <1>1, <2>1
    <3> HIDE DEF q
    <3>3. M[q] = h[Len(h) - o + 1 + ((q - 1) % o)]
      BY <1>2, <3>2
    <3> QED
      BY <3>1, <3>2, <3>3, Zenon DEF q
  <2>3. CASE a = 0
    <3>1. start + i = Len(h) - o + 1 + j /\ start + i \in 1..Len(h)
      BY <1>3, <1>0, <2>1, <2>3
    <3> QED
      BY <1>6, <2>2, <3>1
  <2>4. CASE a # 0
    <3> DEFINE b == a - o
    <3>1. b \in Nat /\ a = b + o
      BY <1>1, <2>4 DEF WholeChunks
    <3>2. (b + j) % o = j
      BY <2>1, <2>4, Zenon DEF WholeChunks
    <3> HIDE DEF b
    <3>3. /\ start + i = Len(h) + (b + i) /\ b + i \in 1..a
          /\ b + i \in 1..len /\ b + i - 1 = b + j
      BY <1>1, <1>3, <1>0, <2>1, <3>1
    <3> DEFINE q == b + i
    <3>4. cur[start + i] = M[q]
      BY <1>6, <3>3
    <3>5. q \in 1..len /\ q - 1 = b + j
      BY <1>1, <3>1, <3>3
    <3> HIDE DEF q
    <3>6. M[q] = h[Len(h) - o + 1 + j]
      <4>1. M[q] = h[Len(h) - o + 1 + ((q - 1) % o)]
        BY <1>2, <3>5
      <4> QED
        BY <3>2, <3>5, <4>1, Zenon
    <3> QED
      BY <2>2, <3>4, <3>6
  <2> QED
    BY <2>3, <2>4
<1> HIDE DEF more, part
<1>10. more = part
  <2>1. Len(more) = Len(part) /\ \A i \in 1..Len(more) : more[i] = part[i]
    BY <1>7, <1>8, <1>9
  <2> QED
    BY <1>7, <1>8, <2>1, SeqEqual
<1>11. head \o part = SubSeq(M, 1, a + size)
  <2>1. a + size <= Len(M)
    BY <1>2, <1>3
  <2> QED
    BY <1>1, <1>2, <1>3, <2>1, PartsJoin DEF head, part
<1>12. (h \o head) \o part = h \o (head \o part)
  <2>1. h \in Seq(Byte) /\ head \in Seq(Byte) /\ part \in Seq(Byte)
    BY <1>4, <1>8
  <2> QED
    BY <2>1, BytesAssociate, Zenon
<1>13. cur \o more = h \o SubSeq(M, 1, a + size)
  BY <1>5, <1>10, <1>11, <1>12
<1>14. start + size <= Len(cur)
  BY <1>3, <1>6
<1> QED
  BY <1>3, <1>6, <1>13, <1>14 DEF GoesOn, more, cur, head, M, size, start
-----------------------------------------------------------------------------
(* repeat inside the ring.                                                 *)

\* The ring once the first "done" bytes of a match are copied.
CopiedSoFar(r, o, len, ring, done) ==
    /\ RingOK(ring) /\ ring.cap = r.cap /\ RingLen(ring) = RingLen(r) + done
    /\ Content(ring) = Content(r) \o SubSeq(Match(Content(r), o, len), 1, done)

\* A chunk meets both requirements of the unsafe copy, and is the next part of
\* the match.
LEMMA OneMoreChunk ==
    ASSUME NEW r, RingOK(r), r.cap > 0, NEW o \in Nat, o > 0, o <= RingLen(r),
           NEW len \in Nat, len <= Free(r), NEW a, WholeChunks(a, o), a < len,
           NEW ring, CopiedSoFar(r, o, len, ring, a)
    PROVE  LET c     == Least(o, len - a)
               start == RingLen(r) - o + a
           IN  /\ start \in Nat /\ c \in Nat
               /\ start + c <= RingLen(ring) /\ c <= Free(ring)
               /\ CopiedSoFar(r, o, len, CopiedWithin(ring, start, c), a + c)
<1> DEFINE h     == Content(r)
           c     == Least(o, len - a)
           start == RingLen(r) - o + a
           next  == CopiedWithin(ring, start, c)
           cur   == Content(ring)
<1>1. h \in Seq(Byte) /\ Len(h) = RingLen(r) /\ RingLen(r) \in Nat
  BY ContentAt
<1>2. /\ RingOK(ring) /\ ring.cap = r.cap /\ RingLen(ring) = RingLen(r) + a
      /\ cur = h \o SubSeq(Match(h, o, len), 1, a)
  BY DEF CopiedSoFar
<1>3. a \in Nat
  BY DEF WholeChunks
<1> HIDE DEF h, cur
<1>4. start = Len(h) - o + a /\ o <= Len(h)
  BY <1>1
<1>5. /\ c \in Nat /\ c > 0 /\ a + c <= len /\ start \in Nat
      /\ cur \in Seq(Byte) /\ Len(cur) = Len(h) + a /\ start + c <= Len(cur)
      /\ cur \o SubSeq(cur, start + 1, start + c) = h \o SubSeq(Match(h, o, len), 1, a + c)
  <2> DEFINE w == h \o SubSeq(Match(h, o, len), 1, a)
             v == Len(h) - o + a
  <2>1. /\ c \in Nat /\ c > 0 /\ a + c <= len /\ v \in Nat
        /\ w \in Seq(Byte) /\ Len(w) = Len(h) + a /\ v + c <= Len(w)
        /\ w \o SubSeq(w, v + 1, v + c) = h \o SubSeq(Match(h, o, len), 1, a + c)
    <3>1. GoesOn(h, o, len, a)
      BY <1>1, <1>4, MatchGoesOn
    <3> QED
      BY <3>1, Zenon DEF GoesOn
  <2>2. cur = w /\ start = v
    BY <1>2, <1>4
  <2> HIDE DEF c, start, v, w
  <2> QED
    BY <2>1, <2>2
<1> HIDE DEF c, start
<1>6. start + c <= RingLen(ring) /\ c <= Free(ring)
  <2>1. /\ Free(r) = r.cap - 1 - RingLen(r) /\ Free(ring) = ring.cap - 1 - RingLen(ring)
        /\ r.cap \in Nat
    BY <1>2, RingNumbers
  <2> QED
    BY <1>1, <1>2, <1>3, <1>5, <2>1
<1>7. /\ RingOK(next) /\ RingLen(next) = RingLen(ring) + c
      /\ Content(next) = cur \o SubSeq(cur, start + 1, start + c)
  BY <1>2, <1>5, <1>6, CopiedWithinStores DEF cur
<1>8. next.cap = ring.cap
  BY DEF CopiedWithin, RingOf
<1> HIDE DEF next
<1>9. RingLen(ring) + c = RingLen(r) + (a + c)
  BY <1>1, <1>2, <1>3, <1>5
<1>10. CopiedSoFar(r, o, len, next, a + c)
  BY <1>2, <1>5, <1>7, <1>8, <1>9 DEF CopiedSoFar, h
<1> QED
  BY <1>5, <1>6, <1>10 DEF c, start, next

\* Every chunk of a match meets the two requirements of the unsafe copy, and
\* together they append the match.
LEMMA ChunksCopyTheMatch ==
    ASSUME NEW r, RingOK(r), r.cap > 0, NEW o \in Nat, o > 0, o <= RingLen(r),
           NEW len \in Nat, len > 0, len <= Free(r),
           NEW chunks, chunks = Chunks(r, o, len)
    PROVE  LET n    == Len(chunks)
               ring == AfterChunks(r, chunks)
           IN  /\ n \in Nat
               /\ \A k \in 1..n : /\ chunks[k].start + chunks[k].len <= RingLen(ring[k - 1])
                                  /\ chunks[k].len <= Free(ring[k - 1])
               /\ RingOK(ring[n]) /\ RingLen(ring[n]) = RingLen(r) + len
               /\ Content(ring[n]) = Content(r) \o Match(Content(r), o, len)
<1> DEFINE n    == Len(chunks)
           ring == AfterChunks(r, chunks)
           size(k) == Least(o, len - k * o)
           M == Match(Content(r), o, len)
<1>0. RingLen(r) \in Nat
  BY ContentBytes
<1>1. /\ n \in Nat /\ n > 0 /\ n * o >= len /\ (n - 1) * o < len
      /\ \A k \in 1..n : /\ chunks[k].start = RingLen(r) - o + (k - 1) * o
                         /\ chunks[k].len = size(k - 1)
  BY <1>0, ChunkFields, ZenonT(40)
<1>2. /\ ring[0] = r
      /\ \A k \in 1..n : ring[k] = CopiedWithin(ring[k - 1], chunks[k].start, chunks[k].len)
  BY <1>1, AfterChunksSteps, SMTT(30)
<1>3. Content(r) \in Seq(Byte) /\ Len(Content(r)) = RingLen(r)
  BY ContentAt
<1>4. M \in Seq(Byte) /\ Len(M) = len
  <2> HIDE DEF Content
  <2> QED
    BY <1>3, MatchBytes
<1> HIDE DEF n, ring, M
<1>5. ASSUME NEW k \in 0..(n - 1), CopiedSoFar(r, o, len, ring[k], k * o)
      PROVE  /\ chunks[k + 1].start + chunks[k + 1].len <= RingLen(ring[k])
             /\ chunks[k + 1].len <= Free(ring[k])
             /\ CopiedSoFar(r, o, len, ring[k + 1], k * o + size(k))
  <2> DEFINE a == k * o
             start == RingLen(r) - o + a
             c == Least(o, len - a)
  <2>1. k \in Nat /\ k + 1 \in 1..n /\ k < n /\ (k + 1) - 1 = k
    BY <1>1
  <2>2. WholeChunks(a, o)
    BY <2>1, MultipleIsWhole
  <2>3. a < len
    <3>1. k * o <= (n - 1) * o
      BY <1>1, <2>1, MultiplesGrow
    <3>2. k * o \in Nat /\ (n - 1) * o \in Nat
      BY <1>1, <2>1, Multiples
    <3> DEFINE b == (n - 1) * o
    <3>3. a <= b /\ a \in Nat /\ b \in Nat /\ b < len
      BY <1>1, <3>1, <3>2
    <3> HIDE DEF a, b
    <3> QED
      BY <3>3
  <2>4. /\ chunks[k + 1].start = start /\ chunks[k + 1].len = c
        /\ ring[k + 1] = CopiedWithin(ring[k], start, c)
    <3>1. chunks[k + 1].start = RingLen(r) - o + ((k + 1) - 1) * o /\ chunks[k + 1].len = size((k + 1) - 1)
      BY <1>1, <2>1, Zenon
    <3>2. ring[k + 1] = CopiedWithin(ring[(k + 1) - 1], chunks[k + 1].start, chunks[k + 1].len)
      BY <1>2, <2>1, Zenon
    <3> QED
      BY <2>1, <3>1, <3>2, Zenon
  <2>5. CopiedSoFar(r, o, len, ring[k], a)
    BY <1>5
  <2> HIDE DEF a
  <2>6. /\ start + c <= RingLen(ring[k]) /\ c <= Free(ring[k])
        /\ CopiedSoFar(r, o, len, CopiedWithin(ring[k], start, c), a + c)
    BY <2>2, <2>3, <2>5, OneMoreChunk
  <2> QED
    BY <2>4, <2>6, Zenon DEF a
<1> DEFINE S == {k \in Nat : k < n => CopiedSoFar(r, o, len, ring[k], k * o)}
<1>6. 0 \in S
  <2>1. SubSeq(M, 1, 0) = <<>>
    BY SubSeqEmpty
  <2>2. Content(r) \o <<>> = Content(r)
    <3> HIDE DEF Content
    <3> QED
      BY <1>3, ConcatEmptySeq
  <2>3. CopiedSoFar(r, o, len, r, 0)
    <3> HIDE DEF Content
    <3>1. RingLen(r) = RingLen(r) + 0
      BY <1>0
    <3> QED
      BY <2>1, <2>2, <3>1 DEF CopiedSoFar, M
  <2>4. 0 * o = 0
    OBVIOUS
  <2> QED
    BY <1>2, <2>3, <2>4
<1>7. ASSUME NEW k \in S
      PROVE  k + 1 \in S
  <2>1. k \in Nat
    OBVIOUS
  <2>2. CASE k + 1 < n
    <3>1. k \in 0..(n - 1) /\ k < n /\ k + 1 \in Nat /\ k + 1 <= n - 1 /\ k + 1 < n
      BY <1>1, <2>1, <2>2
    <3>2. CopiedSoFar(r, o, len, ring[k], k * o)
      BY <3>1
    <3>3. CopiedSoFar(r, o, len, ring[k + 1], k * o + size(k))
      BY <1>5, <3>1, <3>2
    <3>4. size(k) = o
      <4> DEFINE a == k * o
                 b == (n - 1) * o
                 d == (k + 1) * o
      <4>1. d <= b
        BY <1>1, <3>1, MultiplesGrow
      <4>2. a \in Nat /\ d = a + o /\ b \in Nat
        BY <1>1, <2>1, Multiples
      <4>3. b < len
        BY <1>1
      <4> HIDE DEF a, b, d
      <4>4. Least(o, len - a) = o
        BY <4>1, <4>2, <4>3 DEF Least
      <4> QED
        BY <4>4 DEF a
    <3>5. k * o + o = (k + 1) * o
      BY <2>1, Multiples
    <3>6. CopiedSoFar(r, o, len, ring[k + 1], (k + 1) * o)
      BY <3>3, <3>4, <3>5, Zenon
    <3> QED
      BY <3>1, <3>6
  <2>3. CASE ~(k + 1 < n)
    BY <2>1, <2>3
  <2> QED
    BY <2>2, <2>3
<1> HIDE DEF S
<1>8. \A k \in Nat : k \in S
  <2>1. S \in SUBSET Nat
    BY DEF S
  <2> QED
    BY <1>6, <1>7, <2>1, SetInduction
<1>9. \A k \in 0..(n - 1) : CopiedSoFar(r, o, len, ring[k], k * o)
  <2> SUFFICES ASSUME NEW k \in 0..(n - 1) PROVE CopiedSoFar(r, o, len, ring[k], k * o)
    OBVIOUS
  <2>1. k \in Nat /\ k < n
    BY <1>1
  <2> QED
    BY <1>8, <2>1, Zenon DEF S
<1>10. \A k \in 1..n : /\ chunks[k].start + chunks[k].len <= RingLen(ring[k - 1])
                       /\ chunks[k].len <= Free(ring[k - 1])
  <2> SUFFICES ASSUME NEW k \in 1..n
               PROVE  /\ chunks[k].start + chunks[k].len <= RingLen(ring[k - 1])
                      /\ chunks[k].len <= Free(ring[k - 1])
    OBVIOUS
  <2>1. k - 1 \in 0..(n - 1) /\ (k - 1) + 1 = k
    BY <1>1
  <2> DEFINE j == k - 1
  <2>2. j \in 0..(n - 1) /\ j + 1 = k
    BY <2>1
  <2> HIDE DEF j
  <2>3. /\ chunks[j + 1].start + chunks[j + 1].len <= RingLen(ring[j])
        /\ chunks[j + 1].len <= Free(ring[j])
    BY <1>5, <1>9, <2>2
  <2> QED
    BY <2>2, <2>3 DEF j
<1>11. CopiedSoFar(r, o, len, ring[n], len)
  <2> DEFINE j == n - 1
             a == j * o
  <2>1. j \in 0..(n - 1) /\ j + 1 = n /\ j \in Nat
    BY <1>1
  <2>2. a < len /\ n * o >= len
    BY <1>1
  <2> HIDE DEF j
  <2>3. n * o = a + o /\ a \in Nat
    BY <2>1, Multiples
  <2>4. CopiedSoFar(r, o, len, ring[j + 1], a + size(j))
    BY <1>5, <1>9, <2>1
  <2>5. Least(o, len - a) = len - a /\ a + (len - a) = len
    <3> DEFINE z == n * o
    <3>1. z >= len /\ z = a + o /\ a \in Nat /\ a < len
      BY <2>2, <2>3
    <3> HIDE DEF z, a
    <3> QED
      BY <3>1 DEF Least
  <2> QED
    BY <2>1, <2>4, <2>5, Zenon
<1>12. SubSeq(M, 1, len) = M
  BY <1>4, SubSeqFull
<1>13. /\ RingOK(ring[n]) /\ RingLen(ring[n]) = RingLen(r) + len
       /\ Content(ring[n]) = Content(r) \o M
  BY <1>11, <1>12, Zenon DEF CopiedSoFar, M
<1> QED
  BY <1>1, <1>10, <1>13 DEF n, ring, M
\* repeat, from its call of reserve on: the match is appended.
LEMMA RepeatedStores ==
    ASSUME NEW r, RingOK(r), NEW o \in Nat, o > 0, o <= RingLen(r),
           NEW len \in Nat, len > 0, Fits(r, len)
    PROVE  /\ RingOK(Repeated(r, o, len)) /\ RingLen(Repeated(r, o, len)) = RingLen(r) + len
           /\ Content(Repeated(r, o, len)) = Content(r) \o Match(Content(r), o, len)
<1> DEFINE s  == Reserved(r, len)
           cs == Chunks(r, o, len)
           t  == AfterChunks(s, cs)[Len(cs)]
<1>1. /\ RingOK(s) /\ s.cap > 0 /\ RingLen(s) = RingLen(r) /\ Free(s) >= len
      /\ Content(s) = Content(r)
  BY ReservedOK, ReservedContent
<1> HIDE DEF s
<1>2. len <= Free(s) /\ o <= RingLen(s)
  BY <1>1, RingNumbers
<1>3. cs = Chunks(s, o, len)
  <2> HIDE DEF RingLen
  <2> QED
    BY <1>1, Zenon DEF Chunks
<1> HIDE DEF cs
<1>4. /\ RingOK(t) /\ RingLen(t) = RingLen(s) + len
      /\ Content(t) = Content(s) \o Match(Content(s), o, len)
  BY <1>1, <1>2, <1>3, ChunksCopyTheMatch, ZenonT(40)
<1>5. Repeated(r, o, len) = t
  BY DEF Repeated, s, cs
<1> HIDE DEF t
<1> QED
  BY <1>1, <1>4, <1>5

-----------------------------------------------------------------------------
(* What sinks take of the two slices.                                      *)

\* The part up to the end is the whole string.
LEMMA EmptyPart ==
    ASSUME NEW x \in Seq(Byte)
    PROVE  /\ SubSeq(x, 1, 0) = <<>> /\ x \o <<>> = x /\ <<>> \o x = x
           /\ SubSeq(x, 1, Len(x)) = x
  BY SubSeqEmpty, ConcatEmptySeq, SubSeqFull

\* A prefix of a prefix is a prefix.
LEMMA PrefixOfPrefix ==
    ASSUME NEW x \in Seq(Byte), NEW n \in Nat, n <= Len(x), NEW k \in Nat, k <= n
    PROVE  SubSeq(SubSeq(x, 1, n), 1, k) = SubSeq(x, 1, k)
<1> DEFINE p == SubSeq(x, 1, n)
           y == SubSeq(p, 1, k)
           z == SubSeq(x, 1, k)
<1>0. Len(x) \in Nat
  OBVIOUS
<1>1. p \in Seq(Byte) /\ Len(p) = n /\ \A i \in 1..n : p[i] = x[i]
  BY Prefix
<1> HIDE DEF p
<1>2. y \in Seq(Byte) /\ Len(y) = k /\ \A i \in 1..k : y[i] = p[i]
  BY <1>1, Prefix
<1>3. z \in Seq(Byte) /\ Len(z) = k /\ \A i \in 1..k : z[i] = x[i]
  <2>1. k <= Len(x)
    BY <1>0
  <2> QED
    BY <2>1, Prefix
<1> HIDE DEF y, z
<1>4. y = z
  <2>1. \A i \in 1..Len(y) : y[i] = z[i]
    BY <1>1, <1>2, <1>3
  <2> QED
    BY <1>2, <1>3, <2>1, SameBytes
<1> QED
  BY <1>4 DEF p, y, z

\* All of one string and some of the next is a prefix of the two.
LEMMA PrefixOfConcat ==
    ASSUME NEW x \in Seq(Byte), NEW y \in Seq(Byte), NEW k \in Nat, NEW l \in Nat,
           k <= Len(x), l <= Len(y), l = 0 \/ k = Len(x)
    PROVE  SubSeq(x, 1, k) \o SubSeq(y, 1, l) = SubSeq(x \o y, 1, k + l)
<1> DEFINE p == SubSeq(x, 1, k)
           q == SubSeq(y, 1, l)
           c == x \o y
           z == SubSeq(c, 1, k + l)
<1>1. p \in Seq(Byte) /\ Len(p) = k /\ \A i \in 1..k : p[i] = x[i]
  BY Prefix
<1>2. q \in Seq(Byte) /\ Len(q) = l /\ \A i \in 1..l : q[i] = y[i]
  BY Prefix
<1>3. /\ c \in Seq(Byte) /\ Len(c) = Len(x) + Len(y)
      /\ \A i \in 1..(Len(x) + Len(y)) : c[i] = IF i <= Len(x) THEN x[i] ELSE y[i - Len(x)]
  BY ConcatProperties
<1>4. Len(x) \in Nat /\ Len(y) \in Nat
  OBVIOUS
<1> HIDE DEF p, q, c
<1>5. z \in Seq(Byte) /\ Len(z) = k + l /\ \A i \in 1..(k + l) : z[i] = c[i]
  <2>1. k + l <= Len(c)
    BY <1>3, <1>4
  <2> QED
    BY <1>3, <2>1, Prefix
<1> DEFINE w == p \o q
<1>6. /\ w \in Seq(Byte) /\ Len(w) = k + l
      /\ \A i \in 1..(k + l) : w[i] = IF i <= k THEN p[i] ELSE q[i - k]
  <2>0. p \in Seq(Byte) /\ q \in Seq(Byte)
    BY <1>1, <1>2
  <2>1. /\ w \in Seq(Byte) /\ Len(w) = Len(p) + Len(q)
        /\ \A i \in 1..(Len(p) + Len(q)) : w[i] = IF i <= Len(p) THEN p[i] ELSE q[i - Len(p)]
    BY <2>0, ConcatProperties, Zenon
  <2> HIDE DEF w
  <2> QED
    BY <1>1, <1>2, <2>1
<1> HIDE DEF z, w
<1>7. ASSUME NEW i \in 1..(k + l)
      PROVE  w[i] = z[i]
  <2>1. CASE i <= k
    <3>1. i \in 1..k /\ i \in 1..(Len(x) + Len(y)) /\ i <= Len(x)
      BY <1>4, <2>1
    <3> QED
      BY <1>1, <1>3, <1>5, <1>6, <2>1, <3>1
  <2>2. CASE ~(i <= k)
    <3>1. l # 0 /\ k = Len(x) /\ i - k \in 1..l /\ i \in 1..(Len(x) + Len(y)) /\ ~(i <= Len(x))
      BY <1>4, <2>2
    <3>2. w[i] = q[i - k] /\ z[i] = c[i] /\ c[i] = y[i - Len(x)]
      BY <1>3, <1>5, <1>6, <2>2, <3>1
    <3>3. q[i - k] = y[i - k]
      BY <1>2, <3>1
    <3> QED
      BY <3>1, <3>2, <3>3
  <2> QED
    BY <2>1, <2>2
<1>8. w = z
  <2>1. \A i \in 1..Len(w) : w[i] = z[i]
    BY <1>6, <1>7
  <2> QED
    BY <1>5, <1>6, <2>1, SameBytes
<1> QED
  BY <1>8 DEF w, z, p, q, c

\* Whatever a sink took, the guard drops exactly that.
LEMMA DropAfterDrainDrops ==
    ASSUME NEW r, RingOK(r), NEW w \in Nat, w <= RingLen(r),
           NEW rest, rest = IF w = 0 THEN r ELSE Dropped(r, w)
    PROVE  /\ RingOK(rest) /\ RingLen(rest) = RingLen(r) - w
           /\ Content(rest) = SubSeq(Content(r), w + 1, RingLen(r))
<1>1. Content(r) \in Seq(Byte) /\ Len(Content(r)) = RingLen(r) /\ RingLen(r) \in Nat
  BY ContentAt
<1>2. CASE w = 0
  <2>1. SubSeq(Content(r), 1, Len(Content(r))) = Content(r)
    BY <1>1, EmptyPart
  <2>2. 0 + 1 = 1 /\ RingLen(r) = RingLen(r) - 0
    BY <1>1
  <2> HIDE DEF Content, RingLen
  <2> QED
    BY <1>1, <1>2, <2>1, <2>2
<1>3. CASE w # 0
  <2>1. r.cap > 0
    <3>1. r.cap \in Nat
      BY DEF RingOK, HasType
    <3>2. RingLen(r) # 0
      BY <1>1, <1>3
    <3> QED
      BY <3>1, <3>2, ContentBytes
  <2> QED
    BY <1>3, <2>1, DroppedOK, DroppedContent
<1> QED
  BY <1>2, <1>3
\* The arithmetic of one drain: what is taken of the second slice, if anything,
\* follows all of the first.
LEMMA SlicesTaken ==
    ASSUME NEW l1 \in Nat, NEW l2 \in Nat, NEW amount \in Nat, amount <= l1 + l2,
           NEW n1, n1 = Least(l1, amount), NEW n2, n2 = Least(l2, amount - n1),
           NEW k1 \in Nat, NEW k2 \in Nat, k1 <= n1, k2 <= n2, k2 = 0 \/ k1 = n1
    PROVE  /\ n1 \in Nat /\ n1 <= l1 /\ n2 \in Nat /\ n2 <= l2 /\ k1 <= l1 /\ k2 <= l2
           /\ k2 = 0 \/ k1 = l1
           /\ k1 + k2 \in Nat /\ k1 + k2 <= amount /\ k1 + k2 <= l1 + l2
  BY DEF Least

-----------------------------------------------------------------------------
(* The inductive invariant.                                                *)

Typed ==
    /\ RingOK(buffer) /\ dict_content \in Seq(Byte) /\ window_size \in Nat
    /\ total_output_counter \in Nat /\ out \in Seq(Byte) /\ drained \in Seq(Byte)

\* The bytes output are those drained and those still held; the counter may
\* fall behind them (a match within the dictionary does not advance it).
Counted ==
    /\ Len(drained) + RingLen(buffer) = Len(out)
    /\ total_output_counter <= Len(out)

IInv ==
    /\ Typed /\ Counted
    /\ NothingLostOrReordered /\ HashCoversWhatLeft /\ WindowIsKept

\* The numbers and strings of a state that satisfies the invariant.
LEMMA StateFacts ==
    ASSUME IInv
    PROVE  /\ Content(buffer) \in Seq(Byte) /\ Len(Content(buffer)) = RingLen(buffer)
           /\ RingLen(buffer) \in Nat /\ Len(out) \in Nat /\ Len(drained) \in Nat
           /\ Len(dict_content) \in Nat /\ window_size \in Nat /\ total_output_counter \in Nat
           /\ Len(drained) + RingLen(buffer) = Len(out)
  BY ContentAt DEF IInv, Typed, Counted

\* A new decode buffer satisfies the invariant.
LEMMA InitIInv == Init => IInv
<1> SUFFICES ASSUME Init
             PROVE  IInv
  OBVIOUS
<1>1. RingOK(buffer) /\ buffer.head = buffer.tail
  BY NewRingOK DEF Init, NewRing, RingOf
<1>2. Content(buffer) = <<>> /\ RingLen(buffer) = 0
  BY <1>1, NoContent
<1> HIDE DEF Content, RingLen
<1>3. /\ dict_content = <<>> /\ out = <<>> /\ drained = <<>> /\ hash = <<>>
      /\ total_output_counter = 0 /\ window_size \in Nat
  BY WindowsAssumption DEF Init
<1>4. Typed /\ Counted
  BY <1>1, <1>2, <1>3 DEF Typed, Counted
<1>5. NothingLostOrReordered
  BY <1>2, <1>3 DEF NothingLostOrReordered
<1>6. HashCoversWhatLeft /\ WindowIsKept
  BY <1>2, <1>3 DEF HashCoversWhatLeft, WindowIsKept, Least
<1> QED
  BY <1>4, <1>5, <1>6 DEF IInv

\* reset starts a frame with an empty ring, an empty history and no dictionary.
LEMMA ResetKeeps ==
    ASSUME IInv, NEW w \in Windows, Reset(w)
    PROVE  IInv'
<1> DEFINE c == Cleared(buffer)
<1>1. RingOK(c) /\ c.head = c.tail /\ Fits(c, w) /\ w \in Nat
  BY ClearedOK, WindowsAssumption DEF IInv, Typed, Reset, Cleared, RingOf
<1>2. Content(c) = <<>> /\ RingLen(c) = 0
  BY <1>1, NoContent
<1>3. buffer' = Reserved(c, w)
  BY DEF Reset
<1> HIDE DEF c
<1>4. RingOK(buffer') /\ Content(buffer') = <<>> /\ RingLen(buffer') = 0
  BY <1>1, <1>2, <1>3, ReservedOK, ReservedContent
<1> HIDE DEF Content, RingLen
<1>5. /\ dict_content' = <<>> /\ out' = <<>> /\ drained' = <<>> /\ hash' = <<>>
      /\ total_output_counter' = 0 /\ window_size' \in Nat
  BY <1>1 DEF Reset
<1>6. Typed' /\ Counted'
  BY <1>4, <1>5 DEF Typed, Counted
<1>7. NothingLostOrReordered'
  BY <1>4, <1>5 DEF NothingLostOrReordered
<1>8. HashCoversWhatLeft' /\ WindowIsKept'
  BY <1>4, <1>5 DEF HashCoversWhatLeft, WindowIsKept, Least
<1> QED
  BY <1>6, <1>7, <1>8 DEF IInv

\* A step that appends "data" to the decoded bytes, within a frame.
LEMMA AppendingKeeps ==
    ASSUME IInv, NEW data \in Seq(Byte),
           RingOK(buffer'), RingLen(buffer') = RingLen(buffer) + Len(data),
           out' = out \o data, total_output_counter' \in Nat,
           total_output_counter' <= total_output_counter + Len(data),
           conforming' => conforming /\ Content(buffer') = Content(buffer) \o data,
           UNCHANGED <<frame, hash, drained>>
    PROVE  IInv'
<1>1. /\ Content(buffer) \in Seq(Byte) /\ Len(Content(buffer)) = RingLen(buffer)
      /\ RingLen(buffer) \in Nat /\ Len(out) \in Nat /\ Len(drained) \in Nat
      /\ window_size \in Nat /\ total_output_counter \in Nat
      /\ Len(drained) + RingLen(buffer) = Len(out)
  BY StateFacts
<1>2. /\ dict_content' = dict_content /\ window_size' = window_size /\ finished' = finished
      /\ hash' = hash /\ drained' = drained
  BY DEF frame
<1>3. out \in Seq(Byte) /\ drained \in Seq(Byte) /\ dict_content \in Seq(Byte)
  BY DEF IInv, Typed
<1>4. out' \in Seq(Byte) /\ Len(out') = Len(out) + Len(data) /\ Len(data) \in Nat
  BY <1>3, ConcatProperties
<1> HIDE DEF Content, RingLen
<1>5. Typed'
  BY <1>1, <1>2, <1>3, <1>4 DEF Typed
<1>6. Counted'
  BY <1>1, <1>2, <1>4 DEF Counted, IInv
<1>7. NothingLostOrReordered'
  <2> SUFFICES ASSUME conforming' PROVE drained' \o Content(buffer') = out'
    BY DEF NothingLostOrReordered
  <2>1. drained \o Content(buffer) = out /\ Content(buffer') = Content(buffer) \o data
    BY DEF IInv, NothingLostOrReordered
  <2>2. (drained \o Content(buffer)) \o data = drained \o (Content(buffer) \o data)
    BY <1>1, <1>3, BytesAssociate, ZenonT(40)
  <2> QED
    BY <1>2, <2>1, <2>2
<1>8. HashCoversWhatLeft'
  BY <1>2 DEF IInv, HashCoversWhatLeft
<1>9. WindowIsKept'
  <2>1. finished \/ RingLen(buffer) >= Least(window_size, Len(out))
    BY DEF IInv, WindowIsKept
  <2> DEFINE l == RingLen(buffer)
             d == Len(data)
             o == Len(out)
  <2>2. l \in Nat /\ d \in Nat /\ o \in Nat /\ window_size \in Nat
    BY <1>1, <1>4
  <2> HIDE DEF l, d, o
  <2>3. l >= Least(window_size, o) => l + d >= Least(window_size, o + d)
    BY <2>2 DEF Least
  <2> QED
    BY <1>2, <1>4, <2>1, <2>3 DEF WindowIsKept, l, d, o
<1> QED
  BY <1>5, <1>6, <1>7, <1>8, <1>9 DEF IInv

\* push appends literals to the ring and to the history alike.
LEMMA PushKeeps ==
    ASSUME IInv, NEW data \in Payloads, Push(data)
    PROVE  IInv'
<1>1. data \in Seq(Byte) /\ Len(data) \in Nat
  BY PayloadsAssumption
<1>2. RingOK(buffer) /\ Fits(buffer, Len(data)) /\ buffer' = Extended(buffer, data)
  BY DEF IInv, Typed, Push
<1>3. /\ RingOK(buffer') /\ Content(buffer') = Content(buffer) \o data
      /\ RingLen(buffer') = RingLen(buffer) + Len(data)
  BY <1>1, <1>2, ExtendedStores
<1> HIDE DEF Content, RingLen
<1>4. /\ out' = out \o data /\ conforming' = conforming
      /\ total_output_counter' = total_output_counter + Len(data)
      /\ UNCHANGED <<frame, hash, drained>>
  BY DEF Push
<1>5. total_output_counter' \in Nat /\ total_output_counter' <= total_output_counter + Len(data)
  BY <1>1, <1>4 DEF IInv, Typed
<1> QED
  BY <1>1, <1>3, <1>4, <1>5, AppendingKeeps
-----------------------------------------------------------------------------
(* Matches.                                                                *)

\* Before the frame ends, a conforming match that starts before the buffer
\* finds everything output so far still in it.
LEMMA AllIsThere ==
    ASSUME IInv, ~finished, NEW offset \in Nat, Conforming(offset), offset > RingLen(buffer)
    PROVE  /\ Len(out) <= window_size /\ RingLen(buffer) = Len(out) /\ drained = <<>>
           /\ offset <= Len(dict_content) + Len(out)
<1>1. /\ RingLen(buffer) \in Nat /\ Len(out) \in Nat /\ Len(drained) \in Nat
      /\ window_size \in Nat /\ Len(drained) + RingLen(buffer) = Len(out)
  BY StateFacts
<1>2. RingLen(buffer) >= Least(window_size, Len(out))
  BY DEF IInv, WindowIsKept
<1> HIDE DEF RingLen
<1>3. Len(out) <= window_size
  BY <1>1, <1>2 DEF Conforming, Least
<1>4. RingLen(buffer) = Len(out)
  BY <1>1, <1>2, <1>3 DEF Least
<1>5. Len(drained) = 0
  BY <1>1, <1>4
<1>6. drained = <<>>
  BY <1>5, EmptySeq DEF IInv, Typed
<1>7. offset <= Len(dict_content) + Len(out)
  BY <1>3 DEF Conforming
<1> QED
  BY <1>3, <1>4, <1>6, <1>7

\* What is left to show of each of the three ways to make a match.
LEMMA MatchKeeps ==
    ASSUME IInv, NEW offset \in Nat, offset > 0, offset <= Len(dict_content) + Len(out),
           NEW len \in Nat, len > 0, Matched(offset, len),
           RingOK(buffer'), RingLen(buffer') = RingLen(buffer) + len,
           total_output_counter' \in Nat,
           total_output_counter' <= total_output_counter + len,
           conforming /\ Conforming(offset) =>
              Content(buffer') = Content(buffer) \o Match(dict_content \o out, offset, len)
    PROVE  IInv'
<1> DEFINE h    == dict_content \o out
           data == Match(h, offset, len)
<1>1. h \in Seq(Byte) /\ Len(h) = Len(dict_content) + Len(out)
  BY ConcatProperties DEF IInv, Typed
<1> HIDE DEF h
<1>2. data \in Seq(Byte) /\ Len(data) = len
  BY <1>1, MatchBytes
<1>3. /\ out' = out \o data /\ UNCHANGED <<frame, hash, drained>>
      /\ conforming' = (conforming /\ Conforming(offset))
  BY DEF Matched, h
<1>4. conforming' => conforming /\ Content(buffer') = Content(buffer) \o data
  BY <1>3, Zenon DEF h
<1> HIDE DEF data, Content, RingLen
<1> QED
  BY <1>2, <1>3, <1>4, AppendingKeeps

\* A match within the ring: what the ring no longer holds does not matter to it.
LEMMA RepeatInBufferKeeps ==
    ASSUME IInv, NEW offset \in Nat, offset > 0, NEW len \in Nat, len > 0,
           RepeatInBuffer(offset, len)
    PROVE  IInv'
<1> DEFINE r == Content(buffer)
<1>1. /\ r \in Seq(Byte) /\ Len(r) = RingLen(buffer) /\ RingLen(buffer) \in Nat
      /\ Len(out) \in Nat /\ Len(drained) \in Nat /\ Len(dict_content) \in Nat
      /\ total_output_counter \in Nat /\ Len(drained) + RingLen(buffer) = Len(out)
  BY StateFacts
<1>2. /\ Fits(buffer, len) /\ offset <= RingLen(buffer)
      /\ buffer' = Repeated(buffer, offset, len)
      /\ total_output_counter' = total_output_counter + len /\ Matched(offset, len)
  BY DEF RepeatInBuffer, Accepts
<1>3. RingOK(buffer) /\ dict_content \in Seq(Byte) /\ drained \in Seq(Byte) /\ out \in Seq(Byte)
  BY DEF IInv, Typed
<1>4. /\ RingOK(buffer') /\ RingLen(buffer') = RingLen(buffer) + len
      /\ Content(buffer') = r \o Match(r, offset, len)
  BY <1>2, <1>3, RepeatedStores
<1> HIDE DEF r
<1>5. ASSUME conforming
      PROVE  Match(dict_content \o out, offset, len) = Match(r, offset, len)
  <2> DEFINE p == dict_content \o drained
  <2>1. drained \o r = out
    BY <1>5 DEF IInv, NothingLostOrReordered, r
  <2>2. p \in Seq(Byte)
    BY <1>3, ConcatProperties
  <2>3. p \o r = dict_content \o (drained \o r)
    BY <1>1, <1>3, BytesAssociate, ZenonT(40)
  <2> HIDE DEF p, RingLen
  <2>4. Match(p \o r, offset, len) = Match(r, offset, len)
    BY <1>1, <1>2, <2>2, MatchOfSuffix
  <2> QED
    BY <2>1, <2>3, <2>4
<1> HIDE DEF Content, RingLen
<1>6. offset <= Len(dict_content) + Len(out)
  BY <1>1, <1>2
<1>7. total_output_counter' \in Nat /\ total_output_counter' <= total_output_counter + len
  BY <1>1, <1>2
<1>8. conforming /\ Conforming(offset) =>
         Content(buffer') = Content(buffer) \o Match(dict_content \o out, offset, len)
  BY <1>4, <1>5 DEF r
<1> QED
  BY <1>2, <1>4, <1>6, <1>7, <1>8, MatchKeeps

\* The end of the dictionary.
LEMMA DictTailBytes ==
    ASSUME dict_content \in Seq(Byte), NEW n \in Nat, n <= Len(dict_content)
    PROVE  /\ DictTail(n) \in Seq(Byte) /\ Len(DictTail(n)) = n
           /\ \A i \in 1..n : DictTail(n)[i] = dict_content[Len(dict_content) - n + i]
           /\ \E d \in Seq(Byte) : dict_content = d \o DictTail(n)
<1> DEFINE l == Len(dict_content)
           a == l - n
           t == SubSeq(dict_content, a + 1, a + n)
           d == SubSeq(dict_content, 1, a)
<1>1. l \in Nat /\ a \in Nat /\ a + n = l /\ a + n <= l
  OBVIOUS
<1> HIDE DEF a
<1>2. t \in Seq(Byte) /\ Len(t) = n /\ \A i \in 1..n : t[i] = dict_content[a + i]
  BY <1>1, Part, SMTT(40)
<1>3. d \in Seq(Byte)
  BY <1>1, Prefix
<1>4. d \o t = SubSeq(dict_content, 1, a + n)
  BY <1>1, PartsJoin
<1>5. SubSeq(dict_content, 1, l) = dict_content
  BY SubSeqFull
<1>6. DictTail(n) = t
  BY <1>1 DEF DictTail, a
<1>7. dict_content = d \o DictTail(n)
  BY <1>1, <1>4, <1>5, <1>6
<1> HIDE DEF t, d
<1> QED
  BY <1>2, <1>3, <1>6, <1>7 DEF a

\* Where the byte m of the common period lies in the two histories.
LEMMA AcrossPlaces ==
    ASSUME NEW n \in Nat, NEW l \in Nat, NEW o \in Nat, n > 0, l + n = o,
           NEW m \in Nat, m < o
    PROVE  /\ 1 + m \in 1..(l + n)
           /\ m < l => /\ n + m < o /\ 1 + (n + m) \in 1..o /\ ~(1 + (n + m) <= n)
                       /\ 1 + (n + m) - n = 1 + m /\ 1 + m <= l
           /\ ~(m < l) => /\ ~(n + m < o) /\ 1 + (n + m - o) = 1 + m - l
                          /\ 1 + m - l \in 1..o /\ 1 + m - l <= n /\ ~(1 + m <= l)
  OBVIOUS

\* The match on the history, seen from the last n bytes of the dictionary on
\* when the buffer holds all output: it takes them, and goes on as the copy
\* that repeat makes from the start of the buffer behind them.
GoesAcross(d, t, x, more) ==
    Match((d \o t) \o x, Len(t) + Len(x), Len(t) + more)
      = t \o Match(x \o t, Len(x) + Len(t), more)

\* A match that starts in the dictionary is the end of the dictionary and then a
\* match, over the longer ring, from its very start.
LEMMA MatchAcross ==
    ASSUME NEW d \in Seq(Byte), NEW t \in Seq(Byte), NEW x \in Seq(Byte),
           Len(t) > 0, NEW more \in Nat
    PROVE  GoesAcross(d, t, x, more)
<1> DEFINE n == Len(t)
           l == Len(x)
           o == n + l
           u == t \o x
           v == x \o t
           a == Match(u, o, n + more)
           b == Match(v, o, more)
<1>1. n \in Nat /\ l \in Nat /\ n > 0 /\ o \in Nat /\ o > 0 /\ n <= o /\ l + n = o
  OBVIOUS
<1>2. /\ u \in Seq(Byte) /\ Len(u) = o
      /\ \A i \in 1..o : u[i] = IF i <= n THEN t[i] ELSE x[i - n]
  BY ConcatProperties
<1>3. /\ v \in Seq(Byte) /\ Len(v) = l + n
      /\ \A i \in 1..(l + n) : v[i] = IF i <= l THEN x[i] ELSE t[i - l]
  BY ConcatProperties
<1> HIDE DEF u, v, n, l
<1>4. Match((d \o t) \o x, o, n + more) = a
  <2>1. (d \o t) \o x = d \o u
    BY BytesAssociate, Zenon DEF u
  <2>2. Match(d \o u, o, n + more) = Match(u, o, n + more)
    <3> HIDE DEF o
    <3>1. n + more \in Nat /\ o <= Len(u)
      BY <1>1, <1>2
    <3> QED
      BY <1>1, <1>2, <3>1, MatchOfSuffix
  <2> QED
    BY <2>1, <2>2
<1>5. o <= Len(u) /\ o <= Len(v) /\ n + more \in Nat /\ Len(u) - o = 0 /\ Len(v) - o = 0
  BY <1>1, <1>2, <1>3
<1> HIDE DEF o
<1>6. /\ a \in Seq(Byte) /\ Len(a) = n + more
      /\ \A i \in 1..(n + more) : /\ a[i] = u[1 + ((i - 1) % o)]
                                /\ (i - 1) % o \in Nat /\ (i - 1) % o < o
  <2>1. u \in Seq(Byte) /\ o \in Nat /\ o > 0 /\ o <= Len(u) /\ n + more \in Nat
    BY <1>1, <1>2, <1>5
  <2>2. /\ a \in Seq(Byte) /\ Len(a) = n + more
        /\ \A i \in 1..(n + more) : /\ a[i] = u[Len(u) - o + 1 + ((i - 1) % o)]
                                  /\ (i - 1) % o \in Nat /\ (i - 1) % o < o
    BY <2>1, MatchBytes, ZenonT(90)
  <2> HIDE DEF a
  <2>3. Len(u) - o + 1 = 1
    BY <1>1, <1>5
  <2> QED
    BY <2>2, <2>3
<1>7. /\ b \in Seq(Byte) /\ Len(b) = more
      /\ \A i \in 1..more : /\ b[i] = v[1 + ((i - 1) % o)]
                          /\ (i - 1) % o \in Nat /\ (i - 1) % o < o
  <2>1. v \in Seq(Byte) /\ o \in Nat /\ o > 0 /\ o <= Len(v)
    BY <1>1, <1>3, <1>5
  <2>2. /\ b \in Seq(Byte) /\ Len(b) = more
        /\ \A i \in 1..more : /\ b[i] = v[Len(v) - o + 1 + ((i - 1) % o)]
                            /\ (i - 1) % o \in Nat /\ (i - 1) % o < o
    BY <2>1, MatchBytes, ZenonT(40)
  <2> HIDE DEF b
  <2>3. Len(v) - o + 1 = 1
    BY <1>1, <1>5
  <2> QED
    BY <2>2, <2>3
<1> DEFINE c == t \o b
<1> HIDE DEF a, b
<1>8. /\ c \in Seq(Byte) /\ Len(c) = n + more
      /\ \A i \in 1..n : c[i] = t[i]
      /\ \A j \in 1..more : c[n + j] = b[j]
  <2>1. /\ c \in Seq(Byte) /\ Len(c) = Len(t) + Len(b)
        /\ \A i \in 1..(Len(t) + Len(b)) : c[i] = IF i <= Len(t) THEN t[i] ELSE b[i - Len(t)]
    BY <1>7, ConcatProperties, Zenon
  <2> HIDE DEF c
  <2>2. Len(t) = n
    BY DEF n
  <2>3. ASSUME NEW i \in 1..n PROVE c[i] = t[i]
    BY <1>1, <1>7, <2>1, <2>2
  <2>4. ASSUME NEW j \in 1..more PROVE c[n + j] = b[j]
    <3>1. n + j \in 1..(n + more) /\ ~(n + j <= n) /\ n + j - n = j
      BY <1>1
    <3>2. \A i \in 1..(n + more) : c[i] = IF i <= n THEN t[i] ELSE b[i - n]
      BY <1>7, <2>1, <2>2
    <3> DEFINE q == n + j
    <3>3. q \in 1..(n + more) /\ ~(q <= n) /\ q - n = j
      BY <1>1, <3>1
    <3> HIDE DEF q
    <3>4. c[q] = b[q - n]
      BY <3>2, <3>3
    <3> QED
      BY <3>3, <3>4 DEF q
  <2> QED
    BY <1>7, <2>1, <2>2, <2>3, <2>4
<1> HIDE DEF c
<1>9. ASSUME NEW i \in 1..n PROVE a[i] = t[i]
  <2>1. i - 1 \in Nat /\ i - 1 < o /\ i \in 1..(n + more) /\ i \in 1..o /\ i <= n
    BY <1>1
  <2>2. (i - 1) % o = i - 1
    BY <1>1, <2>1, ModSmall
  <2>3. a[i] = u[1 + (i - 1)]
    BY <1>6, <2>1, <2>2
  <2>4. 1 + (i - 1) = i
    BY <2>1
  <2> QED
    BY <1>2, <2>1, <2>3, <2>4
<1>10. ASSUME NEW j \in 1..more PROVE a[n + j] = b[j]
  <2> DEFINE x1 == j - 1
             m  == x1 % o
  <2>1. /\ x1 \in Nat /\ n + j - 1 = n + x1 /\ n + j \in 1..(n + more)
    BY <1>1
  <2>2. b[j] = v[1 + m] /\ m \in Nat /\ m < o
    BY <1>7
  <2> HIDE DEF x1
  <2>3. (n + x1) % o = IF n + m < o THEN n + m ELSE n + m - o
    <3>1. o \in Nat /\ o > 0 /\ n \in Nat /\ n <= o /\ x1 \in Nat
      BY <1>1, <2>1
    <3> QED
      BY <3>1, ModShift
  <2> HIDE DEF m
  <2>4. a[n + j] = u[1 + ((n + x1) % o)]
    <3> DEFINE q == n + j
    <3>1. q \in 1..(n + more) /\ q - 1 = n + x1
      BY <1>1, <2>1
    <3> HIDE DEF q
    <3>2. a[q] = u[1 + ((q - 1) % o)]
      BY <1>6, <3>1
    <3> QED
      BY <3>1, <3>2 DEF q
  <2>5. /\ 1 + m \in 1..(l + n)
        /\ m < l => /\ n + m < o /\ 1 + (n + m) \in 1..o /\ ~(1 + (n + m) <= n)
                    /\ 1 + (n + m) - n = 1 + m /\ 1 + m <= l
        /\ ~(m < l) => /\ ~(n + m < o) /\ 1 + (n + m - o) = 1 + m - l
                       /\ 1 + m - l \in 1..o /\ 1 + m - l <= n /\ ~(1 + m <= l)
    BY <1>1, <2>2, AcrossPlaces
  <2>6. v[1 + m] = IF 1 + m <= l THEN x[1 + m] ELSE t[1 + m - l]
    <3> DEFINE q == 1 + m
    <3>1. q \in 1..(l + n)
      BY <2>5
    <3> HIDE DEF q
    <3>2. v[q] = IF q <= l THEN x[q] ELSE t[q - l]
      BY <1>3, <3>1
    <3> QED
      BY <1>1, <2>2, <3>2 DEF q
  <2>7. CASE m < l
    <3>1. a[n + j] = u[1 + (n + m)]
      BY <2>3, <2>4, <2>5, <2>7, Zenon
    <3> DEFINE q == 1 + (n + m)
    <3>2. q \in 1..o /\ ~(q <= n) /\ q - n = 1 + m
      BY <1>1, <2>2, <2>5, <2>7
    <3> HIDE DEF q
    <3>3. u[q] = x[q - n]
      BY <1>2, <3>2
    <3>4. u[q] = x[1 + m] /\ v[1 + m] = x[1 + m]
      BY <1>1, <2>2, <2>5, <2>6, <2>7, <3>2, <3>3
    <3> QED
      BY <2>2, <3>1, <3>4, Zenon DEF q
  <2>8. CASE ~(m < l)
    <3>1. a[n + j] = u[1 + m - l]
      BY <2>3, <2>4, <2>5, <2>8, Zenon
    <3>2. u[1 + m - l] = IF 1 + m - l <= n THEN t[1 + m - l] ELSE x[1 + m - l - n]
      BY <1>2, <2>5, <2>8, Zenon
    <3> QED
      BY <2>2, <2>5, <2>6, <2>8, <3>1, <3>2, Zenon
  <2> QED
    BY <2>7, <2>8
<1>11. a = c
  <2>1. ASSUME NEW i \in 1..(n + more) PROVE a[i] = c[i]
    <3>1. CASE i <= n
      <4>1. i \in 1..n
        BY <1>1, <3>1
      <4> QED
        BY <1>8, <1>9, <4>1
    <3>2. CASE ~(i <= n)
      <4> DEFINE j == i - n
      <4>1. j \in 1..more /\ n + j = i
        BY <1>1, <3>2
      <4> HIDE DEF j
      <4> QED
        BY <1>8, <1>10, <4>1
    <3> QED
      BY <3>1, <3>2
  <2>2. \A i \in 1..Len(a) : a[i] = c[i]
    BY <1>6, <2>1
  <2> QED
    BY <1>6, <1>8, <2>2, SameBytes
<1>12. Len(x) + Len(t) = o /\ Len(t) + Len(x) = o
  BY <1>1 DEF o, n, l
<1> QED
  BY <1>4, <1>11, <1>12 DEF GoesAcross, c, b, v, n
\* Extending by less needs no more room.
LEMMA FitsLess ==
    ASSUME NEW r, RingOK(r), NEW n \in Nat, NEW len \in Nat, n <= len, Fits(r, len)
    PROVE  Fits(r, n)
<1>1. Free(r) \in Nat /\ r.cap \in Nat
  BY FreeIsTheRest DEF RingOK, HasType
<1>2. CASE Free(r) >= len
  BY <1>1, <1>2 DEF Fits
<1>3. CASE \E p \in Pow2s : p >= r.cap + len - Free(r)
  <2>1. PICK p \in Pow2s : p >= r.cap + len - Free(r)
    BY <1>3
  <2>2. p \in Nat
    BY Pow2sAssumption
  <2>3. p >= r.cap + n - Free(r)
    BY <1>1, <2>1, <2>2
  <2> QED
    BY <2>3 DEF Fits
<1> QED
  BY <1>2, <1>3 DEF Fits

\* repeat_from_dict, the match that goes on in the ring.
LEMMA RepeatAcrossDictKeeps ==
    ASSUME IInv, NEW offset \in Nat, offset > 0, NEW len \in Nat, len > 0,
           RepeatAcrossDict(offset, len)
    PROVE  IInv'
<1> DEFINE n    == BytesFromDict(offset)
           l    == RingLen(buffer)
           t    == DictTail(n)
           r    == Extended(buffer, t)
           more == len - n
<1>1. /\ Content(buffer) \in Seq(Byte) /\ Len(Content(buffer)) = l /\ l \in Nat
      /\ Len(out) \in Nat /\ Len(drained) \in Nat /\ Len(dict_content) \in Nat
      /\ total_output_counter \in Nat /\ Len(drained) + l = Len(out)
  BY StateFacts
<1>2. RingOK(buffer) /\ dict_content \in Seq(Byte) /\ drained \in Seq(Byte) /\ out \in Seq(Byte)
  BY DEF IInv, Typed
<1>3. /\ ~finished /\ Fits(buffer, len) /\ offset > l /\ n <= Len(dict_content) /\ n < len
      /\ Fits(r, more) /\ buffer' = Repeated(r, RingLen(r), more)
      /\ total_output_counter' = total_output_counter + n + more /\ Matched(offset, len)
  BY Zenon DEF RepeatAcrossDict, Accepts, DictReachable
<1>4. n = offset - l
  BY DEF BytesFromDict
<1> HIDE DEF n, l, Content, RingLen
<1>5. /\ n \in Nat /\ n > 0 /\ more \in Nat /\ more > 0 /\ n + more = len /\ offset = n + l
      /\ n <= len
  BY <1>1, <1>3, <1>4
<1>6. t \in Seq(Byte) /\ Len(t) = n /\ \E d \in Seq(Byte) : dict_content = d \o t
  BY <1>2, <1>3, <1>5, DictTailBytes
<1> HIDE DEF t
<1>7. Fits(buffer, Len(t))
  BY <1>2, <1>3, <1>5, <1>6, FitsLess
<1>8. /\ RingOK(r) /\ Content(r) = Content(buffer) \o t /\ RingLen(r) = l + n
  BY <1>2, <1>6, <1>7, ExtendedStores DEF l
<1> HIDE DEF r, more
<1>9. RingLen(r) \in Nat /\ RingLen(r) > 0 /\ RingLen(r) <= RingLen(r)
  BY <1>1, <1>5, <1>8
<1>10. /\ RingOK(buffer') /\ RingLen(buffer') = RingLen(r) + more
       /\ Content(buffer') = Content(r) \o Match(Content(r), RingLen(r), more)
  BY <1>3, <1>5, <1>8, <1>9, RepeatedStores
<1>11. RingLen(buffer') = RingLen(buffer) + len
  <2>1. RingLen(buffer') = l + n + more
    BY <1>8, <1>10
  <2>2. l + n + more = l + len
    BY <1>1, <1>5
  <2> QED
    BY <2>1, <2>2 DEF l
<1>12. ASSUME conforming, Conforming(offset)
       PROVE  Content(buffer') = Content(buffer) \o Match(dict_content \o out, offset, len)
  <2> DEFINE x == Content(buffer)
  <2>1. RingLen(buffer) = Len(out) /\ drained = <<>>
    BY <1>3, <1>12, AllIsThere DEF l
  <2>2. x = out
    <3>1. <<>> \o x = x
      BY <1>1, EmptyPart
    <3> QED
      BY <1>12, <2>1, <3>1 DEF IInv, NothingLostOrReordered
  <2>3. PICK d \in Seq(Byte) : dict_content = d \o t
    BY <1>6
  <2> DEFINE b == Match(x \o t, Len(x) + Len(t), more)
  <2> HIDE DEF x
  <2>4. x \in Seq(Byte) /\ Len(x) = l
    BY <1>1 DEF x
  <2>5. Match((d \o t) \o x, Len(t) + Len(x), Len(t) + more) = t \o b
    <3>1. Len(t) > 0 /\ t \in Seq(Byte) /\ more \in Nat
      BY <1>5, <1>6
    <3>2. GoesAcross(d, t, x, more)
      BY <2>4, <3>1, MatchAcross
    <3> QED
      BY <3>2, Zenon DEF GoesAcross
  <2>6. Match(dict_content \o out, offset, len) = t \o b
    BY <1>5, <1>6, <2>2, <2>3, <2>4, <2>5
  <2>7. b \in Seq(Byte)
    <3>1. x \o t \in Seq(Byte) /\ Len(x \o t) = Len(x) + Len(t)
      BY <1>6, <2>4, ConcatProperties
    <3> DEFINE h == x \o t
               o == Len(x) + Len(t)
    <3>2. h \in Seq(Byte) /\ o \in Nat /\ o > 0 /\ o <= Len(h)
      BY <1>1, <1>5, <1>6, <2>4, <3>1
    <3> HIDE DEF h, o
    <3>3. Match(h, o, more) \in Seq(Byte)
      BY <1>5, <3>2, MatchBytes
    <3> QED
      BY <3>3 DEF h, o
  <2>8. Content(r) = x \o t /\ RingLen(r) = Len(x) + Len(t)
    BY <1>6, <1>8, <2>4 DEF x
  <2>9. Content(buffer') = (x \o t) \o b
    BY <1>10, <2>8
  <2> HIDE DEF b
  <2>10. (x \o t) \o b = x \o (t \o b)
    BY <1>6, <2>4, <2>7, BytesAssociate, Zenon
  <2> QED
    BY <2>6, <2>9, <2>10 DEF x
<1>13. offset <= Len(dict_content) + Len(out)
  BY <1>1, <1>3, <1>5
<1>14. total_output_counter' \in Nat /\ total_output_counter' <= total_output_counter + len
  BY <1>1, <1>3, <1>5
<1> QED
  BY <1>3, <1>10, <1>11, <1>12, <1>13, <1>14, MatchKeeps

\* repeat_from_dict, the match that lies in the dictionary.
LEMMA RepeatInDictKeeps ==
    ASSUME IInv, NEW offset \in Nat, offset > 0, NEW len \in Nat, len > 0,
           RepeatInDict(offset, len)
    PROVE  IInv'
<1> DEFINE n    == BytesFromDict(offset)
           l    == RingLen(buffer)
           t    == DictTail(n)
           part == SubSeq(t, 1, len)
<1>1. /\ Content(buffer) \in Seq(Byte) /\ Len(Content(buffer)) = l /\ l \in Nat
      /\ Len(out) \in Nat /\ Len(drained) \in Nat /\ Len(dict_content) \in Nat
      /\ total_output_counter \in Nat /\ Len(drained) + l = Len(out)
  BY StateFacts
<1>2. RingOK(buffer) /\ dict_content \in Seq(Byte) /\ drained \in Seq(Byte) /\ out \in Seq(Byte)
  BY DEF IInv, Typed
<1>3. /\ ~finished /\ Fits(buffer, len) /\ offset > l /\ n <= Len(dict_content) /\ n >= len
      /\ buffer' = Extended(buffer, part)
      /\ total_output_counter' = total_output_counter /\ Matched(offset, len)
  BY Zenon DEF RepeatInDict, Accepts, DictReachable
<1>4. n = offset - l
  BY DEF BytesFromDict
<1> HIDE DEF n, l, Content, RingLen
<1>5. n \in Nat /\ n > 0 /\ offset = n + l /\ len <= n
  BY <1>1, <1>3, <1>4
<1>6. /\ t \in Seq(Byte) /\ Len(t) = n /\ \E d \in Seq(Byte) : dict_content = d \o t
  BY <1>2, <1>3, <1>5, DictTailBytes
<1> HIDE DEF t
<1>7. part \in Seq(Byte) /\ Len(part) = len /\ \A i \in 1..len : part[i] = t[i]
  BY <1>5, <1>6, Prefix
<1> HIDE DEF part
<1>8. /\ RingOK(buffer') /\ RingLen(buffer') = RingLen(buffer) + len
      /\ Content(buffer') = Content(buffer) \o part
  BY <1>2, <1>3, <1>7, ExtendedStores
<1>9. ASSUME conforming, Conforming(offset)
      PROVE  Content(buffer') = Content(buffer) \o Match(dict_content \o out, offset, len)
  <2>1. RingLen(buffer) = Len(out)
    BY <1>3, <1>9, AllIsThere DEF l
  <2>2. PICK d \in Seq(Byte) : dict_content = d \o t
    BY <1>6
  <2> DEFINE u == t \o out
             m == Match(u, offset, len)
  <2>3. /\ u \in Seq(Byte) /\ Len(u) = Len(t) + Len(out)
        /\ \A i \in 1..(Len(t) + Len(out)) : u[i] = IF i <= Len(t) THEN t[i] ELSE out[i - Len(t)]
    BY <1>2, <1>6, ConcatProperties
  <2>4. dict_content \o out = d \o u
    BY <1>2, <1>6, <2>2, BytesAssociate, ZenonT(40)
  <2> HIDE DEF u
  <2>5. Len(u) = offset /\ offset <= Len(u)
    BY <1>1, <1>5, <1>6, <2>1, <2>3 DEF l
  <2>6. Match(d \o u, offset, len) = m
    BY <2>3, <2>5, MatchOfSuffix
  <2>7. /\ m \in Seq(Byte) /\ Len(m) = len
        /\ \A i \in 1..len : m[i] = u[Len(u) - offset + 1 + ((i - 1) % offset)]
    <3>1. u \in Seq(Byte) /\ offset <= Len(u)
      BY <2>3, <2>5
    <3> QED
      BY <3>1, MatchBytes, ZenonT(40)
  <2> HIDE DEF m
  <2>8. ASSUME NEW i \in 1..len PROVE m[i] = part[i]
    <3>1. i - 1 \in Nat /\ i - 1 < offset
      BY <1>1, <1>5
    <3>2. (i - 1) % offset = i - 1
      BY <3>1, ModSmall
    <3>3. Len(u) - offset + 1 + (i - 1) = i /\ i \in 1..(Len(t) + Len(out)) /\ i <= Len(t)
      BY <1>1, <1>5, <1>6, <2>5
    <3>4. m[i] = u[i]
      BY <2>7, <3>2, <3>3
    <3>5. u[i] = t[i]
      BY <2>3, <3>3
    <3> QED
      BY <1>7, <3>4, <3>5
  <2>9. m = part
    <3>1. Len(m) = Len(part) /\ \A i \in 1..Len(m) : m[i] = part[i]
      BY <1>7, <2>7, <2>8
    <3> QED
      BY <1>7, <2>7, <3>1, SameBytes
  <2> QED
    BY <1>8, <2>4, <2>6, <2>9
<1>10. offset <= Len(dict_content) + Len(out)
  BY <1>1, <1>3, <1>5
<1>11. total_output_counter' \in Nat /\ total_output_counter' <= total_output_counter + len
  BY <1>1, <1>3
<1> QED
  BY <1>3, <1>8, <1>9, <1>10, <1>11, MatchKeeps
-----------------------------------------------------------------------------
(* Draining.                                                               *)

\* A step in which the callers' sink and the hash took the first w bytes.
LEMMA TakingKeeps ==
    ASSUME IInv, NEW w \in Nat, w <= RingLen(buffer),
           finished \/ w <= RingLen(buffer) - Least(window_size, RingLen(buffer)),
           RingOK(buffer'), RingLen(buffer') = RingLen(buffer) - w,
           Content(buffer') = SubSeq(Content(buffer), w + 1, RingLen(buffer)),
           hash' = hash \o SubSeq(Content(buffer), 1, w),
           drained' = drained \o SubSeq(Content(buffer), 1, w),
           UNCHANGED <<frame, total_output_counter, conforming, out>>
    PROVE  IInv'
<1> DEFINE c    == Content(buffer)
           l    == RingLen(buffer)
           gone == SubSeq(c, 1, w)
           left == SubSeq(c, w + 1, l)
<1>1. /\ c \in Seq(Byte) /\ Len(c) = l /\ l \in Nat
      /\ Len(out) \in Nat /\ Len(drained) \in Nat /\ window_size \in Nat
      /\ Len(drained) + l = Len(out)
  BY StateFacts
<1>2. /\ dict_content' = dict_content /\ window_size' = window_size /\ finished' = finished
      /\ total_output_counter' = total_output_counter /\ conforming' = conforming /\ out' = out
  BY DEF frame
<1>3. out \in Seq(Byte) /\ drained \in Seq(Byte) /\ dict_content \in Seq(Byte)
  BY DEF IInv, Typed
<1> HIDE DEF c
<1>4. gone \in Seq(Byte) /\ Len(gone) = w
  BY <1>1, Prefix
<1>5. left \in Seq(Byte) /\ gone \o left = c
  <2> DEFINE n == l - w
  <2>1. n \in Nat /\ w + n = l /\ w + n <= Len(c)
    BY <1>1
  <2> HIDE DEF n, l
  <2>2. SubSeq(c, w + 1, w + n) \in Seq(Byte)
    BY <1>1, <2>1, Part
  <2>3. SubSeq(c, 1, w) \o SubSeq(c, w + 1, w + n) = SubSeq(c, 1, w + n)
    BY <1>1, <2>1, PartsJoin
  <2>4. SubSeq(c, 1, Len(c)) = c
    BY <1>1, EmptyPart
  <2> QED
    BY <1>1, <2>1, <2>2, <2>3, <2>4
<1>6. /\ drained' = drained \o gone /\ hash' = hash \o gone
      /\ Content(buffer') = left /\ RingLen(buffer') = l - w
  BY DEF c
<1> HIDE DEF gone, left, Content, RingLen
<1>7. drained' \in Seq(Byte) /\ Len(drained') = Len(drained) + w
  BY <1>3, <1>4, <1>6, ConcatProperties
<1>8. Typed'
  BY <1>2, <1>3, <1>7 DEF IInv, Typed
<1>9. Counted'
  BY <1>1, <1>2, <1>6, <1>7, SMTT(30) DEF IInv, Counted
<1>10. NothingLostOrReordered'
  <2> SUFFICES ASSUME conforming' PROVE drained' \o Content(buffer') = out'
    BY DEF NothingLostOrReordered
  <2>1. conforming /\ out' = out
    BY <1>2
  <2>2. drained \o c = out
    BY <2>1 DEF IInv, NothingLostOrReordered, c
  <2>3. (drained \o gone) \o left = drained \o (gone \o left)
    BY <1>3, <1>4, <1>5, BytesAssociate, ZenonT(40)
  <2> QED
    BY <1>5, <1>6, <2>1, <2>2, <2>3
<1>11. HashCoversWhatLeft'
  BY <1>6 DEF IInv, HashCoversWhatLeft
<1>12. WindowIsKept'
  <2>1. finished \/ (l >= Least(window_size, Len(out)) /\ w <= l - Least(window_size, l))
    BY DEF IInv, WindowIsKept, l
  <2> DEFINE o == Len(out)
  <2> HIDE DEF l, o
  <2>2. l >= Least(window_size, o) /\ w <= l - Least(window_size, l) => l - w >= Least(window_size, o)
    BY <1>1 DEF Least, o
  <2> QED
    BY <1>2, <1>6, <2>1, <2>2 DEF WindowIsKept, l, o
<1> QED
  BY <1>8, <1>9, <1>10, <1>11, <1>12 DEF IInv

\* drain_to with a sink that may stop in either slice.
LEMMA DrainToKeeps ==
    ASSUME IInv, NEW amount \in Nat, amount <= RingLen(buffer),
           finished \/ amount <= RingLen(buffer) - Least(window_size, RingLen(buffer)),
           NEW k1 \in Nat, NEW k2 \in Nat, NEW ok1, NEW ok2, DrainTo(amount, k1, ok1, k2, ok2)
    PROVE  IInv'
<1> DEFINE f  == FirstSlice(buffer)
           g  == SecondSlice(buffer)
           n1 == Least(Len(f), amount)
           n2 == Least(Len(g), amount - n1)
           s1 == SubSeq(f, 1, n1)
           s2 == SubSeq(g, 1, n2)
           w  == k1 + k2
<1>1. /\ f \in Seq(Byte) /\ g \in Seq(Byte) /\ RingLen(buffer) = Len(f) + Len(g)
      /\ Len(f) \in Nat /\ Len(g) \in Nat
  BY SliceBytes DEF IInv, Typed
<1>2. /\ SinkTakes(k1, n1, ok1)
      /\ IF ok1 /\ k1 = n1 THEN SinkTakes(k2, n2, ok2) ELSE k2 = 0 /\ ok2
      /\ buffer' = DropAfterDrain(amount, w)
      /\ hash' = hash \o Hashed(s1, s2, k1, k2)
      /\ drained' = drained \o Delivered(s1, s2, k1, k2)
      /\ UNCHANGED <<frame, total_output_counter, conforming, out>>
  BY Zenon DEF DrainTo
<1>3. Content(buffer) = f \o g
  BY DEF Content
<1>4. RingOK(buffer) /\ RingLen(buffer) \in Nat /\ window_size \in Nat
  BY StateFacts DEF IInv, Typed
<1> HIDE DEF f, g, RingLen, Content
<1>5. n1 \in Nat /\ n2 \in Nat
  BY <1>1 DEF Least
<1>6. k1 <= n1 /\ k2 <= n2 /\ (k2 = 0 \/ k1 = n1)
  <2> HIDE DEF n1, n2
  <2> QED
    BY <1>2, <1>5 DEF SinkTakes
<1>7. /\ n1 <= Len(f) /\ n2 <= Len(g) /\ k1 <= Len(f) /\ k2 <= Len(g)
      /\ k2 = 0 \/ k1 = Len(f)
      /\ w \in Nat /\ w <= amount /\ w <= RingLen(buffer)
  <2>1. amount <= Len(f) + Len(g)
    BY <1>1
  <2> HIDE DEF w
  <2> QED
    BY <1>1, <1>6, <2>1, SlicesTaken, SMTT(40) DEF w
<1> HIDE DEF n1, n2
<1>8. SubSeq(s1, 1, k1) \o SubSeq(s2, 1, k2) = SubSeq(Content(buffer), 1, w)
  <2>1. SubSeq(s1, 1, k1) = SubSeq(f, 1, k1)
    BY <1>1, <1>5, <1>6, <1>7, PrefixOfPrefix
  <2>2. SubSeq(s2, 1, k2) = SubSeq(g, 1, k2)
    BY <1>1, <1>5, <1>6, <1>7, PrefixOfPrefix
  <2>3. SubSeq(f, 1, k1) \o SubSeq(g, 1, k2) = SubSeq(f \o g, 1, k1 + k2)
    BY <1>1, <1>7, PrefixOfConcat
  <2> QED
    BY <1>3, <2>1, <2>2, <2>3
<1>9. /\ hash' = hash \o SubSeq(Content(buffer), 1, w)
      /\ drained' = drained \o SubSeq(Content(buffer), 1, w)
  BY <1>2, <1>8 DEF Hashed, Delivered
<1>10. buffer' = IF w = 0 THEN buffer ELSE Dropped(buffer, w)
  BY <1>2 DEF DropAfterDrain
<1> HIDE DEF w, s1, s2
<1>11. /\ RingOK(buffer') /\ RingLen(buffer') = RingLen(buffer) - w
       /\ Content(buffer') = SubSeq(Content(buffer), w + 1, RingLen(buffer))
  BY <1>4, <1>7, <1>10, DropAfterDrainDrops
<1>12. finished \/ w <= RingLen(buffer) - Least(window_size, RingLen(buffer))
  BY <1>4, <1>7 DEF Least
<1> QED
  BY <1>2, <1>7, <1>9, <1>11, <1>12, TakingKeeps

\* What an amount has to be for the two lemmas above.
MayDrain(amount) ==
    /\ amount \in Nat /\ amount <= RingLen(buffer)
    /\ finished \/ amount <= RingLen(buffer) - Least(window_size, RingLen(buffer))

\* drain_to with a sink that takes everything.
LEMMA DrainFullyKeeps ==
    ASSUME IInv, NEW amount, MayDrain(amount), DrainFully(amount)
    PROVE  IInv'
<1>1. PICK k1 \in 0..amount, k2 \in 0..amount : DrainTo(amount, k1, TRUE, k2, TRUE)
  BY Zenon DEF DrainFully
<1>2. amount \in Nat /\ k1 \in Nat /\ k2 \in Nat
  BY DEF MayDrain
<1> QED
  BY <1>1, <1>2, DrainToKeeps, Zenon DEF MayDrain

\* drain_to with any sink.
LEMMA DrainToSinkKeeps ==
    ASSUME IInv, NEW amount, MayDrain(amount), DrainToSink(amount)
    PROVE  IInv'
<1>1. PICK k1 \in 0..amount, k2 \in 0..amount, ok1 \in BOOLEAN, ok2 \in BOOLEAN :
         DrainTo(amount, k1, ok1, k2, ok2)
  BY Zenon DEF DrainToSink
<1>2. amount \in Nat /\ k1 \in Nat /\ k2 \in Nat
  BY DEF MayDrain
<1> QED
  BY <1>1, <1>2, DrainToKeeps, Zenon DEF MayDrain

\* can_drain_to_window_size leaves the window, or everything there is.
LEMMA WindowMayDrain ==
    ASSUME IInv
    PROVE  /\ MayDrain(CanDrainToWindowSize)
           /\ \A n \in Nat : MayDrain(Least(CanDrainToWindowSize, n))
           /\ finished => /\ MayDrain(RingLen(buffer))
                          /\ \A n \in Nat : MayDrain(Least(RingLen(buffer), n))
<1>1. RingLen(buffer) \in Nat /\ window_size \in Nat
  BY StateFacts
<1> DEFINE l == RingLen(buffer)
<1>2. l \in Nat
  BY <1>1
<1> HIDE DEF l
<1>3. CanDrainToWindowSize = IF l > window_size THEN l - window_size ELSE 0
  BY DEF CanDrainToWindowSize, l
<1>4. \A a : MayDrain(a) <=>
                /\ a \in Nat
                /\ a <= l
                /\ (finished \/ a <= l - Least(window_size, l))
  BY DEF MayDrain, l
<1>5. CanDrainToWindowSize \in Nat /\ CanDrainToWindowSize <= l - Least(window_size, l)
  BY <1>1, <1>2, <1>3 DEF Least
<1> DEFINE c == CanDrainToWindowSize
<1>6. c \in Nat /\ c <= l - Least(window_size, l) /\ c <= l
  BY <1>1, <1>2, <1>5 DEF Least
<1> HIDE DEF c
<1>7. MayDrain(c)
  BY <1>4, <1>6
<1>8. ASSUME NEW n \in Nat PROVE MayDrain(Least(c, n))
  <2> DEFINE m == Least(c, n)
             v == l - Least(window_size, l)
  <2>1. v \in Nat
    BY <1>1, <1>2 DEF Least
  <2>2. c <= v
    BY <1>6
  <2> HIDE DEF v
  <2>3. m \in Nat /\ m <= v /\ m <= l
    BY <1>2, <1>6, <2>1, <2>2 DEF Least
  <2> HIDE DEF m
  <2> QED
    BY <1>4, <2>3 DEF v, m
<1>9. finished => MayDrain(l)
  BY <1>2, <1>4
<1>10. ASSUME NEW n \in Nat, finished PROVE MayDrain(Least(l, n))
  <2> DEFINE m == Least(l, n)
  <2>1. m \in Nat /\ m <= l
    BY <1>2 DEF Least
  <2> HIDE DEF m
  <2> QED
    BY <1>4, <1>10, <2>1 DEF m
<1> QED
  BY <1>7, <1>8, <1>9, <1>10 DEF c, l

\* drain empties the ring after the frame has ended.
LEMMA DrainKeeps ==
    ASSUME IInv, Drain
    PROVE  IInv'
<1> DEFINE f == FirstSlice(buffer)
           g == SecondSlice(buffer)
           w == RingLen(buffer)
<1>1. f \in Seq(Byte) /\ g \in Seq(Byte) /\ Content(buffer) = f \o g
  BY SliceBytes DEF IInv, Typed, Content
<1>2. /\ finished /\ hash' = (hash \o f) \o g /\ drained' = drained \o Content(buffer)
      /\ buffer' = Cleared(buffer) /\ UNCHANGED <<frame, total_output_counter, conforming, out>>
  BY Zenon DEF Drain
<1>3. hash \in Seq(Byte)
  BY DEF IInv, Typed, HashCoversWhatLeft
<1> HIDE DEF f, g
<1>4. (hash \o f) \o g = hash \o (f \o g)
  BY <1>1, <1>3, BytesAssociate, Zenon
<1>5. /\ Content(buffer) \in Seq(Byte) /\ Len(Content(buffer)) = w /\ w \in Nat
  BY StateFacts
<1>6. RingOK(buffer') /\ Content(buffer') = <<>> /\ RingLen(buffer') = 0
  <2>1. RingOK(buffer') /\ buffer'.head = buffer'.tail
    BY <1>2, ClearedOK DEF IInv, Typed, Cleared, RingOf
  <2> QED
    BY <2>1, NoContent
<1> HIDE DEF Content, RingLen
<1>7. SubSeq(Content(buffer), 1, w) = Content(buffer)
  BY <1>5, EmptyPart
<1>8. SubSeq(Content(buffer), w + 1, w) = <<>>
  <2>1. w + 1 \in Int /\ w \in Int /\ w < w + 1
    BY <1>5
  <2> QED
    BY <2>1, SubSeqEmpty
<1>9. RingLen(buffer) <= RingLen(buffer) /\ RingLen(buffer) - RingLen(buffer) = 0
  BY <1>5
<1>10. hash' = hash \o Content(buffer)
  BY <1>1, <1>2, <1>4
<1> HIDE DEF w
<1>11. /\ w \in Nat /\ w <= RingLen(buffer) /\ RingLen(buffer') = RingLen(buffer) - w
       /\ Content(buffer') = SubSeq(Content(buffer), w + 1, RingLen(buffer))
       /\ hash' = hash \o SubSeq(Content(buffer), 1, w)
       /\ drained' = drained \o SubSeq(Content(buffer), 1, w)
  BY <1>2, <1>5, <1>6, <1>7, <1>8, <1>9, <1>10 DEF w
<1> QED
  BY <1>2, <1>6, <1>11, TakingKeeps
-----------------------------------------------------------------------------
(* Every step keeps the invariant.                                         *)

\* init_from_dict comes before the first byte of a frame.
LEMMA InitFromDictKeeps ==
    ASSUME IInv, NEW d \in Dicts, InitFromDict(d)
    PROVE  IInv'
<1>1. /\ dict_content' = d /\ d \in Seq(Byte)
      /\ UNCHANGED <<buffer, window_size, total_output_counter, hash, finished,
                     conforming, out, drained>>
  BY DictsAssumption DEF InitFromDict
<1> HIDE DEF Content, RingLen
<1>2. Typed' /\ Counted'
  BY <1>1 DEF IInv, Typed, Counted
<1>3. NothingLostOrReordered'
  BY <1>1 DEF IInv, NothingLostOrReordered
<1>4. HashCoversWhatLeft' /\ WindowIsKept'
  BY <1>1 DEF IInv, HashCoversWhatLeft, WindowIsKept
<1> QED
  BY <1>2, <1>3, <1>4 DEF IInv

\* A step that leaves the bytes, the counters and the dictionary alone and does
\* not take the end of the frame back.
LEMMA NothingMovesKeeps ==
    ASSUME IInv, finished => finished',
           UNCHANGED <<buffer, dict_content, window_size, total_output_counter, hash,
                       conforming, out, drained>>
    PROVE  IInv'
<1> HIDE DEF Content, RingLen
<1>1. Typed' /\ Counted'
  BY DEF IInv, Typed, Counted
<1>2. NothingLostOrReordered'
  BY DEF IInv, NothingLostOrReordered
<1>3. HashCoversWhatLeft' /\ WindowIsKept'
  BY DEF IInv, HashCoversWhatLeft, WindowIsKept
<1> QED
  BY <1>1, <1>2, <1>3 DEF IInv

\* Every draining call asks for no more than it may.
LEMMA DrainSomeKeeps ==
    ASSUME IInv, DrainSome
    PROVE  IInv'
<1> DEFINE c == CanDrainToWindowSize
           l == RingLen(buffer)
<1> HIDE DEF c, l
<1>1. /\ MayDrain(c) /\ \A n \in Nat : MayDrain(Least(c, n))
      /\ finished => MayDrain(l) /\ \A n \in Nat : MayDrain(Least(l, n))
  BY WindowMayDrain, Zenon DEF c, l
<1>2. 1..MaxMatch \subseteq Nat
  BY BoundsAssumption
<1>3. ASSUME NEW n \in 1..MaxMatch, Read(n) PROVE IInv'
  BY <1>1, <1>2, <1>3, DrainFullyKeeps, Zenon DEF Read, c
<1>4. ASSUME NEW n \in 1..MaxMatch, ReadAll(n) PROVE IInv'
  BY <1>1, <1>2, <1>4, DrainFullyKeeps, Zenon DEF ReadAll, l
<1>5. CASE DrainToWindowSize
  BY <1>1, <1>5, DrainFullyKeeps, Zenon DEF DrainToWindowSize, c
<1>6. CASE DrainToWindowSizeWriter
  BY <1>1, <1>6, DrainToSinkKeeps, Zenon DEF DrainToWindowSizeWriter, c
<1>7. CASE DrainToWriter
  BY <1>1, <1>7, DrainToSinkKeeps, Zenon DEF DrainToWriter, l
<1>8. CASE Drain
  BY <1>8, DrainKeeps
<1> QED
  BY <1>3, <1>4, <1>5, <1>6, <1>7, <1>8, Zenon DEF DrainSome

\* The invariant is inductive.
LEMMA NextIInv == IInv /\ [Next]_vars => IInv'
<1> SUFFICES ASSUME IInv, [Next]_vars
             PROVE  IInv'
  OBVIOUS
<1>1. /\ \A o \in 1..MaxOffset : o \in Nat /\ o > 0
      /\ \A len \in 1..MaxMatch : len \in Nat /\ len > 0
  BY BoundsAssumption
<1>2. ASSUME NEW w \in Windows, Reset(w) PROVE IInv'
  BY <1>2, ResetKeeps
<1>3. ASSUME NEW d \in Dicts, InitFromDict(d) PROVE IInv'
  BY <1>3, InitFromDictKeeps
<1>4. CASE Finish
  BY <1>4, NothingMovesKeeps DEF Finish
<1>5. CASE DrainSome
  BY <1>5, DrainSomeKeeps
<1>6. ASSUME NEW data \in Payloads, Push(data) PROVE IInv'
  BY <1>6, PushKeeps
<1>7. ASSUME NEW o \in 1..MaxOffset, NEW len \in 1..MaxMatch, Repeat(o, len) PROVE IInv'
  <2>1. o \in Nat /\ o > 0 /\ len \in Nat /\ len > 0
    BY <1>1
  <2>2. CASE RepeatInBuffer(o, len)
    BY <2>1, <2>2, RepeatInBufferKeeps, Zenon
  <2>3. CASE RepeatAcrossDict(o, len)
    BY <2>1, <2>3, RepeatAcrossDictKeeps, Zenon
  <2>4. CASE RepeatInDict(o, len)
    BY <2>1, <2>4, RepeatInDictKeeps, Zenon
  <2> QED
    BY <1>7, <2>2, <2>3, <2>4, Zenon DEF Repeat
<1>8. ASSUME NEW o \in 1..MaxOffset, RepeatFails(o) PROVE IInv'
  BY <1>8, NothingMovesKeeps DEF RepeatFails, frame
<1>9. CASE UNCHANGED vars
  BY <1>9, NothingMovesKeeps DEF vars
<1> QED
  BY <1>2, <1>3, <1>4, <1>5, <1>6, <1>7, <1>8, <1>9, Zenon DEF Next, Frames

\* The invariant holds in every reachable state: of every capacity, window,
\* dictionary, literals and sequences.
THEOREM Inductive == Spec => []IInv
  BY InitIInv, NextIInv, PTL DEF Spec
-----------------------------------------------------------------------------
(* The properties.                                                         *)

\* What callers were given and what decode_buffer.rs still holds is what the
\* sequences stand for, as long as their offsets are those the format allows:
\* through push, the three ways of repeat, the growth of the ring, and sinks of
\* drain_to that stop anywhere.
THEOREM DecodedBytesAreRight == Spec => []NothingLostOrReordered
<1>1. IInv => NothingLostOrReordered
  BY DEF IInv
<1> QED
  BY <1>1, Inductive, PTL

\* The content checksum has been fed the bytes that left the buffer, no byte
\* more, whichever call drained them and wherever its sink stopped.
THEOREM HashIsOfWhatLeft == Spec => []HashCoversWhatLeft
<1>1. IInv => HashCoversWhatLeft
  BY DEF IInv
<1> QED
  BY <1>1, Inductive, PTL

\* Until the frame ends, draining keeps the bytes a conforming match may name.
THEOREM WindowStays == Spec => []WindowIsKept
<1>1. IInv => WindowIsKept
  BY DEF IInv
<1> QED
  BY <1>1, Inductive, PTL

\* The chunks repeat makes after its reserve are those ChunksAreSafe looks at.
LEMMA ChunksOfReserved == IInv => ChunksAreSafe
<1> SUFFICES ASSUME IInv, NEW o \in 1..RingLen(buffer), NEW len \in 1..MaxMatch,
                    Fits(buffer, len), NEW chunks, chunks = Chunks(buffer, o, len),
                    NEW k \in 1..Len(chunks)
             PROVE  LET ring == AfterChunks(Reserved(buffer, len), chunks)
                    IN  /\ chunks[k].start + chunks[k].len <= RingLen(ring[k - 1])
                        /\ chunks[k].len <= Free(ring[k - 1])
  BY Zenon DEF ChunksAreSafe
<1> DEFINE s == Reserved(buffer, len)
<1>1. RingOK(buffer) /\ RingLen(buffer) \in Nat
  BY StateFacts DEF IInv, Typed
<1>2. o \in Nat /\ o > 0 /\ o <= RingLen(buffer) /\ len \in Nat /\ len > 0
  BY <1>1, BoundsAssumption
<1>3. RingOK(s) /\ s.cap > 0 /\ RingLen(s) = RingLen(buffer) /\ Free(s) >= len
  BY <1>1, <1>2, ReservedOK, ReservedContent
<1> HIDE DEF s
<1>4. len <= Free(s) /\ o <= RingLen(s)
  BY <1>2, <1>3, RingNumbers
<1>5. chunks = Chunks(s, o, len)
  <2> HIDE DEF RingLen
  <2> QED
    BY <1>3, Zenon DEF Chunks
<1> QED
  BY <1>2, <1>3, <1>4, <1>5, ChunksCopyTheMatch, Zenon DEF s

\* repeat meets the two requirements of the unsafe extend_from_within_unchecked
\* at each of its chunks, in every state it may be called in.
THEOREM ChunksStaySafe == Spec => []ChunksAreSafe
  BY ChunksOfReserved, Inductive, PTL

\* Only the refusing branch of repeat returns an error.
LEMMA OnlyRefusals ==
    ASSUME Next, last'.op = "repeat", last'.result # "ok"
    PROVE  \E o \in 1..MaxOffset : RepeatFails(o) /\ last'.offset = o
<1>1. ~(\E w \in Windows : Reset(w)) /\ ~(\E d \in Dicts : InitFromDict(d)) /\ ~Finish
  BY DEF Reset, InitFromDict, Finish
<1>2. ~(\E data \in Payloads : Push(data))
  BY DEF Push
<1>3. ASSUME NEW amount, NEW k1, NEW ok1, NEW k2, NEW ok2, DrainTo(amount, k1, ok1, k2, ok2)
      PROVE  FALSE
  <2>1. last'.op = "drain"
    BY <1>3 DEF DrainTo
  <2> QED
    BY <2>1
<1>4. ~DrainSome
  <2>1. ~(\E amount : DrainFully(amount) \/ DrainToSink(amount))
    BY <1>3, Zenon DEF DrainFully, DrainToSink
  <2>2. ~Drain
    BY DEF Drain
  <2> QED
    BY <2>1, <2>2, Zenon DEF DrainSome, Read, ReadAll, DrainToWindowSize,
                             DrainToWindowSizeWriter, DrainToWriter
<1>5. ~(\E o \in 1..MaxOffset, len \in 1..MaxMatch : Repeat(o, len))
  <2>1. \A o, len : ~Matched(o, len)
    BY DEF Matched
  <2> QED
    BY <2>1, Zenon DEF Repeat, RepeatInBuffer, RepeatAcrossDict, RepeatInDict
<1>6. PICK o \in 1..MaxOffset : RepeatFails(o)
  BY <1>1, <1>2, <1>4, <1>5, Zenon DEF Next, Frames
<1>7. last'.offset = o
  BY <1>6 DEF RepeatFails
<1> QED
  BY <1>6, <1>7

\* A step that refuses a match refuses one the format does not allow.
LEMMA ConformingStep ==
    ASSUME IInv, [Next]_vars
    PROVE  [last'.op = "repeat" /\ Conforming(last'.offset) => last'.result = "ok"]_vars
<1> SUFFICES ASSUME Next, last'.op = "repeat", last'.result # "ok", Conforming(last'.offset)
             PROVE  FALSE
  BY Zenon
<1>1. PICK o \in 1..MaxOffset : RepeatFails(o) /\ last'.offset = o
  BY OnlyRefusals, Zenon
<1>2. o \in Nat /\ Conforming(o)
  BY <1>1, BoundsAssumption
<1>3. ~finished /\ o > RingLen(buffer) /\ ~DictReachable(o)
  BY <1>1, Zenon DEF RepeatFails
<1>4. /\ Len(out) <= window_size /\ RingLen(buffer) = Len(out)
      /\ o <= Len(dict_content) + Len(out)
  BY <1>2, <1>3, AllIsThere
<1>5. /\ Len(out) \in Nat /\ Len(dict_content) \in Nat /\ window_size \in Nat
      /\ total_output_counter \in Nat /\ total_output_counter <= Len(out)
  BY StateFacts DEF IInv, Counted
<1> HIDE DEF RingLen
<1>6. total_output_counter <= window_size /\ BytesFromDict(o) <= Len(dict_content)
  BY <1>2, <1>4, <1>5 DEF BytesFromDict
<1> QED
  BY <1>3, <1>6 DEF DictReachable

\* repeat never refuses an offset the format allows: neither because the
\* counter says the dictionary is out of reach, nor because the buffer was
\* drained, nor after a stream has held offsets that are not allowed.
THEOREM AllowedMatchesSucceed == Spec => ConformingMatchesSucceed
  BY Inductive, ConformingStep, PTL DEF Spec, ConformingMatchesSucceed

-----------------------------------------------------------------------------
(* Both layers                                                             *)

\* A behavior of the buffers is one of the ring and one of the decode buffer, so
\* all of the above holds of them together.
THEOREM BuffersAreBothLayers == BuffersSpec => RingSpec /\ Spec
<1>1. BuffersInit => RingInit /\ Init
  BY DEF BuffersInit
<1>2. [BuffersNext]_layerVars => [RingNext]_ringVars /\ [Next]_vars
  BY DEF BuffersNext, layerVars, ringVars, vars
<1> QED
  BY <1>1, <1>2, PTL DEF BuffersSpec, RingSpec, Spec
=============================================================================
