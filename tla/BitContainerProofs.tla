------------------------ MODULE BitContainerProofs ------------------------
(***************************************************************************)
(* The reader from the end and the writer, with their containers of 64     *)
(* bits, are the plain source and sink of bits: for every length, every    *)
(* sequence of widths, every number of bits beyond the front, and every    *)
(* change of what is written.                                              *)
(***************************************************************************)
EXTENDS BitReaderReversed, BitWriter, TLAPS

-----------------------------------------------------------------------------
(* The reader.                                                             *)

\* Readers on the way: the index is at the front, at the end with an empty
\* container, or eight bytes can be loaded from it; and bits were made up only at
\* the front.
IndexFits(r) ==
    /\ r.index = 0 \/ r.index + 8 <= r.source \/ (r.index = r.source /\ r.bits_consumed = 64)
    /\ r.index > 0 => r.extra_bits = 0

Readers == [source : Nat, index : Nat, bits_consumed : 0..64, extra_bits : Nat,
            bit_container : [Places -> Int]]

\* Bit b of the container, unless it is consumed, is the one that is left with
\* this many bits in front of it.
ContainerMatches(r) ==
    \A b \in Places : b < 64 - r.bits_consumed =>
        r.bit_container[b] = Source!Bit(r.source, 8 * r.index + b - r.extra_bits)

Sound(r) == r \in Readers /\ IndexFits(r) /\ ContainerMatches(r)

LEMMA Types ==
    ASSUME NEW r \in Readers
    PROVE  /\ r.source \in Nat /\ r.index \in Nat /\ r.extra_bits \in Nat
           /\ r.bits_consumed \in Int /\ 0 <= r.bits_consumed /\ r.bits_consumed <= 64
           /\ r.bit_container \in [Places -> Int] /\ BitsRemaining(r) \in Int
  BY DEF Readers, BitsRemaining

LEMMA BitIsInt == \A length, p \in Int : Source!Bit(length, p) \in Int
  BY DEF Source!Bit

LEMMA IntsArePlaces == \A b \in Int : 0 <= b /\ b <= 63 => b \in Places
  BY DEF Places

LEMMA PlacesAreInts == \A i \in Int : \A b \in Places : 8 * i + b \in Int /\ b \in Int
  BY DEF Places

LEMMA NewIsSound == \A source \in Nat : Sound(New(source)) /\ BitsRemaining(New(source)) = 8 * source
  BY DEF New, Empty, Places, Sound, Readers, IndexFits, ContainerMatches, BitsRemaining

LEMMA ShlShifts ==
    ASSUME NEW container \in [Places -> Int], NEW n \in 0..64
    PROVE  /\ Shl(container, n) \in [Places -> Int]
           /\ \A b \in Places : b < n => Shl(container, n)[b] = 0
           /\ \A b \in Places : b >= n => b - n \in Places /\ Shl(container, n)[b] = container[b - n]
<1>1. \A b \in Places : b >= n => b - n \in Places
  BY DEF Places
<1>2. \A b \in Places : b \in Int /\ n \in Int /\ (b < n \/ b >= n)
  BY DEF Places
<1>3. \A b \in Places : (IF b < n THEN 0 ELSE container[b - n]) \in Int
  <2> SUFFICES ASSUME NEW b \in Places PROVE (IF b < n THEN 0 ELSE container[b - n]) \in Int
    OBVIOUS
  <2>1. CASE b < n
    BY <2>1
  <2>2. CASE ~(b < n)
    <3>1. b - n \in Places
      BY <1>1, <1>2, <2>2
    <3>2. container[b - n] \in Int
      BY <3>1
    <3> QED
      BY <2>2, <3>2
  <2> QED
    BY <2>1, <2>2
<1> QED
  BY <1>1, <1>2, <1>3 DEF Shl

\* In front of the source there are zeros.
LEMMA NothingInFront == \A length \in Nat : \A p \in Int : p < 0 => Source!Bit(length, p) = 0
  BY DEF Source!Bit

\* "container" holds the first bytes of the source, the consumed bits left out.
HoldsFront(r, container, used) ==
    \A b \in Places : b < 64 - used => container[b] = Source!Bit(r.source, b - r.extra_bits)

\* What is shifted out at the front comes in as zeros, and these bits count as extra.
LEMMA ShiftedFront ==
    ASSUME NEW r \in Readers, NEW container \in [Places -> Int], NEW used \in 0..64,
           HoldsFront(r, container, used), NEW b \in Places
    PROVE  Shl(container, used)[b] = Source!Bit(r.source, b - (r.extra_bits + used))
<1>1. /\ b < used => Shl(container, used)[b] = 0
      /\ b >= used => b - used \in Places /\ Shl(container, used)[b] = container[b - used]
  BY ShlShifts
<1>2. b \in Int /\ b < 64 /\ used \in Nat /\ r.extra_bits \in Nat /\ r.source \in Nat
  BY Types DEF Places
<1>3. CASE b < used
  <2>1. b - (r.extra_bits + used) \in Int /\ b - (r.extra_bits + used) < 0
    BY <1>2, <1>3
  <2> QED
    BY <1>1, <1>2, <1>3, <2>1, NothingInFront
<1>4. CASE b >= used
  <2>1. b - used < 64 - used /\ (b - used) - r.extra_bits = b - (r.extra_bits + used)
    BY <1>2
  <2>2. container[b - used] = Source!Bit(r.source, (b - used) - r.extra_bits)
    BY <1>1, <1>4, <2>1 DEF HoldsFront
  <2> QED
    BY <1>1, <1>4, <2>1, <2>2
<1> QED
  BY <1>2, <1>3, <1>4

LEMMA AtFrontIsSound ==
    ASSUME NEW r \in Readers, NEW container \in [Places -> Int], NEW used \in 0..64,
           HoldsFront(r, container, used), BitsRemaining(r) = 64 - used - r.extra_bits
    PROVE  /\ Sound(AtFront(r, container, used))
           /\ BitsRemaining(AtFront(r, container, used)) = BitsRemaining(r)
           /\ AtFront(r, container, used).source = r.source
           /\ AtFront(r, container, used).bits_consumed = 0
<1> DEFINE f == AtFront(r, container, used)
<1>1. Shl(container, used) \in [Places -> Int] /\ r.source \in Nat /\ r.extra_bits \in Nat
  BY ShlShifts, Types
<1>2. /\ f.source = r.source /\ f.index = 0 /\ f.bits_consumed = 0
      /\ f.extra_bits = r.extra_bits + used /\ f.bit_container = Shl(container, used)
      /\ f \in Readers
  BY <1>1 DEF AtFront, Readers
<1> HIDE DEF f
<1>3. ContainerMatches(f)
  <2> SUFFICES ASSUME NEW b \in Places
               PROVE  f.bit_container[b] = Source!Bit(f.source, 8 * f.index + b - f.extra_bits)
    BY DEF ContainerMatches
  <2>1. 8 * f.index + b - f.extra_bits = b - (r.extra_bits + used)
    BY <1>1, <1>2 DEF Places
  <2> QED
    BY <1>2, <2>1, ShiftedFront
<1>4. BitsRemaining(f) = BitsRemaining(r)
  BY <1>1, <1>2 DEF BitsRemaining
<1>5. Sound(f)
  BY <1>2, <1>3 DEF Sound, IndexFits
<1> QED
  BY <1>2, <1>4, <1>5 DEF f

\* Moving down keeps what is left, as eight bytes are there.
LEMMA MovedDownIsSound ==
    ASSUME NEW r \in Readers, NEW bytes \in 1..8, r.index >= bytes, r.extra_bits = 0,
           r.bits_consumed = 8 * bytes + (r.bits_consumed % 8),
           r.index - bytes + 8 <= r.source
    PROVE  /\ Sound(MovedDown(r, bytes))
           /\ BitsRemaining(MovedDown(r, bytes)) = BitsRemaining(r)
           /\ MovedDown(r, bytes).source = r.source
           /\ MovedDown(r, bytes).bits_consumed < 8
<1> DEFINE f == MovedDown(r, bytes)
           index == r.index - bytes
<1>1. /\ r.source \in Nat /\ r.index \in Nat /\ index \in Nat /\ index + 8 <= r.source
      /\ r.bits_consumed \in Int /\ r.bits_consumed % 8 \in 0..7
      /\ index \in Int /\ r.source \in Int
  BY Types
<1> HIDE DEF index
<1>2. \A b \in Places : Eight(r.source, index)[b] = Source!Bit(r.source, 8 * index + b)
  BY <1>1 DEF Eight
<1>3. Eight(r.source, index) \in [Places -> Int]
  <2>1. \A b \in Places : Eight(r.source, index)[b] \in Int
    <3> TAKE b \in Places
    <3>1. 8 * index + b \in Int
      BY <1>1, PlacesAreInts, Zenon
    <3> QED
      BY <1>1, <1>2, <3>1, BitIsInt, Zenon
  <2> QED
    BY <2>1 DEF Eight
<1>4. /\ f.source = r.source /\ f.index = index /\ f.bits_consumed = r.bits_consumed % 8
      /\ f.extra_bits = 0 /\ f.bit_container = Eight(r.source, index)
      /\ f \in Readers
  BY <1>1, <1>3 DEF MovedDown, Readers, index
<1> HIDE DEF f
<1>5. ContainerMatches(f)
  <2> SUFFICES ASSUME NEW b \in Places
               PROVE  f.bit_container[b] = Source!Bit(f.source, 8 * f.index + b - f.extra_bits)
    BY DEF ContainerMatches
  <2>1. 8 * f.index + b - f.extra_bits = 8 * index + b
    BY <1>1, <1>4 DEF Places
  <2> QED
    BY <1>2, <1>4, <2>1
<1>6. BitsRemaining(f) = BitsRemaining(r)
  BY <1>1, <1>4 DEF BitsRemaining, index
<1>7. Sound(f)
  BY <1>1, <1>4, <1>5 DEF Sound, IndexFits
<1> QED
  BY <1>1, <1>4, <1>6, <1>7 DEF f

\* Refilling loses nothing and makes room for 56 bits.
LEMMA RefillIsSound ==
    ASSUME NEW r, Sound(r)
    PROVE  /\ Sound(Refill(r)) /\ Refill(r).source = r.source
           /\ BitsRemaining(Refill(r)) = BitsRemaining(r)
           /\ Refill(r).bits_consumed < 8
<1> DEFINE bytes == r.bits_consumed \div 8
<1>1. r \in Readers /\ IndexFits(r) /\ ContainerMatches(r)
  BY DEF Sound
<1>2. /\ r.source \in Nat /\ r.index \in Nat /\ r.extra_bits \in Nat /\ r.bits_consumed \in 0..64
      /\ r.bit_container \in [Places -> Int]
  BY <1>1, Types
<1>3. bytes \in 0..8 /\ 8 * bytes <= r.bits_consumed /\ r.bits_consumed < 8 * bytes + 8
  BY <1>2
<1>0. r.bits_consumed = 8 * bytes + (r.bits_consumed % 8)
  BY <1>2
<1> HIDE DEF bytes
<1>4. CASE bytes = 0
  <2>1. Refill(r) = r /\ r.bits_consumed < 8
    BY <1>2, <1>3, <1>4 DEF Refill, bytes
  <2> QED
    BY <2>1
<1>5. CASE bytes > 0 /\ r.index >= bytes
  <2>1. Refill(r) = MovedDown(r, bytes)
    BY <1>5 DEF Refill, bytes
  <2>2. r.extra_bits = 0 /\ r.index - bytes + 8 <= r.source /\ bytes \in 1..8
    BY <1>1, <1>2, <1>3, <1>5 DEF IndexFits
  <2> QED
    BY <1>0, <1>1, <1>5, <2>1, <2>2, MovedDownIsSound
<1>6. CASE bytes > r.index /\ r.index > 0
  <2> DEFINE used == r.bits_consumed - 8 * r.index
  <2>1. Refill(r) = AtFront(r, FirstEight(r.source), used)
    BY <1>2, <1>3, <1>6 DEF Refill, bytes
  <2>2. used \in 0..64 /\ r.extra_bits = 0 /\ BitsRemaining(r) = 64 - used - r.extra_bits
    <3>1. r.extra_bits = 0
      BY <1>1, <1>6 DEF IndexFits
    <3>2. used \in 0..64
      BY <1>2, <1>3, <1>6
    <3>3. BitsRemaining(r) = 64 - used - r.extra_bits
      BY <1>2 DEF BitsRemaining
    <3> QED
      BY <3>1, <3>2, <3>3
  <2>3. FirstEight(r.source) \in [Places -> Int]
    <3>1. \A b \in Places : Source!Bit(r.source, b) \in Int
      <4>1. r.source \in Int
        BY <1>2
      <4> QED
        BY <4>1, BitIsInt, PlacesAreInts, Zenon
    <3> QED
      BY <3>1 DEF FirstEight
  <2>4. HoldsFront(r, FirstEight(r.source), used)
    <3>1. \A b \in Places : b - r.extra_bits = b
      BY <2>2 DEF Places
    <3> QED
      BY <3>1 DEF HoldsFront, FirstEight
  <2> HIDE DEF used
  <2>5. AtFront(r, FirstEight(r.source), used).bits_consumed < 8
    BY DEF AtFront
  <2> QED
    BY <1>1, <2>1, <2>2, <2>3, <2>4, <2>5, AtFrontIsSound
<1>7. CASE bytes > 0 /\ r.index = 0 /\ r.bits_consumed < 64
  <2>1. Refill(r) = AtFront(r, r.bit_container, r.bits_consumed)
    BY <1>2, <1>3, <1>7 DEF Refill, bytes
  <2>2. HoldsFront(r, r.bit_container, r.bits_consumed)
    <3>1. \A b \in Places : 8 * r.index + b - r.extra_bits = b - r.extra_bits
      BY <1>2, <1>7 DEF Places
    <3> QED
      BY <1>1, <3>1 DEF HoldsFront, ContainerMatches
  <2>3. BitsRemaining(r) = 64 - r.bits_consumed - r.extra_bits
    BY <1>2, <1>7 DEF BitsRemaining
  <2>4. AtFront(r, r.bit_container, r.bits_consumed).bits_consumed < 8
    BY DEF AtFront
  <2> QED
    BY <1>1, <1>2, <2>1, <2>2, <2>3, <2>4, AtFrontIsSound
<1>8. CASE bytes > 0 /\ r.index = 0 /\ r.bits_consumed = 64
  <2>1. Refill(r) = AtFront(r, Empty, 64)
    BY <1>8 DEF Refill, bytes
  <2>2. HoldsFront(r, Empty, 64) /\ Empty \in [Places -> Int]
    BY DEF HoldsFront, Empty, Places
  <2>3. BitsRemaining(r) = 64 - 64 - r.extra_bits
    BY <1>2, <1>8 DEF BitsRemaining
  <2>4. AtFront(r, Empty, 64).bits_consumed < 8
    BY DEF AtFront
  <2> QED
    BY <1>1, <2>1, <2>2, <2>3, <2>4, AtFrontIsSound
<1> QED
  BY <1>2, <1>3, <1>4, <1>5, <1>6, <1>7, <1>8

LEMMA ReadyIsSound ==
    ASSUME NEW r, Sound(r), NEW n \in 0..56
    PROVE  /\ Sound(Ready(r, n)) /\ Ready(r, n).source = r.source
           /\ BitsRemaining(Ready(r, n)) = BitsRemaining(r)
           /\ Ready(r, n).bits_consumed + n <= 64
<1>1. r.bits_consumed \in Int /\ Refill(r).bits_consumed \in Int
  BY RefillIsSound, Types DEF Sound
<1>2. CASE r.bits_consumed + n > 64
  BY <1>1, <1>2, RefillIsSound DEF Ready
<1>3. CASE r.bits_consumed + n <= 64
  BY <1>1, <1>3 DEF Ready
<1> QED
  BY <1>1, <1>2, <1>3

LEMMA ConsumeIsSound ==
    ASSUME NEW r, Sound(r), NEW n \in Nat, r.bits_consumed + n <= 64
    PROVE  /\ Sound(Consume(r, n)) /\ Consume(r, n).source = r.source
           /\ BitsRemaining(Consume(r, n)) = BitsRemaining(r) - n
           /\ Consume(r, n).bits_consumed = r.bits_consumed + n
<1> DEFINE f == Consume(r, n)
<1>1. /\ r \in Readers /\ IndexFits(r) /\ ContainerMatches(r)
      /\ r.source \in Nat /\ r.index \in Nat /\ r.extra_bits \in Nat /\ r.bits_consumed \in 0..64
      /\ r.bit_container \in [Places -> Int]
  BY Types DEF Sound
<1>2. /\ f \in Readers /\ f.source = r.source /\ f.index = r.index /\ f.extra_bits = r.extra_bits
      /\ f.bit_container = r.bit_container /\ f.bits_consumed = r.bits_consumed + n
  BY <1>1 DEF Consume, Readers
<1> HIDE DEF f
<1>3. IndexFits(f)
  BY <1>1, <1>2 DEF IndexFits
<1>4. ContainerMatches(f)
  <2>1. \A b \in Places : b < 64 - f.bits_consumed => b < 64 - r.bits_consumed
    BY <1>1, <1>2 DEF Places
  <2> QED
    BY <1>1, <1>2, <2>1 DEF ContainerMatches
<1>5. BitsRemaining(f) = BitsRemaining(r) - n
  BY <1>1, <1>2 DEF BitsRemaining
<1> QED
  BY <1>2, <1>3, <1>4, <1>5 DEF Sound, f

\* What is peeked at are the last of the bits that are left.
LEMMA PeekIsLast ==
    ASSUME NEW r, Sound(r), NEW skipped \in Nat, NEW n \in Nat,
           r.bits_consumed + skipped + n <= 64, NEW left \in Int, left = BitsRemaining(r) - skipped
    PROVE  Peek(r, skipped, n) = [i \in 1..n |-> Source!Bit(r.source, left - n + i - 1)]
<1> SUFFICES ASSUME NEW i \in 1..n
             PROVE  r.bit_container[64 - r.bits_consumed - skipped - n + i - 1]
                      = Source!Bit(r.source, left - n + i - 1)
  BY DEF Peek
<1> DEFINE b == 64 - r.bits_consumed - skipped - n + i - 1
<1>1. /\ r.index \in Nat /\ r.extra_bits \in Nat /\ r.bits_consumed \in 0..64
      /\ ContainerMatches(r)
  BY Types DEF Sound
<1>2. b \in Places /\ b < 64 - r.bits_consumed
  <2>1. b \in Int /\ 0 <= b /\ b < 64 - r.bits_consumed /\ b <= 63
    BY <1>1
  <2> QED
    BY <2>1, IntsArePlaces, Zenon
<1>3. 8 * r.index + b - r.extra_bits = left - n + i - 1
  BY <1>1 DEF BitsRemaining
<1> HIDE DEF b
<1>4. r.bit_container[b] = Source!Bit(r.source, 8 * r.index + b - r.extra_bits)
  BY <1>1, <1>2 DEF ContainerMatches
<1> QED
  BY <1>3, <1>4 DEF b

-----------------------------------------------------------------------------
\* One value, taken by a reader that has been made ready for it.
Takes(r, n, left) ==
    /\ Sound(r) /\ r.bits_consumed + n <= 64 /\ BitsRemaining(r) = left /\ r.source = rd.source

LEMMA TakenIsLast ==
    ASSUME NEW r, NEW n \in Nat, NEW left \in Int, Takes(r, n, left)
    PROVE  /\ Peek(r, 0, n) = Source!Last(left, n)
           /\ Sound(Consume(r, n)) /\ Consume(r, n).source = rd.source
           /\ BitsRemaining(Consume(r, n)) = left - n
<1>1. /\ Sound(r) /\ r.bits_consumed + 0 + n <= 64 /\ left = BitsRemaining(r) - 0
      /\ r.source = rd.source /\ r.bits_consumed + n <= 64 /\ r.bits_consumed \in Int
  BY Types DEF Takes, Sound
<1>2. Peek(r, 0, n) = [i \in 1..n |-> Source!Bit(r.source, left - n + i - 1)]
  BY <1>1, PeekIsLast
<1> QED
  BY <1>1, <1>2, ConsumeIsSound DEF Source!Last, Takes

LEMMA ReadyTakes ==
    ASSUME NEW r, Sound(r), NEW n \in 0..56, NEW left, BitsRemaining(r) = left, r.source = rd.source
    PROVE  Takes(Ready(r, n), n, left)
  BY ReadyIsSound DEF Takes

LEMMA GetBitsIsRight ==
    ASSUME Sound(rd), NEW n, GetBits(n)
    PROVE  Sound(rd') /\ Source!GetBits(n)
<1>1. /\ n \in 0..56 /\ n \in Nat /\ got' = <<Peek(Ready(rd, n), 0, n)>>
      /\ rd' = Consume(Ready(rd, n), n)
  BY DEF GetBits
<1>2. BitsRemaining(rd) \in Int
  BY Types DEF Sound
<1>3. Takes(Ready(rd, n), n, BitsRemaining(rd))
  BY <1>1, ReadyTakes
<1>4. /\ Peek(Ready(rd, n), 0, n) = Source!Last(BitsRemaining(rd), n)
      /\ Sound(rd') /\ rd'.source = rd.source /\ BitsRemaining(rd') = BitsRemaining(rd) - n
  BY <1>1, <1>2, <1>3, TakenIsLast
<1>5. BitsRemaining(rd)' = BitsRemaining(rd')
  BY DEF BitsRemaining
<1> QED
  BY <1>1, <1>4, <1>5 DEF Source!GetBits

LEMMA ThreeAtOnceIsRight ==
    ASSUME Sound(rd), NEW n1 \in 0..56, NEW n2 \in 0..56, NEW n3 \in 0..56,
           n1 + n2 + n3 <= 56, ThreeAtOnce(n1, n2, n3)
    PROVE  Sound(rd') /\ Source!GetBitsTriple(n1, n2, n3)
<1> DEFINE r == Refill(rd)
           left == BitsRemaining(rd)
           after1 == left - n1
           after2 == left - n1 - n2
<1>1. /\ got' = <<Peek(r, 0, n1), Peek(r, n1, n2), Peek(r, n1 + n2, n3)>>
      /\ rd' = Consume(r, n1 + n2 + n3)
  BY DEF ThreeAtOnce
<1>2. /\ Sound(r) /\ r.source = rd.source /\ BitsRemaining(r) = left
      /\ r.bits_consumed < 8 /\ r.bits_consumed \in Int /\ left \in Int
      /\ n1 \in Nat /\ n2 \in Nat /\ n3 \in Nat
  BY RefillIsSound, Types DEF Sound
<1> HIDE DEF r, left
<1>3. Peek(r, 0, n1) = Source!Last(left, n1)
  <2>1. r.bits_consumed + 0 + n1 <= 64 /\ left = BitsRemaining(r) - 0
    BY <1>2
  <2> QED
    BY <1>2, <2>1, PeekIsLast DEF Source!Last
<1>4. Peek(r, n1, n2) = Source!Last(after1, n2)
  <2>1. /\ r.bits_consumed + n1 + n2 <= 64
        /\ after1 = BitsRemaining(r) - n1
        /\ after1 \in Int
    BY <1>2
  <2> HIDE DEF after1
  <2>2. Peek(r, n1, n2) = [i \in 1..n2 |-> Source!Bit(r.source, after1 - n2 + i - 1)]
    <3>1. n1 \in Nat /\ n2 \in Nat /\ Sound(r)
      BY <1>2
    <3> QED
      BY <2>1, <3>1, PeekIsLast, SMTT(60)
  <2> QED
    BY <1>2, <2>2 DEF Source!Last
<1>5. Peek(r, n1 + n2, n3) = Source!Last(after2, n3)
  <2>1. /\ r.bits_consumed + (n1 + n2) + n3 <= 64 /\ after2 = BitsRemaining(r) - (n1 + n2)
        /\ after2 \in Int /\ n1 + n2 \in Nat
    BY <1>2
  <2> HIDE DEF after2
  <2>2. Peek(r, n1 + n2, n3) = [i \in 1..n3 |-> Source!Bit(r.source, after2 - n3 + i - 1)]
    BY <1>2, <2>1, PeekIsLast
  <2> QED
    BY <1>2, <2>2 DEF Source!Last
<1>6. Sound(rd') /\ rd'.source = rd.source /\ BitsRemaining(rd') = left - n1 - n2 - n3
  <2>1. n1 + n2 + n3 \in Nat /\ r.bits_consumed + (n1 + n2 + n3) <= 64
    BY <1>2
  <2>2. left - (n1 + n2 + n3) = left - n1 - n2 - n3
    BY <1>2
  <2> QED
    BY <1>1, <1>2, <2>1, <2>2, ConsumeIsSound
<1>7. BitsRemaining(rd)' = BitsRemaining(rd')
  BY DEF BitsRemaining
<1> QED
  BY <1>1, <1>3, <1>4, <1>5, <1>6, <1>7 DEF Source!GetBitsTriple, left

LEMMA OneByOneIsRight ==
    ASSUME Sound(rd), NEW n1 \in 0..56, NEW n2 \in 0..56, NEW n3 \in 0..56,
           OneByOne(n1, n2, n3)
    PROVE  Sound(rd') /\ Source!GetBitsTriple(n1, n2, n3)
<1> DEFINE left == BitsRemaining(rd)
           r1 == Ready(rd, n1)
           r2 == Ready(Consume(r1, n1), n2)
           r3 == Ready(Consume(r2, n2), n3)
<1>1. /\ got' = <<Peek(r1, 0, n1), Peek(r2, 0, n2), Peek(r3, 0, n3)>>
      /\ rd' = Consume(r3, n3)
  BY DEF OneByOne
<1>2. left \in Int /\ left - n1 \in Int /\ left - n1 - n2 \in Int /\ n1 \in Nat /\ n2 \in Nat /\ n3 \in Nat
  BY Types DEF Sound
<1> HIDE DEF left
<1>3. Takes(r1, n1, left)
  BY ReadyTakes DEF left
<1> HIDE DEF r1
<1>4. /\ Peek(r1, 0, n1) = Source!Last(left, n1) /\ Sound(Consume(r1, n1))
      /\ Consume(r1, n1).source = rd.source /\ BitsRemaining(Consume(r1, n1)) = left - n1
  BY <1>2, <1>3, TakenIsLast
<1>5. Takes(r2, n2, left - n1)
  BY <1>4, ReadyTakes
<1> HIDE DEF r2
<1>6. /\ Peek(r2, 0, n2) = Source!Last(left - n1, n2) /\ Sound(Consume(r2, n2))
      /\ Consume(r2, n2).source = rd.source /\ BitsRemaining(Consume(r2, n2)) = left - n1 - n2
  BY <1>2, <1>5, TakenIsLast
<1>7. Takes(r3, n3, left - n1 - n2)
  BY <1>6, ReadyTakes
<1> HIDE DEF r3
<1>8. /\ Peek(r3, 0, n3) = Source!Last(left - n1 - n2, n3) /\ Sound(rd')
      /\ rd'.source = rd.source /\ BitsRemaining(rd') = left - n1 - n2 - n3
  BY <1>1, <1>2, <1>7, TakenIsLast
<1>9. BitsRemaining(rd)' = BitsRemaining(rd')
  BY DEF BitsRemaining
<1> QED
  BY <1>1, <1>4, <1>6, <1>8, <1>9 DEF Source!GetBitsTriple, left

-----------------------------------------------------------------------------
\* The reader is sound at first, and every call keeps it so and is a call of the
\* plain reader.
LEMMA InitIsSound == Init => Sound(rd) /\ Source!Init
<1> SUFFICES ASSUME Init PROVE Sound(rd) /\ Source!Init
  OBVIOUS
<1>1. PICK source \in Sources \cap Nat : rd = New(source)
  BY DEF Init
<1>2. Sound(rd) /\ BitsRemaining(rd) = 8 * source /\ rd.source = source
  BY <1>1, NewIsSound DEF New
<1> QED
  BY <1>1, <1>2 DEF Init, Source!Init

LEMMA NextIsSound == Sound(rd) /\ [Next]_readerVars => Sound(rd)' /\ [Source!Next]_readerVars
<1> SUFFICES ASSUME Sound(rd), [Next]_readerVars PROVE Sound(rd)' /\ [Source!Next]_readerVars
  OBVIOUS
<1>1. Sound(rd)' <=> Sound(rd')
  BY DEF Sound, Readers, IndexFits, ContainerMatches
<1>2. CASE UNCHANGED readerVars
  BY <1>1, <1>2 DEF readerVars
<1>3. ASSUME NEW n \in Widths, GetBits(n) PROVE Sound(rd') /\ Source!Next
  BY <1>3, GetBitsIsRight DEF Source!Next
<1>4. ASSUME NEW n1 \in 0..56, NEW n2 \in 0..56, NEW n3 \in 0..56, GetBitsTriple(n1, n2, n3)
      PROVE  Sound(rd') /\ Source!GetBitsTriple(n1, n2, n3)
  <2>1. CASE n1 + n2 + n3 <= 56
    <3>1. ThreeAtOnce(n1, n2, n3)
      BY <1>4, <2>1, Zenon DEF GetBitsTriple
    <3> QED
      BY <2>1, <3>1, ThreeAtOnceIsRight, Zenon
  <2>2. CASE ~(n1 + n2 + n3 <= 56)
    <3>1. OneByOne(n1, n2, n3)
      BY <1>4, <2>2, Zenon DEF GetBitsTriple
    <3> QED
      BY <3>1, OneByOneIsRight, Zenon
  <2> QED
    BY <2>1, <2>2, Zenon
<1>5. ASSUME NEW t \in Triples, GetBitsTriple(t[1], t[2], t[3]) PROVE Sound(rd') /\ Source!Next
  <2>1. {t[1], t[2], t[3]} \subseteq 0..56
    BY <1>5, Zenon DEF GetBitsTriple
  <2>2. t[1] \in 0..56 /\ t[2] \in 0..56 /\ t[3] \in 0..56
    BY <2>1, Zenon
  <2>3. Sound(rd') /\ Source!GetBitsTriple(t[1], t[2], t[3])
    BY <1>4, <1>5, <2>2, Zenon
  <2> QED
    BY <2>3, Zenon DEF Source!Next
<1> QED
  BY <1>1, <1>2, <1>3, <1>5 DEF Next

\* In every state the container holds the bits that come next (refill of
\* BitReaderReversed): no reload loses, repeats or invents one.
THEOREM ReaderStaysSound == Spec => []Sound(rd)
  BY InitIsSound, NextIsSound, PTL DEF Spec

\* The reader with the container is the plain reader: get_bits and
\* get_bits_triple return the bits of the source from its end, and zeros behind
\* them, for all sources, widths and sequences of calls.
THEOREM ReaderImplementsSource == Spec => ImplementsBitSource
<1>1. Spec => []Sound(rd)
  BY ReaderStaysSound
<1>2. Init => Source!Init
  BY InitIsSound
<1>3. Sound(rd) /\ [Next]_readerVars => [Source!Next]_readerVars
  BY NextIsSound
<1> QED
  BY <1>1, <1>2, <1>3, PTL DEF Spec, ImplementsBitSource

-----------------------------------------------------------------------------
(* The writer.                                                             *)

Writers == [output : Seq(Int), partial : [Places -> Int], bits_in_partial : 0..63, bit_idx : Nat]

\* Whole bytes are in the output, and above the bits that wait are zeros.
Orderly(r) ==
    /\ r \in Writers
    /\ r.bit_idx = Len(r.output) /\ r.bit_idx % 8 = 0
    /\ \A i \in Places : i >= r.bits_in_partial => r.partial[i] = 0

LEMMA WriterTypes ==
    ASSUME NEW r, Orderly(r)
    PROVE  /\ r.output \in Seq(Int) /\ r.partial \in [Places -> Int] /\ Len(r.output) = r.bit_idx
           /\ r.bits_in_partial \in 0..63 /\ r.bit_idx \in Nat /\ Index(r) \in Nat
           /\ Index(r) = r.bit_idx + r.bits_in_partial
           /\ \A i \in Places : i >= r.bits_in_partial => r.partial[i] = 0
           /\ r.bit_idx % 8 = 0
<1>1. /\ r.output \in Seq(Int) /\ r.partial \in [Places -> Int]
      /\ r.bits_in_partial \in 0..63 /\ r.bit_idx \in Nat
  BY DEF Orderly, Writers
<1>2. /\ Len(r.output) = r.bit_idx /\ r.bit_idx % 8 = 0
      /\ \A i \in Places : i >= r.bits_in_partial => r.partial[i] = 0
  BY DEF Orderly
<1>3. Index(r) = r.bit_idx + r.bits_in_partial
  BY DEF Index
<1>4. Index(r) \in Nat
  <2>1. r.bits_in_partial \in 0..63 /\ r.bit_idx \in Nat
    BY <1>1
  <2> DEFINE b == r.bits_in_partial
             x == r.bit_idx
  <2> HIDE DEF b, x
  <2>2. b \in 0..63 /\ x \in Nat
    BY <2>1 DEF b, x
  <2>3. x + b \in Nat
    BY <2>2
  <2> QED
    BY <1>3, <2>3 DEF b, x
<1> QED
  BY <1>1, <1>2, <1>3, <1>4, Zenon

\* So many bytes of a word.
LEMMA BytesOfWord ==
    ASSUME NEW word \in [Places -> Int], NEW n \in 0..8
    PROVE  /\ LeBytes(word, n) \in Seq(Int) /\ Len(LeBytes(word, n)) = 8 * n
           /\ \A i \in 1..(8 * n) : LeBytes(word, n)[i] = word[i - 1]
<1>1. 8 * n \in Nat /\ 8 * n <= 64
  OBVIOUS
<1>2. \A i \in 1..(8 * n) : word[i - 1] \in Int
  BY <1>1 DEF Places
<1> DEFINE m == 8 * n
           bits == [i \in 1..m |-> word[i - 1]]
<1> HIDE DEF m
<1>3. bits \in Seq(Int) /\ Len(bits) = m /\ \A i \in 1..m : bits[i] = word[i - 1]
  BY <1>1, <1>2 DEF m
<1> QED
  BY <1>3 DEF LeBytes, m

\* Two pieces in a row.
LEMMA InARow ==
    ASSUME NEW a \in Seq(Int), NEW b \in Seq(Int)
    PROVE  /\ a \o b \in Seq(Int) /\ Len(a \o b) = Len(a) + Len(b)
           /\ Len(a) \in Nat /\ Len(b) \in Nat
           /\ \A i \in 1..Len(a) : (a \o b)[i] = a[i]
           /\ \A i \in 1..Len(b) : (a \o b)[Len(a) + i] = b[i]
  OBVIOUS

LEMMA SameBits ==
    ASSUME NEW a \in Seq(Int), NEW b \in Seq(Int), Len(a) = Len(b),
           \A i \in 1..Len(a) : a[i] = b[i]
    PROVE  a = b
  BY SMTT(30)

LEMMA WrittenAt ==
    ASSUME NEW r, Orderly(r)
    PROVE  /\ Written(r) \in Seq(Int) /\ Len(Written(r)) = Index(r)
           /\ \A j \in 1..r.bit_idx : Written(r)[j] = r.output[j]
           /\ \A i \in 1..r.bits_in_partial : Written(r)[r.bit_idx + i] = r.partial[i - 1]
<1> DEFINE o == r.output
           b == r.bits_in_partial
           all == LeBytes(r.partial, 8)
           waiting == SubSeq(all, 1, b)
<1>1. /\ o \in Seq(Int) /\ Len(o) = r.bit_idx /\ b \in 0..63 /\ Index(r) = r.bit_idx + b
      /\ r.partial \in [Places -> Int]
  BY WriterTypes
<1>2. all \in Seq(Int) /\ Len(all) = 64 /\ \A i \in 1..64 : all[i] = r.partial[i - 1]
  <2>1. 8 \in 0..8 /\ 8 * 8 = 64
    OBVIOUS
  <2>2. /\ LeBytes(r.partial, 8) \in Seq(Int) /\ Len(LeBytes(r.partial, 8)) = 8 * 8
        /\ \A i \in 1..(8 * 8) : LeBytes(r.partial, 8)[i] = r.partial[i - 1]
    BY <1>1, <2>1, BytesOfWord, Zenon
  <2> QED
    BY <2>1, <2>2
<1> HIDE DEF all, b
<1>3. waiting \in Seq(Int) /\ Len(waiting) = b /\ \A i \in 1..b : waiting[i] = all[i]
  <2>1. b \in 0..63 /\ all \in Seq(Int) /\ Len(all) = 64
    BY <1>1, <1>2
  <2>2. b \in Nat /\ b <= Len(all) /\ all \in Seq(Int)
    BY <2>1
  <2> QED
    BY <2>2
<1>4. \A i \in 1..b : i \in 1..64
  BY <1>1
<1>5. Written(r) = o \o waiting
  BY DEF Written, b, all
<1> HIDE DEF o, waiting
<1>6. /\ o \o waiting \in Seq(Int) /\ Len(o \o waiting) = Len(o) + Len(waiting)
      /\ \A i \in 1..Len(o) : (o \o waiting)[i] = o[i]
      /\ \A i \in 1..Len(waiting) : (o \o waiting)[Len(o) + i] = waiting[i]
  BY <1>1, <1>3, InARow
<1>7. \A i \in 1..b : waiting[i] = r.partial[i - 1]
  BY <1>2, <1>3, <1>4
<1>8. /\ Written(r) \in Seq(Int) /\ Len(Written(r)) = r.bit_idx + b
      /\ \A j \in 1..r.bit_idx : Written(r)[j] = o[j]
      /\ \A i \in 1..b : Written(r)[r.bit_idx + i] = r.partial[i - 1]
  BY <1>1, <1>3, <1>5, <1>6, <1>7
<1> QED
  BY <1>1, <1>8 DEF o, b

LEMMA NewBits ==
    ASSUME NEW length \in Nat, NEW n \in Nat
    PROVE  /\ Sink!New(length, n) \in Seq(Int) /\ Len(Sink!New(length, n)) = n
           /\ \A i \in 1..n : Sink!New(length, n)[i] = length + i
  BY DEF Sink!New

\* A writer that has more: the rest as before, and each new bit at its place.
LEMMA Extended ==
    ASSUME NEW r, Orderly(r), NEW s, Orderly(s), NEW n \in Nat, Index(s) = Index(r) + n,
           \A j \in 1..Index(r) : Written(s)[j] = Written(r)[j],
           \A i \in 1..n : Written(s)[Index(r) + i] = Index(r) + i
    PROVE  Written(s) = Written(r) \o Sink!New(Index(r), n)
<1> DEFINE a == Written(r)
           b == Sink!New(Index(r), n)
           l == Index(r)
           all == Written(s)
<1>1. /\ a \in Seq(Int) /\ Len(a) = l /\ l \in Nat /\ all \in Seq(Int) /\ Len(all) = l + n
  BY WrittenAt, WriterTypes
<1>2. b \in Seq(Int) /\ Len(b) = n /\ \A i \in 1..n : b[i] = l + i
  BY <1>1, NewBits
<1>3. /\ \A j \in 1..l : all[j] = a[j]
      /\ \A i \in 1..n : all[l + i] = l + i
  OBVIOUS
<1> HIDE DEF a, b, l, all
<1>4. /\ a \o b \in Seq(Int) /\ Len(a \o b) = l + n
      /\ \A i \in 1..l : (a \o b)[i] = a[i]
      /\ \A i \in 1..n : (a \o b)[l + i] = b[i]
  BY <1>1, <1>2, InARow
<1>5. ASSUME NEW j \in 1..Len(all) PROVE all[j] = (a \o b)[j]
  <2>0. j \in 1..(l + n) /\ l \in Nat
    BY <1>1
  <2>1. CASE j <= l
    <3>1. j \in 1..l
      BY <2>0, <2>1
    <3> QED
      BY <1>3, <1>4, <3>1
  <2>2. CASE ~(j <= l)
    <3>1. j - l \in 1..n /\ l + (j - l) = j
      BY <2>0, <2>2
    <3> DEFINE i == j - l
    <3> HIDE DEF i
    <3>2. i \in 1..n /\ l + i = j
      BY <3>1 DEF i
    <3>3. all[l + i] = (a \o b)[l + i]
      BY <1>2, <1>3, <1>4, <3>2
    <3> QED
      BY <3>2, <3>3
  <2> QED
    BY <2>1, <2>2
<1>6. all = a \o b
  BY <1>1, <1>4, <1>5, SameBits
<1> QED
  BY <1>6 DEF a, b, l, all

-----------------------------------------------------------------------------
(* Writing bits.                                                           *)

LEMMA OrOfZero == \A a \in Int : Or(a, 0) = a /\ Or(0, a) = a
  BY DEF Or

LEMMA ShrShifts ==
    ASSUME NEW word \in [Places -> Int], NEW n \in 0..64
    PROVE  /\ Shr(word, n) \in [Places -> Int]
           /\ \A i \in Places : i + n <= 63 => i + n \in Places /\ Shr(word, n)[i] = word[i + n]
           /\ \A i \in Places : i + n > 63 => Shr(word, n)[i] = 0
<1>1. \A i \in Places : i + n <= 63 => i + n \in Places
  BY DEF Places
<1>2. \A i \in Places : (IF i + n > 63 THEN 0 ELSE word[i + n]) \in Int
  <2> SUFFICES ASSUME NEW i \in Places PROVE (IF i + n > 63 THEN 0 ELSE word[i + n]) \in Int
    OBVIOUS
  <2>1. CASE i + n > 63
    BY <2>1
  <2>2. CASE ~(i + n > 63)
    <3>1. i + n \in Places
      BY <1>1, <2>2 DEF Places
    <3>2. word[i + n] \in Int
      BY <3>1
    <3> QED
      BY <2>2, <3>2
  <2> QED
    BY <2>1, <2>2
<1>3. Shr(word, n) \in [Places -> Int]
  BY <1>2 DEF Shr
<1>4. \A i \in Places : i + n <= 63 => ~(i + n > 63)
  BY DEF Places
<1>5. \A i \in Places : Shr(word, n)[i] = IF i + n > 63 THEN 0 ELSE word[i + n]
  BY DEF Shr
<1> QED
  BY <1>1, <1>3, <1>4, <1>5, Zenon

\* A word whose upper bits are zeros, and a value with these zeros shifted up to them.
LEMMA OrWordJoins ==
    ASSUME NEW word \in [Places -> Int], NEW value \in [Places -> Int], NEW n \in 0..63,
           \A i \in Places : i >= n => word[i] = 0
    PROVE  LET both == OrWord(word, Shl(value, n))
           IN  /\ both \in [Places -> Int]
               /\ \A i \in Places : i < n => both[i] = word[i]
               /\ \A i \in Places : i >= n => i - n \in Places /\ both[i] = value[i - n]
<1> DEFINE up == Shl(value, n)
           both == OrWord(word, up)
<1>1. n \in 0..64
  OBVIOUS
<1>2. /\ up \in [Places -> Int]
      /\ \A i \in Places : i < n => up[i] = 0
      /\ \A i \in Places : i >= n => i - n \in Places /\ up[i] = value[i - n]
  BY <1>1, ShlShifts, Zenon
<1> HIDE DEF up
<1>3. \A i \in Places : both[i] = Or(word[i], up[i])
  BY DEF OrWord
<1>4. \A i \in Places : word[i] \in Int /\ up[i] \in Int
  BY <1>2
<1>5. \A i \in Places : i < n => both[i] = word[i]
  BY <1>2, <1>3, <1>4, OrOfZero, Zenon
<1>6. \A i \in Places : i >= n => both[i] = up[i]
  BY <1>3, <1>4, OrOfZero, Zenon
<1>7. \A i \in Places : both[i] \in Int
  <2>1. \A i \in Places : i < n \/ i >= n
    BY DEF Places
  <2> QED
    BY <1>4, <1>5, <1>6, <2>1
<1>8. both = [i \in Places |-> both[i]]
  BY DEF OrWord
<1>9. both \in [Places -> Int]
  <2> HIDE DEF both
  <2> QED
    BY <1>7, <1>8
<1> QED
  BY <1>2, <1>5, <1>6, <1>9, Zenon DEF up

\* The value of the next n bits.
LEMMA ValueBits ==
    ASSUME NEW r, Orderly(r), NEW n \in 0..64
    PROVE  /\ Value(r, n) \in [Places -> Int]
           /\ \A i \in Places : i < n => Value(r, n)[i] = Index(r) + i + 1
           /\ \A i \in Places : i >= n => Value(r, n)[i] = 0
<1> DEFINE l == Index(r)
<1>1. l \in Nat
  BY WriterTypes
<1> HIDE DEF l
<1>2. Value(r, n) = [i \in Places |-> IF i < n THEN l + i + 1 ELSE 0]
  BY DEF Value, l
<1>3. \A i \in Places : i \in Int
  BY DEF Places
<1>4. Value(r, n) \in [Places -> Int]
  BY <1>1, <1>2, <1>3
<1>5. \A i \in Places : i >= n => ~(i < n)
  BY <1>3
<1>6. \A i \in Places : Value(r, n)[i] = IF i < n THEN l + i + 1 ELSE 0
  BY <1>2
<1> QED
  BY <1>4, <1>5, <1>6, Zenon DEF l

\* The bits fit into the word.
LEMMA WarmWrites ==
    ASSUME NEW r, Orderly(r), NEW n \in 1..64, n + r.bits_in_partial < 64
    PROVE  LET s == Warm(r, Value(r, n), n)
           IN  Orderly(s) /\ Written(s) = Written(r) \o Sink!New(Index(r), n) /\ Index(s) = Index(r) + n
<1> DEFINE s == Warm(r, Value(r, n), n)
           b == r.bits_in_partial
           x == r.bit_idx
           p == r.partial
           v == Value(r, n)
           q == OrWord(p, Shl(v, b))
<1>1. /\ r.output \in Seq(Int) /\ p \in [Places -> Int] /\ Len(r.output) = x
      /\ b \in 0..63 /\ x \in Nat /\ x % 8 = 0 /\ Index(r) = x + b
      /\ \A i \in Places : i >= b => p[i] = 0
  BY WriterTypes
<1>2. /\ v \in [Places -> Int] /\ \A i \in Places : i < n => v[i] = Index(r) + i + 1
      /\ \A i \in Places : i >= n => v[i] = 0
  <2>1. n \in 0..64
    OBVIOUS
  <2> QED
    BY <2>1, ValueBits, Zenon
<1> HIDE DEF v
<1>3. /\ q \in [Places -> Int] /\ \A i \in Places : i < b => q[i] = p[i]
      /\ \A i \in Places : i >= b => i - b \in Places /\ q[i] = v[i - b]
  <2> HIDE DEF p, b
  <2>0. p \in [Places -> Int] /\ v \in [Places -> Int] /\ b \in 0..63
        /\ \A i \in Places : i >= b => p[i] = 0
    BY <1>1, <1>2
  <2>1. LET both == OrWord(p, Shl(v, b))
        IN  /\ both \in [Places -> Int]
            /\ \A i \in Places : i < b => both[i] = p[i]
            /\ \A i \in Places : i >= b => i - b \in Places /\ both[i] = v[i - b]
    BY <2>0, OrWordJoins, Zenon
  <2> QED
    BY <2>1, Zenon
<1> HIDE DEF q
<1>4. /\ s.output = r.output /\ s.partial = q /\ s.bits_in_partial = b + n /\ s.bit_idx = x
      /\ s = [output |-> r.output, partial |-> q, bits_in_partial |-> b + n, bit_idx |-> x]
  <2>1. r = [output |-> r.output, partial |-> p, bits_in_partial |-> b, bit_idx |-> x]
    BY DEF Orderly, Writers
  <2>2. s = [r EXCEPT !.partial = q, !.bits_in_partial = b + n]
    BY DEF Warm, q, v
  <2> HIDE DEF s
  <2> QED
    BY <2>1, <2>2
<1> HIDE DEF s, b, x, p
<1>0. b \in 0..63 /\ x \in Nat /\ n + b < 64 /\ n \in 1..64
  BY <1>1 DEF b
<1>5. b + n \in 0..63 /\ b + n \in Nat
  BY <1>0
<1>6. \A i \in Places : i >= b + n => q[i] = 0
  <2> SUFFICES ASSUME NEW i \in Places, i >= b + n PROVE q[i] = 0
    OBVIOUS
  <2>1. i \in Int /\ i >= b /\ i - b >= n
    BY <1>0 DEF Places
  <2> QED
    BY <1>2, <1>3, <2>1
<1>7. Orderly(s)
  <2>1. s \in Writers
    BY <1>1, <1>3, <1>4, <1>5 DEF Writers
  <2> QED
    BY <1>1, <1>4, <1>6, <2>1 DEF Orderly
<1>8. Index(s) = Index(r) + n
  <2>1. Index(s) = x + (b + n)
    BY <1>4 DEF Index
  <2>2. Index(r) = x + b
    BY <1>1
  <2> QED
    BY <1>0, <2>1, <2>2
<1>9. /\ \A j \in 1..x : Written(r)[j] = r.output[j]
      /\ \A i \in 1..b : Written(r)[x + i] = p[i - 1]
      /\ \A j \in 1..x : Written(s)[j] = r.output[j]
      /\ \A i \in 1..(b + n) : Written(s)[x + i] = q[i - 1]
  <2>1. /\ \A j \in 1..s.bit_idx : Written(s)[j] = s.output[j]
        /\ \A i \in 1..s.bits_in_partial : Written(s)[s.bit_idx + i] = s.partial[i - 1]
    BY <1>7, WrittenAt, Zenon
  <2>2. /\ \A j \in 1..x : Written(r)[j] = r.output[j]
        /\ \A i \in 1..b : Written(r)[x + i] = p[i - 1]
    BY WrittenAt, Zenon DEF x, b, p
  <2> QED
    BY <1>4, <2>1, <2>2, Zenon
<1>10. \A j \in 1..Index(r) : Written(s)[j] = Written(r)[j]
  <2> SUFFICES ASSUME NEW j \in 1..(x + b) PROVE Written(s)[j] = Written(r)[j]
    BY <1>1
  <2>1. CASE j <= x
    <3>1. j \in 1..x
      BY <1>1, <2>1
    <3> QED
      BY <1>9, <3>1
  <2>2. CASE ~(j <= x)
    <3> DEFINE i == j - x
    <3>1. i \in 1..b /\ i \in 1..(b + n) /\ x + i = j /\ i - 1 \in Places /\ i - 1 < b
      BY <1>0, <2>2 DEF Places
    <3> HIDE DEF i
    <3>2. Written(s)[x + i] = q[i - 1] /\ Written(r)[x + i] = p[i - 1] /\ q[i - 1] = p[i - 1]
      BY <1>3, <1>9, <3>1
    <3> QED
      BY <3>1, <3>2
  <2> QED
    BY <2>1, <2>2
<1>11. \A i \in 1..n : Written(s)[Index(r) + i] = Index(r) + i
  <2> SUFFICES ASSUME NEW i \in 1..n PROVE Written(s)[x + b + i] = x + b + i
    BY <1>1
  <2> DEFINE k == b + i
  <2>1. /\ k \in 1..(b + n) /\ x + k = x + b + i /\ k - 1 \in Places /\ k - 1 >= b
        /\ (k - 1) - b = i - 1 /\ i - 1 < n /\ i - 1 \in Places
    BY <1>0 DEF Places
  <2> HIDE DEF k
  <2>2. Written(s)[x + k] = q[k - 1] /\ q[k - 1] = v[(k - 1) - b]
    BY <1>3, <1>9, <2>1
  <2>3. v[i - 1] = Index(r) + (i - 1) + 1
    BY <1>2, <2>1
  <2>4. v[i - 1] = x + b + i
    BY <1>1, <2>3
  <2> QED
    BY <2>1, <2>2, <2>4
<1>12. Written(s) = Written(r) \o Sink!New(Index(r), n)
  <2>1. n \in Nat
    OBVIOUS
  <2> QED
    BY <1>7, <1>8, <1>10, <1>11, <2>1, Extended, Zenon
<1> QED
  BY <1>7, <1>8, <1>12 DEF s, v

\* With nothing in the word, all is in the output.
LEMMA AllIsOut ==
    ASSUME NEW s, Orderly(s), s.bits_in_partial = 0
    PROVE  Written(s) = s.output /\ Index(s) = s.bit_idx
<1>1. /\ s.output \in Seq(Int) /\ Len(s.output) = s.bit_idx /\ s.bit_idx \in Nat
      /\ Index(s) = s.bit_idx + s.bits_in_partial
  BY WriterTypes
<1>2. Index(s) = s.bit_idx
  BY <1>1
<1>3. /\ Written(s) \in Seq(Int) /\ Len(Written(s)) = s.bit_idx
      /\ \A j \in 1..s.bit_idx : Written(s)[j] = s.output[j]
  BY <1>2, WrittenAt, Zenon
<1> QED
  BY <1>1, <1>2, <1>3, SameBits

LEMMA FromIsOrderly ==
    ASSUME NEW output \in Seq(Int), Len(output) % 8 = 0
    PROVE  /\ Orderly(From(output)) /\ Written(From(output)) = output
           /\ Index(From(output)) = Len(output)
<1> DEFINE s == From(output)
<1>1. /\ s.output = output /\ s.partial = NoWord /\ s.bits_in_partial = 0
      /\ s.bit_idx = Len(output)
      /\ s = [output |-> output, partial |-> NoWord, bits_in_partial |-> 0, bit_idx |-> Len(output)]
  BY DEF From
<1>2. NoWord \in [Places -> Int] /\ \A i \in Places : NoWord[i] = 0
  BY DEF NoWord
<1>3. Len(output) \in Nat /\ 0 \in 0..63
  OBVIOUS
<1> HIDE DEF s
<1>4. Orderly(s)
  BY <1>1, <1>2, <1>3 DEF Orderly, Writers
<1> QED
  BY <1>1, <1>4, AllIsOut DEF s

LEMMA FlushedIsSame ==
    ASSUME NEW r, Orderly(r), Flushable(r)
    PROVE  LET s == Flushed(r)
           IN  /\ Orderly(s) /\ s.bits_in_partial = 0 /\ s.output = Written(r)
               /\ s.bit_idx = Index(r) /\ Written(s) = Written(r) /\ Index(s) = Index(r)
<1> DEFINE s == Flushed(r)
           b == r.bits_in_partial
           x == r.bit_idx
           p == r.partial
           o == r.output
           k == b \div 8
           bytes == LeBytes(p, k)
           out == o \o bytes
           q == Shr(p, b)
<1>1. /\ o \in Seq(Int) /\ p \in [Places -> Int] /\ Len(o) = x
      /\ b \in 0..63 /\ x \in Nat /\ x % 8 = 0 /\ Index(r) = x + b
      /\ \A i \in Places : i >= b => p[i] = 0
  BY WriterTypes
<1>2. b % 8 = 0
  BY DEF Flushable
<1>3. /\ s.output = out /\ s.partial = q /\ s.bits_in_partial = 0 /\ s.bit_idx = x + b
      /\ s = [output |-> out, partial |-> q, bits_in_partial |-> 0, bit_idx |-> x + b]
  BY DEF Flushed
<1> HIDE DEF s, b, x, p, o, q, out
<1>4. k \in 0..8 /\ 8 * k = b /\ b \in 0..64 /\ (x + b) % 8 = 0 /\ x + b \in Nat /\ 0 \in 0..63
  <2>1. b \in 0..63 /\ x \in Nat /\ x % 8 = 0
    BY <1>1
  <2> QED
    BY <1>2, <2>1
<1> HIDE DEF k, bytes
<1>5. bytes \in Seq(Int) /\ Len(bytes) = b /\ \A i \in 1..b : bytes[i] = p[i - 1]
  <2>1. /\ LeBytes(p, k) \in Seq(Int) /\ Len(LeBytes(p, k)) = 8 * k
        /\ \A i \in 1..(8 * k) : LeBytes(p, k)[i] = p[i - 1]
    BY <1>1, <1>4, BytesOfWord, Zenon
  <2> QED
    BY <1>4, <2>1 DEF bytes
<1>6. /\ out \in Seq(Int) /\ Len(out) = x + b
      /\ \A i \in 1..x : out[i] = o[i]
      /\ \A i \in 1..b : out[x + i] = bytes[i]
  <2>1. /\ o \o bytes \in Seq(Int) /\ Len(o \o bytes) = Len(o) + Len(bytes)
        /\ \A i \in 1..Len(o) : (o \o bytes)[i] = o[i]
        /\ \A i \in 1..Len(bytes) : (o \o bytes)[Len(o) + i] = bytes[i]
    BY <1>1, <1>5, InARow, Zenon
  <2> QED
    BY <1>1, <1>5, <2>1 DEF out
<1>7. q \in [Places -> Int] /\ \A i \in Places : q[i] = 0
  <2>1. /\ q \in [Places -> Int]
        /\ \A i \in Places : i + b <= 63 => i + b \in Places /\ q[i] = p[i + b]
        /\ \A i \in Places : i + b > 63 => q[i] = 0
    BY <1>1, <1>4, ShrShifts, Zenon DEF q
  <2>2. \A i \in Places : i + b >= b /\ (i + b <= 63 \/ i + b > 63)
    BY <1>4 DEF Places
  <2> QED
    BY <1>1, <2>1, <2>2, Zenon
<1>8. Orderly(s)
  BY <1>3, <1>4, <1>6, <1>7 DEF Orderly, Writers
<1>9. Written(s) = out /\ Index(s) = x + b
  BY <1>3, <1>8, AllIsOut
<1>10. Written(r) = out
  <2>1. /\ Written(r) \in Seq(Int) /\ Len(Written(r)) = x + b
        /\ \A j \in 1..x : Written(r)[j] = o[j]
        /\ \A i \in 1..b : Written(r)[x + i] = p[i - 1]
    BY <1>1, WrittenAt, Zenon DEF x, b, o, p
  <2>2. ASSUME NEW j \in 1..(x + b) PROVE Written(r)[j] = out[j]
    <3>1. CASE j <= x
      <4>1. j \in 1..x
        BY <1>4, <3>1
      <4> QED
        BY <1>6, <2>1, <4>1
    <3>2. CASE ~(j <= x)
      <4> DEFINE i == j - x
      <4>0. x \in Nat /\ b \in Nat
        BY <1>1, <1>4
      <4>1. i \in 1..b /\ x + i = j
        BY <3>2, <4>0
      <4> HIDE DEF i
      <4>2. Written(r)[x + i] = out[x + i]
        BY <1>5, <1>6, <2>1, <4>1
      <4> QED
        BY <4>1, <4>2
    <3> QED
      BY <3>1, <3>2
  <2> QED
    BY <1>6, <2>1, <2>2, SameBits
<1> QED
  BY <1>1, <1>3, <1>8, <1>9, <1>10 DEF s, x, b

\* The word is filled and goes out, whole bytes follow it, the rest waits.
LEMMA ColdWrites ==
    ASSUME NEW r, Orderly(r), NEW n \in 1..64, n + r.bits_in_partial >= 64, r.bits_in_partial > 0
    PROVE  LET s == Cold(r, Value(r, n), n)
           IN  Orderly(s) /\ Written(s) = Written(r) \o Sink!New(Index(r), n) /\ Index(s) = Index(r) + n
<1> DEFINE s == Cold(r, Value(r, n), n)
           b == r.bits_in_partial
           x == r.bit_idx
           p == r.partial
           o == r.output
           v == Value(r, n)
           free == 64 - b
           rest == n - free
           k == rest \div 8
           m == rest % 8
           full == OrWord(p, Shl(v, 64 - free))
           first == LeBytes(full, 8)
           high == Shr(v, free)
           then == LeBytes(high, k)
           up == Shr(high, 8 * k)
           q == Mask(up, m)
           out == o \o first \o then
<1>1. /\ o \in Seq(Int) /\ p \in [Places -> Int] /\ Len(o) = x
      /\ b \in 0..63 /\ x \in Nat /\ x % 8 = 0 /\ Index(r) = x + b
      /\ \A i \in Places : i >= b => p[i] = 0
  BY WriterTypes
<1>2. /\ v \in [Places -> Int] /\ \A i \in Places : i < n => v[i] = x + b + i + 1
  <2>1. n \in 0..64
    OBVIOUS
  <2>2. v \in [Places -> Int] /\ \A i \in Places : i < n => v[i] = Index(r) + i + 1
    BY <2>1, ValueBits, Zenon
  <2> QED
    BY <1>1, <2>2
<1>3. s = [output |-> out, partial |-> q, bits_in_partial |-> m, bit_idx |-> x + 64 + 8 * k]
  BY DEF Cold
<1>4. b \in 1..63 /\ x \in Nat /\ n \in 1..64 /\ n + b >= 64 /\ x % 8 = 0
  BY <1>1
<1> HIDE DEF s, b, x, p, o, v, q, out
<1>5. /\ free \in 1..63 /\ rest \in 0..63 /\ k \in 0..8 /\ m \in 0..7 /\ rest = 8 * k + m
      /\ 64 - free = b /\ free + 8 * k + m = n /\ free \in 0..64 /\ 8 * k \in 0..64
  BY <1>4
<1> HIDE DEF free, rest, k, m
<1>6. /\ full \in [Places -> Int] /\ \A i \in Places : i < b => full[i] = p[i]
      /\ \A i \in Places : i >= b => i - b \in Places /\ full[i] = v[i - b]
  <2>1. LET both == OrWord(p, Shl(v, b))
        IN  /\ both \in [Places -> Int]
            /\ \A i \in Places : i < b => both[i] = p[i]
            /\ \A i \in Places : i >= b => i - b \in Places /\ both[i] = v[i - b]
    BY <1>1, <1>2, OrWordJoins, Zenon
  <2> QED
    BY <1>5, <2>1
<1> HIDE DEF full
<1>7. first \in Seq(Int) /\ Len(first) = 64 /\ \A i \in 1..64 : first[i] = full[i - 1]
  <2>1. 8 \in 0..8 /\ 8 * 8 = 64
    OBVIOUS
  <2>2. /\ LeBytes(full, 8) \in Seq(Int) /\ Len(LeBytes(full, 8)) = 8 * 8
        /\ \A i \in 1..(8 * 8) : LeBytes(full, 8)[i] = full[i - 1]
    BY <1>6, <2>1, BytesOfWord, Zenon
  <2> QED
    BY <2>1, <2>2
<1>8. /\ high \in [Places -> Int]
      /\ \A i \in Places : i + free <= 63 => i + free \in Places /\ high[i] = v[i + free]
  BY <1>2, <1>5, ShrShifts, ZenonT(30)
<1> HIDE DEF first, high
<1>9. then \in Seq(Int) /\ Len(then) = 8 * k /\ \A i \in 1..(8 * k) : then[i] = high[i - 1]
  BY <1>5, <1>8, BytesOfWord, Zenon
<1>10. /\ up \in [Places -> Int]
       /\ \A i \in Places : i + 8 * k <= 63 => i + 8 * k \in Places /\ up[i] = high[i + 8 * k]
  BY <1>5, <1>8, ShrShifts, ZenonT(30)
<1> HIDE DEF then, up
<1>11. /\ q \in [Places -> Int] /\ \A i \in Places : i < m => q[i] = up[i]
       /\ \A i \in Places : i >= m => q[i] = 0
  <2>1. q = [i \in Places |-> IF i < m THEN up[i] ELSE 0]
    BY DEF q, Mask
  <2>2. \A i \in Places : (i >= m => ~(i < m)) /\ up[i] \in Int
    BY <1>5, <1>10 DEF Places
  <2>3. \A i \in Places : q[i] = IF i < m THEN up[i] ELSE 0
    BY <2>1
  <2>4. q \in [Places -> Int]
    BY <2>1, <2>2
  <2> QED
    BY <2>2, <2>3, <2>4, Zenon
\* What was written, part by part, and the names the new bits have.
<1>12. /\ out \in Seq(Int) /\ Len(out) = x + 64 + 8 * k
       /\ \A i \in 1..x : out[i] = o[i]
       /\ \A i \in 1..64 : out[x + i] = full[i - 1]
       /\ \A i \in 1..(8 * k) : out[x + 64 + i] = high[i - 1]
  <2> DEFINE two == o \o first
  <2>1. /\ two \in Seq(Int) /\ Len(two) = Len(o) + Len(first)
        /\ \A i \in 1..Len(o) : two[i] = o[i]
        /\ \A i \in 1..Len(first) : two[Len(o) + i] = first[i]
    BY <1>1, <1>7, InARow, ZenonT(30)
  <2>2. out = two \o then
    BY DEF out
  <2> HIDE DEF two
  <2>3. /\ two \o then \in Seq(Int) /\ Len(two \o then) = Len(two) + Len(then)
        /\ \A i \in 1..Len(two) : (two \o then)[i] = two[i]
        /\ \A i \in 1..Len(then) : (two \o then)[Len(two) + i] = then[i]
    BY <1>9, <2>1, InARow, Zenon
  <2>4. Len(two) = x + 64 /\ Len(o) = x /\ Len(first) = 64 /\ Len(then) = 8 * k
    BY <1>1, <1>7, <1>9, <2>1
  <2>5. /\ \A i \in 1..x : i \in 1..(x + 64)
        /\ \A i \in 1..64 : x + i \in 1..(x + 64)
    BY <1>4
  <2>6. out \in Seq(Int) /\ Len(out) = x + 64 + 8 * k
    BY <2>2, <2>3, <2>4
  <2>7. \A i \in 1..x : out[i] = o[i]
    BY <2>1, <2>2, <2>3, <2>4, <2>5
  <2>8. \A i \in 1..64 : out[x + i] = full[i - 1]
    <3> SUFFICES ASSUME NEW i \in 1..64 PROVE out[x + i] = full[i - 1]
      OBVIOUS
    <3>1. two[x + i] = first[i] /\ first[i] = full[i - 1]
      BY <1>7, <2>1, <2>4
    <3>2. out[x + i] = two[x + i]
      BY <2>2, <2>3, <2>4, <2>5
    <3> QED
      BY <3>1, <3>2
  <2>9. \A i \in 1..(8 * k) : out[x + 64 + i] = high[i - 1]
    <3> DEFINE l == 8 * k
               y == x + 64
    <3> HIDE DEF l, y
    <3>1. /\ \A i \in 1..l : out[y + i] = then[i]
          /\ \A i \in 1..l : then[i] = high[i - 1]
      BY <1>9, <2>2, <2>3, <2>4 DEF l, y
    <3>2. \A i \in 1..l : out[y + i] = high[i - 1]
      BY <3>1, Zenon
    <3> QED
      BY <3>2 DEF l, y
  <2> QED
    BY <2>6, <2>7, <2>8, <2>9
<1>13. \A i \in 1..64 : i > b => full[i - 1] = x + i
  <2> SUFFICES ASSUME NEW i \in 1..64, i > b PROVE full[i - 1] = x + i
    OBVIOUS
  <2>1. i - 1 \in Places /\ i - 1 >= b /\ (i - 1) - b < n /\ (i - 1) - b \in Int
        /\ x + b + ((i - 1) - b) + 1 = x + i
    BY <1>4 DEF Places
  <2>2. (i - 1) - b \in Places /\ full[i - 1] = v[(i - 1) - b]
    BY <1>6, <2>1
  <2>3. v[(i - 1) - b] = x + b + ((i - 1) - b) + 1
    BY <1>2, <2>1, <2>2, Zenon
  <2> QED
    BY <2>1, <2>2, <2>3, Zenon
<1>14. \A i \in 1..(8 * k) : high[i - 1] = x + 64 + i
  <2> SUFFICES ASSUME NEW i \in 1..(8 * k) PROVE high[i - 1] = x + 64 + i
    OBVIOUS
  <2>1. i - 1 \in Places /\ (i - 1) + free <= 63 /\ (i - 1) + free < n
        /\ x + b + ((i - 1) + free) + 1 = x + 64 + i
    BY <1>4, <1>5 DEF Places
  <2>2. (i - 1) + free \in Places /\ high[i - 1] = v[(i - 1) + free]
    BY <1>8, <2>1, Zenon
  <2>3. v[(i - 1) + free] = x + b + ((i - 1) + free) + 1
    BY <1>2, <2>1, <2>2, Zenon
  <2> QED
    BY <2>1, <2>2, <2>3, Zenon
<1>15. \A i \in 1..m : q[i - 1] = x + 64 + 8 * k + i
  <2> SUFFICES ASSUME NEW i \in 1..m PROVE q[i - 1] = x + 64 + 8 * k + i
    OBVIOUS
  <2> DEFINE a == i - 1
             c == a + 8 * k
  <2>1. a \in Places /\ a < m /\ c <= 63 /\ c + free <= 63 /\ c + free < n
        /\ x + b + (c + free) + 1 = x + 64 + 8 * k + i
    BY <1>4, <1>5 DEF Places
  <2>2. q[a] = up[a]
    BY <1>11, <2>1
  <2>3. c \in Places /\ up[a] = high[c]
    BY <1>10, <2>1, Zenon
  <2>4. c + free \in Places /\ high[c] = v[c + free]
    <3> HIDE DEF c
    <3> QED
      BY <1>8, <2>1, <2>3, Zenon
  <2>5. v[c + free] = x + b + (c + free) + 1
    BY <1>2, <2>1, <2>4, Zenon
  <2> QED
    BY <2>1, <2>2, <2>3, <2>4, <2>5, Zenon
<1>16. Orderly(s)
  <2>1. m \in 0..63 /\ x + 64 + 8 * k \in Nat /\ (x + 64 + 8 * k) % 8 = 0
    BY <1>4, <1>5
  <2>2. s \in Writers
    BY <1>3, <1>11, <1>12, <2>1 DEF Writers
  <2> QED
    BY <1>3, <1>11, <1>12, <2>1, <2>2 DEF Orderly

<1>17. Index(s) = Index(r) + n
  <2>1. Index(s) = (x + 64 + 8 * k) + m
    BY <1>3 DEF Index
  <2>2. Index(r) = x + b
    BY <1>1
  <2> QED
    BY <1>4, <1>5, <2>1, <2>2
<1>18. /\ \A j \in 1..x : Written(r)[j] = o[j]
       /\ \A i \in 1..b : Written(r)[x + i] = p[i - 1]
       /\ \A j \in 1..(x + 64 + 8 * k) : Written(s)[j] = out[j]
       /\ \A i \in 1..m : Written(s)[x + 64 + 8 * k + i] = q[i - 1]
  <2>1. /\ \A j \in 1..s.bit_idx : Written(s)[j] = s.output[j]
        /\ \A i \in 1..s.bits_in_partial : Written(s)[s.bit_idx + i] = s.partial[i - 1]
    BY <1>16, WrittenAt, Zenon
  <2>2. /\ \A j \in 1..x : Written(r)[j] = o[j]
        /\ \A i \in 1..b : Written(r)[x + i] = p[i - 1]
    BY WrittenAt, Zenon DEF x, b, p, o
  <2>3. s.output = out /\ s.partial = q /\ s.bits_in_partial = m /\ s.bit_idx = x + 64 + 8 * k
    BY <1>3
  <2> QED
    BY <2>1, <2>2, <2>3, Zenon
<1>19. \A j \in 1..Index(r) : Written(s)[j] = Written(r)[j]
  <2> SUFFICES ASSUME NEW j \in 1..(x + b) PROVE Written(s)[j] = Written(r)[j]
    BY <1>1
  <2>0. j \in 1..(x + 64 + 8 * k)
    BY <1>4, <1>5
  <2>1. CASE j <= x
    <3>1. j \in 1..x
      BY <1>4, <2>1
    <3> QED
      BY <1>12, <1>18, <2>0, <3>1
  <2>2. CASE ~(j <= x)
    <3> DEFINE i == j - x
    <3>1. i \in 1..b /\ i \in 1..64 /\ x + i = j /\ i - 1 \in Places /\ i - 1 < b
      BY <1>4, <2>2 DEF Places
    <3> HIDE DEF i
    <3>2. Written(s)[x + i] = full[i - 1] /\ Written(r)[x + i] = p[i - 1] /\ full[i - 1] = p[i - 1]
      BY <1>6, <1>12, <1>18, <2>0, <3>1
    <3> QED
      BY <3>1, <3>2
  <2> QED
    BY <2>1, <2>2
<1>20. \A i \in 1..n : Written(s)[Index(r) + i] = Index(r) + i
  <2> SUFFICES ASSUME NEW i \in 1..n PROVE Written(s)[x + b + i] = x + b + i
    BY <1>1
  <2>1. CASE b + i <= 64
    <3> DEFINE j == b + i
    <3>1. j \in 1..64 /\ j > b /\ x + j = x + b + i /\ x + j \in 1..(x + 64 + 8 * k)
      BY <1>4, <1>5, <2>1
    <3> HIDE DEF j
    <3>2. Written(s)[x + j] = x + j
      BY <1>12, <1>13, <1>18, <3>1
    <3> QED
      BY <3>1, <3>2
  <2>2. CASE b + i > 64 /\ b + i <= 64 + 8 * k
    <3> DEFINE j == (b + i) - 64
    <3>1. j \in 1..(8 * k) /\ x + 64 + j = x + b + i /\ x + 64 + j \in 1..(x + 64 + 8 * k)
      BY <1>4, <1>5, <2>2
    <3> HIDE DEF j
    <3>2. Written(s)[x + 64 + j] = x + 64 + j
      <4>1. out[x + 64 + j] = high[j - 1] /\ high[j - 1] = x + 64 + j
        BY <1>12, <1>14, <3>1, Zenon
      <4>2. Written(s)[x + 64 + j] = out[x + 64 + j]
        BY <1>18, <3>1, Zenon
      <4> QED
        BY <4>1, <4>2, Zenon
    <3> QED
      BY <3>1, <3>2
  <2>3. CASE b + i > 64 + 8 * k
    <3> DEFINE j == (b + i) - (64 + 8 * k)
    <3>1. j \in 1..m /\ x + 64 + 8 * k + j = x + b + i
      BY <1>4, <1>5, <2>3
    <3> HIDE DEF j
    <3>2. Written(s)[x + 64 + 8 * k + j] = x + 64 + 8 * k + j
      BY <1>15, <1>18, <3>1
    <3> QED
      BY <3>1, <3>2
  <2> QED
    BY <1>4, <1>5, <2>1, <2>2, <2>3
<1>21. Written(s) = Written(r) \o Sink!New(Index(r), n)
  <2>1. n \in Nat
    OBVIOUS
  <2> QED
    BY <1>16, <1>17, <1>19, <1>20, <2>1, Extended, Zenon
<1> QED
  BY <1>16, <1>17, <1>21 DEF s, v

-----------------------------------------------------------------------------
(* Changing bits.                                                          *)

\* Where a bit stands in its byte.
LEMMA InItsByte ==
    ASSUME NEW p \in Nat, p >= 1
    PROVE  /\ (p - 1) \div 8 \in Nat /\ (p - 1) % 8 \in 0..7 /\ (p - 1) % 8 \in Places
           /\ p - 1 = 8 * ((p - 1) \div 8) + ((p - 1) % 8)
  BY DEF Places

\* A function on the places of a sequence is one.
LEMMA IsBits ==
    ASSUME NEW m, NEW l \in Nat, m = [p \in 1..l |-> m[p]], \A p \in 1..l : m[p] \in Int
    PROVE  m \in Seq(Int) /\ Len(m) = l
<1>1. m \in [1..l -> Int]
  OBVIOUS
<1> QED
  BY <1>1

\* Of byte k, the bits "kept" stay, the others are those of the word.
LEMMA ByteMerged ==
    ASSUME NEW output \in Seq(Int), NEW k \in Nat, NEW word \in [Places -> Int],
           NEW kept \in SUBSET (0..7), \A i \in kept : word[i] = 0
    PROVE  LET m == Merged(Kept(output, k, kept), k, word)
           IN  /\ m \in Seq(Int) /\ Len(m) = Len(output)
               /\ \A p \in 1..Len(output) :
                     m[p] = IF (p - 1) \div 8 = k /\ (p - 1) % 8 \notin kept
                            THEN word[(p - 1) % 8] ELSE output[p]
<1> DEFINE l == Len(output)
           left == Kept(output, k, kept)
           m == Merged(left, k, word)
<1>1. l \in Nat /\ \A p \in 1..l : output[p] \in Int
  OBVIOUS
<1>2. left = [p \in 1..l |-> IF (p - 1) \div 8 = k /\ (p - 1) % 8 \notin kept THEN 0 ELSE output[p]]
  BY DEF Kept
<1> HIDE DEF l, left
<1>3. left \in Seq(Int) /\ Len(left) = l
  BY <1>1, <1>2
<1>4. \A p \in 1..l :
         left[p] = IF (p - 1) \div 8 = k /\ (p - 1) % 8 \notin kept THEN 0 ELSE output[p]
  BY <1>2
<1>5. m = [p \in 1..l |-> IF (p - 1) \div 8 = k THEN Or(left[p], word[(p - 1) % 8]) ELSE left[p]]
  BY <1>3 DEF Merged
<1> HIDE DEF m
<1>6. ASSUME NEW p \in 1..l
      PROVE  /\ m[p] = IF (p - 1) \div 8 = k /\ (p - 1) % 8 \notin kept
                       THEN word[(p - 1) % 8] ELSE output[p]
             /\ m[p] \in Int
  <2>1. p \in Nat /\ p >= 1
    BY <1>1
  <2> DEFINE i == (p - 1) % 8
             c == (p - 1) \div 8
  <2>2. i \in Places
    BY <2>1, InItsByte
  <2>3. m[p] = IF c = k THEN Or(left[p], word[i]) ELSE left[p]
    BY <1>5
  <2>4. left[p] = IF c = k /\ i \notin kept THEN 0 ELSE output[p]
    BY <1>4
  <2> HIDE DEF i, c
  <2>5. word[i] \in Int /\ output[p] \in Int
    BY <1>1, <2>2
  <2>6. CASE c = k /\ i \notin kept
    <3>1. m[p] = Or(0, word[i])
      BY <2>3, <2>4, <2>6
    <3>2. m[p] = word[i]
      BY <2>5, <3>1, OrOfZero
    <3> QED
      BY <2>5, <2>6, <3>2 DEF i, c
  <2>7. CASE c = k /\ i \in kept
    <3>1. m[p] = Or(output[p], 0)
      BY <2>3, <2>4, <2>7
    <3>2. m[p] = output[p]
      BY <2>5, <3>1, OrOfZero
    <3> QED
      BY <2>5, <2>7, <3>2 DEF i, c
  <2>8. CASE c # k
    BY <2>3, <2>4, <2>5, <2>8 DEF i, c
  <2> QED
    BY <2>6, <2>7, <2>8
<1>7. m \in Seq(Int) /\ Len(m) = l
  <2>1. m = [p \in 1..l |-> m[p]]
    BY <1>5
  <2>2. \A p \in 1..l : m[p] \in Int
    BY <1>6, Zenon
  <2> QED
    BY <1>1, <2>1, <2>2, IsBits
<1> QED
  BY <1>6, <1>7 DEF m, l, left

\* The bits "from" + 1 to "to" are changed, and no others.
Changed(before, after, from, to) ==
    /\ after \in Seq(Int) /\ Len(after) = Len(before)
    /\ \A p \in 1..Len(before) : after[p] = IF from < p /\ p <= to THEN -p ELSE before[p]

\* The value that ChangeBits puts there.
ChangedValue(idx, n) == [i \in Places |-> IF i < n THEN -(idx + i + 1) ELSE 0]

LEMMA ChangedValueBits ==
    ASSUME NEW idx \in Nat, NEW n \in 0..64
    PROVE  /\ ChangedValue(idx, n) \in [Places -> Int]
           /\ \A i \in Places : i < n => ChangedValue(idx, n)[i] = -(idx + i + 1)
           /\ \A i \in Places : i >= n => ChangedValue(idx, n)[i] = 0
<1>1. \A i \in Places : i \in Int
  BY DEF Places
<1>2. ChangedValue(idx, n) \in [Places -> Int]
  BY <1>1 DEF ChangedValue
<1>3. \A i \in Places : i >= n => ~(i < n)
  BY <1>1
<1>4. \A i \in Places : ChangedValue(idx, n)[i] = IF i < n THEN -(idx + i + 1) ELSE 0
  BY DEF ChangedValue
<1> QED
  BY <1>2, <1>3, <1>4, Zenon

\* The upper bits of the first byte.
LEMMA FirstByteChanges ==
    ASSUME NEW output \in Seq(Int), NEW idx \in Nat, NEW n \in 0..64, NEW upper \in 0..7,
           upper <= n, upper = (8 - (idx % 8)) % 8
    PROVE  Changed(output, FirstByte(output, idx, ChangedValue(idx, n), upper), idx, idx + upper)
<1> DEFINE v == ChangedValue(idx, n)
           shift == 8 - upper
           k == idx \div 8
           kept == 0..(7 - upper)
           word == Shl(v, shift)
           m == Merged(Kept(output, k, kept), k, word)
<1>1. CASE upper = 0
  <2>1. FirstByte(output, idx, v, upper) = output
    BY <1>1 DEF FirstByte
  <2>2. \A p \in 1..Len(output) : ~(idx < p /\ p <= idx + upper)
    BY <1>1
  <2> QED
    BY <2>1, <2>2 DEF Changed
<1>2. CASE upper > 0
  <2>1. FirstByte(output, idx, v, upper) = m
    BY <1>2, SMTT(30) DEF FirstByte
  <2>2. /\ shift \in 0..64 /\ shift \in 1..7 /\ idx % 8 = shift /\ k \in Nat /\ idx = 8 * k + shift
        /\ kept \in SUBSET (0..7) /\ kept = 0..(shift - 1) /\ shift + upper = 8
    BY <1>2
  <2>3. /\ v \in [Places -> Int] /\ \A i \in Places : i < n => v[i] = -(idx + i + 1)
    BY ChangedValueBits, Zenon
  <2> HIDE DEF v, shift, k, kept
  <2>4. /\ word \in [Places -> Int]
        /\ \A i \in Places : i < shift => word[i] = 0
        /\ \A i \in Places : i >= shift => i - shift \in Places /\ word[i] = v[i - shift]
    BY <2>2, <2>3, ShlShifts, Zenon
  <2> HIDE DEF word
  <2>5. \A i \in kept : word[i] = 0
    <3>1. \A i \in kept : i \in Places /\ i < shift
      BY <2>2 DEF Places
    <3> QED
      BY <2>4, <3>1, Zenon
  <2>6. /\ m \in Seq(Int) /\ Len(m) = Len(output)
        /\ \A p \in 1..Len(output) :
              m[p] = IF (p - 1) \div 8 = k /\ (p - 1) % 8 \notin kept
                     THEN word[(p - 1) % 8] ELSE output[p]
    BY <2>2, <2>4, <2>5, ByteMerged, ZenonT(30)
  <2> HIDE DEF m
  <2>7. ASSUME NEW p \in 1..Len(output)
        PROVE  m[p] = IF idx < p /\ p <= idx + upper THEN -p ELSE output[p]
    <3> DEFINE i == (p - 1) % 8
               c == (p - 1) \div 8
    <3>1. c \in Nat /\ i \in 0..7 /\ i \in Places /\ p - 1 = 8 * c + i /\ p \in Nat
      BY InItsByte
    <3>2. m[p] = IF c = k /\ i \notin kept THEN word[i] ELSE output[p]
      BY <2>6
    <3> HIDE DEF i, c
    <3>3. c = k /\ i \notin kept <=> idx < p /\ p <= idx + upper
      BY <2>2, <3>1, SMTT(30)
    <3>4. CASE idx < p /\ p <= idx + upper
      <4>1. c = k /\ i \notin kept /\ i >= shift /\ i - shift < n /\ idx + (i - shift) + 1 = p
        BY <2>2, <3>1, <3>3, <3>4
      <4>2. i - shift \in Places /\ word[i] = v[i - shift]
        BY <2>4, <3>1, <4>1
      <4>3. v[i - shift] = -(idx + (i - shift) + 1)
        BY <2>3, <4>1, <4>2, Zenon
      <4>4. m[p] = -p
        BY <3>2, <4>1, <4>2, <4>3
      <4> QED
        BY <3>4, <4>4
    <3>5. CASE ~(idx < p /\ p <= idx + upper)
      BY <3>2, <3>3, <3>5
    <3> QED
      BY <3>4, <3>5
  <2>8. Changed(output, m, idx, idx + upper)
    BY <2>6, <2>7, Zenon DEF Changed
  <2> QED
    BY <2>1, <2>8 DEF v
<1> QED
  BY <1>1, <1>2

\* Whole bytes.
LEMMA BytesChange ==
    ASSUME NEW output \in Seq(Int), NEW idx \in Nat, NEW n \in 0..64, NEW upper \in 0..7,
           NEW first \in Nat, 8 * first = idx + upper, NEW bytes \in 0..8, upper + 8 * bytes <= n
    PROVE  Changed(output, Replaced(output, first, Shr(ChangedValue(idx, n), upper), bytes),
                   idx + upper, idx + upper + 8 * bytes)
<1> DEFINE v == ChangedValue(idx, n)
           word == Shr(v, upper)
           l == Len(output)
           m == Replaced(output, first, word, bytes)
<1>1. v \in [Places -> Int] /\ \A i \in Places : i < n => v[i] = -(idx + i + 1)
  BY ChangedValueBits, Zenon
<1> HIDE DEF v
<1>2. /\ word \in [Places -> Int]
      /\ \A i \in Places : i + upper <= 63 => i + upper \in Places /\ word[i] = v[i + upper]
  <2>1. upper \in 0..64
    OBVIOUS
  <2> QED
    BY <1>1, <2>1, ShrShifts, Zenon
<1> HIDE DEF word
<1>3. l \in Nat /\ \A p \in 1..l : output[p] \in Int
  OBVIOUS
<1>4. m = [p \in 1..l |-> IF (p - 1) \div 8 \in first..(first + bytes - 1)
                          THEN word[p - 1 - 8 * first] ELSE output[p]]
  BY DEF Replaced
<1> HIDE DEF l, m
<1>5. ASSUME NEW p \in 1..l
      PROVE  /\ m[p] = IF idx + upper < p /\ p <= idx + upper + 8 * bytes THEN -p ELSE output[p]
             /\ m[p] \in Int
  <2> DEFINE i == (p - 1) % 8
             c == (p - 1) \div 8
             j == p - 1 - 8 * first
  <2>1. c \in Nat /\ i \in 0..7 /\ p - 1 = 8 * c + i /\ p \in Nat
    <3>1. p \in Nat /\ p >= 1
      BY <1>3
    <3> QED
      BY <3>1, InItsByte
  <2>2. m[p] = IF c \in first..(first + bytes - 1) THEN word[j] ELSE output[p]
    BY <1>4
  <2>3. c \in first..(first + bytes - 1) <=> idx + upper < p /\ p <= idx + upper + 8 * bytes
    <3> HIDE DEF c, i
    <3> QED
      BY <2>1
  <2>4. CASE idx + upper < p /\ p <= idx + upper + 8 * bytes
    <3>1. j \in Places /\ j + upper <= 63 /\ j + upper < n /\ idx + (j + upper) + 1 = p
      BY <2>1, <2>4 DEF Places
    <3> HIDE DEF j, c
    <3>2. j + upper \in Places /\ word[j] = v[j + upper]
      BY <1>2, <3>1, Zenon
    <3>3. v[j + upper] = -(idx + (j + upper) + 1)
      BY <1>1, <3>1, <3>2, Zenon
    <3>4. m[p] = -p
      BY <2>2, <2>3, <2>4, <3>1, <3>2, <3>3
    <3> QED
      BY <2>1, <2>4, <3>4
  <2>5. CASE ~(idx + upper < p /\ p <= idx + upper + 8 * bytes)
    <3> HIDE DEF c, j
    <3> QED
      BY <1>3, <2>2, <2>3, <2>5
  <2> QED
    BY <2>4, <2>5
<1>6. m \in Seq(Int) /\ Len(m) = l
  <2>1. m = [p \in 1..l |-> m[p]]
    BY <1>4
  <2>2. \A p \in 1..l : m[p] \in Int
    BY <1>5, Zenon
  <2> QED
    BY <1>3, <2>1, <2>2, IsBits
<1> QED
  BY <1>5, <1>6, Zenon DEF Changed, m, l, word, v

\* The lower bits of the last byte.
LEMMA LastByteChanges ==
    ASSUME NEW output \in Seq(Int), NEW idx \in Nat, NEW n \in 0..64, NEW k \in Nat, NEW lower \in 0..7,
           NEW done \in 0..64, 8 * k = idx + done, done + lower = n
    PROVE  Changed(output, LastByte(output, k, Shr(ChangedValue(idx, n), done), lower),
                   idx + done, idx + n)
<1> DEFINE v == ChangedValue(idx, n)
           word == Shr(v, done)
           kept == lower..7
           m == Merged(Kept(output, k, kept), k, word)
<1>1. CASE lower = 0
  <2>1. LastByte(output, k, word, lower) = output
    BY <1>1 DEF LastByte
  <2>2. \A p \in 1..Len(output) : ~(idx + done < p /\ p <= idx + n)
    BY <1>1
  <2> QED
    BY <2>1, <2>2 DEF Changed
<1>2. CASE lower > 0
  <2>1. LastByte(output, k, word, lower) = m
    BY <1>2 DEF LastByte
  <2>2. kept \in SUBSET (0..7)
    OBVIOUS
  <2>3. /\ v \in [Places -> Int] /\ \A i \in Places : i < n => v[i] = -(idx + i + 1)
        /\ \A i \in Places : i >= n => v[i] = 0
    BY ChangedValueBits, Zenon
  <2> HIDE DEF v
  <2>4. /\ word \in [Places -> Int]
        /\ \A i \in Places : i + done <= 63 => i + done \in Places /\ word[i] = v[i + done]
        /\ \A i \in Places : i + done > 63 => word[i] = 0
    BY <2>3, ShrShifts, Zenon
  <2> HIDE DEF word
  <2>5. ASSUME NEW i \in kept PROVE word[i] = 0
    <3>1. i \in Places /\ i + done >= n /\ (i + done <= 63 \/ i + done > 63)
      BY DEF Places
    <3>2. CASE i + done <= 63
      <4>1. i + done \in Places /\ word[i] = v[i + done]
        BY <2>4, <3>1, <3>2, Zenon
      <4> QED
        BY <2>3, <3>1, <4>1, Zenon
    <3>3. CASE i + done > 63
      BY <2>4, <3>1, <3>3, Zenon
    <3> QED
      BY <3>1, <3>2, <3>3
  <2> HIDE DEF kept
  <2>6. /\ m \in Seq(Int) /\ Len(m) = Len(output)
        /\ \A p \in 1..Len(output) :
              m[p] = IF (p - 1) \div 8 = k /\ (p - 1) % 8 \notin kept
                     THEN word[(p - 1) % 8] ELSE output[p]
    BY <2>2, <2>4, <2>5, ByteMerged, Zenon
  <2> HIDE DEF m
  <2>7. ASSUME NEW p \in 1..Len(output)
        PROVE  m[p] = IF idx + done < p /\ p <= idx + n THEN -p ELSE output[p]
    <3> DEFINE i == (p - 1) % 8
               c == (p - 1) \div 8
    <3>1. c \in Nat /\ i \in 0..7 /\ i \in Places /\ p - 1 = 8 * c + i /\ p \in Nat
      BY InItsByte
    <3>2. m[p] = IF c = k /\ i \notin kept THEN word[i] ELSE output[p]
      BY <2>6
    <3> HIDE DEF i, c
    <3>3. c = k /\ i \notin kept <=> idx + done < p /\ p <= idx + n
      BY <3>1 DEF kept
    <3>4. CASE idx + done < p /\ p <= idx + n
      <4>1. c = k /\ i \notin kept /\ i < lower /\ i + done <= 63 /\ i + done < n
            /\ idx + (i + done) + 1 = p
        BY <3>1, <3>3, <3>4 DEF kept
      <4>2. i + done \in Places /\ word[i] = v[i + done]
        BY <2>4, <3>1, <4>1, Zenon
      <4>3. v[i + done] = -(idx + (i + done) + 1)
        BY <2>3, <4>1, <4>2, Zenon
      <4>4. m[p] = -p
        BY <3>2, <4>1, <4>2, <4>3
      <4> QED
        BY <3>4, <4>4
    <3>5. CASE ~(idx + done < p /\ p <= idx + n)
      BY <3>2, <3>3, <3>5
    <3> QED
      BY <3>4, <3>5
  <2>8. Changed(output, m, idx + done, idx + n)
    BY <2>6, <2>7, Zenon DEF Changed
  <2> QED
    BY <2>1, <2>8 DEF v, word
<1> QED
  BY <1>1, <1>2

\* One change after the other.
LEMMA ChangesJoin ==
    ASSUME NEW a, NEW b, NEW c, a \in Seq(Int), NEW i \in Nat, NEW j \in Nat, NEW k \in Nat,
           i <= j, j <= k, Changed(a, b, i, j), Changed(b, c, j, k)
    PROVE  Changed(a, c, i, k)
<1>1. /\ b \in Seq(Int) /\ Len(b) = Len(a) /\ c \in Seq(Int) /\ Len(c) = Len(a)
  BY DEF Changed
<1>2. ASSUME NEW p \in 1..Len(a) PROVE c[p] = IF i < p /\ p <= k THEN -p ELSE a[p]
  <2>1. b[p] = IF i < p /\ p <= j THEN -p ELSE a[p]
    BY DEF Changed
  <2>2. c[p] = IF j < p /\ p <= k THEN -p ELSE b[p]
    BY <1>1 DEF Changed
  <2>3. p \in Nat
    OBVIOUS
  <2> QED
    BY <2>1, <2>2, <2>3
<1> QED
  BY <1>1, <1>2, Zenon DEF Changed

-----------------------------------------------------------------------------
(* The steps of the writer are those of the sink.                          *)

\* What a step of the sink does, said with the writer's own words.
Writes(n) ==
    /\ Orderly(w') /\ Index(w') = Index(w) + n
    /\ Written(w') = Written(w) \o Sink!New(Index(w), n)

LEMMA WritesExtends ==
    ASSUME Orderly(w), NEW n, Writes(n)
    PROVE  Sink!Extend(n)
<1>1. Len(Written(w)) = Index(w)
  BY WrittenAt, SMTT(30)
<1>2. Index(w)' = Index(w) + n /\ Written(w)' = Written(w) \o Sink!New(Index(w), n)
  BY DEF Writes, Index, Written, LeBytes
<1> QED
  BY <1>1, <1>2 DEF Sink!Extend

\* A writer that stays where it is.
LEMMA NothingWritten ==
    ASSUME NEW r, Orderly(r)
    PROVE  /\ Index(r) + 0 = Index(r)
           /\ Written(r) = Written(r) \o Sink!New(Index(r), 0)
<1>1. Written(r) \in Seq(Int) /\ Index(r) \in Nat
  BY WrittenAt, WriterTypes
<1>2. Sink!New(Index(r), 0) = <<>>
  BY <1>1 DEF Sink!New
<1> QED
  BY <1>1, <1>2

LEMMA MisalignedIsByte ==
    ASSUME NEW r, Orderly(r)
    PROVE  /\ Misaligned(r) \in 0..7
           /\ Misaligned(r) = 0 => Index(r) % 8 = 0 /\ Flushable(r)
<1> DEFINE b == r.bits_in_partial
           x == r.bit_idx
<1>1. b \in 0..63 /\ x \in Nat /\ x % 8 = 0 /\ Index(r) = x + b
  BY WriterTypes
<1>2. Misaligned(r) = IF (x + b) % 8 = 0 THEN 0 ELSE 8 - ((x + b) % 8)
  BY <1>1 DEF Misaligned
<1>3. Flushable(r) <=> b % 8 = 0
  BY DEF Flushable
<1> HIDE DEF b, x
<1>4. (x + b) % 8 \in 0..7 /\ ((x + b) % 8 = 0 => b % 8 = 0)
  BY <1>1
<1> DEFINE d == (x + b) % 8
<1>5. d \in 0..7 /\ (d = 0 => b % 8 = 0) /\ Misaligned(r) = IF d = 0 THEN 0 ELSE 8 - d
  BY <1>2, <1>4
<1> HIDE DEF d
<1>6. Misaligned(r) \in 0..7 /\ (Misaligned(r) = 0 => d = 0)
  BY <1>5
<1> QED
  BY <1>1, <1>3, <1>5, <1>6 DEF d

LEMMA WriteBitsIsWriteBits ==
    ASSUME Orderly(w), WriteBits
    PROVE  Orderly(w)' /\ Sink!WriteBits
<1>1. PICK n \in WriteWidths \cup {Misaligned(w)} :
         /\ n \in 0..64
         /\ n < 64 \/ w.bits_in_partial > 0
         /\ w' = IF n = 0 THEN w
                 ELSE IF n + w.bits_in_partial < 64 THEN Warm(w, Value(w, n), n)
                 ELSE Cold(w, Value(w, n), n)
  BY DEF WriteBits
<1>2. n \in WriteWidths \cup 0..7
  BY MisalignedIsByte
<1>3. w.bits_in_partial \in 0..63
  BY WriterTypes
<1>4. Writes(n)
  <2>1. CASE n = 0
    <3>1. w' = w
      BY <1>1, <2>1
    <3> QED
      BY <2>1, <3>1, NothingWritten DEF Writes
  <2>2. CASE n # 0 /\ n + w.bits_in_partial < 64
    <3>1. n \in 1..64 /\ w' = Warm(w, Value(w, n), n)
      BY <1>1, <2>2
    <3> QED
      BY <2>2, <3>1, WarmWrites DEF Writes
  <2>3. CASE n # 0 /\ ~(n + w.bits_in_partial < 64)
    <3>1. n \in 1..64 /\ w' = Cold(w, Value(w, n), n)
      BY <1>1, <2>3
    <3>2. n + w.bits_in_partial >= 64 /\ w.bits_in_partial > 0
      BY <1>1, <1>3, <2>3, <3>1
    <3> QED
      BY <3>1, <3>2, ColdWrites DEF Writes
  <2> QED
    BY <2>1, <2>2, <2>3
<1>5. Orderly(w)'
  BY <1>4 DEF Writes, Orderly
<1>6. Sink!Extend(n)
  BY <1>4, WritesExtends
<1> QED
  BY <1>2, <1>5, <1>6 DEF Sink!WriteBits

\* Whole bytes behind those that are in the output.
LEMMA AppendBytesIsAppendBytes ==
    ASSUME Orderly(w), AppendBytes
    PROVE  Orderly(w)' /\ Sink!AppendBytes
<1> DEFINE f == Flushed(w)
           o == Written(w)
           x == Index(w)
<1>1. PICK n \in Lengths \cap Nat :
         /\ Misaligned(w) = 0
         /\ w' = [f EXCEPT !.output = @ \o Sink!New(x, 8 * n), !.bit_idx = @ + 8 * n]
  BY DEF AppendBytes
<1> DEFINE m == 8 * n
           new == Sink!New(x, m)
<1>2. Flushable(w) /\ x % 8 = 0
  BY <1>1, MisalignedIsByte
<1>3. /\ Orderly(f) /\ f.bits_in_partial = 0 /\ f.output = o /\ f.bit_idx = x
  BY <1>2, FlushedIsSame
<1>4. o \in Seq(Int) /\ Len(o) = x /\ x \in Nat /\ m \in Nat
  BY WrittenAt, WriterTypes
<1>5. new \in Seq(Int) /\ Len(new) = m
  BY <1>4, NewBits
<1>6. f.partial \in [Places -> Int] /\ (\A i \in Places : i >= 0 => f.partial[i] = 0)
  BY <1>3, WriterTypes
<1>7. f = [output |-> o, partial |-> f.partial, bits_in_partial |-> 0, bit_idx |-> x]
  BY <1>3 DEF Orderly, Writers
<1>8. w' = [output |-> o \o new, partial |-> f.partial, bits_in_partial |-> 0, bit_idx |-> x + m]
  <2> HIDE DEF f, o, x, new
  <2>1. w' = [f EXCEPT !.output = o \o new, !.bit_idx = x + m]
    BY <1>1, <1>3 DEF new
  <2> DEFINE q == f.partial
             all == o \o new
             l == x + m
  <2>2. f = [output |-> o, partial |-> q, bits_in_partial |-> 0, bit_idx |-> x]
    BY <1>7
  <2>3. w' = [f EXCEPT !.output = all, !.bit_idx = l]
    BY <2>1
  <2> HIDE DEF q, all, l
  <2>4. w' = [output |-> all, partial |-> q, bits_in_partial |-> 0, bit_idx |-> l]
    BY <2>2, <2>3
  <2> QED
    BY <2>4 DEF q, all, l
<1>9. (x + m) % 8 = 0 /\ x + m \in Nat /\ 0 \in 0..63
  <2> HIDE DEF x
  <2> QED
    BY <1>2, <1>4, SMTT(30)
<1> HIDE DEF f, o, x, m, new
<1>10. o \o new \in Seq(Int) /\ Len(o \o new) = x + m
  BY <1>4, <1>5, InARow
<1>11. Orderly(w')
  BY <1>6, <1>8, <1>9, <1>10 DEF Orderly, Writers
<1>12. w'.bits_in_partial = 0 /\ w'.output = o \o new /\ w'.bit_idx = x + m
  BY <1>8
<1>13. Written(w') = o \o new /\ Index(w') = x + m
  BY <1>11, <1>12, AllIsOut
<1>14. Writes(m)
  BY <1>11, <1>13 DEF Writes, o, x, new
<1>15. Sink!Extend(8 * n)
  BY <1>14, WritesExtends DEF m
<1>16. Len(Written(w)) % 8 = 0
  BY <1>2, <1>4 DEF o
<1>17. Orderly(w)'
  BY <1>11 DEF Orderly
<1> QED
  BY <1>1, <1>15, <1>16, <1>17 DEF Sink!AppendBytes

\* Cut off where no bits were waiting.
LEMMA ResetToIsResetTo ==
    ASSUME Orderly(w), ResetTo
    PROVE  Orderly(w)' /\ Sink!ResetTo
<1> DEFINE o == w.output
           a == Written(w)
           x == w.bit_idx
           b == w.bits_in_partial
<1>1. PICK n \in 0..(Len(o) \div 8) : w' = From(SubSeq(o, 1, 8 * n))
  BY DEF ResetTo
<1> DEFINE m == 8 * n
           cut == SubSeq(o, 1, m)
<1>2. /\ o \in Seq(Int) /\ Len(o) = x /\ x \in Nat /\ b \in 0..63
      /\ Index(w) = x + b
  BY WriterTypes
<1>3. /\ a \in Seq(Int) /\ Len(a) = x + b /\ \A j \in 1..x : a[j] = o[j]
  BY <1>2, WrittenAt, Zenon
<1> HIDE DEF o, a, x, b
<1>4. n \in Nat /\ n <= x \div 8 /\ n \in 0..((x + b) \div 8) /\ m \in Nat /\ m <= x /\ m % 8 = 0
  BY <1>1, <1>2
<1>5. w' = From(SubSeq(o, 1, m))
  BY <1>1
<1> HIDE DEF m
<1>6. /\ cut \in Seq(Int) /\ Len(cut) = m /\ \A i \in 1..m : cut[i] = o[i]
  BY <1>2, <1>4
<1>7. /\ SubSeq(a, 1, m) \in Seq(Int) /\ Len(SubSeq(a, 1, m)) = m
      /\ \A i \in 1..m : SubSeq(a, 1, m)[i] = a[i]
  <2>1. m \in Nat /\ m <= Len(a)
    BY <1>2, <1>3, <1>4
  <2> QED
    BY <1>3, <2>1
<1>8. \A i \in 1..m : i \in 1..x
  BY <1>2, <1>4
<1>9. cut = SubSeq(a, 1, m)
  <2> HIDE DEF cut
  <2>1. \A i \in 1..Len(cut) : cut[i] = SubSeq(a, 1, m)[i]
    BY <1>3, <1>6, <1>7, <1>8
  <2> QED
    BY <1>6, <1>7, <2>1, SameBits
<1>10. /\ Orderly(w') /\ Written(w') = cut /\ Index(w') = m
  <2> HIDE DEF cut
  <2>1. Len(cut) % 8 = 0
    BY <1>4, <1>6
  <2> QED
    BY <1>5, <1>6, <2>1, FromIsOrderly DEF cut
<1>11. Orderly(w)' /\ Written(w)' = SubSeq(a, 1, 8 * n) /\ Index(w)' = 8 * n
  BY <1>9, <1>10 DEF Orderly, Written, Index, LeBytes, m
<1>12. n \in 0..(Len(Written(w)) \div 8)
  BY <1>3, <1>4 DEF a
<1> QED
  BY <1>11, <1>12 DEF Sink!ResetTo, a

\* Another writer goes on with the buffer: nothing is left behind.
LEMMA DumpWritesNothing ==
    ASSUME Orderly(w), Dump
    PROVE  Orderly(w)' /\ Sink!WriteBits
<1> DEFINE f == Flushed(w)
<1>1. Misaligned(w) = 0 /\ Flushable(w) /\ w' = From(f.output)
  BY DEF Dump
<1>2. f.output = Written(w)
  BY <1>1, FlushedIsSame
<1>3. Written(w) \in Seq(Int) /\ Len(Written(w)) = Index(w) /\ Index(w) % 8 = 0
  BY <1>1, WrittenAt, MisalignedIsByte
<1>4. Orderly(w') /\ Written(w') = Written(w) /\ Index(w') = Index(w)
  <2>1. Len(Written(w)) % 8 = 0
    BY <1>3
  <2> HIDE DEF f
  <2> QED
    BY <1>1, <1>2, <1>3, <2>1, FromIsOrderly
<1>5. Writes(0)
  BY <1>4, NothingWritten DEF Writes
<1>6. Sink!Extend(0)
  BY <1>5, WritesExtends
<1>7. Orderly(w)'
  BY <1>4 DEF Orderly
<1> QED
  BY <1>6, <1>7 DEF Sink!WriteBits

\* The three changes together.
LEMMA BitsChange ==
    ASSUME NEW output \in Seq(Int), NEW idx \in Nat, NEW n \in 0..64, (8 - (idx % 8)) % 8 <= n
    PROVE  LET upper == (8 - (idx % 8)) % 8
               bytes == (n - upper) \div 8
               lower == (n - upper) % 8
               first == (idx + upper) \div 8
               v     == ChangedValue(idx, n)
           IN  Changed(output,
                       LastByte(Replaced(FirstByte(output, idx, v, upper), first, Shr(v, upper), bytes),
                                first + bytes, Shr(v, upper + 8 * bytes), lower),
                       idx, idx + n)
<1> DEFINE upper == (8 - (idx % 8)) % 8
           bytes == (n - upper) \div 8
           lower == (n - upper) % 8
           first == (idx + upper) \div 8
           done == upper + 8 * bytes
           k == first + bytes
           v == ChangedValue(idx, n)
           one == FirstByte(output, idx, v, upper)
           two == Replaced(one, first, Shr(v, upper), bytes)
           three == LastByte(two, k, Shr(v, done), lower)
<1>1. /\ upper = (8 - (idx % 8)) % 8 /\ upper <= n
      /\ bytes = (n - upper) \div 8 /\ lower = (n - upper) % 8 /\ first = (idx + upper) \div 8
      /\ done = upper + 8 * bytes /\ k = first + bytes
  OBVIOUS
<1> HIDE DEF upper, bytes, lower, first, done, k
<1>2. /\ upper \in 0..7 /\ bytes \in 0..8 /\ lower \in 0..7 /\ first \in Nat /\ k \in Nat
      /\ done \in 0..64 /\ 8 * first = idx + upper /\ upper + 8 * bytes <= n
      /\ 8 * k = idx + done /\ done + lower = n
  <2>1. upper \in 0..7 /\ (idx + upper) % 8 = 0
    BY <1>1
  <2>2. bytes \in 0..8 /\ lower \in 0..7 /\ n - upper = 8 * bytes + lower
    BY <1>1, <2>1
  <2>3. first \in Nat /\ 8 * first = idx + upper
    BY <1>1, <2>1
  <2> QED
    BY <1>1, <2>1, <2>2, <2>3
<1>3. Changed(output, one, idx, idx + upper)
  BY <1>1, <1>2, FirstByteChanges, Zenon
<1> HIDE DEF one
<1>4. one \in Seq(Int)
  BY <1>3 DEF Changed
<1>5. Changed(one, two, idx + upper, (idx + upper) + 8 * bytes)
  BY <1>1, <1>2, <1>4, BytesChange, Zenon
<1> HIDE DEF two
<1>6. two \in Seq(Int)
  BY <1>5 DEF Changed
<1>7. Changed(two, three, idx + done, idx + n)
  BY <1>1, <1>2, <1>6, LastByteChanges, Zenon
<1> HIDE DEF three, v
<1>8. /\ idx + upper \in Nat /\ idx + done \in Nat /\ idx + n \in Nat
      /\ idx <= idx + upper /\ idx + upper <= idx + done /\ idx + done <= idx + n
      /\ idx <= idx + done
      /\ (idx + upper) + 8 * bytes = idx + done
  BY <1>1, <1>2
<1>9. Changed(one, two, idx + upper, idx + done)
  BY <1>5, <1>8
<1>10. Changed(output, two, idx, idx + done)
  BY <1>3, <1>8, <1>9, ChangesJoin, Zenon
<1>11. Changed(output, three, idx, idx + n)
  BY <1>7, <1>8, <1>10, ChangesJoin, Zenon
<1> QED
  BY <1>11 DEF three, two, one, v, k, done, upper, bytes, lower, first

\* What is changed is in the output: bits that waited are flushed first.
LEMMA ChangeBitsIsChangeBits ==
    ASSUME Orderly(w), NEW idx, NEW n, ChangeBits(idx, n)
    PROVE  Orderly(w)' /\ Sink!ChangeBits(idx, n)
<1> DEFINE f == Flushed(w)
           a == Written(w)
           x == Index(w)
           upper == (8 - (idx % 8)) % 8
           bytes == (n - upper) \div 8
           lower == (n - upper) % 8
           first == (idx + upper) \div 8
           v == ChangedValue(idx, n)
           out == LastByte(Replaced(FirstByte(a, idx, v, upper), first, Shr(v, upper), bytes),
                           first + bytes, Shr(v, upper + 8 * bytes), lower)
<1>1. Flushable(w) /\ idx \in Nat /\ n \in 0..64 /\ idx + n < Index(f) /\ upper <= n
  BY DEF ChangeBits
<1>2. /\ Orderly(f) /\ f.bits_in_partial = 0 /\ f.output = a /\ f.bit_idx = x /\ Index(f) = x
  BY <1>1, FlushedIsSame
<1>3. a \in Seq(Int) /\ Len(a) = x /\ x \in Nat
  BY WrittenAt, WriterTypes
<1>4. w' = [f EXCEPT !.output = out]
  <2>1. w' = [f EXCEPT !.output =
                LastByte(Replaced(FirstByte(f.output, idx, v, upper), first, Shr(v, upper), bytes),
                         first + bytes, Shr(v, upper + 8 * bytes), lower)]
    BY DEF ChangeBits, ChangedValue
  <2> HIDE DEF f, a, upper, bytes, lower, first, v
  <2> QED
    BY <1>2, <2>1
<1>5. Changed(a, out, idx, idx + n)
  <2> HIDE DEF a
  <2>1. (8 - (idx % 8)) % 8 <= n
    BY <1>1
  <2> QED
    BY <1>1, <1>3, <2>1, BitsChange, Zenon
<1> HIDE DEF f, a, x, out, v, upper, bytes, lower, first
<1>6. out \in Seq(Int) /\ Len(out) = x
  BY <1>3, <1>5 DEF Changed
<1> DEFINE q == f.partial
<1>7. /\ f = [output |-> a, partial |-> q, bits_in_partial |-> 0, bit_idx |-> x]
      /\ q \in [Places -> Int] /\ (\A i \in Places : i >= 0 => q[i] = 0) /\ x % 8 = 0
  <2>1. f = [output |-> a, partial |-> q, bits_in_partial |-> 0, bit_idx |-> x]
    BY <1>2 DEF Orderly, Writers
  <2>2. q \in [Places -> Int] /\ (\A i \in Places : i >= 0 => q[i] = 0) /\ x % 8 = 0
    BY <1>2, WriterTypes
  <2> QED
    BY <2>1, <2>2
<1> HIDE DEF q
<1>8. w' = [output |-> out, partial |-> q, bits_in_partial |-> 0, bit_idx |-> x]
  BY <1>4, <1>7
<1>9. 0 \in 0..63
  OBVIOUS
<1>10. Orderly(w')
  BY <1>3, <1>6, <1>7, <1>8, <1>9 DEF Orderly, Writers
<1>11. w'.bits_in_partial = 0 /\ w'.output = out /\ w'.bit_idx = x
  BY <1>8
<1>12. Written(w') = out /\ Index(w') = x
  BY <1>10, <1>11, AllIsOut
<1>13. out = [p \in 1..Len(a) |-> IF p \in (idx + 1)..(idx + n) THEN -p ELSE a[p]]
  <2> DEFINE m == [p \in 1..x |-> IF p \in (idx + 1)..(idx + n) THEN -p ELSE a[p]]
  <2>1. ASSUME NEW p \in 1..x
        PROVE  out[p] = m[p] /\ m[p] \in Int
    <3>1. out[p] = IF idx < p /\ p <= idx + n THEN -p ELSE a[p]
      BY <1>3, <1>5 DEF Changed
    <3>2. p \in (idx + 1)..(idx + n) <=> idx < p /\ p <= idx + n
      BY <1>1, <1>3
    <3>3. m[p] = IF p \in (idx + 1)..(idx + n) THEN -p ELSE a[p]
      OBVIOUS
    <3>4. a[p] \in Int /\ -p \in Int
      BY <1>3
    <3> HIDE DEF m
    <3> QED
      BY <3>1, <3>2, <3>3, <3>4
  <2>2. m = [p \in 1..x |-> m[p]]
    OBVIOUS
  <2> HIDE DEF m
  <2>3. \A p \in 1..x : m[p] \in Int
    BY <2>1, Zenon
  <2>4. m \in Seq(Int) /\ Len(m) = x
    BY <1>3, <2>2, <2>3, IsBits
  <2>5. out = m
    BY <1>6, <2>1, <2>4, SameBits
  <2> QED
    BY <1>3, <2>5 DEF m
<1>14. Orderly(w)' /\ Written(w)' = out /\ Index(w)' = x
  BY <1>10, <1>12 DEF Orderly, Written, Index, LeBytes
<1>15. idx + n < Len(a)
  BY <1>1, <1>2, <1>3
<1> QED
  BY <1>13, <1>14, <1>15 DEF Sink!ChangeBits, a, x

LEMMA InitIsOrderly == WriterInit => Orderly(w) /\ Sink!Init
<1> SUFFICES ASSUME WriterInit PROVE Orderly(w) /\ Sink!Init
  OBVIOUS
<1>1. PICK n \in Lengths \cap Nat : w = From(Sink!New(0, 8 * n))
  BY DEF WriterInit
<1> DEFINE new == Sink!New(0, 8 * n)
<1>2. new \in Seq(Int) /\ Len(new) = 8 * n
  <2>1. 8 * n \in Nat /\ 0 \in Nat
    OBVIOUS
  <2> QED
    BY <2>1, NewBits, Zenon
<1>3. Orderly(w) /\ Written(w) = new /\ Index(w) = 8 * n
  <2>1. (8 * n) % 8 = 0
    OBVIOUS
  <2>2. Len(new) % 8 = 0
    BY <1>2, <2>1
  <2> HIDE DEF new
  <2> QED
    BY <1>1, <1>2, <2>2, FromIsOrderly DEF new
<1> QED
  BY <1>2, <1>3 DEF Sink!Init

LEMMA StepIsStep == Orderly(w) /\ [WriterNext]_w => Orderly(w)' /\ [Sink!Next]_w
<1> SUFFICES ASSUME Orderly(w), [WriterNext]_w
             PROVE  Orderly(w)' /\ [Sink!Next]_w
  OBVIOUS
<1>1. CASE WriteBits
  BY <1>1, WriteBitsIsWriteBits DEF Sink!Next
<1>2. CASE AppendBytes
  BY <1>2, AppendBytesIsAppendBytes DEF Sink!Next
<1>3. CASE \E c \in Changes : ChangeBits(c[1], c[2])
  BY <1>3, ChangeBitsIsChangeBits DEF Sink!Next
<1>4. CASE ResetTo
  BY <1>4, ResetToIsResetTo DEF Sink!Next
<1>5. CASE Dump
  BY <1>5, DumpWritesNothing DEF Sink!Next
<1>6. CASE UNCHANGED w
  BY <1>6 DEF Orderly
<1> QED
  BY <1>1, <1>2, <1>3, <1>4, <1>5, <1>6 DEF WriterNext

-----------------------------------------------------------------------------
\* Whatever is written, the output holds whole bytes, its length is what bit_idx says,
\* and above the bits that wait in the word there are zeros for the next ones.
THEOREM WriterStaysOrderly == WriterSpec => []Orderly(w)
<1>1. Orderly(w) /\ [WriterNext]_w => Orderly(w)'
  BY StepIsStep
<1> QED
  BY <1>1, InitIsOrderly, PTL DEF WriterSpec

\* Writing in any widths, whole bytes behind them, changes of what is there and going
\* back to an index: every bit is where index() said it would be, and nothing else moves.
THEOREM WriterImplementsSink == WriterSpec => ImplementsBitSink
<1>1. WriterInit => Sink!Init
  BY InitIsOrderly
<1>2. Orderly(w) /\ [WriterNext]_w => [Sink!Next]_w
  BY StepIsStep
<1> QED
  BY <1>1, <1>2, WriterStaysOrderly, PTL DEF WriterSpec, ImplementsBitSink
=============================================================================
