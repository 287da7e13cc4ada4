-------------------------------- MODULE Ring --------------------------------
(***************************************************************************)
(* The memory of decoding/ringbuffer.rs and the operations on it, as       *)
(* operators from a ring to a ring.  A ring is the struct RingBuffer:      *)
(*                                                                         *)
(*   cap         allocated bytes, 0 before the first allocation            *)
(*   head, tail  index of the oldest byte, index the next byte goes to     *)
(*   mem         the allocation, a function on 0 .. cap-1                  *)
(*                                                                         *)
(* The ring is never full: one slot, the sentinel, stays free so that      *)
(* head = tail always means empty.                                         *)
(***************************************************************************)
EXTENDS Integers, Sequences

CONSTANTS Byte,     \* the values of a byte
          Uninit,   \* a byte of the allocation nobody has written
          Chunk,    \* COPY_AT_ONCE_SIZE: 8 or 16 on real targets
          Pow2s     \* the powers of two a capacity is rounded up to; the
                    \* largest one bounds the capacity

ASSUME ChunkAssumption == Chunk \in Nat \ {0}
ASSUME Pow2sAssumption ==
    /\ Pow2s \subseteq Nat \ {0}
    /\ \A p \in Pow2s : p = 1 \/ \E q \in Pow2s : p = 2 * q
ASSUME UninitAssumption == Uninit \notin Byte

Least(a, b) == IF a <= b THEN a ELSE b

RingOf(cap, head, tail, mem) ==
    [cap |-> cap, head |-> head, tail |-> tail, mem |-> mem]

NewRing == RingOf(0, 0, 0, [i \in 0..-1 |-> Uninit])

DataSliceLengths(r) ==
    IF r.tail >= r.head
    THEN [after_head |-> r.tail - r.head, to_tail |-> 0]
    ELSE [after_head |-> r.cap - r.head,  to_tail |-> r.tail]

FreeSliceLengths(r) ==
    IF r.tail < r.head
    THEN [to_head |-> 0,      after_tail |-> r.head - r.tail]
    ELSE [to_head |-> r.head, after_tail |-> r.cap - r.tail]

RingLen(r) == DataSliceLengths(r).after_head + DataSliceLengths(r).to_tail

Free(r) ==
    LET room == FreeSliceLengths(r).to_head + FreeSliceLengths(r).after_tail
    IN  IF room = 0 THEN 0 ELSE room - 1

\* as_slices: the two contiguous halves of the data.
Slice(r, from, len) == [i \in 1..len |-> r.mem[from + i - 1]]
FirstSlice(r)  == Slice(r, r.head, DataSliceLengths(r).after_head)
SecondSlice(r) == Slice(r, 0, DataSliceLengths(r).to_tail)
Content(r)     == FirstSlice(r) \o SecondSlice(r)

-----------------------------------------------------------------------------
(* Growth.                                                                 *)

NextPow2(n) ==
    CHOOSE p \in Pow2s : p >= n /\ \A q \in Pow2s : q >= n => p <= q

NewCap(cap, amount) ==
    LET old == NextPow2(cap)
        new == NextPow2(cap + amount)
    IN  (IF old >= new THEN old ELSE new) + 1

\* Mutant: the half behind the wrap is not copied.
ReserveAmortized_OneSlice(r, amount) ==
    LET cap == NewCap(r.cap, amount)
    IN  RingOf(cap, 0, RingLen(r),
               [i \in 0..(cap - 1) |->
                  IF i < Len(FirstSlice(r)) THEN Content(r)[i + 1] ELSE Uninit])

\* The data moves to the front of the new allocation.
ReserveAmortized(r, amount) ==
    LET cap == NewCap(r.cap, amount)
    IN  RingOf(cap, 0, RingLen(r),
               [i \in 0..(cap - 1) |->
                  IF i < RingLen(r) THEN Content(r)[i + 1] ELSE Uninit])

\* Mutant: the room that is there already is not counted.
Reserved_Whole(r, amount) ==
    IF Free(r) >= amount THEN r ELSE ReserveAmortized(r, amount)

Reserved(r, amount) ==
    IF Free(r) >= amount THEN r ELSE ReserveAmortized(r, amount - Free(r))

\* The allocation exists: beyond it the code panics.
Fits(r, amount) ==
    Free(r) >= amount \/ \E p \in Pow2s : p >= r.cap + amount - Free(r)

-----------------------------------------------------------------------------
(* Writes.                                                                 *)

Written(mem, at, data) ==
    [i \in DOMAIN mem |->
       IF at <= i /\ i < at + Len(data) THEN data[i - at + 1] ELSE mem[i]]

Cleared(r) == RingOf(r.cap, 0, 0, r.mem)

Dropped(r, amount) ==
    RingOf(r.cap, (r.head + Least(amount, RingLen(r))) % r.cap, r.tail, r.mem)

\* extend, from its call of reserve on.  The first free half starts at tail.
Filled(r, data) ==
    LET len   == Len(data)
        in_f1 == Least(len, FreeSliceLengths(r).after_tail)
        one   == Written(r.mem, r.tail, SubSeq(data, 1, in_f1))
    IN  RingOf(r.cap, r.head, (r.tail + len) % r.cap,
               Written(one, 0, SubSeq(data, in_f1 + 1, len)))

Extended(r, data) ==
    IF data = <<>> THEN r ELSE Filled(Reserved(r, Len(data)), data)

\* Mutant: the tail is left at "cap" instead of wrapping.
PushedBack_NoWrap(r, byte) ==
    LET s == Reserved(r, 1)
    IN  RingOf(s.cap, s.head, s.tail + 1, [s.mem EXCEPT ![s.tail] = byte])

PushedBack(r, byte) ==
    LET s == Reserved(r, 1)
    IN  RingOf(s.cap, s.head, (s.tail + 1) % s.cap, [s.mem EXCEPT ![s.tail] = byte])

-----------------------------------------------------------------------------
(* Copies inside the ring.  A copy names the source and destination and    *)
(* how many bytes each may touch, besides the n bytes it has to move.      *)

Copy(src, src_len, dst, dst_len, n) ==
    [src |-> src, src_len |-> src_len, dst |-> dst, dst_len |-> dst_len, n |-> n]

\* Mutant: overshoots without looking at the room on either side.
Moved_NoRoomCheck(c) == ((c.n + Chunk - 1) \div Chunk) * Chunk

\* copy_bytes_overshooting: whole chunks where both sides have room for them.
Moved(c) ==
    LET room  == Least(c.src_len, c.dst_len)
        whole == ((c.n + Chunk - 1) \div Chunk) * Chunk
    IN  IF room >= Chunk /\ c.n <= Chunk THEN Chunk
        ELSE IF room >= whole THEN whole
        ELSE c.n

CopyBytes(mem, c) ==
    [i \in DOMAIN mem |->
       IF c.dst <= i /\ i < c.dst + Moved(c) THEN mem[c.src + i - c.dst] ELSE mem[i]]

\* Mutant: a source that wraps is read on past the data instead.
Copies_OneChunk(r, start, len) ==
    LET from == (r.head + start) % r.cap
    IN  <<Copy(from, r.cap - from, r.tail, r.cap - r.tail, Least(len, r.cap - from))>>

\* The one or two copies extend_from_within_unchecked makes, in order.
Copies(r, start, len) ==
    IF r.head < r.tail
    THEN LET n       == Least(len, r.cap - r.tail)
             src_len == r.tail - r.head - start
             first   == Copy(r.head + start, src_len, r.tail, r.cap - r.tail, n)
             wrapped == Copy(r.head + start + n, src_len - n, 0, r.head, len - n)
         IN  IF n < len THEN <<first, wrapped>> ELSE <<first>>
    ELSE IF r.head + start > r.cap
    THEN LET from == (r.head + start) % r.cap
         IN  <<Copy(from, r.tail - from, r.tail, r.head - r.tail, len)>>
    ELSE LET src_len == r.cap - r.head - start
             n       == Least(len, src_len)
             dst_len == r.head - r.tail
             first   == Copy(r.head + start, src_len, r.tail, dst_len, n)
             wrapped == Copy(0, r.tail, r.tail + n, dst_len - n, len - n)
         IN  IF n < len THEN <<first, wrapped>> ELSE <<first>>

CopiedWithin(r, start, len) ==
    LET cs  == Copies(r, start, len)
        one == CopyBytes(r.mem, cs[1])
    IN  RingOf(r.cap, r.head, (r.tail + len) % r.cap,
               IF Len(cs) = 1 THEN one ELSE CopyBytes(one, cs[2]))

-----------------------------------------------------------------------------
(* What the comments on the struct promise of every ring.                  *)

\* The allocation has exactly "cap" bytes.
HasType(r) ==
    /\ r.cap \in Nat /\ r.head \in Nat /\ r.tail \in Nat
    /\ r.mem \in [0..(r.cap - 1) -> Byte \cup {Uninit}]

\* Safety invariants 1b and 3.
InBounds(r) ==
    IF r.cap = 0 THEN r.head = 0 /\ r.tail = 0
                 ELSE r.head < r.cap /\ r.tail < r.cap

IsData(r, i) ==
    IF r.tail >= r.head THEN r.head <= i /\ i < r.tail
                        ELSE r.head <= i \/ i < r.tail

\* Safety invariant 2.
Initialized(r) == \A i \in 0..(r.cap - 1) : IsData(r, i) => r.mem[i] \in Byte

RingOK(r) == HasType(r) /\ InBounds(r) /\ Initialized(r)
=============================================================================
