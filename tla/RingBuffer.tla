----------------------------- MODULE RingBuffer -----------------------------
(***************************************************************************)
(* decoding/ringbuffer.rs as a state machine: one ring, and a caller that  *)
(* may make any sequence of calls whose documented preconditions hold.     *)
(***************************************************************************)
EXTENDS Ring

CONSTANTS Extensions, \* the byte strings passed to extend
          MaxCall,    \* bound: the largest numeric argument of a call
          MaxGrown    \* bound: the bytes a ring grows to hold

ASSUME ExtensionsAssumption == Extensions \subseteq Seq(Byte)
ASSUME MaxCallAssumption == MaxCall \in Nat /\ MaxGrown \in Nat

VARIABLES rb,       \* the ring
          call,     \* the last call and its arguments
          peak      \* history: the most bytes it was ever asked to hold

ringVars == <<rb, call, peak>>

RingInit == rb = NewRing /\ call = [op |-> "new"] /\ peak = 0

\* Room for n more bytes is asked for.
Asks(n) ==
    /\ Fits(rb, n)
    /\ n <= Free(rb) \/ RingLen(rb) + n <= MaxGrown
    /\ peak' = IF RingLen(rb) + n > peak THEN RingLen(rb) + n ELSE peak

Reserve(n) ==
    /\ Asks(n)
    /\ rb' = Reserved(rb, n)
    /\ call' = [op |-> "reserve", amount |-> n]

Extend(data) ==
    /\ Asks(Len(data))
    /\ rb' = Extended(rb, data)
    /\ call' = [op |-> "extend", data |-> data]

PushBack(byte) ==
    /\ Asks(1)
    /\ rb' = PushedBack(rb, byte)
    /\ call' = [op |-> "push_back", byte |-> byte]

\* An unallocated ring would divide by zero.
DropFirstN(n) ==
    /\ rb.cap > 0
    /\ n <= RingLen(rb)
    /\ rb' = Dropped(rb, n)
    /\ call' = [op |-> "drop_first_n", amount |-> n]
    /\ UNCHANGED peak

\* Panics unless the source lies in the data; divides by zero when unallocated.
ExtendFromWithin(start, len) ==
    /\ rb.cap > 0
    /\ start + len <= RingLen(rb)
    /\ Asks(len)
    /\ rb' = CopiedWithin(Reserved(rb, len), start, len)
    /\ call' = [op |-> "extend_from_within", start |-> start, len |-> len]

Clear ==
    /\ rb' = Cleared(rb)
    /\ call' = [op |-> "clear"]
    /\ UNCHANGED peak

RingNext ==
    \/ \E n \in 0..MaxCall : Reserve(n) \/ DropFirstN(n)
    \/ \E data \in Extensions : Extend(data)
    \/ \E byte \in Byte : PushBack(byte)
    \/ \E start, len \in 0..MaxCall : ExtendFromWithin(start, len)
    \/ Clear

RingSpec == RingInit /\ [][RingNext]_ringVars

-----------------------------------------------------------------------------
\* Type invariant: the memory has exactly "cap" bytes.
TypeOK == HasType(rb)

\* The struct's safety invariants 1b and 3: both indices lie inside the
\* allocation; without one they are 0.
IndicesInBounds == InBounds(rb)

\* The struct's safety invariant 2: every byte a reader can reach has been
\* written, whatever was dropped, overwritten, moved or overshot before.
DataInitialized == Initialized(rb)

\* extend_from_within_unchecked is memory safe: for every admissible start and
\* length, each of its copies (with the bytes it overshoots) reads only data,
\* writes only free slots of the allocation, and so never overlaps.
CopiesStayApart ==
    \A start, len \in 0..RingLen(rb) :
        (rb.cap > 0 /\ start + len <= RingLen(rb) /\ len <= Free(rb)) =>
            \A k \in 1..Len(Copies(rb, start, len)) :
                LET c == Copies(rb, start, len)[k]
                IN  \A i \in 0..(Moved(c) - 1) :
                       /\ c.src + i < rb.cap /\ IsData(rb, c.src + i)
                       /\ c.dst + i < rb.cap /\ ~IsData(rb, c.dst + i)

\* reserve(n) leaves room for n bytes behind the sentinel, and never shrinks.
ReserveMakesRoom ==
    [][call'.op = "reserve" => Free(rb') >= call'.amount /\ rb'.cap >= rb.cap]_ringVars

\* However calls that grow, drop and wrap alternate, the allocation stays below
\* twice what the ring was ever asked to hold at once, and the sentinel: growing
\* again, and rounding the sentinel up with the rest, never adds up.
MemoryFollowsUse == rb.cap <= 2 * peak + 1

\* Callers see a plain byte queue, through growth, wrap-around and overshoot.
Queue == INSTANCE ByteQueue WITH queue <- Content(rb), Payloads <- Extensions
ImplementsByteQueue == Queue!Spec
=============================================================================
