------------------------- MODULE BitReaderReversed -------------------------
(***************************************************************************)
(* bit_io/bit_reader_reverse.rs: the source is read through a container of *)
(* 64 bits that is loaded from it in whole bytes, ever further to the      *)
(* front, and behind the front filled up with zeros.                       *)
(***************************************************************************)
EXTENDS BitStreams

CONSTANTS Sources, Widths, Triples,
          MaxExtra           \* bound: how many bits are read that are not there

VARIABLES rd,                \* the reader; its source is a length
          got

readerVars == <<rd, got>>

BitsRemaining(r) == r.index * 8 + (64 - r.bits_consumed) - r.extra_bits

Source == INSTANCE BitSource WITH source <- rd.source, left <- BitsRemaining(rd)

Empty == [b \in Places |-> 0]

New(source) == [source |-> source, index |-> source, bits_consumed |-> 64, extra_bits |-> 0,
                bit_container |-> Empty]

Init == rd \in {New(source) : source \in Sources \cap Nat} /\ got = <<>>

\* Eight bytes of the source from "index" on; the slice panics if there are not
\* so many, and -1 is no bit.
Eight(source, index) ==
    [b \in Places |-> IF index + 8 <= source THEN Source!Bit(source, 8 * index + b) ELSE -1]

\* The first eight, behind a short source zeros.
FirstEight(source) == [b \in Places |-> Source!Bit(source, b)]


\* Moved down by the whole bytes that were read.
MovedDown(r, bytes) ==
    [source |-> r.source, index |-> r.index - bytes, extra_bits |-> r.extra_bits,
     bits_consumed |-> r.bits_consumed % 8, bit_container |-> Eight(r.source, r.index - bytes)]

\* Mutant: the zeros that come in are not counted.
AtFront_NotCounted(r, container, used) ==
    [source |-> r.source, index |-> 0, extra_bits |-> r.extra_bits,
     bits_consumed |-> 0, bit_container |-> Shl(container, used)]

\* At the front, the bits that were read are shifted out and zeros come in.
AtFront(r, container, used) ==
    [source |-> r.source, index |-> 0, extra_bits |-> r.extra_bits + used,
     bits_consumed |-> 0, bit_container |-> Shl(container, used)]

Refill(r) ==
    LET bytes == r.bits_consumed \div 8
    IN  IF bytes = 0 THEN r
        ELSE IF r.index >= bytes THEN MovedDown(r, bytes)
        ELSE IF r.index > 0 THEN AtFront(r, FirstEight(r.source), r.bits_consumed - 8 * r.index)
        ELSE IF r.bits_consumed < 64 THEN AtFront(r, r.bit_container, r.bits_consumed)
        ELSE AtFront(r, Empty, 64)

\* The n highest bits that are not consumed, without the "skipped" ones above them.
Peek(r, skipped, n) == [i \in 1..n |-> r.bit_container[64 - r.bits_consumed - skipped - n + i - 1]]

Consume(r, n) == [r EXCEPT !.bits_consumed = @ + n]

Ready(r, n) == IF r.bits_consumed + n > 64 THEN Refill(r) ELSE r

GetBits(n) ==
    /\ n \in 0..56
    /\ got' = <<Peek(Ready(rd, n), 0, n)>>
    /\ rd' = Consume(Ready(rd, n), n)

\* The container is refilled whether it is needed or not.
ThreeAtOnce(n1, n2, n3) ==
    LET r == Refill(rd)
    IN  /\ got' = <<Peek(r, 0, n1), Peek(r, n1, n2), Peek(r, n1 + n2, n3)>>
        /\ rd' = Consume(r, n1 + n2 + n3)

OneByOne(n1, n2, n3) ==
    LET r1 == Ready(rd, n1)
        r2 == Ready(Consume(r1, n1), n2)
        r3 == Ready(Consume(r2, n2), n3)
    IN  /\ got' = <<Peek(r1, 0, n1), Peek(r2, 0, n2), Peek(r3, 0, n3)>>
        /\ rd' = Consume(r3, n3)

GetBitsTriple(n1, n2, n3) ==
    /\ {n1, n2, n3} \subseteq 0..56
    /\ IF n1 + n2 + n3 <= 56 THEN ThreeAtOnce(n1, n2, n3) ELSE OneByOne(n1, n2, n3)

Next == /\ BitsRemaining(rd) > -MaxExtra
        /\ \/ \E n \in Widths : GetBits(n)
           \/ \E t \in Triples : GetBitsTriple(t[1], t[2], t[3])

Spec == Init /\ [][Next]_readerVars

-----------------------------------------------------------------------------
\* Whatever the lengths and the widths, and however often and early the container
\* was refilled, callers get the bits of the source from its end, each once and in
\* order, and bits_remaining says how many are left.
ImplementsBitSource == Source!Init /\ [][Source!Next]_readerVars
=============================================================================
