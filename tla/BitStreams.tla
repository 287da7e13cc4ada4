----------------------------- MODULE BitStreams -----------------------------
(***************************************************************************)
(* bit_io: a stream is a sequence of bits, lowest bit of the first byte    *)
(* first.  BitWriter appends at its end, BitReader reads from its start    *)
(* and BitReaderReversed from its end.  The words of 64 bits in which they *)
(* keep bytes have modules of their own; the lowest bit is at place 0.     *)
(***************************************************************************)
EXTENDS Integers, Sequences

Places == 0..63

Shl(word, n) == [b \in Places |-> IF b < n THEN 0 ELSE word[b - n]]

\* write_bits appends the n low bits of a value that has no higher ones.
Bits(value, n) == [i \in 1..n |-> (value \div 2^(i - 1)) % 2]

Number(bits) == LET sum[i \in 0..Len(bits)] == IF i = 0 THEN 0 ELSE sum[i - 1] + bits[i] * 2^(i - 1)
                IN  sum[Len(bits)]

Missing(stream) == (8 - (Len(stream) % 8)) % 8

Aligned(stream) == stream \o Bits(0, Missing(stream))

\* The end of a stream that is read backwards: a one, and zeros up to the byte.
Closed(stream) == stream \o Bits(1, IF Missing(stream) = 0 THEN 8 ELSE Missing(stream))

\* BitReader::get_bits behind the first "pos" bits; there must be n of them.
Readable(stream, pos, n) == n <= Len(stream) - pos

Read(stream, pos, n) == Number(SubSeq(stream, pos + 1, pos + n))

\* BitReaderReversed::get_bits with "left" bits remaining: bits in front of the
\* stream are zeros, and "left" goes on below zero.
ReadReversed(stream, left, n) ==
    Number([i \in 1..n |-> IF left - n + i >= 1 THEN stream[left - n + i] ELSE 0])

\* The bits that remain when the closing one is gone; readers give up (a
\* negative number) when it is not among the last eight.
Opened(stream) ==
    LET ones == {skipped \in 1..8 : /\ skipped <= Len(stream)
                                    /\ stream[Len(stream) + 1 - skipped] = 1}
    IN  IF ones = {} THEN -1
        ELSE Len(stream) - (CHOOSE s \in ones : \A t \in ones : s <= t)
=============================================================================
