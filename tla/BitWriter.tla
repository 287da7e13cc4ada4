----------------------------- MODULE BitWriter -----------------------------
(***************************************************************************)
(* bit_io/bit_writer.rs: bits are collected in a word of 64 bits and go to *)
(* the output in whole bytes.  Bits are named as in BitSink, so that a bit *)
(* in the wrong place shows.                                               *)
(***************************************************************************)
EXTENDS BitStreams

CONSTANTS WriteWidths,      \* how many bits are written at once
          Changes, Lengths, \* see BitSink
          MaxBits           \* bound: how much is written

VARIABLE w                  \* the writer

\* The | of two bits; two that are not zero are no bit anybody wrote.
Garbled == 1000000
Or(a, b) == IF a = 0 THEN b ELSE IF b \in {0, a} THEN a ELSE Garbled

OrWord(x, y) == [i \in Places |-> Or(x[i], y[i])]
Shr(word, n) == [i \in Places |-> IF i + n > 63 THEN 0 ELSE word[i + n]]
Mask(word, n) == [i \in Places |-> IF i < n THEN word[i] ELSE 0]
LeBytes(word, n) == [i \in 1..(8 * n) |-> word[i - 1]]
NoWord == [i \in Places |-> 0]

Index(r) == r.bit_idx + r.bits_in_partial

Misaligned(r) == IF Index(r) % 8 = 0 THEN 0 ELSE 8 - (Index(r) % 8)

From(output) == [output |-> output, partial |-> NoWord, bits_in_partial |-> 0, bit_idx |-> Len(output)]

\* All that was written: what went to the output and what waits in the word.
Written(r) == r.output \o SubSeq(LeBytes(r.partial, 8), 1, r.bits_in_partial)

Sink == INSTANCE BitSink WITH content <- Written(w), index <- Index(w), Widths <- WriteWidths

WriterInit == w \in {From(Sink!New(0, 8 * n)) : n \in Lengths \cap Nat}

\* Only whole bytes can be flushed.
Flushable(r) == r.bits_in_partial % 8 = 0

Flushed(r) ==
    [output          |-> r.output \o LeBytes(r.partial, r.bits_in_partial \div 8),
     partial         |-> Shr(r.partial, r.bits_in_partial),
     bits_in_partial |-> 0,
     bit_idx         |-> r.bit_idx + r.bits_in_partial]

\* The value that is written next, with zeros above its n bits.
Value(r, n) == [i \in Places |-> IF i < n THEN Index(r) + i + 1 ELSE 0]

Warm(r, bits, n) == [r EXCEPT !.partial = OrWord(@, Shl(bits, r.bits_in_partial)),
                              !.bits_in_partial = @ + n]

\* The word is filled and goes to the output, whole bytes of the rest too.
Cold(r, bits, n) ==
    LET free  == 64 - r.bits_in_partial
        rest  == n - free
        bytes == rest \div 8
    IN  [output |-> r.output \o LeBytes(OrWord(r.partial, Shl(bits, 64 - free)), 8)
                             \o LeBytes(Shr(bits, free), bytes),
         partial         |-> Mask(Shr(Shr(bits, free), 8 * bytes), rest % 8),
         bits_in_partial |-> rest % 8,
         bit_idx         |-> r.bit_idx + 64 + 8 * bytes]

\* write_bits_64 of so many bits, or of those that are missing for a byte.
WriteBits ==
    \E n \in WriteWidths \cup {Misaligned(w)} :
       /\ n \in 0..64 /\ Index(w) + n <= MaxBits
       /\ n < 64 \/ w.bits_in_partial > 0
       /\ w' = IF n = 0 THEN w
               ELSE IF n + w.bits_in_partial < 64 THEN Warm(w, Value(w, n), n)
               ELSE Cold(w, Value(w, n), n)

AppendBytes ==
    \E n \in Lengths \cap Nat :
       /\ Index(w) + 8 * n <= MaxBits
       /\ Misaligned(w) = 0
       /\ LET f == Flushed(w)
          IN  w' = [f EXCEPT !.output = @ \o Sink!New(Index(w), 8 * n), !.bit_idx = @ + 8 * n]

-----------------------------------------------------------------------------
(* Changing bits: the upper ones of a byte, whole bytes, and lower ones    *)

\* Mutant: the bits that change are not made zero first.
Kept_All(output, k, kept) == output

\* output[k] with only the bits "kept", the lower bits of a word added, or
\* whole bytes of a word in its place.
Kept(output, k, kept) ==
    [p \in 1..Len(output) |-> IF (p - 1) \div 8 = k /\ (p - 1) % 8 \notin kept THEN 0 ELSE output[p]]

Merged(output, k, word) ==
    [p \in 1..Len(output) |-> IF (p - 1) \div 8 = k THEN Or(output[p], word[(p - 1) % 8]) ELSE output[p]]

Replaced(output, k, word, bytes) ==
    [p \in 1..Len(output) |-> IF (p - 1) \div 8 \in k..(k + bytes - 1) THEN word[p - 1 - 8 * k]
                              ELSE output[p]]

FirstByte(output, idx, bits, upper) ==
    IF upper = 0 THEN output
    ELSE Merged(Kept(output, idx \div 8, 0..(7 - upper)), idx \div 8, Shl(bits, 8 - upper))

LastByte(output, k, bits, lower) ==
    IF lower = 0 THEN output ELSE Merged(Kept(output, k, lower..7), k, bits)

\* change_bits_64; the asserts leave one bit behind what is changed.
ChangeBits(idx, n) ==
    LET f     == Flushed(w)
        upper == (8 - (idx % 8)) % 8
        bytes == (n - upper) \div 8
        lower == (n - upper) % 8
        first == (idx + upper) \div 8
        bits  == [i \in Places |-> IF i < n THEN -(idx + i + 1) ELSE 0]
    IN  /\ Flushable(w)
        /\ idx \in Nat /\ n \in 0..64
        /\ idx + n < Index(f)
        /\ upper <= n
        /\ w' = [f EXCEPT !.output =
                    LastByte(Replaced(FirstByte(@, idx, bits, upper), first, Shr(bits, upper), bytes),
                             first + bytes, Shr(bits, upper + 8 * bytes), lower)]

\* reset_to: callers go back to an index they were told when no bits were
\* waiting, so that the output reaches that far.
ResetTo ==
    \E n \in 0..(Len(w.output) \div 8) : w' = From(SubSeq(w.output, 1, 8 * n))

\* dump, or flush when the output is only lent: the buffer is the caller's, and
\* another writer goes on with it, as from block to block.
Dump == Misaligned(w) = 0 /\ Flushable(w) /\ w' = From(Flushed(w).output)

WriterNext == WriteBits \/ AppendBytes \/ (\E c \in Changes : ChangeBits(c[1], c[2]))
                \/ ResetTo \/ Dump

WriterSpec == WriterInit /\ [][WriterNext]_w

-----------------------------------------------------------------------------
\* Whatever is written in which widths, through words, flushes and other writers
\* on the same output: every bit is where index() said it would be, a change
\* changes its bits and no others, and nothing is left behind when the buffer is taken.
ImplementsBitSink == Sink!Init /\ [][Sink!Next]_w
=============================================================================
