----------------------------- MODULE BitSource -----------------------------
(***************************************************************************)
(* What BitReaderReversed promises: bits come from the end of the source,  *)
(* the highest bit of what is asked for first, and zeros when there are no *)
(* more.  Every bit is named by its place, from 1; 0 is a zero.            *)
(***************************************************************************)
EXTENDS Integers, Sequences

CONSTANTS Sources,          \* lengths of sources, in bytes
          Widths, Triples   \* what is asked for, one by one or three at once

VARIABLES source, left,     \* the length of the source, the bits that remain
          got               \* what the last call returned, lowest bits first

\* The bit with p bits in front of it.
Bit(length, p) == IF p \in 0..(8 * length - 1) THEN p + 1 ELSE 0

Init == source \in Sources /\ left = 8 * source /\ got = <<>>

\* The last n of so many bits.
Last(remaining, n) == [i \in 1..n |-> Bit(source, remaining - n + i - 1)]

GetBits(n) ==
    /\ got' = <<Last(left, n)>>
    /\ left' = left - n
    /\ UNCHANGED source

GetBitsTriple(n1, n2, n3) ==
    /\ got' = <<Last(left, n1), Last(left - n1, n2), Last(left - n1 - n2, n3)>>
    /\ left' = left - n1 - n2 - n3
    /\ UNCHANGED source

Next == \/ \E n \in Widths : GetBits(n)
        \/ \E t \in Triples : GetBitsTriple(t[1], t[2], t[3])

Spec == Init /\ [][Next]_<<source, left, got>>
=============================================================================
