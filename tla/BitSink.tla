------------------------------ MODULE BitSink ------------------------------
(***************************************************************************)
(* What BitWriter promises: a growing sequence of bits that can be changed *)
(* or cut off where they have been written already.  A bit is named by its *)
(* place, from 1; the one that a change puts there by the same number      *)
(* below zero; 0 is a zero.                                                *)
(***************************************************************************)
EXTENDS Integers, Sequences

CONSTANTS Widths,           \* how many bits are written at once
          Changes,          \* what is changed: places and numbers of bits
          Lengths           \* how many bytes are appended, or there before

VARIABLES content,          \* all bits so far
          index             \* what index() says

sinkVars == <<content, index>>

\* n bits at the end of so many.
New(length, n) == [i \in 1..n |-> length + i]

Init == /\ content \in {New(0, 8 * n) : n \in Lengths}
        /\ index = Len(content)

Extend(n) ==
    /\ content' = content \o New(Len(content), n)
    /\ index' = index + n

WriteBits == \E n \in Widths \cup 0..7 : Extend(n)

AppendBytes == \E n \in Lengths : Len(content) % 8 = 0 /\ Extend(8 * n)

ChangeBits(idx, n) ==
    /\ idx + n < Len(content)
    /\ content' = [p \in 1..Len(content) |-> IF p \in (idx + 1)..(idx + n) THEN -p ELSE content[p]]
    /\ UNCHANGED index

ResetTo == \E n \in 0..(Len(content) \div 8) :
              /\ content' = SubSeq(content, 1, 8 * n)
              /\ index' = 8 * n

Next == WriteBits \/ AppendBytes \/ (\E c \in Changes : ChangeBits(c[1], c[2])) \/ ResetTo

Spec == Init /\ [][Next]_sinkVars
=============================================================================
