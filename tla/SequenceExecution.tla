-------------------------- MODULE SequenceExecution --------------------------
(***************************************************************************)
(* decoding/sequence_execution.rs: the sequences of a block are executed   *)
(* one after the other.  A sequence takes ll literals, then copies ml      *)
(* bytes from an offset that may be one of the three last offsets used.    *)
(* The history of offsets goes on from block to block and from a           *)
(* dictionary.                                                             *)
(*                                                                         *)
(* Sequences are drawn when they are executed (nothing reads them before). *)
(* "out" is what the decode buffer was given; DecodeBuffer says how.       *)
(***************************************************************************)
EXTENDS Integers, Sequences, FiniteSets

CONSTANTS Byte,
          Histories,  \* offset histories a frame may begin with
          Literals,   \* literals of a block
          Lengths,    \* values of ll and ml
          Offsets,    \* offset values of sequences
          Reach,      \* bytes of dictionary before the output
          MaxU32,     \* u32::MAX, more than any buffer holds
          MaxOut,     \* bound: bytes of output of a frame
          MaxOffset   \* bound: offsets in the history

\* decode_dict reads the three offsets of a dictionary as they are, zeroes too.
ASSUME HistoriesAssumption == Histories \subseteq [1..3 -> Nat]
ASSUME LiteralsAssumption  == Literals \subseteq Seq(Byte)
ASSUME NumbersAssumption   == /\ Lengths \subseteq Nat /\ Offsets \subseteq Nat \ {0}
                              /\ Reach \in Nat /\ MaxOut \in Nat /\ MaxOffset \in Nat
                              /\ MaxU32 \in Nat /\ MaxU32 > Reach + MaxOut

VARIABLES literals_buffer, literals_copy_counter, old_buffer_size, seq_sum,
          offset_hist, out,
          status,  \* "between" blocks, "running", "panicked", or the error of the last one
          begun,   \* history: the offsets a decoder or a dictionary began with
          matched  \* history: the positions of out that the block's matches filled

vars == <<literals_buffer, literals_copy_counter, old_buffer_size, seq_sum,
          offset_hist, out, status, begun, matched>>

Init ==
    /\ offset_hist \in Histories /\ begun = offset_hist
    /\ literals_buffer = <<>> /\ literals_copy_counter = 0
    /\ old_buffer_size = 0 /\ seq_sum = 0 /\ out = <<>>
    /\ status = "between" /\ matched = {}

\* DecoderScratch::reset and init_from_dict.
Reset ==
    /\ status # "running"
    /\ offset_hist' \in Histories /\ begun' = offset_hist'
    /\ literals_buffer' = <<>> /\ literals_copy_counter' = 0
    /\ old_buffer_size' = 0 /\ seq_sum' = 0 /\ out' = <<>>
    /\ status' = "between" /\ matched' = {}

\* force_dict in the middle of a frame: init_from_dict without a reset.
ForceDict ==
    /\ status = "between"
    /\ offset_hist' \in Histories /\ begun' = offset_hist'
    /\ UNCHANGED <<literals_buffer, literals_copy_counter, old_buffer_size, seq_sum, out,
                   status, matched>>

StartBlock(literals) ==
    /\ status = "between"
    /\ literals_buffer' = literals /\ literals_copy_counter' = 0
    /\ old_buffer_size' = Len(out) /\ seq_sum' = 0
    /\ status' = "running" /\ matched' = {}
    /\ UNCHANGED <<offset_hist, out, begun>>

-----------------------------------------------------------------------------
(* do_offset_history                                                       *)

\* The offset a value stands for: one of the history, shifted by one when
\* there are no literals, or a new one.  A build without overflow checks wraps.
ActualOffset(of, ll, h) ==
    IF of > 3 THEN of - 3
    ELSE IF ll > 0 THEN h[of]
    ELSE IF of < 3 THEN h[of + 1]
    ELSE IF h[1] = 0 THEN MaxU32 ELSE h[1] - 1

\* Mutant: a repeated offset is not moved to the front but swapped.
NewHistory_Swap(of, ll, h) ==
    LET new == ActualOffset(of, ll, h)
    IN  CASE ll > 0 /\ of = 1 -> h
          [] (ll > 0 /\ of = 2) \/ (ll = 0 /\ of = 1) -> <<new, h[1], h[3]>>
          [] (ll > 0 /\ of = 3) \/ (ll = 0 /\ of = 2) -> <<new, h[2], h[1]>>
          [] OTHER -> <<new, h[1], h[2]>>

NewHistory(of, ll, h) ==
    LET new == ActualOffset(of, ll, h)
    IN  CASE ll > 0 /\ of = 1 -> h
          [] (ll > 0 /\ of = 2) \/ (ll = 0 /\ of = 1) -> <<new, h[1], h[3]>>
          [] OTHER -> <<new, h[1], h[2]>>

-----------------------------------------------------------------------------
(* execute_sequences                                                       *)

Match(history, offset, len) ==
    [i \in 1..len |-> history[Len(history) - offset + 1 + ((i - 1) % offset)]]

\* Mutant: the first literal of the sequence is skipped.
TakeLiterals_Short(ll) ==
    SubSeq(literals_buffer, literals_copy_counter + 2, literals_copy_counter + ll)

TakeLiterals(ll) ==
    SubSeq(literals_buffer, literals_copy_counter + 1, literals_copy_counter + ll)

NotEnoughLiterals(ll) ==
    /\ status = "running"
    /\ ll > 0 /\ literals_copy_counter + ll > Len(literals_buffer)
    /\ status' = "NotEnoughBytesForSequence"
    /\ UNCHANGED <<literals_buffer, literals_copy_counter, old_buffer_size, seq_sum, offset_hist, out,
                   begun, matched>>

\* Mutant: an offset of zero is let through when nothing is copied.
Refusal_OnlyMatches(offset, available, ml) ==
    IF ml > 0 /\ offset = 0 THEN "ZeroOffset"
    ELSE IF ml > 0 /\ offset > available THEN "NotEnoughBytesInDictionary" ELSE "none"

Refusal(offset, available, ml) ==
    IF offset = 0 THEN "ZeroOffset"
    ELSE IF ml > 0 /\ offset > available THEN "NotEnoughBytesInDictionary" ELSE "none"

\* The literals of the sequence are pushed and the history updated before the
\* offset is looked at; a match that fails leaves them so.
Execute(ll, ml, of) ==
    /\ status = "running"
    /\ literals_copy_counter + ll <= Len(literals_buffer)
    /\ Len(out) + ll + ml <= MaxOut
    /\ LET pushed == out \o TakeLiterals(ll)
           offset == ActualOffset(of, ll, offset_hist)
           error  == Refusal(offset, Len(pushed) + Reach, ml)
       IN  /\ offset \in 0..MaxOffset \cup {MaxU32}
           /\ offset_hist' = NewHistory(of, ll, offset_hist)
           /\ literals_copy_counter' = literals_copy_counter + ll
           /\ IF error = "none"
              THEN /\ out' = pushed \o Match([i \in 1..Reach |-> "dictionary"] \o pushed, offset, ml)
                   /\ seq_sum' = seq_sum + ml + ll
                   /\ matched' = matched \cup (Len(pushed) + 1 .. Len(pushed) + ml)
                   /\ UNCHANGED status
              ELSE out' = pushed /\ status' = error /\ UNCHANGED <<seq_sum, matched>>
    /\ UNCHANGED <<literals_buffer, old_buffer_size, begun>>

\* "scratch[0] - 1", in a build with overflow checks.
Underflow(ll, of) ==
    /\ status = "running"
    /\ ll = 0 /\ of = 3 /\ offset_hist[1] = 0
    /\ status' = "panicked"
    /\ UNCHANGED <<literals_buffer, literals_copy_counter, old_buffer_size, seq_sum, offset_hist, out,
                   begun, matched>>

\* Mutant: the rest is taken from the start of the literals.
RestLiterals_FromStart == SubSeq(literals_buffer, 1, Len(literals_buffer) - literals_copy_counter)

RestLiterals == SubSeq(literals_buffer, literals_copy_counter + 1, Len(literals_buffer))

FinishBlock ==
    /\ status = "running" /\ Len(out) + Len(RestLiterals) <= MaxOut
    /\ out' = out \o RestLiterals
    /\ seq_sum' = seq_sum + Len(RestLiterals)
    /\ literals_copy_counter' = Len(literals_buffer)
    /\ status' = "between"
    /\ UNCHANGED <<literals_buffer, old_buffer_size, offset_hist, begun, matched>>

Next ==
    \/ Reset \/ ForceDict
    \/ \E literals \in Literals : StartBlock(literals)
    \/ \E ll \in Lengths : NotEnoughLiterals(ll)
    \/ \E ll, ml \in Lengths, of \in Offsets : Execute(ll, ml, of)
    \/ \E ll \in Lengths, of \in Offsets : Underflow(ll, of)
    \/ FinishBlock

Spec == Init /\ [][Next]_vars

-----------------------------------------------------------------------------
\* Type invariant.
TypeOK ==
    /\ {offset_hist, begun} \subseteq [1..3 -> Nat]
    /\ literals_copy_counter \in 0..Len(literals_buffer)
    /\ out \in Seq(Byte \cup {"dictionary"})
    /\ seq_sum \in Nat /\ old_buffer_size \in Nat
    /\ status \in {"between", "running", "panicked", "NotEnoughBytesForSequence",
                   "ZeroOffset", "NotEnoughBytesInDictionary"}

One(offset) == IF offset = 0 THEN 1 ELSE 0
Zeroes(h) == One(h[1]) + One(h[2]) + One(h[3])

\* As long as no sequence was refused, the history has no more zeroes than the
\* decoder or the dictionary began it with: a sequence that would add one is
\* refused, also one without a match, and none is copied twice.  So the
\* subtraction in "scratch[0] - 1" underflows for such dictionaries only.
OnlyDictionariesBringZeroes ==
    /\ status \in {"between", "running"} => Zeroes(offset_hist) <= Zeroes(begun)
    /\ status = "panicked" => Zeroes(begun) > 0

\* Readme of the repository, on malformed input: "they must not make the decoder
\* panic".
NeverPanics == status # "panicked"

\* The assertion at the end of execute_sequences: what was counted is what the
\* buffer grew by.
CountedIsPushed == status \in {"between", "running"} => seq_sum = Len(out) - old_buffer_size

\* The repeated offsets of the format: value v picks entry v, or v + 1 when
\* there are no literals, and moves it to the front; a fourth entry stands for
\* the first less one, and a new offset is put in front.
MoveToFront(h, i) ==
    CASE i = 1 -> h
      [] i = 2 -> <<h[2], h[1], h[3]>>
      [] i = 3 -> <<h[3], h[1], h[2]>>
      [] i = 4 -> <<h[1] - 1, h[1], h[2]>>

HistoryIsMoveToFront ==
    \A h \in Histories \cup {offset_hist}, ll \in Lengths, of \in Offsets :
        h[1] > 0 =>
            NewHistory(of, ll, h) =
                IF of > 3 THEN <<of - 3, h[1], h[2]>>
                ELSE MoveToFront(h, IF ll = 0 THEN of + 1 ELSE of)

\* The literals of a block are used in order and each of them once: what the
\* block has put out, without what its matches copied, is the literals so far,
\* also when a sequence was refused after its literals; in the end it is all.
LiteralsAreUsedInOrder ==
    LET Literal(i) == i > old_buffer_size /\ i \notin matched
        Before(i)  == Cardinality({j \in 1..i : Literal(j)})
    IN  /\ Before(Len(out)) = literals_copy_counter
        /\ \A i \in 1..Len(out) : Literal(i) => out[i] = literals_buffer[Before(i)]
        /\ status = "between" => literals_copy_counter = Len(literals_buffer)
=============================================================================
