------------------------- MODULE FiniteStateEntropy -------------------------
(***************************************************************************)
(* fse: how the encoder makes a table from the counts of the symbols, how  *)
(* the decoder makes its own from the probabilities, and the description   *)
(* of the probabilities that goes from one to the other.  Probabilities    *)
(* are a sequence; symbol s is at place s + 1.  States count from 0.       *)
(***************************************************************************)
EXTENDS Integers, Sequences, SequencesExt, FiniteSetsExt, BitStreams

\* What stands for the panic of the encoder: probabilities it could not even
\* out, a state it did not find.
NoTable == <<>>
NoState == [bits |-> 0, baseline |-> 0, last |-> 0, index |-> -1]

Log2(n) == CHOOSE k \in 0..29 : 2^k <= n /\ n < 2^(k + 1)

\* The sum of the first n numbers of a sequence.
SumTo(seq, n) == LET sum[i \in 0..n] == IF i = 0 THEN 0 ELSE sum[i - 1] + seq[i] IN sum[n]

\* A set of numbers in order, element by element.
Ascending(set) ==
    LET inOrder == [k \in 1..Cardinality(set) |-> CHOOSE i \in set : Cardinality({j \in set : j <= i}) = k]
    IN  SubSeq(inOrder, 1, Cardinality(set))

-----------------------------------------------------------------------------
(* Encoder: from counts to probabilities that add up to a power of two     *)

\* The lowest count becomes one.
Shifted(counts) ==
    LET least == Min(Range(counts) \ {0})
    IN  [s \in DOMAIN counts |-> IF counts[s] = 0 THEN 0 ELSE counts[s] - (least - 1)]

Scaled(probs) ==
    LET divisor == Max(Range(probs)) \div Len(probs)
    IN  IF Max(Range(probs)) <= Len(probs) THEN probs
        ELSE [s \in DOMAIN probs |-> IF probs[s] = 0 THEN 0 ELSE Max({probs[s] \div divisor, 1})]

Plus(probs, s, by) == SubSeq(probs, 1, s - 1) \o <<probs[s] + by>> \o SubSeq(probs, s + 1, Len(probs))

LastMax(probs) == Max({s \in DOMAIN probs : probs[s] = Max(Range(probs))})

\* The smallest of those above one gives what it can, the first of them first; there
\* is one as long as there are no more symbols than states.
Lowered(probs, diff) ==
    LET Lowering(l) ==
            LET smallest == Min(Range(l.probs) \ {0, 1})
                s        == Min({t \in DOMAIN l.probs : l.probs[t] = smallest})
                decrease == Min({smallest - 1, l.diff})
            IN  [probs |-> Plus(l.probs, s, -decrease), diff |-> l.diff - decrease]
        lowered[l \in [probs : Seq(Nat), diff : Nat]] ==
            IF l.diff = 0 \/ Range(l.probs) \subseteq {0, 1} THEN l.probs ELSE lowered[Lowering(l)]
    IN  lowered[[probs |-> probs, diff |-> diff]]

AccLog(sum, maxLog) == Min({Max({Log2(sum) + 1, 5}), maxLog})

Normalised(probs, log) ==
    LET sum == SumTo(probs, Len(probs))
    IN  IF sum < 2^log THEN Plus(probs, LastMax(probs), 2^log - sum)
        ELSE Lowered(probs, sum - 2^log)

\* Mutant: the excess of the most frequent symbol is not taken off.
Halved_Kept(probs, log) == IF Len(probs) = 1 THEN NoTable ELSE probs

\* avoid_0_numbit: no symbol has more than half of the states, so that every
\* state takes at least one bit.  There must be a second symbol to take the rest.
Halved(probs, log) ==
    LET half  == 2^(log - 1)
        most  == LastMax(probs)
        rest  == Plus(probs, most, half - probs[most])
        other == Range(rest) \ {half}
    IN  IF probs[most] <= half THEN probs
        ELSE IF other = {} THEN NoTable
        ELSE LET second == Min({s \in DOMAIN rest : rest[s] = Max(other)})
             IN  Plus(rest, second, probs[most] - half)

Probabilities(counts, maxLog) ==
    LET probs == Scaled(Shifted(counts))
        log   == AccLog(SumTo(probs, Len(probs)), maxLog)
    IN  [log |-> log, probs |-> Halved(Normalised(probs, log), log)]

-----------------------------------------------------------------------------
(* Encoder: the table                                                      *)

\* next_position from 0 on: every position once.
Walk(size) == [k \in 1..size |-> ((k - 1) * (size \div 2 + size \div 8 + 3)) % size]

Positive(probs) == [s \in DOMAIN probs |-> IF probs[s] > 0 THEN probs[s] ELSE 0]

Negative(probs) == {s \in DOMAIN probs : probs[s] = -1}

\* States of symbols with a positive probability are taken in this order; those
\* of the others are the last ones.
Slots(probs, log) ==
    LET walk == Walk(2^log)
        free == 2^log - Cardinality(Negative(probs))
        taken[k \in 0..2^log] == IF k = 0 THEN <<>>
                                 ELSE IF walk[k] < free THEN Append(taken[k - 1], walk[k])
                                 ELSE taken[k - 1]
    IN  taken[2^log]

\* The states of symbol s, and how many the symbols in front of it take.
Before(probs, s) == SumTo(Positive(probs), s - 1)

Owned(probs, slots, s) == {slots[Before(probs, s) + k] : k \in 1..probs[s]}

\* The states of one symbol, first in the order of the table, in which they share
\* what they target, then in the order of what they target.
StatesOf(probs, log, slots, s) ==
    LET size    == 2^log
        prob    == probs[s]
        ceil    == Log2(prob) + (IF 2^Log2(prob) = prob THEN 0 ELSE 1)
        double  == 2^ceil - prob
        single  == prob - double
        bits    == log - ceil
        start   == (single * 2^bits) % size
        own     == Ascending(Owned(probs, slots, s))
        Base(k) == IF k <= double THEN (start + (k - 1) * 2^(bits + 1)) % size
                   ELSE ((start + double * 2^(bits + 1)) % size) + (k - 1 - double) * 2^bits
        Entry(k) == LET wide == IF k <= double THEN bits + 1 ELSE bits
                    IN  [bits |-> wide, baseline |-> Base(k), last |-> Base(k) + 2^wide - 1, index |-> own[k]]
        targets == Ascending({Base(k) : k \in 1..prob})
    IN  [i \in 1..prob |-> Entry(CHOOSE k \in 1..prob : Base(k) = targets[i])]

\* A symbol with probability -1 has one state, which any state may follow.
RareState(probs, log, s) ==
    <<[bits |-> log, baseline |-> 0, last |-> 2^log - 1,
       index |-> 2^log - Cardinality({t \in Negative(probs) : t <= s})]>>

EncodingTable(probs, log) ==
    LET slots == Slots(probs, log)
    IN  [log |-> log, probs |-> probs,
         states |-> [s \in DOMAIN probs |->
                       CASE probs[s] > 0  -> StatesOf(probs, log, slots, s)
                         [] probs[s] = 0  -> <<>>
                         [] probs[s] = -1 -> RareState(probs, log, s)]]

\* build_table_from_counts
TableFromCounts(counts, maxLog) ==
    LET p == Probabilities(counts, maxLog) IN EncodingTable(p.probs, p.log)

StartState(table, symbol) == table.states[symbol + 1][1]

\* Mutant: the search starts one state too late.
NextState_Late(table, symbol, idx) ==
    LET states == table.states[symbol + 1]
        from   == (idx * Len(states)) \div 2^table.log + 2
        found  == {k \in from..Len(states) : states[k].baseline <= idx /\ idx <= states[k].last}
    IN  IF found = {} THEN NoState ELSE states[Min(found)]

\* The search starts where the state would be if all were as wide; there must
\* be one from there on that targets idx.
NextState(table, symbol, idx) ==
    LET states == table.states[symbol + 1]
        from   == (idx * Len(states)) \div 2^table.log + 1
        found  == {k \in from..Len(states) : states[k].baseline <= idx /\ idx <= states[k].last}
    IN  IF found = {} THEN NoState ELSE states[Min(found)]

-----------------------------------------------------------------------------
(* The description of the probabilities                                    *)

\* A value is written in as few bits as the rest of the sum allows, and values
\* below a threshold in one bit less.
Width(most) == Log2(most) + 1

Threshold(most) == 2^Width(most) - 1 - most

ProbabilityBits(prob, most) ==
    LET value == prob + 1
        low   == Threshold(most)
    IN  IF value < low THEN Bits(value, Width(most) - 1)
        ELSE IF value > 2^(Width(most) - 1) - 1 THEN Bits(value + low, Width(most))
        ELSE Bits(value, Width(most))

\* As many threes as there are, and what remains.
ZeroRun(zeros) == [i \in 1..(2 * (zeros \div 3)) |-> 1] \o Bits(zeros % 3, 2)

\* What symbols take of the sum.
Shares(probs) == [s \in DOMAIN probs |-> IF probs[s] = -1 THEN 1 ELSE probs[s]]

\* What is written for a symbol: nothing when nothing is left of the sum, and
\* nothing for a zero behind another one, which is part of the run behind the first.
Written(probs, log, s) ==
    LET rest == 2^log - SumTo(Shares(probs), s - 1)
        next == Min({t \in (s + 1)..(Len(probs) + 1) : t > Len(probs) \/ probs[t] # 0})
        run  == IF probs[s] = 0 THEN ZeroRun(next - s - 1) ELSE <<>>
    IN  IF rest = 0 \/ (s > 1 /\ probs[s] = 0 /\ probs[s - 1] = 0) THEN <<>>
        ELSE ProbabilityBits(probs[s], rest + 1) \o run

WriteProbabilities(probs, log, stream) ==
    LET written[s \in 0..Len(probs)] ==
            IF s = 0 THEN stream ELSE written[s - 1] \o Written(probs, log, s)
    IN  written[Len(probs)]

\* write_table, which ends at a byte.
WriteTable(table, stream) ==
    Aligned(WriteProbabilities(table.probs, table.log, stream \o Bits(table.log - 5, 4)))

Failed == [log |-> 0, probs |-> <<>>, pos |-> 0]

\* Zeros in pairs of bits, each a number of them, the first that is not three the
\* last; at place 0 if there is none.
SkipZeros(stream, pos) ==
    LET ends == {k \in 0..((Len(stream) - pos) \div 2 - 1) : Read(stream, pos + 2 * k, 2) # 3}
        last == pos + 2 * Min(ends)
    IN  IF ends = {} THEN [pos |-> 0, zeros |-> 0]
        ELSE [pos |-> last + 2, zeros |-> 3 * Min(ends) + Read(stream, last, 2)]

\* One round: "rest" is what is left of the sum, -1 when reading has failed.
ReadProbability(stream, r) ==
    LET most      == r.rest + 1
        unchecked == Read(stream, r.pos, Width(most))
        small     == unchecked % 2^(Width(most) - 1)
        value     == CASE small < Threshold(most) -> small
                       [] small >= Threshold(most) /\ unchecked # small -> unchecked - Threshold(most)
                       [] OTHER -> unchecked
        behind    == r.pos + Width(most) - (IF small < Threshold(most) THEN 1 ELSE 0)
        skip      == SkipZeros(stream, behind)
    IN  IF ~Readable(stream, r.pos, Width(most)) \/ (value = 1 /\ skip.pos = 0)
        THEN [r EXCEPT !.rest = -1]
        ELSE IF value = 1
        THEN [r EXCEPT !.pos = skip.pos, !.probs = @ \o [i \in 1..(1 + skip.zeros) |-> 0]]
        ELSE [pos |-> behind, rest |-> r.rest - (IF value = 0 THEN 1 ELSE value - 1),
              probs |-> Append(r.probs, value - 1)]

MaxAccLog == 9          \* of all tables

ReadRest(stream, pos, log) ==
    LET read[r \in [pos : Nat, rest : -1..2^MaxAccLog, probs : Seq(Int)]] ==
            IF r.rest <= 0 THEN r ELSE read[ReadProbability(stream, r)]
    IN  read[[pos |-> pos, rest |-> 2^log, probs |-> <<>>]]

\* read_probabilities of a table whose symbols are not above maxSymbol; "pos" is
\* then the first whole byte behind it.  A failure has log 0.
ReadProbabilities(stream, pos, maxLog, maxSymbol) ==
    LET log  == 5 + Read(stream, pos, 4)
        read == ReadRest(stream, pos + 4, log)
    IN  IF \/ ~Readable(stream, pos, 4) \/ log > maxLog
           \/ read.rest # 0 \/ Len(read.probs) > maxSymbol + 1
        THEN Failed
        ELSE [log |-> log, probs |-> read.probs, pos |-> ((read.pos + 7) \div 8) * 8]

-----------------------------------------------------------------------------
(* Decoder: the table                                                      *)

\* calc_baseline_and_numbits for the n-th state of a symbol.
BaselineAndNumBits(size, prob, n) ==
    LET slices == IF 2^Log2(prob) = prob THEN prob ELSE 2^(Log2(prob) + 1)
        double == slices - prob
        single == prob - double
        width  == size \div slices
    IN  IF n < double THEN [base |-> single * width + n * width * 2, bits |-> Log2(width) + 1]
        ELSE [base |-> (n - double) * width, bits |-> Log2(width)]

\* build_decoding_table: symbols of probability -1 from the top down, then the
\* others along the walk; a state knows how many of its symbol are in front.
DecodingTable(probs, log) ==
    LET size     == 2^log
        top      == Ascending(Negative(probs))
        free     == size - Len(top)
        slots    == Slots(probs, log)
        Owner(i) == CHOOSE s \in DOMAIN probs : i \in Owned(probs, slots, s)
        Spread(i, s) == BaselineAndNumBits(size, probs[s], Cardinality({j \in Owned(probs, slots, s) : j < i}))
    IN  [i \in 0..(size - 1) |->
           IF i >= free THEN [symbol |-> top[size - i] - 1, base |-> 0, bits |-> log]
           ELSE LET s == Owner(i)
                IN  [symbol |-> s - 1, base |-> Spread(i, s).base, bits |-> Spread(i, s).bits]]

-----------------------------------------------------------------------------
(* What the two sides must agree on                                        *)

SameStates(table, decode) ==
    \A s \in DOMAIN table.probs : \A k \in DOMAIN table.states[s] :
       LET st == table.states[s][k]
       IN  decode[st.index] = [symbol |-> s - 1, base |-> st.baseline, bits |-> st.bits]

\* Whatever state comes next, the encoder finds a state of the symbol from which
\* the decoder gets there.
EveryStepIsPossible(table) ==
    \A s \in DOMAIN table.probs : table.probs[s] # 0 =>
       \A idx \in 0..(2^table.log - 1) :
          LET st == NextState(table, s - 1, idx)
          IN  st # NoState /\ idx - st.baseline \in 0..(2^st.bits - 1)

DescriptionIsRead(table) ==
    LET stream == WriteTable(table, <<>>)
        read   == ReadProbabilities(stream \o Bits(1, 8), 0, 9, 255)
    IN  /\ read.pos = Len(stream)
        /\ read.log = table.log
        /\ read.probs = table.probs
=============================================================================
