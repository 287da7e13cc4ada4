---------------------------- MODULE HuffmanCoding ----------------------------
(***************************************************************************)
(* huff0: how the encoder gives weights and codes to the symbols of the    *)
(* literals, how it writes the weights, and how the decoder reads them and *)
(* makes its own table.  Counts, weights and codes are sequences; symbol s *)
(* is at place s + 1.                                                      *)
(***************************************************************************)
EXTENDS FiniteStateEntropy

MaxMaxNumBits == 11

NumberOf(weights, w) == Cardinality({i \in DOMAIN weights : weights[i] = w})

WeightSum(weights) ==
    SumFunction([w \in Range(weights) |-> NumberOf(weights, w) * IF w > 0 THEN 2^(w - 1) ELSE 0])

Copies(w, n) == [i \in 1..n |-> w]

-----------------------------------------------------------------------------
(* Encoder: the weights                                                    *)

\* Each round doubles the sum, with as many weights of the same kind as there
\* is room for, or with one that is as much as all of them.
DistributeWeights(amount) ==
    LET Round(d) ==
            LET wanted == 2^(d.counter - d.target)
            IN  IF wanted <= amount - Len(d.weights)
                THEN [d EXCEPT !.weights = @ \o Copies(d.target, wanted), !.counter = @ + 1]
                ELSE [weights |-> Append(d.weights, d.counter), target |-> d.counter, counter |-> d.counter + 1]
        distributed[d \in [weights : Seq(Nat), target : Nat, counter : Nat]] ==
            IF Len(d.weights) >= amount THEN d.weights ELSE distributed[Round(d)]
    IN  distributed[[weights |-> <<1, 1>>, target |-> 1, counter |-> 2]]

\* Of the weights in front of the first that is too large the first largest one
\* goes down, until what was added is gone.
Reduced(weights, added) ==
    LET Reducing(r) ==
            LET tooLarge == {i \in DOMAIN r.weights : 2^(r.weights[i] - 1) > r.added}
                end      == IF tooLarge = {} THEN Len(r.weights) ELSE Min(tooLarge) - 1
                largest  == Max({r.weights[i] : i \in 1..end})
                first    == Min({i \in 1..end : r.weights[i] = largest})
            IN  [weights |-> Plus(r.weights, first, -1), added |-> r.added - 2^(largest - 1)]
        reduced[r \in [weights : Seq(Nat), added : Nat]] ==
            IF r.added = 0 THEN r.weights ELSE reduced[Reducing(r)]
    IN  reduced[[weights |-> weights, added |-> added]]

\* Weights that would need too many bits are brought closer together.
RedistributeWeights(weights, maxNumBits) ==
    LET log     == Log2(2 * WeightSum(weights))
        least   == log - maxNumBits + 1
        raised  == [i \in DOMAIN weights |-> Max({weights[i], least})]
        added   == SumFunction([w \in Range(weights) \cap 0..(least - 1) |->
                                  NumberOf(weights, w) * (2^least - 2^w)])
        reduced == Reduced(SubSeq(raised, 1, Len(raised)), added)
    IN  IF log < maxNumBits THEN weights
        ELSE IF reduced[1] > 1 THEN [i \in DOMAIN reduced |-> reduced[i] - (reduced[1] - 1)]
        ELSE reduced

\* build_from_counts: the rarest symbol gets the first weight; symbols as rare
\* as one another in their order.
WeightsOf(counts) ==
    LET used    == {s \in DOMAIN counts : counts[s] > 0}
        amount  == Cardinality(used)
        weights == RedistributeWeights(DistributeWeights(amount), Log2(amount) + 2)
        Rank(s) == Cardinality({t \in used : counts[t] < counts[s] \/ (counts[t] = counts[s] /\ t <= s)})
    IN  [s \in DOMAIN counts |-> IF s \in used THEN weights[Rank(s)] ELSE 0]

-----------------------------------------------------------------------------
(* Encoder: the codes                                                      *)

\* build_from_weights, which panics if the sum is no power of two.
IsComplete(weights) == WeightSum(weights) = 2^Log2(WeightSum(weights))

\* Symbols are numbered by weight and then by symbol; codes lose a bit whenever
\* the weight goes up.
CodesOf(weights) ==
    LET Number0(w)          == Cardinality({s \in DOMAIN weights : weights[s] = w})
        first[w \in 1..12]  == IF w = 1 THEN 0 ELSE (first[w - 1] + Number0(w - 1)) \div 2
        InFront(s)          == Cardinality({t \in 1..(s - 1) : weights[t] = weights[s]})
    IN  [s \in DOMAIN weights |->
           IF weights[s] = 0 THEN [code |-> 0, bits |-> 0]
           ELSE [code |-> first[weights[s]] + InFront(s), bits |-> Log2(WeightSum(weights)) - weights[s] + 1]]

-----------------------------------------------------------------------------
(* The weights on their way                                                *)

Longest(codes) == Max({codes[s].bits : s \in DOMAIN codes})

\* HuffmanEncoder::weights, without the last, which the sum tells.
SentWeights(codes) ==
    [s \in 1..(Len(codes) - 1) |-> IF codes[s].bits = 0 THEN 0 ELSE Longest(codes) - codes[s].bits + 1]

\* From the end of the data, one state for every other symbol; "e" is the two
\* states, the one whose turn it is first, and the stream.
EncodeInterleaved(table, data, starts) ==
    LET n == Len(data) - 2
        Encoding(e, symbol) ==
            LET last == e.states[1]
                next == NextState(table, symbol, last.index)
            IN  [states |-> <<e.states[2], next>>,
                 stream |-> e.stream \o Bits(last.index - next.baseline, next.bits)]
        encoded[k \in 0..n] == IF k = 0 THEN [states |-> starts, stream |-> <<>>]
                               ELSE Encoding(encoded[k - 1], data[n + 1 - k])
        e == encoded[n]
    IN  Closed(e.stream \o Bits(e.states[1].index, table.log) \o Bits(e.states[2].index, table.log))

\* A decoder gives its symbol and updates its state; when that took bits that
\* were not there, the symbol of the other one is the last.
DecodeInterleaved(decode, stream, start) ==
    LET Decoding(d) ==
            LET entry == decode[d.states[1]]
            IN  [left    |-> d.left - entry.bits,
                 states  |-> <<d.states[2], entry.base + ReadReversed(stream, d.left, entry.bits)>>,
                 weights |-> Append(d.weights, entry.symbol)]
        decoded[d \in [left : Int, states : Seq(Nat), weights : Seq(Nat)]] ==
            IF Decoding(d).left <= -1
            THEN Append(Decoding(d).weights, decode[d.states[2]].symbol)
            ELSE IF Len(d.weights) >= 255 THEN <<>>
            ELSE decoded[Decoding(d)]
    IN  decoded[start]

Counted(data) == [w \in 1..(Max(Range(data)) + 1) |-> Cardinality({i \in DOMAIN data : data[i] = w - 1})]

\* encode_interleaved
Interleaved(table, weights, n) ==
    LET starts == <<StartState(table, weights[n]), StartState(table, weights[n - 1])>>
    IN  [direct |-> FALSE, header |-> WriteTable(table, <<>>),
         stream |-> EncodeInterleaved(table, weights, starts)]

\* write_table: a table and two interleaved streams when there are more than 16
\* weights, half a byte for each otherwise.
WriteWeights(weights) ==
    LET n       == Len(weights)
        Half(i) == IF i <= n THEN weights[i] ELSE 0
    IN  IF n > 16 THEN Interleaved(TableFromCounts(Counted(weights), 6), weights, n)
        ELSE [direct |-> TRUE, header |-> Bits(n + 127, 8),
              stream |-> FlattenSeq([i \in 1..((n + 1) \div 2) |->
                                       Bits(Half(2 * i), 4) \o Bits(Half(2 * i - 1), 4)])]

\* The weights of the compressed form.
Deinterleaved(read, stream, left) ==
    LET first  == ReadReversed(stream, left, read.log)
        second == ReadReversed(stream, left - read.log, read.log)
    IN  DecodeInterleaved(DecodingTable(read.probs, read.log), stream,
                          [left |-> left - 2 * read.log, states |-> <<first, second>>, weights |-> <<>>])

\* read_weights; the first byte, which tells the two forms apart and gives the
\* length of the compressed one, is kept in "direct" and Len.
ReadWeights(written) ==
    LET number == Read(written.header, 0, 8) - 127
        Byte(i) == Read(written.stream, 8 * (i \div 2), 8)
    IN  IF written.direct
        THEN [i \in 1..number |-> IF i % 2 = 1 THEN Byte(i - 1) \div 16 ELSE Byte(i - 1) % 16]
        ELSE Deinterleaved(ReadProbabilities(written.header \o written.stream, 0, 6, 255),
                           written.stream, Opened(written.stream))

-----------------------------------------------------------------------------
(* Decoder: the table                                                      *)

\* A symbol takes a range of the table: all that starts with its code.
RangesOf(bits, maxBits, missing) ==
    LET Rank(b) == Cardinality({s \in DOMAIN bits : bits[s] = b})
        from[b \in 0..maxBits] == IF b = maxBits THEN 0 ELSE from[b + 1] + Rank(b + 1) * 2^(maxBits - b - 1)
        InFront(s) == Cardinality({t \in 1..(s - 1) : bits[t] = bits[s]})
    IN  [max |-> maxBits, isPower |-> missing = 2^Log2(missing),
         size |-> from[0],
         ranges |-> [s \in DOMAIN bits |->
                       IF bits[s] = 0 THEN [first |-> 0, bits |-> 0]
                       ELSE [first |-> from[bits[s]] + InFront(s) * 2^(maxBits - bits[s]), bits |-> bits[s]]]]

Completed(weights, maxBits, missing) ==
    LET all == Append(SubSeq(weights, 1, Len(weights)), Log2(missing) + 1)
    IN  RangesOf([s \in DOMAIN all |-> IF all[s] > 0 THEN maxBits + 1 - all[s] ELSE 0], maxBits, missing)

\* build_table_from_weights: the last weight makes the sum a power of two.
DecodedCodes(weights) ==
    LET sum     == WeightSum(weights)
        maxBits == Log2(sum) + 1
    IN  Completed(weights, maxBits, 2^maxBits - sum)

-----------------------------------------------------------------------------
(* What the two sides must agree on                                        *)

\* A lookup of the next "max" bits finds the symbol whose code they start with.
CodesAreFound(codes, decoded) ==
    /\ decoded.isPower
    /\ decoded.max = Longest(codes) /\ decoded.max <= MaxMaxNumBits
    /\ decoded.size = 2^decoded.max
    /\ \A s \in DOMAIN codes :
          decoded.ranges[s] = [first |-> codes[s].code * (IF codes[s].bits = 0 THEN 0 ELSE 2^(decoded.max - codes[s].bits)),
                               bits  |-> codes[s].bits]
=============================================================================
