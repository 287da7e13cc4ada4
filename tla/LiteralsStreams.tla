--------------------------- MODULE LiteralsStreams ---------------------------
(***************************************************************************)
(* The literals section of a block, written by compress_literals           *)
(* (encoding/blocks/compressed.rs, huff0/huff0_encoder.rs) and read by     *)
(* decompress_literals (decoding/literals_section_decoder.rs): a header, a *)
(* description of the Huffman codes unless those of an earlier block do,   *)
(* and one stream or four with their sizes in front.  Sizes are written    *)
(* when they are known, over zeros.  Literals are numbers from 0.          *)
(***************************************************************************)
EXTENDS HuffmanCoding, Headers

NoCodes == <<>>             \* there is no earlier block

\* change_bits
Changed(stream, idx, bits) ==
    [i \in 1..Len(stream) |-> IF i - idx \in DOMAIN bits THEN bits[i - idx] ELSE stream[i]]

CodesFor(literals) == CodesOf(WeightsOf(Counted(literals)))

-----------------------------------------------------------------------------
(* Encoder                                                                 *)

\* Mutant: a symbol that has no code is no obstacle.
CanEncode_AnySymbol(last, new) == Len(new) <= Len(last)

CanEncode(last, new) ==
    /\ Len(new) <= Len(last)
    /\ \A s \in DOMAIN new : new[s].bits # 0 => last[s].bits # 0

Difference(last, new) ==
    LET Apart(a, b) == IF a > b THEN a - b ELSE b - a
    IN  SumFunction([s \in DOMAIN new |-> Apart(last[s].bits, new[s].bits)])

\* The codes to encode with, and whether the decoder must be told.
ChooseCodes(literals, last) ==
    LET new == CodesFor(literals)
    IN  IF last # NoCodes /\ CanEncode(last, new) /\ Difference(last, new) <= 5
        THEN [codes |-> last, new |-> FALSE]
        ELSE [codes |-> new, new |-> TRUE]

NumStreams(n) == IF SizeFormat(n)[1] = 0 THEN 1 ELSE 4

\* write_table in bytes, after a byte for the length of the compressed form.
InBytes(direct, all) == IF direct THEN all ELSE Bits(Len(all) \div 8, 8) \o all

Description(codes) ==
    LET written == WriteWeights(SentWeights(codes))
    IN  InBytes(written.direct, written.header \o written.stream)

\* What is in front of the streams, the sizes still zero.
Lead(choice, n) ==
    LiteralsHeader([type |-> IF choice.new THEN 2 ELSE 3, regenerated |-> n, compressed |-> 0])
      \o (IF choice.new THEN Description(choice.codes) ELSE <<>>)
      \o (IF NumStreams(n) = 4 THEN Zeros(48) ELSE <<>>)

\* The literals of the k-th of four streams; the last may be shorter.
Part(literals, k) ==
    LET n     == Len(literals)
        split == (n + 3) \div 4
    IN  IF NumStreams(n) = 1 THEN literals
        ELSE SubSeq(literals, (k - 1) * split + 1, IF k = 4 THEN n ELSE k * split)

\* From the last literal to the first.
Encoded(codes, data) ==
    LET n == Len(data)
        written[k \in 0..n] ==
            IF k = 0 THEN <<>>
            ELSE LET c == codes[data[n + 1 - k] + 1] IN written[k - 1] \o Bits(c.code, c.bits)
    IN  written[n]

\* encode_stream
EncodeStream(codes, data, output) == Closed(output \o Encoded(codes, data))

\* All that is written must be shorter than the literals.
IsShorter(literals, output) == Len(output) \div 8 < Len(literals)

\* The sizes of the first three streams and of everything behind the header; raw
\* literals instead when that is not shorter.
Finish(literals, lead, sizes, output) ==
    LET n      == Len(literals)
        width  == SizeFormat(n)[2]
        header == 4 + 2 * width
        jumps  == IF NumStreams(n) = 1 THEN output
                  ELSE Changed(output, lead - 48, Bits(sizes[1], 16) \o Bits(sizes[2], 16) \o Bits(sizes[3], 16))
        raw    == LiteralsHeader([type |-> 0, regenerated |-> n, compressed |-> 0])
                    \o [i \in 1..(8 * n) |-> (literals[((i - 1) \div 8) + 1] \div 2^((i - 1) % 8)) % 2]
    IN  IF ~IsShorter(literals, output) THEN raw
        ELSE Changed(jumps, 4 + width, Bits((Len(output) - header) \div 8, width))

-----------------------------------------------------------------------------
(* Decoder                                                                 *)

Bytes(stream, from, n) == SubSeq(stream, 8 * from + 1, 8 * (from + n))

\* The description by its first byte: compressed, of so many bytes, or direct,
\* of so many halves of bytes.
Described(source) ==
    LET first == Read(source, 0, 8)
        halves == (first - 126) \div 2
        probs == ReadProbabilities(Bytes(source, 1, Len(source) \div 8 - 1), 0, 6, 255)
        fse   == probs.pos \div 8
    IN  IF first >= 128
        THEN [direct |-> TRUE, header |-> Bytes(source, 0, 1), stream |-> Bytes(source, 1, halves),
              used |-> 1 + halves]
        ELSE [direct |-> FALSE, header |-> Bytes(source, 1, fse),
              stream |-> Bytes(source, 1 + fse, first - fse), used |-> 1 + first]

\* build_decoder: a table of the next bits, a symbol and its bits for each.
LookupTable(weights) ==
    LET t == DecodedCodes(weights)
    IN  [max |-> t.max,
         decode |-> [state \in 0..(t.size - 1) |->
                       LET s == CHOOSE s \in DOMAIN t.ranges :
                                   /\ t.ranges[s].bits # 0
                                   /\ state - t.ranges[s].first \in 0..(2^(t.max - t.ranges[s].bits) - 1)
                       IN  [symbol |-> s - 1, bits |-> t.ranges[s].bits]]]

\* decode_symbol and next_state, until only zeros behind the stream are left; "d" is
\* [state, left, target].
Decoded(table, stream, start) ==
    LET Decoding(d) ==
            LET entry == table.decode[d.state]
                moved == (d.state * 2^entry.bits) % 2^table.max
            IN  [state  |-> moved + ReadReversed(stream, d.left, entry.bits),
                 left   |-> d.left - entry.bits,
                 target |-> Append(d.target, entry.symbol)]
        decoded[d \in [state : Nat, left : Int, target : Seq(Nat)]] ==
            IF d.left <= -table.max THEN d ELSE decoded[Decoding(d)]
    IN  decoded[start]

\* One stream; "left" below -max is an error only if there are four of them.
DecodeStream(table, stream, target) ==
    LET left == Opened(stream)
        d    == [state |-> ReadReversed(stream, left, table.max), left |-> left - table.max, target |-> target]
    IN  IF left < 0 THEN [target |-> target, left |-> left] ELSE Decoded(table, stream, d)

\* The streams of a section: one, or four cut out by the sums of three sizes; none
\* if these do not fit.
Streams(source, number) ==
    LET jump1 == Read(source, 0, 16)
        jump2 == jump1 + Read(source, 16, 16)
        jump3 == jump2 + Read(source, 32, 16)
        rest  == Len(source) \div 8 - 6
    IN  IF number = 1 THEN <<source>>
        ELSE IF rest < 0 \/ rest < jump3 THEN <<>>
        ELSE <<Bytes(source, 6, jump1), Bytes(source, 6 + jump1, jump2 - jump1),
               Bytes(source, 6 + jump2, jump3 - jump2), Bytes(source, 6 + jump3, rest - jump3)>>

\* decompress_literals: the table and the bytes of its description, a new one
\* or the one of an earlier block.
NewTable(d) == [table |-> LookupTable(ReadWeights(d)), used |-> d.used]

InitTable(h, source, held) ==
    IF h.type = 2 THEN NewTable(Described(source)) ELSE [table |-> held, used |-> 0]

OpenRaw(h, bits, held) ==
    [table |-> held, streams |-> <<>>, used |-> h.bytes + h.regenerated,
     target |-> [i \in 1..h.regenerated |-> Read(bits, 8 * (h.bytes + i - 1), 8)],
     expected |-> h.regenerated]

OpenCompressed(h, source, t) ==
    [table |-> t.table, streams |-> Streams(Bytes(source, t.used, h.compressed - t.used), h.streams),
     used |-> h.bytes + h.compressed, target |-> <<>>, expected |-> h.regenerated]

\* decode_literals up to the streams; "held" is the table of an earlier block.
OpenWith(h, bits, source, held) ==
    IF h.type = 0 THEN OpenRaw(h, bits, held)
    ELSE OpenCompressed(h, source, InitTable(h, source, held))

OpenSection(bits, held) ==
    LET h == ReadLiteralsHeader(bits) IN OpenWith(h, bits, Bytes(bits, h.bytes, h.compressed), held)
=============================================================================
