-------------------------- MODULE SequencesSection --------------------------
(***************************************************************************)
(* The sequences section of a block, written by encode_sequences and what  *)
(* is around it (encoding/blocks/compressed.rs) and read by                *)
(* decode_sequences (decoding/sequence_section_decoder.rs), one sequence   *)
(* per step.  The encoder goes from the last sequence to the first, with a *)
(* state of each of three tables; the decoder reads the stream backwards   *)
(* and gets the sequences in their order.  The table of each kind is made  *)
(* for the section, which is what choose_table always does.                *)
(*                                                                         *)
(* A Sequence is <<ll, ml, of>>; things that come for literal lengths,     *)
(* match lengths and offsets are triples in this order.                    *)
(***************************************************************************)
EXTENDS FiniteStateEntropy, SequenceCodes

CONSTANT Inputs         \* the lists of sequences to encode

\* Lists of as many sequences as encode_seqnum and parse_from_header agree on
\* (from 32512 on the first byte is 255, behind which the decoder expects three),
\* with match lengths below 65539, from where on the two sides' codes differ, and
\* offsets as long as numbers here can be.
ASSUME InputsAssumption ==
    \A list \in Inputs : /\ list \in Seq(Nat \X Nat \X Nat) /\ Len(list) >= 1 /\ Len(list) < 32512
                         /\ \A i \in 1..Len(list) : /\ list[i][1] <= 131071
                                                    /\ list[i][2] >= 3 /\ list[i][2] < 65539
                                                    /\ list[i][3] >= 1 /\ list[i][3] < 2^30

VARIABLES sequences,    \* what is encoded
          step,         \* where encoder and decoder are
          tables,       \* the three tables of whoever is at work
          header,       \* what is written in front of the stream
          stream,
          next,         \* encoder: sequences not yet written; decoder: bits_remaining
          states,       \* three states
          target        \* what is decoded

sectionVars == <<sequences, step, tables, header, stream, next, states, target>>

Kinds == 1..3

MaxLogs == <<9, 9, 8>>

\* What the decoder's tables take: MAX_LITERAL_LENGTH_CODE, MAX_MATCH_LENGTH_CODE and
\* MAX_OFFSET_CODE.
MaxCodes == <<35, 52, 31>>

EncodedSequence(s) == <<EncodeLiteralLength(s[1]), EncodeMatchLen(s[2]), EncodeOffset(s[3])>>

CodesIn(list, kind) == [i \in DOMAIN list |-> EncodedSequence(list[i])[kind].code]

CountsOf(data) == [c \in 1..(Max(Range(data)) + 1) |-> Cardinality({i \in DOMAIN data : data[i] = c - 1})]

SectionInit ==
    /\ sequences \in Inputs
    /\ step = "choose tables"
    /\ tables = <<>> /\ header = <<>> /\ stream = <<>>
    /\ next = 0 /\ states = <<>> /\ target = <<>>

-----------------------------------------------------------------------------
(* Encoder                                                                 *)

\* encode_seqnum: one, two or three bytes; of three the upper one comes first.
SeqNum(n) ==
    CASE 1 <= n /\ n < 128         -> Bits(n, 8)
      [] 128 <= n /\ n < 32768     -> Bits(n \div 256 + 128, 8) \o Bits(n % 256, 8)
      [] 32768 <= n /\ n < 98048   -> Bits(255, 8) \o Bits((n - 32512) \div 256, 8) \o Bits((n - 32512) % 256, 8)

\* encode_fse_table_modes, with Encoded for all three.
Modes == 2 * 64 + 2 * 16 + 2 * 4

\* choose_table panics when all the codes are 0.
ChooseTables ==
    LET built == [kind \in Kinds |-> Probabilities(CountsOf(CodesIn(sequences, kind)), MaxLogs[kind])]
        fails == \E kind \in Kinds : built[kind].probs = NoTable
    IN  /\ step = "choose tables"
        /\ step' = IF fails THEN "panicked" ELSE "write header"
        /\ tables' = IF fails THEN tables
                     ELSE [kind \in Kinds |-> EncodingTable(built[kind].probs, built[kind].log)]
        /\ UNCHANGED <<sequences, header, stream, next, states, target>>

\* The tables are written for literal lengths, offsets and match lengths.
WriteHeader ==
    /\ step = "write header"
    /\ header' = WriteTable(tables[2], WriteTable(tables[3], WriteTable(tables[1],
                    SeqNum(Len(sequences)) \o Bits(Modes, 8))))
    /\ step' = "encode last"
    /\ UNCHANGED <<sequences, tables, stream, next, states, target>>

\* Extra bits of literal length, match length and offset, in this order.
ExtraBits(s) == LET e == EncodedSequence(s)
                IN  Bits(e[1].add, e[1].bits) \o Bits(e[2].add, e[2].bits) \o Bits(e[3].add, e[3].bits)

EncodeLast ==
    LET last == sequences[Len(sequences)]
    IN  /\ step = "encode last"
        /\ states' = [kind \in Kinds |-> StartState(tables[kind], EncodedSequence(last)[kind].code)]
        /\ stream' = ExtraBits(last)
        /\ next' = Len(sequences) - 1
        /\ step' = "encode"
        /\ UNCHANGED <<sequences, tables, header, target>>

\* The states of offset, match length and literal length move on, in this order,
\* and then the extra bits follow.
MovedBits(to, kind) == Bits(states[kind].index - to[kind].baseline, to[kind].bits)

\* Mutant: the extra bits are written before the states move on.
EncodeSequence_Early ==
    LET s  == sequences[next]
        to == [kind \in Kinds |-> NextState(tables[kind], EncodedSequence(s)[kind].code, states[kind].index)]
    IN  /\ step = "encode" /\ next > 0
        /\ stream' = stream \o ExtraBits(s) \o MovedBits(to, 3) \o MovedBits(to, 2) \o MovedBits(to, 1)
        /\ states' = to
        /\ next' = next - 1
        /\ UNCHANGED <<sequences, step, tables, header, target>>

EncodeSequence ==
    LET s  == sequences[next]
        to == [kind \in Kinds |-> NextState(tables[kind], EncodedSequence(s)[kind].code, states[kind].index)]
    IN  /\ step = "encode" /\ next > 0
        /\ stream' = stream \o MovedBits(to, 3) \o MovedBits(to, 2) \o MovedBits(to, 1) \o ExtraBits(s)
        /\ states' = to
        /\ next' = next - 1
        /\ UNCHANGED <<sequences, step, tables, header, target>>

\* The states the decoder starts with: match length, offset, literal length.
FinalBits(kind) == Bits(states[kind].index, tables[kind].log)

FinishEncoding ==
    /\ step = "encode" /\ next = 0
    /\ stream' = Closed(stream \o FinalBits(2) \o FinalBits(3) \o FinalBits(1))
    /\ step' = "read header"
    /\ tables' = <<>> /\ states' = <<>>
    /\ UNCHANGED <<sequences, header, next, target>>

-----------------------------------------------------------------------------
(* Decoder                                                                 *)

Byte(i) == Read(header, 8 * i, 8)

\* parse_from_header: the number of sequences and where the modes are.
ParsedNum ==
    CASE Byte(0) \in 1..127   -> [num |-> Byte(0), at |-> 1]
      [] Byte(0) \in 128..254 -> [num |-> (Byte(0) - 128) * 256 + Byte(1), at |-> 2]
      [] Byte(0) = 255        -> [num |-> Byte(1) + Byte(2) * 256 + 32512, at |-> 3]

\* decode_mode for literal lengths, match lengths and offsets.
ParsedModes == LET m == Byte(ParsedNum.at) IN <<m \div 64, (m \div 4) % 4, (m \div 16) % 4>>

\* build_decoder, when the probabilities have been read.
Built(read) == [log |-> read.log, decode |-> DecodingTable(read.probs, read.log)]

\* maybe_update_fse_tables, for the mode the encoder uses: literal lengths,
\* offsets, match lengths, each behind the other.
ReadHeader ==
    LET ll == ReadProbabilities(header, 8 * (ParsedNum.at + 1), 9, MaxCodes[1])
        of == ReadProbabilities(header, ll.pos, 8, MaxCodes[3])
        ml == ReadProbabilities(header, of.pos, 9, MaxCodes[2])
    IN  /\ step = "read header"
        /\ IF ll.log = 0 \/ of.log = 0 \/ ml.log = 0 \/ ParsedModes # <<2, 2, 2>>
           THEN step' = "failed" /\ tables' = tables
           ELSE step' = "start" /\ tables' = <<Built(ll), Built(ml), Built(of)>>
        /\ UNCHANGED <<sequences, header, stream, next, states, target>>

\* The padding is skipped, then the states of literal length, offset and match
\* length are read.
StartDecoding ==
    LET left == Opened(stream)
        of   == left - tables[1].log
        ml   == of - tables[3].log
    IN  /\ step = "start"
        /\ IF left < 0 THEN step' = "failed" /\ UNCHANGED <<next, states>>
           ELSE /\ states' = <<tables[1].decode[ReadReversed(stream, left, tables[1].log)],
                               tables[2].decode[ReadReversed(stream, ml, tables[2].log)],
                               tables[3].decode[ReadReversed(stream, of, tables[3].log)]>>
                /\ next' = ml - tables[2].log
                /\ step' = "decode"
        /\ UNCHANGED <<sequences, tables, header, stream, target>>

\* update_state for literal length, match length and offset, in this order,
\* unless this was the last sequence.
Updated(kind, left) ==
    tables[kind].decode[states[kind].base + ReadReversed(stream, left, states[kind].bits)]

DecodeSequence ==
    LET ll == LookupLiteralLength(states[1].symbol)
        ml == LookupMatchLen(states[2].symbol)
        of == states[3].symbol
        afterOf == next - of
        afterMl == afterOf - ml[2]
        afterLl == afterMl - ll[2]
        s  == <<ll[1] + ReadReversed(stream, afterMl, ll[2]),
                ml[1] + ReadReversed(stream, afterOf, ml[2]),
                ReadReversed(stream, next, of) + 2^of>>
        isLast == Len(target) + 1 >= ParsedNum.num
        llMoved == afterLl - states[1].bits
        mlMoved == llMoved - states[2].bits
        left == IF isLast THEN afterLl ELSE mlMoved - states[3].bits
    IN  /\ step = "decode" /\ Len(target) < ParsedNum.num
        /\ target' = Append(target, s)
        /\ states' = IF isLast THEN states
                     ELSE <<Updated(1, afterLl), Updated(2, llMoved), Updated(3, mlMoved)>>
        /\ next' = left
        /\ step' = IF left < 0 THEN "failed" ELSE step
        /\ UNCHANGED <<sequences, tables, header, stream>>

\* All the bits must have been used.
FinishDecoding ==
    /\ step = "decode" /\ Len(target) >= ParsedNum.num
    /\ step' = IF next > 0 THEN "failed" ELSE "done"
    /\ UNCHANGED <<sequences, tables, header, stream, next, states, target>>

SectionNext ==
    \/ ChooseTables \/ WriteHeader \/ EncodeLast \/ EncodeSequence \/ FinishEncoding
    \/ ReadHeader \/ StartDecoding \/ DecodeSequence \/ FinishDecoding

-----------------------------------------------------------------------------
\* What compress_block writes for sequences decode_sequences reads as the same
\* sequences, to the last bit: no step of the decoder fails, what it has is
\* always a beginning of what was encoded, and only codes that are all 0 keep a
\* table from being made.
SequencesArrive ==
    /\ step # "failed"
    /\ step = "panicked" => \E kind \in Kinds : Range(CodesIn(sequences, kind)) = {0}
    /\ IsPrefix(target, sequences)
    /\ step = "done" => target = sequences
=============================================================================
