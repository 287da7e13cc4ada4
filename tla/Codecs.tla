------------------------------- MODULE Codecs -------------------------------
(***************************************************************************)
(* Everything an encoder writes so that a decoder can read it: sequences   *)
(* sections (SequencesSection), tables (FiniteStateEntropy), Huffman codes *)
(* (HuffmanCoding), literals sections (LiteralsStreams) and headers        *)
(* (Headers), and the writer and the reader of bits underneath (BitWriter, *)
(* BitReaderReversed).  A behaviour is the way of one of them, each        *)
(* function of the code a step.                                            *)
(***************************************************************************)
EXTENDS SequencesSection, LiteralsStreams

CONSTANTS Counts,           \* counts of symbols, for tables: [counts, maxLog]
          Distributions,    \* probabilities, for tables: [probs, log]
          Literals,         \* counts of literals, for Huffman codes
          Sections,         \* literals sections: [literals, before]
          Sources, ReadWidths, Triples, MaxExtra,   \* see BitReaderReversed
          WriteWidths, Changes, Lengths, MaxBits    \* see BitWriter

\* Counts are of bytes, end with one that occurs, and are not of more symbols than
\* the largest table has states.
ASSUME CountsAssumption ==
    \A c \in Counts : /\ c.maxLog \in 5..9 /\ c.counts \in Seq(Nat)
                      /\ Len(c.counts) \in 1..2^c.maxLog /\ Len(c.counts) <= 256 /\ c.counts[Len(c.counts)] # 0

\* Probabilities share all the states, and end with a symbol that has one.
ASSUME DistributionsAssumption ==
    \A d \in Distributions : /\ d.log \in 5..9 /\ d.probs \in Seq(Int)
                             /\ Len(d.probs) >= 1 /\ Len(d.probs) <= 256 /\ d.probs[Len(d.probs)] # 0
                             /\ \A s \in 1..Len(d.probs) : d.probs[s] >= -1
                             /\ SumTo(Shares(d.probs), Len(d.probs)) = 2^d.log

VARIABLE made               \* what the encoder made of the item so far

Reader == INSTANCE BitReaderReversed WITH Widths <- ReadWidths, rd <- made, got <- received
Writer == INSTANCE BitWriter WITH w <- made

codecVars == <<item, place, made, sent, received>>

vars == <<sectionVars, codecVars>>

Nothing == [kind |-> "nothing"]

Items ==
    [kind : {"counts"}, value : Counts] \cup [kind : {"probabilities"}, value : Distributions]
      \cup [kind : {"literals"}, value : Literals] \cup [kind : {"section"}, value : Sections]
      \cup HeaderItems

NoSection ==
    /\ sequences = <<>> /\ step = "idle" /\ tables = <<>> /\ header = <<>>
    /\ stream = <<>> /\ next = 0 /\ states = <<>> /\ target = <<>>

Init ==
    /\ place = "given" /\ sent = <<>>
    /\ \/ SectionInit /\ item = Nothing /\ made = <<>> /\ received = <<>>
       \/ NoSection /\ item \in Items /\ made = <<>> /\ received = <<>>
       \/ NoSection /\ item = [kind |-> "reader"] /\ Reader!Init
       \/ NoSection /\ item = [kind |-> "writer"] /\ Writer!WriterInit /\ received = <<>>

-----------------------------------------------------------------------------
(* A table of finite state entropy coding                                  *)

\* build_table_from_counts, or one of the default tables.
MakeTable ==
    /\ place = "given"
    /\ LET p == IF item.kind = "counts" THEN Probabilities(item.value.counts, item.value.maxLog)
                ELSE item.value
       IN  /\ item.kind \in {"counts", "probabilities"}
           /\ IF p.probs = NoTable THEN place' = "panicked" /\ made' = made
              ELSE place' = "made" /\ made' = EncodingTable(p.probs, p.log)
    /\ UNCHANGED <<item, sent, received>>

SendTable ==
    /\ place = "made" /\ item.kind \in {"counts", "probabilities"}
    /\ sent' = WriteTable(made, <<>>)
    /\ place' = "sent"
    /\ UNCHANGED <<item, made, received>>

\* Something always follows a table: the reader may look at more bits than it
\* takes.
ReceiveTable ==
    /\ place = "sent" /\ item.kind \in {"counts", "probabilities"}
    /\ LET read == ReadProbabilities(sent \o Bits(1, 8), 0, 9, 255)
       IN  /\ received' = [log |-> read.log, probs |-> read.probs, pos |-> read.pos,
                           decode |-> IF read.log = 0 THEN <<>> ELSE DecodingTable(read.probs, read.log)]
           /\ place' = "received"
    /\ UNCHANGED <<item, made, sent>>

-----------------------------------------------------------------------------
(* Huffman codes                                                           *)

\* build_from_counts up to the weights.
Weigh ==
    /\ place = "given" /\ item.kind = "literals"
    /\ made' = WeightsOf(item.value)
    /\ place' = "weighed"
    /\ UNCHANGED <<item, sent, received>>

\* build_from_weights; it panics if the weights are not complete.
AssignCodes ==
    /\ place = "weighed"
    /\ IF IsComplete(made) THEN place' = "made" /\ made' = CodesOf(made)
       ELSE place' = "panicked" /\ made' = made
    /\ UNCHANGED <<item, sent, received>>

\* HuffmanEncoder::write_table; it panics if the weights take too much room.
SendWeights ==
    /\ place = "made" /\ item.kind = "literals"
    /\ sent' = WriteWeights(SentWeights(made))
    /\ place' = IF ~sent'.direct /\ Len(sent'.header) + Len(sent'.stream) >= 8 * 128
                THEN "panicked" ELSE "sent"
    /\ UNCHANGED <<item, made, received>>

ReceiveWeights ==
    /\ place = "sent" /\ item.kind = "literals"
    /\ received' = ReadWeights(sent)
    /\ place' = "received"
    /\ UNCHANGED <<item, made, sent>>

-----------------------------------------------------------------------------
(* A literals section; "made" is [codes, new, lead, sizes, kept]: the codes *)
(* and whether they are new, the bits in front of the streams, the bytes   *)
(* of the streams so far, and the codes the encoder has for the next block *)

CodesBefore == IF item.value.before = <<>> THEN NoCodes ELSE CodesFor(item.value.before)

ChooseTable ==
    /\ place = "given" /\ item.kind = "section"
    /\ made' = ChooseCodes(item.value.literals, CodesBefore) @@
               [lead |-> 0, sizes |-> <<>>, kept |-> CodesBefore]
    /\ place' = "chosen"
    /\ UNCHANGED <<item, sent, received>>

StartSection ==
    /\ place = "chosen"
    /\ sent' = Lead(made, Len(item.value.literals))
    /\ made' = [made EXCEPT !.lead = Len(sent')]
    /\ place' = "streams"
    /\ UNCHANGED <<item, received>>

WriteStream ==
    LET part == Part(item.value.literals, Len(made.sizes) + 1)
    IN  /\ place = "streams" /\ Len(made.sizes) < NumStreams(Len(item.value.literals))
        /\ sent' = EncodeStream(made.codes, part, sent)
        /\ made' = [made EXCEPT !.sizes = Append(@, (Len(sent') - Len(sent)) \div 8)]
        /\ UNCHANGED <<item, place, received>>

FinishSection ==
    /\ place = "streams" /\ Len(made.sizes) = NumStreams(Len(item.value.literals))
    /\ sent' = Finish(item.value.literals, made.lead, made.sizes, sent)
    /\ made' = [made EXCEPT !.kept = IF made.new /\ IsShorter(item.value.literals, sent)
                                     THEN made.codes ELSE @]
    /\ place' = "sent"
    /\ UNCHANGED <<item, received>>

\* The table the decoder has when it has read the description of such codes.
TableOf(codes) == IF codes = NoCodes THEN NoCodes ELSE LookupTable(SentWeights(codes))

ReceiveSection ==
    /\ place = "sent" /\ item.kind = "section"
    /\ received' = OpenSection(sent, TableOf(CodesBefore))
    /\ place' = "receiving"
    /\ UNCHANGED <<item, made, sent>>

ReceiveStream ==
    LET read == DecodeStream(received.table, Head(received.streams), received.target)
        bad  == read.left >= 0 \/ (read.left # -received.table.max /\ NumStreams(received.expected) = 4)
    IN  /\ place = "receiving" /\ received.streams # <<>>
        /\ received' = [received EXCEPT !.streams = Tail(@), !.target = read.target]
        /\ place' = IF bad THEN "failed" ELSE place
        /\ UNCHANGED <<item, made, sent>>

FinishReceiving ==
    /\ place = "receiving" /\ received.streams = <<>>
    /\ place' = IF Len(received.target) = received.expected THEN "received" ELSE "failed"
    /\ UNCHANGED <<item, made, sent, received>>

CodecNext ==
    \/ MakeTable \/ SendTable \/ ReceiveTable
    \/ Weigh \/ AssignCodes \/ SendWeights \/ ReceiveWeights
    \/ ChooseTable \/ StartSection \/ WriteStream \/ FinishSection
    \/ ReceiveSection \/ ReceiveStream \/ FinishReceiving
    \/ HeaderNext /\ UNCHANGED made

BitNext ==
    \/ item.kind = "reader" /\ Reader!Next /\ UNCHANGED <<item, place, sent>>
    \/ item.kind = "writer" /\ Writer!WriterNext /\ UNCHANGED <<item, place, sent, received>>

Next == \/ item = Nothing /\ SectionNext /\ UNCHANGED codecVars
        \/ item # Nothing /\ (CodecNext \/ BitNext) /\ UNCHANGED sectionVars

Spec == Init /\ [][Next]_vars

-----------------------------------------------------------------------------
\* The tables of the two sides are the same automaton: the probabilities arrive
\* as they were sent and end where the reader thinks they do, every state of the
\* encoder is that state of the decoder, and from every state the encoder finds a
\* way to every symbol (the search of next_state starts at a guess).  Only counts
\* of one symbol 0 make no table.
TablesAreTheSameAutomaton ==
    /\ place = "panicked" /\ item.kind = "counts" => Len(item.value.counts) = 1
    /\ place = "received" /\ item.kind \in {"counts", "probabilities"} =>
          /\ received.log = made.log /\ received.probs = made.probs /\ received.pos = Len(sent)
          /\ SameStates(made, received.decode)
          /\ EveryStepIsPossible(made)

\* Whatever the counts, the weights are complete and short enough, arrive as they
\* were sent although nothing says how many there are, and let the decoder find
\* every symbol by the code the encoder gave it.
HuffmanCodesAreUnderstood ==
    item.kind = "literals" =>
       /\ place # "panicked"
       /\ place = "received" => /\ received = SentWeights(made)
                                /\ CodesAreFound(made, DecodedCodes(received))

\* Literals come out as they went in, whatever codes and streams they were cut
\* into, from as many bytes as were written, and both sides have the same codes
\* for the next block: new ones, or those of before if the section is raw after
\* all.
LiteralsArrive ==
    item.kind = "section" =>
       /\ place # "failed"
       /\ place = "received" => /\ received.target = item.value.literals
                                /\ 8 * received.used = Len(sent)
                                /\ received.table = TableOf(made.kept)

\* The containers of 64 bits do not show: see BitReaderReversed and BitWriter.
ImplementsBitSource ==
    /\ item.kind = "reader" => Reader!Source!Init
    /\ [][item.kind = "reader" => Reader!Source!Next]_<<made, received>>

ImplementsBitSink ==
    /\ item.kind = "writer" => Writer!Sink!Init
    /\ [][item.kind = "writer" => [Writer!Sink!Next]_(Writer!Sink!sinkVars)]_made
=============================================================================
