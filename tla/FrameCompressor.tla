-------------------------- MODULE FrameCompressor --------------------------
(***************************************************************************)
(* encoding/frame_compressor.rs, encoding/levels/fastest.rs and            *)
(* encoding/blocks/compressed.rs: one compressor that writes frame after   *)
(* frame, with any Matcher that keeps the promise of the trait (it is a    *)
(* public trait; module MatchGenerator is the one the crate brings).       *)
(*                                                                         *)
(* A block is what its writer put into it: its flag, its type, and the     *)
(* bytes, the byte and its count, or the literals with their Huffman table *)
(* and the sequences.  The checksum is the bytes it was computed from.  A  *)
(* Huffman table is how often it was built to expect each byte.            *)
(***************************************************************************)
EXTENDS Integers, Sequences, SequencesExt, FiniteSets

CONSTANTS None,        \* Option::None
          Byte,        \* the values of a byte
          Inputs,      \* what sources hold
          Levels,      \* compression levels, "uncompressed" and "fastest" are implemented
          SpaceSizes,  \* lengths of the spaces a matcher hands out
          WindowSize,  \* Matcher::window_size
          FewLiterals, \* up to so many literals (1024) are stored raw
          MaxFrames,   \* bound: how often compress is called
          MinMatch,    \* length of the shortest match (3) a block has a code for
          MaxMatches   \* bound: matches in a block

ASSUME InputsAssumption == Inputs \subseteq Seq(Byte)
ASSUME NumbersAssumption ==
          {WindowSize, FewLiterals, MaxMatches} \subseteq Nat /\ MinMatch \in Nat \ {0}
ASSUME SpaceSizesAssumption == SpaceSizes \subseteq Nat \ {0}

VARIABLES source,           \* bytes the source has not yet given
          level,            \* compression_level
          last_huff_table,
          committed,        \* what the matcher was given in this frame
          hasher,           \* what the hasher was fed
          space, space_len, \* uncompressed_data: the bytes read into it, and its length
          last_block,
          drain,            \* blocks and checksum of the frame being written
          content,          \* history: the bytes read from the source for it
          unsent,           \* history: last_huff_table came from a block of it stored raw
          frames,           \* how many frames were begun
          pc

vars == <<source, level, last_huff_table, committed, hasher, space, space_len,
          last_block, drain, content, unsent, frames, pc>>

Smaller(m, n) == IF m < n THEN m ELSE n

Init ==
    /\ source = <<>> /\ level \in Levels /\ last_huff_table = None
    /\ committed = <<>> /\ hasher = <<>> /\ space = <<>> /\ space_len = 0
    /\ last_block = FALSE /\ drain = [blocks |-> <<>>, checksum |-> None]
    /\ content = <<>> /\ unsent = FALSE /\ frames = 0 /\ pc = "idle"

-----------------------------------------------------------------------------
(* compress                                                                *)

\* Mutant: the table of the previous frame is kept.
Compress_KeepsTable(input, lvl) ==
    /\ pc = "idle" /\ frames < MaxFrames
    /\ source' = input /\ level' = lvl
    /\ committed' = <<>>
    /\ drain' = [blocks |-> <<>>, checksum |-> None]
    /\ content' = <<>> /\ unsent' = FALSE /\ frames' = frames + 1 /\ pc' = "space"
    /\ UNCHANGED <<last_huff_table, hasher, space, space_len, last_block>>

\* The caller sets source, drain, level and matcher as it likes.  The hasher
\* is not touched.
Compress(input, lvl) ==
    /\ pc = "idle" /\ frames < MaxFrames
    /\ source' = input /\ level' = lvl
    /\ committed' = <<>> /\ last_huff_table' = None
    /\ drain' = [blocks |-> <<>>, checksum |-> None]
    /\ content' = <<>> /\ unsent' = FALSE /\ frames' = frames + 1 /\ pc' = "space"
    /\ UNCHANGED <<hasher, space, space_len, last_block>>

GetNextSpace(n) ==
    /\ pc = "space"
    /\ space' = <<>> /\ space_len' = n /\ pc' = "reading"
    /\ UNCHANGED <<source, level, last_huff_table, committed, hasher, last_block,
                   drain, content, unsent, frames>>

ReadLoopEnds(data, last) ==
    /\ last_block' = last
    /\ hasher' = hasher \o data /\ content' = content \o data
    /\ pc' = IF data # <<>> /\ level \notin {"uncompressed", "fastest"} THEN "panicked" ELSE "encode"

\* One read of the read_loop gives k bytes; 0 is the end of the source.
Read(k) ==
    /\ pc = "reading"
    /\ k <= Smaller(Len(source), space_len - Len(space))
    /\ k = 0 => source = <<>>
    /\ space' = space \o SubSeq(source, 1, k)
    /\ source' = SubSeq(source, k + 1, Len(source))
    /\ IF k = 0 \/ Len(space') = space_len
       THEN ReadLoopEnds(space', k = 0)
       ELSE UNCHANGED <<last_block, hasher, content, pc>>
    /\ UNCHANGED <<level, last_huff_table, committed, space_len, drain, unsent, frames>>

-----------------------------------------------------------------------------
(* The block                                                               *)

\* Writes a block and goes on.
Write(block) ==
    /\ drain' = [drain EXCEPT !.blocks = Append(@, block)]
    /\ pc' = IF last_block \/ space = <<>> THEN "checksum" ELSE "space"
    /\ UNCHANGED <<source, level, hasher, space, space_len, last_block, content, frames>>

Raw(last, data) == [last |-> last, type |-> "raw", data |-> data]
Rle(last, byte, n) == [last |-> last, type |-> "rle", byte |-> byte, n |-> n]

\* Mutant: takes the flag of the read loop for granted.
EmptyBlock_NotLast ==
    /\ pc = "encode" /\ space = <<>>
    /\ Write(Raw(~last_block, <<>>))
    /\ UNCHANGED <<last_huff_table, committed, unsent>>

EmptyBlock ==
    /\ pc = "encode" /\ space = <<>>
    /\ Write(Raw(TRUE, <<>>))
    /\ UNCHANGED <<last_huff_table, committed, unsent>>

RawBlock ==
    /\ pc = "encode" /\ space # <<>> /\ level = "uncompressed"
    /\ Write(Raw(last_block, space))
    /\ UNCHANGED <<last_huff_table, committed, unsent>>

AllEqual(s) == \A i \in 1..Len(s) : s[i] = s[1]

\* commit_space, skip_matching.
RleBlock ==
    /\ pc = "encode" /\ space # <<>> /\ level = "fastest" /\ AllEqual(space)
    /\ committed' = committed \o space
    /\ Write(Rle(last_block, space[1], Len(space)))
    /\ UNCHANGED <<last_huff_table, unsent>>

\* start_matching cuts a block into matches, ll literals and len bytes to copy
\* from offset back each, and the literals that are left.  How far into the block
\* the first k matches get:
Ends(parse) ==
    LET end[k \in 0..Len(parse)] ==
            IF k = 0 THEN 0 ELSE end[k - 1] + parse[k].ll + parse[k].len
    IN  end

\* The literals of a block, which its matches leave.
LiteralsOf(data, parse) ==
    LET end == Ends(parse)
        literals[k \in 0..Len(parse)] ==
            IF k = 0 THEN <<>>
            ELSE literals[k - 1] \o SubSeq(data, end[k - 1] + 1, end[k - 1] + parse[k].ll)
    IN  literals[Len(parse)] \o SubSeq(data, end[Len(parse)] + 1, Len(data))

\* The bytes of a match stand offset back in what the matcher was given in this
\* frame, and no further back than its window.
IsMatch(history, data, place, m) ==
    /\ m.offset <= Smaller(WindowSize, place)
    /\ LET all == history \o data
       IN  \A i \in 1..m.len : all[place + i] = all[place + i - m.offset]

IsParse(history, data, parse) ==
    LET end == Ends(parse)
    IN  /\ end[Len(parse)] <= Len(data)
        /\ \A k \in 1..Len(parse) :
              IsMatch(history, data, Len(history) + end[k - 1] + parse[k].ll, parse[k])

Matches(n) == [ll : 0..n, len : MinMatch..n, offset : 1..WindowSize]

\* The parses that go on from others by a match.
Longer(history, data, parses) ==
    {p \in {Append(q, m) : q \in parses, m \in Matches(Len(data))} : IsParse(history, data, p)}

\* What start_matching may hand to its caller.
Parses(history, data) ==
    LET parses[n \in 0..MaxMatches] ==
            IF n = 0 THEN {<<>>} ELSE parses[n - 1] \cup Longer(history, data, parses[n - 1])
    IN  parses[MaxMatches]

\* HuffmanTable::build_from_data.
Table(literals) ==
    [b \in ToSet(literals) |-> Cardinality({i \in 1..Len(literals) : literals[i] = b})]

CanEncode(last, new) == last # None /\ DOMAIN new \subseteq DOMAIN last

\* The literals section: few literals are stored raw; others are written with
\* the last table if that can encode them and is close enough to a new one
\* (near), and raw after all if that is not smaller (smaller).
LiteralsSection(literals, near, smaller) ==
    LET new   == Table(literals)
        reuse == CanEncode(last_huff_table, new) /\ near
    IN  IF Len(literals) <= FewLiterals \/ ~smaller THEN [type |-> "raw", table |-> None]
        ELSE IF reuse THEN [type |-> "treeless", table |-> last_huff_table]
        ELSE [type |-> "compressed", table |-> new]

\* distribute_weights asserts that there are two symbols at least.
OnlyOneSymbol(literals) == Len(literals) > FewLiterals /\ AllEqual(literals)

\* build_table_from_counts looks for a second count to raise and finds none when
\* only code 0 occurs, that of no literals and that of the shortest match.
OnlyCodeZero(parse) ==
    /\ parse # <<>>
    /\ \/ \A k \in 1..Len(parse) : parse[k].ll = 0
       \/ \A k \in 1..Len(parse) : parse[k].len = MinMatch

\* Parses no table can be built for.
Unencodable(parse) == OnlyOneSymbol(LiteralsOf(space, parse)) \/ OnlyCodeZero(parse)

\* compress_block, and what is stored if its result has reached the largest size
\* of a block (~fits).  The table it made is the last one in either case.
\* compress_literals keeps a table that saves a byte, and the sequences section
\* takes at least that byte, so that a block of the largest size may end up raw
\* although its literals have shrunk.
CompressBlock(parse, near, smaller, fits) ==
    LET literals == LiteralsOf(space, parse)
        section  == LiteralsSection(literals, near, smaller)
        made     == section.type = "compressed"
    IN  /\ ~Unencodable(parse)
        /\ committed' = committed \o space
        /\ last_huff_table' = IF made THEN section.table ELSE last_huff_table
        /\ unsent' = IF made THEN ~fits ELSE unsent
        /\ Write(IF fits
                 THEN [last |-> last_block, type |-> "compressed", section |-> section,
                       literals |-> literals, matches |-> parse]
                 ELSE Raw(last_block, space))

Compressing == pc = "encode" /\ space # <<>> /\ level = "fastest" /\ ~AllEqual(space)

CompressedBlock ==
    /\ Compressing
    /\ \E parse \in Parses(committed, space), near, smaller, fits \in BOOLEAN :
          CompressBlock(parse, near, smaller, fits)

\* Nothing of a compressor that has panicked is looked at again.
Panics ==
    /\ pc' = "panicked"
    /\ UNCHANGED <<source, level, last_huff_table, committed, hasher, space, space_len,
                   last_block, drain, content, unsent, frames>>

\* The table of the literals or one of the sequences cannot be built.
TablePanics ==
    /\ Compressing
    /\ \E parse \in Parses(committed, space) : Unencodable(parse)
    /\ Panics

\* The unwraps of what the source and the drain answer.
IoPanics ==
    /\ pc \in {"reading", "encode", "checksum"}
    /\ Panics

WriteChecksum ==
    /\ pc = "checksum"
    /\ drain' = [drain EXCEPT !.checksum = hasher]
    /\ pc' = "idle"
    /\ UNCHANGED <<source, level, last_huff_table, committed, hasher, space, space_len,
                   last_block, content, unsent, frames>>

Next ==
    \/ \E input \in Inputs, lvl \in Levels : Compress(input, lvl)
    \/ \E n \in SpaceSizes : GetNextSpace(n)
    \/ \E k \in 0..space_len : Read(k)
    \/ EmptyBlock \/ RawBlock \/ RleBlock \/ CompressedBlock \/ TablePanics
    \/ WriteChecksum \/ IoPanics

Spec == Init /\ [][Next]_vars

-----------------------------------------------------------------------------
(* What a decoder makes of the blocks (modules EntropyTables and           *)
(* SequenceExecution): the bytes, its Huffman table, and whether each      *)
(* literals section was decoded with the table it was encoded with.        *)

WithMatch(out, m) ==
    out \o [i \in 1..m.len |-> IF m.offset <= Len(out)
                              THEN out[Len(out) - m.offset + 1 + ((i - 1) % m.offset)]
                              ELSE None]

Executed(out, literals, matches) ==
    LET done[k \in 0..Len(matches)] ==
            IF k = 0 THEN [out |-> out, used |-> 0]
            ELSE LET before == done[k - 1]
                     m      == matches[k]
                 IN  [out  |-> WithMatch(before.out \o SubSeq(literals, before.used + 1,
                                                               before.used + m.ll), m),
                      used |-> before.used + m.ll]
        end == done[Len(matches)]
    IN  end.out \o SubSeq(literals, end.used + 1, Len(literals))

Decoded(d, block) ==
    CASE block.type = "raw" -> [d EXCEPT !.out = @ \o block.data]
      [] block.type = "rle" -> [d EXCEPT !.out = @ \o [i \in 1..block.n |-> block.byte]]
      [] block.type = "compressed" ->
           [out  |-> Executed(d.out, block.literals, block.matches),
            tree |-> IF block.section.type = "compressed" THEN block.section.table ELSE d.tree,
            good |-> d.good /\ (block.section.type = "treeless" => block.section.table = d.tree)]

AfterBlocks(blocks) ==
    LET after[k \in 0..Len(blocks)] ==
            IF k = 0 THEN [out |-> <<>>, tree |-> None, good |-> TRUE]
            ELSE Decoded(after[k - 1], blocks[k])
    IN  after[Len(blocks)]

Decoder == AfterBlocks(drain.blocks)

\* Block by block the decoder gets the bytes that were read, whichever block
\* types they went into, however the source cut them, and with matches that
\* reach into blocks of every type; and it stops, which it does at the first
\* block that says it is the last, with the last byte of the source.
FrameReproducesInput ==
    /\ pc \in {"space", "checksum"} => Decoder.out = content
    /\ \A k \in DOMAIN drain.blocks :
          drain.blocks[k].last => k = Len(drain.blocks) /\ pc \in {"checksum", "idle", "panicked"}
    /\ pc = "checksum" => drain.blocks[Len(drain.blocks)].last /\ source = <<>>

\* A block of the frame is stored raw.
StoredRaw == \E k \in DOMAIN drain.blocks : drain.blocks[k].type = "raw"

\* The two come apart in no other way than by a block stored raw after its table
\* was made, the next table that is sent brings them together again, and no
\* section is written with a table the decoder lacks unless such a block went
\* before.
OnlyUnsentTablesDisagree ==
    /\ ~unsent => Decoder.tree = last_huff_table
    /\ ~Decoder.good => StoredRaw

\* encode.rs of the fuzz targets: "assert_eq!(data, &decoded);".  A decoder has
\* the table that each literals section of the frame was encoded with.
LiteralsAreDecodable == Decoder.good

\* compress: "Clearing buffers to allow re-using of the compressor".  The
\* checksum of a frame is the one its decoder computes.
ChecksumIsOfFrame == drain.checksum # None => drain.checksum = Decoder.out
=============================================================================
