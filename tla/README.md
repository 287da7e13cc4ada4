# zstd-rs in TLA+

Models, model checks and proofs for the `ruzstd` crate: a decoder and an encoder
of Zstandard in Rust (`src/ruzstd/src`). The modules are translated from the
code, not from the format's specification. File names below are relative to
`src/ruzstd/src`; `PROJECT.json` names the lines each definition stands for.

The crate is single threaded. What makes it hard is long sequences of legal
calls on objects that are used again (decoders, compressors, tables, pools),
input that arrives in pieces and ends anywhere, errors in the middle of a step,
output that is taken while it is being made, index arithmetic around unsafe
code, and two sides, encoder and decoder, that must agree on every bit without
sharing any code.

## 1. Inventory

### The decoder

| part | state | operations | talks to |
|---|---|---|---|
| `decoding/ringbuffer.rs` RingBuffer | allocation, `cap`, `head`, `tail` | `reserve`, `extend`, `push_back`, `drop_first_n`, `extend_from_within(_unchecked)`, `clear`, `as_slices` | called by DecodeBuffer only |
| `decoding/decode_buffer.rs` DecodeBuffer | ring, `dict_content`, `window_size`, `total_output_counter`, hash | `push`, `repeat`, five ways of draining, `reset` | sequence execution fills it, the frame decoder drains it to the caller's sinks |
| `decoding/sequence_execution.rs` | offset history, literals counter | `execute_sequences`, `do_offset_history` | pushes and repeats on DecodeBuffer |
| `decoding/scratch.rs`, `*_section_decoder.rs` | Huffman table, three FSE tables, RLE symbols | literals and sequences of a block, reset, start from a dictionary | tables survive from block to block |
| `decoding/block_decoder.rs`, `frame_decoder.rs`, `frame.rs` | FrameDecoderState, dictionaries | `init`/`reset`, `decode_blocks`, `collect*`, `read`, `decode_from_to`, `decode_all(_to_vec)`, `force_dict` | the caller's source, the buffers above |
| `decoding/streaming_decoder.rs` | FrameDecoder and source | `io::Read::read` | loops over `decode_blocks` |
| `decoding/dictionary.rs` | none | `decode_dict` | feeds scratch and buffer |

### The encoder

| part | state | operations | talks to |
|---|---|---|---|
| `encoding/frame_compressor.rs`, `levels/fastest.rs`, `blocks/compressed.rs` | matcher, last Huffman table, hasher | `compress`: read loop, choice of block and literals type | source, drain, any `Matcher` |
| `encoding/match_generator.rs` | window of entries, suffix tables, pools | `get_next_space`, `commit_space`, `start_matching`, `skip_matching`, `reset` | called block by block by the compressor |
| `fse/`, `huff0/` | tables | counts to probabilities, tables, descriptions, codes, both directions | both sides |
| `encoding/frame_header.rs`, `block_header.rs`, `blocks/`, `util.rs` | none | headers, both directions | both sides |
| `blocks/compressed.rs`, `huff0_encoder.rs`, `literals_section_decoder.rs` | the codes of the last block | literals as raw bytes, one stream or four, both directions | both sides |
| `bit_io/` | containers of 64 bits | `write_bits`, `change_bits`, `append_bytes`, `flush`; `get_bits(_triple)`, `refill`; forwards and backwards | everything above |

### Around it

| part | state | operations | talks to |
|---|---|---|---|
| `dictionary/` (behind a feature) | the lake of samples, the pool of segments | `create_raw_dict_from_source`, `Reservoir::fill`, `pick_best_segment` | a source and an output |

And the command line (`src/cli`), replacements for `std::io` (`io_nostd.rs`),
errors, tests, benches and fuzz targets.

### What is hard, and what must be true

- **Ring.** Indices wrap and one slot stays free; copies overshoot; growing moves
  data that may wrap. The indices stay inside, readers see only written bytes,
  overshooting copies stay apart from data, and callers see a plain queue.
- **DecodeBuffer.** Bytes leave while later matches may still refer to them; a
  sink may take half a slice and fail; a dictionary lies in front of the first
  byte. No byte is lost, doubled or reordered, the hash covers exactly what left,
  and the window is kept until the frame ends.
- **Sequences.** The history of offsets is updated by every sequence, with the
  special meaning it has without literals. It is the move-to-front list of the
  format, and nothing but a dictionary brings zeros into it (one does, see section 6).
- **Tables.** Repeat, Treeless, RLE, dictionaries and damaged descriptions, over
  many blocks: what is used is what was sent last, and no index leaves its table.
- **Frames.** The source ends anywhere, decoding and draining alternate, resets
  fail. Counters match what was consumed, "finished" means whole, and nothing of
  an earlier frame is handed out.
- **Interfaces.** Callers with slices of any size never lose their place, never
  get a short read early, and get everything in the end.
- **Compressor and matcher.** State survives from block to block and frame to
  frame, sources give short reads, hashes collide, blocks leave the window. The
  decoder gets the bytes back and has the table the encoder will reuse (it has not
  always, see section 6).
- **Codes.** Encoder and decoder write and read in opposite directions with
  tables made independently. What arrives is what was sent.
- **Literals.** Sizes are written over zeros once they are known, four streams are
  cut out by sums of three of them, and a section that turns out too long is
  thrown away after its codes were made. Both sides have the same codes afterwards.
- **Containers.** A word of 64 bits is refilled or flushed at any alignment, in front
  of sources shorter than a word, and beyond their front. No bit is lost, doubled or
  moved, and what is left is counted right, also where it is negative.
- **Dictionary builder.** Two loops over one source that gives short reads. What is
  written keeps to the size that was asked for (it does not, see section 6).

`PROJECT.json` lists the hazards one by one at the line where they bite.

## 2. Modules

| module | models | state and actions |
|---|---|---|
| `Ring` | the ring's struct and functions as operators on `[cap, head, tail, mem]` | none: used by RingBuffer and DecodeBuffer |
| `ByteQueue` | what RingBuffer promises: an unbounded queue of bytes | `queue`; one action per operation |
| `RingBuffer` | ringbuffer.rs | `rb`, `call`; one action per public operation; `peak`, the most it was asked to hold, is history |
| `DecodeBuffer` | decode_buffer.rs on the real ring | the struct's fields; `Push`, `Repeat`, `RepeatFails`, the drains with sinks that take any number of bytes, `Reset`, `InitFromDict` (at any time); `out`, `drained` and `conforming` are history |
| `Buffers` | the two layers: a ring called by anyone, or the decode buffer | `layer` says which |
| `SequenceExecution` | sequence_execution.rs | the scratch fields it uses; `StartBlock`, `Execute` (one round of the loop), the three errors, `Underflow` (the panic), `FinishBlock`, `Reset`, `ForceDict`; `begun`, the offsets a decoder or a dictionary began with, is history |
| `TableReuse` | what the format promises about tables | the tree and distributions sent last; abstract |
| `EntropyTables` | the four tables with their flags and RLE symbols | one action per literals type, per mode of each table, per kind of damage |
| `BlockDecoding` | scratch.rs: the tables or the sequences, neither of which looks at the other's fields | `half` says which |
| `FrameDecoder` | frame_decoder.rs and the control of block_decoder.rs and frame.rs | `source` (frames cut off after any byte), `state`, `dicts`, the call in progress; a step per early return, so that an error may fall between any two |
| `StreamingDecoder`, `DecodeFromTo`, `DecodeAll` | the three interfaces on top, each EXTENDS FrameDecoder | one action per entry, round and return |
| `Interfaces` | composes these three and FrameDecoder's own operations by INSTANCE on one decoder | `interface` says through which one it is used |
| `FrameCompressor` | frame_compressor.rs, fastest.rs, compressed.rs over any matcher | read loop, block types, literals sections, `last_huff_table`, hasher, drain; `Parses` is what a matcher may hand out, any sequence of true matches; a block fits or not as it likes; `TablePanics` and `IoPanics` are where it panics; `unsent`, that the last table came from a block stored raw, is history |
| `MatchGenerator` | match_generator.rs | window, suffix tables, pool; one action per path of `next_sequence` |
| `BitSource`, `BitSink` | what a reader and a writer of bits promise | bits are named by their places; abstract |
| `BitReaderReversed` | bit_reader_reverse.rs, implements BitSource | `rd` (the struct), `got`; `GetBits`, `GetBitsTriple`, with the three ways of `refill` |
| `BitWriter` | bit_writer.rs, implements BitSink | `w` (the struct); one action per public operation, writes through the warm and the cold path |
| `BitStreams` | words of 64 bits, for both; the same two by what they do, and bit_reader.rs | operators on the places of a word and on sequences of bits, for the codecs |
| `FiniteStateEntropy`, `HuffmanCoding` | fse/, huff0/, both directions | operators |
| `SequenceCodes` | codes and extra bits of lengths and offsets | operators |
| `SequencesSection` | writing, then reading, a sequences section | one sequence per step, the tables and states of whoever is at work |
| `Headers` | headers of frames, blocks and literals sections, written and then read | operators, and `WriteItem`, `ReadItem` for a header on its way |
| `LiteralsStreams` | writing, then reading, a literals section after another one | operators for each stream; Codecs takes one stream per step |
| `Codecs` | composes the codecs and the containers: each item is made, sent and received, a reader or a writer goes on by itself | `item`, `made`, `sent`, `received`, and the section's state |
| `DictionaryBuilder` | dictionary/mod.rs, reservoir.rs, cover.rs | one action per read, per segment picked and written, per way of ending |

`MC*` modules give the constants values. `*Proofs` modules hold theorems. A behavior of
`Buffers` or `BlockDecoding` is one of either part, while the other rests: the parts keep
their own specifications, and one run checks both. BufferProofs
has the ring's and the buffer's, since the second rest on the lemmas of the first,
BitContainerProofs the reader's and the writer's, BlockDecodingProofs those of the tables
and of the sequences a block is decoded with, CodecsProofs those about headers and finite
state tables, and SequencesProofs, which rests on CodecsProofs, those about sequences
sections and about the bits of the codecs. Modules that are proved about together have
names of their own for their specifications (`RingSpec`, `TablesSpec`, `HeaderSpec`).

How data is abstracted. Bytes are model values. A compressed block is, for
FrameDecoder, its sizes and whether it is damaged; which bytes it stands for is
DecodeBuffer's and SequenceExecution's subject, and which bits is Codecs'. A
table is, for EntropyTables and FrameCompressor, a value that either equals
another or does not. The XxHash64 is the sequence of bytes it was fed, so that
two hashes agree only when their inputs do. Blocks have the sizes of the MC
modules, not 128 KiB; chunk, slice and window sizes are constants.

What may look like a simplification and is not: `repeat` copies in the chunks the
code uses, growth of the ring re-copies both slices, `DrainGuard` drops what the
sink took also when it fails, an error leaves exactly the fields assigned before
it, the encoder's search for a state begins where the code begins it, Huffman
weights go through the same two redistributions, a reader that has passed the
front of its source loads a word of zeros only when nothing is left of the old one,
and `change_bits` writes its bits one by one over what is already flushed.

## 3. Runs

Six runs find no error. Six find what section 6 describes.

| run | question | bounds, and why they are enough |
|---|---|---|
| `buffers` | Is every sequence of calls of the ring safe, a queue, and in proportion to what was asked for? Does the buffer lose bytes or hash them twice? Is the window kept? | Ring: capacities 2, 3 and 5, so two growths, every wrap and every relative position of head, tail and source; calls of up to 4 bytes with copies in chunks of 2, so that copies end inside, at and across a chunk. It grows to hold `MaxGrown` bytes; how much larger than that it gets is what `MemoryFollowsUse` says. With chunks of 2 in rings of 5 no copy overshoots by a second chunk (`ringbuffer.rs:580`): that case is covered by the theorems, for chunks of every size. Buffer: windows of 1 and 2, offsets to 5 with at most 4 bytes put out and a dictionary of 3, which may come in the middle of a frame: matches in the buffer, across the border, wholly in the dictionary and before it; overlap with a last chunk that is shorter; sinks that stop after any byte. |
| `block_decoding` | Are tables the ones sent last? Is the history right, are literals used in order? | Tables: two trees and two distributions of different depth, one RLE symbol, one kind of damage each: enough to tell old from new; the number of blocks is unbounded. Sequences: every offset value that means something (1 to 3) and two new ones, with and without literals, the history of a new decoder and one of a dictionary that begins with a zero, refused sequences, dictionaries forced between blocks; four bytes put out, several blocks. |
| `interfaces` | Are counters, completeness, output and window right, do callers keep their place and get everything, does every call return? | Block by block: frames that are good, damaged, foreign, skippable, too big for the window or in need of a dictionary, cut off after any byte, two sources in a row, strategies All, UptoBlocks(1) and UptoBytes(2), also before a frame and behind its end, reads of 1 and 4: one frame to leave state behind and one to find it. Through the three interfaces: up to three frames with blocks that are empty, larger than the window, smaller than a read; outputs that are empty, too small and just enough; slices cut anywhere. |
| `frame_compressor` | Does the decoder get the bytes back? When has it another table than the encoder? | Two frames, all inputs of up to four bytes of two kinds and three longer ones, spaces of two and four bytes, up to two matches in a block, each of which may end up raw after all: several blocks, boundaries at the end of the source, every block type, matches into earlier blocks and into what the match before them made, literals before, between and behind them. |
| `match_generator` | Do sequences stand for the data? | Five blocks of 1 to 4 bytes with two slices in the window (so evictions), matches from 2 bytes, a hash that collides. |
| `codecs` | Does what is written arrive? | The first and last length of every code, offsets around every power of two up to 2^18, lists of up to three of four very different sequences and one of 140; all counts of up to four symbols and six larger ones, the three default distributions; 2 to 256 Huffman symbols in three orders; header fields at the ends of every format; literals sections of 1025 to 1100 bytes after one whose codes are the same, close, too far away or cannot encode them, in one and four streams, and one that stays raw. Readers of 0, 3, 8, 9 and 17 bytes (none, less than a word, a word, one byte and one word more) with reads of 1, 8, 11 and 56 bits, up to 12 of them beyond the front; writers with writes of 1, 5, 13, 56 and 64 bits up to two words, changes anywhere, bytes appended. |
| `checksum_not_offered`, `dictionary_zero_offset`, `unsent_table`, `compressor_reused`, `match_generator_reused`, `dictionary_size` | violations | See section 6. The second has the bounds of `block_decoding`, the two after it those of `frame_compressor`. The last one: sources around the smallest that can be sampled, reads of 6 bytes and of everything, two sizes of dictionary, segments that score 0 or 1. |

Bounds are constants or guards with names: `MaxOut`, `MaxMatch`, `MaxOffset`,
`MaxCall`, `MaxGrown`, `MaxSources`, `MaxFrames`, `MaxMatches` (in a block), `MaxBlocks`, `Pow2s`, `Batch`, `Capacity`,
`MaxExtra` (bits read beyond the front), `MaxBits` (bits written), `MaxScore`.
They cut off what may happen next, never what a step does. `MaxU32` and `MinMatch` stand for
numbers of the code: what the first offset less one is without overflow checks (more than any buffer
holds), and the shortest match (3).

Deadlock is checked except where the system stops: in `interfaces` and
`checksum_not_offered` callers are done when the sources are used up, in
`frame_compressor` when `MaxFrames` are written or after a panic (and so in
`unsent_table` and `compressor_reused`), in `match_generator` after `MaxBlocks` blocks (and in
`match_generator_reused`), in `codecs` when the item has arrived or a reader or
writer has reached its bound, in `dictionary_size` when the dictionary is written
or the builder has panicked.

Every property of a passing run has a mutant: a plausible bug put into one
definition, for which the run must fail. The mutants stand in front of the
definitions they replace and are named after them.

## 4. Fairness and liveness

Liveness is asked of in `interfaces`: every call returns (`EveryCallReturns`), reading
an intact frame ends with all of its content (`IntactFrameIsRead`), slices deliver
every frame of an intact source (`EverythingArrives`). `MemoryIsBounded` is the
safety property that goes with them.

The specification has one condition, weak fairness on `Driven`, which for each
interface is what has to go on by itself:

- *Library*: the steps of a call in progress. The code runs on the caller's thread; a
  call that can take a step takes one. For block-by-block use and for whole inputs
  this is all; nobody has to start another call.
- *Reader*: reads. A caller of `io::Read` goes on until it gets `Ok(0)`;
  `std::io::copy` is one, and the command line uses it.
- *Careful callers* of `decode_from_to`: a call that offers
  **more** than the one before when that one led nowhere, and that offers at least
  four bytes while a checksum is due. The first is what the interface asks of its
  callers: it reads whole blocks, so the same slice would lead nowhere again. The
  second is needed because of the finding `checksum_not_offered`.

A step of a call in progress and a new call are never possible in the same state, so
one condition on both says as much as one on each. No fairness is assumed of sources, damage or errors.

## 5. Proofs

TLAPS proves these for every value of the constants that satisfies the stated
assumptions.

**BufferProofs, the ring.** Assumptions: `Chunk` and the powers of two are
positive, `Uninit` is no byte, `extend` gets sequences of bytes. `RingIInv` is `RingOK`:
the memory has `cap` bytes, head and tail lie inside, and every byte between them is
written. The parts are not inductive alone: that `extend` writes where it should
depends on the indices, and that the indices stay inside depends on `cap`.
`MemoryIsBoundedByUse` joins to it the bound itself, since a ring that has room keeps its
capacity and one that grows rounds the bytes it needs, sentinel included, up to a power of
two (`GrowthIsBounded`): it has at most twice the bytes it was ever asked to hold, and one.
The first part has, for each function of the ring, a lemma that says it keeps `RingOK`
and what it does to the bytes a caller sees, on lemmas about geometry (how many
bytes lie in each slice, that indices wrap at most once). `ContentAt` names the
slot of the i-th byte; with it growth keeps the bytes (`ReservedContent`), dropping
takes the first ones (`DroppedContent`), and whatever writes n bytes into the slots
behind the tail and leaves the data alone has appended them (`Stored`, of which
`FilledStores`, `PushedBackStores` and `CopiedWithinStores` are the uses).
`CopiesPlan` is the heart: `extend_from_within_unchecked` makes one or two copies,
one case per relative position of source, destination and the end of the allocation;
`MovedBounds` bounds the overshoot of each. From these follow `IndicesStayInBounds`,
`OnlyWrittenBytesAreRead`, `CopiesAreSafe`, `ReserveGrows`, and `RingIsAQueue`: the ring
implements ByteQueue, the contents of the ring being the queue.

**BufferProofs, the buffer.** Assumptions: those of the ring; windows are numbers, dictionaries
and literals sequences of bytes. All five properties of the buffer are proved, for every
window, dictionary, capacity and stream of sequences, dictionaries in the middle of a frame
included. Two arguments carry them.
(1) *Chunks are the match.* The format's match takes byte i from place
`(i - 1) % offset` of the last `offset` bytes; the code copies chunks of `offset` bytes
from a growing ring. `MatchGoesOn`: after a whole number of chunks, what the next one
reads is the next part of the match, also when the last is shorter;
`ChunksCopyTheMatch` adds that each chunk meets the two requirements of the unsafe copy.
`MatchAcross` does the same for a match that begins in the dictionary and goes on at the
front of the ring. (2) *The window is there.* `IInv` joins the properties
`NothingLostOrReordered`, `HashCoversWhatLeft`, `WindowIsKept` to `Counted`: drained and
held bytes are all the output, and the counter is at most that. None is inductive
alone: a conforming match into the dictionary is right because the ring still holds
all of the output (`AllIsThere`), which needs `WindowIsKept` and `Counted`; and
`WindowIsKept` survives a drain because `can_drain_to_window_size` looks at what is held
(`WindowMayDrain`). Sinks are a case of `TakingKeeps`: whatever the two slices lost is a
prefix of the content, the guard drops just that and the hash saw just that.
`BuffersAreBothLayers` carries all of it over to the specification that the run checks.

**BitContainerProofs.** No assumption on the constants. `ReaderStaysSound` and
`ReaderImplementsSource`: the reader of backward streams implements BitSource for
sources of every length and reads of every size up to 56 bits. `Sound` says which bits
of the source the word holds and which of them are consumed, in front of, within and
beyond the source; each way of `refill` keeps it.
`WriterStaysOrderly` and `WriterImplementsSink`: the writer implements BitSink for writes
of up to 64 bits (64 only when some are waiting, as `write_bits_64` needs), appended bytes,
changes of up to 64 bits anywhere and going back to any byte. `Orderly` says that
the output holds whole bytes, as many as `bit_idx` says, and that the word has zeros above
the bits that wait: without these zeros the `|` of the next write would garble it.
`WrittenAt` says where each bit is, in the output or in the word; `WarmWrites` and `ColdWrites`
that a write puts each bit at its place, the second with a word filled, whole bytes behind it
and a rest; `FlushedIsSame` that a flush moves bits and changes none. A change is three
(`FirstByteChanges`, `BytesChange`, `LastByteChanges`), each of a range of bits and no other,
and the ranges meet (`BitsChange`).

**FrameDecoderProofs.** Assumptions: sources hold frames of the forms `WellFormed` gives (any
number of frames and blocks, of any sizes, good or not), `None` is no state, the constants
have their types. `IInv`, an invariant of all sequences of calls on all sources cut off
anywhere, says three things together. The source is in the frame of the state only when
the state was made for the frame the source is in (`OpenedBefore`), so a reset that failed,
a skipped frame or another source ends that. While it is, the place in the source is the
counter (`OnFrame`) and finds the next block (`BlockIsFound`), since sizes add up and are
positive (`SumSteps`, `SumGrows`, proved by induction on sets because `Total` is a recursive
function). And the counters of a state say what was decoded of its frame also after an
error (`Counted`). From it follow `TypeOK`, `FinishedFrameIsWhole`, `OutputBelongsToFrame`,
and `FailedResetKeepsBytes`, for which a call in progress must never be in a frame whose
reset failed (`ResetOK`).

The same module proves all of this, and the safety properties of the run `interfaces`, for
a decoder behind any of the interfaces. Further assumptions: `decode_all` asks for at least one
byte at once, outputs are no longer than `Capacity`, slices have a largest size and are not
all empty; every header has a byte at least (the magic number). `InterfaceInv` is `IInv` and,
for each interface, what its calls rely on. `EndOK`: who reads on from the same source never finds the last
block decoded and the checksum missing, which happens between slices only; so a call of
`decode_blocks` behind the end of a frame changes nothing of what was read. `RolesOK`: each interface has calls of its own,
and their answers come when they return. `StreamOK`: while `decode_blocks` runs for a read,
less is held than window and slice, so that one more block stays within the limit of
`MemoryIsBounded`. `SlicesOK`: a decoder used slice by slice has no state before its first
frame. `AllOK`: what `decode_all` has put out is the content of the frames it went through
(a sum, by `FramesHold`), no more than the room it was given, and nobody but it calls an output
too small; so its answer tells how much was decoded and how long the vector is
(`AnswerIsTrue`), and on an intact input with room enough, where
nothing can fail (`IntactHasAll`, `IntactDecodes`), that is all of it
(`IntactInputIsDecoded`). `PlaceIsKept` and `ShortReadOnlyAtEnd` follow from `IInv` and the
roles. The interfaces are instances of their modules; `StreamOwn`, `FromToOwn` and `AllOwn`
say that these use the operators of the decoder.

**MatchGeneratorProofs.** Assumptions: blocks have a byte at least and fit a slice, the window
has room for a slice, matches have a positive length, slots lie in their table. The three
properties of the run are proved for every input, hash and number of slices. `IInv` joins
`WindowInPlace` (entries follow each other without a gap, each holds what the input has at its
distance from the end, and the window is no larger than it may be), `IndicesInOrder`,
`PoolIsCleared` (tables that come back from the pool have no entry),
`TablesPointIntoTheirData` and `SequencesReproduceData`. None is inductive without the others: an
offset is computed from `base_offset` and a position read from a table, so that a decoder
finds the same bytes (`CandidatesAreCopyable`, `MatchCopies`) only while both are right, and a
table that came back with an entry would point anywhere. `CommittedInPlace` says that the
window stays in place when entries leave it and the rest moves by the length of the block
that comes. `BytesBetween`, a sum over entries, is an induction on sets because `Bytes` is
a recursive function.

**FrameCompressorProofs.** Assumptions: inputs are sequences of bytes, spaces have a byte at least,
the other parameters are numbers. For every input, way of reading it, level, sequence of
frames, window and matcher that keeps the promise of the trait (any number of matches in a
block, `MaxMatches`), the decoder of the blocks rebuilds the bytes (`BlocksAreTheSource`).
`IInv` joins what was read and not yet written (`AllIsWritten`), when the last flag may
stand (`LastIsLast`), and `MatcherKnows`: at the level that matches, the matcher was given just
what the decoder has, whatever types the blocks had. Without it a match into an earlier block
would mean nothing. The heart is `ParseIsExecuted`: the encoder keeps the literals that the
matches leave, a decoder that knows these and the matches, and neither the data nor where
its parts lie, rebuilds the data. `LiteralsCollected` says what literals the first k matches
leave, `MatchCopied` that the copy of a match, which repeats when it overlaps its own
beginning, is the next part of the data, and `EndsInside` that the matches stay in the
block. The recursive functions (`Ends`, `LiteralsOf`, `Executed`, `AfterBlocks`, `Parses`) are
dealt with by induction on sets, block by block with `AfterOneMore`. `HuffmanTablesAgree`
says, for all that may happen to a block, when the tables of the two sides come apart: only when
the last table was made for a block that was then stored raw, and no section is lost unless
such a block stands before it (`TablesKept`). That every section can be decoded is false
(`unsent_table`), and so is that the checksum belongs to its frame (`compressor_reused`).

**BlockDecodingProofs, the sequences.** Assumptions: histories are any three numbers, `MaxU32` is
more than a buffer holds. `ZeroesComeFromDictionaries`: while no sequence was refused,
the history has no more zeros than the decoder or the dictionary began it with, because
an offset of zero is refused also when nothing is copied, and a repeated one is moved and
not copied (`NewHistoryIsHistory`); so the subtraction that panics does so only with a dictionary
that brought a zero. `seq_sum` is what the buffer grew by (the assertion at
the end of `execute_sequences`). `Inv` adds to the properties the type of the
literals: without it the slice a sequence takes might be no sequence.
`HistoryIsMoveToFront` follows by cases over the offset value and the presence of
literals. For `LiteralsAreUsedInOrder`, the places of the output that `matched` does not have
hold literals: executing a sequence adds a run of such places at the end, so that their
number is the literal counter, also when the sequence is then refused; the invariant keeps
the places of matches inside the output.

**BlockDecodingProofs, the tables.** `DecoderKeepsPromise`: EntropyTables implements
TableReuse. The decoder has no field that says what was sent; it has entries, a
number of bits, an accuracy log and an RLE symbol that hides them. The invariant
`HoldsWhatWasSent` says that what these fields select is what was sent, and holds
only together with `LogsMatchTables`: the early return for a missing table looks
at the number of bits, not at the table. `BlocksAreOfBothHalves` carries both parts over to the
specification that the run checks.

**CodecsProofs, the headers.** Assumptions: fields that `serialize` does not panic on, windows of at
most 2^30 bytes, literals of less than 2^18 bytes, which is more than a block has, and
compressed ones no longer than what they stand for (else they are not written compressed).
`HeadersAlwaysArrive`: every header that is written is read as what it meant, in exactly its
bytes. The invariant `OnItsWay` only says that what was sent was written from the item and
what arrived was read from it; the weight is in the lemmas, one for each kind of header
(`FrameArrives`, `BlockArrives`, `RawLiteralsArrive`, `CompressedLiteralsArrive`).
`BitsAre` and `ReadIs` say that the bits of a number, written and read, are the number again;
since the provers know no law of powers, each power of two is known by doubling (`Doubles`)
and a number bit by bit by its quotients (`NumberIs`). Fields of bits are found one behind
the other (`PiecesAreRead`), fields of bytes too (`FieldsAreFound`), given that each has the
length its flag in the descriptor announces. Of a content size no byte is lost because the
ones cut off are zeros (`MinSizeIs`, `FrontIsEnough`), two bytes meaning the number less 256;
and a window, written as a power of two, arrives as at least what was meant and, above
1024 bytes, as less than twice that (`WindowIsRounded`).

**CodecsProofs, the tables.** Assumptions: `CountsAssumption`, what
`build_table_from_counts` is given: counts of at most 2^maxLog symbols and 256, the last of them
not 0, with maxLog between 5 and 9; and `DistributionsAssumption`, what the default tables are:
shares that add up to the table's size, the last symbol with a state.
`TablesAlwaysAgree`: for all of them the encoder's table and the one that the decoder builds
from its description are the same automaton, and the description is read in exactly its
bits. Only counts of symbol 0 alone make the encoder panic. The argument has five parts.
(1) The two redistributions of `build_table_from_counts` leave probabilities that add up to
the size of the table they choose (`ShiftedIs`, `ScaledIs`, `LoweringIs`, `NormalisedIs`,
`HalvedIs`, `AccLogIs`, `ProbabilitiesAre`). (2) The walk through the table, whose step is odd and
skips the places taken from the top, comes to every free place once (`WalkIsApart`,
`WalkReachesAll`, `SlotsAre`). (3) The states of a symbol, wide ones and narrow ones, share out
all states between them (`StatesOfIs`), and the decoder's rows are these (`DecodingTableIs`,
`StatesAreSame`). (4) So every symbol has a step to every state, and the place where
`next_state` begins to search is never behind the right one (`EveryStepIs`). (5) The
description is a chain of pieces, each a probability or a count of zeros (`ChainExists`,
`WriteIsChain`), whose widths depend on what is left to share out; the decoder knows what is
left in the same way, so that it reads one piece of the chain per round, by induction from the
last (`RoundIs`, `RestIsRead`, `TableIsRead`). `TableOnItsWay` is the invariant.

**SequencesProofs, the sections.** `SequencesAlwaysArrive`: every list of sequences that
the assumption admits is read as it was written, with no bit over. `InputsAssumption` is where
the two sides agree: fewer than 32512 sequences, matches of at least 3 and below 65539
bytes, literals up to 131071 (the longest code), offsets that fit a code. A block is at most
128 KiB and its matches have five bytes or more, so that it has at most 26214 sequences; section
6 says what happens beyond. The codes of lengths and offsets are inverse to each other row by
row (`LiteralLengthCodes`, `MatchLenCodes`, `OffsetCodes`). The count, the modes and the
tables in front are found where they were put (`FrontOfSection`, `HeaderIsRead`). The stream
is written from the last sequence to the first and read backwards: a trace says which
bits and states belong to each sequence (`TraceStarts`, `TraceGoesOn`), the reader that has
them comes to the next ones (`StreamIsTransmitted`, `SequenceIsRead`, `StatesMoveOn`), the
steps of the automaton being those of part 4 above. The invariant `SectionOnItsWay` has one
part per step of encoder and decoder, and a lemma for each (`AtEncode`, `AtDecode` and so on).

**SequencesProofs, the bits.** `ReadersImplementSource` and `WritersImplementSink` carry the
results of BitContainerProofs over to the reader and the writer that are instances within
Codecs. The lemmas `SameReader`, `SameWriter`, `SameSource` and `SameSink` say that both
modules mean the same by their definitions, and `BitsOnTheirWay` that a reader or a writer on
its way is in a state that those invariants admit.

Model-checked only: the liveness of the interfaces (`EveryCallReturns`, `IntactFrameIsRead`,
`EverythingArrives`); that Huffman codes and literals sections arrive
(`HuffmanCodesAreUnderstood`, `LiteralsArrive`); the dictionary builder, whose run looks for a
violation. Liveness under fairness and ENABLED are out of the prover's reach. Huffman codes and literals
sections are within its reach and not done. Where a proof needs induction it is
over a set of numbers (`InductionOnSets`), since the induction theorems of the library take
an operator, and what a recursive function is follows from its definition there.

## 6. Where the code and its words disagree

1. `compressor_reused`: `compress` resets the matcher and forgets the Huffman
   table under the comment "Clearing buffers to allow re-using of the
   compressor", but the hasher goes on from the previous frame. The checksum of
   the second frame of a compressor is wrong.
2. `match_generator_reused`: a table made for a block of one byte has one slot and
   `len_log` 0. After `reset` it comes out of the pool for a longer block, and `key`
   shifts by 64.
3. `checksum_not_offered`: `decode_from_to` returns "(read, written)", and with a
   checksum due and fewer than four bytes offered it answers that it read four.
   A caller that believes it skips bytes it has not yet seen.
4. `dictionary_zero_offset`: the three offsets of a dictionary are taken as they are
   (`dictionary.rs:86`). With a zero in front, a sequence without literals whose offset
   value is 3 computes `scratch[0] - 1` (`sequence_execution.rs:71`): a panic where
   overflow is checked, an offset of 2^32 - 1, which is then refused, elsewhere. The
   readme says of malformed input "they must not make the decoder panic".
5. `unsent_table`: `compress_block` replaces the last Huffman table, and `compress_fastest`
   then looks at the length and may store the block raw (`fastest.rs:47`). A literals
   section is kept when it saves one byte and the sequences take one at least, so that a block
   of the largest size may come out as long as it was. A later block that refers to the
   table is written for a decoder that never got it; the fuzz target has
   "assert_eq!(data, &decoded)". Any block may fail to fit in FrameCompressor, which
   knows no sizes.
6. `dictionary_size`: "The completed dictionary will be this size or smaller" than
   `dict_size`, says `create_raw_dict_from_source`. It picks one segment for every
   piece of at most 100 bytes that is left of the source, whatever was read (the
   bytes are not looked at, so it is the same segment every time), and writes all of
   them; `dict_size` only goes into a message.

Other properties hold because of something outside the component, and the hazards
say what:

- A match wholly inside the dictionary does not advance `total_output_counter`, so
  the dictionary stays reachable longer than the format allows. No conforming
  match is refused, which is what `ConformingMatchesSucceed` says.
- A window that is too big is refused by `reset` but not by the first `init` of a
  decoder, and a checksum that cannot be read leaves the decoder between two
  states; FrameDecoder has both.
- A content size of eight bytes makes the frame header panic and one of a single
  byte may be written without being announced. The compressor never writes
  either; `HeadersArrive` is about the headers `IsSerializable` and `IsReadable`
  describe.
- Counts of sequences from 32512 and match lengths from 65539 are written
  otherwise than they are read. Blocks of 128 KiB with matches of five bytes or
  more and a window of one block never get there.
- Some blocks make the encoder panic: more than 1024 literals of one value, and
  sequences that have nothing but code 0 of a kind, no literals or the shortest
  match, for which no table can be built (`TablePanics`). The crate's matcher leaves
  neither (its window is one block, so that a block begins with a literal and all of it
  is copied from its literals); a `Matcher` of one's own can. So do errors of the source and the drain,
  which are unwrapped (`IoPanics`). The levels Default, Better and Best are
  unimplemented and panic, also on the command line, whose default level is one of them.
- `decode_blocks` on a frame that has ended takes what stands behind it for a block. Behind
  an intact frame that is the end or a magic number, which is no header of a block, so
  that it fails. Bytes of no frame may look like a block; callers who then go on are
  left out (`ForeignBlocks`).
- Adding a dictionary after the reset of a frame that needs it does not repair the
  decoder: the state of the new frame is in place, the header is consumed, the
  dictionary is not. No text says what a caller may do then; FrameDecoder has the
  state, and its callers do not go on with that source.
- The builder's sample is not what `Reservoir` describes. Every read of `fill` starts
  at the front of the lake, so a source that gives short reads overwrites what it
  gave before; when the count then passes the lake's length without hitting it, the
  lake grows to all that was read and no piece is left to pick a segment for
  (`reservoir.rs:48`). Chunks to be skipped are read into a vector of length 0, which
  looks like the end of the source (`reservoir.rs:97`). Sources of fewer than 2048
  bytes are divided by zero segments, those of fewer than 4096 fail the assertion on
  the size, and a last segment of at most 16 bytes makes an index wrap
  (`cover.rs:98`). DictionaryBuilder has all of these; no text promises otherwise.
- `BitWriter::reset_to` takes an index in bits and needs a whole byte, and `index()`,
  which is said to be for it, also counts the bits of the partial word; 64 bits
  written into an empty word shift by 64; `debug_assert!(bits.ilog2() <=
  num_bits)` is off by one. No caller does any of it: indices are taken where
  bytes are whole, and nothing is written 64 bits at once.
- The bits that `BitReaderReversed` gives beyond the front of its source are zeros, not
  "consumed past the end" as the field's comment has it; `BitSource` says zeros.
- After an error a caller that goes on with the same frame is not stopped: no step
  sets `DecoderState::Failed`. EntropyTables is about callers that give up.

## 7. What is not modelled

- `get`, and the `copy_*` variants of the ring that are `#[allow(dead_code)]`.
- `Dictionary::decode_dict`: one call without state, made of functions that are
  modelled. Nothing in the crate writes the format it reads (the builder makes raw
  content), so there is no second side for it to agree with.
- How the dictionary builder scores segments: floating point and rolling hashes of
  the sample. DictionaryBuilder lets a segment have any score. Random numbers never
  matter, since the first chunk that is skipped ends the sample.
- `io_nostd.rs`: its `read_exact` and `write_all` are the loops of the standard
  library, which the models of their callers have as one step each, short reads and
  failing writers included.
- RLE literals as the encoder never writes them, and damaged literals sections:
  EntropyTables has the errors, by kind.
- Prefetching, formatting of errors, the progress bar, argument parsing.
- Panics of the allocator and arithmetic overflow of 64-bit counters.

## 8. Plan

Done, in this order: ring and queue; decode buffer; frame decoder and its
interfaces; sequence execution; entropy tables; compressor; matcher; codecs;
literals streams; the containers of bits; the dictionary builder; the proofs of
section 5.

Left:

1. *Extend.* The decoder's streams on damaged sections, bit by bit. Tables under callers
   that go on after an error.
2. *Prove.* That Huffman codes and literals sections arrive.

## 9. Running

    tlc -config Buffers.cfg MCBuffers.tla
    tlapm BufferProofs.tla

Each run takes less than three minutes on two workers. The proofs of a module take between
half a minute and eight minutes, those of CodecsProofs about seventeen.
