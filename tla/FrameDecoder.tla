---------------------------- MODULE FrameDecoder ----------------------------
(***************************************************************************)
(* decoding/frame_decoder.rs and the block loop of                         *)
(* decoding/block_decoder.rs: one decoder that goes from frame to frame    *)
(* over sources that may end anywhere, hold skippable, damaged or foreign  *)
(* frames, and be replaced by others.                                      *)
(*                                                                         *)
(* A source is the byte string a caller reads from: its frames laid out    *)
(* one after the other, a position, and the number of bytes there are.     *)
(* Decoded bytes are counted (module DecodeBuffer says which bytes they    *)
(* are).  decode_blocks is a loop, one block per step; "call" is the       *)
(* call in progress with the caller to return to.                          *)
(***************************************************************************)
EXTENDS Integers, Sequences

CONSTANTS Inputs,      \* what sources hold: sequences of frames
          Dicts,       \* dictionary ids
          NoDict,      \* the frame names no dictionary
          None,        \* the Option::None of the decoder's state
          MaxWindow,   \* MAXIMUM_ALLOWED_WINDOW_SIZE
          Strategies,  \* BlockDecodingStrategy values callers use
          ReadSizes,   \* lengths of the slices callers read into
          MaxSources   \* bound: how many sources are opened

\* What a source may be made of.
BlockForms == [kind : {"good", "corrupt", "reserved"}, body : Nat, size : Nat]
FrameForms == [kind : {"zstd", "skippable", "bad"}, header : Nat \ {0}, skipped : Nat,
               window : Nat, checksum : BOOLEAN, dict : Dicts \cup {NoDict}, blocks : Seq(BlockForms)]

\* A frame of data has a last block and nothing behind its checksum; a skippable
\* frame has a header and what is skipped.
WellFormed(frames) ==
    /\ frames \in Seq(FrameForms)
    /\ \A i \in 1..Len(frames) :
          /\ frames[i].kind = "zstd" => frames[i].blocks # <<>> /\ frames[i].skipped = 0
          /\ frames[i].kind = "skippable" => frames[i].blocks = <<>> /\ ~frames[i].checksum

\* FrameDecoderState, with the frame it was made for and the length of its buffer.
States == [header : FrameForms, of : Nat \X Nat, frame_finished : BOOLEAN,
           block_counter : Nat, bytes_read_counter : Nat, check_sum : BOOLEAN,
           using_dict : Dicts \cup {NoDict}, buffered : Nat]

ASSUME InputsAssumption == \A frames \in Inputs : WellFormed(frames)
ASSUME NoDictAssumption == NoDict \notin Dicts
ASSUME NoneAssumption == None \notin States
ASSUME MaxSourcesAssumption == MaxSources \in Nat \ {0}
ASSUME MaxWindowAssumption == MaxWindow \in Nat
ASSUME ReadSizesAssumption == ReadSizes \subseteq Nat

VARIABLES source,    \* [id, frames, cur, pos, end, usable]
          state,     \* FrameDecoderState, or None
          dicts,     \* ids of the dictionaries added
          call,      \* the call in progress
          ret,       \* what the last call returned
          collected  \* bytes of the frame callers were given

vars == <<source, state, dicts, call, ret, collected>>

BlockHeader == 3
Checksum    == 4
Smaller(m, n) == IF m < n THEN m ELSE n

\* Layout of a source.
BlockSize(b) == BlockHeader + b.body
Total(sizes) == LET sum[i \in 0..Len(sizes)] == IF i = 0 THEN 0 ELSE sum[i - 1] + sizes[i]
                IN  sum[Len(sizes)]
BlocksSize(f, k) == Total([i \in 1..k |-> BlockSize(f.blocks[i])])
ChecksumSize(f) == IF f.checksum THEN Checksum ELSE 0
FrameSize(f) == f.header + BlocksSize(f, Len(f.blocks)) + ChecksumSize(f) + f.skipped
FrameStart(frames, i) == Total([j \in 1..(i - 1) |-> FrameSize(frames[j])])
ContentSize(f) == Total([k \in 1..Len(f.blocks) |-> f.blocks[k].size])

Opened(id, frames, end) == [id |-> id, frames |-> frames, cur |-> 0, pos |-> 0,
                            end |-> end, usable |-> TRUE]

\* A read_exact that fails has consumed what there was.  The caller knows
\* from the error that the source is spent.
Spent(s) == [s EXCEPT !.pos = s.end, !.usable = FALSE]
Unusable(s, n) == [s EXCEPT !.pos = @ + n, !.usable = FALSE]
Advanced(s, n) == [s EXCEPT !.pos = @ + n]
Has(s, n) == s.pos + n <= s.end

Idle == [op |-> "idle"]
Ok(op, n)  == [op |-> op, result |-> "ok", n |-> n]
Err(op, e) == [op |-> op, result |-> e, n |-> 0]

Init ==
    /\ \E frames \in Inputs :
          \E end \in 0..FrameStart(frames, Len(frames) + 1) : source = Opened(1, frames, end)
    /\ dicts \in SUBSET Dicts
    /\ state = None /\ call = Idle /\ ret = Ok("new", 0) /\ collected = 0

-----------------------------------------------------------------------------
(* Observers                                                               *)

\* Mutant: finished before the checksum has been read.
IsFinished_Early == IF state = None THEN TRUE ELSE state.frame_finished

IsFinished ==
    IF state = None THEN TRUE
    ELSE state.frame_finished /\ (state.header.checksum => state.check_sum)

\* DecodeBuffer::can_drain_to_window_size.
CanDrainToWindowSize ==
    IF state.buffered > state.header.window THEN state.buffered - state.header.window ELSE 0

\* Mutant: the window is kept also when the frame has ended.
CanCollect_WindowOnly == IF state = None THEN 0 ELSE CanDrainToWindowSize

CanCollect ==
    IF state = None THEN 0
    ELSE IF IsFinished THEN state.buffered ELSE CanDrainToWindowSize

-----------------------------------------------------------------------------
(* init / reset                                                            *)

\* Mutant: the buffer is not cleared.
Fresh_KeepsBuffer(f, dict) ==
    [header |-> f, of |-> <<source.id, source.cur + 1>>,
     frame_finished |-> FALSE, block_counter |-> 0, bytes_read_counter |-> f.header,
     check_sum |-> FALSE, using_dict |-> dict,
     buffered |-> IF state = None THEN 0 ELSE state.buffered]

Fresh(f, dict) ==
    [header |-> f, of |-> <<source.id, source.cur + 1>>,
     frame_finished |-> FALSE, block_counter |-> 0, bytes_read_counter |-> f.header,
     check_sum |-> FALSE, using_dict |-> dict, buffered |-> 0]

NextFrame == source.frames[source.cur + 1]

AtFrame ==
    /\ source.usable /\ source.cur < Len(source.frames)
    /\ source.pos = FrameStart(source.frames, source.cur + 1)

ResetResult(f) ==
    CASE ~Has(source, f.header) \/ f.kind = "bad" -> "ReadFrameHeaderError"
      [] Has(source, f.header) /\ f.kind = "skippable" -> "SkipFrame"
      [] OTHER -> IF state # None /\ f.window > MaxWindow THEN "WindowSizeTooBig"
                  ELSE IF f.dict \notin dicts \cup {NoDict} THEN "DictNotProvided"
                  ELSE "ok"

\* Mutant: the state is replaced before the window is checked.
ResetTo_TooEarly(f, result) ==
    /\ source' = IF ~Has(source, f.header) THEN Spent(source)
                 ELSE [Advanced(source, f.header) EXCEPT
                         !.cur = @ + 1, !.usable = result \in {"ok", "SkipFrame", "DictNotProvided"}]
    /\ IF result \in {"ok", "DictNotProvided", "WindowSizeTooBig"}
       THEN /\ state' = Fresh(f, IF result = "ok" THEN f.dict ELSE NoDict)
            /\ collected' = 0
       ELSE UNCHANGED <<state, collected>>
    /\ UNCHANGED dicts

\* Only the reset of an existing state compares the window with the maximum,
\* and a missing dictionary is noticed when the new frame is in place.
ResetTo(f, result) ==
    /\ source' = IF ~Has(source, f.header) THEN Spent(source)
                 ELSE [Advanced(source, f.header) EXCEPT
                         !.cur = @ + 1, !.usable = result \in {"ok", "SkipFrame", "DictNotProvided"}]
    /\ IF result \in {"ok", "DictNotProvided"}
       THEN /\ state' = Fresh(f, IF result = "ok" THEN f.dict ELSE NoDict)
            /\ collected' = 0
       ELSE UNCHANGED <<state, collected>>
    /\ UNCHANGED dicts

Reset ==
    /\ call = Idle /\ AtFrame
    /\ ResetTo(NextFrame, ResetResult(NextFrame))
    /\ ret' = [op |-> "reset", result |-> ResetResult(NextFrame), n |-> 0]
    /\ UNCHANGED call

\* The caller steps over a skippable frame.
SkipFrame ==
    /\ call = Idle /\ ret.result = "SkipFrame"
    /\ source' = LET n == source.frames[source.cur].skipped
                 IN  IF Has(source, n) THEN Advanced(source, n) ELSE Spent(source)
    /\ ret' = Ok("skip", 0)
    /\ UNCHANGED <<state, dicts, call, collected>>

\* The caller turns to another source.
Open(frames, end) ==
    /\ call = Idle /\ source.id < MaxSources
    /\ source' = Opened(source.id + 1, frames, end)
    /\ ret' = Ok("open", 0)
    /\ UNCHANGED <<state, dicts, call, collected>>

AddDict(d) ==
    /\ call = Idle
    /\ dicts' = dicts \cup {d}
    /\ ret' = Ok("add_dict", 0)
    /\ UNCHANGED <<source, state, call, collected>>

ForceDict(d) ==
    /\ call = Idle
    /\ LET e == IF state = None THEN "NotYetInitialized"
                ELSE IF d \notin dicts THEN "DictNotProvided" ELSE "ok"
       IN  /\ state' = IF e = "ok" THEN [state EXCEPT !.using_dict = d] ELSE state
           /\ ret' = [op |-> "force_dict", result |-> e, n |-> 0]
    /\ UNCHANGED <<source, dicts, call, collected>>

-----------------------------------------------------------------------------
(* decode_blocks                                                           *)

\* The source stands behind what the decoder has read of its frame.
InFrame == source.usable /\ state # None /\ state.of = <<source.id, source.cur>>

FramePos == source.pos - FrameStart(source.frames, source.cur)

BlockStart(f, k) == f.header + BlocksSize(f, k - 1)

\* No frame, no blocks.
NotYetInitialized ==
    /\ call = Idle /\ state = None
    /\ ret' = Err("decode_blocks", "NotYetInitialized")
    /\ UNCHANGED <<source, state, dicts, call, collected>>

\* The block whose header is "at" bytes into the frame.
BlockAt(at) ==
    state.header.blocks[CHOOSE k \in 1..Len(state.header.blocks) : at = BlockStart(state.header, k)]

IsLastAt(at) == at = BlockStart(state.header, Len(state.header.blocks))

BlockHere == BlockAt(FramePos)

\* The caller passes the source the frame is in, also when the frame has ended.
DecodeBlocks(strat, caller) ==
    /\ InFrame
    /\ call' = [op |-> "decode_blocks", strat |-> strat, caller |-> caller,
                len_before |-> state.buffered, blocks_before |-> state.block_counter]
    /\ UNCHANGED <<source, state, dicts, ret, collected>>

Return(result, n) ==
    /\ call' = call.caller
    /\ ret' = [op |-> "decode_blocks", result |-> result, n |-> n]
    /\ UNCHANGED <<dicts, collected>>

\* The header of a block is read.  Behind the last block stands the magic number of
\* another frame, which is taken for the header of a block larger than blocks may
\* be (28 B5 2F: 390821 bytes, 5x 2A 4D: 632138).
HeaderRead == Has(source, BlockHeader) /\ ~state.frame_finished /\ BlockHere.kind # "reserved"

\* read_block_header fails: too few bytes, or a reserved or oversized block.
BlockHeaderFails ==
    /\ \/ ~Has(source, BlockHeader) /\ source' = Spent(source)
       \/ Has(source, BlockHeader) /\ ~HeaderRead /\ source' = Unusable(source, BlockHeader)
    /\ UNCHANGED state /\ Return("FailedToReadBlockHeader", 0)

\* decode_block_content fails: the body is cut off, or it is damaged, which
\* may show after some of its bytes have been decoded.
BlockBodyFails ==
    /\ HeaderRead
    /\ \/ /\ ~Has(source, BlockSize(BlockHere))
          /\ source' = Spent(source)
          /\ state' = [state EXCEPT !.bytes_read_counter = @ + BlockHeader]
       \/ /\ Has(source, BlockSize(BlockHere)) /\ BlockHere.kind = "corrupt"
          /\ source' = Unusable(source, BlockSize(BlockHere))
          /\ \E n \in 0..BlockHere.size :
                state' = [state EXCEPT !.bytes_read_counter = @ + BlockHeader, !.buffered = @ + n]
    /\ Return("FailedToReadBlockBody", 0)

BodyRead == HeaderRead /\ Has(source, BlockSize(BlockHere)) /\ BlockHere.kind # "corrupt"

\* Mutant: the header of the block is counted twice.
WithBlock_Twice(b) ==
    [state EXCEPT !.bytes_read_counter = @ + BlockHeader + BlockSize(b),
                  !.block_counter = @ + 1, !.buffered = @ + b.size]

\* The state after block b.
WithBlock(b) ==
    [state EXCEPT !.bytes_read_counter = @ + BlockSize(b),
                  !.block_counter = @ + 1, !.buffered = @ + b.size]

StrategyReached(s) ==
    CASE call.strat.kind = "All" -> FALSE
      [] call.strat.kind = "UptoBlocks" -> s.block_counter - call.blocks_before >= call.strat.n
      [] call.strat.kind = "UptoBytes"  -> s.buffered - call.len_before >= call.strat.n

DecodeBlock ==
    /\ BodyRead /\ ~IsLastAt(FramePos)
    /\ source' = Advanced(source, BlockSize(BlockHere))
    /\ state' = WithBlock(BlockHere)
    /\ IF StrategyReached(state') THEN Return("ok", 0)
                                  ELSE UNCHANGED <<call, ret, dicts, collected>>

DecodeLastBlock ==
    /\ BodyRead /\ IsLastAt(FramePos)
    /\ LET n == BlockSize(BlockHere)
           s == [WithBlock(BlockHere) EXCEPT !.frame_finished = TRUE]
       IN  \/ /\ ~state.header.checksum
              /\ source' = Advanced(source, n) /\ state' = s
              /\ Return("ok", 1)
           \/ /\ state.header.checksum /\ Has(source, n + Checksum)
              /\ source' = Advanced(source, n + Checksum)
              /\ state' = [s EXCEPT !.bytes_read_counter = @ + Checksum, !.check_sum = TRUE]
              /\ Return("ok", 1)
           \/ /\ state.header.checksum /\ ~Has(source, n + Checksum)
              /\ source' = Spent(source) /\ state' = s
              /\ Return("FailedToReadChecksum", 0)

\* One round of the loop of decode_blocks.
BlockStep ==
    /\ call.op = "decode_blocks"
    /\ BlockHeaderFails \/ BlockBodyFails \/ DecodeBlock \/ DecodeLastBlock

-----------------------------------------------------------------------------
(* Draining                                                                *)

Take(n) ==
    /\ state' = [state EXCEPT !.buffered = @ - n]
    /\ collected' = collected + n
    /\ UNCHANGED <<source, dicts>>

Collect ==
    /\ call = Idle /\ state # None
    /\ Take(CanCollect) /\ ret' = Ok("collect", CanCollect)
    /\ UNCHANGED call

\* The writer may stop early or fail.
CollectToWriter ==
    /\ call = Idle /\ state # None
    /\ \E n \in 0..CanCollect : Take(n) /\ ret' = Ok("collect_to_writer", n)
    /\ UNCHANGED call

\* Unlike can_collect, read does not wait for the checksum.
Readable == IF state.frame_finished THEN state.buffered ELSE CanDrainToWindowSize

Read(n) ==
    /\ call = Idle /\ state # None
    /\ Take(Smaller(n, Readable)) /\ ret' = Ok("read", Smaller(n, Readable))
    /\ UNCHANGED call

-----------------------------------------------------------------------------
Sources == \E frames \in Inputs :
              \E end \in 0..FrameStart(frames, Len(frames) + 1) : Open(frames, end)

\* A foreign frame behind the one that has ended may begin like any block, and
\* callers who then go on with decode_blocks are left out.
ForeignBlocks ==
    /\ state.frame_finished /\ source.cur < Len(source.frames)
    /\ source.frames[source.cur + 1].kind = "bad"

Next ==
    \/ Reset \/ SkipFrame \/ Sources
    \/ \E d \in Dicts : AddDict(d) \/ ForceDict(d)
    \/ \E strat \in Strategies : call = Idle /\ DecodeBlocks(strat, Idle) /\ ~ForeignBlocks
    \/ NotYetInitialized \/ BlockStep
    \/ Collect \/ CollectToWriter
    \/ \E n \in ReadSizes : Read(n)

Spec == Init /\ [][Next]_vars

-----------------------------------------------------------------------------
\* Type invariant.
TypeOK ==
    /\ source.pos \in 0..source.end /\ source.cur \in 0..Len(source.frames)
    /\ source.usable \in BOOLEAN /\ source.id \in 1..MaxSources
    /\ dicts \subseteq Dicts /\ collected \in Nat
    /\ state # None =>
          /\ state.block_counter \in 0..Len(state.header.blocks)
          /\ state.bytes_read_counter \in 0..FrameSize(state.header)
          /\ state.frame_finished \in BOOLEAN /\ state.check_sum \in BOOLEAN
          /\ state.using_dict \in Dicts \cup {NoDict}
          /\ state.buffered \in Nat

\* bytes_read_from_source is what was consumed of the frame, as long as no
\* read has failed.
CounterIsWhatWasConsumed == InFrame => state.bytes_read_counter = FramePos

\* When is_finished answers yes, the whole frame was read, checksum included,
\* and every byte of it was given to the caller or can be collected, however
\* decoding, collecting, writers that stop early and failed resets alternated.
FinishedFrameIsWhole ==
    state # None /\ IsFinished =>
        /\ collected + CanCollect = ContentSize(state.header)
        /\ state.bytes_read_counter = FrameSize(state.header)
        /\ state.block_counter = Len(state.header.blocks)

\* What was decoded since the reset, collected or not, is the content of the
\* blocks counted (and part of the next one, if that one was damaged): nothing
\* of an earlier frame is handed out, whatever state it was left in.
OutputBelongsToFrame ==
    state # None =>
        LET Content(k) == Total([i \in 1..k |-> state.header.blocks[i].size])
            k == state.block_counter
        IN  collected + state.buffered \in
               Content(k)..Content(Smaller(k + 1, Len(state.header.blocks)))

\* A reset that fails to read a header leaves the previous frame collectable.
FailedResetKeepsBytes ==
    [][ret'.op = "reset" /\ ret'.result \notin {"ok", "DictNotProvided"}
         => CanCollect' = CanCollect /\ collected' = collected]_vars
=============================================================================
