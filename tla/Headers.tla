------------------------------- MODULE Headers -------------------------------
(***************************************************************************)
(* The headers of frames, blocks and literals: what the encoder writes and *)
(* what the decoder makes of it.  A u64 is the sequence of its eight       *)
(* bytes, lowest first; a window is a number up to 2^30.                   *)
(***************************************************************************)
EXTENDS Integers, Sequences, FiniteSetsExt, BitStreams

CONSTANTS Absent,           \* a field that is not given
          FrameHeaders, BlockHeaders, LiteralsHeaders

VARIABLES item,             \* what is written: [kind, value]
          place,            \* how far it got
          sent, received

headerVars == <<item, place, sent, received>>

MaxBlockSize == 131072

Zeros(n) == [i \in 1..n |-> 0]

U64(bytes) == bytes \o Zeros(8 - Len(bytes))

\* find_min_size: 1, 2, 4 or 8 bytes.
MinSize(val) == Min({n \in {1, 2, 4, 8} : \A i \in (n + 1)..8 : val[i] = 0})

-----------------------------------------------------------------------------
(* Frame header: [fcs, single, checksum, dict, window]                     *)

FcsFlag(size) == CASE size = 1 -> 0 [] size = 2 -> 1 [] size = 4 -> 2

DictFlag(size) == CASE size = 1 -> 1 [] size = 2 -> 2 [] size = 4 -> 3

\* serialize panics on a header without the fields it needs, and on eight bytes.
IsSerializable(h) ==
    /\ h.single => h.fcs # Absent
    /\ ~h.single => h.window # Absent
    /\ h.fcs # Absent => MinSize(h.fcs) # 8
    /\ h.dict # Absent => MinSize(h.dict) # 8

Descriptor(h) ==
    (IF h.dict = Absent THEN 0 ELSE DictFlag(MinSize(h.dict)))
      + (IF h.checksum THEN 4 ELSE 0)
      + (IF h.single THEN 32 ELSE 0)
      + 64 * (IF h.fcs = Absent THEN 0 ELSE FcsFlag(MinSize(h.fcs)))

\* The window is rounded up to a power of two, 2 KiB at least.
WindowDescriptor(window) ==
    LET log == Min({k \in 0..30 : window <= 2^k})
    IN  8 * (IF log > 10 THEN log - 10 ELSE 1)

Minified(val) == SubSeq(val, 1, MinSize(val))

\* A size of two bytes counts from 256.
MinifiedFcs(val) == IF MinSize(val) = 2 THEN <<val[1], val[2] - 1>> ELSE Minified(val)

\* The magic number is left out.
Serialized(h) ==
    <<Descriptor(h)>>
      \o (IF h.single THEN <<>> ELSE <<WindowDescriptor(h.window)>>)
      \o (IF h.dict = Absent THEN <<>> ELSE Minified(h.dict))
      \o (IF h.fcs = Absent THEN <<>> ELSE MinifiedFcs(h.fcs))

DictBytes(desc) == <<0, 1, 2, 4>>[(desc % 4) + 1]

SingleSegment(desc) == (desc \div 32) % 2 = 1

FcsBytes(desc) == IF desc \div 64 = 0 THEN (IF SingleSegment(desc) THEN 1 ELSE 0)
                  ELSE 2^(desc \div 64)

Plus256(val) == IF val[2] < 255 THEN [val EXCEPT ![2] = @ + 1] ELSE [val EXCEPT ![2] = 0, ![3] = 1]

WindowSize(byte) ==
    LET base == 2^(10 + byte \div 8)
    IN  base + (base \div 8) * (byte % 8)

\* read_frame_header; "used" is the number of bytes it took.  No dictionary and
\* dictionary 0 are the same.
ReadFrameHeader(bytes) ==
    LET desc   == bytes[1]
        dictAt == IF SingleSegment(desc) THEN 1 ELSE 2
        fcsAt  == dictAt + DictBytes(desc)
        dict   == U64(SubSeq(bytes, dictAt + 1, fcsAt))
        fcs    == U64(SubSeq(bytes, fcsAt + 1, fcsAt + FcsBytes(desc)))
    IN  [checksum |-> (desc \div 4) % 2 = 1,
         single   |-> SingleSegment(desc),
         window   |-> IF SingleSegment(desc) THEN Absent ELSE WindowSize(bytes[2]),
         dict     |-> IF dict = Zeros(8) THEN Absent ELSE dict,
         fcs      |-> IF FcsBytes(desc) = 2 THEN Plus256(fcs) ELSE fcs,
         used     |-> fcsAt + FcsBytes(desc)]

\* A size of one byte is written and not announced without a single segment.
IsReadable(h) == h.single \/ h.fcs = Absent \/ MinSize(h.fcs) # 1

FrameHeaderArrives(h, r, bytes) ==
    /\ r.used = Len(bytes)
    /\ r.checksum = h.checksum /\ r.single = h.single
    /\ r.dict = IF h.dict \in {Absent, Zeros(8)} THEN Absent ELSE h.dict
    /\ r.fcs = IF h.fcs = Absent THEN Zeros(8) ELSE h.fcs
    /\ ~h.single => r.window >= h.window /\ (h.window > 1024 => r.window < 2 * h.window)

-----------------------------------------------------------------------------
(* Block header: [last, type, size]                                        *)

BlockTypes == <<"raw", "rle", "compressed", "reserved">>

SerializedBlock(h) ==
    LET type == CHOOSE t \in 0..3 : BlockTypes[t + 1] = h.type
    IN  Bits(h.size * 8 + type * 2 + (IF h.last THEN 1 ELSE 0), 24)

\* read_block_header: what the block is and how many bytes follow and come out.
ReadBlockHeader(bits) ==
    LET type == BlockTypes[Read(bits, 1, 2) + 1]
        size == Read(bits, 3, 21)
    IN  IF type = "reserved" \/ size > MaxBlockSize THEN [error |-> TRUE]
        ELSE [error |-> FALSE, last |-> bits[1] = 1, type |-> type,
              content |-> IF type = "rle" THEN 1 ELSE size,
              decompressed |-> IF type = "compressed" THEN 0 ELSE size]

BlockHeaderArrives(h, r) ==
    IF h.size > MaxBlockSize THEN r.error
    ELSE /\ ~r.error /\ r.last = h.last /\ r.type = h.type
         /\ h.type # "rle" => r.content = h.size
         /\ h.type # "compressed" => r.decompressed = h.size

-----------------------------------------------------------------------------
(* Literals section header: [type, regenerated, compressed]                *)

\* Mutant: 1024 literals are given the sizes of ten bits.
SizeFormat_OffByOne(n) == CASE n < 6 -> <<0, 10>> [] 6 <= n /\ n < 1025 -> <<1, 10>>
                            [] 1025 <= n /\ n < 16384 -> <<2, 14>>
                            [] 16384 <= n /\ n < 262144 -> <<3, 18>>

\* size_format and the bits of each size.
SizeFormat(n) == CASE n < 6 -> <<0, 10>> [] 6 <= n /\ n < 1024 -> <<1, 10>>
                   [] 1024 <= n /\ n < 16384 -> <<2, 14>> [] 16384 <= n /\ n < 262144 -> <<3, 18>>

LiteralsHeader(h) ==
    LET format == SizeFormat(h.regenerated)
    IN  IF h.type = 0 THEN Bits(0, 2) \o Bits(3, 2) \o Bits(h.regenerated, 20)
        ELSE Bits(h.type, 2) \o Bits(format[1], 2) \o Bits(h.regenerated, format[2])
               \o Bits(h.compressed, format[2])

HeaderBytesNeeded(type, format) ==
    IF type \in {0, 1} THEN <<1, 2, 1, 3>>[format + 1] ELSE <<3, 3, 4, 5>>[format + 1]

\* parse_from_header.
ReadLiteralsHeader(bits) ==
    LET type   == Read(bits, 0, 2)
        format == Read(bits, 2, 2)
        width  == <<10, 10, 14, 18>>[format + 1]
    IN  IF type \in {0, 1}
        THEN [type |-> type, streams |-> 0, compressed |-> 0, bytes |-> HeaderBytesNeeded(type, format),
              regenerated |-> CASE format \in {0, 2} -> Read(bits, 3, 5) [] format = 1 -> Read(bits, 4, 12)
                                [] format = 3 -> Read(bits, 4, 20)]
        ELSE [type |-> type, streams |-> IF format = 0 THEN 1 ELSE 4,
              bytes |-> HeaderBytesNeeded(type, format),
              regenerated |-> Read(bits, 4, width), compressed |-> Read(bits, 4 + width, width)]

\* encode and encode4x go by the same rule.
LiteralsHeaderArrives(h, r, bits) ==
    /\ 8 * r.bytes = Len(bits)
    /\ r.type = h.type /\ r.regenerated = h.regenerated
    /\ h.type \in {2, 3} => r.compressed = h.compressed
                            /\ r.streams = IF h.regenerated < 6 THEN 1 ELSE 4

-----------------------------------------------------------------------------
(* A header on its way                                                     *)

U64s == [1..8 -> 0..255]

\* What serialize is given: fields with values it does not panic on, windows it
\* can write, literals of a block, and compressed ones only when that is shorter.
ASSUME HeadersAssumption ==
    /\ \A h \in FrameHeaders :
          /\ h.fcs = Absent \/ h.fcs \in U64s
          /\ h.dict = Absent \/ h.dict \in U64s
          /\ h.window = Absent \/ h.window \in 0..2^30
          /\ h.single \in BOOLEAN /\ h.checksum \in BOOLEAN
          /\ IsSerializable(h) /\ IsReadable(h)
    /\ \A h \in BlockHeaders :
          /\ h.type \in {"raw", "rle", "compressed"}
          /\ h.last \in BOOLEAN /\ h.size \in 0..(2^21 - 1)
    /\ \A h \in LiteralsHeaders :
          /\ h.type \in {0, 2, 3}
          /\ h.regenerated \in 0..(2^18 - 1) /\ h.compressed \in 0..h.regenerated

HeaderItems ==
    [kind : {"frame"}, value : FrameHeaders] \cup [kind : {"block"}, value : BlockHeaders]
      \cup [kind : {"literals header"}, value : LiteralsHeaders]

HeaderInit == item \in HeaderItems /\ place = "given" /\ sent = <<>> /\ received = <<>>

IsHeader == item.kind \in {"frame", "block", "literals header"}

WriteItem ==
    /\ place = "given" /\ IsHeader
    /\ sent' = CASE item.kind = "frame"           -> Serialized(item.value)
                 [] item.kind = "block"           -> SerializedBlock(item.value)
                 [] item.kind = "literals header" -> LiteralsHeader(item.value)
    /\ place' = "sent"
    /\ UNCHANGED <<item, received>>

ReadItem ==
    /\ place = "sent" /\ IsHeader
    /\ received' = CASE item.kind = "frame"           -> ReadFrameHeader(sent)
                     [] item.kind = "block"           -> ReadBlockHeader(sent)
                     [] item.kind = "literals header" -> ReadLiteralsHeader(sent)
    /\ place' = "received"
    /\ UNCHANGED <<item, sent>>

HeaderNext == WriteItem \/ ReadItem

HeaderSpec == HeaderInit /\ [][HeaderNext]_headerVars

\* Headers say to the decoder what the encoder meant, in exactly their bytes.
HeadersArrive ==
    place = "received" =>
       CASE item.kind = "frame"           -> FrameHeaderArrives(item.value, received, sent)
         [] item.kind = "block"           -> BlockHeaderArrives(item.value, received)
         [] item.kind = "literals header" -> LiteralsHeaderArrives(item.value, received, sent)
         [] OTHER                         -> TRUE
==============================================================================
