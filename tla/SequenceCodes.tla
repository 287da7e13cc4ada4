---------------------------- MODULE SequenceCodes ----------------------------
(***************************************************************************)
(* The codes of literal lengths, match lengths and offsets.  The encoder   *)
(* (encoding/blocks/compressed.rs) takes a length apart into a code and a  *)
(* number of extra bits; the decoder (sequence_section_decoder.rs) has a   *)
(* table of its own.  Codes that stand for one length only are left out of *)
(* both tables.                                                            *)
(***************************************************************************)
EXTENDS Integers, Sequences, FiniteSetsExt

\* encode_literal_length, from code 16 on: first length, last length, bits.
LiteralLengthRows ==
    << <<16, 17, 1>>, <<18, 19, 1>>, <<20, 21, 1>>, <<22, 23, 1>>, <<24, 27, 2>>, <<28, 31, 2>>,
       <<32, 39, 3>>, <<40, 47, 3>>, <<48, 63, 4>>, <<64, 127, 6>>, <<128, 255, 7>>,
       <<256, 511, 8>>, <<512, 1023, 9>>, <<1024, 2047, 10>>, <<2048, 4095, 11>>,
       <<4096, 8191, 12>>, <<8192, 16383, 13>>, <<16384, 32767, 14>>, <<32768, 65535, 15>>,
       <<65536, 131071, 16>> >>

\* encode_match_len, from code 32 on.  The extra bits of the last code are
\* counted from the first length of the one before.
MatchLenRows ==
    << <<35, 36, 1>>, <<37, 38, 1>>, <<39, 40, 1>>, <<41, 42, 1>>, <<43, 46, 2>>, <<47, 50, 2>>,
       <<51, 58, 3>>, <<59, 66, 3>>, <<67, 82, 4>>, <<83, 98, 4>>, <<99, 130, 5>>,
       <<131, 258, 7>>, <<259, 514, 8>>, <<515, 1026, 9>>, <<1027, 2050, 10>>,
       <<2051, 4098, 11>>, <<4099, 8194, 12>>, <<8195, 16386, 13>>, <<16387, 32770, 14>>,
       <<32771, 65538, 15>>, <<65539, 131074, 16>> >>

RowOf(rows, len) == CHOOSE r \in DOMAIN rows : rows[r][1] <= len /\ len <= rows[r][2]

EncodeLiteralLength(len) ==
    LET r == RowOf(LiteralLengthRows, len)
    IN  IF len <= 15 THEN [code |-> len, add |-> 0, bits |-> 0]
        ELSE [code |-> 15 + r, add |-> len - LiteralLengthRows[r][1], bits |-> LiteralLengthRows[r][3]]

EncodeMatchLen(len) ==
    LET r == RowOf(MatchLenRows, len)
    IN  IF len <= 34 THEN [code |-> len - 3, add |-> 0, bits |-> 0]
        ELSE [code |-> 31 + r, add |-> len - (IF r = 21 THEN 32771 ELSE MatchLenRows[r][1]),
              bits |-> MatchLenRows[r][3]]

EncodeOffset(of) ==
    LET log == CHOOSE k \in 0..29 : 2^k <= of /\ of < 2^(k + 1)
    IN  [code |-> log, add |-> of % 2^log, bits |-> log]

-----------------------------------------------------------------------------
(* lookup_ll_code and lookup_ml_code: first length and bits                *)

LiteralLengthTable ==
    << <<16, 1>>, <<18, 1>>, <<20, 1>>, <<22, 1>>, <<24, 2>>, <<28, 2>>, <<32, 3>>, <<40, 3>>,
       <<48, 4>>, <<64, 6>>, <<128, 7>>, <<256, 8>>, <<512, 9>>, <<1024, 10>>, <<2048, 11>>,
       <<4096, 12>>, <<8192, 13>>, <<16384, 14>>, <<32768, 15>>, <<65536, 16>> >>

MatchLenTable ==
    << <<35, 1>>, <<37, 1>>, <<39, 1>>, <<41, 1>>, <<43, 2>>, <<47, 2>>, <<51, 3>>, <<59, 3>>,
       <<67, 4>>, <<83, 4>>, <<99, 5>>, <<131, 7>>, <<259, 8>>, <<515, 9>>, <<1027, 10>>,
       <<2051, 11>>, <<4099, 12>>, <<8195, 13>>, <<16387, 14>>, <<32771, 15>>, <<65539, 16>> >>

LookupLiteralLength(code) == IF code <= 15 THEN <<code, 0>> ELSE LiteralLengthTable[code - 15]

LookupMatchLen(code) == IF code <= 31 THEN <<code + 3, 0>> ELSE MatchLenTable[code - 31]

=============================================================================
