---------------------------- MODULE EntropyTables ----------------------------
(***************************************************************************)
(* decoding/scratch.rs, literals_section_decoder.rs and                    *)
(* sequence_section_decoder.rs: the Huffman table and the three FSE tables *)
(* that live from block to block of a frame, with the two fields that say  *)
(* whether a table is there (max_num_bits, accuracy_log) kept apart from   *)
(* the entries they describe, as in the code.                              *)
(*                                                                         *)
(* How a table is read from bytes is the matter of HuffmanCoding and       *)
(* FiniteStateEntropy; here a table is a value and may be damaged.         *)
(***************************************************************************)
EXTENDS Integers

CONSTANTS Trees,       \* Huffman tables
          Dists,       \* FSE tables
          Symbols,     \* symbols of RLE mode
          Predefined,  \* the predefined FSE table
          None,
          TreeBits,    \* max_num_bits of a tree
          AccLog,      \* accuracy_log of an FSE table
          BadBits,     \* max_num_bits of trees that are too deep
          BadLogs      \* accuracy logs that damaged descriptions begin with

Kinds == {"ll", "of", "ml"}

ASSUME ValuesAssumption ==
    /\ Predefined \in Dists
    /\ None \notin Trees \cup Dists \cup Symbols
    /\ TreeBits \in [Trees -> Nat \ {0}]
    /\ AccLog \in [Dists -> Nat \ {0}]
    /\ BadBits \subseteq Nat \ {0}
    /\ BadLogs \subseteq Nat \ {0}

VARIABLES huf,   \* HuffmanTable: [decode, max_num_bits]
          fse,   \* for each kind FSETable: [decode, accuracy_log] and its rle
          pc,    \* the next thing the block decoder does; "failed" after an error
          used,  \* history: the entries that were read by the last decoding
          sent   \* history: the tables that the dictionary and the blocks sent

tableVars == <<huf, fse, pc, used, sent>>

Nothing == [k \in Kinds \cup {"tree"} |-> None]

EmptyHuf == [decode |-> None, max_num_bits |-> 0]
EmptyFse == [decode |-> None, accuracy_log |-> 0, rle |-> None]

TablesInit ==
    /\ huf = EmptyHuf /\ fse = [k \in Kinds |-> EmptyFse]
    /\ pc = "literals" /\ used = Nothing /\ sent = Nothing

\* Mutant: FSETable::reset forgets the accuracy log.
ResetTables_KeepsLog ==
    /\ huf' = EmptyHuf /\ fse' = [k \in Kinds |-> [EmptyFse EXCEPT !.accuracy_log = fse[k].accuracy_log]]
    /\ pc' = "literals" /\ used' = Nothing /\ sent' = Nothing

\* A new frame without a dictionary.
ResetTables ==
    /\ huf' = EmptyHuf /\ fse' = [k \in Kinds |-> EmptyFse]
    /\ pc' = "literals" /\ used' = Nothing /\ sent' = Nothing

\* A new frame with one: decode_dict has built all four tables.
InitFromDict(t, d) ==
    /\ huf' = [decode |-> t, max_num_bits |-> TreeBits[t]]
    /\ fse' = [k \in Kinds |-> [decode |-> d[k], accuracy_log |-> AccLog[d[k]], rle |-> None]]
    /\ pc' = "literals" /\ used' = Nothing
    /\ sent' = [k \in Kinds \cup {"tree"} |-> IF k \in Kinds THEN d[k] ELSE t]

-----------------------------------------------------------------------------
(* decode_literals                                                         *)

\* Raw and RLE literals touch no table.
PlainLiterals ==
    /\ pc = "literals" /\ pc' = "ll"
    /\ UNCHANGED <<huf, fse, used, sent>>

\* A damaged stream is found only when the table has been read.
CompressedLiterals(t) ==
    /\ pc = "literals"
    /\ huf' = [decode |-> t, max_num_bits |-> TreeBits[t]]
    /\ used' = [used EXCEPT !["tree"] = t]
    /\ sent' = [sent EXCEPT !["tree"] = t]
    /\ pc' \in {"ll", "failed"}
    /\ UNCHANGED fse

\* build_decoder clears the entries first; max_num_bits is left, or is set to
\* the depth that is then found too big.
DamagedTree(bits) ==
    /\ pc = "literals"
    /\ huf' = [decode |-> None, max_num_bits |-> bits]
    /\ pc' = "failed"
    /\ UNCHANGED <<fse, used, sent>>

UninitializedHuffmanTable ==
    /\ pc = "literals" /\ huf.max_num_bits = 0
    /\ pc' = "failed"
    /\ UNCHANGED <<huf, fse, used, sent>>

\* An empty table is indexed out of its entries as soon as there is a literal.
TreelessLiterals ==
    /\ pc = "literals" /\ huf.max_num_bits # 0
    /\ used' = [used EXCEPT !["tree"] = huf.decode]
    /\ pc' \in {"ll", "failed"} \cup (IF huf.decode = None THEN {"panicked without tree"} ELSE {})
    /\ UNCHANGED <<huf, fse, sent>>

\* The block cannot be read, or one of its section headers is malformed.
MalformedBlock ==
    /\ pc \in {"literals", "ll"} /\ pc' = "failed"
    /\ UNCHANGED <<huf, fse, used, sent>>

-----------------------------------------------------------------------------
(* maybe_update_fse_tables: literal lengths, offsets, match lengths        *)

After == [ll |-> "of", of |-> "ml", ml |-> "decode"]

\* A block without sequences has no tables.
NoSequences ==
    /\ pc = "ll" /\ pc' = "literals"
    /\ UNCHANGED <<huf, fse, used, sent>>

\* Mutant: the RLE symbol of an earlier block is not taken back.
SendTable_KeepsRle(k, d) ==
    /\ pc = k /\ pc' = After[k]
    /\ fse' = [fse EXCEPT ![k].decode = d, ![k].accuracy_log = AccLog[d]]
    /\ sent' = [sent EXCEPT ![k] = d]
    /\ UNCHANGED <<huf, used>>

\* FSECompressed, and Predefined with d = Predefined.
SendTable(k, d) ==
    /\ pc = k /\ pc' = After[k]
    /\ fse' = [fse EXCEPT ![k] = [decode |-> d, accuracy_log |-> AccLog[d], rle |-> None]]
    /\ sent' = [sent EXCEPT ![k] = d]
    /\ UNCHANGED <<huf, used>>

\* The accuracy log is zeroed, or read, before the description is found
\* damaged; the entries and the RLE symbol stay.
DamagedTable(k, log) ==
    /\ pc = k /\ pc' = "failed"
    /\ fse' = [fse EXCEPT ![k].accuracy_log = log]
    /\ UNCHANGED <<huf, used, sent>>

SendSymbol(k, s) ==
    /\ pc = k /\ pc' = After[k]
    /\ fse' = [fse EXCEPT ![k].rle = s]
    /\ sent' = [sent EXCEPT ![k] = s]
    /\ UNCHANGED <<huf, used>>

\* No byte for the symbol, or one that is no code.
DamagedSymbol(k) ==
    /\ pc = k /\ pc' = "failed"
    /\ UNCHANGED <<huf, fse, used, sent>>

Repeat(k) ==
    /\ pc = k /\ pc' = After[k]
    /\ UNCHANGED <<huf, fse, used, sent>>

-----------------------------------------------------------------------------
(* decode_sequences                                                        *)

\* The padding is wrong, or init_state finds a table without accuracy log.
RefuseSequences ==
    /\ pc = "decode" /\ pc' = "failed"
    /\ UNCHANGED <<huf, fse, used, sent>>

\* Where the codes of a kind come from.
Source(k) == IF fse[k].rle # None THEN fse[k].rle ELSE fse[k].decode

\* The accuracy log is the one the table was made for, zero when there is none.
LogFits(k) ==
    fse[k].accuracy_log = IF fse[k].decode = None THEN 0 ELSE AccLog[fse[k].decode]

\* Entries of another size may be indexed out of their bounds.
OutOfEntries == {panic \in {"panicked"} : \E k \in Kinds : fse[k].rle = None /\ ~LogFits(k)}

DecodeSequences ==
    /\ pc = "decode"
    /\ \A k \in Kinds : fse[k].rle = None => fse[k].accuracy_log # 0
    /\ used' = [k \in Kinds \cup {"tree"} |-> IF k \in Kinds THEN Source(k) ELSE used[k]]
    /\ pc' \in {"literals", "failed"} \cup OutOfEntries
    /\ UNCHANGED <<huf, fse, sent>>

-----------------------------------------------------------------------------
DecodeLiterals ==
    \/ PlainLiterals
    \/ \E t \in Trees : CompressedLiterals(t)
    \/ \E bits \in BadBits \cup {huf.max_num_bits} : DamagedTree(bits)
    \/ UninitializedHuffmanTable
    \/ TreelessLiterals

UpdateTable(k) ==
    \/ \E d \in Dists : SendTable(k, d)
    \/ \E log \in BadLogs \cup {0} : DamagedTable(k, log)
    \/ \E s \in Symbols : SendSymbol(k, s)
    \/ DamagedSymbol(k)
    \/ Repeat(k)

TablesNext ==
    \/ ResetTables
    \/ \E t \in Trees, d \in [Kinds -> Dists] : InitFromDict(t, d)
    \/ DecodeLiterals
    \/ MalformedBlock
    \/ NoSequences
    \/ \E k \in Kinds : UpdateTable(k)
    \/ RefuseSequences
    \/ DecodeSequences

\* A caller that gives a frame up after an error.  (Nothing in the code keeps it
\* from going on: every decode_blocks makes a new BlockDecoder and no step sets
\* DecoderState::Failed.)
TablesSpec == TablesInit /\ [][TablesNext]_tableVars

-----------------------------------------------------------------------------
\* Type invariant.
TablesTypeOK ==
    /\ huf \in [decode : Trees \cup {None}, max_num_bits : Nat]
    /\ fse \in [Kinds -> [decode : Dists \cup {None}, accuracy_log : Nat, rle : Symbols \cup {None}]]
    /\ pc \in Kinds \cup {"literals", "decode", "failed"}  \* and no panic
    /\ \A history \in {used, sent} :
           history \in [Kinds \cup {"tree"} -> Trees \cup Dists \cup Symbols \cup {None}]

\* No index is ever out of the entries of its table: as long as there is no
\* error, the bits read for an index are those the table was made for.
LogsMatchTables ==
    pc # "failed" =>
        /\ huf.max_num_bits = IF huf.decode = None THEN 0 ELSE TreeBits[huf.decode]
        /\ \A k \in Kinds : LogFits(k)

\* The two fields, the RLE symbols and the early returns together implement the
\* promise of the format: what is used is what was sent last in this frame.
Promise == INSTANCE TableReuse WITH
    tree <- sent["tree"], dist <- [k \in Kinds |-> sent[k]], alive <- pc # "failed"

UsesWhatWasSentLast == Promise!Reuse
=============================================================================
