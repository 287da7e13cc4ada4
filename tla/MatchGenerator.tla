--------------------------- MODULE MatchGenerator ---------------------------
(***************************************************************************)
(* encoding/match_generator.rs: the Matcher of the crate.  The window is a *)
(* sequence of entries, each with the data of one block, a hash table from *)
(* the first bytes of a suffix to where it starts, and the distance to the *)
(* last entry.  Tables of entries that leave the window are cleared and    *)
(* used again, whatever their size.  Indices count from 0 as in the code.  *)
(*                                                                         *)
(* "out" is history: what a decoder has after the sequences emitted so far *)
(* in this frame; "input" is what it should have in the end.  The spaces   *)
(* themselves (vec_pool) are all alike and left out.                       *)
(***************************************************************************)
EXTENDS Integers, Sequences, SequencesExt, FiniteSetsExt

CONSTANTS MinMatchLen,  \* MIN_MATCH_LEN: 5
          SliceSize,    \* slice_size: 128 KiB
          MaxSlices,    \* max_slices_in_window: 1
          Byte,         \* the values of a byte
          Spaces,       \* what the blocks may hold
          Slot(_, _),   \* the slot of a key in a table of so many slots
          None,
          MaxBlocks     \* bound: blocks committed over all frames

ASSUME MinMatchLenAssumption == MinMatchLen \in Nat \ {0}
ASSUME SlicesAssumption == SliceSize \in Nat \ {0} /\ MaxSlices \in Nat \ {0}
ASSUME SpacesAssumption == \A s \in Spaces : s \in Seq(Byte) /\ Len(s) \in 1..SliceSize
ASSUME SlotAssumption ==
    \A slots \in 1..SliceSize : \A key \in [1..MinMatchLen -> Byte] :
        Slot(key, slots) \in 0..(slots - 1)

VARIABLES window,               \* [data, suffixes, base_offset]
          suffix_idx,
          last_idx_in_sequence,
          window_size,
          suffix_pool,
          pc,                   \* "idle", "committed" or "matching"
          input, out,           \* history
          blocks

vars == <<window, suffix_idx, last_idx_in_sequence, window_size, suffix_pool, pc,
          input, out, blocks>>

MaxWindowSize == MaxSlices * SliceSize

Init ==
    /\ window = <<>> /\ suffix_idx = 0 /\ last_idx_in_sequence = 0 /\ window_size = 0
    /\ suffix_pool = <<>> /\ pc = "idle"
    /\ input = <<>> /\ out = <<>> /\ blocks = 0

-----------------------------------------------------------------------------
(* SuffixStore                                                             *)

WithCapacity(n) == [i \in 0..(n - 1) |-> None]

Slots(suffixes) == Cardinality(DOMAIN suffixes)

Key(data, idx) == SubSeq(data, idx + 1, idx + MinMatchLen)

SlotOf(suffixes, key) == Slot(key, Slots(suffixes))

\* Each index is inserted, in order, unless its slot is taken.
Inserted(suffixes, data, indices) ==
    [s \in DOMAIN suffixes |->
       LET same == {i \in indices : SlotOf(suffixes, Key(data, i)) = s}
       IN  IF suffixes[s] # None \/ same = {} THEN suffixes[s] ELSE Min(same)]

\* Mutant: the slots keep what they held.
Recycled_Kept(suffixes) == suffixes

\* A table on its way to the pool.
Recycled(suffixes) == WithCapacity(Slots(suffixes))

-----------------------------------------------------------------------------
(* MatchGeneratorDriver                                                    *)

RecycledStores(entries) == [k \in 1..Len(entries) |-> Recycled(entries[k].suffixes)]

\* Reset for the next frame.
Reset ==
    /\ pc = "idle" /\ input # <<>>
    /\ suffix_pool' = suffix_pool \o RecycledStores(window)
    /\ window' = <<>> /\ suffix_idx' = 0 /\ last_idx_in_sequence' = 0 /\ window_size' = 0
    /\ input' = <<>> /\ out' = <<>>
    /\ UNCHANGED <<pc, blocks>>

Bytes(entries) ==
    LET sum[k \in 0..Len(entries)] == IF k = 0 THEN 0 ELSE sum[k - 1] + Len(entries[k].data)
    IN  sum[Len(entries)]

\* Mutant: the window may hold one block more.
Evicted_Late(amount) ==
    Min({k \in 0..Len(window) :
           k = Len(window) \/ window_size - Bytes(SubSeq(window, 1, k)) <= MaxWindowSize})

\* reserve: how many entries have to leave for so many bytes.
Evicted(amount) ==
    Min({k \in 0..Len(window) :
           window_size - Bytes(SubSeq(window, 1, k)) + amount <= MaxWindowSize})

\* Mutant: only the newest of the old entries moves away.
Moved_OnlyLast(entries) ==
    [k \in 1..Len(entries) |->
       IF k = Len(entries) THEN [entries[k] EXCEPT !.base_offset = @ + Len(Last(entries).data)]
       ELSE entries[k]]

\* The last entry comes to stand behind a new one.
Moved(entries) ==
    [k \in 1..Len(entries) |-> [entries[k] EXCEPT !.base_offset = @ + Len(Last(entries).data)]]

\* commit_space, with add_data and reserve.  The table is popped before those
\* of the entries that leave are pushed.
CommitSpace(space) ==
    /\ pc = "idle" /\ blocks < MaxBlocks
    /\ LET n        == Evicted(Len(space))
           kept     == SubSeq(window, n + 1, Len(window))
           suffixes == IF suffix_pool = <<>> THEN WithCapacity(Len(space)) ELSE Last(suffix_pool)
           pool     == IF suffix_pool = <<>> THEN <<>> ELSE Front(suffix_pool)
       IN  /\ window' = Append(Moved(kept), [data |-> space, suffixes |-> suffixes, base_offset |-> 0])
           /\ window_size' = window_size - Bytes(SubSeq(window, 1, n)) + Len(space)
           /\ suffix_pool' = pool \o RecycledStores(SubSeq(window, 1, n))
    /\ suffix_idx' = 0 /\ last_idx_in_sequence' = 0
    /\ pc' = "committed" /\ blocks' = blocks + 1 /\ input' = input \o space
    /\ UNCHANGED out

LastEntry == window[Len(window)]
Data == LastEntry.data

\* The suffixes that lie in what is processed now: from suffix_idx to idx.
AddSuffixesTill(idx) ==
    window' = [window EXCEPT ![Len(window)].suffixes =
                 Inserted(@, Data, suffix_idx..(idx - MinMatchLen))]

SkipMatching ==
    /\ pc = "committed"
    /\ AddSuffixesTill(Len(Data))
    /\ suffix_idx' = Len(Data) /\ last_idx_in_sequence' = Len(Data)
    /\ pc' = "idle" /\ out' = out \o Data
    /\ UNCHANGED <<window_size, suffix_pool, input, blocks>>

StartMatching ==
    /\ pc = "committed" /\ pc' = "matching"
    /\ UNCHANGED <<window, suffix_idx, last_idx_in_sequence, window_size, suffix_pool,
                   input, out, blocks>>

-----------------------------------------------------------------------------
(* next_sequence                                                           *)

Remaining == Len(Data) - suffix_idx

\* A match, as a decoder executes it that keeps window_size() bytes.
WithMatch(bytes, offset, len) ==
    bytes \o [i \in 1..len |-> IF offset \in 1..Len(bytes) /\ offset <= MaxWindowSize
                               THEN bytes[Len(bytes) - offset + 1 + ((i - 1) % offset)]
                               ELSE None]

EmitLiterals ==
    LET literals == SubSeq(Data, last_idx_in_sequence + 1, Len(Data))
    IN  /\ out' = out \o literals
        /\ last_idx_in_sequence' = Len(Data) /\ suffix_idx' = Len(Data)

\* All has been processed; literals may be left.
EndReached ==
    /\ pc = "matching" /\ Remaining = 0
    /\ IF last_idx_in_sequence # suffix_idx
       THEN EmitLiterals /\ UNCHANGED pc
       ELSE pc' = "idle" /\ UNCHANGED <<suffix_idx, last_idx_in_sequence, out>>
    /\ UNCHANGED <<window, window_size, suffix_pool, input, blocks>>

TooShort ==
    /\ pc = "matching" /\ Remaining \in 1..(MinMatchLen - 1)
    /\ EmitLiterals
    /\ UNCHANGED <<window, window_size, suffix_pool, pc, input, blocks>>

CommonPrefixLen(a, b) ==
    Max({n \in 0..Len(a) : n <= Len(b) /\ SubSeq(a, 1, n) = SubSeq(b, 1, n)})

\* What a match in entry k may copy from.
MatchSlice(k, at) ==
    SubSeq(window[k].data, at + 1, IF k = Len(window) THEN suffix_idx ELSE Len(window[k].data))

\* Two keys may share a slot.
IsCandidate(m) == m.len >= MinMatchLen

\* Where each entry's table sends the current key, and how far it agrees.
Candidates ==
    LET key  == Key(Data, suffix_idx)
        rest == SubSeq(Data, suffix_idx + 1, Len(Data))
        at(k) == window[k].suffixes[SlotOf(window[k].suffixes, key)]
        found == {k \in 1..Len(window) : at(k) # None}
        match(k) == [offset |-> window[k].base_offset + suffix_idx - at(k),
                     len    |-> CommonPrefixLen(MatchSlice(k, at(k)), rest)]
    IN  {m \in {match(k) : k \in found} : IsCandidate(m)}

\* The longest one, and of those the nearest.
Best(candidates) ==
    CHOOSE m \in candidates : \A c \in candidates \ {m} :
        m.len > c.len \/ (m.len = c.len /\ m.offset < c.offset)

MatchFound ==
    /\ pc = "matching" /\ Remaining >= MinMatchLen /\ Candidates # {}
    /\ LET m == Best(Candidates)
           literals == SubSeq(Data, last_idx_in_sequence + 1, suffix_idx)
       IN  /\ AddSuffixesTill(suffix_idx + m.len)
           /\ suffix_idx' = suffix_idx + m.len
           /\ last_idx_in_sequence' = suffix_idx + m.len
           /\ out' = WithMatch(out \o literals, m.offset, m.len)
    /\ UNCHANGED <<window_size, suffix_pool, pc, input, blocks>>

NoMatch ==
    /\ pc = "matching" /\ Remaining >= MinMatchLen /\ Candidates = {}
    /\ AddSuffixesTill(suffix_idx + MinMatchLen)
    /\ suffix_idx' = suffix_idx + 1
    /\ UNCHANGED <<last_idx_in_sequence, window_size, suffix_pool, pc, input, out, blocks>>

NextSequence == EndReached \/ TooShort \/ MatchFound \/ NoMatch

Next ==
    \/ Reset
    \/ \E space \in Spaces : CommitSpace(space)
    \/ SkipMatching \/ StartMatching
    \/ NextSequence

Spec == Init /\ [][Next]_vars

-----------------------------------------------------------------------------
\* What the sequences and skipped blocks stand for is the data, from block to
\* block: through hash collisions, tables taken over from other entries,
\* matches into earlier blocks and blocks that leave the window.
SequencesReproduceData ==
    out = SubSeq(input, 1, Len(input) -
                   IF pc = "idle" THEN 0 ELSE Len(Data) - last_idx_in_sequence)

\* The window is the end of what was committed (concat_window of debug builds),
\* counted by window_size, no longer than the maximum, and each entry knows how
\* far it is from the last one, through evictions and blocks of any length.
WindowIsEndOfInput ==
    /\ window_size = Bytes(window) /\ window_size <= MaxWindowSize
    /\ \A k \in 1..Len(window) :
          LET before == Len(input) - Len(Data) - window[k].base_offset
          IN  /\ window[k].base_offset = Bytes(SubSeq(window, k, Len(window) - 1))
              /\ window[k].data = SubSeq(input, before + 1, before + Len(window[k].data))

\* What the tables hold are places in the data of their own entry, behind none
\* that is still to be processed, where a whole key fits: no slice is ever out
\* of range.
TablesPointIntoTheirData ==
    \A k \in 1..Len(window) : \A s \in DOMAIN window[k].suffixes :
        LET idx == window[k].suffixes[s]
        IN  idx # None =>
              /\ idx + MinMatchLen <= Len(window[k].data)
              /\ k = Len(window) => idx < suffix_idx

\* match_generator.rs: "It allocates and reuses the buffers when possible".
\* The table a block is matched with has more than one slot, or the shift by
\* 64 - len_log in key overflows.
ShiftsAreDefined ==
    pc = "matching" /\ Remaining >= MinMatchLen => Slots(LastEntry.suffixes) > 1
=============================================================================
