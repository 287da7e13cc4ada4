------------------------- MODULE BlockDecodingProofs -------------------------
(***************************************************************************)
(* What the decoding of a block rests on.  The entropy tables: the flags,  *)
(* RLE symbols and early returns of the decoder implement the promise of   *)
(* TableReuse, for all tables, symbols, accuracy logs and depths, damaged  *)
(* ones included.  The execution of sequences: the offset history, the     *)
(* count of the pushed bytes and the order of the literals, for every byte *)
(* alphabet, all literals, all lengths and offsets, and any number of      *)
(* blocks and frames.                                                      *)
(***************************************************************************)
EXTENDS BlockDecoding, FiniteSetTheorems, TLAPS

-----------------------------------------------------------------------------
(* The entropy tables of a frame                                           *)

\* What the decoder holds is what was sent last in this frame.
HoldsWhatWasSent ==
    pc # "failed" =>
        /\ huf.decode = sent["tree"]
        /\ \A k \in Kinds : Source(k) = sent[k]

\* The refinement alone is not inductive: which table is read depends on flags,
\* so it holds together with the types and with the flags being true.
TablesInv == TablesTypeOK /\ LogsMatchTables /\ HoldsWhatWasSent

KindsTree == Kinds \cup {"tree"}

LEMMA InitTablesInv == TablesInit => TablesInv
  BY ValuesAssumption
  DEF TablesInit, TablesInv, TablesTypeOK, LogsMatchTables, HoldsWhatWasSent, Nothing, EmptyHuf, EmptyFse,
      LogFits, Source, Kinds

\* Resetting for a frame, with a dictionary or without.
LEMMA ResetKeepsTables == TablesInv /\ ResetTables => TablesInv'
  BY ValuesAssumption
  DEF ResetTables, TablesInv, TablesTypeOK, LogsMatchTables, HoldsWhatWasSent, Nothing, EmptyHuf, EmptyFse,
      LogFits, Source, Kinds

LEMMA InitFromDictKeepsTables ==
    ASSUME TablesInv, NEW t \in Trees, NEW d \in [Kinds -> Dists], InitFromDict(t, d)
    PROVE  TablesInv'
<1>1. AccLog \in [Dists -> Nat] /\ TreeBits \in [Trees -> Nat] /\ t # None /\ \A k \in Kinds : d[k] # None
  BY ValuesAssumption
<1>2. TablesTypeOK'
  BY <1>1, ValuesAssumption DEF InitFromDict, TablesTypeOK, Nothing, Kinds
<1>3. LogsMatchTables'
  BY <1>1 DEF InitFromDict, LogsMatchTables, LogFits
<1>4. HoldsWhatWasSent'
  BY <1>1 DEF InitFromDict, HoldsWhatWasSent, Source, Kinds
<1> QED
  BY <1>2, <1>3, <1>4 DEF TablesInv

\* A literals section, however it ends.
LEMMA LiteralsKeepInv == TablesInv /\ DecodeLiterals => TablesInv'
<1> SUFFICES ASSUME TablesInv, DecodeLiterals PROVE TablesInv'
  OBVIOUS
<1> USE ValuesAssumption DEF TablesInv, TablesTypeOK, LogsMatchTables, HoldsWhatWasSent
<1>1. CASE PlainLiterals
  BY <1>1 DEF PlainLiterals, LogFits, Source, Kinds
<1>2. ASSUME NEW t \in Trees, CompressedLiterals(t) PROVE TablesInv'
  <2>1. TablesTypeOK'
    BY <1>2 DEF CompressedLiterals, Kinds
  <2>2. LogsMatchTables'
    BY <1>2 DEF CompressedLiterals, LogFits
  <2>3. HoldsWhatWasSent'
    BY <1>2 DEF CompressedLiterals, Source, Kinds
  <2> QED
    BY <2>1, <2>2, <2>3
<1>3. ASSUME NEW bits \in BadBits \cup {huf.max_num_bits}, DamagedTree(bits) PROVE TablesInv'
  BY <1>3 DEF DamagedTree, Kinds
<1>4. CASE UninitializedHuffmanTable
  BY <1>4 DEF UninitializedHuffmanTable, Kinds
<1>5. CASE TreelessLiterals
  <2>1. huf.decode # None
    BY <1>5 DEF TreelessLiterals
  <2> QED
    BY <1>5, <2>1 DEF TreelessLiterals, LogFits, Source, Kinds
<1> QED
  BY <1>1, <1>2, <1>3, <1>4, <1>5 DEF DecodeLiterals

\* A table, a symbol or nothing for one of the three kinds, damaged or not.
LEMMA UpdateTableKeepsInv ==
    ASSUME TablesInv, NEW k \in Kinds, UpdateTable(k)
    PROVE  TablesInv'
<1> USE ValuesAssumption DEF TablesInv, TablesTypeOK, LogsMatchTables, HoldsWhatWasSent
<1>0. k \in {"ll", "of", "ml"} /\ After[k] \in {"of", "ml", "decode"}
  BY DEF Kinds, After
<1>1. ASSUME NEW d \in Dists, SendTable(k, d) PROVE TablesInv'
  <2>1. AccLog[d] \in Nat /\ d # None
    OBVIOUS
  <2>2. TablesTypeOK'
    BY <1>0, <1>1, <2>1 DEF SendTable, Kinds
  <2>3. \A j \in Kinds : fse'[j] = IF j = k THEN [decode |-> d, accuracy_log |-> AccLog[d], rle |-> None]
                                            ELSE fse[j]
    BY <1>1 DEF SendTable
  <2>4. \A j \in Kinds : sent'[j] = IF j = k THEN d ELSE sent[j]
    BY <1>1 DEF SendTable, Kinds
  <2>5. pc # "failed" /\ huf' = huf /\ sent'["tree"] = sent["tree"]
    BY <1>0, <1>1 DEF SendTable, Kinds
  <2>6. LogsMatchTables'
    BY <2>1, <2>3, <2>5 DEF LogFits
  <2>7. HoldsWhatWasSent'
    BY <2>1, <2>3, <2>4, <2>5 DEF Source
  <2> QED
    BY <2>2, <2>6, <2>7
<1>2. ASSUME NEW log \in BadLogs \cup {0}, DamagedTable(k, log) PROVE TablesInv'
  BY <1>2 DEF DamagedTable, Kinds
<1>3. ASSUME NEW s \in Symbols, SendSymbol(k, s) PROVE TablesInv'
  <2>1. s # None
    OBVIOUS
  <2>2. TablesTypeOK'
    BY <1>0, <1>3, <2>1 DEF SendSymbol, Kinds
  <2>3. \A j \in Kinds : /\ fse'[j].decode = fse[j].decode
                         /\ fse'[j].accuracy_log = fse[j].accuracy_log
                         /\ fse'[j].rle = IF j = k THEN s ELSE fse[j].rle
    BY <1>3 DEF SendSymbol
  <2>4. \A j \in Kinds : sent'[j] = IF j = k THEN s ELSE sent[j]
    BY <1>3 DEF SendSymbol, Kinds
  <2>5. pc # "failed" /\ huf' = huf /\ sent'["tree"] = sent["tree"]
    BY <1>0, <1>3 DEF SendSymbol, Kinds
  <2>6. LogsMatchTables'
    BY <2>3, <2>5 DEF LogFits
  <2>7. HoldsWhatWasSent'
    BY <2>1, <2>3, <2>4, <2>5 DEF Source
  <2> QED
    BY <2>2, <2>6, <2>7
<1>4. CASE DamagedSymbol(k)
  BY <1>4 DEF DamagedSymbol, Kinds
<1>5. CASE Repeat(k)
  BY <1>0, <1>5 DEF Repeat, LogFits, Source, Kinds
<1> QED
  BY <1>1, <1>2, <1>3, <1>4, <1>5 DEF UpdateTable

\* Decoding the sequences never leaves the entries of a table.
LEMMA DecodeKeepsInv == TablesInv /\ DecodeSequences => TablesInv'
<1> SUFFICES ASSUME TablesInv, DecodeSequences PROVE TablesInv'
  OBVIOUS
<1>1. pc = "decode" /\ OutOfEntries = {}
  BY DEF TablesInv, LogsMatchTables, OutOfEntries, DecodeSequences
<1>2. pc' \in {"literals", "failed"} /\ UNCHANGED <<huf, fse, sent>>
  BY <1>1 DEF DecodeSequences
<1>3. \A k \in Kinds : Source(k) \in Dists \cup Symbols \cup {None}
  BY DEF Source, TablesInv, TablesTypeOK
<1>4. used' \in [Kinds \cup {"tree"} -> Trees \cup Dists \cup Symbols \cup {None}]
  BY <1>3 DEF DecodeSequences, TablesInv, TablesTypeOK
<1>5. TablesTypeOK'
  BY <1>2, <1>4 DEF TablesInv, TablesTypeOK
<1>6. LogsMatchTables' /\ HoldsWhatWasSent'
  BY <1>1, <1>2 DEF TablesInv, LogsMatchTables, HoldsWhatWasSent, LogFits, Source
<1> QED
  BY <1>5, <1>6 DEF TablesInv

LEMMA TablesKeepInv == TablesInv /\ [TablesNext]_tableVars => TablesInv'
<1> SUFFICES ASSUME TablesInv, [TablesNext]_tableVars PROVE TablesInv'
  OBVIOUS
<1>1. CASE MalformedBlock \/ NoSequences \/ RefuseSequences
  BY <1>1 DEF MalformedBlock, NoSequences, RefuseSequences, TablesInv, TablesTypeOK, LogsMatchTables,
              HoldsWhatWasSent, LogFits, Source, Kinds
<1>2. CASE UNCHANGED tableVars
  BY <1>2 DEF tableVars, TablesInv, TablesTypeOK, LogsMatchTables, HoldsWhatWasSent, LogFits, Source
<1> QED
  BY <1>1, <1>2, ResetKeepsTables, InitFromDictKeepsTables, LiteralsKeepInv, UpdateTableKeepsInv, DecodeKeepsInv
  DEF TablesNext

LEMMA TablesInvHolds == TablesSpec => []TablesInv
  BY InitTablesInv, TablesKeepInv, PTL DEF TablesSpec

-----------------------------------------------------------------------------
\* The type invariant: in particular no index ever leaves an empty table.
THEOREM EntropyTypes == TablesSpec => []TablesTypeOK
<1>1. TablesInv => TablesTypeOK
  BY DEF TablesInv
<1> QED
  BY TablesInvHolds, <1>1, PTL

\* max_num_bits and the accuracy logs always belong to the entries.
THEOREM LogsAlwaysMatch == TablesSpec => []LogsMatchTables
<1>1. TablesInv => LogsMatchTables
  BY DEF TablesInv
<1> QED
  BY TablesInvHolds, <1>1, PTL

-----------------------------------------------------------------------------
(* Every step of the decoder is one of TableReuse, or stutters.            *)

AbstractNext == \/ Promise!Begin \/ Promise!SendAndUseTree \/ Promise!UseTree
                \/ Promise!Send \/ Promise!UseDists \/ Promise!Fail

\* Steps that change nothing the promise speaks of.
LEMMA Stutters ==
    ASSUME UNCHANGED <<used, sent>>, (pc' # "failed") = (pc # "failed")
    PROVE  UNCHANGED Promise!reuse
  BY DEF Promise!reuse

\* Steps that end in an error.
LEMMA Fails ==
    ASSUME UNCHANGED <<used, sent>>, pc # "failed", pc' = "failed"
    PROVE  Promise!Fail
  BY DEF Promise!Fail

LEMMA StepRefines == TablesInv /\ TablesInv' /\ [TablesNext]_tableVars => AbstractNext \/ UNCHANGED Promise!reuse
<1> SUFFICES ASSUME TablesInv, TablesInv', [TablesNext]_tableVars PROVE AbstractNext \/ UNCHANGED Promise!reuse
  OBVIOUS
<1> USE DEF AbstractNext
<1>1. CASE ResetTables
  <2>1. Promise!Start(None, [k \in Kinds |-> None])
    BY <1>1 DEF Promise!Start, ResetTables, Nothing, Kinds
  <2> QED
    BY <2>1 DEF Promise!Begin
<1>2. ASSUME NEW t \in Trees, NEW d \in [Kinds -> Dists], InitFromDict(t, d) PROVE AbstractNext
  <2>1. Promise!Start(t, d)
    BY <1>2 DEF Promise!Start, InitFromDict, Nothing, Kinds
  <2> QED
    BY <2>1 DEF Promise!Begin
<1>3. CASE PlainLiterals
  BY <1>3, Stutters DEF PlainLiterals
<1>4. ASSUME NEW t \in Trees, CompressedLiterals(t) PROVE AbstractNext
  <2>1. Promise!SendAndUseTree
    <3>1. pc # "failed" /\ sent'["tree"] = t /\ used' = [used EXCEPT !["tree"] = t]
          /\ \A k \in Kinds : sent'[k] = sent[k]
      BY <1>4 DEF CompressedLiterals, TablesInv, TablesTypeOK, Kinds
    <3> QED
      BY <3>1 DEF Promise!SendAndUseTree
  <2> QED
    BY <2>1
<1>5. ASSUME NEW bits \in BadBits \cup {huf.max_num_bits}, DamagedTree(bits) PROVE AbstractNext
  BY <1>5, Fails DEF DamagedTree
<1>6. CASE UninitializedHuffmanTable
  BY <1>6, Fails DEF UninitializedHuffmanTable
<1>7. CASE TreelessLiterals
  <2>1. huf.decode # None /\ sent["tree"] = huf.decode
    BY <1>7 DEF TreelessLiterals, TablesInv, LogsMatchTables, HoldsWhatWasSent
  <2>2. Promise!UseTree
    BY <1>7, <2>1 DEF TreelessLiterals, Promise!UseTree
  <2> QED
    BY <2>2
<1>8. CASE NoSequences
  BY <1>8, Stutters DEF NoSequences
<1>9. ASSUME NEW k \in Kinds, UpdateTable(k) PROVE AbstractNext \/ UNCHANGED Promise!reuse
  <2>0. k # "failed" /\ k # "tree" /\ After[k] # "failed"
    BY DEF Kinds, After
  <2>1. ASSUME NEW d \in Dists \cup Symbols, sent' = [sent EXCEPT ![k] = d],
               UNCHANGED used, pc = k, pc' = After[k]
        PROVE  Promise!Send
    <3>1. /\ [j \in Kinds |-> sent'[j]] = [[j \in Kinds |-> sent[j]] EXCEPT ![k] = d]
          /\ sent'["tree"] = sent["tree"]
      BY <2>0, <2>1 DEF TablesInv, TablesTypeOK, Kinds
    <3> QED
      BY <2>0, <2>1, <3>1 DEF Promise!Send
  <2>2. ASSUME NEW d \in Dists, SendTable(k, d) PROVE AbstractNext
    BY <2>1, <2>2 DEF SendTable
  <2>3. ASSUME NEW log \in BadLogs \cup {0}, DamagedTable(k, log) PROVE AbstractNext
    BY <2>0, <2>3, Fails DEF DamagedTable
  <2>4. ASSUME NEW s \in Symbols, SendSymbol(k, s) PROVE AbstractNext
    BY <2>1, <2>4 DEF SendSymbol
  <2>5. CASE DamagedSymbol(k)
    BY <2>0, <2>5, Fails DEF DamagedSymbol
  <2>6. CASE Repeat(k)
    BY <2>0, <2>6, Stutters DEF Repeat
  <2> QED
    BY <1>9, <2>2, <2>3, <2>4, <2>5, <2>6 DEF UpdateTable
<1>10. CASE RefuseSequences \/ MalformedBlock
  BY <1>10, Fails DEF RefuseSequences, MalformedBlock
<1>11. CASE DecodeSequences
  <2>1. pc = "decode" /\ \A k \in Kinds : Source(k) = sent[k] /\ Source(k) # None
    BY <1>11, ValuesAssumption
    DEF DecodeSequences, TablesInv, TablesTypeOK, HoldsWhatWasSent, LogsMatchTables, LogFits, Source
  <2>2. used' = [k \in Kinds \cup {"tree"} |-> IF k \in Kinds THEN [j \in Kinds |-> sent[j]][k] ELSE used[k]]
    BY <1>11, <2>1 DEF DecodeSequences
  <2>3. Promise!UseDists
    BY <1>11, <2>1, <2>2 DEF DecodeSequences, Promise!UseDists
  <2> QED
    BY <2>3
<1>12. CASE UNCHANGED tableVars
  BY <1>12 DEF tableVars, Promise!reuse
<1> QED
  BY <1>1, <1>2, <1>3, <1>4, <1>5, <1>6, <1>7, <1>8, <1>9, <1>10, <1>11, <1>12 DEF TablesNext, DecodeLiterals

\* Literals and sequences are decoded with the tables that were sent last in
\* the frame, whatever the decoder held before and whatever is damaged.
THEOREM DecoderKeepsPromise == TablesSpec => UsesWhatWasSentLast
<1>1. TablesInit => Promise!First
  BY DEF TablesInit, Nothing, Promise!First, Kinds
<1>2. TablesInv /\ TablesInv' /\ [TablesNext]_tableVars =>
        [\/ Promise!Begin \/ Promise!SendAndUseTree \/ Promise!UseTree
         \/ Promise!Send \/ Promise!UseDists \/ Promise!Fail]_(Promise!reuse)
  BY StepRefines DEF AbstractNext
<1> QED
  BY TablesInvHolds, <1>1, <1>2, PTL DEF TablesSpec, UsesWhatWasSentLast, Promise!Reuse

-----------------------------------------------------------------------------
(* The execution of sequences                                              *)

Out == Byte \cup {"dictionary"}

\* What the first theorems need of the state: types, where the block began, and
\* that the zeroes of the history are counted as long as nothing was refused.
Inv ==
    /\ literals_buffer \in Seq(Byte)
    /\ TypeOK
    /\ old_buffer_size <= Len(out)
    /\ OnlyDictionariesBringZeroes
    /\ CountedIsPushed

\* The offset a value stands for is a natural number, also when it wraps.
LEMMA ActualOffsetIsNatural ==
    ASSUME NEW h \in [1..3 -> Nat], NEW of \in Nat \ {0}, NEW ll \in Nat
    PROVE  ActualOffset(of, ll, h) \in Nat
<1>1. h[1] \in Nat /\ h[2] \in Nat /\ h[3] \in Nat
  OBVIOUS
<1>2. of = 1 \/ of = 2 \/ of = 3 \/ of > 3
  OBVIOUS
<1> QED
  BY <1>1, <1>2, NumbersAssumption DEF ActualOffset

\* Zeroes are counted by natural numbers.
LEMMA ZeroesAreCounted ==
    ASSUME NEW h \in [1..3 -> Nat]
    PROVE  /\ Zeroes(h) \in Nat
           /\ h[1] = 0 => Zeroes(h) > 0
  BY DEF Zeroes, One

\* A new history is a history; it has no more zeroes than the one before, if the
\* offset it was made for is none.
LEMMA NewHistoryIsHistory ==
    ASSUME NEW h \in [1..3 -> Nat], NEW of \in Nat \ {0}, NEW ll \in Nat
    PROVE  /\ NewHistory(of, ll, h) \in [1..3 -> Nat]
           /\ ActualOffset(of, ll, h) # 0 => Zeroes(NewHistory(of, ll, h)) <= Zeroes(h)
<1> DEFINE a == ActualOffset(of, ll, h)
<1>1. a \in Nat
  BY ActualOffsetIsNatural
<1> HIDE DEF a
<1>2. \A x, y, z \in Nat : <<x, y, z>> \in [1..3 -> Nat]
  OBVIOUS
<1>3. h[1] \in Nat /\ h[2] \in Nat /\ h[3] \in Nat
  OBVIOUS
<1>4. \/ NewHistory(of, ll, h) = h
      \/ NewHistory(of, ll, h) = <<a, h[1], h[3]>>
      \/ NewHistory(of, ll, h) = <<a, h[1], h[2]>>
  BY DEF NewHistory, a
<1>5. NewHistory(of, ll, h) \in [1..3 -> Nat]
  BY <1>1, <1>2, <1>3, <1>4
<1>6. ASSUME a # 0 PROVE Zeroes(NewHistory(of, ll, h)) <= Zeroes(h)
  <2>1. CASE NewHistory(of, ll, h) = h
    BY <2>1 DEF Zeroes, One
  <2>2. CASE NewHistory(of, ll, h) = <<a, h[1], h[3]>>
    BY <1>3, <1>6, <2>2 DEF Zeroes, One
  <2>3. CASE NewHistory(of, ll, h) = <<a, h[1], h[2]>>
    BY <1>3, <1>6, <2>3 DEF Zeroes, One
  <2> QED
    BY <1>4, <2>1, <2>2, <2>3
<1> QED
  BY <1>5, <1>6 DEF a

\* Joining two sequences.
LEMMA Joined ==
    ASSUME NEW S, NEW s \in Seq(S), NEW t \in Seq(S)
    PROVE  s \o t \in Seq(S) /\ Len(s \o t) = Len(s) + Len(t)
  OBVIOUS

\* The elements of two sequences joined.
IsJoined(x, s, t) ==
    /\ Len(x) = Len(s) + Len(t)
    /\ \A i \in 1..Len(s) : x[i] = s[i]
    /\ \A j \in 1..Len(t) : x[Len(s) + j] = t[j]

LEMMA JoinedElements ==
    ASSUME NEW S, NEW s \in Seq(S), NEW t \in Seq(S)
    PROVE  s \o t \in Seq(S) /\ IsJoined(s \o t, s, t)
<1>1. \A j \in 1..Len(t) : Len(s) + j \in 1..(Len(s) + Len(t)) /\ ~(Len(s) + j <= Len(s))
  OBVIOUS
<1> QED
  BY <1>1 DEF IsJoined

\* The elements of a slice.
IsSlice(x, s, a, n) == Len(x) = n /\ \A j \in 1..n : x[j] = s[a + j]

LEMMA Sliced ==
    ASSUME NEW S, NEW s \in Seq(S), NEW a \in Nat, NEW n \in Nat, a + n <= Len(s)
    PROVE  SubSeq(s, a + 1, a + n) \in Seq(S) /\ IsSlice(SubSeq(s, a + 1, a + n), s, a, n)
<1>1. Len(SubSeq(s, a + 1, a + n)) = n
  OBVIOUS
<1>2. \A j \in 1..n : SubSeq(s, a + 1, a + n)[j] = s[a + j]
  OBVIOUS
<1>3. SubSeq(s, a + 1, a + n) \in Seq(S)
  OBVIOUS
<1> QED
  BY <1>1, <1>2, <1>3, Zenon DEF IsSlice

\* A function on 1..n is a sequence of length n.
LEMMA IsASeq ==
    ASSUME NEW n \in Nat, NEW S, NEW f, f = [i \in 1..n |-> f[i]], \A i \in 1..n : f[i] \in S
    PROVE  f \in Seq(S) /\ Len(f) = n
<1>1. f \in [1..n -> S]
  OBVIOUS
<1> QED
  BY <1>1

\* The byte that a match copies lies in the history.
LEMMA IndexInHistory ==
    ASSUME NEW n \in Nat, NEW offset \in Nat, offset > 0, offset <= n, NEW k \in Nat
    PROVE  n - offset + 1 + (k % offset) \in 1..n
<1>1. k % offset \in 0..(offset - 1)
  OBVIOUS
<1> QED
  BY <1>1

\* A match copies as many bytes as its length says.
LEMMA MatchLength ==
    ASSUME NEW history \in Seq(Out), NEW offset \in Nat, NEW len \in Nat,
           offset > 0, len > 0 => offset <= Len(history)
    PROVE  Match(history, offset, len) \in Seq(Out) /\ Len(Match(history, offset, len)) = len
<1>1. ASSUME NEW i \in 1..len
      PROVE  history[Len(history) - offset + 1 + ((i - 1) % offset)] \in Out
  <2>1. Len(history) \in Nat /\ offset <= Len(history) /\ i - 1 \in Nat
    OBVIOUS
  <2>2. Len(history) - offset + 1 + ((i - 1) % offset) \in 1..Len(history)
    BY <2>1, IndexInHistory, Zenon
  <2> QED
    BY <2>2
<1>2. Match(history, offset, len) \in [1..len -> Out]
  BY <1>1 DEF Match
<1> QED
  BY <1>2

-----------------------------------------------------------------------------
\* A sequence keeps the invariant, whether it is executed or refused.
LEMMA ExecuteKeepsInv ==
    ASSUME Inv, NEW ll \in Lengths, NEW ml \in Lengths, NEW of \in Offsets, Execute(ll, ml, of)
    PROVE  Inv'
<1> DEFINE pushed    == out \o TakeLiterals(ll)
           offset    == ActualOffset(of, ll, offset_hist)
           available == Len(pushed) + Reach
           error     == Refusal(offset, available, ml)
           history   == [i \in 1..Reach |-> "dictionary"] \o pushed
           copied    == Match(history, offset, ml)
<1>1. /\ ll \in Nat /\ ml \in Nat /\ of \in Nat \ {0} /\ Reach \in Nat
      /\ offset_hist \in [1..3 -> Nat] /\ begun \in [1..3 -> Nat]
      /\ Zeroes(offset_hist) <= Zeroes(begun)
      /\ literals_buffer \in Seq(Byte) /\ out \in Seq(Out)
      /\ literals_copy_counter \in 0..Len(literals_buffer)
      /\ seq_sum \in Nat /\ old_buffer_size \in Nat /\ seq_sum = Len(out) - old_buffer_size
      /\ Len(out) \in Nat /\ old_buffer_size <= Len(out)
      /\ status = "running"
  BY NumbersAssumption DEF Inv, TypeOK, OnlyDictionariesBringZeroes, CountedIsPushed, Execute, Out
<1>2. /\ literals_copy_counter + ll <= Len(literals_buffer)
      /\ offset_hist' = NewHistory(of, ll, offset_hist)
      /\ literals_copy_counter' = literals_copy_counter + ll
      /\ literals_buffer' = literals_buffer /\ old_buffer_size' = old_buffer_size
      /\ begun' = begun
      /\ error = "none" =>
            out' = pushed \o copied /\ seq_sum' = seq_sum + ml + ll /\ status' = status
      /\ error # "none" =>
            out' = pushed /\ status' = error /\ seq_sum' = seq_sum
  BY DEF Execute
<1>3. offset \in Nat
  BY <1>1, ActualOffsetIsNatural
<1>4. /\ offset_hist' \in [1..3 -> Nat]
      /\ offset # 0 => Zeroes(offset_hist') <= Zeroes(begun')
  <2>1. /\ NewHistory(of, ll, offset_hist) \in [1..3 -> Nat]
        /\ offset # 0 => Zeroes(NewHistory(of, ll, offset_hist)) <= Zeroes(offset_hist)
    BY <1>1, NewHistoryIsHistory
  <2>2. /\ Zeroes(NewHistory(of, ll, offset_hist)) \in Nat
        /\ Zeroes(offset_hist) \in Nat /\ Zeroes(begun) \in Nat
    BY <1>1, <2>1, ZeroesAreCounted
  <2>3. Zeroes(offset_hist') = Zeroes(NewHistory(of, ll, offset_hist)) /\ Zeroes(begun') = Zeroes(begun)
    BY <1>2 DEF Zeroes
  <2>4. offset_hist' \in [1..3 -> Nat]
    BY <1>2, <2>1
  <2>5. ASSUME offset # 0 PROVE Zeroes(offset_hist') <= Zeroes(begun')
    <3>1. Zeroes(NewHistory(of, ll, offset_hist)) <= Zeroes(offset_hist)
      BY <2>1, <2>5, Zenon
    <3>2. Zeroes(offset_hist) <= Zeroes(begun)
      BY <1>1, Zenon
    <3>3. Zeroes(NewHistory(of, ll, offset_hist)) <= Zeroes(begun)
      BY <2>2, <3>1, <3>2
    <3> QED
      BY <2>3, <3>3, Zenon
  <2> QED
    BY <2>4, <2>5, Zenon
<1>5. pushed \in Seq(Out) /\ Len(pushed) = Len(out) + ll
  <2>1. TakeLiterals(ll) \in Seq(Byte) /\ Len(TakeLiterals(ll)) = ll
    BY <1>1, <1>2, SMTT(30) DEF TakeLiterals
  <2>2. TakeLiterals(ll) \in Seq(Out)
    BY <2>1 DEF Out
  <2>3. /\ out \o TakeLiterals(ll) \in Seq(Out)
        /\ Len(out \o TakeLiterals(ll)) = Len(out) + Len(TakeLiterals(ll))
    BY <1>1, <2>2, Joined, Zenon
  <2> QED
    BY <2>1, <2>3
<1>6. history \in Seq(Out) /\ Len(history) = Reach + Len(pushed)
  <2>1. [i \in 1..Reach |-> "dictionary"] \in [1..Reach -> Out]
    BY DEF Out
  <2>2. [i \in 1..Reach |-> "dictionary"] \in Seq(Out)
        /\ Len([i \in 1..Reach |-> "dictionary"]) = Reach
    BY <2>1, <1>1, SMTT(30)
  <2> HIDE DEF pushed
  <2>3. /\ [i \in 1..Reach |-> "dictionary"] \o pushed \in Seq(Out)
        /\ Len([i \in 1..Reach |-> "dictionary"] \o pushed)
             = Len([i \in 1..Reach |-> "dictionary"]) + Len(pushed)
    BY <2>2, <1>5, Joined, Zenon
  <2> QED
    BY <2>2, <2>3
<1> HIDE DEF pushed, offset, history
<1>7. error \in {"none", "ZeroOffset", "NotEnoughBytesInDictionary"}
  BY DEF Refusal
<1>8. error = "none" => offset > 0 /\ (ml > 0 => offset <= Len(history))
  BY <1>1, <1>3, <1>5, <1>6 DEF Refusal
<1>9. literals_buffer' \in Seq(Byte) /\ literals_copy_counter' \in 0..Len(literals_buffer')
  BY <1>1, <1>2
<1>10. CASE error = "none"
  <2>1. copied \in Seq(Out) /\ Len(copied) = ml
    BY <1>1, <1>3, <1>6, <1>8, <1>10, MatchLength
  <2> HIDE DEF copied
  <2>2. out' \in Seq(Out) /\ Len(out') = Len(out) + ll + ml
    <3>1. out' = pushed \o copied
      BY <1>2, <1>10
    <3>2. pushed \o copied \in Seq(Out) /\ Len(pushed \o copied) = Len(pushed) + Len(copied)
      BY <1>5, <2>1, Joined, Zenon
    <3>3. Len(pushed \o copied) = Len(out) + ll + ml
      BY <1>5, <2>1, <3>2
    <3> QED
      BY <3>1, <3>2, <3>3, Zenon
  <2>3. /\ seq_sum' \in Nat /\ seq_sum' = Len(out') - old_buffer_size' /\ old_buffer_size' \in Nat
        /\ old_buffer_size' <= Len(out')
    BY <1>1, <1>2, <1>10, <2>2
  <2> QED
    BY <1>1, <1>2, <1>4, <1>8, <1>9, <1>10, <2>2, <2>3
    DEF Inv, TypeOK, OnlyDictionariesBringZeroes, CountedIsPushed, Out
<1>11. CASE error # "none"
  <2>1. /\ status' \in {"ZeroOffset", "NotEnoughBytesInDictionary"} /\ out' = pushed
        /\ seq_sum' \in Nat /\ old_buffer_size' \in Nat
    BY <1>1, <1>2, <1>7, <1>11
  <2>2. old_buffer_size' <= Len(out')
    <3>1. Len(out') = Len(out) + ll
      BY <1>5, <2>1, Zenon
    <3>2. old_buffer_size' = old_buffer_size
      BY <1>2, Zenon
    <3>3. ll \in Nat /\ old_buffer_size \in Nat /\ Len(out) \in Nat /\ old_buffer_size <= Len(out)
      BY <1>1, Zenon
    <3> QED
      BY <3>1, <3>2, <3>3
  <2> QED
    BY <1>1, <1>2, <1>4, <1>5, <1>9, <2>1, <2>2
    DEF Inv, TypeOK, OnlyDictionariesBringZeroes, CountedIsPushed, Out
<1> QED
  BY <1>10, <1>11

\* The invariant holds when a frame begins, with or without a dictionary.
LEMMA InitInv == Init => Inv
<1> SUFFICES ASSUME Init PROVE Inv
  OBVIOUS
<1>1. offset_hist \in [1..3 -> Nat] /\ begun = offset_hist
  BY HistoriesAssumption DEF Init
<1>2. Zeroes(offset_hist) \in Nat
  BY <1>1, ZeroesAreCounted
<1> QED
  BY <1>1, <1>2 DEF Init, Inv, TypeOK, OnlyDictionariesBringZeroes, CountedIsPushed

\* Nor does a dictionary forced on a frame, or a subtraction that underflows.
LEMMA ForceDictKeepsInv == Inv /\ ForceDict => Inv'
<1> SUFFICES ASSUME Inv, ForceDict PROVE Inv'
  OBVIOUS
<1>1. offset_hist' \in [1..3 -> Nat] /\ begun' = offset_hist'
  BY HistoriesAssumption DEF ForceDict
<1>2. Zeroes(offset_hist') \in Nat
  BY <1>1, ZeroesAreCounted
<1>3. OnlyDictionariesBringZeroes'
  BY <1>1, <1>2 DEF ForceDict, OnlyDictionariesBringZeroes
<1> QED
  BY <1>1, <1>3 DEF ForceDict, Inv, TypeOK, CountedIsPushed

LEMMA UnderflowKeepsInv ==
    ASSUME Inv, NEW ll \in Lengths, NEW of \in Offsets, Underflow(ll, of)
    PROVE  Inv'
<1>1. /\ offset_hist \in [1..3 -> Nat] /\ begun \in [1..3 -> Nat] /\ offset_hist[1] = 0
      /\ Zeroes(offset_hist) <= Zeroes(begun)
  BY DEF Inv, TypeOK, OnlyDictionariesBringZeroes, Underflow
<1>2. Zeroes(offset_hist) \in Nat /\ Zeroes(begun) \in Nat /\ Zeroes(offset_hist) > 0
  BY <1>1, ZeroesAreCounted
<1>3. Zeroes(begun) > 0
  BY <1>1, <1>2
<1>4. OnlyDictionariesBringZeroes'
  BY <1>3 DEF Underflow, OnlyDictionariesBringZeroes, Zeroes, One
<1> QED
  BY <1>4 DEF Underflow, Inv, TypeOK, CountedIsPushed

LEMMA NextKeepsInv == Inv /\ [Next]_vars => Inv'
<1> SUFFICES ASSUME Inv, [Next]_vars PROVE Inv'
  OBVIOUS
<1> USE DEF Inv, TypeOK, OnlyDictionariesBringZeroes, CountedIsPushed
<1>1. CASE Reset
  <2>1. offset_hist' \in [1..3 -> Nat] /\ begun' = offset_hist'
    BY <1>1, HistoriesAssumption DEF Reset
  <2>2. Zeroes(offset_hist') \in Nat
    BY <2>1, ZeroesAreCounted
  <2> QED
    BY <1>1, <2>1, <2>2 DEF Reset
<1>2. ASSUME NEW literals \in Literals, StartBlock(literals) PROVE Inv'
  BY <1>2, LiteralsAssumption DEF StartBlock, Zeroes, One
<1>3. ASSUME NEW ll \in Lengths, NotEnoughLiterals(ll) PROVE Inv'
  BY <1>3 DEF NotEnoughLiterals
<1>4. ASSUME NEW ll \in Lengths, NEW ml \in Lengths, NEW of \in Offsets, Execute(ll, ml, of)
      PROVE  Inv'
  BY <1>4, ExecuteKeepsInv
<1>5. CASE FinishBlock
  <2>1. /\ RestLiterals \in Seq(Byte)
        /\ Len(RestLiterals) = Len(literals_buffer) - literals_copy_counter
    BY DEF RestLiterals
  <2>2. out' \in Seq(Byte \cup {"dictionary"}) /\ Len(out') = Len(out) + Len(RestLiterals)
    <3>1. RestLiterals \in Seq(Byte \cup {"dictionary"})
      BY <2>1
    <3>2. out' = out \o RestLiterals
      BY <1>5 DEF FinishBlock
    <3> QED
      BY <3>1, <3>2, Joined
  <2>3. /\ literals_buffer' = literals_buffer /\ offset_hist' = offset_hist
        /\ old_buffer_size' = old_buffer_size /\ status = "running" /\ status' = "between"
        /\ literals_copy_counter' = Len(literals_buffer)
        /\ seq_sum' = seq_sum + Len(RestLiterals)
    BY <1>5 DEF FinishBlock
  <2>4. seq_sum' \in Nat /\ seq_sum' = Len(out') - old_buffer_size' /\ old_buffer_size' <= Len(out')
    <3>1. /\ seq_sum \in Nat /\ old_buffer_size \in Nat /\ Len(out) \in Nat
          /\ old_buffer_size <= Len(out) /\ seq_sum = Len(out) - old_buffer_size
      BY <2>3
    <3>2. Len(RestLiterals) \in Nat
      BY <2>1
    <3> HIDE DEF Inv, TypeOK, OnlyDictionariesBringZeroes, CountedIsPushed
    <3> QED
      BY <2>2, <2>3, <3>1, <3>2
  <2>5. begun' = begun /\ Zeroes(offset_hist') = Zeroes(offset_hist)
    BY <1>5 DEF FinishBlock, Zeroes, One
  <2>6. literals_copy_counter' \in 0..Len(literals_buffer')
    BY <2>3
  <2> QED
    BY <2>2, <2>3, <2>4, <2>5, <2>6
<1>6. CASE ForceDict
  BY <1>6, ForceDictKeepsInv
<1>7. ASSUME NEW ll \in Lengths, NEW of \in Offsets, Underflow(ll, of) PROVE Inv'
  BY <1>7, UnderflowKeepsInv
<1>8. CASE UNCHANGED vars
  BY <1>8 DEF vars, Zeroes, One
<1> QED
  BY <1>1, <1>2, <1>3, <1>4, <1>5, <1>6, <1>7, <1>8 DEF Next

LEMMA InvHolds == Spec => []Inv
  BY InitInv, NextKeepsInv, PTL DEF Spec

\* Whatever a frame holds, its sequences add no zero to the offset history
\* without one being refused: the subtraction of do_offset_history underflows
\* for no frame without a dictionary, and for no dictionary without a zero.
THEOREM ZeroesComeFromDictionaries == Spec => []OnlyDictionariesBringZeroes
<1>1. Inv => OnlyDictionariesBringZeroes
  BY DEF Inv
<1> QED
  BY InvHolds, <1>1, PTL

\* The assertion at the end of execute_sequences never fails.
THEOREM CountIsWhatWasPushed == Spec => []CountedIsPushed
<1>1. Inv => CountedIsPushed
  BY DEF Inv
<1> QED
  BY InvHolds, <1>1, PTL

\* The type invariant.
THEOREM SequenceTypes == Spec => []TypeOK
<1>1. Inv => TypeOK
  BY DEF Inv
<1> QED
  BY InvHolds, <1>1, PTL
-----------------------------------------------------------------------------
(* The history of offsets.                                                 *)

\* The match of do_offset_history on values and literals is the move to the
\* front of the format.
LEMMA NewHistoryMovesToFront ==
    ASSUME NEW h \in [1..3 -> Nat], h[1] > 0, NEW of \in Nat \ {0}, NEW ll \in Nat
    PROVE  NewHistory(of, ll, h) =
              IF of > 3 THEN <<of - 3, h[1], h[2]>>
              ELSE MoveToFront(h, IF ll = 0 THEN of + 1 ELSE of)
<1>1. of = 1 \/ of = 2 \/ of = 3 \/ of > 3
  OBVIOUS
<1>2. ll = 0 \/ ll > 0
  OBVIOUS
<1>3. CASE of > 3
  BY <1>2, <1>3 DEF NewHistory, ActualOffset
<1>4. CASE of = 1 /\ ll > 0
  BY <1>4 DEF NewHistory, ActualOffset, MoveToFront
<1>5. CASE of = 2 /\ ll > 0
  BY <1>5 DEF NewHistory, ActualOffset, MoveToFront
<1>6. CASE of = 3 /\ ll > 0
  BY <1>6 DEF NewHistory, ActualOffset, MoveToFront
<1>7. CASE of = 1 /\ ll = 0
  BY <1>7 DEF NewHistory, ActualOffset, MoveToFront
<1>8. CASE of = 2 /\ ll = 0
  BY <1>8 DEF NewHistory, ActualOffset, MoveToFront
<1>9. CASE of = 3 /\ ll = 0
  BY <1>9 DEF NewHistory, ActualOffset, MoveToFront
<1> QED
  BY <1>1, <1>2, <1>3, <1>4, <1>5, <1>6, <1>7, <1>8, <1>9

\* do_offset_history keeps the list of the three offsets last used, the last
\* one first, with the special meaning of a sequence without literals.
THEOREM HistoryMovesToFront == Spec => []HistoryIsMoveToFront
<1>1. Inv => HistoryIsMoveToFront
  <2> SUFFICES ASSUME Inv, NEW h \in Histories \cup {offset_hist}, NEW ll \in Lengths,
                      NEW of \in Offsets, h[1] > 0
               PROVE  NewHistory(of, ll, h) =
                         IF of > 3 THEN <<of - 3, h[1], h[2]>>
                         ELSE MoveToFront(h, IF ll = 0 THEN of + 1 ELSE of)
    BY Zenon DEF HistoryIsMoveToFront
  <2>1. of \in Nat \ {0} /\ ll \in Nat
    BY NumbersAssumption
  <2>2. h \in [1..3 -> Nat]
    BY HistoriesAssumption DEF Inv, TypeOK
  <2> QED
    BY <2>1, <2>2, NewHistoryMovesToFront
<1> QED
  BY InvHolds, <1>1, PTL

-----------------------------------------------------------------------------
(* The literals.                                                           *)

\* The places up to i that hold literals of the block.
Placed(i, old, m) == {j \in 1..i : j > old /\ j \notin m}

\* The literals used so far are at these places, in order.
InOrder(o, old, m, literals, count) ==
    /\ Cardinality(Placed(Len(o), old, m)) = count
    /\ \A i \in 1..Len(o) :
          i > old /\ i \notin m => o[i] = literals[Cardinality(Placed(i, old, m))]

\* The places of a block do not move when it goes on: n literals and then k
\* bytes of a match.
PlacesStay(l, old, n, k, m, w) ==
    /\ \A i \in 1..l : Placed(i, old, w) = Placed(i, old, m)
    /\ \A j \in 0..n : Cardinality(Placed(l + j, old, w)) = Cardinality(Placed(l, old, m)) + j
    /\ Placed(l + n + k, old, w) = Placed(l + n, old, w)

\* Counting them shows it.
LEMMA PlacesOfLiterals ==
    ASSUME NEW l \in Nat, NEW old \in Nat, old <= l, NEW n \in Nat, NEW k \in Nat,
           NEW m, m \subseteq 1..l, NEW w, w = m \cup (l + n + 1 .. l + n + k)
    PROVE  PlacesStay(l, old, n, k, m, w)
<1>1. ASSUME NEW i \in 1..l PROVE Placed(i, old, w) = Placed(i, old, m)
  <2>1. \A j \in 1..i : j \in w <=> j \in m
    OBVIOUS
  <2> QED
    BY <2>1 DEF Placed
<1>2. ASSUME NEW j \in 0..n
      PROVE  /\ Placed(l + j, old, w) = Placed(l, old, m) \cup (l + 1 .. l + j)
             /\ Cardinality(Placed(l + j, old, w)) = Cardinality(Placed(l, old, m)) + j
  <2>1. \A x : x \in Placed(l + j, old, w) <=> x \in Placed(l, old, m) \cup (l + 1 .. l + j)
    BY DEF Placed
  <2>2. Placed(l + j, old, w) = Placed(l, old, m) \cup (l + 1 .. l + j)
    BY <2>1
  <2>3. IsFiniteSet(1..l) /\ Placed(l, old, m) \in SUBSET (1..l)
    BY FS_Interval DEF Placed
  <2>4. IsFiniteSet(Placed(l, old, m)) /\ Cardinality(Placed(l, old, m)) \in Nat
    BY <2>3, FS_Subset, FS_CardinalityType
  <2>5. \A a, b \in Int : IsFiniteSet(a .. b) /\ Cardinality(a .. b) = IF a > b THEN 0 ELSE b - a + 1
    BY FS_Interval, Zenon
  <2>6. /\ IsFiniteSet(l + 1 .. l + j)
        /\ Cardinality(l + 1 .. l + j) = IF l + 1 > l + j THEN 0 ELSE l + j - (l + 1) + 1
    BY <2>5
  <2>7. Cardinality(l + 1 .. l + j) = j
    BY <2>6
  <2>8. Placed(l, old, m) \cap (l + 1 .. l + j) = {}
    BY DEF Placed
  <2> DEFINE s == Placed(l, old, m)
             t == l + 1 .. l + j
  <2>9. Cardinality(s \cup t) = Cardinality(s) + Cardinality(t) - Cardinality(s \cap t)
    BY <2>4, <2>6, FS_Union, Zenon
  <2>10. Cardinality(s \cap t) = 0
    BY <2>8, FS_EmptySet, Zenon
  <2> HIDE DEF s, t
  <2>11. Cardinality(s \cup t) = Cardinality(s) + j
    BY <2>4, <2>7, <2>9, <2>10 DEF s, t
  <2> QED
    BY <2>2, <2>11 DEF s, t
<1>3. Placed(l + n + k, old, w) = Placed(l + n, old, w)
  <2>1. \A x : x \in Placed(l + n + k, old, w) <=> x \in Placed(l + n, old, w)
    BY DEF Placed
  <2> QED
    BY <2>1 DEF Placed
<1> QED
  BY <1>1, <1>2, <1>3 DEF PlacesStay

\* n literals and k bytes of a match are appended.
Appended(o, o2, l, n, k, literals, count) ==
    /\ Len(o2) = l + n + k
    /\ \A i \in 1..l : o2[i] = o[i]
    /\ \A j \in 1..n : o2[l + j] = literals[count + j]

Numbers(l, old, count, n, k) ==
    l \in Nat /\ old \in Nat /\ old <= l /\ count \in Nat /\ n \in Nat /\ k \in Nat

Places(o, l, m, w, n, k) ==
    Len(o) = l /\ m \subseteq 1..l /\ w = m \cup (l + n + 1 .. l + n + k)

\* Then the literals used are still in order.
LEMMA LiteralsGoOn ==
    ASSUME NEW o, NEW o2, NEW l, NEW old, NEW m, NEW w, NEW literals, NEW count, NEW n, NEW k,
           Numbers(l, old, count, n, k), Places(o, l, m, w, n, k),
           InOrder(o, old, m, literals, count), Appended(o, o2, l, n, k, literals, count)
    PROVE  InOrder(o2, old, w, literals, count + n) /\ w \subseteq 1..Len(o2)
<1>a. Len(o) = l /\ m \subseteq 1..l /\ w = m \cup (l + n + 1 .. l + n + k)
  BY DEF Places
<1>b. l \in Nat /\ old \in Nat /\ old <= l /\ count \in Nat /\ n \in Nat /\ k \in Nat
  BY DEF Numbers
<1>1. /\ \A i \in 1..l : Placed(i, old, w) = Placed(i, old, m)
      /\ \A j \in 0..n :
            Cardinality(Placed(l + j, old, w)) = Cardinality(Placed(l, old, m)) + j
      /\ Placed(l + n + k, old, w) = Placed(l + n, old, w)
  <2>1. PlacesStay(l, old, n, k, m, w)
    BY <1>b, <1>a, PlacesOfLiterals, Zenon
  <2> QED
    BY <2>1, Zenon DEF PlacesStay
<1>2. /\ Cardinality(Placed(l, old, m)) = count
      /\ \A i \in 1..l :
            i > old /\ i \notin m => o[i] = literals[Cardinality(Placed(i, old, m))]
  BY <1>a DEF InOrder
<1>c. /\ Len(o2) = l + n + k /\ \A i \in 1..l : o2[i] = o[i]
      /\ \A j \in 1..n : o2[l + j] = literals[count + j]
  BY DEF Appended
<1>3. Cardinality(Placed(Len(o2), old, w)) = count + n
  <2>1. n \in 0..n
    BY <1>b
  <2>2. Cardinality(Placed(l + n, old, w)) = count + n
    BY <1>b, <1>1, <1>2, <2>1
  <2>3. Placed(Len(o2), old, w) = Placed(l + n, old, w)
    BY <1>b, <1>a, <1>c, <1>1
  <2> QED
    BY <2>2, <2>3
<1>4. ASSUME NEW i \in 1..Len(o2), i > old, i \notin w
      PROVE  o2[i] = literals[Cardinality(Placed(i, old, w))]
  <2>1. CASE i <= l
    <3>1. i \in 1..l /\ i \notin m
      BY <1>b, <1>a, <1>4, <2>1
    <3> QED
      BY <1>b, <1>a, <1>c, <1>1, <1>2, <1>4, <3>1
  <2>2. CASE i > l
    <3> DEFINE j == i - l
    <3>1. i <= l + n
      BY <1>b, <1>a, <1>c, <1>4, <2>2
    <3>2. j \in 1..n /\ j \in 0..n /\ i = l + j
      BY <1>b, <1>a, <1>c, <1>4, <2>2, <3>1
    <3> HIDE DEF j
    <3>3. o2[i] = literals[count + j]
      BY <1>b, <1>a, <1>c, <3>2
    <3>4. Cardinality(Placed(i, old, w)) = count + j
      BY <1>b, <1>1, <1>2, <3>2
    <3> QED
      BY <3>3, <3>4
  <2> QED
    BY <1>b, <1>a, <1>c, <1>4, <2>1, <2>2
<1>5. w \subseteq 1..Len(o2)
  <2>1. \A x \in l + n + 1 .. l + n + k : x \in 1 .. l + n + k
    BY <1>b
  <2>2. \A x \in 1..l : x \in 1 .. l + n + k
    BY <1>b
  <2> QED
    BY <1>c, <1>a, <2>1, <2>2, Zenon
<1> QED
  BY <1>3, <1>4, <1>5 DEF InOrder

\* Nothing was used yet.
LEMMA NothingPlaced ==
    ASSUME NEW o, NEW l \in Nat, Len(o) = l, NEW literals
    PROVE  InOrder(o, l, {}, literals, 0)
<1>1. Placed(l, l, {}) = {} /\ ~(\E i \in 1..l : i > l)
  BY DEF Placed
<1> QED
  BY <1>1, FS_EmptySet DEF InOrder

\* The literals, also when a sequence was refused.
LiteralsInv ==
    /\ matched \subseteq 1..Len(out)
    /\ InOrder(out, old_buffer_size, matched, literals_buffer, literals_copy_counter)
    /\ status = "between" => literals_copy_counter = Len(literals_buffer)

\* A frame begins without literals.
LEMMA InitLiterals == Init => LiteralsInv
<1>1. Init => Len(out) = 0 /\ Len(literals_buffer) = 0
  BY DEF Init
<1> QED
  BY <1>1, NothingPlaced DEF Init, LiteralsInv

\* The literals no sequence took come last.
LEMMA FinishBlockKeepsLiterals ==
    ASSUME Inv, LiteralsInv, FinishBlock
    PROVE  LiteralsInv'
<1> DEFINE l == Len(out)
           n == Len(literals_buffer) - literals_copy_counter
           rest == RestLiterals
<1>1. /\ status = "running" /\ status' = "between" /\ out' = out \o rest
      /\ matched' = matched /\ old_buffer_size' = old_buffer_size
      /\ literals_buffer' = literals_buffer /\ literals_copy_counter' = Len(literals_buffer)
  BY DEF FinishBlock
<1>2. /\ literals_buffer \in Seq(Byte) /\ out \in Seq(Out) /\ l \in Nat
      /\ literals_copy_counter \in Nat /\ literals_copy_counter <= Len(literals_buffer)
      /\ Len(literals_buffer) \in Nat /\ n \in Nat /\ literals_copy_counter + n = Len(literals_buffer)
      /\ old_buffer_size \in Nat /\ old_buffer_size <= l
  BY <1>1 DEF Inv, TypeOK, CountedIsPushed, Out
<1>3. /\ matched \subseteq 1..l
      /\ InOrder(out, old_buffer_size, matched, literals_buffer, literals_copy_counter)
  BY <1>1 DEF LiteralsInv
<1>4. rest \in Seq(Byte) /\ IsSlice(rest, literals_buffer, literals_copy_counter, n)
  <2> DEFINE c == literals_copy_counter
             r == SubSeq(literals_buffer, c + 1, c + n)
  <2>1. rest = r
    BY <1>2 DEF RestLiterals
  <2>2. c \in Nat /\ n \in Nat /\ c + n <= Len(literals_buffer)
    BY <1>2
  <2> HIDE DEF c, n
  <2>3. r \in Seq(Byte) /\ IsSlice(r, literals_buffer, c, n)
    BY <1>2, <2>2, Sliced, Zenon
  <2> QED
    BY <2>1, <2>3, Zenon DEF c
<1> HIDE DEF rest, n
<1>5. Appended(out, out', l, n, 0, literals_buffer, literals_copy_counter)
  <2>1. rest \in Seq(Out)
    BY <1>4 DEF Out
  <2>2. IsJoined(out', out, rest)
    BY <1>1, <1>2, <2>1, JoinedElements, Zenon
  <2>3. Len(rest) = n /\ \A j \in 1..n : rest[j] = literals_buffer[literals_copy_counter + j]
    BY <1>4, Zenon DEF IsSlice
  <2>4. /\ Len(out') = l + n
        /\ \A i \in 1..l : out'[i] = out[i]
        /\ \A j \in 1..n : out'[l + j] = rest[j]
    BY <2>2, <2>3, Zenon DEF IsJoined
  <2>5. Len(out') = l + n + 0
    BY <1>2, <2>4
  <2> QED
    BY <2>3, <2>4, <2>5, Zenon DEF Appended
<1>6. Len(out) = l
  OBVIOUS
<1>7. matched = matched \cup (l + n + 1 .. l + n + 0)
  BY <1>2
<1> HIDE DEF l
<1>8. /\ InOrder(out', old_buffer_size, matched, literals_buffer, literals_copy_counter + n)
      /\ matched \subseteq 1..Len(out')
  <2>1. Numbers(l, old_buffer_size, literals_copy_counter, n, 0)
    BY <1>2 DEF Numbers
  <2>2. Places(out, l, matched, matched, n, 0)
    BY <1>3, <1>6, <1>7, Zenon DEF Places
  <2> QED
    BY <1>3, <1>5, <2>1, <2>2, LiteralsGoOn, Zenon
<1> QED
  BY <1>1, <1>2, <1>8 DEF LiteralsInv

\* A sequence takes the next literals and then matches; a refused one has taken
\* them.
LEMMA ExecuteKeepsLiterals ==
    ASSUME Inv, LiteralsInv, NEW ll \in Lengths, NEW ml \in Lengths, NEW of \in Offsets,
           Execute(ll, ml, of)
    PROVE  LiteralsInv'
<1> DEFINE taken   == TakeLiterals(ll)
           pushed  == out \o taken
           offset  == ActualOffset(of, ll, offset_hist)
           error   == Refusal(offset, Len(pushed) + Reach, ml)
           history == [i \in 1..Reach |-> "dictionary"] \o pushed
           copied  == Match(history, offset, ml)
           l       == Len(out)
<1>1. /\ status = "running" /\ literals_copy_counter + ll <= Len(literals_buffer)
      /\ literals_copy_counter' = literals_copy_counter + ll
      /\ literals_buffer' = literals_buffer /\ old_buffer_size' = old_buffer_size
      /\ error = "none" =>
            /\ out' = pushed \o copied /\ status' = status
            /\ matched' = matched \cup (Len(pushed) + 1 .. Len(pushed) + ml)
      /\ error # "none" => status' = error /\ out' = pushed /\ matched' = matched
  BY DEF Execute
<1>2. /\ literals_buffer \in Seq(Byte) /\ out \in Seq(Out) /\ l \in Nat
      /\ literals_copy_counter \in Nat /\ Len(literals_buffer) \in Nat
      /\ ll \in Nat /\ ml \in Nat /\ old_buffer_size \in Nat /\ old_buffer_size <= l
  BY <1>1, NumbersAssumption, SMTT(30) DEF Inv, TypeOK, CountedIsPushed, Out
<1>3. /\ matched \subseteq 1..l
      /\ InOrder(out, old_buffer_size, matched, literals_buffer, literals_copy_counter)
  BY <1>1 DEF LiteralsInv
<1>4. taken \in Seq(Byte) /\ IsSlice(taken, literals_buffer, literals_copy_counter, ll)
  BY <1>1, <1>2, Sliced, Zenon DEF TakeLiterals
<1>5. error \in {"none", "ZeroOffset", "NotEnoughBytesInDictionary"}
  BY DEF Refusal
<1> HIDE DEF taken
<1>6. /\ pushed \in Seq(Out) /\ Len(pushed) = l + ll
      /\ \A i \in 1..l : pushed[i] = out[i]
      /\ \A j \in 1..ll : pushed[l + j] = literals_buffer[literals_copy_counter + j]
  <2>1. taken \in Seq(Out)
    BY <1>4 DEF Out
  <2>2. pushed \in Seq(Out) /\ IsJoined(pushed, out, taken)
    BY <1>2, <2>1, JoinedElements, Zenon
  <2>3. Len(taken) = ll /\ \A j \in 1..ll : taken[j] = literals_buffer[literals_copy_counter + j]
    BY <1>4, Zenon DEF IsSlice
  <2> QED
    BY <2>2, <2>3, Zenon DEF IsJoined
<1>7. CASE error # "none"
  <2>1. out' = pushed /\ matched' = matched /\ status' # "between"
    BY <1>1, <1>5, <1>7
  <2> HIDE DEF pushed, error, offset, l
  <2>2. Numbers(l, old_buffer_size, literals_copy_counter, ll, 0)
    BY <1>2 DEF Numbers
  <2>3. Len(out) = l /\ matched = matched \cup (l + ll + 1 .. l + ll + 0)
    BY <1>2 DEF l
  <2>4. Places(out, l, matched, matched, ll, 0)
    BY <1>3, <2>3, Zenon DEF Places
  <2>5. Len(pushed) = l + ll + 0
    BY <1>2, <1>6
  <2>6. Appended(out, pushed, l, ll, 0, literals_buffer, literals_copy_counter)
    BY <1>6, <2>5, Zenon DEF Appended
  <2>7. /\ InOrder(pushed, old_buffer_size, matched, literals_buffer, literals_copy_counter + ll)
        /\ matched \subseteq 1..Len(pushed)
    BY <1>3, <2>2, <2>4, <2>6, LiteralsGoOn, Zenon
  <2> QED
    BY <1>1, <2>1, <2>7 DEF LiteralsInv
<1>8. CASE error = "none"
  <2> HIDE DEF pushed, history, offset
  <2>2. copied = [i \in 1..ml |-> copied[i]]
    BY DEF Match
  <2>3. out' = pushed \o copied
    BY <1>1, <1>8
  <2> HIDE DEF copied, l, error
  <2>4. /\ Len(out') = l + ll + ml
        /\ \A i \in 1..Len(pushed) : out'[i] = pushed[i]
    <3> DEFINE S == Out \cup {copied[i] : i \in 1..ml}
    <3>1. copied \in Seq(S) /\ Len(copied) = ml
      <4>1. \A i \in 1..ml : copied[i] \in S
        OBVIOUS
      <4> HIDE DEF S
      <4> QED
        BY <1>2, <2>2, <4>1, IsASeq, Zenon
    <3>2. pushed \in Seq(S)
      BY <1>6
    <3> HIDE DEF S
    <3>3. /\ Len(out') = Len(pushed) + Len(copied)
          /\ \A i \in 1..Len(pushed) : out'[i] = pushed[i]
      <4>1. IsJoined(out', pushed, copied)
        BY <2>3, <3>1, <3>2, JoinedElements, Zenon
      <4> QED
        BY <4>1, Zenon DEF IsJoined
    <3> QED
      BY <1>2, <1>6, <3>1, <3>3
  <2>5. Appended(out, out', l, ll, ml, literals_buffer, literals_copy_counter)
    <3>1. \A j \in 1..ll : l + j \in 1..Len(pushed)
      BY <1>2, <1>6
    <3>2. \A i \in 1..l : i \in 1..Len(pushed)
      BY <1>2, <1>6
    <3> QED
      BY <1>2, <1>6, <2>4, <3>1, <3>2 DEF Appended
  <2>6. matched' = matched \cup (l + ll + 1 .. l + ll + ml)
    BY <1>1, <1>6, <1>8
  <2>7. Len(out) = l
    BY DEF l
  <2> DEFINE filled == matched \cup (l + ll + 1 .. l + ll + ml)
             grown == out'
  <2>8. matched' = filled
    BY <2>6
  <2>12. filled = matched \cup (l + ll + 1 .. l + ll + ml)
    OBVIOUS
  <2>9. Appended(out, grown, l, ll, ml, literals_buffer, literals_copy_counter)
    BY <2>5
  <2> HIDE DEF filled, grown
  <2>10. Numbers(l, old_buffer_size, literals_copy_counter, ll, ml)
    BY <1>2 DEF Numbers
  <2>11. /\ InOrder(grown, old_buffer_size, filled, literals_buffer, literals_copy_counter + ll)
         /\ filled \subseteq 1..Len(grown)
    <3>1. Places(out, l, matched, filled, ll, ml)
      BY <1>3, <2>7, <2>12, Zenon DEF Places
    <3> QED
      BY <1>3, <2>9, <2>10, <3>1, LiteralsGoOn, Zenon
  <2> QED
    BY <1>1, <1>8, <2>8, <2>11 DEF LiteralsInv, error, grown
<1> QED
  BY <1>7, <1>8

\* Every step keeps the literals in order.
LEMMA NextKeepsLiterals == Inv /\ LiteralsInv /\ [Next]_vars => LiteralsInv'
<1> SUFFICES ASSUME Inv, LiteralsInv, [Next]_vars PROVE LiteralsInv'
  OBVIOUS
<1>1. CASE Reset
  <2>1. Len(out') = 0 /\ Len(literals_buffer') = 0
    BY <1>1 DEF Reset
  <2>2. InOrder(out', 0, {}, literals_buffer', 0)
    BY <2>1, NothingPlaced
  <2> QED
    BY <1>1, <2>1, <2>2 DEF Reset, LiteralsInv
<1>2. ASSUME NEW literals \in Literals, StartBlock(literals) PROVE LiteralsInv'
  <2>1. Len(out) \in Nat
    BY DEF Inv, TypeOK
  <2>2. InOrder(out, Len(out), {}, literals, 0)
    BY <2>1, NothingPlaced
  <2> QED
    BY <1>2, <2>2 DEF StartBlock, LiteralsInv
<1>3. ASSUME NEW ll \in Lengths, NotEnoughLiterals(ll) PROVE LiteralsInv'
  BY <1>3 DEF NotEnoughLiterals, LiteralsInv
<1>4. ASSUME NEW ll \in Lengths, NEW ml \in Lengths, NEW of \in Offsets, Execute(ll, ml, of)
      PROVE  LiteralsInv'
  BY <1>4, ExecuteKeepsLiterals
<1>5. CASE FinishBlock
  BY <1>5, FinishBlockKeepsLiterals
<1>6. CASE ForceDict
  BY <1>6 DEF ForceDict, LiteralsInv
<1>7. ASSUME NEW ll \in Lengths, NEW of \in Offsets, Underflow(ll, of) PROVE LiteralsInv'
  BY <1>7 DEF Underflow, LiteralsInv
<1>8. CASE UNCHANGED vars
  BY <1>8 DEF vars, LiteralsInv
<1> QED
  BY <1>1, <1>2, <1>3, <1>4, <1>5, <1>6, <1>7, <1>8, Zenon DEF Next

\* Every literal of a block is used once and in its order, whatever lies
\* between; a block that ends has used them all.
THEOREM LiteralsStayInOrder == Spec => []LiteralsAreUsedInOrder
<1>1. Inv /\ LiteralsInv => LiteralsAreUsedInOrder
  <2> SUFFICES ASSUME LiteralsInv PROVE LiteralsAreUsedInOrder
    OBVIOUS
  <2>1. /\ InOrder(out, old_buffer_size, matched, literals_buffer, literals_copy_counter)
        /\ status = "between" => literals_copy_counter = Len(literals_buffer)
    BY DEF LiteralsInv
  <2>2. \A i : Cardinality({j \in 1..i : j > old_buffer_size /\ j \notin matched})
                 = Cardinality(Placed(i, old_buffer_size, matched))
    BY DEF Placed
  <2> QED
    BY <2>1, <2>2, Zenon DEF LiteralsAreUsedInOrder, InOrder
<1> QED
  BY InvHolds, InitLiterals, NextKeepsLiterals, <1>1, PTL DEF Spec

-----------------------------------------------------------------------------
(* Both halves                                                             *)

\* A behavior of the scratch is one of its tables and one of its sequences, so
\* all of the above holds of block decoding.
THEOREM BlocksAreOfBothHalves == BlockSpec => TablesSpec /\ Spec
<1>1. BlockInit => TablesInit /\ Init
  BY DEF BlockInit
<1>2. [BlockNext]_blockVars => [TablesNext]_tableVars /\ [Next]_vars
  BY DEF BlockNext, blockVars, tableVars, vars
<1> QED
  BY <1>1, <1>2, PTL DEF BlockSpec, TablesSpec, Spec
=============================================================================
