------------------------------ MODULE MCCodecs ------------------------------
\* Codecs on the inputs where codes, formats and widths change.
EXTENDS Codecs

\* The first and the last length of every code, one kind at a time.
Ends(rows) == UNION {{rows[r][1], rows[r][2]} : r \in DOMAIN rows}
MCLiteralLengths == {1, 15} \cup Ends(LiteralLengthRows)
MCMatchLengths == {3, 4, 34} \cup (Ends(MatchLenRows) \ {65539, 131074})
MCOffsets == {4, 5} \cup UNION {{2^k - 1, 2^k} : k \in 3..18}

MCSome == {<<5, 5, 4>>, <<0, 70, 1000>>, <<20, 300, 7>>, <<0, 3, 131074>>}

MCInputs ==
    {<<<<ll, 5, 9>>>> : ll \in MCLiteralLengths} \cup {<<<<7, ml, 9>>>> : ml \in MCMatchLengths}
      \cup {<<<<7, 5, of>>>> : of \in MCOffsets}
      \cup UNION {[1..n -> MCSome] : n \in 1..3}
      \cup {[i \in 1..140 |-> <<(i * i) % 90, 3 + (i % 40), 4 + ((i * 31) % 500)>>]}

MCCounts ==
    {[counts |-> c, maxLog |-> 6] : c \in {d \in UNION {[1..n -> 0..3] : n \in 1..4} : d[Len(d)] # 0}}
      \cup {[counts |-> c, maxLog |-> 9] :
              c \in {<<0, 1, 100>>, <<200, 1, 0, 0, 7>>, <<9, 0, 0, 0, 1>>, <<1, 0, 0, 0, 0, 0, 0, 5>>,
                     [i \in 1..36 |-> ((i * 7) % 5) + 1], [i \in 1..12 |-> i * i]}}

\* LL_DIST, ML_DIST and OF_DIST.
LlDist == <<4, 3, 2, 2, 2, 2, 2, 2, 2, 2, 2, 2, 2, 1, 1, 1, 2, 2, 2, 2, 2, 2, 2, 2, 2, 3, 2, 1, 1,
            1, 1, 1, -1, -1, -1, -1>>
MlDist == <<1, 4, 3, 2, 2, 2, 2, 2, 2, 1, 1, 1, 1, 1, 1, 1, 1, 1, 1, 1, 1, 1, 1, 1, 1, 1, 1, 1, 1,
            1, 1, 1, 1, 1, 1, 1, 1, 1, 1, 1, 1, 1, 1, 1, 1, 1, -1, -1, -1, -1, -1, -1, -1>>
OfDist == <<1, 1, 1, 1, 1, 1, 2, 2, 2, 1, 1, 1, 1, 1, 1, 1, 1, 1, 1, 1, 1, 1, 1, 1, -1, -1, -1, -1, -1>>

MCDistributions == {[probs |-> LlDist, log |-> 6], [probs |-> MlDist, log |-> 6],
                    [probs |-> OfDist, log |-> 5]}

\* So many symbols, the rarest first, last, or all over with some that are not used.
MCLiterals ==
    LET sizes == 2..40 \cup {64, 65, 100, 129, 256}
    IN  {[i \in 1..n |-> i] : n \in sizes} \cup {[i \in 1..n |-> n + 1 - i] : n \in sizes}
          \cup {[i \in 1..n |-> IF i % 3 = 0 /\ i # n THEN 0 ELSE 1 + ((i * 7) % 11)] : n \in sizes}

MCNumbers == {Zeros(8)} \cup {U64(b) : b \in {<<1>>, <<255>>, <<0, 1>>, <<255, 255>>, <<0, 0, 1>>,
                                              <<7, 0, 0, 9>>, <<0, 0, 0, 0, 1>>}}

MCFrameHeaders ==
    {h \in [fcs : MCNumbers \cup {Absent}, single : BOOLEAN, checksum : BOOLEAN,
            dict : MCNumbers \cup {Absent}, window : {Absent, 0, 1, 1024, 1025, 2048, 4097, 131072, 2^27}] :
       IsSerializable(h) /\ IsReadable(h)}

MCBlockHeaders ==
    [last : BOOLEAN, type : {"raw", "rle", "compressed"},
     size : {0, 1, 31, 32, 8191, 8192, 131071, 131072, 131073, 2097151}]

MCLiteralsHeaders ==
    {h \in [type : {0, 2, 3}, regenerated : {0, 1, 5, 6, 1023, 1024, 16383, 16384, 131072},
            compressed : {0, 5, 600, 1023, 1024, 16383, 16384, 131071}] :
       IF h.type = 0 THEN h.compressed = 0 ELSE h.compressed < h.regenerated}

\* More than 1024 literals, as the compressor has them: symbols that are rarer
\* from one to the next, or every k-th one of many.
Mixed(n, symbols) ==
    [i \in 1..n |-> LET r == (i * 7) % 20
                    IN  symbols[IF r < 12 THEN 1 ELSE IF r < 17 THEN 2 ELSE IF r < 19 THEN 3 ELSE 4]]
Skewed(n, many, k) == [i \in 1..n |-> IF i % k = 0 THEN (i * i + i \div 7) % many ELSE i % 2]
AllBytes == [i \in 1..1100 |-> (i * 7) % 256]

MCSections ==
    {[literals |-> l, before |-> <<>>] :
       l \in {Skewed(n, 7, 3) : n \in 1025..1028}
             \cup {Skewed(1030, 30, 2), [i \in 1..1025 |-> IF i = 700 THEN 3 ELSE 5], AllBytes}}
      \cup {[literals |-> Mixed(1026, <<0, 1, 2, 2>>), before |-> Mixed(1100, b)] :
              b \in {<<0, 1, 2, 2>>, <<2, 1, 0, 0>>, <<3, 3, 2, 1>>, <<0, 1, 3, 3>>, <<0, 1, 2, 3>>,
                     <<4, 5, 6, 7>>}}
      \cup {[literals |-> Skewed(1025, 7, 3), before |-> [i \in 1..1025 |-> 6 - Skewed(1025, 7, 3)[i]]],
            [literals |-> AllBytes, before |-> Mixed(1100, <<0, 1, 2, 3>>)]}

MCTriples == {<<5, 3, 9>>, <<31, 16, 9>>, <<31, 16, 16>>}
MCChanges == {<<14, 14>>, <<6, 18>>, <<16, 8>>}
=============================================================================
