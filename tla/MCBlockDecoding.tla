--------------------------- MODULE MCBlockDecoding ---------------------------
\* Two trees and two FSE tables of different sizes, one symbol, one depth and
\* one accuracy log of damaged descriptions; the offsets of a new decoder and of
\* a dictionary that begins with a zero.
EXTENDS BlockDecoding

CONSTANTS a, b, c

MCTrees     == {"t1", "t2"}
MCDists     == {"predefined", "d2"}
MCTreeBits  == [t1 |-> 5, t2 |-> 11]
MCAccLog    == [predefined |-> 6, d2 |-> 9]
MCHistories == {<<1, 4, 8>>, <<0, 1, 3>>}
MCLiterals  == {<<a, b, c>>, <<b>>, <<>>}
=============================================================================
