------------------------------ MODULE MCBuffers ------------------------------
\* Rings of capacities 2, 3 and 5 in chunks of two bytes; windows of one and two
\* bytes, and a dictionary that may come in the middle of a frame.
EXTENDS Buffers

CONSTANTS a, b

MCPow2s      == {1, 2, 4, 8, 16}
MCExtensions == {<<a, b>>, <<b>>, <<a, b, b>>}
MCDicts      == {<<b, a, a>>}
MCPayloads   == {<<a, b>>, <<b>>}
=============================================================================
