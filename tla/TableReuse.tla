------------------------------ MODULE TableReuse ------------------------------
(***************************************************************************)
(* What the format promises of the entropy tables of a frame: literals and *)
(* sequences are decoded with the tables that were sent last, in an        *)
(* earlier block of the frame or in its dictionary, and never with one of  *)
(* another frame.                                                          *)
(***************************************************************************)
CONSTANTS Kinds,  \* literal lengths, offsets, match lengths
          Trees, Dists, Symbols, None

VARIABLES tree,   \* the Huffman table sent last
          dist,   \* for each kind the distribution or the single symbol sent last
          used,   \* the tables of the last decoding
          alive   \* no error in this frame

reuse == <<tree, dist, used, alive>>

Start(t, d) == tree' = t /\ dist' = d /\ used' = [k \in Kinds \cup {"tree"} |-> None] /\ alive' = TRUE

Begin == \/ Start(None, [k \in Kinds |-> None])
         \/ \E t \in Trees, d \in [Kinds -> Dists] : Start(t, d)

SendAndUseTree == alive /\ \E t \in Trees :
    tree' = t /\ used' = [used EXCEPT !["tree"] = t] /\ alive' \in BOOLEAN /\ UNCHANGED dist

UseTree == alive /\ tree # None /\
    used' = [used EXCEPT !["tree"] = tree] /\ alive' \in BOOLEAN /\ UNCHANGED <<tree, dist>>

Send == alive /\ \E k \in Kinds, d \in Dists \cup Symbols :
    dist' = [dist EXCEPT ![k] = d] /\ UNCHANGED <<tree, used, alive>>

UseDists == alive /\ (\A k \in Kinds : dist[k] # None) /\
    used' = [k \in Kinds \cup {"tree"} |-> IF k \in Kinds THEN dist[k] ELSE used[k]] /\
    alive' \in BOOLEAN /\ UNCHANGED <<tree, dist>>

Fail == alive /\ alive' = FALSE /\ UNCHANGED <<tree, dist, used>>

First == /\ tree = None /\ dist = [k \in Kinds |-> None]
         /\ used = [k \in Kinds \cup {"tree"} |-> None] /\ alive = TRUE

Reuse == First /\ [][Begin \/ SendAndUseTree \/ UseTree \/ Send \/ UseDists \/ Fail]_reuse
=============================================================================
