------------------------------- MODULE Buffers -------------------------------
(***************************************************************************)
(* The two layers of the window of decoded bytes: RingBuffer, called by    *)
(* anyone in any order its documentation allows, and DecodeBuffer, the     *)
(* caller it has.  A behavior is of one of them; what is asked of the ring *)
(* is asked of it under more calls than the decode buffer makes.           *)
(***************************************************************************)
EXTENDS DecodeBuffer, RingBuffer

VARIABLE layer  \* "ring" or "buffer"

layerVars == <<ringVars, vars, layer>>

BuffersInit ==
    /\ layer \in {"ring", "buffer"}
    /\ RingInit /\ Init
    /\ layer = "ring" => window_size = CHOOSE w \in Windows : TRUE

BuffersNext ==
    /\ UNCHANGED layer
    /\ \/ layer = "ring"   /\ RingNext /\ UNCHANGED vars
       \/ layer = "buffer" /\ Next     /\ UNCHANGED ringVars

BuffersSpec == BuffersInit /\ [][BuffersNext]_layerVars
=============================================================================
