---------------------------- MODULE BlockDecoding ----------------------------
(***************************************************************************)
(* What of decoding/scratch.rs lives from block to block: the entropy      *)
(* tables (EntropyTables), and the history of offsets with the buffer it   *)
(* copies from (SequenceExecution).  In block_decoder.rs the sections of a *)
(* block are read before its sequences are executed, and neither looks at  *)
(* the other's fields, so a behavior is of one half and holds the other.   *)
(***************************************************************************)
EXTENDS EntropyTables, SequenceExecution

VARIABLE half  \* of the scratch: "tables" or "sequences"

blockVars == <<tableVars, vars, half>>

BlockInit ==
    /\ half \in {"tables", "sequences"}
    /\ TablesInit
    /\ Init

BlockNext ==
    /\ UNCHANGED half
    /\ \/ half = "tables"    /\ TablesNext /\ UNCHANGED vars
       \/ half = "sequences" /\ Next       /\ UNCHANGED tableVars

BlockSpec == BlockInit /\ [][BlockNext]_blockVars
=============================================================================
