----------------------------- MODULE Interfaces -----------------------------
(***************************************************************************)
(* A FrameDecoder behind one of the four interfaces of the crate: its own  *)
(* operations, called in any order (FrameDecoder), io::Read                *)
(* (StreamingDecoder), slices to slices (DecodeFromTo), and whole inputs   *)
(* (DecodeAll).                                                            *)
(***************************************************************************)
EXTENDS FrameDecoder

CONSTANTS InputsOf(_),              \* what sources hold that an interface is used on
          Batch, Outputs, Capacity  \* see DecodeAll

ASSUME OutputsAssumption ==
    Batch \in Nat \ {0} /\ Capacity \in Nat /\ Outputs \subseteq 0..Capacity
\* Slices have a largest size, and they are not all empty.
ASSUME SlicesAssumption == \E m \in ReadSizes : m > 0 /\ \A n \in ReadSizes : n <= m

VARIABLES offered, vec_len,
          interface  \* the one this decoder is used through

Stream == INSTANCE StreamingDecoder
FromTo == INSTANCE DecodeFromTo
All    == INSTANCE DecodeAll

allVars == <<source, state, dicts, call, ret, collected, offered, vec_len, interface>>

InterfaceInit ==
    /\ interface \in {"direct", "read", "from_to", "all"}
    /\ FromTo!FtInit
    /\ IF interface = "all" THEN All!AllInit ELSE vec_len = Capacity
    /\ source.frames \in InputsOf(interface)

InterfaceNext ==
    /\ UNCHANGED interface
    /\ \/ interface = "direct"  /\ Next               /\ UNCHANGED <<offered, vec_len>>
       \/ interface = "read"    /\ Stream!StreamNext  /\ UNCHANGED <<offered, vec_len>>
       \/ interface = "from_to" /\ FromTo!CarefulNext /\ UNCHANGED vec_len
       \/ interface = "all"     /\ All!AllNext        /\ UNCHANGED offered
    /\ source'.frames \in InputsOf(interface)

\* The code runs when it is called, and the callers of io::Read and of slices go
\* on calling; nobody has to decode block by block or another input.  A call in
\* progress and a new one never are possible in the same state, so one condition
\* for both asks as much as one for each.
Driven ==
    /\ UNCHANGED interface
    /\ \/ interface = "direct"  /\ BlockStep          /\ UNCHANGED <<offered, vec_len>>
       \/ interface = "read"    /\ Stream!StreamNext  /\ UNCHANGED <<offered, vec_len>>
       \/ interface = "from_to" /\ FromTo!CarefulNext /\ UNCHANGED vec_len
       \/ interface = "all"     /\ All!Library        /\ UNCHANGED offered

InterfaceSpec == InterfaceInit /\ [][InterfaceNext]_allVars /\ WF_allVars(Driven)

-----------------------------------------------------------------------------
\* Between calls the caller's position and the decoder's counter agree, through
\* whichever interface and wherever slices were cut: nothing is read twice or
\* skipped.
PlaceIsKept == call = Idle => CounterIsWhatWasConsumed

\* The loops of decode_blocks, read, decode_from_to and decode_all end, although
\* blocks may be empty, the window keeps bytes back and sources end anywhere.
EveryCallReturns == (call # Idle) ~> (call = Idle)

\* io::Read: see StreamingDecoder.
MemoryIsBounded    == interface = "read" => Stream!MemoryIsBounded
ShortReadOnlyAtEnd == Stream!ShortReadOnlyAtEnd
IntactFrameIsRead  == interface = "read" => Stream!IntactFrameIsRead

\* Slices: see DecodeFromTo.
EverythingArrives == interface = "from_to" => FromTo!EverythingArrives

\* Whole inputs: see DecodeAll.
AnswerIsTrue         == All!AnswerIsTrue
IntactInputIsDecoded == All!IntactInputIsDecoded
=============================================================================
