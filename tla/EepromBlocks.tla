----------------------------- MODULE EepromBlocks -----------------------------
(***************************************************************************)
(* What an EEPROM with its save file promises the game: an array of        *)
(* blocks.  A block is written and read as a whole, a read answers with    *)
(* what was written last, and whatever becomes of the program the memory   *)
(* is that of the session or, as a whole, that of the file.                *)
(***************************************************************************)
CONSTANTS
    Blocks,   \* numbers of the blocks in use
    Data,     \* what a block may hold
    None      \* no request, no answer

VARIABLES
    blocks,   \* the contents of every block
    file,     \* the contents that have been saved
    request,  \* the block that is to be read
    answer    \* the last answer

vars == <<blocks, file, request, answer>>

Write(block, data) ==
    /\ blocks' = [blocks EXCEPT ![block] = data]
    /\ request' = None /\ answer' = None
    /\ UNCHANGED file

AskFor(block) ==
    /\ request' = block /\ answer' = None
    /\ UNCHANGED <<blocks, file>>

Read ==
    /\ request # None
    /\ answer' = blocks[request] /\ request' = None
    /\ UNCHANGED <<blocks, file>>

\* A reset, or the state of another moment.
Forget ==
    /\ request' \in Blocks \cup {None} /\ answer' = None
    /\ UNCHANGED <<blocks, file>>

Save ==
    /\ file' = blocks
    /\ UNCHANGED <<blocks, request, answer>>

\* The program ends, with or without a save, and is started again.
Restart ==
    /\ \/ file' = blocks /\ UNCHANGED blocks
       \/ blocks' = file /\ UNCHANGED file
    /\ request' = None /\ answer' = None

Init ==
    /\ blocks \in [Blocks -> Data] /\ file = blocks
    /\ request = None /\ answer = None

Next ==
    \/ \E block \in Blocks : AskFor(block) \/ \E data \in Data : Write(block, data)
    \/ Read \/ Forget \/ Save \/ Restart

Spec == Init /\ [][Next]_vars
=============================================================================
