------------------------------ MODULE MCThumbFlags ------------------------------
(***************************************************************************)
(* Every program of five different instructions, which exits and a gate,   *)
(* the end of the memory and the size of a block cut into blocks.          *)
(***************************************************************************)
EXTENDS ThumbFlags, Functions

MCInstructions ==
    [op: {"shift", "shiftreg", "adc", "tst", "store", "addpc", "bllow",
          "swi", "undefined"}, to: {0}]
        \cup {[op |-> "cond", to |-> 3], [op |-> "blhigh", to |-> 1]}

MCPrograms == {p \in [Positions -> MCInstructions] : IsInjective(p)}

MCGates == {4}
================================================================================
