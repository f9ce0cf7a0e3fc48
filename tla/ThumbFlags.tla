------------------------------- MODULE ThumbFlags -------------------------------
(***************************************************************************)
(* The dead flag elimination of the recompiler for Thumb code: scan_block  *)
(* finds the end of a block and what each instruction does with N, Z, C    *)
(* and V, thumb_dead_flag_eliminate keeps of that what a later instruction *)
(* needs, and the MIPS emitter, the only one that reads the result for     *)
(* Thumb code, generates no other flag.                                    *)
(*                                                                         *)
(* Three descriptions of an instruction have to agree: the scanner's       *)
(* (Status), the emitter's (Generated) and the interpreter's (Written),    *)
(* which is the reference.  The values of the flags are not represented:   *)
(* right holds the flags whose cached value is the interpreter's.          *)
(*                                                                         *)
(* Addresses count halfwords.  The game's code does not change here, and a *)
(* block that is entered again is translated again: the translation caches *)
(* are in TranslationCache.                                                *)
(***************************************************************************)
EXTENDS Integers, Sequences, FiniteSets

CONSTANTS
    Programs,      \* the code the game may be: an instruction at each address
    Length,        \* where the memory ends: 0x3007FF0 or 0x203FFFF0
    MaxBlock,      \* MAX_BLOCK_SIZE
    MaxExits,      \* MAX_EXITS
    Gates          \* translation_gate_target_pc

ZN == {"N", "Z"}
Flags == {"N", "Z", "C", "V"}

\* Instructions that only compute, by what they do with the flags.
Arithmetic == {"logic", "shift", "shiftreg", "add", "sub", "adc", "sbc", "tst"}

\* Of the others: "addpc" is ADD pc, rs; "leave" an indirect branch (BX, MOV pc
\* and POP pc); "hle" the SWI that is not left to the BIOS; "bllow" and "blhigh"
\* the halves of BL; "undefined" the opcodes 0xDE00 to 0xDEFF.
Operations == Arithmetic \cup
    {"other", "store", "addpc", "leave", "cond", "b", "swi", "hle", "bllow",
     "blhigh", "undefined"}

ASSUME SizesAssumption ==
    /\ Length \in Nat \ {0} /\ MaxBlock \in Nat \ {0} /\ MaxExits \in Nat \ {0}
    /\ Gates \subseteq Nat

Positions == 0 .. Length - 1
Instructions == [op: Operations, to: Nat]
ASSUME ProgramsAssumption == Programs \subseteq [Positions -> Instructions]

\* The SWI handler of the BIOS, and an address of no memory considered here.
Bios == Length + 1

VARIABLES
    code,      \* the game's code
    phase,     \* of translate_block_thumb: "scan", "scanned", "eliminate", "run"
    start, end,  \* block_start_pc and block_end_pc
    exits,     \* block_exits: the targets
    position,  \* block_data_position
    flagData,  \* flag_data of block_data, which the next block finds there
    needed,    \* needed_mask
    pc,        \* the instruction to execute, when the block runs
    right,     \* flags whose cached value is the one the interpreter has
    spoilt     \* of the others, those that are lost for a reason given below

vars == <<code, phase, start, end, exits, position, flagData, needed, pc,
          right, spoilt>>
block == <<code, start, end, exits, position, flagData, needed>>

(***************************************************************************)
(* What the scanner takes of an instruction.                               *)
(***************************************************************************)

\* The carry of a shift by a register taken for one that is always set.
MustOfShifts(op) ==
    CASE op = "logic" -> ZN
      [] op \in {"shift", "shiftreg"} -> ZN \cup {"C"}
      [] op \in {"add", "sub", "adc", "sbc", "tst"} -> Flags
      [] OTHER -> {}

\* thumb_flag_status: the flags an instruction may set, must set and needs.
Must(op) ==
    CASE op \in {"logic", "shiftreg"} -> ZN
      [] op = "shift" -> ZN \cup {"C"}
      [] op \in {"add", "sub", "adc", "sbc", "tst"} -> Flags
      [] OTHER -> {}

Needs(op) ==
    CASE op \in {"adc", "sbc"} -> {"C"}
      [] op \in {"leave", "cond", "b", "swi", "hle", "bllow", "blhigh", "undefined"} -> Flags
      [] OTHER -> {}

Status(op) ==
    [may |-> Must(op) \cup (IF op = "shiftreg" THEN {"C"} ELSE {}),
     must |-> Must(op), needs |-> Needs(op)]

\* thumb_exit_point and thumb_opcode_unconditional_branch
ExitPoint(op) == op \in {"leave", "cond", "b", "swi", "blhigh", "undefined"}
Unconditional(op) == op \in {"leave", "b", "swi", "blhigh"}

\* Whether last_opcode makes the high half of a BL a direct branch, when the
\* block is scanned and when it is translated: the first instruction of the
\* block then finds the last one there, which the scan left in opcode.
PairScanned(p) == p > start /\ code[p - 1].op = "bllow"
PairTranslated(p) == code[IF p > start THEN p - 1 ELSE end - 1].op = "bllow"

\* Every high half of a BL taken for a direct branch.
RecordedHigh(p) ==
    CASE code[p].op \in {"cond", "b", "undefined", "blhigh"} -> <<code[p].to>>
      [] code[p].op = "swi" -> <<Bios>>
      [] OTHER -> <<>>

\* thumb_branch_target, and the target a SWI gets: an exit is recorded, or none.
Recorded(p) ==
    CASE code[p].op \in {"cond", "b", "undefined"} -> <<code[p].to>>
      [] code[p].op = "blhigh" /\ PairScanned(p) -> <<code[p].to>>
      [] code[p].op = "swi" -> <<Bios>>
      [] OTHER -> <<>>

(***************************************************************************)
(* What the interpreter and the emitter do.                                *)
(***************************************************************************)

\* The flags the interpreter's instruction sets, which for a shift by a
\* register depends on the register.
Written(op) ==
    CASE op \in {"logic", "tst"} -> {ZN}
      [] op = "shift" -> {ZN \cup {"C"}}
      [] op = "shiftreg" -> {ZN, ZN \cup {"C"}}
      [] op \in {"add", "sub", "adc", "sbc"} -> {Flags}
      [] OTHER -> {{}}

\* The flags the next instructions need from this one.
Read(op) ==
    CASE op \in {"adc", "sbc"} -> {"C"}
      [] op \in {"leave", "cond", "b", "swi", "blhigh"} -> Flags
      [] OTHER -> {}

\* The flags the emitted code sets, of those the interpreter's sets: overflow
\* of a subtraction takes the sign, which is left in N.
Generated(op, written, flagStatus) ==
    (written \cap flagStatus) \cup
        (IF op \in {"sub", "sbc"} /\ "V" \in flagStatus THEN {"N"} ELSE {})

\* The instructions for which a recorded exit is consumed.
EmitsExit(p) ==
    \/ code[p].op \in {"cond", "b", "swi"}
    \/ code[p].op = "blhigh" /\ PairTranslated(p)

\* The exit the branch at p is linked to: the next one that was not consumed.
Link(p) == exits[1 + Cardinality({q \in start .. p - 1 : EmitsExit(q)})]

(***************************************************************************)
(* Translation                                                             *)
(***************************************************************************)

\* translate_block_thumb is called for the code at p.
Begin(p) ==
    /\ phase' = "scan"
    /\ start' = p /\ end' = p /\ pc' = p
    /\ exits' = <<>> /\ position' = 0
    /\ UNCHANGED <<code, flagData, needed>>

\* The code outside of the memory comes back anywhere.
Enter(p) == \E q \in Positions : (p \in Positions => q = p) /\ Begin(q)

Init ==
    /\ code \in Programs
    /\ phase = "scan"
    /\ start \in Positions /\ end = start /\ pc = start
    /\ exits = <<>> /\ position = 0
    /\ flagData = [p \in 0 .. MaxBlock - 1 |-> [may |-> {}, must |-> {}, needs |-> {}]]
    /\ needed = {}
    /\ right = Flags /\ spoilt = {}

\* An iteration of scan_block.  An unconditional exit ends the block unless an
\* earlier one, other than the last recorded, goes to what follows it.  A block
\* that ends at an exit or at a gate leaves position at its last instruction.
ScanInstruction ==
    LET found == exits \o Recorded(end)
        joined == \E i \in 1 .. Len(found) - 1 : found[i] = end + 1
        stops == /\ ExitPoint(code[end].op)
                 /\ (Unconditional(code[end].op) /\ ~joined) \/ Len(found) = MaxExits
        gate == end + 1 \in Gates
        full == position + 1 = MaxBlock \/ end + 1 = Length
    IN
    /\ phase = "scan"
    /\ end' = end + 1
    /\ exits' = found
    /\ flagData' = [flagData EXCEPT ![position] = Status(code[end].op)]
    /\ phase' = IF stops \/ gate \/ full THEN "scanned" ELSE "scan"
    /\ position' = IF stops \/ gate THEN position ELSE position + 1
    /\ UNCHANGED <<code, start, needed, pc, right, spoilt>>

\* thumb_dead_flag_eliminate starts.  In a full block it reads one entry too
\* far: what an earlier block left there, or what follows block_data.
StartElimination ==
    /\ phase = "scanned"
    /\ needed' \in IF position \in DOMAIN flagData
                      THEN {flagData[position].needs} ELSE SUBSET Flags
    /\ position' = position - 1
    /\ phase' = "eliminate"
    /\ UNCHANGED <<code, start, end, exits, flagData, pc, right, spoilt>>

\* An iteration of its loop.  The last instruction has kept all its flags,
\* unless the block is full.
Eliminate ==
    /\ phase = "eliminate" /\ position >= 0
    /\ LET status == flagData[position] IN
       /\ flagData' = [flagData EXCEPT ![position] =
                          [may |-> status.may \cap needed, must |-> {}, needs |-> {}]]
       /\ needed' = (needed \ status.must) \cup status.needs
    /\ position' = position - 1
    /\ UNCHANGED <<code, phase, start, end, exits, pc, right, spoilt>>

Run ==
    /\ phase = "eliminate" /\ position = -1
    /\ phase' = "run"
    /\ UNCHANGED <<block, pc, right, spoilt>>

(***************************************************************************)
(* Execution of the block.  Flags are spoilt, which is a defect, when      *)
(*   - TST, which the scanner believes to set all of them, leaves C and V, *)
(*     which were not generated because of that;                           *)
(*   - ADD pc, which leaves the block, is passed: the scanner does not     *)
(*     know that it does;                                                  *)
(*   - the block ends at a gate, or because it is full.                    *)
(***************************************************************************)
Running == phase = "run" /\ pc < end
Op == code[pc].op

\* Neither an exit nor a gate: what follows in the cache is executed.
Open == end \notin Gates /\ ~ExitPoint(code[end - 1].op)

Spoil(flags) == spoilt' = spoilt \cup (flags \ right)

Compute ==
    /\ Running /\ Op \in Arithmetic
    /\ \E written \in Written(Op) :
          LET generated == Generated(Op, written, flagData[pc - start].may)
              kept == IF Op = "tst" THEN spoilt \cup ({"C", "V"} \ right) ELSE spoilt
          IN /\ right' = (right \ written) \cup generated
             /\ spoilt' = kept \ generated
    /\ pc' = pc + 1
    /\ UNCHANGED <<block, phase>>

\* Loads, moves, Div, the low half of a BL, and what no code is generated for.
Pass ==
    /\ Running /\ Op \in {"other", "hle", "bllow", "undefined"}
    /\ pc' = pc + 1
    /\ UNCHANGED <<block, phase, right, spoilt>>

\* A store may raise an alert: the game goes on later, in a block that starts
\* behind the store, with the flags that were cached.
Store ==
    /\ Running /\ Op = "store"
    /\ \/ pc' = pc + 1 /\ UNCHANGED <<block, phase, right, spoilt>>
       \/ /\ Enter(pc + 1)
          /\ IF pc + 1 = end \/ Open THEN Spoil(Flags) ELSE UNCHANGED spoilt
          /\ UNCHANGED right

\* A direct branch goes to where it was linked to, in the block or out of it.
Branch ==
    /\ Running /\ EmitsExit(pc)
    /\ IF Link(pc) \in start .. end - 1
          THEN pc' = Link(pc) /\ UNCHANGED <<block, phase>>
          ELSE Enter(Link(pc))
    /\ UNCHANGED <<right, spoilt>>

NotTaken ==
    /\ Running /\ Op = "cond"
    /\ pc' = pc + 1
    /\ UNCHANGED <<block, phase, right, spoilt>>

\* mips_indirect_branch: BX, MOV pc, POP pc, a high half alone, and ADD pc.
Leave ==
    /\ Running
    /\ Op \in {"leave", "addpc"} \/ (Op = "blhigh" /\ ~EmitsExit(pc))
    /\ \E p \in Positions : Begin(p)
    /\ Spoil(IF Op = "addpc" THEN Flags ELSE {})
    /\ UNCHANGED right

\* The end of a block without an exit: generate_translation_gate, or none.
EndOfBlock ==
    /\ phase = "run" /\ pc = end
    /\ IF end \in Gates THEN Enter(end) ELSE \E p \in Positions : Begin(p)
    /\ Spoil(Flags)
    /\ UNCHANGED right

Next ==
    \/ ScanInstruction \/ StartElimination \/ Eliminate \/ Run
    \/ Compute \/ Pass \/ Store \/ Branch \/ NotTaken \/ Leave \/ EndOfBlock

Spec == Init /\ [][Next]_vars

(***************************************************************************)
(* Properties                                                              *)
(***************************************************************************)
FlagData == [may: SUBSET Flags, must: SUBSET Flags, needs: SUBSET Flags]

TypeOK ==
    /\ code \in Programs
    /\ phase \in {"scan", "scanned", "eliminate", "run"}
    /\ start \in Positions /\ end \in start .. Length /\ pc \in start .. end
    /\ exits \in Seq(Nat)
    /\ position \in -1 .. MaxBlock
    /\ flagData \in [0 .. MaxBlock - 1 -> FlagData]
    /\ needed \subseteq Flags /\ right \subseteq Flags /\ spoilt \subseteq Flags

\* No code reads a flag the recompiler did not generate: whatever the block, the
\* jumps in it and the interrupts that leave it in the middle, an instruction
\* finds the flags it reads as the interpreter has them, except those spoilt.
FlagsRight == Running => Read(Op) \subseteq right \cup spoilt

\* The exits are recorded by the scan and consumed by the translation, each by
\* its own list of instructions: every branch is linked to its own target,
\* unless an undefined opcode before it in the block has recorded an exit that
\* no branch consumes.
LinksRight ==
    phase = "run" =>
        \A p \in start .. end - 1 :
            EmitsExit(p) =>
                \/ Link(p) = IF code[p].op = "swi" THEN Bios ELSE code[p].to
                \/ \E q \in start .. p - 1 : code[q].op = "undefined"
================================================================================
