------------------------------- MODULE PsrCache -------------------------------
(***************************************************************************)
(* CPSR under the dynamic recompiler (psp/mips_stub.S).  While translated  *)
(* code runs, its flags live in four host registers and those of the word  *)
(* in memory are out of date: what reads the word must first collapse the  *)
(* registers into it, what replaces the word must extract them from it,    *)
(* and the host registers are lost whenever the frontend runs.  The        *)
(* control bits are always in memory; one of them, T, decides in which     *)
(* instruction set a block is looked up.                                   *)
(*                                                                         *)
(* A value of the flags is the set of those that are 1.  User and system   *)
(* mode are one.  Whenever an interrupt is allowed one may be waiting.     *)
(*                                                                         *)
(* The code does lose flags: in ExecuteStoreCpsr, StoreDma and UpdateGba.  *)
(* `lost' says which they are, so that all the rest is checked beside it.  *)
(***************************************************************************)
CONSTANTS
    Flags,       \* the flags, or groups of flags that instructions set together
    GuestWords,  \* what the guest writes to CPSR and SPSR
    SavedStates  \* the savestates the player has

Exceptions == {"irq", "svc"}
Contexts == Exceptions \cup {"now"}
StatusWord == [flags: SUBSET Flags, masked: BOOLEAN, thumb: BOOLEAN,
               mode: Exceptions \cup {"user", "invalid"}]

ASSUME GuestAssumption ==
    /\ GuestWords \subseteq StatusWord
    /\ SavedStates \subseteq
         [cpsr: StatusWord, spsr: [Exceptions -> StatusWord], halted: BOOLEAN]

VARIABLES
    running,   \* translated code runs, not the frontend
    halted,    \* CPU_HALT_STATE
    code,      \* the instruction set of the block that runs
    cache,     \* the host registers of the flags
    cpsrWord,  \* reg[REG_CPSR]
    spsrWords, \* spsr
    right,     \* the flags as the instructions left them: of the code that runs, and of
               \* the code that each exception interrupted (history)
    lost       \* those of them that were replaced by older ones (history)

history == <<right, lost>>
psrVars == <<running, halted, code, cache, cpsrWord, spsrWords, history>>
-----------------------------------------------------------------------------
Differing(a, b) == (a \ b) \cup (b \ a)

InstructionSet(psr) == IF psr.thumb THEN "thumb" ELSE "arm"

\* Mutant: the flags in memory are not brought up to date.
NotCollapsed == cpsrWord

\* collapse_flags
Collapsed == [cpsrWord EXCEPT !.flags = cache]

\* reg[REG_CPSR] = 0xD2
Handler == [flags |-> {}, masked |-> TRUE, thumb |-> FALSE, mode |-> "irq"]

\* An interrupt of the code whose word is psr, whose flags are r and lost ones l; the
\* handler starts without those in entry.
Interrupt(psr, r, l, entry) ==
    /\ ~psr.masked
    /\ spsrWords' = [spsrWords EXCEPT !["irq"] = psr]
    /\ cpsrWord' = Handler
    /\ right' = [right EXCEPT !["irq"] = r, !["now"] = r]
    /\ lost' = [lost EXCEPT !["irq"] = l, !["now"] = l \cup entry]

\* No interrupt: the word becomes psr, the flags r, and those in l are lost.
Continue(psr, r, l) ==
    /\ cpsrWord' = psr
    /\ right' = [right EXCEPT !["now"] = r]
    /\ lost' = [lost EXCEPT !["now"] = l]
    /\ UNCHANGED spsrWords

\* MSR of the fields that are written over those of the word old.  The guest never
\* writes T, which would change the instruction set under the code that runs.
Combined(old, new, flags, control) ==
    [flags  |-> IF flags THEN new.flags ELSE old.flags,
     masked |-> IF control THEN new.masked ELSE old.masked,
     thumb  |-> old.thumb,
     mode   |-> IF control THEN new.mode ELSE old.mode]
-----------------------------------------------------------------------------
(***************************************************************************)
(* update_gba, called with the word psr while the host registers hold      *)
(* flags.  A CPU that is halted stays in it until an interrupt is taken or *)
(* a frame completed.  A completed frame gives the host registers to the   *)
(* frontend: a handler that starts with the next frame starts from the     *)
(* word, whose flags are cleared.                                          *)
(***************************************************************************)
UpdateGba(psr, flags, halting) ==
    \E irq, completed \in BOOLEAN :
        /\ halting => irq \/ completed
        /\ \/ /\ irq
              /\ Interrupt(psr, right["now"], lost["now"],
                           IF completed THEN right["now"] ELSE {})
           \/ ~irq /\ Continue(psr, right["now"], lost["now"])
        /\ running' = ~completed
        /\ halted' = (halting /\ ~irq)
        /\ code' = IF irq THEN InstructionSet(cpsrWord') ELSE code
        /\ cache' \in IF completed THEN SUBSET Flags ELSE {flags}

\* init_cpu: in the game or in the BIOS
Started ==
    {[flags |-> {}, masked |-> FALSE, thumb |-> FALSE, mode |-> "user"],
     [flags |-> {}, masked |-> TRUE, thumb |-> FALSE, mode |-> "svc"]}

PsrInit ==
    /\ running = FALSE /\ halted = FALSE /\ code = "arm" /\ cache = {}
    /\ cpsrWord \in Started
    /\ spsrWords = [e \in Exceptions |->
                  [flags |-> {}, masked |-> FALSE, thumb |-> FALSE, mode |-> "invalid"]]
    /\ right = [c \in Contexts |-> {}]
    /\ lost = [c \in Contexts |-> {}]
-----------------------------------------------------------------------------
(***************************************************************************)
(* The frontend                                                            *)
(***************************************************************************)
Reset ==
    /\ ~running
    /\ \E psr \in Started : Continue(psr, {}, {})
    /\ halted' = FALSE
    /\ UNCHANGED <<running, code, cache>>

\* cpu_read_savestate.  FlagsKept says that the words of a savestate hold the flags.
LoadState ==
    /\ ~running
    /\ \E state \in SavedStates :
          /\ cpsrWord' = state.cpsr /\ spsrWords' = state.spsr /\ halted' = state.halted
          /\ right' = [c \in Contexts |-> IF c = "now" THEN state.cpsr.flags
                                                       ELSE state.spsr[c].flags]
    /\ lost' = [c \in Contexts |-> {}]
    /\ UNCHANGED <<running, code, cache>>

\* extract_flags
Extracted(psr) == psr.flags

\* execute_arm_translate: code, or the loop a halted CPU waits in
Resume ==
    /\ ~running
    /\ ~halted
    /\ running' = TRUE
    /\ cache' = Extracted(cpsrWord)
    /\ code' = InstructionSet(cpsrWord)
    /\ UNCHANGED <<halted, cpsrWord, spsrWords, history>>

ResumeHalted == ~running /\ halted /\ UpdateGba(cpsrWord, Extracted(cpsrWord), TRUE)
-----------------------------------------------------------------------------
(***************************************************************************)
(* Translated code                                                         *)
(***************************************************************************)
\* An instruction that sets some flags
Compute ==
    /\ running
    /\ \E set \in SUBSET Flags \ {{}} : \E ones \in SUBSET set :
          /\ cache' = (cache \ set) \cup ones
          /\ Continue(cpsrWord, (right["now"] \ set) \cup ones, lost["now"] \ set)
    /\ UNCHANGED <<running, halted, code>>

\* A branch by a register: block_lookup_address_dual
BranchExchange ==
    /\ running
    /\ \E thumb \in BOOLEAN :
          /\ Continue([cpsrWord EXCEPT !.thumb = thumb], right["now"], lost["now"])
          /\ code' = IF thumb THEN "thumb" ELSE "arm"
    /\ UNCHANGED <<running, halted, cache>>

\* mips_update_gba, at a branch that ends the cycles
Update == running /\ UpdateGba(Collapsed, cache, FALSE)

\* A store that halts the CPU: write_io_epilogue and its alert loop
StoreHalt == running /\ UpdateGba(Collapsed, cache, TRUE)

\* A store that starts a DMA whose interrupt is taken: write_io_epilogue has the handler
\* looked up, but dma_transfer has saved the word as it was in memory.
StoreDma ==
    /\ running
    /\ Interrupt(cpsrWord, right["now"],
                 lost["now"] \cup Differing(cpsrWord.flags, cache), {})
    /\ code' = InstructionSet(cpsrWord')
    /\ UNCHANGED <<running, halted, cache>>

\* execute_read_cpsr
ExecuteReadCpsr ==
    /\ running /\ code = "arm"
    /\ Continue(Collapsed, right["now"], lost["now"])
    /\ UNCHANGED <<running, halted, code, cache>>

\* execute_store_cpsr: the fields that are not written are those in memory, so that a
\* write of the control bits alone brings old flags back into the registers.
ExecuteStoreCpsr ==
    /\ running /\ code = "arm"
    /\ \E new \in GuestWords, flags, control \in BOOLEAN :
          LET psr == Combined(cpsrWord, new, flags, control)
              r == IF flags THEN psr.flags ELSE right["now"]
              l == IF flags THEN {} ELSE lost["now"] \cup Differing(cpsrWord.flags, cache)
          IN /\ cache' = Extracted(psr)
             /\ Continue(psr, r, l) \/ (control /\ Interrupt(psr, r, l, {}))
    /\ UNCHANGED <<running, halted, code>>

\* execute_store_spsr
ExecuteStoreSpsr ==
    /\ running /\ code = "arm" /\ cpsrWord.mode \in Exceptions
    /\ \E new \in GuestWords, flags, control \in BOOLEAN :
          LET m == cpsrWord.mode
              psr == [Combined(spsrWords[m], new, flags, control) EXCEPT
                         !.thumb = IF control THEN new.thumb ELSE @]
          IN /\ spsrWords' = [spsrWords EXCEPT ![m] = psr]
             /\ right' = [right EXCEPT ![m] = IF flags THEN psr.flags ELSE @]
             /\ lost' = [lost EXCEPT ![m] = IF flags THEN {} ELSE @]
    /\ UNCHANGED <<running, halted, code, cache, cpsrWord>>

\* Mutant: T stays.
SwiInSet(psr) == [psr EXCEPT !.mode = "svc"]

\* The bottom six bits: the mode and T
SwiPsr(psr) == [psr EXCEPT !.thumb = FALSE, !.mode = "svc"]

\* execute_swi
ExecuteSwi ==
    /\ running
    /\ spsrWords' = [spsrWords EXCEPT !["svc"] = Collapsed]
    /\ cpsrWord' = SwiPsr(Collapsed)
    /\ right' = [right EXCEPT !["svc"] = right["now"]]
    /\ lost' = [lost EXCEPT !["svc"] = lost["now"]]
    /\ code' = "arm"
    /\ UNCHANGED <<running, halted, cache>>

\* execute_spsr_restore.  Left out are a return without an exception and one in user mode.
ExecuteSpsrRestore ==
    /\ running /\ code = "arm" /\ cpsrWord.mode \in Exceptions
    /\ LET m == cpsrWord.mode IN
          /\ spsrWords[m].mode # "invalid"
          /\ cache' = Extracted(spsrWords[m])
          /\ \/ Continue(spsrWords[m], right[m], lost[m])
             \/ Interrupt(spsrWords[m], right[m], lost[m], {})
    /\ code' = InstructionSet(cpsrWord')
    /\ UNCHANGED <<running, halted>>

PsrNext ==
    \/ Reset \/ LoadState \/ Resume \/ ResumeHalted
    \/ Compute \/ BranchExchange \/ Update \/ StoreHalt \/ StoreDma
    \/ ExecuteReadCpsr \/ ExecuteStoreCpsr \/ ExecuteStoreSpsr
    \/ ExecuteSwi \/ ExecuteSpsrRestore

PsrSpec == PsrInit /\ [][PsrNext]_psrVars
-----------------------------------------------------------------------------
\* Wherever code is interrupted, left for the frontend and resumed, and however exceptions
\* nest, an instruction finds the flags that earlier ones left, a savestate has them, and an
\* exception returns with those of the code it interrupted; except for the flags in `lost'.
FlagsKept ==
    /\ Differing(IF running THEN cache ELSE cpsrWord.flags, right["now"]) \subseteq lost["now"]
    /\ \A e \in Exceptions : Differing(spsrWords[e].flags, right[e]) \subseteq lost[e]

\* The code that runs is of the instruction set that T says, through interrupts, system
\* calls, returns and savestates: the next lookup by T finds a block of the same kind.
SetFollows == running => code = InstructionSet(cpsrWord)
=============================================================================
