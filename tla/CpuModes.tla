------------------------------ MODULE CpuModes ------------------------------
(***************************************************************************)
(* The processor modes of the interpreter (cpu.c).  The registers of the   *)
(* current mode live in reg[], those of the other modes in reg_mode[][];   *)
(* set_cpu_mode swaps them.  The mode itself is kept twice: in the low     *)
(* bits of CPSR and, decoded, in reg[CPU_MODE].  The guest changes it by   *)
(* writing CPSR, by returning from an exception (CPSR from SPSR), by SWI,  *)
(* and is interrupted; a CPSR write that unmasks a waiting interrupt takes *)
(* it at once, so that one instruction may change the mode twice.          *)
(*                                                                         *)
(* r8 stands for r8 to r12.  Return addresses are members of Values.       *)
(***************************************************************************)
CONSTANTS
    GuestPsrs, \* what the guest writes to CPSR: mode field and interrupt mask
    StoredPsrs,\* what it writes to SPSR
    Values     \* contents of registers

CpsrModes == {"user", "system", "irq", "fiq", "svc", "invalid"}

\* Registers that set_cpu_mode moves
Banked == {"r8", "sp", "lr"}

Psr == [mode: CpsrModes, mask: BOOLEAN]

ASSUME PsrsAssumption == GuestPsrs \subseteq Psr /\ StoredPsrs \subseteq Psr
ASSUME ValuesAssumption == Values # {}

VARIABLES
    cpuMode, \* reg[CPU_MODE]
    reg,     \* reg[8..14] of the current mode
    regMode, \* reg_mode
    cpsr,    \* the mode field and the interrupt mask of CPSR
    spsr     \* spsr, indexed by mode

vars == <<cpuMode, reg, regMode, cpsr, spsr>>

Modes == CpsrModes \ {"system"}

\* cpu_modes: user and system mode share their registers.  The field of undefined mode,
\* 0x1B, is one of the invalid ones: the table has that mode at 0x1C.
ModeOf(field) == IF field = "system" THEN "user" ELSE field
-----------------------------------------------------------------------------
(***************************************************************************)
(* The banks as one value: the mode, the live registers, the saved ones.   *)
(***************************************************************************)
Banks == [mode |-> cpuMode, reg |-> reg, saved |-> regMode]

\* Mutant: the registers of the old mode are not retired.
NotRetired(b, new) == b.saved

\* What set_cpu_mode retires into reg_mode...
Retire(b, new) ==
    LET moved == IF new = "fiq" THEN Banked ELSE {"sp", "lr"}
    IN [b.saved EXCEPT ![b.mode] =
           [r \in Banked |-> IF r \in moved THEN b.reg[r] ELSE @[r]]]

\* Mutant: the registers that are not banked are lost.
ReloadPair(b, saved, new) == [r \in {"sp", "lr"} |-> saved[new][r]]

\* ... and what it loads.
Reload(b, saved, new) ==
    LET moved == IF b.mode = "fiq" THEN Banked ELSE {"sp", "lr"}
    IN [r \in Banked |-> IF r \in moved THEN saved[new][r] ELSE b.reg[r]]

\* set_cpu_mode
SetCpuMode(b, new) ==
    IF b.mode = new THEN b
    ELSE LET saved == Retire(b, new)
         IN [mode |-> new, reg |-> Reload(b, saved, new), saved |-> saved]

\* The return address of an exception goes to the saved link register, even when
\* the mode it is taken into is the current one and its registers are live.
Enter(b, new, link) ==
    SetCpuMode([mode |-> b.mode, reg |-> b.reg,
                saved |-> [b.saved EXCEPT ![new]["lr"] = link]], new)

Become(b) == cpuMode' = b.mode /\ reg' = b.reg /\ regMode' = b.saved

IrqCpsr == [mode |-> "irq", mask |-> TRUE]

\* set_cpu_mode after CPSR has become psr, then check_for_interrupts.
ChangeCpsr(psr) ==
    LET b == SetCpuMode(Banks, ModeOf(psr.mode)) IN
    \/ /\ cpsr' = psr
       /\ Become(b)
       /\ UNCHANGED spsr
    \/ /\ ~psr.mask \* an interrupt is waiting
       /\ cpsr' = IrqCpsr
       /\ \E link \in Values : Become(Enter(b, "irq", link))
       /\ spsr' = [spsr EXCEPT !["irq"] = psr]
-----------------------------------------------------------------------------
\* init_cpu: in the game (system mode) or in the BIOS (supervisor mode).
Init ==
    /\ \/ cpuMode = "user" /\ cpsr = [mode |-> "system", mask |-> FALSE]
       \/ cpuMode = "svc" /\ cpsr = [mode |-> "svc", mask |-> TRUE]
    /\ \E v \in Values :
          /\ reg = [r \in Banked |-> v]
          /\ regMode = [m \in Modes |-> [r \in Banked |-> v]]
    /\ spsr = [m \in Modes |-> [mode |-> "invalid", mask |-> FALSE]]

\* An instruction with one of the registers as its destination
WriteRegister ==
    /\ \E r \in Banked, v \in Values : reg' = [reg EXCEPT ![r] = v]
    /\ UNCHANGED <<cpuMode, regMode, cpsr, spsr>>

\* arm_psr_store_cpsr with the control byte in its mask
MsrCpsr == \E psr \in GuestPsrs : ChangeCpsr(psr)

\* arm_psr_store_spsr.  The entry of an invalid mode lies outside spsr: the word written is
\* none of those kept here, or else the first one of reg_mode, the saved r8 of user mode.
\* That is used when FIQ mode is left, and its loss is left out.
MsrSpsr ==
    /\ \/ /\ cpuMode # "invalid"
          /\ \E psr \in StoredPsrs : spsr' = [spsr EXCEPT ![cpuMode] = psr]
       \/ /\ cpuMode = "invalid"
          /\ UNCHANGED spsr
    /\ UNCHANGED <<cpuMode, reg, regMode, cpsr>>

\* arm_spsr_restore; in user mode CPSR is left alone.  The entry of an invalid
\* mode lies outside spsr: what is read there may be any value the
\* guest could have written to CPSR.
SpsrRestore ==
    /\ cpuMode # "user"
    /\ IF cpuMode = "invalid"
         THEN \E psr \in GuestPsrs : ChangeCpsr(psr)
         ELSE ChangeCpsr(spsr[cpuMode])

\* Mutant: the mode field of CPSR keeps its old value.
SwiCpsrKept == cpsr

SwiCpsr == [cpsr EXCEPT !.mode = "svc"]

\* SWI: interrupts are not masked.
Swi ==
    /\ \E link \in Values : Become(Enter(Banks, "svc", link))
    /\ spsr' = [spsr EXCEPT !["svc"] = cpsr]
    /\ cpsr' = SwiCpsr

\* raise_interrupt, when the interrupt is taken
Irq ==
    /\ ~cpsr.mask
    /\ \E link \in Values : Become(Enter(Banks, "irq", link))
    /\ spsr' = [spsr EXCEPT !["irq"] = cpsr]
    /\ cpsr' = IrqCpsr

Next == WriteRegister \/ MsrCpsr \/ MsrSpsr \/ SpsrRestore \/ Swi \/ Irq

Spec == Init /\ [][Next]_vars
-----------------------------------------------------------------------------
TypeOK ==
    /\ cpuMode \in Modes
    /\ reg \in [Banked -> Values]
    /\ regMode \in [Modes -> [Banked -> Values]]
    /\ cpsr \in Psr
    /\ spsr \in [Modes -> Psr]

\* The two copies of the mode agree, through every exception and return.
ModeAgrees == cpuMode = ModeOf(cpsr.mode)

\* The live registers belong to the current mode; those of the others are saved.
BankOf(b, m) == IF m = b.mode THEN b.reg ELSE b.saved[m]

Registers == INSTANCE BankedRegisters
    WITH mode <- cpuMode,
         sp <- [m \in Modes |-> BankOf(Banks, m)["sp"]],
         lr <- [m \in Modes |-> BankOf(Banks, m)["lr"]],
         common <- reg["r8"]

\* However modes change, the guest sees one stack pointer and link register per
\* mode and one set of the other registers.  (FIQ mode is left out.)
BanksKept == Registers!Spec
=============================================================================
