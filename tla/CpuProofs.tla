------------------------------- MODULE CpuProofs -------------------------------
(***************************************************************************)
(* Proofs about the CPU's modes and status words.  In the interpreter      *)
(* (CpuModes) the two copies of the mode agree, and as long as the guest   *)
(* never selects FIQ mode, swapping registers in and out of reg_mode       *)
(* implements one bank for each mode.  Under the recompiler (PsrCache) no  *)
(* flag is lost between the host registers and the words in memory, and    *)
(* the code that runs is of the instruction set T says.                    *)
(***************************************************************************)
EXTENDS CpuModes, PsrCache, TLAPS

BankState == [mode: Modes, reg: [Banked -> Values], saved: [Modes -> [Banked -> Values]]]

LEMMA SetCpuModeType ==
    ASSUME NEW b \in BankState, NEW new \in Modes
    PROVE  SetCpuMode(b, new) \in BankState /\ SetCpuMode(b, new).mode = new
<1>1. CASE b.mode = new
  BY <1>1 DEF SetCpuMode
<1>2. CASE b.mode # new
  <2>1. Retire(b, new) \in [Modes -> [Banked -> Values]]
    BY DEF Retire, BankState
  <2>2. Reload(b, Retire(b, new), new) \in [Banked -> Values]
    BY <2>1 DEF Reload, BankState
  <2> QED
    BY <1>2, <2>1, <2>2 DEF SetCpuMode, BankState
<1> QED
  BY <1>1, <1>2

LEMMA EnterType ==
    ASSUME NEW b \in BankState, NEW new \in Modes, NEW link \in Values
    PROVE  Enter(b, new, link) \in BankState /\ Enter(b, new, link).mode = new
<1>1. "lr" \in Banked
  BY DEF Banked
<1>2. [mode |-> b.mode, reg |-> b.reg,
       saved |-> [b.saved EXCEPT ![new]["lr"] = link]] \in BankState
  BY <1>1 DEF BankState
<1> QED
  BY <1>2, SetCpuModeType DEF Enter

LEMMA FieldsAreModes == ASSUME NEW field \in CpsrModes PROVE ModeOf(field) \in Modes
BY DEF ModeOf, CpsrModes, Modes

LEMMA Names ==
    /\ {"user", "system", "irq", "svc", "invalid"} \subseteq CpsrModes
    /\ {"user", "irq", "svc", "invalid"} \subseteq Modes
    /\ \A field \in {"user", "irq", "svc", "invalid"} : ModeOf(field) = field
    /\ ModeOf("system") = "user"
BY DEF CpsrModes, Modes, ModeOf

ModesOK == TypeOK /\ ModeAgrees

\* A value that the registers may take makes them well typed.
LEMMA BecomeType ==
    ASSUME NEW b \in BankState, Become(b)
    PROVE  /\ cpuMode' \in Modes /\ cpuMode' = b.mode
           /\ reg' \in [Banked -> Values]
           /\ regMode' \in [Modes -> [Banked -> Values]]
BY DEF Become, BankState

LEMMA BanksType == ASSUME TypeOK PROVE Banks \in BankState /\ Banks.mode = cpuMode
BY DEF TypeOK, Banks, BankState

LEMMA ChangeCpsrKeeps ==
    ASSUME TypeOK, NEW psr \in Psr, ChangeCpsr(psr)
    PROVE  ModesOK'
<1> DEFINE b == SetCpuMode(Banks, ModeOf(psr.mode))
<1>1. psr.mode \in CpsrModes /\ ModeOf(psr.mode) \in Modes
  BY FieldsAreModes DEF Psr
<1>2. b \in BankState /\ b.mode = ModeOf(psr.mode)
  BY <1>1, BanksType, SetCpuModeType
<1>3. CASE cpsr' = psr /\ Become(b) /\ UNCHANGED spsr
  BY <1>2, <1>3, BecomeType DEF ModesOK, ModeAgrees, TypeOK
<1>4. CASE /\ cpsr' = IrqCpsr
           /\ \E link \in Values : Become(Enter(b, "irq", link))
           /\ spsr' = [spsr EXCEPT !["irq"] = psr]
  <2>1. PICK link \in Values : Become(Enter(b, "irq", link))
    BY <1>4
  <2>2. Enter(b, "irq", link) \in BankState /\ Enter(b, "irq", link).mode = "irq"
    BY <1>2, EnterType, Names
  <2>3. /\ cpuMode' = "irq"
        /\ reg' \in [Banked -> Values]
        /\ regMode' \in [Modes -> [Banked -> Values]]
    BY <2>1, <2>2, BecomeType
  <2>4. cpsr' \in Psr /\ cpuMode' = ModeOf(cpsr'.mode)
    BY <1>4, <2>3, Names DEF IrqCpsr, Psr
  <2> QED
    BY <1>4, <2>3, <2>4, Names DEF ModesOK, ModeAgrees, TypeOK
<1> QED
  BY <1>3, <1>4 DEF ChangeCpsr
-----------------------------------------------------------------------------
\* Every variable stays in its range and the mode in CPSR is the mode in
\* reg[CPU_MODE], FIQ mode included.
THEOREM ModesAgree == Spec => []ModesOK
<1>1. Init => ModesOK
  <2> SUFFICES ASSUME Init PROVE ModesOK
    OBVIOUS
  <2>1. PICK v \in Values : /\ reg = [r \in Banked |-> v]
                            /\ regMode = [m \in Modes |-> [r \in Banked |-> v]]
    BY DEF Init
  <2>2. reg \in [Banked -> Values] /\ regMode \in [Modes -> [Banked -> Values]]
    BY <2>1
  <2>3. spsr \in [Modes -> Psr]
    BY Names DEF Init, Psr
  <2>4. cpsr \in Psr /\ cpuMode \in Modes /\ cpuMode = ModeOf(cpsr.mode)
    <3>1. CASE cpuMode = "user" /\ cpsr = [mode |-> "system", mask |-> FALSE]
      BY <3>1, Names DEF Psr
    <3>2. CASE cpuMode = "svc" /\ cpsr = [mode |-> "svc", mask |-> TRUE]
      BY <3>2, Names DEF Psr
    <3> QED
      BY <3>1, <3>2 DEF Init
  <2> QED
    BY <2>2, <2>3, <2>4 DEF ModesOK, TypeOK, ModeAgrees
<1>2. ModesOK /\ [Next]_vars => ModesOK'
  <2> SUFFICES ASSUME TypeOK, ModeAgrees, [Next]_vars PROVE ModesOK'
    BY DEF ModesOK
  <2>1. CASE WriteRegister
    <3>1. PICK r \in Banked, v \in Values : reg' = [reg EXCEPT ![r] = v]
      BY <2>1 DEF WriteRegister
    <3> QED
      BY <2>1, <3>1 DEF WriteRegister, ModesOK, TypeOK, ModeAgrees
  <2>2. ASSUME NEW psr \in GuestPsrs, ChangeCpsr(psr)
        PROVE  ModesOK'
    BY <2>2, PsrsAssumption, ChangeCpsrKeeps
  <2>3. CASE MsrSpsr
    <3>1. CASE cpuMode # "invalid"
      BY <2>3, <3>1, PsrsAssumption DEF MsrSpsr, ModesOK, TypeOK, ModeAgrees
    <3>2. CASE cpuMode = "invalid"
      BY <2>3, <3>2 DEF MsrSpsr, ModesOK, TypeOK, ModeAgrees
    <3> QED
      BY <3>1, <3>2
  <2>4. CASE SpsrRestore
    <3>1. CASE cpuMode = "invalid"
      BY <2>2, <2>4, <3>1 DEF SpsrRestore
    <3>2. CASE cpuMode # "invalid"
      BY <2>4, <3>2, ChangeCpsrKeeps DEF SpsrRestore, TypeOK
    <3> QED
      BY <3>1, <3>2
  <2>5. CASE Swi
    <3>1. PICK link \in Values : Become(Enter(Banks, "svc", link))
      BY <2>5 DEF Swi
    <3>2. /\ cpuMode' = "svc"
          /\ reg' \in [Banked -> Values]
          /\ regMode' \in [Modes -> [Banked -> Values]]
      <4>1. /\ Enter(Banks, "svc", link) \in BankState
            /\ Enter(Banks, "svc", link).mode = "svc"
        BY BanksType, EnterType, Names
      <4> QED
        BY <3>1, <4>1, BecomeType
    <3>3. cpsr' \in Psr /\ cpsr'.mode = "svc"
      BY <2>5, Names DEF Swi, SwiCpsr, TypeOK, Psr
    <3> QED
      BY <2>5, <3>2, <3>3, Names DEF Swi, ModesOK, TypeOK, ModeAgrees
  <2>6. CASE Irq
    <3>1. PICK link \in Values : Become(Enter(Banks, "irq", link))
      BY <2>6 DEF Irq
    <3>2. /\ cpuMode' = "irq"
          /\ reg' \in [Banked -> Values]
          /\ regMode' \in [Modes -> [Banked -> Values]]
      <4>1. /\ Enter(Banks, "irq", link) \in BankState
            /\ Enter(Banks, "irq", link).mode = "irq"
        BY BanksType, EnterType, Names
      <4> QED
        BY <3>1, <4>1, BecomeType
    <3>3. cpsr' \in Psr /\ cpsr'.mode = "irq"
      BY <2>6, Names DEF Irq, IrqCpsr, Psr
    <3> QED
      BY <2>6, <3>2, <3>3, Names DEF Irq, ModesOK, TypeOK, ModeAgrees
  <2>7. CASE UNCHANGED vars
    BY <2>7 DEF vars, ModesOK, TypeOK, ModeAgrees
  <2> QED
    BY <2>1, <2>2, <2>3, <2>4, <2>5, <2>6, <2>7 DEF Next, MsrCpsr
<1> QED
  BY <1>1, <1>2, PTL DEF Spec

\* As properties of the specification by themselves.
THEOREM TypeCorrect == Spec => []TypeOK
BY ModesAgree, PTL DEF ModesOK

THEOREM OneMode == Spec => []ModeAgrees
BY ModesAgree, PTL DEF ModesOK
-----------------------------------------------------------------------------
(***************************************************************************)
(* Without FIQ mode: set_cpu_mode changes no bank, and an exception only   *)
(* the link register of another mode.                                      *)
(***************************************************************************)
NoFiqGuest == \A psr \in GuestPsrs \cup StoredPsrs : psr.mode # "fiq"

LEMMA SetCpuModeKeepsBanks ==
    ASSUME NEW b \in BankState, NEW new \in Modes, b.mode # "fiq", new # "fiq",
           NEW m \in Modes
    PROVE  /\ \A r \in {"sp", "lr"} :
                 BankOf(SetCpuMode(b, new), m)[r] = BankOf(b, m)[r]
           /\ SetCpuMode(b, new).reg["r8"] = b.reg["r8"]
<1>1. CASE b.mode = new
  BY <1>1 DEF SetCpuMode
<1>2. CASE b.mode # new
  <2> DEFINE saved == Retire(b, new)
  <2>1. /\ {"sp", "lr", "r8"} \subseteq Banked
        /\ b.mode \in Modes /\ b.saved \in [Modes -> [Banked -> Values]]
    BY DEF Banked, BankState
  <2>2. /\ \A r \in {"sp", "lr"} : saved[b.mode][r] = b.reg[r]
        /\ \A n \in Modes \ {b.mode} : saved[n] = b.saved[n]
    BY <2>1 DEF Retire
  <2>3. /\ \A r \in {"sp", "lr"} : Reload(b, saved, new)[r] = saved[new][r]
        /\ Reload(b, saved, new)["r8"] = b.reg["r8"]
    BY <2>1 DEF Reload
  <2>4. SetCpuMode(b, new) =
           [mode |-> new, reg |-> Reload(b, saved, new), saved |-> saved]
    BY <1>2 DEF SetCpuMode
  <2> HIDE DEF saved
  <2> QED
    BY <1>2, <2>2, <2>3, <2>4 DEF BankOf
<1> QED
  BY <1>1, <1>2

LEMMA EnterBanks ==
    ASSUME NEW b \in BankState, NEW new \in Modes, b.mode # "fiq", new # "fiq",
           NEW link \in Values, NEW m \in Modes
    PROVE  /\ BankOf(Enter(b, new, link), m)["sp"] = BankOf(b, m)["sp"]
           /\ BankOf(Enter(b, new, link), m)["lr"] =
                 IF m = new /\ new # b.mode THEN link ELSE BankOf(b, m)["lr"]
           /\ Enter(b, new, link).reg["r8"] = b.reg["r8"]
<1> DEFINE c == [mode |-> b.mode, reg |-> b.reg,
                 saved |-> [b.saved EXCEPT ![new]["lr"] = link]]
<1>1. "lr" \in Banked /\ "sp" \in Banked
  BY DEF Banked
<1>2. c \in BankState /\ c.mode = b.mode /\ c.reg = b.reg
  BY <1>1 DEF BankState
<1>3. /\ c.saved[new]["lr"] = link /\ c.saved[new]["sp"] = b.saved[new]["sp"]
      /\ \A n \in Modes \ {new} : c.saved[n] = b.saved[n]
  BY <1>1 DEF BankState
<1>4. /\ BankOf(c, m)["sp"] = BankOf(b, m)["sp"]
      /\ BankOf(c, m)["lr"] =
            IF m = new /\ new # b.mode THEN link ELSE BankOf(b, m)["lr"]
  <2> HIDE DEF c
  <2> QED
    BY <1>2, <1>3 DEF BankOf
<1>5. Enter(b, new, link) = SetCpuMode(c, new)
  BY DEF Enter
<1> HIDE DEF c
<1> QED
  BY <1>2, <1>4, <1>5, SetCpuModeKeepsBanks

\* No mode is FIQ mode, and none is waiting in an SPSR to be restored.
NoFiq == /\ cpuMode # "fiq" /\ cpsr.mode # "fiq"
         /\ \A m \in Modes : spsr[m].mode # "fiq"

Sp == [m \in Modes |-> BankOf(Banks, m)["sp"]]
Lr == [m \in Modes |-> BankOf(Banks, m)["lr"]]

\* Banks that a switch of modes, but nothing else, may have come between.
SameBanks(b) ==
    /\ b \in BankState /\ b.mode # "fiq"
    /\ \A m \in Modes : \A r \in {"sp", "lr"} : BankOf(b, m)[r] = BankOf(Banks, m)[r]
    /\ b.reg["r8"] = reg["r8"]

LEMMA SwitchedBanks ==
    ASSUME TypeOK, NoFiq, NEW new \in Modes, new # "fiq"
    PROVE  SameBanks(Banks) /\ SameBanks(SetCpuMode(Banks, new))
<1>1. Banks \in BankState /\ Banks.mode # "fiq" /\ Banks.reg = reg
  BY BanksType DEF NoFiq, Banks
<1>2. SetCpuMode(Banks, new) \in BankState /\ SetCpuMode(Banks, new).mode = new
  BY <1>1, SetCpuModeType
<1> QED
  BY <1>1, <1>2, SetCpuModeKeepsBanks, Names DEF SameBanks

LEMMA BecomeBanks ==
    ASSUME NEW b \in BankState, Become(b)
    PROVE  Banks' = b
BY DEF Become, Banks, BankState

LEMMA SwitchSteps ==
    ASSUME NEW b, SameBanks(b), Become(b)
    PROVE  Registers!Switch
<1>1. b \in BankState /\ Banks' = b
  BY BecomeBanks DEF SameBanks
<1>2. Sp' = Sp /\ Lr' = Lr
  BY <1>1 DEF SameBanks, Sp, Lr
<1>3. reg'["r8"] = reg["r8"] /\ cpuMode' \in Modes
  BY <1>1 DEF SameBanks, Become, BankState
<1> QED
  BY <1>2, <1>3 DEF Registers!Switch, Sp, Lr

LEMMA EnterSteps ==
    ASSUME NEW b, SameBanks(b), NEW new \in Modes, new # "fiq",
           NEW link \in Values, Become(Enter(b, new, link))
    PROVE  Registers!Switch \/ Registers!Exception \/ Registers!WriteLr
<1>1. Enter(b, new, link) \in BankState /\ Enter(b, new, link).mode = new
  BY EnterType DEF SameBanks
<1>2. Banks' = Enter(b, new, link) /\ cpuMode' = new /\ reg' = Enter(b, new, link).reg
  BY <1>1, BecomeBanks DEF Become
<1>3. reg'["r8"] = reg["r8"]
  BY <1>2, EnterBanks DEF SameBanks
<1>4. Sp' = Sp
  BY <1>2, EnterBanks DEF SameBanks, Sp
<1>5. CASE new = b.mode
  <2>1. Lr' = Lr
    BY <1>2, <1>5, EnterBanks DEF SameBanks, Lr
  <2> QED
    BY <1>2, <1>3, <1>4, <2>1 DEF Registers!Switch, Sp, Lr
<1>6. CASE new # b.mode
  <2>1. Lr' = [Lr EXCEPT ![new] = link]
    BY <1>2, <1>6, EnterBanks, ZenonT(40) DEF SameBanks, Lr
  <2>2. CASE new = cpuMode
    BY <1>2, <1>3, <1>4, <2>1, <2>2 DEF Registers!WriteLr, Sp, Lr
  <2>3. CASE new # cpuMode
    BY <1>2, <1>3, <1>4, <2>1, <2>3 DEF Registers!Exception, Sp, Lr
  <2> QED
    BY <2>2, <2>3
<1> QED
  BY <1>5, <1>6

LEMMA ChangeCpsrSteps ==
    ASSUME TypeOK, NoFiq, NEW psr \in Psr, psr.mode # "fiq", ChangeCpsr(psr)
    PROVE  Registers!Next /\ NoFiq'
<1> DEFINE b == SetCpuMode(Banks, ModeOf(psr.mode))
<1>1. psr.mode \in CpsrModes /\ ModeOf(psr.mode) \in Modes /\ ModeOf(psr.mode) # "fiq"
  BY FieldsAreModes DEF Psr, ModeOf
<1>2. SameBanks(b) /\ b.mode = ModeOf(psr.mode)
  BY <1>1, SwitchedBanks, BanksType, SetCpuModeType
<1>3. CASE cpsr' = psr /\ Become(b) /\ UNCHANGED spsr
  <2>1. Registers!Switch
    BY <1>2, <1>3, SwitchSteps
  <2>2. cpuMode' # "fiq"
    BY <1>1, <1>2, <1>3 DEF Become
  <2> QED
    BY <1>3, <2>1, <2>2 DEF Registers!Next, NoFiq
<1>4. CASE /\ cpsr' = IrqCpsr
           /\ \E link \in Values : Become(Enter(b, "irq", link))
           /\ spsr' = [spsr EXCEPT !["irq"] = psr]
  <2> HIDE DEF b
  <2>1. PICK link \in Values : Become(Enter(b, "irq", link))
    BY <1>4
  <2>2. Registers!Switch \/ Registers!Exception \/ Registers!WriteLr
    BY <1>2, <2>1, EnterSteps, Names
  <2>3. cpuMode' = "irq"
    BY <1>2, <2>1, EnterType, Names DEF Become, SameBanks
  <2> QED
    BY <1>4, <2>2, <2>3 DEF Registers!Next, NoFiq, IrqCpsr, TypeOK
<1> QED
  BY <1>3, <1>4 DEF ChangeCpsr

\* For every set of register contents, and every guest that keeps out of FIQ mode,
\* set_cpu_mode with its callers gives each mode a stack pointer and link register
\* of its own and leaves the other registers alone.
THEOREM OneBankPerMode ==
    ASSUME NoFiqGuest
    PROVE  Spec => BanksKept
<1>1. Init => Registers!Init /\ NoFiq
  <2> SUFFICES ASSUME Init PROVE Registers!Init /\ NoFiq
    OBVIOUS
  <2>1. PICK v \in Values : /\ reg = [r \in Banked |-> v]
                            /\ regMode = [m \in Modes |-> [r \in Banked |-> v]]
    BY DEF Init
  <2>2. \A m \in Modes : BankOf(Banks, m) = [r \in Banked |-> v]
    BY <2>1 DEF BankOf, Banks
  <2>3. reg["r8"] \in Values /\ Sp \in [Modes -> Values] /\ Lr \in [Modes -> Values]
    BY <2>1, <2>2 DEF Banked, Sp, Lr
  <2>4. cpuMode \in Modes /\ NoFiq
    BY Names DEF Init, NoFiq
  <2> QED
    BY <2>3, <2>4 DEF Registers!Init, Sp, Lr
<1>2. TypeOK /\ NoFiq /\ [Next]_vars => [Registers!Next]_(Registers!vars) /\ NoFiq'
  <2> SUFFICES ASSUME TypeOK, NoFiq, [Next]_vars
               PROVE  [Registers!Next]_(Registers!vars) /\ NoFiq'
    OBVIOUS
  <2>1. CASE WriteRegister
    <3>1. PICK r \in Banked, v \in Values : reg' = [reg EXCEPT ![r] = v]
      BY <2>1 DEF WriteRegister
    <3>2. /\ UNCHANGED <<cpuMode, regMode, cpsr, spsr>>
          /\ reg \in [Banked -> Values] /\ cpuMode \in Modes
      BY <2>1 DEF WriteRegister, TypeOK
    <3>3. \A m \in Modes : BankOf(Banks, m)' =
             IF m = cpuMode THEN [reg EXCEPT ![r] = v] ELSE BankOf(Banks, m)
      BY <3>1, <3>2 DEF BankOf, Banks
    <3>4. {"sp", "lr", "r8"} = Banked /\ BankOf(Banks, cpuMode) = reg
      BY DEF Banked, BankOf, Banks
    <3>5. CASE r = "sp"
      <4>1. Sp' = [Sp EXCEPT ![cpuMode] = v] /\ Lr' = Lr /\ reg'["r8"] = reg["r8"]
        BY <3>1, <3>2, <3>3, <3>4, <3>5 DEF Sp, Lr
      <4> QED
        BY <3>2, <4>1 DEF Registers!Next, Registers!WriteSp, Sp, Lr, NoFiq
    <3>6. CASE r = "lr"
      <4>1. Lr' = [Lr EXCEPT ![cpuMode] = v] /\ Sp' = Sp /\ reg'["r8"] = reg["r8"]
        BY <3>1, <3>2, <3>3, <3>4, <3>6 DEF Sp, Lr
      <4> QED
        BY <3>2, <4>1 DEF Registers!Next, Registers!WriteLr, Sp, Lr, NoFiq
    <3>7. CASE r = "r8"
      <4>1. Lr' = Lr /\ Sp' = Sp /\ reg'["r8"] \in Values
        BY <3>1, <3>2, <3>3, <3>4, <3>7 DEF Sp, Lr
      <4> QED
        BY <3>2, <4>1 DEF Registers!Next, Registers!WriteCommon, Sp, Lr, NoFiq
    <3> QED
      BY <3>4, <3>5, <3>6, <3>7
  <2>2. ASSUME NEW psr \in GuestPsrs, ChangeCpsr(psr)
        PROVE  Registers!Next /\ NoFiq'
    BY <2>2, PsrsAssumption, ChangeCpsrSteps DEF NoFiqGuest
  <2>3. CASE MsrSpsr
    <3>2. UNCHANGED <<cpuMode, reg, regMode, cpsr>>
      BY <2>3 DEF MsrSpsr
    <3>3. NoFiq'
      BY <2>3, <3>2 DEF MsrSpsr, NoFiq, NoFiqGuest, TypeOK
    <3>4. UNCHANGED Registers!vars
      BY <3>2 DEF Registers!vars, BankOf, Banks
    <3> QED
      BY <3>3, <3>4
  <2>4. CASE SpsrRestore
    <3>1. CASE cpuMode = "invalid"
      BY <2>2, <2>4, <3>1 DEF SpsrRestore
    <3>2. CASE cpuMode # "invalid"
      BY <2>4, <3>2, ChangeCpsrSteps DEF SpsrRestore, TypeOK, NoFiq
    <3> QED
      BY <3>1, <3>2
  <2>5. SameBanks(Banks)
    BY SwitchedBanks, Names
  <2>6. CASE Swi
    <3>1. PICK link \in Values : Become(Enter(Banks, "svc", link))
      BY <2>6 DEF Swi
    <3>2. Registers!Switch \/ Registers!Exception \/ Registers!WriteLr
      BY <2>5, <3>1, EnterSteps, Names
    <3>3. cpuMode' = "svc"
      BY <2>5, <3>1, EnterType, Names DEF Become, SameBanks
    <3>4. NoFiq'
      BY <2>6, <3>3 DEF Swi, SwiCpsr, NoFiq, TypeOK, Psr
    <3> QED
      BY <3>2, <3>4 DEF Registers!Next
  <2>7. CASE Irq
    <3>1. PICK link \in Values : Become(Enter(Banks, "irq", link))
      BY <2>7 DEF Irq
    <3>2. Registers!Switch \/ Registers!Exception \/ Registers!WriteLr
      BY <2>5, <3>1, EnterSteps, Names
    <3>3. cpuMode' = "irq"
      BY <2>5, <3>1, EnterType, Names DEF Become, SameBanks
    <3>4. NoFiq'
      BY <2>7, <3>3 DEF Irq, IrqCpsr, NoFiq, TypeOK
    <3> QED
      BY <3>2, <3>4 DEF Registers!Next
  <2>8. CASE UNCHANGED vars
    BY <2>8 DEF vars, Registers!vars, BankOf, Banks, NoFiq
  <2> QED
    BY <2>1, <2>2, <2>3, <2>4, <2>6, <2>7, <2>8 DEF Next, MsrCpsr
<1> QED
  BY <1>1, <1>2, TypeCorrect, PTL DEF Spec, BanksKept, Registers!Spec
-----------------------------------------------------------------------------
(***************************************************************************)
(* The status words of PsrCache.  FlagsKept and SetFollows are inductive   *)
(* with the types.                                                         *)
(***************************************************************************)
PsrTypeOK ==
    /\ running \in BOOLEAN /\ halted \in BOOLEAN
    /\ code \in {"arm", "thumb"}
    /\ cache \subseteq Flags
    /\ cpsrWord \in StatusWord
    /\ spsrWords \in [Exceptions -> StatusWord]
    /\ right \in [Contexts -> SUBSET Flags]
    /\ lost \in [Contexts -> SUBSET Flags]

PsrInv == PsrTypeOK /\ FlagsKept /\ SetFollows

\* What a step leaves behind, when running, cache and code have become what is said.
Kept(ran, registers, set) ==
    running' = ran /\ cache' = registers /\ code' = set

LEMMA Fields ==
    ASSUME NEW psr \in StatusWord
    PROVE  /\ psr.flags \subseteq Flags /\ psr.masked \in BOOLEAN /\ psr.thumb \in BOOLEAN
           /\ psr.mode \in Exceptions \cup {"user", "invalid"}
           /\ InstructionSet(psr) \in {"arm", "thumb"}
BY DEF StatusWord, InstructionSet

LEMMA ContextNames ==
    /\ "now" \in Contexts /\ "now" \notin Exceptions
    /\ "irq" \in Exceptions /\ "svc" \in Exceptions
    /\ Exceptions \subseteq Contexts
BY DEF Contexts, Exceptions

LEMMA HandlerWord == Handler \in StatusWord /\ InstructionSet(Handler) = "arm"
BY DEF Handler, StatusWord, Exceptions, InstructionSet

\* collapse_flags changes the flags alone.
LEMMA CollapsedWord ==
    ASSUME PsrTypeOK
    PROVE  /\ Collapsed \in StatusWord
           /\ Collapsed.flags = cache
           /\ InstructionSet(Collapsed) = InstructionSet(cpsrWord)
BY DEF PsrTypeOK, Collapsed, StatusWord, InstructionSet

\* An interrupt keeps the flags of the code it interrupts in SPSR; those of the handler are
\* right where the host registers are, unless entry says which are not.
LEMMA InterruptKeeps ==
    ASSUME PsrInv, NEW psr \in StatusWord, NEW r \in SUBSET Flags, NEW l \in SUBSET Flags,
           NEW entry \in SUBSET Flags, Interrupt(psr, r, l, entry),
           running' \in BOOLEAN, halted' \in BOOLEAN, cache' \subseteq Flags,
           code' \in {"arm", "thumb"}, running' => code' = "arm",
           Differing(psr.flags, r) \subseteq l,
           Differing(IF running' THEN cache' ELSE {}, r) \subseteq l \cup entry
    PROVE  PsrInv'
<1>1. /\ spsrWords' = [spsrWords EXCEPT !["irq"] = psr]
      /\ cpsrWord' = Handler
      /\ right' = [right EXCEPT !["irq"] = r, !["now"] = r]
      /\ lost' = [lost EXCEPT !["irq"] = l, !["now"] = l \cup entry]
  BY DEF Interrupt
<1>2. PsrTypeOK'
  BY <1>1, HandlerWord, ContextNames DEF PsrTypeOK, PsrInv
<1>3. /\ right'["now"] = r /\ lost'["now"] = l \cup entry
      /\ right'["irq"] = r /\ lost'["irq"] = l /\ spsrWords'["irq"] = psr
      /\ right'["svc"] = right["svc"] /\ lost'["svc"] = lost["svc"]
      /\ spsrWords'["svc"] = spsrWords["svc"]
  BY <1>1 DEF PsrInv, PsrTypeOK, Contexts, Exceptions
<1>4. Handler.flags = {}
  BY DEF Handler
<1>5. FlagsKept'
  BY <1>1, <1>3, <1>4 DEF FlagsKept, PsrInv, Exceptions
<1>6. SetFollows'
  BY <1>1, HandlerWord DEF SetFollows
<1>. QED BY <1>2, <1>5, <1>6 DEF PsrInv

LEMMA ContinueKeeps ==
    ASSUME PsrInv, NEW psr \in StatusWord, NEW r \in SUBSET Flags, NEW l \in SUBSET Flags,
           Continue(psr, r, l),
           running' \in BOOLEAN, halted' \in BOOLEAN, cache' \subseteq Flags,
           code' \in {"arm", "thumb"}, running' => code' = InstructionSet(psr),
           Differing(IF running' THEN cache' ELSE psr.flags, r) \subseteq l
    PROVE  PsrInv'
<1>1. /\ cpsrWord' = psr
      /\ right' = [right EXCEPT !["now"] = r]
      /\ lost' = [lost EXCEPT !["now"] = l]
      /\ spsrWords' = spsrWords
  BY DEF Continue
<1>2. PsrTypeOK'
  BY <1>1, ContextNames DEF PsrTypeOK, PsrInv
<1>3. /\ right'["now"] = r /\ lost'["now"] = l
      /\ \A e \in Exceptions : right'[e] = right[e] /\ lost'[e] = lost[e]
  BY <1>1, ContextNames DEF PsrInv, PsrTypeOK
<1>4. FlagsKept'
  BY <1>1, <1>3 DEF FlagsKept, PsrInv
<1>5. SetFollows'
  BY <1>1 DEF SetFollows
<1>. QED BY <1>2, <1>4, <1>5 DEF PsrInv

\* update_gba, called with the flags of the code in the word and in the registers.
LEMMA UpdateGbaKeeps ==
    ASSUME PsrInv, NEW psr \in StatusWord, NEW flags \in SUBSET Flags,
           NEW halting \in BOOLEAN, UpdateGba(psr, flags, halting),
           psr.flags = flags, Differing(flags, right["now"]) \subseteq lost["now"],
           halting \/ code = InstructionSet(psr)
    PROVE  PsrInv'
<1>1. PICK irq \in BOOLEAN, completed \in BOOLEAN :
        /\ halting => irq \/ completed
        /\ \/ /\ irq
              /\ Interrupt(psr, right["now"], lost["now"],
                           IF completed THEN right["now"] ELSE {})
           \/ ~irq /\ Continue(psr, right["now"], lost["now"])
        /\ running' = ~completed
        /\ halted' = (halting /\ ~irq)
        /\ code' = IF irq THEN InstructionSet(cpsrWord') ELSE code
        /\ cache' \in IF completed THEN SUBSET Flags ELSE {flags}
  BY DEF UpdateGba
<1>2. /\ right["now"] \in SUBSET Flags /\ lost["now"] \in SUBSET Flags
      /\ running' \in BOOLEAN /\ halted' \in BOOLEAN /\ cache' \subseteq Flags
  BY <1>1, ContextNames DEF PsrInv, PsrTypeOK
<1>3. CASE irq
  <2>1. Interrupt(psr, right["now"], lost["now"], IF completed THEN right["now"] ELSE {})
    BY <1>1, <1>3
  <2>2. code' = "arm"
    BY <1>1, <1>3, <2>1, HandlerWord DEF Interrupt
  <2>3. Differing(IF running' THEN cache' ELSE {}, right["now"])
           \subseteq lost["now"] \cup (IF completed THEN right["now"] ELSE {})
    BY <1>1 DEF Differing
  <2>. QED BY <1>2, <2>1, <2>2, <2>3, InterruptKeeps
<1>4. CASE ~irq
  <2>1. Continue(psr, right["now"], lost["now"])
    BY <1>1, <1>4
  <2>2. code' \in {"arm", "thumb"} /\ (running' => code' = InstructionSet(psr))
    BY <1>1, <1>4 DEF PsrInv, PsrTypeOK
  <2>3. Differing(IF running' THEN cache' ELSE psr.flags, right["now"]) \subseteq lost["now"]
    BY <1>1
  <2>. QED BY <1>2, <2>1, <2>2, <2>3, ContinueKeeps
<1>. QED BY <1>3, <1>4

LEMMA StartedWords == Started \subseteq {psr \in StatusWord : psr.flags = {}}
BY DEF Started, StatusWord, Exceptions

LEMMA PsrInitInv == PsrInit => PsrInv
<1>. SUFFICES ASSUME PsrInit PROVE PsrInv
  OBVIOUS
<1>1. PsrTypeOK
  BY StartedWords DEF PsrInit, PsrTypeOK, StatusWord
<1>2. FlagsKept
  BY StartedWords, ContextNames DEF PsrInit, FlagsKept, Differing
<1>3. SetFollows
  BY DEF PsrInit, SetFollows
<1>. QED BY <1>1, <1>2, <1>3 DEF PsrInv

\* The words MSR makes.
LEMMA CombinedWord ==
    ASSUME NEW old \in StatusWord, NEW new \in StatusWord,
           NEW flags \in BOOLEAN, NEW control \in BOOLEAN
    PROVE  /\ Combined(old, new, flags, control) \in StatusWord
           /\ Combined(old, new, flags, control).flags = IF flags THEN new.flags ELSE old.flags
           /\ InstructionSet(Combined(old, new, flags, control)) = InstructionSet(old)
BY Fields DEF Combined, StatusWord, InstructionSet

LEMMA PsrStep ==
    ASSUME PsrInv, [PsrNext]_psrVars
    PROVE  PsrInv'
<1>0. /\ PsrTypeOK /\ FlagsKept /\ SetFollows
      /\ right["now"] \in SUBSET Flags /\ lost["now"] \in SUBSET Flags
  BY ContextNames DEF PsrInv, PsrTypeOK
<1>1. CASE Reset
  <2>1. PICK psr \in Started : Continue(psr, {}, {})
    BY <1>1 DEF Reset
  <2>2. running' = running /\ ~running /\ code' = code /\ cache' = cache /\ halted' = FALSE
    BY <1>1 DEF Reset
  <2>3. Differing(psr.flags, {}) \subseteq {} /\ psr \in StatusWord
    BY StartedWords DEF Differing
  <2>. QED BY <1>0, <2>1, <2>2, <2>3, ContinueKeeps DEF PsrTypeOK
<1>2. CASE LoadState
  <2>1. PICK state \in SavedStates :
          /\ cpsrWord' = state.cpsr /\ spsrWords' = state.spsr /\ halted' = state.halted
          /\ right' = [c \in Contexts |-> IF c = "now" THEN state.cpsr.flags
                                                       ELSE state.spsr[c].flags]
    BY <1>2 DEF LoadState
  <2>2. /\ state.cpsr \in StatusWord /\ state.spsr \in [Exceptions -> StatusWord]
        /\ state.halted \in BOOLEAN
    BY GuestAssumption
  <2>3. /\ ~running /\ running' = running /\ code' = code /\ cache' = cache
        /\ lost' = [c \in Contexts |-> {}]
    BY <1>2 DEF LoadState
  <2>4. \A c \in Contexts : c # "now" => state.spsr[c].flags \subseteq Flags
    BY <2>2, Fields DEF Contexts
  <2>5. PsrTypeOK'
    BY <1>0, <2>1, <2>2, <2>3, <2>4, Fields DEF PsrTypeOK
  <2>6. FlagsKept'
    BY <2>1, <2>3, ContextNames DEF FlagsKept, Differing
  <2>7. SetFollows'
    BY <2>3 DEF SetFollows
  <2>. QED BY <2>5, <2>6, <2>7 DEF PsrInv
<1>3. CASE Resume
  <2>1. /\ ~running /\ running' /\ cache' = cpsrWord.flags
        /\ code' = InstructionSet(cpsrWord)
        /\ UNCHANGED <<halted, cpsrWord, spsrWords, right, lost>>
    BY <1>3 DEF Resume, Extracted, history
  <2>2. running' = TRUE
    BY <1>3 DEF Resume
  <2>3. PsrTypeOK'
    BY <1>0, <2>1, <2>2, Fields DEF PsrTypeOK
  <2>4. FlagsKept' /\ SetFollows'
    BY <1>0, <2>1 DEF FlagsKept, SetFollows
  <2>. QED BY <2>3, <2>4 DEF PsrInv
<1>4. CASE ResumeHalted
  <2>1. UpdateGba(cpsrWord, cpsrWord.flags, TRUE) /\ ~running
    BY <1>4 DEF ResumeHalted, Extracted
  <2>2. cpsrWord \in StatusWord /\ cpsrWord.flags \in SUBSET Flags
    BY <1>0, Fields DEF PsrTypeOK
  <2>3. Differing(cpsrWord.flags, right["now"]) \subseteq lost["now"]
    BY <1>0, <2>1 DEF FlagsKept
  <2>. QED BY <2>1, <2>2, <2>3, UpdateGbaKeeps
<1>5. ASSUME running PROVE Differing(cache, right["now"]) \subseteq lost["now"]
  BY <1>0, <1>5 DEF FlagsKept
<1>6. CASE Compute
  <2>1. PICK set \in SUBSET Flags \ {{}} : \E ones \in SUBSET set :
          /\ cache' = (cache \ set) \cup ones
          /\ Continue(cpsrWord, (right["now"] \ set) \cup ones, lost["now"] \ set)
    BY <1>6 DEF Compute
  <2>2. PICK ones \in SUBSET set :
          /\ cache' = (cache \ set) \cup ones
          /\ Continue(cpsrWord, (right["now"] \ set) \cup ones, lost["now"] \ set)
    BY <2>1
  <2>3. running /\ running' = running /\ halted' = halted /\ code' = code
    BY <1>6 DEF Compute
  <2>4. Differing(cache', (right["now"] \ set) \cup ones) \subseteq lost["now"] \ set
    BY <1>5, <2>2, <2>3 DEF Differing
  <2>5. code = InstructionSet(cpsrWord)
    BY <1>0, <2>3 DEF SetFollows
  <2>6. /\ cpsrWord \in StatusWord /\ code \in {"arm", "thumb"} /\ cache' \subseteq Flags
        /\ (right["now"] \ set) \cup ones \in SUBSET Flags
        /\ lost["now"] \ set \in SUBSET Flags
    BY <1>0, <2>2 DEF PsrTypeOK
  <2>. QED BY <1>0, <2>2, <2>3, <2>4, <2>5, <2>6, ContinueKeeps DEF PsrTypeOK
<1>7. CASE BranchExchange
  <2>1. PICK thumb \in BOOLEAN :
          /\ Continue([cpsrWord EXCEPT !.thumb = thumb], right["now"], lost["now"])
          /\ code' = IF thumb THEN "thumb" ELSE "arm"
    BY <1>7 DEF BranchExchange
  <2>2. running /\ running' = running /\ halted' = halted /\ cache' = cache
    BY <1>7 DEF BranchExchange
  <2>3. /\ [cpsrWord EXCEPT !.thumb = thumb] \in StatusWord
        /\ code' = InstructionSet([cpsrWord EXCEPT !.thumb = thumb])
    BY <1>0, <2>1 DEF PsrTypeOK, StatusWord, InstructionSet
  <2>. QED BY <1>0, <1>5, <2>1, <2>2, <2>3, ContinueKeeps DEF PsrTypeOK
<1>8. CASE Update \/ StoreHalt
  <2>1. running /\ \E halting \in BOOLEAN : UpdateGba(Collapsed, cache, halting)
    BY <1>8 DEF Update, StoreHalt
  <2>2. code = InstructionSet(Collapsed)
    BY <1>0, <2>1, CollapsedWord DEF SetFollows
  <2>3. cache \in SUBSET Flags
    BY <1>0 DEF PsrTypeOK
  <2>. QED BY <1>0, <1>5, <2>1, <2>2, <2>3, CollapsedWord, UpdateGbaKeeps
<1>9. CASE StoreDma
  <2>1. /\ running /\ running' = running /\ halted' = halted /\ cache' = cache
        /\ Interrupt(cpsrWord, right["now"],
                     lost["now"] \cup Differing(cpsrWord.flags, cache), {})
        /\ code' = InstructionSet(cpsrWord')
    BY <1>9 DEF StoreDma
  <2>2. code' = "arm"
    BY <2>1, HandlerWord DEF Interrupt
  <2>3. /\ cpsrWord \in StatusWord /\ cache \subseteq Flags /\ halted' \in BOOLEAN
        /\ lost["now"] \cup Differing(cpsrWord.flags, cache) \in SUBSET Flags
    BY <1>0, <2>1, Fields DEF PsrTypeOK, Differing
  <2>4. /\ Differing(cpsrWord.flags, right["now"])
              \subseteq lost["now"] \cup Differing(cpsrWord.flags, cache)
        /\ Differing(cache, right["now"])
              \subseteq lost["now"] \cup Differing(cpsrWord.flags, cache)
    BY <1>5, <2>1 DEF Differing
  <2>. QED BY <1>0, <2>1, <2>2, <2>3, <2>4, InterruptKeeps
<1>10. CASE ExecuteReadCpsr
  <2>1. /\ running /\ running' = running /\ halted' = halted /\ code' = code
        /\ cache' = cache /\ Continue(Collapsed, right["now"], lost["now"])
    BY <1>10 DEF ExecuteReadCpsr
  <2>2. code = InstructionSet(Collapsed)
    BY <1>0, <2>1, CollapsedWord DEF SetFollows
  <2>. QED BY <1>0, <1>5, <2>1, <2>2, CollapsedWord, ContinueKeeps DEF PsrTypeOK
<1>11. CASE ExecuteStoreCpsr
  <2>1. PICK new \in GuestWords, flags \in BOOLEAN, control \in BOOLEAN :
          LET psr == Combined(cpsrWord, new, flags, control)
              r == IF flags THEN psr.flags ELSE right["now"]
              l == IF flags THEN {} ELSE lost["now"] \cup Differing(cpsrWord.flags, cache)
          IN /\ cache' = Extracted(psr)
             /\ Continue(psr, r, l) \/ (control /\ Interrupt(psr, r, l, {}))
    BY <1>11 DEF ExecuteStoreCpsr
  <2> DEFINE psr == Combined(cpsrWord, new, flags, control)
             r == IF flags THEN psr.flags ELSE right["now"]
             l == IF flags THEN {} ELSE lost["now"] \cup Differing(cpsrWord.flags, cache)
  <2>2. running /\ code = "arm" /\ running' = running /\ halted' = halted /\ code' = code
    BY <1>11 DEF ExecuteStoreCpsr
  <2>3. /\ psr \in StatusWord /\ psr.flags = (IF flags THEN new.flags ELSE cpsrWord.flags)
        /\ InstructionSet(psr) = code
    BY <1>0, <2>2, CombinedWord, GuestAssumption DEF PsrTypeOK, SetFollows
  <2>4. /\ psr.flags \subseteq Flags /\ cpsrWord.flags \subseteq Flags
        /\ cache \subseteq Flags /\ halted \in BOOLEAN
    BY <1>0, <2>3, Fields DEF PsrTypeOK
  <2>5. r \in SUBSET Flags /\ l \in SUBSET Flags
    BY <1>0, <2>4 DEF Differing
  <2>6. Differing(psr.flags, r) \subseteq l
    BY <1>5, <2>2, <2>3 DEF Differing
  <2>7. cache' = psr.flags
    BY <2>1 DEF Extracted
  <2>8. CASE Continue(psr, r, l)
    <3>. HIDE DEF psr, r, l
    <3>. QED BY <2>2, <2>3, <2>4, <2>5, <2>6, <2>7, <2>8, ContinueKeeps
  <2>9. CASE Interrupt(psr, r, l, {})
    <3>. HIDE DEF psr, r, l
    <3>. QED BY <2>2, <2>3, <2>4, <2>5, <2>6, <2>7, <2>9, InterruptKeeps
  <2>. QED BY <2>1, <2>8, <2>9
<1>12. CASE ExecuteStoreSpsr
  <2> DEFINE m == cpsrWord.mode
  <2>1. PICK new \in GuestWords, flags \in BOOLEAN, control \in BOOLEAN :
          LET psr == [Combined(spsrWords[m], new, flags, control) EXCEPT
                         !.thumb = IF control THEN new.thumb ELSE @]
          IN /\ spsrWords' = [spsrWords EXCEPT ![m] = psr]
             /\ right' = [right EXCEPT ![m] = IF flags THEN psr.flags ELSE @]
             /\ lost' = [lost EXCEPT ![m] = IF flags THEN {} ELSE @]
    BY <1>12 DEF ExecuteStoreSpsr
  <2> DEFINE combined == Combined(spsrWords[m], new, flags, control)
             psr == [combined EXCEPT !.thumb = IF control THEN new.thumb ELSE @]
  <2>2. m \in Exceptions /\ UNCHANGED <<running, halted, code, cache, cpsrWord>>
    BY <1>12 DEF ExecuteStoreSpsr
  <2>3. /\ combined \in StatusWord /\ new \in StatusWord
        /\ combined.flags = IF flags THEN new.flags ELSE spsrWords[m].flags
    <3>1. spsrWords[m] \in StatusWord /\ new \in StatusWord
      BY <1>0, <2>2, GuestAssumption DEF PsrTypeOK
    <3>2. \A old, word \in StatusWord :
            /\ Combined(old, word, flags, control) \in StatusWord
            /\ Combined(old, word, flags, control).flags
                 = IF flags THEN word.flags ELSE old.flags
      BY CombinedWord
    <3>. QED BY <3>1, <3>2
  <2>4. psr \in StatusWord /\ psr.flags = combined.flags
    <3>1. new.thumb \in BOOLEAN
      BY <2>3, Fields
    <3>. HIDE DEF combined
    <3>. QED BY <2>3, <3>1 DEF StatusWord
  <2>5. psr.flags \subseteq Flags
    BY <2>4, Fields
  <2>6. PsrTypeOK'
    BY <1>0, <2>1, <2>2, <2>4, <2>5, ContextNames DEF PsrTypeOK
  <2>7. /\ spsrWords'[m] = psr
        /\ right'[m] = IF flags THEN psr.flags ELSE right[m]
        /\ lost'[m] = IF flags THEN {} ELSE lost[m]
    BY <1>0, <2>1, <2>2, ContextNames DEF PsrTypeOK
  <2>8. \A c \in Contexts : c # m => right'[c] = right[c] /\ lost'[c] = lost[c]
    BY <1>0, <2>1, <2>2 DEF PsrTypeOK
  <2>9. \A e \in Exceptions : e # m => spsrWords'[e] = spsrWords[e]
    BY <1>0, <2>1, <2>2 DEF PsrTypeOK
  <2>10. Differing(psr.flags, right'[m]) \subseteq lost'[m]
    BY <1>0, <2>2, <2>3, <2>4, <2>7 DEF FlagsKept, Differing
  <2>. HIDE DEF psr, combined
  <2>11. FlagsKept'
    <3>1. Differing(IF running' THEN cache' ELSE cpsrWord'.flags, right'["now"])
             \subseteq lost'["now"]
      BY <1>0, <2>2, <2>8, ContextNames DEF FlagsKept
    <3>2. ASSUME NEW e \in Exceptions
          PROVE  Differing(spsrWords'[e].flags, right'[e]) \subseteq lost'[e]
      BY <1>0, <2>7, <2>8, <2>9, <2>10, ContextNames DEF FlagsKept
    <3>. QED BY <3>1, <3>2 DEF FlagsKept
  <2>12. SetFollows'
    BY <1>0, <2>2 DEF SetFollows
  <2>. QED BY <2>6, <2>11, <2>12 DEF PsrInv
<1>13. CASE ExecuteSwi
  <2>1. /\ running /\ running' = running /\ halted' = halted /\ cache' = cache
        /\ code' = "arm"
        /\ spsrWords' = [spsrWords EXCEPT !["svc"] = Collapsed]
        /\ cpsrWord' = SwiPsr(Collapsed)
        /\ right' = [right EXCEPT !["svc"] = right["now"]]
        /\ lost' = [lost EXCEPT !["svc"] = lost["now"]]
    BY <1>13 DEF ExecuteSwi
  <2>2. SwiPsr(Collapsed) \in StatusWord /\ InstructionSet(SwiPsr(Collapsed)) = "arm"
    BY <1>0, CollapsedWord DEF SwiPsr, StatusWord, Exceptions, InstructionSet
  <2>3. PsrTypeOK'
    BY <1>0, <2>1, <2>2, CollapsedWord, ContextNames DEF PsrTypeOK
  <2>4. /\ spsrWords'["svc"] = Collapsed /\ right'["svc"] = right["now"]
        /\ lost'["svc"] = lost["now"]
        /\ right'["now"] = right["now"] /\ lost'["now"] = lost["now"]
        /\ spsrWords'["irq"] = spsrWords["irq"] /\ right'["irq"] = right["irq"]
        /\ lost'["irq"] = lost["irq"]
    BY <1>0, <2>1 DEF PsrTypeOK, Contexts, Exceptions
  <2>5. FlagsKept'
    BY <1>0, <1>5, <2>1, <2>4, CollapsedWord DEF FlagsKept, Exceptions
  <2>6. SetFollows'
    BY <2>1, <2>2 DEF SetFollows
  <2>. QED BY <2>3, <2>5, <2>6 DEF PsrInv
<1>14. CASE ExecuteSpsrRestore
  <2> DEFINE m == cpsrWord.mode
  <2>1. /\ running /\ m \in Exceptions /\ running' = running /\ halted' = halted
        /\ cache' = spsrWords[m].flags
        /\ \/ Continue(spsrWords[m], right[m], lost[m])
           \/ Interrupt(spsrWords[m], right[m], lost[m], {})
        /\ code' = InstructionSet(cpsrWord')
    BY <1>14 DEF ExecuteSpsrRestore, Extracted
  <2>2. /\ spsrWords[m] \in StatusWord /\ right[m] \in SUBSET Flags
        /\ lost[m] \in SUBSET Flags /\ spsrWords[m].flags \subseteq Flags
        /\ halted \in BOOLEAN /\ running \in BOOLEAN
    BY <1>0, <2>1, ContextNames, Fields DEF PsrTypeOK
  <2>3. Differing(spsrWords[m].flags, right[m]) \subseteq lost[m]
    BY <1>0, <2>1 DEF FlagsKept
  <2>4. CASE Continue(spsrWords[m], right[m], lost[m])
    <3>1. code' = InstructionSet(spsrWords[m])
      BY <2>1, <2>4 DEF Continue
    <3>2. code' \in {"arm", "thumb"}
      BY <2>2, <3>1, Fields
    <3>. QED BY <2>1, <2>2, <2>3, <2>4, <3>1, <3>2, ContinueKeeps
  <2>5. CASE Interrupt(spsrWords[m], right[m], lost[m], {})
    <3>1. code' = "arm"
      BY <2>1, <2>5, HandlerWord DEF Interrupt
    <3>. QED BY <2>1, <2>2, <2>3, <2>5, <3>1, InterruptKeeps
  <2>. QED BY <2>1, <2>4, <2>5
<1>15. CASE UNCHANGED psrVars
  BY <1>0, <1>15 DEF psrVars, history, PsrInv, PsrTypeOK, FlagsKept, SetFollows
<1>. QED
  BY <1>1, <1>2, <1>3, <1>4, <1>6, <1>7, <1>8, <1>9, <1>10, <1>11, <1>12, <1>13, <1>14,
     <1>15 DEF PsrNext

\* Whatever the guest writes and however exceptions, frames and savestates follow each
\* other, the flags an instruction finds and an exception returns with are those that were
\* left, but for the lost ones.
THEOREM FlagsAreKept == PsrSpec => []FlagsKept
<1>1. PsrInv /\ [PsrNext]_psrVars => PsrInv'
  BY PsrStep
<1>2. PsrInv => FlagsKept
  BY DEF PsrInv
<1>. QED BY PsrInitInv, <1>1, <1>2, PTL DEF PsrSpec

\* The code that runs is of the instruction set T says, for every guest.
THEOREM CodeFollowsT == PsrSpec => []SetFollows
<1>1. PsrInv /\ [PsrNext]_psrVars => PsrInv'
  BY PsrStep
<1>2. PsrInv => SetFollows
  BY DEF PsrInv
<1>. QED BY PsrInitInv, <1>1, <1>2, PTL DEF PsrSpec
================================================================================
