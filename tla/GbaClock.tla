------------------------------ MODULE GbaClock ------------------------------
(***************************************************************************)
(* The emulated clock of picogpsp: update_gba() of main.c with everything  *)
(* it drives (the four timers, the display counters, the H-blank and       *)
(* V-blank DMA start points, the interrupt flags, the halted CPU) and the  *)
(* guest's writes to the registers that configure them.                    *)
(*                                                                         *)
(* The CPU loop runs a slice of guest code and then calls update_gba,      *)
(* which charges "executeCycles" to every counter, handles the events that *)
(* fall due and picks the length of the next slice so that it ends at the  *)
(* earliest event.  A frame ends at line Lines; the host loop  *)
(* of frontend/main.c then polls the input and starts the next frame.      *)
(***************************************************************************)
EXTENDS Integers

CONSTANTS
    Timers,     \* timer numbers, 0..3 in the code
    Channels,   \* DMA channels started by the display, 0..3 in the code
    Reloads,    \* reload values the guest programs: 0x10000 - TMxD, never 0
    ResetReload,\* the reload of a timer after init_main, 0x10000
    Scales,     \* 2^prescale: 1, 64, 256 or 1024
    HDraw,      \* cycles of the visible part of a line, 960
    HBlank,     \* cycles of the horizontal blank, 272
    VisLines,   \* lines that are drawn, 160
    Lines,      \* lines of a frame, 228
    Compares,   \* values of the V-count compare field of DISPSTAT
    EnableSets, \* values the guest writes to IE, as sets of interrupts
    DisplayIrqs,\* interrupt enables the guest writes to DISPSTAT, as sets
    IrqChoices  \* interrupt enable bits written to timers, DMAs and P1CNT

\* The interrupt bits: four of their own, one per timer, one per DMA channel.
VBlankIrq == <<"vblank", 0>>
HBlankIrq == <<"hblank", 0>>
VCountIrq == <<"vcount", 0>>
KeypadIrq == <<"keypad", 0>>
DisplayIrq == {VBlankIrq, HBlankIrq, VCountIrq}
Irq == DisplayIrq \cup {KeypadIrq}
         \cup ({"timer"} \X Timers) \cup ({"dma"} \X Channels)

ASSUME TimersAssumption == Timers \subseteq Nat
ASSUME ReloadsAssumption ==
    Reloads \subseteq Nat \ {0} /\ ResetReload \in Nat \ {0}
ASSUME ScalesAssumption == Scales \subseteq Nat \ {0}
ASSUME DisplayAssumption ==
    /\ HDraw \in Nat \ {0}
    /\ HBlank \in Nat \ {0}
    /\ VisLines \in Nat \ {0}
    /\ Lines \in Nat
    /\ VisLines < Lines
ASSUME InputsAssumption ==
    /\ Compares \subseteq Nat
    /\ EnableSets \subseteq SUBSET Irq
    /\ DisplayIrqs \subseteq SUBSET DisplayIrq
    /\ IrqChoices \subseteq BOOLEAN

VARIABLES
    executeCycles, \* cycles the next update_gba charges
    videoCount,    \* cycles until the next display event
    vcount,        \* VCOUNT, the current line
    dispstat,      \* DISPSTAT: flags, interrupt enables, V-count compare
    timer,         \* timer[i]
    dma,           \* dma[c]: start type, repeat and interrupt bits
    irqRaised,     \* irq_raised, kept over the iterations of one update_gba
    keypadIrq,     \* the interrupt enable bit of P1CNT
    regIE, regIF,  \* interrupt enable and request registers, as sets
    regIME,        \* master interrupt enable
    cpsrI,         \* the interrupt mask bit of CPSR
    halted,        \* reg[CPU_HALT_STATE] # CPU_ACTIVE
    phase,         \* "guest", or "host" between two frames (COMPLETED_FRAME)
    frameTicks,    \* cpu_ticks charged since the frame began (history)
    drawn          \* calls of update_scanline since the frame began (history)

displayVars == <<videoCount, vcount, dispstat, frameTicks, drawn>>
irqVars == <<irqRaised, keypadIrq, regIE, regIF, regIME, cpsrI, halted>>
vars == <<executeCycles, displayVars, timer, dma, irqVars, phase>>

LineCycles == HDraw + HBlank

InactiveTimer == [status |-> "inactive", count |-> 0, reload |-> ResetReload,
                  scale |-> 1, irq |-> FALSE]
InactiveDma == [start |-> "inactive", repeat |-> FALSE, irq |-> FALSE]
ClearedDispstat == [vblank |-> FALSE, hblank |-> FALSE, match |-> FALSE,
                    irqs |-> {}, compare |-> 0]
-----------------------------------------------------------------------------
(***************************************************************************)
(* Interrupts.  raise_interrupt sets the request bits and enters the       *)
(* handler at once when one of the bits just raised may be taken: it masks *)
(* interrupts and wakes a halted CPU.                                      *)
(***************************************************************************)
\* Mutant: the handler is entered but the CPU stays halted.
RaiseAsleep(raised) ==
    /\ regIF' = regIF \cup raised
    /\ cpsrI' = (cpsrI \/ (regIME /\ raised \cap regIE # {}))
    /\ UNCHANGED halted

Raise(raised) ==
    /\ regIF' = regIF \cup raised
    /\ IF regIME /\ ~cpsrI /\ raised \cap regIE # {}
         THEN cpsrI' = TRUE /\ halted' = FALSE
         ELSE UNCHANGED <<cpsrI, halted>>

irqSetup == <<keypadIrq, regIE, regIME>>

\* Mutant: irq_raised survives the call.
KeptForever(raised) == irqRaised \cup raised

\* irq_raised is a local of update_gba: it lasts while the call goes on looping.
KeptInLoop(raised) ==
    IF halted' /\ phase' = "guest" THEN irqRaised \cup raised ELSE {}

\* The raise at the end of an iteration of update_gba, with what earlier
\* iterations of the call raised.  A DMA has raised its own before.
RaiseInLoop(raised, byDma) ==
    /\ Raise(irqRaised \cup raised \cup byDma)
    /\ irqRaised' = KeptInLoop(raised)
    /\ UNCHANGED irqSetup

\* dma_transfer for the channels of a start point: what each leaves armed...
DmaAfter(start) ==
    [c \in Channels |->
        IF dma[c].start = start /\ ~dma[c].repeat
          THEN [dma[c] EXCEPT !.start = "inactive"] ELSE dma[c]]
\* ... and the interrupts they raise.
DmaIrqs(start) ==
    {<<"dma", c>> : c \in {d \in Channels : dma[d].start = start /\ dma[d].irq}}
-----------------------------------------------------------------------------
(***************************************************************************)
(* update_timers.  A running timer loses executeCycles, a cascading one    *)
(* one count per overflow of the timer below it.  "fired" is the set of    *)
(* timers that overflow: the code walks upwards and so computes the one    *)
(* set with fired = {i : Overflows(i, fired)}.                             *)
(***************************************************************************)
Remaining(i, fired) ==
    CASE timer[i].status = "prescale" -> timer[i].count - executeCycles
      [] timer[i].status = "cascade" /\ i - 1 \in fired -> timer[i].count - 1
      [] OTHER -> timer[i].count

Overflows(i, fired) == timer[i].status # "inactive" /\ Remaining(i, fired) <= 0

TimersAfter(fired) ==
    [i \in Timers |-> [timer[i] EXCEPT !.count =
        IF i \in fired THEN Remaining(i, fired) + timer[i].reload * timer[i].scale
                       ELSE Remaining(i, fired)]]

TimerIrqs(fired) == {<<"timer", i>> : i \in {j \in fired : timer[j].irq}}
-----------------------------------------------------------------------------
(***************************************************************************)
(* The display half of update_gba: nothing is due, a line enters its       *)
(* H-blank, or a new line begins.  Each raises its own interrupts together *)
(* with those of the timers.                                               *)
(***************************************************************************)
MidLine(timerIrqs) ==
    /\ videoCount > executeCycles
    /\ videoCount' = videoCount - executeCycles
    /\ frameTicks' = frameTicks + executeCycles
    /\ UNCHANGED <<vcount, dispstat, dma, phase, drawn>>
    /\ RaiseInLoop(timerIrqs, {})

EnterHBlank(timerIrqs) ==
    /\ videoCount <= executeCycles
    /\ ~dispstat.hblank
    /\ videoCount' = videoCount - executeCycles + HBlank
    /\ dispstat' = [dispstat EXCEPT !.hblank = TRUE]
    /\ frameTicks' = frameTicks + executeCycles
    /\ IF dispstat.vblank
         THEN UNCHANGED <<drawn, dma>>
         ELSE drawn' = drawn + 1 /\ dma' = DmaAfter("hblank")
    /\ UNCHANGED <<vcount, phase>>
    /\ RaiseInLoop(timerIrqs \cup (dispstat.irqs \cap {HBlankIrq}),
                   IF dispstat.vblank THEN {} ELSE DmaIrqs("hblank"))

\* Mutant: the frame ends one line late.
NextLineLate == IF vcount = Lines THEN 0 ELSE vcount + 1

NextLine == IF vcount + 1 = Lines THEN 0 ELSE vcount + 1

\* Mutant: the V-blank flag is never cleared.
VBlankForever(line) == dispstat.vblank \/ line = VisLines

VBlankFrom(line) == (dispstat.vblank \/ line = VisLines) /\ line # 0

NewLine(timerIrqs) ==
    LET line == NextLine
        due == (IF line = VisLines THEN {VBlankIrq} ELSE {})
                 \cup (IF line = dispstat.compare THEN {VCountIrq} ELSE {})
    IN
    /\ videoCount <= executeCycles
    /\ dispstat.hblank
    /\ videoCount' = videoCount - executeCycles + HDraw
    /\ vcount' = line
    /\ dispstat' = [dispstat EXCEPT
           !.hblank = FALSE, !.match = (line = dispstat.compare),
           !.vblank = VBlankFrom(line)]
    /\ frameTicks' = IF line = 0 THEN 0 ELSE frameTicks + executeCycles
    /\ drawn' = IF line = 0 THEN 0 ELSE drawn
    /\ phase' = IF line = 0 THEN "host" ELSE phase
    /\ dma' = IF line = VisLines THEN DmaAfter("vblank") ELSE dma
    /\ RaiseInLoop(timerIrqs \cup (dispstat.irqs \cap due),
                   IF line = VisLines THEN DmaIrqs("vblank") ELSE {})

VideoStep(timerIrqs) ==
    MidLine(timerIrqs) \/ EnterHBlank(timerIrqs) \/ NewLine(timerIrqs)

\* Mutant: timers that do not run are looked at too.
DeadlinesOfAllTimers == {videoCount} \cup {timer[i].count : i \in Timers}

\* The events the next slice must not run past.
Deadlines ==
    {videoCount} \cup
    {timer[i].count : i \in {j \in Timers : timer[j].status = "prescale"}}

\* One iteration of the loop of update_gba.
UpdateGba ==
    /\ phase = "guest"
    /\ \E fired \in SUBSET Timers :
          /\ fired = {i \in Timers : Overflows(i, fired)}
          /\ timer' = TimersAfter(fired)
          /\ VideoStep(TimerIrqs(fired))
    /\ \E first \in Deadlines' :
          /\ \A deadline \in Deadlines' : first <= deadline
          /\ executeCycles' = first
-----------------------------------------------------------------------------
(***************************************************************************)
(* The guest's register writes, made while the CPU runs its slice.         *)
(***************************************************************************)
GuestRuns == phase = "guest" /\ ~halted

\* count_timer
CountTimer(i) ==
    /\ GuestRuns
    /\ \E reload \in Reloads : timer' = [timer EXCEPT ![i].reload = reload]
    /\ UNCHANGED <<executeCycles, displayVars, dma, irqVars, phase>>

\* Mutant: a timer that is started does not shorten the slice.
SliceKept(period) == executeCycles

SliceUpTo(period) == IF period < executeCycles THEN period ELSE executeCycles

\* trigger_timer with the enable bit set: only an inactive timer starts.
StartTimer(i) ==
    /\ GuestRuns
    /\ timer[i].status = "inactive"
    /\ \E status \in {"prescale", "cascade"}, scale \in Scales, irq \in IrqChoices :
          LET period == timer[i].reload * scale IN
          /\ timer' = [timer EXCEPT ![i] =
                 [status |-> status, count |-> period, reload |-> @.reload,
                  scale |-> scale, irq |-> irq]]
          /\ executeCycles' = SliceUpTo(period)
    /\ UNCHANGED <<displayVars, dma, irqVars, phase>>

\* trigger_timer with the enable bit clear
StopTimer(i) ==
    /\ GuestRuns
    /\ timer[i].status # "inactive"
    /\ timer' = [timer EXCEPT ![i].status = "inactive"]
    /\ UNCHANGED <<executeCycles, displayVars, dma, irqVars, phase>>

\* write_io_register16, DISPSTAT: the three flags are kept.
WriteDispstat ==
    /\ GuestRuns
    /\ \E irqs \in DisplayIrqs, compare \in Compares :
          dispstat' = [dispstat EXCEPT !.irqs = irqs, !.compare = compare]
    /\ UNCHANGED <<executeCycles, videoCount, vcount, frameTicks, drawn,
                   timer, dma, irqVars, phase>>

\* trigger_dma with the enable bit set: an immediate DMA runs at once.
StartDma(c) ==
    /\ GuestRuns
    /\ dma[c].start = "inactive"
    /\ \E start \in {"immediate", "vblank", "hblank"},
          repeat \in BOOLEAN, irq \in IrqChoices :
          /\ dma' = [dma EXCEPT ![c] =
                 [start |-> IF start = "immediate" THEN "inactive" ELSE start,
                  repeat |-> repeat, irq |-> irq]]
          /\ Raise(IF start = "immediate" /\ irq THEN {<<"dma", c>>} ELSE {})
    /\ UNCHANGED <<executeCycles, displayVars, timer, irqRaised, irqSetup,
                   phase>>

\* trigger_dma with the enable bit clear
StopDma(c) ==
    /\ GuestRuns
    /\ dma' = [dma EXCEPT ![c].start = "inactive"]
    /\ UNCHANGED <<executeCycles, displayVars, timer, irqVars, phase>>

\* Writes of IE, IME and P1CNT reach the default case: the request bits that
\* are already set are not looked at.
WriteIE ==
    /\ GuestRuns
    /\ regIE' \in EnableSets
    /\ UNCHANGED <<executeCycles, displayVars, timer, dma, irqRaised,
                   keypadIrq, regIF, regIME, cpsrI, halted, phase>>

WriteIME ==
    /\ GuestRuns
    /\ regIME' \in BOOLEAN
    /\ UNCHANGED <<executeCycles, displayVars, timer, dma, irqRaised,
                   keypadIrq, regIE, regIF, cpsrI, halted, phase>>

WriteP1Cnt ==
    /\ GuestRuns
    /\ keypadIrq' \in IrqChoices
    /\ UNCHANGED <<executeCycles, displayVars, timer, dma, irqRaised,
                   regIE, regIF, regIME, cpsrI, halted, phase>>

\* A write of IF acknowledges the bits written.
WriteIF ==
    /\ GuestRuns
    /\ \E acknowledged \in SUBSET regIF : regIF' = regIF \ acknowledged
    /\ UNCHANGED <<executeCycles, displayVars, timer, dma, irqRaised,
                   keypadIrq, regIE, regIME, cpsrI, halted, phase>>

\* A CPSR write that sets the mask bit
MaskIrqs ==
    /\ GuestRuns
    /\ cpsrI' = TRUE
    /\ UNCHANGED <<executeCycles, displayVars, timer, dma, irqRaised,
                   keypadIrq, regIE, regIF, regIME, halted, phase>>

\* A CPSR write that clears the mask bit: check_for_interrupts takes an
\* interrupt that is waiting.  Mutant: it does not look.
UnmaskUnchecked ==
    /\ GuestRuns
    /\ cpsrI' = FALSE
    /\ UNCHANGED <<executeCycles, displayVars, timer, dma, irqRaised,
                   keypadIrq, regIE, regIF, regIME, halted, phase>>

UnmaskIrqs ==
    /\ GuestRuns
    /\ cpsrI' = (regIME /\ regIE \cap regIF # {})
    /\ UNCHANGED <<executeCycles, displayVars, timer, dma, irqRaised,
                   keypadIrq, regIE, regIF, regIME, halted, phase>>

\* A write of HALTCNT
Halt ==
    /\ GuestRuns
    /\ halted' = TRUE
    /\ UNCHANGED <<executeCycles, displayVars, timer, dma, irqRaised,
                   keypadIrq, regIE, regIF, regIME, cpsrI, phase>>
-----------------------------------------------------------------------------
(***************************************************************************)
(* Before every frame the host polls the input: the menu may reset the     *)
(* machine, and a key that goes down may raise the keypad interrupt.  The  *)
(* host then runs the next frame.                                          *)
(***************************************************************************)
PollInput ==
    /\ phase = "host"
    /\ phase' = "guest"
    /\ \E pressed \in BOOLEAN :
          Raise(IF pressed /\ keypadIrq THEN {KeypadIrq} ELSE {})
    /\ UNCHANGED <<executeCycles, displayVars, timer, dma, irqRaised, irqSetup>>

\* init_main, init_memory and init_cpu.  The CPU starts in the game, or in the
\* BIOS with interrupts masked.
Init ==
    /\ executeCycles = HDraw
    /\ videoCount = HDraw
    /\ vcount = 0
    /\ dispstat = ClearedDispstat
    /\ timer = [i \in Timers |-> InactiveTimer]
    /\ dma = [c \in Channels |-> InactiveDma]
    /\ irqRaised = {}
    /\ keypadIrq = FALSE
    /\ regIE = {}
    /\ regIF = {}
    /\ regIME = FALSE
    /\ cpsrI \in BOOLEAN
    /\ halted = FALSE
    /\ phase = "host"
    /\ frameTicks = 0
    /\ drawn = 0


\* reset_gba from the menu: of a timer only its status and reload are reset,
\* of a DMA channel only its start type.
Reset ==
    /\ phase = "host"
    /\ executeCycles' = HDraw
    /\ videoCount' = HDraw
    /\ vcount' = 0
    /\ dispstat' = ClearedDispstat
    /\ timer' = [i \in Timers |-> [timer[i] EXCEPT !.status = "inactive",
                                                  !.reload = ResetReload]]
    /\ dma' = [c \in Channels |-> [dma[c] EXCEPT !.start = "inactive"]]
    /\ irqRaised' = {}
    /\ keypadIrq' = FALSE
    /\ regIE' = {}
    /\ regIF' = {}
    /\ regIME' = FALSE
    /\ cpsrI' \in BOOLEAN
    /\ halted' = FALSE
    /\ phase' = "host"
    /\ frameTicks' = 0
    /\ drawn' = 0

GuestStep ==
    \/ \E i \in Timers : CountTimer(i) \/ StartTimer(i) \/ StopTimer(i)
    \/ \E c \in Channels : StartDma(c) \/ StopDma(c)
    \/ WriteDispstat \/ WriteIE \/ WriteIME \/ WriteP1Cnt \/ WriteIF
    \/ MaskIrqs \/ UnmaskIrqs \/ Halt

Next == UpdateGba \/ GuestStep \/ PollInput \/ Reset

(***************************************************************************)
(* The CPU loop subtracts cycles for every instruction, or none while it   *)
(* is halted, and calls update_gba when they are used up; until the user   *)
(* quits, the host loop starts a frame after every frame.  The guest       *)
(* promises nothing.                                                       *)
(***************************************************************************)
Fairness == WF_vars(UpdateGba) /\ WF_vars(PollInput)

Spec == Init /\ [][Next]_vars
FairSpec == Spec /\ Fairness
-----------------------------------------------------------------------------
(***************************************************************************)
(* Correctness.                                                            *)
(***************************************************************************)
TimerState == [status: {"inactive", "prescale", "cascade"}, count: Int,
               reload: Reloads \cup {ResetReload}, scale: Scales \cup {1},
               irq: BOOLEAN]
DmaState == [start: {"inactive", "vblank", "hblank"}, repeat: BOOLEAN, irq: BOOLEAN]
DispstatState == [vblank: BOOLEAN, hblank: BOOLEAN, match: BOOLEAN,
                  irqs: SUBSET DisplayIrq, compare: Nat]

\* The registers, counters and flags stay in the ranges the code's types and
\* tables give them; nothing else is claimed.
TypeOK ==
    /\ executeCycles \in Int
    /\ videoCount \in Int
    /\ vcount \in 0 .. Lines - 1
    /\ dispstat \in DispstatState
    /\ timer \in [Timers -> TimerState]
    /\ dma \in [Channels -> DmaState]
    /\ irqRaised \subseteq Irq
    /\ keypadIrq \in BOOLEAN
    /\ regIE \subseteq Irq
    /\ regIF \subseteq Irq
    /\ regIME \in BOOLEAN
    /\ cpsrI \in BOOLEAN
    /\ halted \in BOOLEAN
    /\ phase \in {"guest", "host"}
    /\ frameTicks \in Int
    /\ drawn \in Int

\* Whatever timers the guest starts, stops and reloads in the middle of a slice,
\* the cycles update_gba is about to charge are at least one and run past no
\* event: neither the next display event nor the overflow of a running timer.
\* Every overflow and every line change therefore happens on its very cycle, and
\* no counter skips one or goes below zero.
NoEventOvershot ==
    /\ 0 < executeCycles
    /\ executeCycles <= videoCount
    /\ \A i \in Timers :
          /\ timer[i].status = "prescale" => executeCycles <= timer[i].count
          /\ timer[i].status = "cascade" => 0 < timer[i].count

\* Three things kept in three places agree at all times: the ticks charged since
\* the frame began, the position on the screen (VCOUNT, the H-blank flag and
\* video_count) and the scanlines drawn; the V-blank flag is set on exactly the
\* lines below the picture.
FramePosition ==
    /\ frameTicks = vcount * LineCycles
                      + (IF dispstat.hblank THEN LineCycles ELSE HDraw) - videoCount
    /\ dispstat.vblank <=> vcount >= VisLines
    /\ drawn = IF vcount >= VisLines THEN VisLines
               ELSE vcount + (IF dispstat.hblank THEN 1 ELSE 0)

\* A frame that update_gba completes has taken the ticks of Lines whole lines, to
\* the cycle, and has drawn every visible line once.
FrameLength ==
    [][phase = "guest" /\ phase' = "host" =>
          frameTicks + executeCycles = Lines * LineCycles /\ drawn = VisLines]_vars

\* An interrupt that is requested, enabled and not masked.
Deliverable == regIME /\ ~cpsrI /\ regIE \cap regIF # {}

\* No step leaves behind an interrupt the CPU could take, except a write of IE or
\* IME: those writes do not look at the requests that are already there.
InterruptsTaken ==
    [][Deliverable' => Deliverable \/ regIE' # regIE \/ regIME' # regIME]_vars

\* update_gba raises irq_raised again in every iteration while the CPU is halted.
\* That is harmless: what it carries over is still requested, and none of it can
\* be taken now, so no interrupt is taken for an event of an earlier iteration.
NothingRaisedTwice ==
    /\ irqRaised \subseteq regIF
    /\ irqRaised # {} => halted /\ phase = "guest"
    /\ regIME /\ ~cpsrI => irqRaised \cap regIE = {}

\* Every frame is completed, whether the CPU runs, starts and stops timers all
\* the time, or is halted for good.
FramesComplete == []<>(phase = "host")

\* Some interrupt that is enabled is sure to be raised in time.
WakeUpArmed ==
    \/ VBlankIrq \in regIE \cap dispstat.irqs
    \/ HBlankIrq \in regIE \cap dispstat.irqs
    \/ VCountIrq \in regIE \cap dispstat.irqs /\ dispstat.compare < Lines
    \/ \E i \in Timers : /\ timer[i].status = "prescale"
                         /\ timer[i].irq
                         /\ <<"timer", i>> \in regIE

\* A halted CPU that can take interrupts wakes up when an event it waits for is
\* sure to come.
HaltEnds == (halted /\ regIME /\ ~cpsrI /\ WakeUpArmed) ~> ~halted
=============================================================================
