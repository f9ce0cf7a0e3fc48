--------------------------- MODULE GbaClockProofs ---------------------------
(***************************************************************************)
(* Proofs about GbaClock, for any number of timers and DMA channels, any   *)
(* reload values and prescalers and any size of the screen: no event is    *)
(* overshot, the position in the frame is exact, timers keep exact time,   *)
(* interrupts are taken, the frame goes on and the halted CPU misses none  *)
(* of the events that it waits for.                                        *)
(***************************************************************************)
EXTENDS GbaClock, WellFoundedInduction, TLAPS

(***************************************************************************)
(* Facts about the operators of the model.                                 *)
(***************************************************************************)
LEMMA ReloadPositive ==
    ASSUME NEW reload \in Reloads \cup {ResetReload}
    PROVE  reload \in Nat \ {0}
BY ReloadsAssumption

LEMMA ScalePositive ==
    ASSUME NEW scale \in Scales \cup {1}
    PROVE  scale \in Nat \ {0}
BY ScalesAssumption

LEMMA ProductPositive ==
    ASSUME NEW a \in Nat \ {0}, NEW b \in Nat \ {0}
    PROVE  a * b \in Nat \ {0}
OBVIOUS

\* A timer is never programmed with an empty period.
LEMMA PeriodPositive ==
    ASSUME TypeOK, NEW i \in Timers
    PROVE  timer[i].reload * timer[i].scale \in Nat \ {0}
<1>1. /\ timer[i].reload \in Reloads \cup {ResetReload}
      /\ timer[i].scale \in Scales \cup {1}
    BY DEF TypeOK, TimerState
<1>2. timer[i].reload \in Nat \ {0}
    BY <1>1, ReloadPositive
<1>3. timer[i].scale \in Nat \ {0}
    BY <1>1, ScalePositive
<1> QED
    BY <1>2, <1>3, ProductPositive

LEMMA TimersAfterType ==
    ASSUME TypeOK, NEW fired \in SUBSET Timers
    PROVE  TimersAfter(fired) \in [Timers -> TimerState]
<1> SUFFICES ASSUME NEW i \in Timers
             PROVE  [timer[i] EXCEPT !.count =
                        IF i \in fired
                          THEN Remaining(i, fired) + timer[i].reload * timer[i].scale
                          ELSE Remaining(i, fired)] \in TimerState
    BY DEF TimersAfter
<1>1. timer[i] \in TimerState /\ executeCycles \in Int
    BY DEF TypeOK
<1>2. Remaining(i, fired) \in Int
    BY <1>1 DEF Remaining, TimerState
<1>3. timer[i].reload * timer[i].scale \in Int
    BY PeriodPositive
<1> QED
    BY <1>1, <1>2, <1>3 DEF TimerState

LEMMA DmaAfterType ==
    ASSUME TypeOK, NEW start
    PROVE  DmaAfter(start) \in [Channels -> DmaState]
BY DEF TypeOK, DmaAfter, DmaState

LEMMA IrqsType ==
    ASSUME NEW fired \in SUBSET Timers, NEW start
    PROVE  /\ TimerIrqs(fired) \subseteq Irq
           /\ DmaIrqs(start) \subseteq Irq
BY DEF TimerIrqs, DmaIrqs, Irq

\* What the interrupt registers become when a step raises interrupts.
LEMMA RaiseType ==
    ASSUME TypeOK, NEW raised \in SUBSET Irq, Raise(raised)
    PROVE  regIF' \subseteq Irq /\ cpsrI' \in BOOLEAN /\ halted' \in BOOLEAN
BY DEF TypeOK, Raise

LEMMA RaiseInLoopType ==
    ASSUME TypeOK, NEW raised \in SUBSET Irq, NEW byDma \in SUBSET Irq,
           RaiseInLoop(raised, byDma)
    PROVE  /\ regIF' \subseteq Irq
           /\ cpsrI' \in BOOLEAN
           /\ halted' \in BOOLEAN
           /\ irqRaised' \subseteq Irq
           /\ keypadIrq' \in BOOLEAN
           /\ regIE' \subseteq Irq
           /\ regIME' \in BOOLEAN
<1>1. irqRaised \cup raised \cup byDma \in SUBSET Irq
    BY DEF TypeOK
<1>2. Raise(irqRaised \cup raised \cup byDma)
    BY DEF RaiseInLoop
<1>3. regIF' \subseteq Irq /\ cpsrI' \in BOOLEAN /\ halted' \in BOOLEAN
    BY <1>1, <1>2, RaiseType
<1> QED
    BY <1>1, <1>3 DEF RaiseInLoop, KeptInLoop, irqSetup, TypeOK
-----------------------------------------------------------------------------
(***************************************************************************)
(* Type correctness.                                                       *)
(***************************************************************************)
LEMMA InitType == Init => TypeOK
<1> SUFFICES ASSUME Init PROVE TypeOK
    OBVIOUS
<1>1. /\ executeCycles \in Int /\ videoCount \in Int
      /\ vcount \in 0 .. Lines - 1 /\ frameTicks \in Int /\ drawn \in Int
    BY DisplayAssumption DEF Init
<1>2. dispstat \in DispstatState
    BY DEF Init, ClearedDispstat, DispstatState
<1>3. InactiveTimer \in TimerState
    BY DEF InactiveTimer, TimerState
<1>4. timer \in [Timers -> TimerState]
    BY <1>3 DEF Init
<1>5. dma \in [Channels -> DmaState]
    BY DEF Init, InactiveDma, DmaState
<1>6. /\ irqRaised \subseteq Irq /\ regIE \subseteq Irq /\ regIF \subseteq Irq
      /\ keypadIrq \in BOOLEAN /\ regIME \in BOOLEAN /\ cpsrI \in BOOLEAN
      /\ halted \in BOOLEAN /\ phase \in {"guest", "host"}
    BY DEF Init
<1> QED
    BY <1>1, <1>2, <1>4, <1>5, <1>6 DEF TypeOK

\* The three ways the display moves on keep their part of the type.
LEMMA VideoStepType ==
    ASSUME TypeOK, NEW fired \in SUBSET Timers, VideoStep(TimerIrqs(fired))
    PROVE  /\ videoCount' \in Int
           /\ vcount' \in 0 .. Lines - 1
           /\ dispstat' \in DispstatState
           /\ dma' \in [Channels -> DmaState]
           /\ irqRaised' \subseteq Irq
           /\ keypadIrq' \in BOOLEAN
           /\ regIE' \subseteq Irq
           /\ regIF' \subseteq Irq
           /\ regIME' \in BOOLEAN
           /\ cpsrI' \in BOOLEAN
           /\ halted' \in BOOLEAN
           /\ phase' \in {"guest", "host"}
           /\ frameTicks' \in Int
           /\ drawn' \in Int
<1> DEFINE timerIrqs == TimerIrqs(fired)
<1>1. timerIrqs \in SUBSET Irq
    BY IrqsType
<1>2. /\ executeCycles \in Int /\ videoCount \in Int /\ frameTicks \in Int /\ drawn \in Int
      /\ vcount \in 0 .. Lines - 1 /\ dispstat \in DispstatState
      /\ dispstat.irqs \in SUBSET DisplayIrq /\ phase \in {"guest", "host"}
    BY DEF TypeOK, DispstatState
<1>3. DisplayIrq \subseteq Irq
    BY DEF Irq
<1>4. HDraw \in Int /\ HBlank \in Int /\ Lines \in Nat /\ 0 < Lines
    BY DisplayAssumption
<1>5. DmaAfter("hblank") \in [Channels -> DmaState] /\ DmaAfter("vblank") \in [Channels -> DmaState]
    BY DmaAfterType
<1>6. dma \in [Channels -> DmaState]
    BY DEF TypeOK
<1>7. DmaIrqs("hblank") \in SUBSET Irq /\ DmaIrqs("vblank") \in SUBSET Irq
    BY IrqsType
<1> HIDE DEF timerIrqs
<1>a. CASE MidLine(timerIrqs)
  <2>1. RaiseInLoop(timerIrqs, {})
      BY <1>a DEF MidLine
  <2>2. /\ videoCount' \in Int /\ frameTicks' \in Int
        /\ UNCHANGED <<vcount, dispstat, dma, phase, drawn>>
      BY <1>a, <1>2 DEF MidLine
  <2> QED
      BY <2>1, <2>2, <1>1, <1>2, <1>6, RaiseInLoopType
<1>b. CASE EnterHBlank(timerIrqs)
  <2> DEFINE raised == timerIrqs \cup (dispstat.irqs \cap {HBlankIrq})
             byDma == IF dispstat.vblank THEN {} ELSE DmaIrqs("hblank")
  <2>1. RaiseInLoop(raised, byDma)
      BY <1>b DEF EnterHBlank
  <2>2. raised \in SUBSET Irq /\ byDma \in SUBSET Irq
      BY <1>1, <1>2, <1>3, <1>7
  <2>3. /\ videoCount' \in Int /\ frameTicks' \in Int /\ drawn' \in Int
        /\ UNCHANGED <<vcount, phase>>
      BY <1>b, <1>2, <1>4 DEF EnterHBlank
  <2>4. dispstat' \in DispstatState
      BY <1>b, <1>2 DEF EnterHBlank, DispstatState
  <2>5. dma' \in [Channels -> DmaState]
      BY <1>b, <1>5, <1>6 DEF EnterHBlank
  <2> HIDE DEF raised, byDma
  <2> QED
      BY <2>1, <2>2, <2>3, <2>4, <2>5, <1>2, RaiseInLoopType
<1>c. CASE NewLine(timerIrqs)
  <2> DEFINE due == (IF NextLine = VisLines THEN {VBlankIrq} ELSE {})
                       \cup (IF NextLine = dispstat.compare THEN {VCountIrq} ELSE {})
             raised == timerIrqs \cup (dispstat.irqs \cap due)
             byDma == IF NextLine = VisLines THEN DmaIrqs("vblank") ELSE {}
  <2>1. RaiseInLoop(raised, byDma)
      BY <1>c DEF NewLine
  <2>2. raised \in SUBSET Irq
      BY <1>1, <1>2, <1>3
  <2>3. byDma \in SUBSET Irq
      BY <1>7
  <2>4. NextLine \in 0 .. Lines - 1
      BY <1>2, <1>4 DEF NextLine
  <2>5. vcount' = NextLine
      BY <1>c DEF NewLine
  <2>6. /\ videoCount' \in Int /\ frameTicks' \in Int /\ drawn' \in Int
        /\ phase' \in {"guest", "host"}
      BY <1>c, <1>2, <1>4 DEF NewLine
  <2>7. VBlankFrom(NextLine) \in BOOLEAN
      BY DEF VBlankFrom
  <2>8. dispstat' \in DispstatState
      BY <1>c, <1>2, <2>7 DEF NewLine, DispstatState
  <2>9. dma' \in [Channels -> DmaState]
      BY <1>c, <1>5, <1>6 DEF NewLine
  <2> HIDE DEF raised, byDma
  <2> QED
      BY <2>1, <2>2, <2>3, <2>4, <2>5, <2>6, <2>8, <2>9, RaiseInLoopType
<1> QED
    BY <1>a, <1>b, <1>c DEF VideoStep, timerIrqs

LEMMA DeadlinesType ==
    ASSUME TypeOK PROVE Deadlines \subseteq Int
BY DEF Deadlines, TypeOK, TimerState

LEMMA UpdateGbaType == TypeOK /\ UpdateGba => TypeOK'
<1> SUFFICES ASSUME TypeOK, UpdateGba PROVE TypeOK'
    OBVIOUS
<1>1. PICK fired \in SUBSET Timers :
          /\ timer' = TimersAfter(fired)
          /\ VideoStep(TimerIrqs(fired))
    BY DEF UpdateGba
<1>2. timer' \in [Timers -> TimerState]
    BY <1>1, TimersAfterType
<1>3. videoCount' \in Int
    BY <1>1, VideoStepType
<1>4. PICK first \in Deadlines' : executeCycles' = first
    BY DEF UpdateGba
<1>5. executeCycles' \in Int
    BY <1>2, <1>3, <1>4 DEF Deadlines, TimerState
<1> QED
    BY <1>1, <1>2, <1>5, VideoStepType DEF TypeOK

LEMMA GuestStepType == TypeOK /\ GuestStep => TypeOK'
<1> SUFFICES ASSUME TypeOK, GuestStep PROVE TypeOK'
    OBVIOUS
<1> USE DEF displayVars, irqVars, irqSetup
<1>1. ASSUME NEW i \in Timers, CountTimer(i) PROVE TypeOK'
    BY <1>1 DEF TypeOK, CountTimer, TimerState
<1>2. ASSUME NEW i \in Timers, StartTimer(i) PROVE TypeOK'
  <2>1. PICK status \in {"prescale", "cascade"}, scale \in Scales, irq \in IrqChoices :
            /\ timer' = [timer EXCEPT ![i] =
                   [status |-> status, count |-> timer[i].reload * scale,
                    reload |-> timer[i].reload, scale |-> scale, irq |-> irq]]
            /\ executeCycles' = SliceUpTo(timer[i].reload * scale)
      BY <1>2 DEF StartTimer
  <2>2. timer[i].reload \in Reloads \cup {ResetReload}
      BY DEF TypeOK, TimerState
  <2>3. timer[i].reload \in Nat \ {0} /\ scale \in Nat \ {0}
      BY <2>2, ReloadPositive, ScalePositive
  <2>4. timer[i].reload * scale \in Int
      BY <2>3
  <2>5. irq \in BOOLEAN
      BY InputsAssumption
  <2>6. timer' \in [Timers -> TimerState]
      BY <2>1, <2>2, <2>4, <2>5 DEF TypeOK, TimerState
  <2>7. executeCycles' \in Int
      BY <2>1, <2>4 DEF TypeOK, SliceUpTo
  <2> QED
      BY <1>2, <2>6, <2>7 DEF TypeOK, StartTimer
<1>3. ASSUME NEW i \in Timers, StopTimer(i) PROVE TypeOK'
    BY <1>3 DEF TypeOK, StopTimer, TimerState
<1>4. ASSUME NEW c \in Channels, StartDma(c) PROVE TypeOK'
  <2>1. PICK start \in {"immediate", "vblank", "hblank"},
            repeat \in BOOLEAN, irq \in IrqChoices :
            /\ dma' = [dma EXCEPT ![c] =
                   [start |-> IF start = "immediate" THEN "inactive" ELSE start,
                    repeat |-> repeat, irq |-> irq]]
            /\ Raise(IF start = "immediate" /\ irq THEN {<<"dma", c>>} ELSE {})
      BY <1>4 DEF StartDma
  <2>2. irq \in BOOLEAN
      BY InputsAssumption
  <2>3. dma' \in [Channels -> DmaState]
      BY <2>1, <2>2 DEF TypeOK, DmaState
  <2>4. (IF start = "immediate" /\ irq THEN {<<"dma", c>>} ELSE {}) \in SUBSET Irq
      BY DEF Irq
  <2>5. regIF' \subseteq Irq /\ cpsrI' \in BOOLEAN /\ halted' \in BOOLEAN
      BY <2>1, <2>4, RaiseType
  <2> QED
      BY <1>4, <2>3, <2>5 DEF TypeOK, StartDma
<1>5. ASSUME NEW c \in Channels, StopDma(c) PROVE TypeOK'
    BY <1>5 DEF TypeOK, StopDma, DmaState
<1>6. CASE WriteDispstat
  <2>1. PICK irqs \in DisplayIrqs, compare \in Compares :
            dispstat' = [dispstat EXCEPT !.irqs = irqs, !.compare = compare]
      BY <1>6 DEF WriteDispstat
  <2>2. irqs \in SUBSET DisplayIrq /\ compare \in Nat
      BY InputsAssumption
  <2>3. dispstat' \in DispstatState
      BY <2>1, <2>2 DEF TypeOK, DispstatState
  <2> QED
      BY <1>6, <2>3 DEF TypeOK, WriteDispstat
<1>7. CASE WriteIE
  <2>1. regIE' \subseteq Irq
      BY <1>7, InputsAssumption DEF WriteIE
  <2> QED
      BY <1>7, <2>1 DEF TypeOK, WriteIE
<1>8. CASE WriteP1Cnt
  <2>1. keypadIrq' \in BOOLEAN
      BY <1>8, InputsAssumption DEF WriteP1Cnt
  <2> QED
      BY <1>8, <2>1 DEF TypeOK, WriteP1Cnt
<1>9. CASE WriteIME
    BY <1>9 DEF TypeOK, WriteIME
<1>10. CASE WriteIF
    BY <1>10 DEF TypeOK, WriteIF
<1>11. CASE MaskIrqs
    BY <1>11 DEF TypeOK, MaskIrqs
<1>12. CASE UnmaskIrqs
    BY <1>12 DEF TypeOK, UnmaskIrqs
<1>13. CASE Halt
    BY <1>13 DEF TypeOK, Halt
<1> QED
    BY <1>1, <1>2, <1>3, <1>4, <1>5, <1>6, <1>7, <1>8, <1>9, <1>10, <1>11, <1>12,
       <1>13 DEF GuestStep

LEMMA PollInputType == TypeOK /\ PollInput => TypeOK'
<1> SUFFICES ASSUME TypeOK, PollInput PROVE TypeOK'
    OBVIOUS
<1>1. PICK pressed \in BOOLEAN :
          Raise(IF pressed /\ keypadIrq THEN {KeypadIrq} ELSE {})
    BY DEF PollInput
<1>2. (IF pressed /\ keypadIrq THEN {KeypadIrq} ELSE {}) \in SUBSET Irq
    BY DEF Irq
<1>3. regIF' \subseteq Irq /\ cpsrI' \in BOOLEAN /\ halted' \in BOOLEAN
    BY <1>1, <1>2, RaiseType
<1> QED
    BY <1>3 DEF TypeOK, PollInput, displayVars, irqSetup

LEMMA ResetType == TypeOK /\ Reset => TypeOK'
<1> SUFFICES ASSUME TypeOK, Reset PROVE TypeOK'
    OBVIOUS
<1>0. HDraw \in Int /\ 0 \in 0 .. Lines - 1
    BY DisplayAssumption
<1>1. /\ executeCycles' = HDraw /\ videoCount' = HDraw
      /\ vcount' = 0 /\ frameTicks' = 0 /\ drawn' = 0
    BY DEF Reset
<1>2. dispstat' \in DispstatState
    BY DEF Reset, ClearedDispstat, DispstatState
<1>3. timer' \in [Timers -> TimerState]
    BY DEF Reset, TypeOK, TimerState
<1>4. dma' \in [Channels -> DmaState]
    BY DEF Reset, TypeOK, DmaState
<1>5. /\ irqRaised' \subseteq Irq /\ regIE' \subseteq Irq /\ regIF' \subseteq Irq
      /\ keypadIrq' \in BOOLEAN /\ regIME' \in BOOLEAN /\ cpsrI' \in BOOLEAN
      /\ halted' \in BOOLEAN /\ phase' \in {"guest", "host"}
    BY DEF Reset
<1> QED
    BY <1>0, <1>1, <1>2, <1>3, <1>4, <1>5 DEF TypeOK

\* Every register, counter and flag of the clock keeps its type, whatever the
\* guest writes and however many timers and channels there are.
THEOREM TypeCorrect == Spec => []TypeOK
<1>1. Init => TypeOK
    BY InitType
<1>2. TypeOK /\ [Next]_vars => TypeOK'
  <2> SUFFICES ASSUME TypeOK, [Next]_vars PROVE TypeOK'
      OBVIOUS
  <2>1. CASE UNCHANGED vars
      BY <2>1 DEF TypeOK, vars, displayVars, irqVars
  <2> QED
      BY <2>1, UpdateGbaType, GuestStepType, PollInputType, ResetType DEF Next
<1> QED
    BY <1>1, <1>2, PTL DEF Spec
-----------------------------------------------------------------------------
(***************************************************************************)
(* No event is overshot.                                                   *)
(***************************************************************************)

\* The count of a timer that runs, after update_timers.
LEMMA RunningCountPositive ==
    ASSUME TypeOK, NoEventOvershot, NEW fired,
           fired = {i \in Timers : Overflows(i, fired)},
           NEW i \in Timers, timer[i].status # "inactive"
    PROVE  TimersAfter(fired)[i].count \in Int /\ 0 < TimersAfter(fired)[i].count
<1> DEFINE period == timer[i].reload * timer[i].scale
<1>1. /\ timer[i] \in TimerState /\ executeCycles \in Int
      /\ timer[i].count \in Int
      /\ timer[i].status \in {"prescale", "cascade"}
    BY DEF TypeOK, TimerState
<1>2. period \in Nat \ {0}
    BY PeriodPositive
<1> HIDE DEF period
<1>3. Remaining(i, fired) \in Int /\ 0 <= Remaining(i, fired)
    BY <1>1 DEF Remaining, NoEventOvershot
<1>4. i \notin fired => 0 < Remaining(i, fired)
    BY <1>3 DEF Overflows
<1>5. TimersAfter(fired)[i].count =
         IF i \in fired THEN Remaining(i, fired) + period ELSE Remaining(i, fired)
    BY <1>1 DEF TimersAfter, TimerState, period
<1> QED
    BY <1>2, <1>3, <1>4, <1>5

LEMMA StatusKept ==
    ASSUME TypeOK, NEW fired, NEW i \in Timers
    PROVE  TimersAfter(fired)[i].status = timer[i].status
BY DEF TypeOK, TimersAfter, TimerState

LEMMA UpdateGbaDeadlines ==
    TypeOK /\ NoEventOvershot /\ UpdateGba => NoEventOvershot'
<1> SUFFICES ASSUME TypeOK, NoEventOvershot, UpdateGba PROVE NoEventOvershot'
    OBVIOUS
<1>1. PICK fired \in SUBSET Timers :
          /\ fired = {i \in Timers : Overflows(i, fired)}
          /\ timer' = TimersAfter(fired)
          /\ VideoStep(TimerIrqs(fired))
    BY DEF UpdateGba
<1>2. PICK first \in Deadlines' :
          /\ \A deadline \in Deadlines' : first <= deadline
          /\ executeCycles' = first
    BY DEF UpdateGba
<1>3. videoCount' \in Int /\ 0 < videoCount'
  <2>1. /\ executeCycles \in Int /\ videoCount \in Int /\ executeCycles <= videoCount
        /\ HDraw \in Nat \ {0} /\ HBlank \in Nat \ {0}
      BY DisplayAssumption DEF TypeOK, NoEventOvershot
  <2> QED
      BY <1>1, <2>1 DEF VideoStep, MidLine, EnterHBlank, NewLine
<1>4. ASSUME NEW i \in Timers, timer'[i].status # "inactive"
      PROVE  timer'[i].count \in Int /\ 0 < timer'[i].count
    BY <1>1, <1>4, StatusKept, RunningCountPositive
<1>5. \A deadline \in Deadlines' : deadline \in Int /\ 0 < deadline
    BY <1>3, <1>4 DEF Deadlines
<1>6. executeCycles' \in Int /\ 0 < executeCycles'
    BY <1>2, <1>5
<1>7. executeCycles' <= videoCount'
    BY <1>2 DEF Deadlines
<1>8. ASSUME NEW i \in Timers, timer'[i].status = "prescale"
      PROVE  executeCycles' <= timer'[i].count
    BY <1>2, <1>8 DEF Deadlines
<1> QED
    BY <1>4, <1>6, <1>7, <1>8 DEF NoEventOvershot

LEMMA StartTimerDeadlines ==
    ASSUME TypeOK, NoEventOvershot, NEW i \in Timers, StartTimer(i)
    PROVE  NoEventOvershot'
<1>1. PICK status \in {"prescale", "cascade"}, scale \in Scales, irq \in IrqChoices :
          /\ timer' = [timer EXCEPT ![i] =
                 [status |-> status, count |-> timer[i].reload * scale,
                  reload |-> timer[i].reload, scale |-> scale, irq |-> irq]]
          /\ executeCycles' = SliceUpTo(timer[i].reload * scale)
    BY DEF StartTimer
<1> DEFINE period == timer[i].reload * scale
<1>2. timer[i].reload \in Reloads \cup {ResetReload}
    BY DEF TypeOK, TimerState
<1>3. timer[i].reload \in Nat \ {0} /\ scale \in Nat \ {0}
    BY <1>2, ReloadPositive, ScalePositive
<1>4. period \in Nat \ {0}
    BY <1>3, ProductPositive
<1>5. timer'[i].count = period
    BY <1>1 DEF TypeOK
<1>6. executeCycles' = SliceUpTo(period)
    BY <1>1
<1> HIDE DEF period
<1>7. /\ executeCycles \in Int /\ 0 < executeCycles
      /\ videoCount \in Int /\ executeCycles <= videoCount
    BY DEF TypeOK, NoEventOvershot
<1>8. /\ executeCycles' \in Int /\ 0 < executeCycles'
      /\ executeCycles' <= executeCycles /\ executeCycles' <= period
    BY <1>4, <1>6, <1>7 DEF SliceUpTo
<1>9. videoCount' = videoCount
    BY DEF StartTimer, displayVars
<1>10. ASSUME NEW j \in Timers
       PROVE  /\ timer'[j].status = "prescale" => executeCycles' <= timer'[j].count
              /\ timer'[j].status = "cascade" => 0 < timer'[j].count
  <2>1. CASE j = i
      BY <2>1, <1>4, <1>5, <1>8
  <2>2. CASE j # i
    <3>1. timer'[j] = timer[j] /\ timer[j].count \in Int
        BY <2>2, <1>1 DEF TypeOK, TimerState
    <3> QED
        BY <3>1, <1>7, <1>8 DEF NoEventOvershot
  <2> QED
      BY <2>1, <2>2
<1> QED
    BY <1>7, <1>8, <1>9, <1>10 DEF NoEventOvershot

\* The steps that start no timer leave the counts of those that run alone.
LEMMA GuestStepDeadlines ==
    TypeOK /\ NoEventOvershot /\ GuestStep => NoEventOvershot'
<1> SUFFICES ASSUME TypeOK, NoEventOvershot, GuestStep PROVE NoEventOvershot'
    OBVIOUS
<1>1. ASSUME NEW i \in Timers, StartTimer(i) PROVE NoEventOvershot'
    BY <1>1, StartTimerDeadlines
<1>2. ASSUME UNCHANGED <<executeCycles, videoCount, timer>> PROVE NoEventOvershot'
    BY <1>2 DEF NoEventOvershot
<1>3. ASSUME NEW i \in Timers, CountTimer(i) PROVE NoEventOvershot'
    BY <1>3 DEF CountTimer, displayVars, NoEventOvershot, TypeOK, TimerState
<1>4. ASSUME NEW i \in Timers, StopTimer(i) PROVE NoEventOvershot'
    BY <1>4 DEF StopTimer, displayVars, NoEventOvershot, TypeOK, TimerState
<1>5. ASSUME NEW c \in Channels, StartDma(c) \/ StopDma(c)
      PROVE  UNCHANGED <<executeCycles, videoCount, timer>>
    BY <1>5 DEF StartDma, StopDma, displayVars
<1>6. ASSUME \/ WriteDispstat \/ WriteIE \/ WriteIME \/ WriteP1Cnt \/ WriteIF
             \/ MaskIrqs \/ UnmaskIrqs \/ Halt
      PROVE  UNCHANGED <<executeCycles, videoCount, timer>>
    BY <1>6 DEF WriteDispstat, WriteIE, WriteIME, WriteP1Cnt, WriteIF, MaskIrqs,
                UnmaskIrqs, Halt, displayVars
<1> QED
    BY <1>1, <1>2, <1>3, <1>4, <1>5, <1>6 DEF GuestStep

LEMMA ResetDeadlines == TypeOK /\ Reset => NoEventOvershot'
<1> SUFFICES ASSUME TypeOK, Reset PROVE NoEventOvershot'
    OBVIOUS
<1>1. executeCycles' = HDraw /\ videoCount' = HDraw
    BY DEF Reset
<1>2. HDraw \in Nat \ {0}
    BY DisplayAssumption
<1>3. ASSUME NEW i \in Timers PROVE timer'[i].status = "inactive"
    BY DEF Reset, TypeOK, TimerState
<1> QED
    BY <1>1, <1>2, <1>3 DEF NoEventOvershot

\* The next update_gba always charges at least one cycle and never more than is
\* left to the next display event or timer overflow: no event is overshot, so
\* timers keep exact time and the loop of update_gba always makes progress.
THEOREM Deadline == Spec => []NoEventOvershot
<1>1. Init => NoEventOvershot
  <2> SUFFICES ASSUME Init PROVE NoEventOvershot
      OBVIOUS
  <2>1. executeCycles = HDraw /\ videoCount = HDraw
      BY DEF Init
  <2>2. HDraw \in Nat \ {0}
      BY DisplayAssumption
  <2>3. \A i \in Timers : timer[i].status = "inactive"
      BY DEF Init, InactiveTimer
  <2> QED
      BY <2>1, <2>2, <2>3 DEF NoEventOvershot
<1>2. TypeOK /\ NoEventOvershot /\ [Next]_vars => NoEventOvershot'
  <2> SUFFICES ASSUME TypeOK, NoEventOvershot, [Next]_vars PROVE NoEventOvershot'
      OBVIOUS
  <2>1. CASE PollInput
      BY <2>1 DEF PollInput, displayVars, NoEventOvershot
  <2>2. CASE UNCHANGED vars
      BY <2>2 DEF NoEventOvershot, vars, displayVars
  <2> QED
      BY <2>1, <2>2, UpdateGbaDeadlines, GuestStepDeadlines, ResetDeadlines DEF Next
<1> QED
    BY <1>1, <1>2, TypeCorrect, PTL DEF Spec
-----------------------------------------------------------------------------
(***************************************************************************)
(* The position in the frame.                                              *)
(***************************************************************************)
LEMMA NextLineTicks ==
    ASSUME NEW line \in Int, NEW cycles \in Int
    PROVE  (line + 1) * cycles = line * cycles + cycles
OBVIOUS

\* A display event falls due exactly when it is handled.
LEMMA EventExact ==
    ASSUME TypeOK, NoEventOvershot, videoCount <= executeCycles
    PROVE  videoCount = executeCycles
BY DEF TypeOK, NoEventOvershot

LEMMA UpdateGbaPosition ==
    TypeOK /\ NoEventOvershot /\ FramePosition /\ UpdateGba => FramePosition'
<1> SUFFICES ASSUME TypeOK, NoEventOvershot, FramePosition, UpdateGba
             PROVE  FramePosition'
    OBVIOUS
<1>1. PICK irqs : VideoStep(irqs)
    BY DEF UpdateGba
<1>2. /\ executeCycles \in Int /\ videoCount \in Int /\ frameTicks \in Int
      /\ drawn \in Int /\ vcount \in 0 .. Lines - 1
      /\ dispstat.hblank \in BOOLEAN /\ dispstat.vblank \in BOOLEAN
      /\ dispstat \in DispstatState
    BY DEF TypeOK, DispstatState
<1>3. /\ HDraw \in Nat \ {0} /\ HBlank \in Nat \ {0} /\ VisLines \in Nat \ {0}
      /\ Lines \in Nat /\ VisLines < Lines
    BY DisplayAssumption
<1>4. LineCycles \in Nat /\ vcount \in Int /\ vcount * LineCycles \in Int
    BY <1>2, <1>3 DEF LineCycles
<1> DEFINE begun == vcount * LineCycles
<1>5. /\ frameTicks = begun + (IF dispstat.hblank THEN LineCycles ELSE HDraw) - videoCount
      /\ dispstat.vblank <=> vcount >= VisLines
      /\ drawn = IF vcount >= VisLines THEN VisLines
                 ELSE vcount + (IF dispstat.hblank THEN 1 ELSE 0)
    BY DEF FramePosition
<1>6. (vcount + 1) * LineCycles = begun + LineCycles
    BY <1>4, NextLineTicks
<1>7. begun \in Int
    BY <1>4
<1>a. CASE MidLine(irqs)
  <2>1. /\ vcount' = vcount /\ dispstat' = dispstat /\ drawn' = drawn
        /\ videoCount' = videoCount - executeCycles
        /\ frameTicks' = frameTicks + executeCycles
      BY <1>a DEF MidLine
  <2> HIDE DEF begun
  <2>2. frameTicks' = begun + (IF dispstat.hblank THEN LineCycles ELSE HDraw) - videoCount'
      BY <2>1, <1>2, <1>3, <1>4, <1>5, <1>7
  <2> QED
      BY <2>1, <2>2, <1>5 DEF FramePosition, begun, LineCycles
<1>b. CASE EnterHBlank(irqs)
  <2>1. /\ vcount' = vcount /\ ~dispstat.hblank
        /\ dispstat' = [dispstat EXCEPT !.hblank = TRUE]
        /\ drawn' = IF dispstat.vblank THEN drawn ELSE drawn + 1
        /\ videoCount' = videoCount - executeCycles + HBlank
        /\ frameTicks' = frameTicks + executeCycles
        /\ videoCount <= executeCycles
      BY <1>b DEF EnterHBlank
  <2>2. dispstat'.hblank /\ dispstat'.vblank = dispstat.vblank
      BY <2>1, <1>2 DEF DispstatState
  <2> HIDE DEF begun
  <2>3. frameTicks' = begun + LineCycles - videoCount'
      BY <2>1, <1>2, <1>3, <1>4, <1>5, <1>7 DEF LineCycles
  <2>4. drawn' = IF vcount >= VisLines THEN VisLines ELSE vcount + 1
      BY <2>1, <1>2, <1>3, <1>4, <1>5
  <2> QED
      BY <2>1, <2>2, <2>3, <2>4, <1>5 DEF FramePosition, begun, LineCycles
<1>c. CASE NewLine(irqs)
  <2>1. /\ vcount' = NextLine /\ dispstat.hblank
        /\ dispstat' = [dispstat EXCEPT !.hblank = FALSE,
               !.match = (NextLine = dispstat.compare), !.vblank = VBlankFrom(NextLine)]
        /\ drawn' = IF NextLine = 0 THEN 0 ELSE drawn
        /\ videoCount' = videoCount - executeCycles + HDraw
        /\ frameTicks' = IF NextLine = 0 THEN 0 ELSE frameTicks + executeCycles
        /\ videoCount <= executeCycles
      BY <1>c DEF NewLine
  <2>2. ~dispstat'.hblank /\ (dispstat'.vblank <=> VBlankFrom(NextLine))
      BY <2>1, <1>2 DEF DispstatState
  <2>3. videoCount = executeCycles /\ videoCount' = HDraw
      BY <2>1, <1>2, <1>3, EventExact
  <2> HIDE DEF begun
  <2>4. CASE vcount + 1 = Lines
    <3>1. NextLine = 0
        BY <2>4 DEF NextLine
    <3>2. vcount' = 0 /\ frameTicks' = 0 /\ drawn' = 0 /\ ~dispstat'.vblank
        BY <3>1, <2>1, <2>2 DEF VBlankFrom
    <3>3. LineCycles' = LineCycles /\ 0 * LineCycles = 0
        BY <1>4 DEF LineCycles
    <3> QED
        BY <3>2, <3>3, <2>2, <2>3, <1>3, <1>4 DEF FramePosition
  <2>5. CASE vcount + 1 # Lines
    <3>1. NextLine = vcount + 1 /\ NextLine # 0
        BY <2>5, <1>2, <1>3 DEF NextLine
    <3>2. frameTicks' = begun + LineCycles
        BY <3>1, <2>1, <2>3, <1>2, <1>4, <1>5, <1>7
    <3>3. frameTicks' = vcount' * LineCycles
        BY <3>1, <3>2, <2>1, <1>6
    <3>4. frameTicks' = vcount' * LineCycles + HDraw - videoCount'
        BY <3>2, <3>3, <2>3, <1>3, <1>4, <1>7
    <3>5. dispstat'.vblank <=> vcount' >= VisLines
        BY <3>1, <2>1, <2>2, <1>3, <1>4, <1>5 DEF VBlankFrom
    <3>6. drawn' = IF vcount' >= VisLines THEN VisLines ELSE vcount'
        BY <3>1, <2>1, <1>3, <1>4, <1>5
    <3>7. vcount' \in Int
        BY <3>1, <2>1, <1>4
    <3> QED
        BY <3>4, <3>5, <3>6, <3>7, <2>2 DEF FramePosition, LineCycles
  <2> QED
      BY <2>4, <2>5
<1> QED
    BY <1>1, <1>a, <1>b, <1>c DEF VideoStep

LEMMA StartOfFrame ==
    ASSUME NEW cycles \in Int PROVE cycles * 0 = 0 /\ 0 * cycles = 0
OBVIOUS

\* Where the machine is at power on and after a reset.
LEMMA PositionAtReset ==
    ASSUME frameTicks = 0, vcount = 0, videoCount = HDraw, drawn = 0,
           dispstat = ClearedDispstat
    PROVE  FramePosition
<1>1. HDraw \in Nat \ {0} /\ LineCycles \in Int /\ VisLines \in Nat \ {0}
    BY DisplayAssumption DEF LineCycles
<1>2. vcount * LineCycles = 0
    BY <1>1, StartOfFrame
<1>3. ~dispstat.hblank /\ ~dispstat.vblank
    BY DEF ClearedDispstat
<1> QED
    BY <1>1, <1>2, <1>3 DEF FramePosition

LEMMA GuestStepPosition ==
    TypeOK /\ FramePosition /\ GuestStep => FramePosition'
<1> SUFFICES ASSUME TypeOK, FramePosition, GuestStep PROVE FramePosition'
    OBVIOUS
<1>1. CASE WriteDispstat
  <2>1. PICK irqs, compare :
            dispstat' = [dispstat EXCEPT !.irqs = irqs, !.compare = compare]
      BY <1>1 DEF WriteDispstat
  <2>2. dispstat'.hblank = dispstat.hblank /\ dispstat'.vblank = dispstat.vblank
      BY <2>1 DEF TypeOK, DispstatState
  <2>3. UNCHANGED <<videoCount, vcount, frameTicks, drawn>>
      BY <1>1 DEF WriteDispstat
  <2> QED
      BY <2>2, <2>3 DEF FramePosition, LineCycles
<1>2. ASSUME UNCHANGED displayVars PROVE FramePosition'
    BY <1>2 DEF displayVars, FramePosition, LineCycles
<1>3. ASSUME NEW i \in Timers, CountTimer(i) \/ StartTimer(i) \/ StopTimer(i)
      PROVE  UNCHANGED displayVars
    BY <1>3 DEF CountTimer, StartTimer, StopTimer
<1>4. ASSUME NEW c \in Channels, StartDma(c) \/ StopDma(c)
      PROVE  UNCHANGED displayVars
    BY <1>4 DEF StartDma, StopDma
<1>5. ASSUME \/ WriteIE \/ WriteIME \/ WriteP1Cnt \/ WriteIF
             \/ MaskIrqs \/ UnmaskIrqs \/ Halt
      PROVE  UNCHANGED displayVars
    BY <1>5 DEF WriteIE, WriteIME, WriteP1Cnt, WriteIF, MaskIrqs, UnmaskIrqs, Halt
<1> QED
    BY <1>1, <1>2, <1>3, <1>4, <1>5 DEF GuestStep

LEMMA ResetPosition == Reset => FramePosition'
<1> SUFFICES ASSUME Reset PROVE FramePosition'
    OBVIOUS
<1>1. /\ frameTicks' = 0 /\ vcount' = 0 /\ videoCount' = HDraw /\ drawn' = 0
      /\ dispstat' = ClearedDispstat
    BY DEF Reset
<1>2. HDraw \in Nat \ {0} /\ LineCycles \in Int /\ VisLines \in Nat \ {0}
    BY DisplayAssumption DEF LineCycles
<1>3. vcount' * LineCycles = 0
    BY <1>1, <1>2, StartOfFrame
<1>4. ~dispstat'.hblank /\ ~dispstat'.vblank
    BY <1>1 DEF ClearedDispstat
<1> QED
    BY <1>1, <1>2, <1>3, <1>4 DEF FramePosition, LineCycles

\* The invariant that carries the position: events fall due on their cycle, so
\* the ticks charged are those of the lines that have passed.
Position == TypeOK /\ NoEventOvershot /\ FramePosition

LEMMA PositionStep == Position /\ [Next]_vars => FramePosition'
<1> SUFFICES ASSUME TypeOK, NoEventOvershot, FramePosition, [Next]_vars
             PROVE  FramePosition'
    BY DEF Position
<1>1. CASE PollInput
    BY <1>1 DEF PollInput, displayVars, FramePosition, LineCycles
<1>2. CASE UNCHANGED vars
    BY <1>2 DEF vars, displayVars, FramePosition, LineCycles
<1> QED
    BY <1>1, <1>2, UpdateGbaPosition, GuestStepPosition, ResetPosition DEF Next

\* VCOUNT, the H-blank and V-blank flags, video_count, the ticks of the frame
\* and the scanlines drawn always agree, on a screen of any size.
THEOREM PositionKept == Spec => []FramePosition
<1>1. Init => FramePosition
    BY PositionAtReset DEF Init
<1>2. TypeOK /\ NoEventOvershot /\ FramePosition /\ [Next]_vars => FramePosition'
    BY PositionStep DEF Position
<1> QED
    BY <1>1, <1>2, TypeCorrect, Deadline, PTL DEF Spec

\* Every frame update_gba completes has taken exactly Lines lines of cycles and
\* has drawn every visible line exactly once.
THEOREM FrameExact == Spec => FrameLength
<1> DEFINE Exact == phase = "guest" /\ phase' = "host" =>
                       frameTicks + executeCycles = Lines * LineCycles /\ drawn = VisLines
<1>1. TypeOK /\ NoEventOvershot /\ FramePosition /\ [Next]_vars => [Exact]_vars
  <2> SUFFICES ASSUME TypeOK, NoEventOvershot, FramePosition, Next,
                      phase = "guest", phase' = "host"
               PROVE  frameTicks + executeCycles = Lines * LineCycles /\ drawn = VisLines
      OBVIOUS
  <2>1. PICK irqs : VideoStep(irqs)
    <3>1. ~PollInput /\ ~Reset
        BY DEF PollInput, Reset
    <3>2. GuestStep => phase' = phase
        BY DEF GuestStep, CountTimer, StartTimer, StopTimer, StartDma, StopDma,
               WriteDispstat, WriteIE, WriteIME, WriteP1Cnt, WriteIF, MaskIrqs,
               UnmaskIrqs, Halt
    <3>3. UpdateGba
        BY <3>1, <3>2 DEF Next
    <3> QED
        BY <3>3 DEF UpdateGba
  <2>2. NewLine(irqs) /\ NextLine = 0
      BY <2>1 DEF VideoStep, MidLine, EnterHBlank, NewLine
  <2>3. dispstat.hblank /\ videoCount <= executeCycles
      BY <2>2 DEF NewLine
  <2>4. /\ executeCycles \in Int /\ videoCount \in Int /\ frameTicks \in Int
        /\ vcount \in Int /\ 0 <= vcount /\ vcount <= Lines - 1
        /\ VisLines \in Nat /\ Lines \in Nat /\ VisLines < Lines
        /\ LineCycles \in Int
      BY DisplayAssumption DEF TypeOK, LineCycles
  <2>5. vcount + 1 = Lines
      BY <2>2, <2>4 DEF NextLine
  <2>6. videoCount = executeCycles
      BY <2>3, EventExact
  <2>7. Lines * LineCycles = vcount * LineCycles + LineCycles
      BY <2>4, <2>5, NextLineTicks
  <2>8. vcount * LineCycles \in Int
      BY <2>4
  <2>9. frameTicks = vcount * LineCycles + LineCycles - videoCount
      BY <2>3 DEF FramePosition
  <2>10. frameTicks + executeCycles = Lines * LineCycles
      BY <2>4, <2>6, <2>7, <2>8, <2>9
  <2>11. drawn = VisLines
      BY <2>4, <2>5 DEF FramePosition
  <2> QED
      BY <2>10, <2>11
<1> QED
    BY <1>1, TypeCorrect, Deadline, PositionKept, PTL DEF Spec, FrameLength
-----------------------------------------------------------------------------
(***************************************************************************)
(* Interrupts.                                                             *)
(***************************************************************************)

\* raise_interrupt leaves an interrupt untaken only if it could be taken before.
LEMMA RaiseTakes ==
    ASSUME NEW raised, Raise(raised), regIE' = regIE, regIME' = regIME, Deliverable'
    PROVE  Deliverable
BY DEF Raise, Deliverable

\* No step other than a write of IE or IME leaves an interrupt behind that is
\* requested, enabled and not masked: for any set of timers and channels, every
\* raise_interrupt and every unmasking takes it.
THEOREM InterruptsAreTaken == Spec => InterruptsTaken
<1> DEFINE Taken == Deliverable' => Deliverable \/ regIE' # regIE \/ regIME' # regIME
<1>1. [Next]_vars => [Taken]_vars
  <2> SUFFICES ASSUME Next, Deliverable', regIE' = regIE, regIME' = regIME
               PROVE  Deliverable
      OBVIOUS
  <2>1. CASE UpdateGba
    <3>1. PICK irqs : VideoStep(irqs)
        BY <2>1 DEF UpdateGba
    <3>2. PICK raised, byDma : RaiseInLoop(raised, byDma)
        BY <3>1 DEF VideoStep, MidLine, EnterHBlank, NewLine
    <3> QED
        BY <3>2, RaiseTakes DEF RaiseInLoop
  <2>2. CASE PollInput
      BY <2>2, RaiseTakes DEF PollInput
  <2>3. ASSUME NEW c \in Channels, StartDma(c) PROVE Deliverable
      BY <2>3, RaiseTakes DEF StartDma
  <2>4. CASE UnmaskIrqs
    <3>1. cpsrI' = (regIME /\ regIE \cap regIF # {}) /\ regIF' = regIF
        BY <2>4 DEF UnmaskIrqs
    <3>2. regIME /\ regIE \cap regIF # {} /\ ~cpsrI'
        BY <3>1 DEF Deliverable
    <3> QED
        BY <3>1, <3>2
  <2>5. CASE MaskIrqs
      BY <2>5 DEF MaskIrqs, Deliverable
  <2>6. CASE WriteIF
      BY <2>6 DEF WriteIF, Deliverable
  <2>7. CASE Reset
      BY <2>7 DEF Reset, Deliverable
  <2>8. ASSUME UNCHANGED <<regIF, cpsrI>> PROVE Deliverable
      BY <2>8 DEF Deliverable
  <2>9. ASSUME NEW i \in Timers, CountTimer(i) \/ StartTimer(i) \/ StopTimer(i)
        PROVE  UNCHANGED <<regIF, cpsrI>>
      BY <2>9 DEF CountTimer, StartTimer, StopTimer, irqVars
  <2>10. ASSUME NEW c \in Channels, StopDma(c) PROVE UNCHANGED <<regIF, cpsrI>>
      BY <2>10 DEF StopDma, irqVars
  <2>11. ASSUME WriteDispstat \/ WriteIE \/ WriteIME \/ WriteP1Cnt \/ Halt
         PROVE  UNCHANGED <<regIF, cpsrI>>
      BY <2>11 DEF WriteDispstat, WriteIE, WriteIME, WriteP1Cnt, Halt, irqVars
  <2> QED
      BY <2>1, <2>2, <2>3, <2>4, <2>5, <2>6, <2>7, <2>8, <2>9, <2>10, <2>11
         DEF Next, GuestStep
<1> QED
    BY <1>1, PTL DEF Spec, InterruptsTaken

\* What update_gba raises again, iteration after iteration, is still requested and
\* cannot be taken: the CPU it waits for is halted.
THEOREM RaisedOnce == Spec => []NothingRaisedTwice
<1>1. Init => NothingRaisedTwice
    BY DEF Init, NothingRaisedTwice
<1>2. NothingRaisedTwice /\ [Next]_vars => NothingRaisedTwice'
  <2> SUFFICES ASSUME NothingRaisedTwice, [Next]_vars PROVE NothingRaisedTwice'
      OBVIOUS
  <2>1. CASE UpdateGba
    <3>1. PICK irqs : VideoStep(irqs)
        BY <2>1 DEF UpdateGba
    <3>2. PICK raised, byDma : RaiseInLoop(raised, byDma)
        BY <3>1 DEF VideoStep, MidLine, EnterHBlank, NewLine
    <3>3. irqRaised' = KeptInLoop(raised) /\ Raise(irqRaised \cup raised \cup byDma)
        BY <3>2 DEF RaiseInLoop
    <3>4. regIE' = regIE /\ regIME' = regIME
        BY <3>2 DEF RaiseInLoop, irqSetup
    <3> QED
        BY <3>3, <3>4 DEF NothingRaisedTwice, KeptInLoop, Raise
  <2>2. CASE GuestStep
    <3>1. irqRaised = {}
        BY <2>2 DEF GuestStep, CountTimer, StartTimer, StopTimer, StartDma, StopDma,
                WriteDispstat, WriteIE, WriteIME, WriteP1Cnt, WriteIF, MaskIrqs,
                UnmaskIrqs, Halt, GuestRuns, NothingRaisedTwice
    <3>2. irqRaised' = irqRaised
        BY <2>2 DEF GuestStep, CountTimer, StartTimer, StopTimer, StartDma, StopDma,
                WriteDispstat, WriteIE, WriteIME, WriteP1Cnt, WriteIF, MaskIrqs,
                UnmaskIrqs, Halt, irqVars
    <3> QED
        BY <3>1, <3>2 DEF NothingRaisedTwice
  <2>3. CASE PollInput
      BY <2>3 DEF PollInput, NothingRaisedTwice
  <2>4. CASE Reset
      BY <2>4 DEF Reset, NothingRaisedTwice
  <2>5. CASE UNCHANGED vars
      BY <2>5 DEF vars, irqVars, NothingRaisedTwice
  <2> QED
      BY <2>1, <2>2, <2>3, <2>4, <2>5 DEF Next
<1> QED
    BY <1>1, <1>2, PTL DEF Spec
-----------------------------------------------------------------------------
(***************************************************************************)
(* Time goes on.                                                           *)
(***************************************************************************)
\* update_gba ends the frame or brings it nearer to its end, which a frame of Lines lines
\* cannot pass; nothing the guest does in its slices takes it back.
FrameAdvances ==
    [][/\ UpdateGba => \/ phase' = "host"
                       \/ frameTicks < frameTicks' /\ frameTicks' < Lines * LineCycles
       /\ GuestStep => frameTicks' = frameTicks]_vars

LEMMA ProductGrows ==
    ASSUME NEW a \in Nat, NEW b \in Nat, NEW c \in Nat, a <= b
    PROVE  a * c \in Nat /\ b * c \in Nat /\ a * c <= b * c
<1>. DEFINE d == b - a
<1>1. d \in Nat /\ b = a + d
  OBVIOUS
<1>. HIDE DEF d
<1>2. (a + d) * c = a * c + d * c /\ d * c \in Nat /\ a * c \in Nat
  BY <1>1
<1>. QED BY <1>1, <1>2

\* The frame that runs is shorter than a whole one.
ShortOfFrame == frameTicks < Lines * LineCycles

LEMMA TicksBelowFrame == Position => ShortOfFrame
<1> SUFFICES ASSUME Position PROVE ShortOfFrame
  OBVIOUS
<1>1. /\ vcount \in Nat /\ vcount + 1 \in Nat /\ vcount + 1 <= Lines /\ Lines \in Nat
      /\ LineCycles \in Nat /\ HDraw \in Nat /\ HBlank \in Nat
      /\ videoCount \in Int /\ 0 < videoCount
  BY DisplayAssumption DEF Position, TypeOK, NoEventOvershot, LineCycles
<1>. DEFINE begun == vcount * LineCycles
            whole == Lines * LineCycles
<1>2. (vcount + 1) * LineCycles = begun + LineCycles /\ begun \in Nat
  BY <1>1, NextLineTicks, ProductGrows
<1>3. (vcount + 1) * LineCycles <= whole /\ whole \in Nat
  BY <1>1, ProductGrows
<1>4. frameTicks = begun + (IF dispstat.hblank THEN LineCycles ELSE HDraw) - videoCount
  BY DEF Position, FramePosition
<1>. HIDE DEF begun, whole
<1>5. frameTicks < whole
  BY <1>1, <1>2, <1>3, <1>4 DEF LineCycles
<1>. QED BY <1>5 DEF whole, ShortOfFrame

\* The variant of the frame, Lines * LineCycles - frameTicks, for any screen: a guest that
\* starts and stops timers all the time, or never runs at all, does not hold up the frame.
THEOREM FrameGoesOn == Spec => FrameAdvances
<1>. DEFINE Advance ==
        /\ UpdateGba => \/ phase' = "host"
                        \/ frameTicks < frameTicks' /\ frameTicks' < Lines * LineCycles
        /\ GuestStep => frameTicks' = frameTicks
<1>1. ASSUME Position, ShortOfFrame', UpdateGba, phase' # "host"
      PROVE  frameTicks < frameTicks' /\ frameTicks' < Lines * LineCycles
  <2>1. PICK irqs : VideoStep(irqs)
    BY <1>1 DEF UpdateGba
  <2>2. frameTicks' = frameTicks + executeCycles
    BY <1>1, <2>1 DEF VideoStep, MidLine, EnterHBlank, NewLine, UpdateGba
  <2>3. frameTicks \in Int /\ executeCycles \in Int /\ 0 < executeCycles
    BY <1>1 DEF Position, TypeOK, NoEventOvershot
  <2>4. frameTicks' < Lines * LineCycles
    BY <1>1 DEF ShortOfFrame, LineCycles
  <2>. QED BY <2>2, <2>3, <2>4
<1>2. GuestStep => frameTicks' = frameTicks
  BY DEF GuestStep, CountTimer, StartTimer, StopTimer, StartDma, StopDma, WriteDispstat,
         WriteIE, WriteIME, WriteP1Cnt, WriteIF, MaskIrqs, UnmaskIrqs, Halt, displayVars
<1>3. Position /\ ShortOfFrame' /\ [Next]_vars => [Advance]_vars
  BY <1>1, <1>2
<1>4. TypeOK /\ NoEventOvershot /\ FramePosition => Position
  BY DEF Position
<1>. QED
  BY <1>3, <1>4, TicksBelowFrame, TypeCorrect, Deadline, PositionKept, PTL
     DEF Spec, FrameAdvances
-----------------------------------------------------------------------------
(***************************************************************************)
(* The timers.                                                             *)
(***************************************************************************)
FallsDue(i, fired) ==
    \/ timer[i].status = "prescale" /\ timer[i].count = executeCycles
    \/ timer[i].status = "cascade" /\ timer[i].count = 1 /\ i - 1 \in fired

Elapsed(i, fired) ==
    IF timer[i].status = "prescale" THEN executeCycles
    ELSE IF timer[i].status = "cascade" /\ i - 1 \in fired THEN 1 ELSE 0

\* A timer overflows at the very cycle, or the very overflow of the timer below it, that
\* it was set to, and then begins a whole period: no cycle is lost or counted twice,
\* however the guest starts, stops and reloads the others.
TimersExact ==
    [][UpdateGba =>
          \E fired \in SUBSET Timers : \A i \in Timers :
             /\ i \in fired <=> FallsDue(i, fired)
             /\ timer'[i].count =
                   IF i \in fired THEN timer[i].reload * timer[i].scale
                   ELSE timer[i].count - Elapsed(i, fired)]_vars

\* Any number of timers, linked in any way, keep exact time.
THEOREM TimersKeepTime == Spec => TimersExact
<1>1. ASSUME TypeOK, NoEventOvershot, NEW fired \in SUBSET Timers,
             fired = {i \in Timers : Overflows(i, fired)}, NEW i \in Timers
      PROVE  /\ i \in fired <=> FallsDue(i, fired)
             /\ TimersAfter(fired)[i].count =
                   IF i \in fired THEN timer[i].reload * timer[i].scale
                   ELSE timer[i].count - Elapsed(i, fired)
  <2>. DEFINE period == timer[i].reload * timer[i].scale
  <2>1. /\ timer[i] \in TimerState /\ executeCycles \in Int /\ timer[i].count \in Int
        /\ timer[i].status \in {"inactive", "prescale", "cascade"}
    BY <1>1 DEF TypeOK, TimerState
  <2>2. period \in Nat
    BY <1>1, PeriodPositive
  <2>. HIDE DEF period
  <2>3. i \in fired <=> Overflows(i, fired)
    BY <1>1
  <2>4. /\ timer[i].status = "prescale" => executeCycles <= timer[i].count
        /\ timer[i].status = "cascade" => 0 < timer[i].count
    BY <1>1 DEF NoEventOvershot
  <2>5. i \in fired <=> FallsDue(i, fired)
    BY <2>1, <2>3, <2>4 DEF Overflows, Remaining, FallsDue
  <2>6. Remaining(i, fired) = timer[i].count - Elapsed(i, fired)
    BY <2>1 DEF Remaining, Elapsed
  <2>7. i \in fired => Remaining(i, fired) = 0
    BY <2>1, <2>5 DEF Remaining, FallsDue
  <2>8. TimersAfter(fired)[i].count =
           IF i \in fired THEN Remaining(i, fired) + period ELSE Remaining(i, fired)
    BY <2>1 DEF TimersAfter, TimerState, period
  <2>9. TimersAfter(fired)[i].count =
           IF i \in fired THEN period ELSE timer[i].count - Elapsed(i, fired)
    BY <2>2, <2>6, <2>7, <2>8
  <2>. QED BY <2>5, <2>9 DEF period
<1>. DEFINE Exact ==
        UpdateGba =>
          \E fired \in SUBSET Timers : \A i \in Timers :
             /\ i \in fired <=> FallsDue(i, fired)
             /\ timer'[i].count =
                   IF i \in fired THEN timer[i].reload * timer[i].scale
                   ELSE timer[i].count - Elapsed(i, fired)
<1>2. TypeOK /\ NoEventOvershot /\ [Next]_vars => [Exact]_vars
  <2> SUFFICES ASSUME TypeOK, NoEventOvershot, UpdateGba
               PROVE  Exact
    OBVIOUS
  <2>1. PICK fired \in SUBSET Timers :
            fired = {i \in Timers : Overflows(i, fired)} /\ timer' = TimersAfter(fired)
    BY DEF UpdateGba
  <2>. QED BY <1>1, <2>1
<1>. QED BY <1>2, TypeCorrect, Deadline, PTL DEF Spec, TimersExact
-----------------------------------------------------------------------------
(***************************************************************************)
(* The set of timers that overflow.                                        *)
(***************************************************************************)
\* Induction over the natural numbers, for a set.
LEMMA Induct ==
    ASSUME NEW T, 0 \in T, \A n \in Nat : n \in T => n + 1 \in T
    PROVE  Nat \subseteq T
<1>. DEFINE Rest == Nat \ T
            R == OpToRel(<, Nat)
<1> SUFFICES ASSUME Rest # {} PROVE FALSE
  OBVIOUS
<1>1. IsWellFoundedOn(R, Nat)
  BY NatLessThanWellFounded
<1>2. \A x, y \in Nat : y < x => <<y, x>> \in R
  BY DEF OpToRel
<1>3. \E x \in Rest : \A y \in Rest : ~(<<y, x>> \in R)
  <2>. HIDE DEF R
  <2>. Rest \subseteq Nat
    OBVIOUS
  <2>. HIDE DEF Rest
  <2>. QED BY <1>1, WFMin
<1>4. PICK x \in Rest : \A y \in Rest : ~(<<y, x>> \in R)
  BY <1>3
<1>5. x \in Nat /\ x \notin T /\ x # 0
  OBVIOUS
<1>6. x - 1 \in Nat /\ x - 1 < x /\ (x - 1) + 1 = x
  BY <1>5
<1>7. x - 1 \in Rest
  BY <1>5, <1>6
<1>8. <<x - 1, x>> \in R
  BY <1>2, <1>5, <1>6
<1>. QED BY <1>4, <1>7, <1>8

\* The timers up to n that update_timers finds to overflow on its way up
FoundUpTo(n, fired) == \A i \in 0 .. n : i \in fired <=> i \in Timers /\ Overflows(i, fired)

\* Whether a timer overflows depends on the one below it and on no other.
LEMMA DependsOnBelow ==
    ASSUME NEW i, NEW f, NEW g, i - 1 \in f <=> i - 1 \in g
    PROVE  Overflows(i, f) <=> Overflows(i, g)
BY DEF Overflows, Remaining

LEMMA SameUpTo ==
    ASSUME NEW n \in Nat, NEW f \in SUBSET Timers, NEW g \in SUBSET Timers,
           FoundUpTo(n, f), FoundUpTo(n, g)
    PROVE  \A i \in 0 .. n : i \in f <=> i \in g
<1>. DEFINE T == {i \in Nat : i <= n => (i \in f <=> i \in g)}
<1>1. ASSUME NEW i \in Nat, i <= n, i - 1 \in f <=> i - 1 \in g
      PROVE  i \in f <=> i \in g
  <2>1. Overflows(i, f) <=> Overflows(i, g)
    BY <1>1, DependsOnBelow
  <2>2. i \in 0 .. n
    BY <1>1
  <2>. QED BY <2>1, <2>2 DEF FoundUpTo
<1>2. 0 \in T
  <2>1. 0 - 1 \notin Timers
    BY TimersAssumption
  <2>. QED BY <1>1, <2>1
<1>3. ASSUME NEW i \in Nat, i \in T
      PROVE  i + 1 \in T
  <2> SUFFICES ASSUME i + 1 <= n PROVE i + 1 \in f <=> i + 1 \in g
    OBVIOUS
  <2>1. i + 1 \in Nat /\ (i + 1) - 1 = i /\ i <= n
    OBVIOUS
  <2>2. i \in f <=> i \in g
    BY <1>3, <2>1
  <2>3. (i + 1) - 1 \in f <=> (i + 1) - 1 \in g
    BY <2>1, <2>2
  <2>. QED BY <1>1, <2>1, <2>3
<1>. HIDE DEF T
<1>4. Nat \subseteq T
  BY <1>2, <1>3, Induct
<1>. QED BY <1>4 DEF T

LEMMA FoundForAll ==
    ASSUME NEW n \in Nat
    PROVE  \E f \in SUBSET Timers : FoundUpTo(n, f)
<1>. DEFINE T == {m \in Nat : \E f \in SUBSET Timers : FoundUpTo(m, f)}
<1>1. 0 \in T
  <2>. DEFINE f == {i \in Timers : i = 0 /\ Overflows(i, {})}
  <2>1. 0 - 1 \notin f /\ f \in SUBSET Timers
    BY TimersAssumption
  <2>2. 0 \in f <=> 0 \in Timers /\ Overflows(0, {})
    OBVIOUS
  <2>. HIDE DEF f
  <2>3. Overflows(0, f) <=> Overflows(0, {})
    BY <2>1, DependsOnBelow
  <2>4. FoundUpTo(0, f)
    BY <2>2, <2>3 DEF FoundUpTo
  <2>. QED BY <2>1, <2>4
<1>2. ASSUME NEW m \in Nat, m \in T
      PROVE  m + 1 \in T
  <2>1. PICK f \in SUBSET Timers : FoundUpTo(m, f)
    BY <1>2
  <2>. DEFINE g == {i \in Timers : IF i = m + 1 THEN Overflows(i, f) ELSE i \in f}
  <2>2. /\ g \in SUBSET Timers
        /\ m + 1 \in g <=> m + 1 \in Timers /\ Overflows(m + 1, f)
        /\ \A i : i # m + 1 => (i \in g <=> i \in f)
    OBVIOUS
  <2>. HIDE DEF g
  <2>3. ASSUME NEW i \in 0 .. m + 1
        PROVE  Overflows(i, g) <=> Overflows(i, f)
    <3>1. i - 1 # m + 1
      OBVIOUS
    <3>. QED BY <2>2, <3>1, DependsOnBelow
  <2>4. ASSUME NEW i \in 0 .. m + 1
        PROVE  i \in g <=> i \in Timers /\ Overflows(i, g)
    <3>1. CASE i = m + 1
      BY <2>2, <2>3, <3>1
    <3>2. CASE i # m + 1
      <4>1. i \in 0 .. m
        BY <3>2
      <4>. QED BY <2>1, <2>2, <2>3, <3>2, <4>1 DEF FoundUpTo
    <3>. QED BY <3>1, <3>2
  <2>5. FoundUpTo(m + 1, g)
    BY <2>4 DEF FoundUpTo
  <2>. QED BY <2>2, <2>5
<1>. HIDE DEF T
<1>3. Nat \subseteq T
  BY <1>1, <1>2, Induct
<1>. QED BY <1>3 DEF T

\* The walk of update_timers up the timers finds the one set that the model asks for:
\* what the timers do in an iteration is determined by the state, for any set of timers
\* and whatever their counts.
THEOREM OneFiredSet ==
    \E fired \in SUBSET Timers :
        /\ fired = {i \in Timers : Overflows(i, fired)}
        /\ \A other \in SUBSET Timers :
              other = {i \in Timers : Overflows(i, other)} => other = fired
<1>. DEFINE fired ==
        {i \in Timers : \E f \in SUBSET Timers : FoundUpTo(i, f) /\ i \in f}
<1>0. ASSUME NEW n \in Nat, NEW f, FoundUpTo(n, f), NEW i \in 0 .. n
      PROVE  FoundUpTo(i, f)
  BY <1>0 DEF FoundUpTo
<1>1. ASSUME NEW n \in Nat, NEW f \in SUBSET Timers, FoundUpTo(n, f), NEW i \in 0 .. n
      PROVE  i \in fired <=> i \in f
  <2>1. i \in Nat /\ i \in 0 .. i /\ FoundUpTo(i, f)
    BY <1>0, <1>1
  <2>2. ASSUME NEW g \in SUBSET Timers, FoundUpTo(i, g)
        PROVE  i \in g <=> i \in f
    BY <2>1, <2>2, SameUpTo
  <2>. QED BY <2>1, <2>2
<1>2. fired \in SUBSET Timers
  OBVIOUS
<1>. HIDE DEF fired
<1>3. ASSUME NEW i \in Timers
      PROVE  i \in fired <=> Overflows(i, fired)
  <2>1. i \in Nat /\ i \in 0 .. i
    BY TimersAssumption
  <2>2. PICK f \in SUBSET Timers : FoundUpTo(i, f)
    BY <2>1, FoundForAll
  <2>3. i \in fired <=> i \in f
    BY <1>1, <2>1, <2>2
  <2>4. i - 1 \in fired <=> i - 1 \in f
    <3>1. CASE i = 0
      <4>1. i - 1 \notin Timers
        BY <3>1, TimersAssumption
      <4>. QED BY <1>2, <4>1
    <3>2. CASE i # 0
      <4>1. i - 1 \in 0 .. i
        BY <2>1, <3>2
      <4>. QED BY <1>1, <2>1, <2>2, <4>1
    <3>. QED BY <3>1, <3>2
  <2>5. Overflows(i, fired) <=> Overflows(i, f)
    BY <2>4, DependsOnBelow
  <2>. QED BY <2>1, <2>2, <2>3, <2>5 DEF FoundUpTo
<1>4. fired = {i \in Timers : Overflows(i, fired)}
  BY <1>2, <1>3
<1>5. ASSUME NEW other \in SUBSET Timers, other = {i \in Timers : Overflows(i, other)}
      PROVE  other = fired
  <2>1. ASSUME NEW i \in Timers
        PROVE  i \in other <=> i \in fired
    <3>1. i \in Nat /\ i \in 0 .. i
      BY TimersAssumption
    <3>2. FoundUpTo(i, other)
      BY <1>5 DEF FoundUpTo
    <3>. QED BY <1>1, <3>1, <3>2
  <2>. QED BY <1>2, <2>1
<1>. QED BY <1>2, <1>4, <1>5
-----------------------------------------------------------------------------
(***************************************************************************)
(* The halted CPU.                                                         *)
(***************************************************************************)
\* Cycles until the line begins, in this frame or the next one
CyclesTo(line) ==
    IF frameTicks < line * LineCycles THEN line * LineCycles - frameTicks
    ELSE line * LineCycles + Lines * LineCycles - frameTicks

\* The lines whose beginning raises an interrupt that is enabled
ArmedLines ==
    {line \in 0 .. Lines - 1 :
        \/ line = VisLines /\ VBlankIrq \in regIE \cap dispstat.irqs
        \/ line = dispstat.compare /\ VCountIrq \in regIE \cap dispstat.irqs}

ArmedTimers ==
    {i \in Timers : timer[i].status = "prescale" /\ timer[i].irq /\ <<"timer", i>> \in regIE}

\* The cycles until each event that is sure to come and to wake the CPU
WakeUps ==
    {CyclesTo(line) : line \in ArmedLines}
      \cup {timer[i].count : i \in ArmedTimers}
      \cup (IF HBlankIrq \in regIE \cap dispstat.irqs
              THEN {IF dispstat.hblank THEN videoCount + HDraw ELSE videoCount} ELSE {})

Waiting == halted /\ regIME /\ ~cpsrI

\* Nothing that a halted CPU waits for is missed, by whatever slices update_gba goes: it
\* sleeps on while each of its wake-ups lies ahead, nearer by the cycles charged, and is
\* awake as soon as the first of them is due, at the latest.
WakesInTime ==
    [][Waiting =>
          \/ ~halted'
          \/ /\ UpdateGba /\ Waiting'
             /\ 0 < executeCycles
             /\ \A w \in WakeUps : executeCycles < w /\ w - executeCycles \in WakeUps'
          \/ PollInput /\ Waiting' /\ WakeUps' = WakeUps]_vars

\* A display event is never further than the part of the line it ends.
EventInLine == videoCount <= IF dispstat.hblank THEN HBlank ELSE HDraw

LEMMA EventStaysInLine ==
    TypeOK /\ NoEventOvershot /\ EventInLine /\ [Next]_vars => EventInLine'
<1> SUFFICES ASSUME TypeOK, NoEventOvershot, EventInLine, [Next]_vars PROVE EventInLine'
  OBVIOUS
<1>1. /\ executeCycles \in Int /\ 0 < executeCycles /\ videoCount \in Int
      /\ dispstat \in DispstatState /\ HDraw \in Nat /\ HBlank \in Nat
  BY DisplayAssumption DEF TypeOK, NoEventOvershot
<1>2. CASE UpdateGba
  <2>1. PICK irqs : VideoStep(irqs)
    BY <1>2 DEF UpdateGba
  <2>2. CASE MidLine(irqs)
    <3>1. videoCount' = videoCount - executeCycles /\ dispstat' = dispstat
      BY <2>2 DEF MidLine
    <3>. QED BY <1>1, <3>1 DEF EventInLine
  <2>3. CASE EnterHBlank(irqs)
    <3>1. /\ videoCount' = videoCount - executeCycles + HBlank
          /\ dispstat' = [dispstat EXCEPT !.hblank = TRUE]
          /\ videoCount <= executeCycles
      BY <2>3 DEF EnterHBlank
    <3>2. dispstat'.hblank
      BY <1>1, <3>1 DEF DispstatState
    <3>. QED BY <1>1, <3>1, <3>2, EventExact DEF EventInLine
  <2>4. CASE NewLine(irqs)
    <3>1. /\ videoCount' = videoCount - executeCycles + HDraw
          /\ dispstat' = [dispstat EXCEPT !.hblank = FALSE,
                 !.match = (NextLine = dispstat.compare), !.vblank = VBlankFrom(NextLine)]
          /\ videoCount <= executeCycles
      BY <2>4 DEF NewLine
    <3>2. ~dispstat'.hblank
      BY <1>1, <3>1 DEF DispstatState
    <3>. QED BY <1>1, <3>1, <3>2, EventExact DEF EventInLine
  <2>. QED BY <2>1, <2>2, <2>3, <2>4 DEF VideoStep
<1>3. CASE GuestStep
  <2>1. videoCount' = videoCount
    BY <1>3 DEF GuestStep, CountTimer, StartTimer, StopTimer, StartDma, StopDma,
       WriteDispstat, WriteIE, WriteIME, WriteP1Cnt, WriteIF, MaskIrqs, UnmaskIrqs, Halt,
       displayVars
  <2>2. dispstat'.hblank = dispstat.hblank
    <3>1. CASE WriteDispstat
      BY <1>1, <3>1 DEF WriteDispstat, DispstatState
    <3>2. CASE dispstat' = dispstat
      BY <3>2
    <3>. QED BY <1>3, <3>1, <3>2 DEF GuestStep, CountTimer, StartTimer, StopTimer, StartDma,
       StopDma, WriteIE, WriteIME, WriteP1Cnt, WriteIF, MaskIrqs, UnmaskIrqs, Halt,
       displayVars
  <2>. QED BY <2>1, <2>2 DEF EventInLine
<1>4. CASE Reset
  <2>1. videoCount' = HDraw /\ dispstat' = ClearedDispstat
    BY <1>4 DEF Reset
  <2>2. dispstat'.hblank = FALSE
    BY <2>1 DEF ClearedDispstat
  <2>. QED BY <1>1, <2>1, <2>2 DEF EventInLine
<1>5. CASE PollInput \/ UNCHANGED vars
  BY <1>5 DEF PollInput, vars, displayVars, EventInLine
<1>. QED BY <1>2, <1>3, <1>4, <1>5 DEF Next

\* What update_gba has raised when the CPU sleeps on wakes it in no case.
LEMMA SleepsOn ==
    ASSUME Waiting, NEW raised, NEW byDma, RaiseInLoop(raised, byDma), halted'
    PROVE  raised \cap regIE = {} /\ Waiting' /\ regIE' = regIE
BY DEF Waiting, RaiseInLoop, Raise, irqSetup

LEMMA LinesApart ==
    ASSUME NEW a \in Nat, NEW b \in Nat
    PROVE  /\ LineCycles \in Nat \ {0}
           /\ a * LineCycles \in Nat /\ b * LineCycles \in Nat
           /\ a < b => a * LineCycles + LineCycles <= b * LineCycles
           /\ a <= b => a * LineCycles <= b * LineCycles
<1>1. LineCycles \in Nat \ {0}
  BY DisplayAssumption DEF LineCycles
<1>2. a < b => (a + 1) * LineCycles <= b * LineCycles
  BY <1>1, ProductGrows
<1>3. (a + 1) * LineCycles = a * LineCycles + LineCycles
  BY <1>1, NextLineTicks
<1>4. a <= b => a * LineCycles <= b * LineCycles
  BY <1>1, ProductGrows
<1>5. a * LineCycles \in Nat /\ b * LineCycles \in Nat
  BY <1>1, ProductGrows
<1>. QED BY <1>1, <1>2, <1>3, <1>4, <1>5

\* Where the display stands, in ticks
LEMMA TicksOfLine ==
    ASSUME Position, EventInLine
    PROVE  /\ vcount \in Nat /\ vcount < Lines /\ Lines \in Nat
           /\ frameTicks \in Int /\ executeCycles \in Int /\ 0 < executeCycles
           /\ vcount * LineCycles <= frameTicks
           /\ frameTicks + executeCycles <= vcount * LineCycles + LineCycles
           /\ ~dispstat.hblank => frameTicks + executeCycles < vcount * LineCycles + LineCycles
           /\ videoCount > executeCycles =>
                 frameTicks + executeCycles < vcount * LineCycles + LineCycles
           /\ videoCount = executeCycles /\ dispstat.hblank =>
                 frameTicks + executeCycles = vcount * LineCycles + LineCycles
<1>. DEFINE begun == vcount * LineCycles
<1>1. /\ vcount \in Nat /\ vcount < Lines /\ Lines \in Nat /\ begun \in Nat
      /\ HDraw \in Nat \ {0} /\ HBlank \in Nat \ {0}
      /\ frameTicks \in Int /\ executeCycles \in Int /\ 0 < executeCycles
      /\ videoCount \in Int /\ executeCycles <= videoCount
  BY DisplayAssumption, LinesApart DEF Position, TypeOK, NoEventOvershot
<1>2. frameTicks = begun + (IF dispstat.hblank THEN LineCycles ELSE HDraw) - videoCount
  BY DEF Position, FramePosition
<1>3. videoCount <= IF dispstat.hblank THEN HBlank ELSE HDraw
  BY DEF EventInLine
<1>. HIDE DEF begun
<1>4. /\ begun <= frameTicks
      /\ frameTicks + executeCycles <= begun + LineCycles
      /\ ~dispstat.hblank => frameTicks + executeCycles < begun + LineCycles
      /\ videoCount > executeCycles => frameTicks + executeCycles < begun + LineCycles
      /\ videoCount = executeCycles /\ dispstat.hblank =>
            frameTicks + executeCycles = begun + LineCycles
  BY <1>1, <1>2, <1>3 DEF LineCycles
<1>. QED BY <1>1, <1>4 DEF begun

\* The time to a line that does not begin now goes down by the cycles charged.
LEMMA LineComesNearer ==
    ASSUME Position, EventInLine, NEW irqs, VideoStep(irqs), NEW line \in 0 .. Lines - 1,
           NewLine(irqs) => line # NextLine
    PROVE  executeCycles < CyclesTo(line) /\ CyclesTo(line)' = CyclesTo(line) - executeCycles
<1>. DEFINE begun == vcount * LineCycles
            there == line * LineCycles
            whole == Lines * LineCycles
            after == frameTicks + executeCycles
<1>1. /\ vcount \in Nat /\ vcount < Lines /\ Lines \in Nat /\ line \in Nat /\ line < Lines
      /\ frameTicks \in Int /\ executeCycles \in Int /\ 0 < executeCycles
      /\ begun <= frameTicks /\ after <= begun + LineCycles
      /\ ~dispstat.hblank => after < begun + LineCycles
      /\ videoCount > executeCycles => after < begun + LineCycles
      /\ videoCount = executeCycles /\ dispstat.hblank => after = begun + LineCycles
  BY TicksOfLine
<1>2. /\ begun \in Nat /\ there \in Nat /\ whole \in Nat /\ LineCycles \in Nat \ {0}
      /\ vcount < line => begun + LineCycles <= there
      /\ line <= vcount => there <= begun
      /\ begun + LineCycles <= whole
      /\ there + LineCycles <= whole
  BY <1>1, LinesApart
<1>3. CyclesTo(line) = IF frameTicks < there THEN there - frameTicks
                       ELSE there + whole - frameTicks
  BY DEF CyclesTo
<1>4. CyclesTo(line)' = IF frameTicks' < there THEN there - frameTicks'
                        ELSE there + whole - frameTicks'
  BY DEF CyclesTo, LineCycles
<1>5. CASE MidLine(irqs) \/ EnterHBlank(irqs)
  <2>1. frameTicks' = after /\ (videoCount > executeCycles \/ ~dispstat.hblank)
    BY <1>5 DEF MidLine, EnterHBlank
  <2>2. after < begun + LineCycles
    BY <1>1, <2>1
  <2>. HIDE DEF begun, there, whole
  <2>. QED BY <1>1, <1>2, <1>3, <1>4, <2>1, <2>2
<1>6. CASE NewLine(irqs)
  <2>1. /\ dispstat.hblank /\ videoCount <= executeCycles
        /\ frameTicks' = IF NextLine = 0 THEN 0 ELSE after
        /\ line # NextLine
    BY <1>6 DEF NewLine
  <2>2. after = begun + LineCycles
    BY <1>1, <2>1, EventExact DEF Position
  <2>3. CASE vcount + 1 = Lines
    <3>1. NextLine = 0 /\ line # 0 /\ line <= vcount
      BY <1>1, <2>1, <2>3 DEF NextLine
    <3>2. whole = begun + LineCycles
      BY <1>1, <1>2, <2>3, NextLineTicks
    <3>3. LineCycles <= there
      <4>1. 0 * LineCycles + LineCycles <= there
        BY <1>1, <3>1, LinesApart
      <4>. QED BY <1>2, <4>1, StartOfFrame
    <3>. HIDE DEF begun, there, whole
    <3>. QED BY <1>1, <1>2, <1>3, <1>4, <2>1, <2>2, <3>1, <3>2, <3>3
  <2>4. CASE vcount + 1 # Lines
    <3>1. NextLine = vcount + 1 /\ NextLine # 0
      BY <1>1, <2>4 DEF NextLine
    <3>2. (vcount + 1) * LineCycles = begun + LineCycles
      BY <1>1, <1>2, NextLineTicks
    <3>3. /\ vcount + 1 < line => begun + LineCycles + LineCycles <= there
          /\ begun + LineCycles + LineCycles <= whole
      <4>0. vcount + 1 \in Nat /\ vcount + 1 < Lines /\ line \in Nat /\ Lines \in Nat
        BY <1>1, <2>4
      <4>. DEFINE next == vcount + 1
      <4>. HIDE DEF next
      <4>a. next \in Nat /\ next < Lines
        BY <4>0 DEF next
      <4>b. /\ next < line => next * LineCycles + LineCycles <= line * LineCycles
            /\ next * LineCycles + LineCycles <= Lines * LineCycles
        BY <4>0, <4>a, LinesApart
      <4>1. /\ vcount + 1 < line =>
                  (vcount + 1) * LineCycles + LineCycles <= line * LineCycles
            /\ (vcount + 1) * LineCycles + LineCycles <= Lines * LineCycles
        BY <4>b DEF next
      <4>. QED BY <3>2, <4>1
    <3>4. vcount + 1 < line \/ line <= vcount
      BY <1>1, <2>1, <3>1
    <3>. HIDE DEF begun, there, whole
    <3>. QED BY <1>1, <1>2, <1>3, <1>4, <2>1, <2>2, <3>1, <3>3, <3>4
  <2>. QED BY <2>3, <2>4
<1>. QED BY <1>5, <1>6 DEF VideoStep

\* One iteration of update_gba that does not wake the CPU
LEMMA NothingMissed ==
    ASSUME Position, EventInLine, UpdateGba, Waiting, halted'
    PROVE  /\ Waiting'
           /\ \A w \in WakeUps : executeCycles < w /\ w - executeCycles \in WakeUps'
<1>1. PICK fired \in SUBSET Timers :
          /\ fired = {i \in Timers : Overflows(i, fired)}
          /\ timer' = TimersAfter(fired)
          /\ VideoStep(TimerIrqs(fired))
  BY DEF UpdateGba
<1>. DEFINE irqs == TimerIrqs(fired)
<1>2. PICK display, byDma :
          /\ RaiseInLoop(irqs \cup display, byDma)
          /\ EnterHBlank(irqs) => display = dispstat.irqs \cap {HBlankIrq}
          /\ NewLine(irqs) =>
                display = dispstat.irqs \cap
                            ((IF NextLine = VisLines THEN {VBlankIrq} ELSE {})
                               \cup (IF NextLine = dispstat.compare THEN {VCountIrq} ELSE {}))
  <2>1. CASE MidLine(irqs)
    <3>1. RaiseInLoop(irqs \cup {}, {}) /\ ~EnterHBlank(irqs) /\ ~NewLine(irqs)
      <4>1. irqs \cup {} = irqs
        OBVIOUS
      <4>2. videoCount > executeCycles /\ videoCount \in Int /\ executeCycles \in Int
        BY <2>1 DEF MidLine, Position, TypeOK
      <4>. QED BY <2>1, <4>1, <4>2 DEF MidLine, EnterHBlank, NewLine
    <3>. QED BY <3>1
  <2>2. CASE EnterHBlank(irqs)
    <3>1. ~NewLine(irqs)
      BY <2>2 DEF EnterHBlank, NewLine
    <3>. QED BY <2>2, <3>1 DEF EnterHBlank
  <2>3. CASE NewLine(irqs)
    <3>1. ~EnterHBlank(irqs)
      BY <2>3 DEF EnterHBlank, NewLine
    <3>. QED BY <2>3, <3>1 DEF NewLine
  <2>. QED BY <1>1, <2>1, <2>2, <2>3 DEF VideoStep
<1>3. (irqs \cup display) \cap regIE = {} /\ Waiting' /\ regIE' = regIE
  BY <1>2, SleepsOn
<1>4. /\ executeCycles \in Int /\ 0 < executeCycles /\ videoCount \in Int
      /\ executeCycles <= videoCount /\ HDraw \in Nat \ {0} /\ dispstat \in DispstatState
      /\ TypeOK /\ NoEventOvershot
  BY DisplayAssumption DEF Position, TypeOK, NoEventOvershot
<1>5. dispstat'.irqs = dispstat.irqs /\ dispstat'.compare = dispstat.compare
  BY <1>1, <1>4 DEF VideoStep, MidLine, EnterHBlank, NewLine, DispstatState
<1>6. ASSUME NEW line \in ArmedLines
      PROVE  /\ executeCycles < CyclesTo(line)
             /\ CyclesTo(line) - executeCycles \in WakeUps'
  <2>1. line \in 0 .. Lines - 1
    BY DEF ArmedLines
  <2>2. NewLine(irqs) => line # NextLine
    <3> SUFFICES ASSUME NewLine(irqs), line = NextLine PROVE FALSE
      OBVIOUS
    <3>1. CASE line = VisLines /\ VBlankIrq \in regIE \cap dispstat.irqs
      BY <1>2, <1>3, <3>1
    <3>2. CASE line = dispstat.compare /\ VCountIrq \in regIE \cap dispstat.irqs
      BY <1>2, <1>3, <3>2
    <3>. QED BY <3>1, <3>2 DEF ArmedLines
  <2>3. /\ executeCycles < CyclesTo(line)
        /\ CyclesTo(line)' = CyclesTo(line) - executeCycles
    BY <1>1, <2>1, <2>2, LineComesNearer
  <2>4. line \in ArmedLines'
    BY <1>3, <1>5 DEF ArmedLines
  <2>5. CyclesTo(line)' \in WakeUps'
    BY <2>4 DEF WakeUps
  <2>. QED BY <2>3, <2>5
<1>7. ASSUME NEW i \in ArmedTimers
      PROVE  /\ executeCycles < timer[i].count
             /\ timer[i].count - executeCycles \in WakeUps'
  <2>1. /\ i \in Timers /\ timer[i].status = "prescale" /\ timer[i].irq
        /\ <<"timer", i>> \in regIE /\ timer[i] \in TimerState /\ timer[i].count \in Int
    BY <1>4 DEF ArmedTimers, TypeOK, TimerState
  <2>2. i \notin fired
    BY <1>3, <2>1 DEF TimerIrqs
  <2>3. Remaining(i, fired) = timer[i].count - executeCycles
    BY <2>1 DEF Remaining
  <2>4. ~(Remaining(i, fired) <= 0)
    BY <1>1, <2>1, <2>2 DEF Overflows
  <2>5. timer'[i] = [timer[i] EXCEPT !.count = timer[i].count - executeCycles]
    BY <1>1, <2>1, <2>2, <2>3 DEF TimersAfter
  <2>6. i \in ArmedTimers' /\ timer'[i].count = timer[i].count - executeCycles
    BY <1>3, <2>1, <2>5 DEF ArmedTimers, TimerState
  <2>. QED BY <1>4, <2>1, <2>3, <2>4, <2>6 DEF WakeUps
<1>8. ASSUME HBlankIrq \in regIE \cap dispstat.irqs,
             NEW w \in {IF dispstat.hblank THEN videoCount + HDraw ELSE videoCount}
      PROVE  executeCycles < w /\ w - executeCycles \in WakeUps'
  <2>1. ~EnterHBlank(irqs)
    BY <1>2, <1>3, <1>8
  <2>2. /\ executeCycles < w
        /\ w - executeCycles = IF dispstat'.hblank THEN videoCount' + HDraw ELSE videoCount'
    <3>1. CASE MidLine(irqs)
      <4>1. videoCount > executeCycles /\ videoCount' = videoCount - executeCycles
            /\ dispstat' = dispstat
        BY <3>1 DEF MidLine
      <4>. QED BY <1>4, <4>1
    <3>2. CASE NewLine(irqs)
      <4>1. /\ dispstat.hblank /\ videoCount <= executeCycles
            /\ videoCount' = videoCount - executeCycles + HDraw
            /\ dispstat' = [dispstat EXCEPT !.hblank = FALSE,
                 !.match = (NextLine = dispstat.compare), !.vblank = VBlankFrom(NextLine)]
        BY <3>2 DEF NewLine
      <4>2. ~dispstat'.hblank
        BY <1>4, <4>1 DEF DispstatState
      <4>. QED BY <1>4, <4>1, <4>2
    <3>. QED BY <1>1, <2>1, <3>1, <3>2 DEF VideoStep
  <2>3. HBlankIrq \in regIE' \cap dispstat'.irqs
    BY <1>3, <1>5, <1>8
  <2>. QED BY <2>2, <2>3 DEF WakeUps
<1>9. ASSUME NEW w \in WakeUps
      PROVE  executeCycles < w /\ w - executeCycles \in WakeUps'
  <2>1. CASE \E line \in ArmedLines : w = CyclesTo(line)
    BY <1>6, <2>1
  <2>2. CASE \E i \in ArmedTimers : w = timer[i].count
    BY <1>7, <2>2
  <2>3. CASE /\ HBlankIrq \in regIE \cap dispstat.irqs
             /\ w \in {IF dispstat.hblank THEN videoCount + HDraw ELSE videoCount}
    BY <1>8, <2>3
  <2>. QED BY <2>1, <2>2, <2>3 DEF WakeUps
<1>. QED BY <1>3, <1>9

\* There is a wake-up where HaltEnds asks for one, and only there.
THEOREM ArmedHasWakeUp == TypeOK => (WakeUpArmed <=> WakeUps # {})
<1> SUFFICES ASSUME TypeOK PROVE WakeUpArmed <=> WakeUps # {}
  OBVIOUS
<1>1. WakeUps # {} <=> \/ ArmedLines # {} \/ ArmedTimers # {}
                       \/ HBlankIrq \in regIE \cap dispstat.irqs
  BY DEF WakeUps
<1>2. /\ VisLines \in 0 .. Lines - 1
      /\ dispstat.compare < Lines <=> dispstat.compare \in 0 .. Lines - 1
  BY DisplayAssumption DEF TypeOK, DispstatState
<1>3. ArmedLines # {} <=> \/ VBlankIrq \in regIE \cap dispstat.irqs
                          \/ VCountIrq \in regIE \cap dispstat.irqs /\ dispstat.compare < Lines
  BY <1>2 DEF ArmedLines
<1>4. ArmedTimers # {} <=>
        \E i \in Timers : /\ timer[i].status = "prescale" /\ timer[i].irq
                           /\ <<"timer", i>> \in regIE
  BY DEF ArmedTimers
<1>. QED BY <1>1, <1>3, <1>4 DEF WakeUpArmed

\* For any screen, any timers and whatever interrupts are enabled: the CPU sleeps no longer
\* than until the first event it waits for.
THEOREM WakesOnTime == Spec => WakesInTime
<1>. DEFINE OnTime ==
        Waiting =>
          \/ ~halted'
          \/ /\ UpdateGba /\ Waiting'
             /\ 0 < executeCycles
             /\ \A w \in WakeUps : executeCycles < w /\ w - executeCycles \in WakeUps'
          \/ PollInput /\ Waiting' /\ WakeUps' = WakeUps
<1>1. ASSUME Position, EventInLine, Next, Waiting, halted'
      PROVE  \/ /\ UpdateGba /\ Waiting'
                /\ 0 < executeCycles
                /\ \A w \in WakeUps : executeCycles < w /\ w - executeCycles \in WakeUps'
             \/ PollInput /\ Waiting' /\ WakeUps' = WakeUps
  <2>1. ~Reset /\ ~GuestStep
    BY <1>1 DEF Waiting, Reset, GuestStep, CountTimer, StartTimer, StopTimer, StartDma,
       StopDma, WriteDispstat, WriteIE, WriteIME, WriteP1Cnt, WriteIF, MaskIrqs, UnmaskIrqs,
       Halt, GuestRuns
  <2>2. CASE UpdateGba
    BY <1>1, <2>2, NothingMissed DEF Position, NoEventOvershot
  <2>3. CASE PollInput
    <3>1. UNCHANGED <<executeCycles, displayVars, timer, irqSetup>> /\ Waiting'
      BY <1>1, <2>3 DEF PollInput, Raise, Waiting, irqSetup
    <3>2. WakeUps' = WakeUps
      BY <3>1 DEF displayVars, irqSetup, WakeUps, CyclesTo, ArmedLines, ArmedTimers, LineCycles
    <3>. QED BY <2>3, <3>1, <3>2
  <2>. QED BY <1>1, <2>1, <2>2, <2>3 DEF Next
<1>2. Position /\ EventInLine /\ [Next]_vars => [OnTime]_vars
  BY <1>1
<1>3. Init => EventInLine
  BY DisplayAssumption DEF Init, ClearedDispstat, EventInLine
<1>4. TypeOK /\ NoEventOvershot /\ FramePosition => Position
  BY DEF Position
<1>. QED
  BY <1>2, <1>3, <1>4, EventStaysInLine, TypeCorrect, Deadline, PositionKept, PTL
     DEF Spec, WakesInTime
=============================================================================
