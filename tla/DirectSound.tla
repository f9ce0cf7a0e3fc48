------------------------------ MODULE DirectSound ------------------------------
(***************************************************************************)
(* The two Direct Sound FIFOs (sound.c) and the DMA channels 1 and 2 that  *)
(* feed them (trigger_dma and dma_transfer of gba_memory.c).  A timer that *)
(* overflows takes a sample from the FIFOs it drives; a FIFO that is half  *)
(* empty then asks the channels linked to it for a burst of samples.       *)
(*                                                                         *)
(* The FIFO has no count: how full it is is the distance of two indices in *)
(* a ring, the same when it is empty and when it is full.  Which timer     *)
(* drives which FIFO changes nothing here, a FIFO's timer may overflow at  *)
(* any time; the interrupts of timers and DMA are in GbaClock.  Samples    *)
(* are not represented, only the slots that hold one that was not played.  *)
(***************************************************************************)
EXTENDS Integers, FiniteSets

CONSTANTS
    Fifos,      \* "A" and "B"
    Burst,      \* samples of a sound DMA, 16: half of the FIFO
    Programs,   \* what the game writes to the registers of a channel
    CpuWrites   \* samples a store to a FIFO's register holds: 1, 2 or 4

ASSUME FifosAssumption == {"A"} \subseteq Fifos /\ Fifos \subseteq {"A", "B"}
ASSUME BurstAssumption == Burst \in Nat \ {0}

Channels == {1, 2}
Size == 2 * Burst
Slots == 0 .. Size - 1

\* The start types of a DMA that waits for the display.
DisplayTypes == {"vblank", "hblank"}
Addresses == Fifos \cup {"memory"}

\* The lengths of other transfers are bounded by the size of a FIFO.
ASSUME GameAssumption ==
    /\ Programs \subseteq [type: DisplayTypes \cup {"immediately", "special"},
                            address: Addresses, again: BOOLEAN, length: 1 .. Size]
    /\ CpuWrites \subseteq 1 .. Size

VARIABLES
    base, top,  \* fifo_base and fifo_top of each FIFO
    unread,     \* slots that hold a sample not played yet (history)
    start,      \* start_type of each channel
    link,       \* direct_sound_channel of each channel
    repeat,     \* repeat_type
    dest,       \* where the channel writes
    length,     \* length
    oneShot,    \* a sound DMA without repeat was started since the channel was last
                \* disabled (history)
    lost,       \* a sample was overwritten before it was played (history)
    disturbed,  \* the FIFO was fed by more than the CPU and one sound DMA, by more than it
                \* had room for, or erased (history)
    strayed,    \* after the FIFO had run dry, a store to it passed the base (history)
    flowing     \* a sample was played while a sound DMA feeds the FIFO (history)

ringVars == <<base, top, unread>>
dmaVars == <<start, link, repeat, dest, length>>
history == <<oneShot, lost, disturbed, strayed, flowing>>
vars == <<ringVars, dmaVars, history>>
-----------------------------------------------------------------------------
(***************************************************************************)
(* The ring                                                                *)
(***************************************************************************)
\* (i + n) % 32, for n up to 64
Plus(i, n) ==
    IF i + n < Size THEN i + n
    ELSE IF i + n < 2 * Size THEN i + n - Size ELSE i + n - 2 * Size

\* Mutant: the difference of the indices is not reduced modulo 32.
Unreduced(t, b) == IF t >= b THEN t - b ELSE Size + t + b

\* (fifo_top - fifo_base) % 32
Distance(t, b) == IF t >= b THEN t - b ELSE t - b + Size

\* The slots n samples go to.
NextSlots(t, n) == {i \in Slots : Distance(i, t) < n}

\* Slots from the base to the top.  Where the indices are equal they do not tell a full
\* FIFO from an empty one.
Held(f) ==
    IF top[f] = base[f] THEN IF unread[f] = {} THEN 0 ELSE Size
                        ELSE Distance(top[f], base[f])

\* The FIFO has run dry and slots that were skipped are still between the indices.
Adrift(f) == \E i \in Slots : Distance(i, base[f]) < Held(f) /\ i \notin unread[f]

\* Samples n[f] are queued in each FIFO, of which the slots r[f] hold samples.
Queue(r, n) ==
    /\ top' = [f \in Fifos |-> Plus(top[f], n[f])]
    /\ unread' = [f \in Fifos |-> r[f] \cup NextSlots(top[f], n[f])]
    /\ lost' = [f \in Fifos |->
                  lost[f] \/ NextSlots(top[f], n[f]) \cap r[f] # {}]
-----------------------------------------------------------------------------
(***************************************************************************)
(* DMA                                                                     *)
(***************************************************************************)
\* Samples the channel c, if it is in cs, writes to the FIFO f.
Part(cs, c, f) == IF c \in cs /\ dest[c] = f THEN length[c] ELSE 0

Amount(cs, f) == Part(cs, 1, f) + Part(cs, 2, f)

\* dma_transfer of the channels cs: those that do not repeat become inactive.
Finished(cs) ==
    start' = [c \in Channels |-> IF c \in cs /\ ~repeat[c] THEN "inactive" ELSE start[c]]

\* The FIFOs the channels cs write to.
Reached(cs) == {dest[c] : c \in cs}

\* The FIFO a sound DMA is taken to feed: A, unless the destination is that of B.
LinkTo(address) == IF address = "B" THEN "B" ELSE "A"

\* The registers of the channel, as trigger_dma reads them.
Programmed(c, p) ==
    /\ repeat' = [repeat EXCEPT ![c] = p.again]
    /\ dest' = [dest EXCEPT ![c] = p.address]
    /\ length' = [length EXCEPT ![c] = IF p.type = "special" THEN Burst ELSE p.length]

\* trigger_dma, for a sound DMA.
StartSound(c, p) ==
    /\ start[c] = "inactive" /\ p.type = "special"
    /\ start' = [start EXCEPT ![c] = "special"]
    /\ link' = [link EXCEPT ![c] = LinkTo(p.address)]
    /\ Programmed(c, p)
    /\ oneShot' = [oneShot EXCEPT ![c] = @ \/ ~p.again]
    /\ UNCHANGED <<ringVars, lost, disturbed, strayed, flowing>>

\* trigger_dma, for a DMA that waits for the display; the link stays as it was.
StartDisplay(c, p) ==
    /\ start[c] = "inactive" /\ p.type \in DisplayTypes
    /\ start' = [start EXCEPT ![c] = p.type]
    /\ Programmed(c, p)
    /\ UNCHANGED <<ringVars, link, history>>

\* trigger_dma, for a DMA that is done at once, whatever its repeat bit.
StartImmediately(c, p) ==
    /\ start[c] = "inactive" /\ p.type = "immediately"
    /\ Programmed(c, p)
    /\ Queue(unread, [f \in Fifos |-> IF f = p.address THEN p.length ELSE 0])
    /\ disturbed' = [f \in Fifos |-> disturbed[f] \/ f = p.address]
    /\ UNCHANGED <<base, start, link, oneShot, strayed, flowing>>

\* A sound DMA feeds the FIFO.
Feeding(f) == \E c \in Channels : start[c] = "special" /\ link[c] = f /\ dest[c] = f

\* Mutant: the link of a channel survives.
LinkKept(c) == link[c]

NoLink(c) == "none"

\* trigger_dma, with the enable bit clear.
Disable(c) ==
    /\ start' = [start EXCEPT ![c] = "inactive"]
    /\ link' = [link EXCEPT ![c] = NoLink(c)]
    /\ oneShot' = [oneShot EXCEPT ![c] = FALSE]
    /\ UNCHANGED <<ringVars, repeat, dest, length, lost, disturbed, strayed>>
    /\ flowing' = [f \in Fifos |-> flowing[f] /\ Feeding(f)']

\* update_gba starts the DMAs that wait for the H-blank or the V-blank.
DisplayStarts(type) ==
    LET cs == {c \in Channels : start[c] = type}
    IN /\ cs # {}
       /\ Finished(cs)
       /\ Queue(unread, [f \in Fifos |-> Amount(cs, f)])
       /\ disturbed' = [f \in Fifos |-> disturbed[f] \/ f \in Reached(cs)]
       /\ UNCHANGED <<base, link, repeat, dest, length, oneShot, strayed, flowing>>
-----------------------------------------------------------------------------
(***************************************************************************)
(* The FIFOs                                                               *)
(***************************************************************************)
\* A store to the FIFO's register: n samples at the top, room or not.  A game that leaves
\* room counts samples; the slots a dry FIFO has skipped are beyond its count.
CpuWrite(f, n) ==
    /\ Queue(unread, [g \in Fifos |-> IF g = f THEN n ELSE 0])
    /\ disturbed' = [disturbed EXCEPT ![f] = @ \/ Cardinality(unread[f]) + n > Size]
    /\ strayed' = [strayed EXCEPT ![f] = @ \/ (Adrift(f) /\ Held(f) + n > Size)]
    /\ UNCHANGED <<base, dmaVars, oneShot, flowing>>

\* Mutant: only the first of the channels is asked.
FirstOnly(f) == {c \in {1} : link[c] = f}

\* The channels a FIFO that runs low asks, whatever their start type.
Asked(f) == {c \in Channels : link[c] = f}

\* Mutant: a burst is asked for one sample too early.
TooEarly(t, b) == Distance(t, b) <= Burst + 1

Low(t, b) == Distance(t, b) <= Burst

\* What the channels cs write to g, when f asks, is one burst of a sound DMA for f.
Alone(cs, f, g) == g = f /\ \E c \in cs : cs = {c} /\ start[c] = "special"

\* sound_timer: a sample is taken, there or not; then the channels are asked.
SoundTimer(f) ==
    LET b == Plus(base[f], 1)
        cs == IF Low(top[f], b) THEN Asked(f) ELSE {}
        rest == [unread EXCEPT ![f] = @ \ {base[f]}]
    IN /\ base' = [base EXCEPT ![f] = b]
       /\ Finished(cs)
       /\ Queue(rest, [g \in Fifos |-> Amount(cs, g)])
       /\ disturbed' = [g \in Fifos |->
                          disturbed[g] \/ (g \in Reached(cs) /\ ~Alone(cs, f, g))]
       /\ UNCHANGED <<link, repeat, dest, length, oneShot, strayed>>
       /\ flowing' = [flowing EXCEPT ![f] = Feeding(f)' /\ (@ \/ base[f] \in unread[f])]

\* sound_reset_fifo, of either FIFO: the samples of A are set to 0, the indices stay.
ResetFifo ==
    /\ lost' = [lost EXCEPT !["A"] = @ \/ unread["A"] # {}]
    /\ disturbed' = [disturbed EXCEPT !["A"] = @ \/ unread["A"] # {}]
    /\ UNCHANGED <<ringVars, dmaVars, oneShot, strayed, flowing>>

\* reset_gba
Reset ==
    /\ base' = [f \in Fifos |-> 0] /\ top' = base' /\ unread' = [f \in Fifos |-> {}]
    /\ start' = [c \in Channels |-> "inactive"]
    /\ link' = [c \in Channels |-> "none"]
    /\ oneShot' = [c \in Channels |-> FALSE]
    /\ lost' = [f \in Fifos |-> FALSE]
    /\ disturbed' = lost' /\ strayed' = lost' /\ flowing' = lost'
    /\ UNCHANGED <<repeat, dest, length>>

Init ==
    /\ base = [f \in Fifos |-> 0] /\ top = base /\ unread = [f \in Fifos |-> {}]
    /\ start = [c \in Channels |-> "inactive"]
    /\ link = [c \in Channels |-> "none"]
    /\ repeat = [c \in Channels |-> FALSE]
    /\ dest = [c \in Channels |-> "memory"]
    /\ length = [c \in Channels |-> 0]
    /\ oneShot = [c \in Channels |-> FALSE]
    /\ lost = [f \in Fifos |-> FALSE]
    /\ disturbed = lost /\ strayed = lost /\ flowing = lost

TriggerDma(c) ==
    \/ \E p \in Programs : StartSound(c, p) \/ StartDisplay(c, p) \/ StartImmediately(c, p)
    \/ Disable(c)

Next ==
    \/ \E c \in Channels : TriggerDma(c)
    \/ \E type \in DisplayTypes : DisplayStarts(type)
    \/ \E f \in Fifos : SoundTimer(f) \/ \E n \in CpuWrites : CpuWrite(f, n)
    \/ ResetFifo \/ Reset

\* The timer of each FIFO runs.
Spec == Init /\ [][Next]_vars /\ \A f \in Fifos : WF_vars(SoundTimer(f))
-----------------------------------------------------------------------------
TypeOK ==
    /\ base \in [Fifos -> Slots] /\ top \in [Fifos -> Slots]
    /\ unread \in [Fifos -> SUBSET Slots]
    /\ start \in [Channels -> {"inactive", "special"} \cup DisplayTypes]
    /\ link \in [Channels -> Fifos \cup {"none"}]
    /\ repeat \in [Channels -> BOOLEAN]
    /\ dest \in [Channels -> Addresses]
    /\ length \in [Channels -> 0 .. Size]
    /\ oneShot \in [Channels -> BOOLEAN]
    /\ lost \in [Fifos -> BOOLEAN] /\ disturbed \in [Fifos -> BOOLEAN]
    /\ strayed \in [Fifos -> BOOLEAN] /\ flowing \in [Fifos -> BOOLEAN]

\* A FIFO that holds what it should: one sound DMA feeds it, the game has left room for
\* what it stored, and no store went past the base after the FIFO had run dry.
Orderly(f) == ~disturbed[f] /\ ~strayed[f]

\* Although a full FIFO looks empty and a dry one nearly full, no sample is overwritten
\* before it was played as long as the FIFO is orderly.
SamplesKept == \A f \in Fifos : lost[f] => ~Orderly(f)

\* Once a sample was played with a sound DMA feeding an orderly FIFO there is always a next
\* one: neither a gap nor a sample played twice, however the indices wrap.
Gapless == \A f \in Fifos : flowing[f] /\ Orderly(f) => base[f] \in unread[f]

\* sound_timer starts a linked channel whatever its start type, so a link must not outlive
\* the sound DMA it was made for; it does for one without repeat, until it is disabled.
LinkedIsActive ==
    \A c \in Channels : link[c] # "none" => start[c] = "special" \/ oneShot[c]

\* A FIFO that has run dry looks full: still, its sound DMA fills it in the end.
SoundArrives ==
    \A f \in Fifos : Feeding(f) ~> (unread[f] # {} \/ ~Feeding(f))
=============================================================================
