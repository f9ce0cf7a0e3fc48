---------------------------- MODULE GamepakPages ----------------------------
(***************************************************************************)
(* ROM page swapping: a ROM that is larger than the buffer gamepak_rom is  *)
(* read in pages of 32KB.  A page that is not mapped is read from the file *)
(* into the slot whose page was loaded longest ago, and stays mapped until *)
(* its slot is needed for another page.                                    *)
(*                                                                         *)
(* Three things hold on to a page: memory_map_read (its three mirrors      *)
(* always agree and are one function here), gamepak_memory_map, and the    *)
(* interpreter, which keeps the address of the page its pc is in for as    *)
(* long as the pc stays in that page.  The RTC adds a fourth: the bytes    *)
(* 0xC4 to 0xC9 of page 0 are its registers as the game reads them.        *)
(***************************************************************************)
EXTENDS Integers

CONSTANTS
    RamPages,  \* gamepak_ram_pages, the slots of the buffer
    RomPages,  \* gamepak_size >> 15, the pages of the ROM
    RtcValues, \* values the game writes to the RTC's registers, 0 included
    MaxTime,   \* a bound on page_time
    RomByte,   \* a byte of the ROM file itself
    NULL       \* no page, no slot

Slots == 0 .. RamPages - 1
Pages == 0 .. RomPages - 1

ASSUME SizesAssumption ==
    /\ RamPages \in Nat \ {0}
    /\ RomPages \in Nat
    /\ RamPages < RomPages
    /\ MaxTime \in Nat
ASSUME NullAssumption == NULL \notin Slots /\ NULL \notin Pages
ASSUME RtcAssumption == 0 \in RtcValues /\ RtcValues \subseteq Nat

VARIABLES
    timestamp,    \* gamepak_memory_map[s].page_timestamp
    physical,     \* gamepak_memory_map[s].physical_index
    content,      \* the page whose bytes slot s of gamepak_rom holds
    mapped,       \* memory_map_read: the slot page p is mapped to
    pageTime,     \* page_time
    code,         \* pc_region and pc_address_block, NULL outside the ROM
    rtcActive,    \* rtc_state # RTC_DISABLED
    rtcRegisters, \* rtc_registers
    gpio          \* the bytes 0xC4..0xC9 of slot s, 0..5 here

slotVars == <<timestamp, physical, content, mapped, pageTime>>
rtcVars == <<rtcActive, rtcRegisters>>
vars == <<slotVars, code, rtcVars, gpio>>

NoRtc == [i \in 0 .. 2 |-> 0]
RomBytes == [k \in 0 .. 5 |-> RomByte]
-----------------------------------------------------------------------------
\* Mutant: the slot that was loaded last is taken.
VictimNewest(s) ==
    \A t \in Slots : /\ timestamp[t] <= timestamp[s]
                     /\ timestamp[t] = timestamp[s] => t <= s

\* evict_gamepak_page: the smallest timestamp, of equal ones the last slot.
Victim(s) ==
    \A t \in Slots : /\ timestamp[s] <= timestamp[t]
                     /\ timestamp[t] = timestamp[s] => t <= s

\* Mutant: the page that loses its slot stays mapped.
MapOnly(p, s) == [mapped EXCEPT ![p] = s]

\* The page the slot held is unmapped, whether or not it is mapped elsewhere.
Remap(p, s) == [mapped EXCEPT ![physical[s]] = NULL, ![p] = s]

\* Mutant: page_time is counted before it is used.
StampNext == pageTime + 1

Stamp == pageTime

\* The RTC bytes of a slot into which page p has been read: the three registers
\* are copied to three bytes in a row.
PagedBytes(p, active, registers) ==
    IF active /\ p = 0
      THEN [k \in 0 .. 5 |-> IF k < 3 THEN registers[k] ELSE RomByte]
      ELSE RomBytes

\* load_gamepak_page up to its last step, the RTC bytes.
LoadInto(p, s) ==
    /\ pageTime < MaxTime
    /\ Victim(s)
    /\ timestamp' = [timestamp EXCEPT ![s] = Stamp]
    /\ physical' = [physical EXCEPT ![s] = p]
    /\ content' = [content EXCEPT ![s] = p]
    /\ mapped' = Remap(p, s)
    /\ pageTime' = pageTime + 1

LoadPage(p, s) ==
    /\ LoadInto(p, s)
    /\ gpio' = [gpio EXCEPT ![s] = PagedBytes(p, rtcActive, rtcRegisters)]
-----------------------------------------------------------------------------
\* A load instruction, or a DMA, reads a page that is not mapped.
ReadPage(p) ==
    /\ mapped[p] = NULL
    /\ \E s \in Slots : LoadPage(p, s)
    /\ UNCHANGED <<code, rtcVars>>

\* The pc is still in the page whose address the interpreter keeps.
InPage(p) == code # NULL /\ code.page = p

\* check_pc_region, and the start of execute_arm: the address is looked up when
\* the pc comes from another page, from other memory or from outside the frame.
FetchFrom(p) ==
    /\ ~InPage(p)
    /\ \/ /\ mapped[p] # NULL
          /\ code' = [page |-> p, slot |-> mapped[p]]
          /\ UNCHANGED <<slotVars, gpio>>
       \/ /\ mapped[p] = NULL
          /\ \E s \in Slots : /\ LoadPage(p, s)
                              /\ code' = [page |-> p, slot |-> s]
    /\ UNCHANGED rtcVars

\* The pc leaves the ROM, or the frame ends.
LeaveRom ==
    /\ code # NULL
    /\ code' = NULL
    /\ UNCHANGED <<slotVars, rtcVars, gpio>>

\* write_rtc_register: the register changes, and its bytes in page 0.
WriteRtcRegister(i) ==
    /\ \E v \in RtcValues : rtcRegisters' = [rtcRegisters EXCEPT ![i] = v]
    /\ LET written(bytes) == [bytes EXCEPT ![2 * i] = rtcRegisters'[i],
                                           ![2 * i + 1] = 0]
       IN \/ /\ mapped[0] # NULL
             /\ gpio' = [gpio EXCEPT ![mapped[0]] = written(@)]
             /\ UNCHANGED slotVars
          \/ /\ mapped[0] = NULL
             /\ \E s \in Slots :
                   /\ LoadInto(0, s)
                   /\ gpio' = [gpio EXCEPT ![s] =
                          written(PagedBytes(0, rtcActive', rtcRegisters'))]
    /\ UNCHANGED code

\* write_rtc: a command, at address 0xC4, activates the RTC; it goes to register 2 as long
\* as bit 0 of that is clear.
WriteRtcPort(port) ==
    /\ rtcActive' = (rtcActive \/ port = 0)
    /\ WriteRtcRegister(IF port = 0 /\ rtcRegisters[2] % 2 = 0 THEN 2 ELSE port)

\* The RTC's reset command, and the last bit of a reply: the registers are
\* cleared, their bytes in the page are not.
ClearRtcRegisters ==
    /\ rtcActive
    /\ rtcRegisters' = NoRtc
    /\ UNCHANGED <<slotVars, code, rtcActive, gpio>>

Init ==
    /\ timestamp = [s \in Slots |-> 0]
    /\ physical = [s \in Slots |-> 0]
    /\ content = [s \in Slots |-> NULL]
    /\ mapped = [p \in Pages |-> NULL]
    /\ pageTime = 0
    /\ code = NULL
    /\ rtcActive = FALSE
    /\ rtcRegisters = NoRtc
    /\ gpio = [s \in Slots |-> RomBytes]

\* Mutant: a reset does not free the slots.
SlotsKept == physical

FreeSlots == [s \in Slots |-> 0]

\* init_memory, between two frames: nothing stays mapped, page_time goes on.
Reset ==
    /\ code = NULL
    /\ timestamp' = [s \in Slots |-> 0]
    /\ physical' = FreeSlots
    /\ mapped' = [p \in Pages |-> NULL]
    /\ rtcActive' = FALSE
    /\ rtcRegisters' = NoRtc
    /\ UNCHANGED <<content, pageTime, code, gpio>>

\* gba_load_state, between two frames: the RTC's registers are restored, the
\* pages are left alone.
LoadState ==
    /\ code = NULL
    /\ rtcActive' \in BOOLEAN
    /\ rtcRegisters' \in [0 .. 2 -> RtcValues]
    /\ UNCHANGED <<slotVars, code, gpio>>

Next ==
    \/ \E p \in Pages : ReadPage(p) \/ FetchFrom(p)
    \/ LeaveRom
    \/ \E port \in 0 .. 2 : WriteRtcPort(port)
    \/ ClearRtcRegisters
    \/ Reset
    \/ LoadState

Spec == Init /\ [][Next]_vars
-----------------------------------------------------------------------------
CodePointer == [page: Pages, slot: Slots]

\* The tables have the sizes the code gives them, and no slot carries a time
\* stamp that page_time has still to reach.
TypeOK ==
    /\ timestamp \in [Slots -> Nat]
    /\ \A s \in Slots : timestamp[s] = 0 \/ timestamp[s] < pageTime
    /\ physical \in [Slots -> Pages]
    /\ content \in [Slots -> Pages \cup {NULL}]
    /\ mapped \in [Pages -> Slots \cup {NULL}]
    /\ pageTime \in 0 .. MaxTime
    /\ code \in CodePointer \cup {NULL}
    /\ rtcActive \in BOOLEAN
    /\ rtcRegisters \in [0 .. 2 -> RtcValues]
    /\ gpio \in [Slots -> [0 .. 5 -> RtcValues \cup {0, RomByte}]]

\* What is mapped is there: the slot a page is mapped to holds the bytes of that
\* page and is recorded as its slot, however loads, evictions and resets follow
\* each other.
MappedIsLoaded ==
    \A p \in Pages : mapped[p] # NULL =>
        physical[mapped[p]] = p /\ content[mapped[p]] = p

\* No slot is wasted on a page that cannot be reached: every page but page 0 that
\* has a slot is mapped to it, so no page but page 0 is ever in two slots.  (Page
\* 0 may be: an empty slot is recorded as one of page 0.)
HeldOnce == \A s \in Slots : physical[s] # 0 => mapped[physical[s]] = s

\* A page that was loaded when the clock stood at t keeps its slot until the clock
\* stands at t + RamPages, whatever is loaded in between.  Only the first load of
\* all, stamped 0 like an empty slot, has no such promise.
LoadsApart ==
    [][pageTime' # pageTime =>
          \A s \in Slots : 0 < timestamp[s] /\ timestamp'[s] # timestamp[s]
              => timestamp'[s] - timestamp[s] >= RamPages]_vars

\* readme.txt: ROMs that do not fit are "demand loaded" as necessary and page
\* swapped out, at the cost of a loading lag only.  So the instructions the
\* interpreter fetches are those of the page its pc is in.
CodeIsTheRoms == code # NULL => content[code.slot] = code.page
=============================================================================
