# picogpsp in TLA+

picogpsp is a Game Boy Advance emulator: gpSP's interpreter, dynamic recompiler,
video, sound and memory, with an SDL front end for small handhelds
(`src/frontend/`) and a libretro one (`src/libretro.c`).  This directory holds TLA+
models of the parts of it where order matters, the TLC runs that check them on
small instances, and TLAPS proofs for every value of the constants.

    tlc -config GbaClock.cfg MCGbaClock.tla      a run (PROJECT.json lists them)
    tlapm GbaClockProofs.tla                     the proofs of a component

## 1. The system and its parts

One thread runs everything except the audio callback of SDL.  The host loop of
`frontend/main.c` repeats: poll the input (hot keys, menu, reset), decide from the
time and the fill level of the sound ring whether to skip the frame
(`synchronize`), run the CPU until `update_gba` reports a completed frame, write the
sound of the frame.  Inside a frame the CPU loop runs a *slice* of guest
instructions and then calls `update_gba`, which moves timers, display, sound and DMA
forward and picks the length of the next slice.

| component | state it keeps | operations | what makes it correct | model |
|---|---|---|---|---|
| **emulated clock** `main.c`, `trigger_timer`/`count_timer` of `gba_memory.c` | `execute_cycles`, `video_count`, `cpu_ticks`, `timer[4]`, VCOUNT, DISPSTAT, IE/IF/IME, halt state | `update_gba`, register writes, `reset_gba` | no event is overshot; the frame is exact; no interrupt is lost or delivered twice; a halted CPU wakes | `GbaClock` |
| **ROM page swapping** `load_gamepak_page`, `evict_gamepak_page`, `check_pc_region` | `gamepak_memory_map`, `memory_map_read`, `page_time`, the page of the pc, RTC registers | page in, evict, fetch, reset, load state | what is mapped is loaded; an evicted page is not used | `GamepakPages` |
| **processor modes** `set_cpu_mode`, `raise_interrupt`, PSR instructions of `cpu.c` | `reg`, `reg_mode`, `spsr`, CPSR | MSR, exceptions, returns | one bank of registers per mode; the two copies of the mode agree | `CpuModes` |
| **backup memory** `read_backup`, `write_backup`, `load_backup`, `save_backup` | chip kind and size, flash command state, bank | reads and writes, save, reset, restart, savestate | what the game modified is saved; flash is protected | `Backup` |
| **EEPROM** `read_eeprom`, `write_eeprom`, size from `trigger_dma` | `eeprom_mode`, address, counter, buffer, size | serial reads and writes by DMA | it is an array of blocks, whole in the file | `Eeprom`, `Cartridge` |
| **real-time clock** `write_rtc` | `rtc_state`, command, bit count, data, registers | edges of three lines | chip and driver stay in step; the answer is the time | `Rtc`, `Cartridge` |
| **sound ring** `plat_linux.c`, `toggle_fast_forward` | `buf`, `buf_w`, `buf_r`, audio lock, settings | callback, write, capacity, fast forward | a queue that loses nothing; a writer gets room | `AudioRing` |
| **Direct Sound FIFOs** `sound_timer`, `sound_timer_queue*`, `trigger_dma` | `fifo_base`, `fifo_top`, the links of DMA 1 and 2 | timer overflow, refill by DMA, stores, reset | no sample lost, no gap, refilled after it ran dry | `DirectSound` |
| DMA `trigger_dma`, `dma_transfer` | `dma[4]` | start, transfer, alerts | every start runs once; alerts reach the CPU | partly: `DirectSound`, `GbaClock`, `Cartridge` |
| **translation cache for RAM** `cpu_threaded.c`, store handlers of the `*_stub.S` | `ram_block_ptrs`, `ram_block_tag_top`, `ram_translation_ptr`, the mirror of the RAM, `*_code_min`, `*_code_max` | lookup, translate, link, flush | no stale block is run; tags and links lead to the right block; a lookup ends | `TranslationCache` |
| **blocks of Thumb code** `scan_block`, `thumb_dead_flag_eliminate`, the MIPS emitter | `block_data`, `block_exits` | scan, eliminate, emit, link | no flag is left out that is read; an exit is linked to its own target | `ThumbFlags` |
| **CPSR under translated code** `psp/mips_stub.S` | flags in host registers, CPSR, `spsr`, the set of the running block | collapse, extract, exceptions, PSR accesses, alerts | no flag is lost; T and the code that runs agree | `PsrCache` |
| savestates `gba_save_state`, `gba_load_state` | a snapshot of registers and memory | save, load | nothing is left at another moment than the rest | partly: `Backup`, `Cartridge`, `PsrCache` |
| interpreter `cpu.c` | registers | every instruction | that of the processor | its control: `CpuModes`, `GamepakPages`, `ThumbFlags` |
| other emitters, video, sound synthesis, scaling, cheats, settings, zip, game list, libretro | | | | not modelled |

How they meet: `update_gba` raises interrupts (clock to CPU modes), starts DMAs and
calls `sound_timer`, which starts others; a DMA or a load can page ROM in (`dma_tf_loop` to
`load_gamepak_page`) and changes memory the translation caches hold code of; DMA 3
carries the bits of the EEPROM, and its length tells the chip's size; the clock of the
cartridge answers in the bytes of ROM page 0; a
savestate restores all of them except the mapping of ROM pages and the contents of
the backup chip; a reset goes through `init_memory`, `init_main`, `init_cpu` in one
step; the front end's sound ring throttles the host loop.

What is hard, with the properties that speak about it, is the list "hazards" of
`PROJECT.json`: state read before a call that changes it (DISPSTAT over a DMA, the
pc's page over an eviction), the slice a timer shortens while it runs, guesses
about the cartridge that are made late and forgotten by a reset or a
restart, serial protocols cut off in the middle, flags that are in two places or
were never computed, two threads on a ring.

## 2. The models

The names follow the source; `PROJECT.json` maps each definition to its lines.
"Mutant" in a comment marks a definition that is not used by the specification:
it is a plausible bug, and the property it must break is named in `PROJECT.json`.

**`GbaClock`** (instances: `MCGbaClock`).  `UpdateGba` is one iteration of the loop
in `update_gba`: `update_timers`, then one of `MidLine`, `EnterHBlank`, `NewLine`,
then the new slice length.  The loop's local `irq_raised` is the variable
`irqRaised`, alive while the CPU is halted.  Timers overflow upwards through
cascades; the code's walk is stated as the one set `fired` it computes.  The guest's
writes (`StartTimer`, `StopTimer`, `CountTimer`, `StartDma`, `StopDma`,
`WriteDispstat`, `WriteIE`, `WriteIF`, `WriteIME`, `WriteP1Cnt`, PSR writes, `Halt`) may come at
any point of a slice.  A slice is not counted down in steps: `update_gba` charges
`execute_cycles` of the slice, which `trigger_timer` may have shortened, whatever
the CPU loop has really run.  `phase = "host"` is between two frames, where
`PollInput` and `Reset` are possible.  `frameTicks` and `drawn` are history.

**`GamepakPages`**.  Slots of `gamepak_rom`, pages of the ROM; `ReadPage` is a load or
a DMA of a page that is not mapped, `FetchFrom` is `check_pc_region`, `LoadPage` the
whole of `load_gamepak_page` with the eviction.  The three mirrors of the ROM in
`memory_map_read` are always written together and are one function.  Six
bytes of page 0 (`gpio`) carry the RTC's registers.  `WriteRtcPort` is a store to one of their three
addresses: one to the command register activates the clock, and lands in register 2 while bit 0 of that is clear.

**`CpuModes`** over **`BankedRegisters`**.  `BankedRegisters` is the abstract promise: a stack
pointer and link register for every mode and one copy of the rest.  `CpuModes` is
the code: live registers in `reg`, the others in `reg_mode`, moved by
`set_cpu_mode`; every caller with the CPSR update it makes, and the interrupt that
`check_for_interrupts` takes within the same instruction.  The refinement mapping
says whose registers the live ones are.

**`Backup`**.  `write_backup` is one action per case of its `switch`; addresses and bytes
are the ones the code compares with plus one of each other kind.  `chip` is what
`init_memory` resets and a savestate carries; `touched`, `since` and `gap` are
history.  `Restart` is quit followed by a new start: the save
file's size sets the chip, and `load_gamepak` with `reset_gba` resets it.  The
listed flash size (`Listed128`) comes from `gba_over.h`; the proofs hold for both.

**`Cartridge`** (instances: `MCCartridge`) over **`EepromBlocks`**, from **`Eeprom`** and
**`Rtc`**.  The two chips are operators on their state, one bit (`WriteEeprom`,
`ReadEeprom`) or one store to a line (`WriteRtc`) at a time.  `Cartridge` adds a game that
follows the protocols and a front end that interrupts it.  An EEPROM
transfer is one DMA, so one step folds the bits of a command through the chip; the
clock's lines are single stores, so every step of the driver's script is a step of
the model, and a reset, a restart or a savestate may come between any two.  `EepromBlocks` is the
promise: an array of blocks, with a file that is always a whole copy of it.  `memory` keeps the
blocks in use, which are enough: a command names one block, and a write outside them is forgotten.
`torn` is history: a savestate was loaded between a line's change and its reading.

**`AudioRing`** over **`AudioQueue`**.  `AudioQueue` is a bounded queue, its safety (`SafeSpec`) apart from the
fairness of the listener.  `AudioRing` has the two
threads at the grain at which they can meet: `buf_r` between its increment and its
wrap, and the three reads of `plat_sound_capacity`, which takes no lock.  SDL's
lock around the callback is SDL's own and is modelled as external.

**`DirectSound`** (instances: `MCDirectSound`).  The FIFOs as the code has them, two indices
without a count, and DMA channels 1 and 2 with start type, link, repeat, destination and
length.  `SoundTimer` is the whole of `sound_timer` and the transfers it starts;
`DisplayStarts` are the transfers `update_gba` starts at a blank; `StartSound`,
`StartDisplay`, `StartImmediately` and `Disable` are the branches of `trigger_dma`.
Samples are not represented: `unread` says which slots hold one that was not played.
`CpuWrite` stores at the top at any time, as the queue functions do, room or not.
`lost`, `disturbed`, `strayed`, `flowing` and `oneShot` are history.  A FIFO is `Orderly` while it is neither
`disturbed` (fed by more than the CPU and one sound DMA, by more samples than it had room for, or erased) nor
`strayed` (it ran dry, and before its indices met again a store passed the base).

**`TranslationCache`** (instances: `MCTranslationCache`).  `block_lookup_address`,
`translate_block_*` and the links of a block call each other; the recursion is an
explicit `stack` of the blocks being linked, each with the branches it has left, and
`pending` is the pc of the outermost call.  `TranslateBlock` is everything from
`fill_tag` to the raised `code_max`; `Overflow` is the same translation when the cache
is full, with the failure handed down to the outermost level, which starts again.
IWRAM and EWRAM are one memory; an address holds one instruction and an
instruction takes one unit of the cache.  `cache` holds of each block the
instructions it was made from, which makes staleness a comparison.  Stores come in
two kinds: `Store` looks at the mirror, `StoreUnchecked` stands for the writes whose
alert is not made or is lost.  `Store` sees the whole entry of the mirror, or one byte of it, as the store
of a byte does.  A byte has `ByteValues` values and the first tag is `ByteValues + 1` (0x0101 for 256); with the
instance's 2 values every other tag has a low byte of 0, which a byte store takes for memory without code.  `unchecked` (the
addresses written by stores that did not look, or saw such a byte) and `aborted` are history.
A block ends at a branch that always leaves it, at `MaxExits` branches, at `MaxBlock` instructions or at the last address.

**`ThumbFlags`** (instances: `MCThumbFlags`).  A block is scanned instruction by instruction
(`ScanInstruction`), its flag data is walked backwards (`StartElimination`,
`Eliminate`), then it runs.  An instruction is a kind (`Operations`) and a branch target.
What the code says about a kind in three places is three tables: the scanner's
(`Status`), the emitter's (`Generated`) and the interpreter's (`Written`), which is the reference.
`right` are the flags whose cached value is the interpreter's, `spoilt` those that the
deviations listed below have lost.  `block_data` is not cleared between blocks, so
`flagData` is not either.

**`PsrCache`** (instances: `MCPsrCache`).  CPSR is a word in memory whose flags are out of
date while translated code runs, and host registers `cache` that hold them.  One action per
routine of the stub, with the collapse or extraction it makes or leaves out.
`right` and `lost` are history: the flags the instructions left, for the running code and for
the code each exception interrupted, and those of them the code is known to replace by older
ones.

## 3. The runs

| run | question | bounds, and why they are enough |
|---|---|---|
| `clock` | no event overshot, frame position and length | 2 timers (the upper may cascade), reloads 1 and 3, scales 1 and 2, lines of 3+2 cycles, 1 of 3 lines visible: overflows before, at and after line events, two in a row, cascades |
| `clock_irqs` | interrupts taken, not doubled; frames complete; halts end | 1 timer, 1 DMA channel, 2 lines of 2+1 cycles, interrupt sets with display, timer and DMA interrupts; every order of enable, raise, mask, acknowledge and halt |
| `gamepak` | what is mapped is loaded, page age | 3 slots, 5 pages, 9 loads: every slot is used, evicted and reused, page 0 comes back, resets in between |
| `gamepak_fetch` | the finding | 2 slots, 3 pages |
| `modes` | refinement of `BankedRegisters`, mode kept twice | system and IRQ mode written by the guest, supervisor mode by SWI; two register values told apart (symmetric), enough to see any wrong bank |
| `backup` | saved regions, flash protection | all addresses and bytes the code tells apart, one savestate; nothing is cut off, the state space is finite |
| `cartridge` | the EEPROM is an array and is saved; the clock and its driver stay in step and agree on status and time | both sizes of chip; a block either has (5) and the last one of the large (1023); blocks of 64 bits, two values of a block (erased, and a 1 in the last bit); the clock's commands to write the status, read it and read the time of day, with one time whose digits differ. Reset, restart and load come between any two steps; a savestate between two transactions or at step 24 of the script, where the answer is prepared and no line has been read |
| `audio` | ring is a queue, no loss, no deadlock, the unlocked read | ring of 4, batches of 3, requests of 2: both indices wrap at different times, a write meets a full ring, a callback an empty one |
| `sound_dma` | no sample lost, no gap, refill after silence, links | one FIFO of 4 samples with bursts of 2 (32 and 16 in the code), two channels that may feed it by any start type, stores of 1 and 2 samples by the CPU at any time, into a FIFO that is full, empty or ran dry; the other FIFO differs only in the destination, and the proofs are about both |
| `translation` | translated code is current, tags and links are right, a lookup of code that fits an empty cache ends after at most one flush | 5 addresses, a cache of 9: it holds the code that one lookup reaches but not that of several, so it overflows in the outermost and in nested translations; blocks of at most 4 instructions and 3 branches, patches that make them join, end by either limit, branch back and ahead; bytes of 2 values, so that tags with and without a low byte of 0 are met by stores of words, of bytes and unchecked ones |
| `thumb_flags` | no missing flag is read; exits are linked to their targets | 5 halfwords of 5 different kinds of instruction out of 11 (one per behaviour that meets another), blocks of up to 4, 3 exits, a gate at 4: blocks that end at an exit, a gate, the size, the exits' limit and the end of memory |
| `psr_cache` | no flag is lost beyond the known ways; the code that runs follows T | one flag (what becomes of one does not depend on the others), three words a guest writes, two savestates: one in a handler, one halted; exceptions nest to depth two |

`MaxTime` of `GamepakPages` bounds `page_time`, a 32-bit counter of page loads that
does not wrap in practice; no other variable is cut off by a bound.
Deadlock is checked except where the system may stop: page swapping stops at
`MaxTime`, and the guest of `CpuModes` may be one that has nothing to
write.

Liveness is checked under this fairness.  Clock: the CPU loop reaches
`update_gba`, because instructions cost cycles and a halted CPU does not
run any (the one exception is listed under "Interpreter" below); the host loop starts the next frame until the user quits.  The guest
owes nothing: it may do nothing or write registers for ever.  Ring: a thread that
can move moves; taking the lock is strongly fair, because device callbacks are
paced by the device and the writer sleeps a millisecond with the lock free.
Sound: the timer of each FIFO goes on overflowing; a FIFO whose timer is stopped plays nothing and needs nothing.
Recompiler: a lookup is a function call of the one thread, so it goes on; the guest
need not make another.  `OneFlush` and `LookupEnds` speak of lookups whose code fits an empty cache
(`FitsEmptyCache`: some set of blocks has the one looked up, every branch out of its blocks leads to one of
them, and all of them together are no longer than the cache).  In the run's instance that is so of every address;
the overflows it meets are those of a cache that other lookups have filled.  The code has no answer
when it does not fit (`translation_flush_count` is never read), and retries for ever; with 384 or 768 KB of
cache (`gpsp_config.h`) for 288 KB of RAM that is unlikely, not excluded.

### Finding

`gamepak_fetch`: the interpreter keeps the address of its page while a data read
may evict it; it then executes bytes of another page (`cpu.c:689`).

### Known deviations

What else the code does otherwise than its comments, or than a real machine, as far as it was met while
modelling.  The models do what the code does; where a property would be broken by one, it says so in an
exception of its own (`aborted`, `unchecked`, `torn`, `oneShot`, `disturbed`, `strayed`, `spoilt`, `lost`), so that all the rest is checked beside it.

- Paging: paged in again, page 0 has the RTC's registers at other offsets than
  `write_rtc_register` uses (`gba_memory.c:3136`, `1678`).
- Modes: entering FIQ mode does not load r8 to r12 (`cpu.c:1586`, against the comment at
  1516).  An exception taken into the mode the CPU is in already loses its return address:
  it goes to the saved link register, and `set_cpu_mode` returns early (`cpu.c:1612`); `BankedRegisters` permits it.
  `cpu_modes` has undefined mode at 0x1C, not 0x1B.  An MSR to SPSR in an invalid
  mode writes `spsr[6]`, a word past the array (`cpu.c:912`).
- Backup: an upper half of SRAM that is read, not written, is left out of the save
  (`gba_memory.c:372`, against the comment at 352).  Kind and size of the chip, which decide how much is saved, are
  forgotten by a restart, though the file's size had told them (`load_gamepak` and `init_memory` run after
  `load_backup`), and a savestate restores its own over contents that are newer, with the raw pointer
  `flash_bank_ptr`: the next save may leave out what was written before.  `SessionSaved` is about what was written since the chip was
  last reset or restored, and says nothing of these.
- EEPROM: `init_memory` leaves `eeprom_buffer` and `eeprom_address_length`, which the next command clears; a
  write is ignored while a read is pending; loading an old savestate and quitting forgets
  the kind of the chip, and with it what was written since.
- Clock of the cartridge: what is written to the status register is lost, as the
  bit ORed into `rtc_data` is that of the clock line, which is low (`gba_memory.c:1814`): the status becomes
  the first byte of the last answer.  A savestate between a change of the lines and their reading gives a wrong bit.
  An unknown command is tried again at every edge.
- Direct Sound: a reset of either FIFO clears the samples of A and no index (`sound.c:183`).
  A FIFO that ran dry looks full, and asks for nothing until half the ring was played.  Meanwhile the base has
  run ahead of the top, where the next samples are queued (`sound.c:43`, 171): a game that leaves room by counting its
  samples still stores some where the base has passed already, or passes the base; these are played late or
  overwritten by the next burst, and the slots in between are a gap.
  A sound DMA without repeat leaves its link, and two sound DMAs on one FIFO overflow it.
- Translation cache: a nested translation that fills the cache leaves its tag in the
  mirror if it lies above every finished block, and the retried outer block is linked
  to what that tag names (`cpu_threaded.c:3474`).  In the cache for ROM the retry writes its entry into a
  chain that the flush has dropped; the block is translated once more.
  A byte store looks at one byte of the mirror's entry (`arm_stub.S:634`, `mips_emit.h:2941`,
  `x86_stub.S:210`); the tags count up through 0x0200, 0x0300 and so on (`cpu_threaded.c:2544`), so one to the first
  byte of such a block finds 0, and the old block is run.  The end of a block in EWRAM is compared with
  0x203FFFF0 in place of 0x0203FFF0 (`cpu_threaded.c:2996`): a block does not stop at the end of
  the memory, and `ewram_code_max` becomes small when it runs past it (3478).
- Alerts: `dma_transfer` returns one of them, so an interrupt replaces the alert of code
  that was overwritten, and of a transfer in two parts the first part's is
  lost (`gba_memory.c:2943`, `3053`).
- Flags of Thumb code: TST is taken to set C and V; ADD pc is not an exit; elimination
  starts from what the last instruction needs also where the block just ends, at a gate or because it is full, and
  no exit is generated there; 0xDE00 to 0xDEFF record an exit that none consumes; a block with `MAX_EXITS` exits ends at a
  branch that may not be taken.
- CPSR under the MIPS stub: the interrupt of a DMA that a store starts saves the flags as
  they were last collapsed (`mips_stub.S:364`); a write of the control bits alone brings those
  old flags back (`mips_stub.S:472`); a handler that starts with the next frame starts with flags cleared; aligned stores
  of STM drop their alerts (`mips_emit.h:3154`).
- Interpreter: Thumb single stores, STM, the Thumb block transfers and SWP leave the pc at the
  instruction (`cpu.c:1434`), so one whose store raises an alert is executed again; if it starts
  an immediate DMA with an interrupt, for ever.  The carry of ADC and SBC is wrong
  when operand and carry wrap (`cpu.c:2077` and its likes).

## 4. The proofs

All from the named assumptions of the modules alone (sizes are positive numbers,
inputs are in range), for any number of timers, pages, slots, values, any lengths, any program.

**`GbaClockProofs`.**  `NoEventOvershot` is the root: a slice is positive and no longer than any
event is far.  It is inductive over the types because `UpdateGba` takes the minimum
and `StartTimer` shortens the slice.  From it *EventExact*: when a display event is handled,
the slice ends exactly on it, so `videoCount` restarts at a whole phase.
With that `FramePosition` is inductive, and `FrameLength` follows in one step from
`vcount = Lines - 1` in H-blank.  Interrupts: `NothingRaisedTwice` is inductive on its
own parts, and gives `InterruptsTaken`, since a re-raise adds nothing that is not
requested already.
`FrameGoesOn` (an iteration of `update_gba` moves the frame on, within its length, or ends it) and
`TimersKeepTime` (every timer is lowered by exactly the cycles or overflows that passed, and reloaded when it is due)
are consequences of the deadline.  `OneFiredSet` says that the set of timers
that overflow is well defined: the cascade is a fixed point in the model, and an induction up the timers shows
that there is one, and only one, as the loop of `update_timers` finds it.
`WakesOnTime` is about a halted CPU: while it waits, each slice is shorter than the time to any event it waits for
(*WakeUps*: armed display lines, timers, H-blanks), and every such time is lowered by the slice.  It needs *EventInLine*, that
a display event is no further off than the rest of the phase it ends.  `ArmedHasWakeUp` ties that
to the condition `HaltEnds` names: it holds exactly when there is such an event.

**`GamepakProofs`**, pages.  `MappedIsLoaded` is not inductive: remapping a slot clears the page
`physical[s]` names, and a page with two slots would lose the wrong one.
`HeldOnce` says there is no such page, except 0, and the two are inductive together.
`LoadsApart` follows from *TimesDiffer*: no two slots have the same time stamp, except that
of slots never used.  The slot taken is the oldest, so the times of all slots lie from its own to `page_time`,
and that many different numbers need that much room (the pigeonhole of `FiniteSetTheorems`).

**`GamepakProofs`**, EEPROM.  For both chips, any blocks and any contents.  The states a command goes through are
given in closed form, as functions of how many bits were sent (*Prefix* of the
address, *Filled* part of the data) or read (*IsReading*); one lemma per phase shows
that the next bit leads to the next form, and an induction on the number of bits gives the whole
DMA.  Its length tells the size of the chip, so the address is of the right width from
the first command on.  *EepromInv* has the chip between two transfers, alone and in the snapshot: waiting, or with the
answer ready.  Each step of `Cartridge` is then one of `EepromBlocks` or a stutter.

**`GamepakProofs`**, clock.  *ClockAt* gives in closed form what the clock must be at each step of the
driver's script: its state, the three lines, the bits of the command taken so far
(`Taken`), the place in the answer.  *RtcInv* says that the clock is there, that the bits sampled are those of
the answer, that the page shows the data line when it is about to be sampled, and the same of the
clock and driver in the savestate, which must be there for `LoadState` to keep it.  `torn`
excuses the one savestate that restores a line without its page.  One lemma
per phase of the script (select, command, reset, input, output) computes `WriteRtc` on that form.

**`CpuProofs`**, modes.  `TypeOK` and `ModeAgrees` are inductive for every guest, FIQ mode
included.  The refinement is proved for guests that keep out of FIQ mode (an
assumption of the theorem, since with it the missing r8 to r12 break it): lemmas show that
`set_cpu_mode` changes the mode and no bank, `Enter` additionally sets the link
register of the new mode, and each step is then a step of `BankedRegisters`.

**`CpuProofs`**, status words.  `FlagsKept` and `SetFollows` of `PsrCache` are inductive with
the types, stated of the running code and of what each exception interrupted.  Three lemmas carry it, one for each
routine that other actions end with: the interrupt (`InterruptKeeps`), the return
to translated code or to the interrupt it finds (`ContinueKeeps`) and the call of `update_gba`
(`UpdateGbaKeeps`).

**`BackupProofs`.**  *Consistent* (SRAM idle, bank in the chip, modified regions covered)
and *Guarded* (how many quiet writes each command state has behind it) are stated of one
chip and kept for both the chip and the snapshot; only both together survive
`LoadState`.  `BankInRange` and `SramIsIdle` are proved only, as no run asks for them.

**`AudioRingProofs`.**  *ReadInOrder* says what each half-done read of the indices
still bounds while the callback moves on, with lemmas on remainders.
*SoundWithLimit* (sound is off whenever the limit is, and while a writer is at
work the limit is on) gives `NothingDropped`.  `RingImplementsQueue` is the safety half of `RingIsQueue`:
*Contents* lists the samples from `bufR` on, a take removes its head and a put adds
at its end.  It needs *LockHeld*: without SDL's lock the batch of a
writer and the half-made increment of the callback would meet.
`LockComesBack`: *HeldFor*, the steps its holder has to go at most before it lets go of the lock, is lowered by
each of them and touched by no step of the other thread.

**`DirectSoundProofs`.**  For both FIFOs and a burst of any size.  *Ring* says how the samples lie:
they are the last ones before the top and none lies before the base, which tells a full FIFO
from an empty one where the indices cannot.  A FIFO that is orderly keeps it: a burst
is asked for only when at most half is left, and then fits (`QueueFits`); where the indices span no skipped slot, their
distance is the number of samples (*IndicesCount*), so what the CPU stores fits where it left room, and where they do
a store that passes the base makes the FIFO `strayed`.  *Supplied*, half a
FIFO of samples once one was played, survives a pop because the pop that reaches half a FIFO is the
one that asks (`TakeThenBurst`).  *ChannelsOK* says that what asks is the one linked sound DMA.
`SoundGoesOn`: an empty FIFO that is fed comes one slot nearer to its next request with each overflow of its own timer
(*Wait*), and nothing else puts the request off.

**`ThumbFlagsProofs`.**  For every program, block size, number of exits and set of gates.
A flag is *Dead* from an instruction to the end of the block if none needs it before one sets it, and
*DeadForGood* if that is so up to a point where blocks end.  *ScanOK* says where a block
may end, *StatusOK* that the flag data is the scanner's, *EliminateOK* that what the backward walk dropped is dead, and
*StaleOK* that flags that are neither right nor spoilt are dead for good at pc.  The lemma that
matters is that a flag that is dead for good stays so across the border of a block, wherever the next
one is cut.  The three tables are compared once, in the lemma *Tables*.
`BranchesLinked` rests on two more parts: *ExitsOK*, what the exits recorded so far are, counted against the
branches the emitter has passed, and *HighOK*, that the second half of a BL that starts a block is
the whole block, so that no exit is counted for a first half that was never scanned.

**`TranslationCacheProofs`.**  `BlocksCurrent` rests on *Guarded*: the mirror is not empty where
translated code is, so a store that finds the whole entry 0 hits none, and one that finds a byte of another entry 0
is recorded in `unchecked`.  `TagsLive` needs the rest of
`CacheInv`: every tag not left by a failed translation is below the next one and
inside the range that a flush clears (*TagsKept*), so that a flush in the middle of a
nested translation leaves no other tag behind than the one it records;
a left tag is met by a translation only in an empty cache (*AbortedApart*); an
unlinked branch belongs to a translation on the stack (*LinksAwaited*), and what is on
the stack is in the cache (*FramesCurrent*).  `TranslatedOnce` adds *OnceInv*: a
translation is made only where there is no tag and its own stays until the flush (*ItsTagStands*).  A nested
translation lies behind the one that waits for it (*CallsAdvance*), so the frames of the stack
start at different addresses and `RecursionEnds` follows by counting them.  `SecondFlushIsNeeded` is the
account of the room behind `OneFlush`: translations lie apart and use up the cache without gaps between flushes
(*BlocksApart*), no block is translated twice, and after the first flush of a lookup all that is in the cache
is reached from the address looked up (*Reached*).  So a second overflow
means that the blocks reached are longer than the cache.  `LookupsAdvance` is the measure of a lookup: each step of
it lowers *Work*, a natural number made of the blocks not yet translated, the frames on the stack and the
branches still to link, or is a flush.  No run lists `EachBlockOnce`, `RecursionBounded`, `BlocksApart` and `LookupAdvances`;
they were checked on the instance of `translation` before they were proved.  That `scan_block` ends uses the library's
theorem that the natural numbers are well founded.

Every invariant and every action property of the runs is stated by a theorem.  Only model-checked
are the liveness properties, because liveness under fairness is out of the prover's reach.
For each of them the theorems have what the argument needs beside fairness:

| liveness | what is proved of every step |
|---|---|
| `FramesComplete` | `FrameGoesOn`: the place in the frame rises, below a fixed bound, or the frame ends |
| `HaltEnds` | `WakesOnTime`: the time to each event that the halted CPU waits for falls, and `ArmedHasWakeUp`: there is one |
| `WritesEnd` | `LockComesBack`: whoever has the lock comes nearer to letting go of it |
| `SoundArrives` | `SoundGoesOn`: the overflows until the next request fall |
| `LookupEnds` | `LookupsAdvance`: the work left falls or there is a flush, and `SecondFlushIsNeeded`: there is at most one flush if the code fits |
| `RingIsQueue` | `RingImplementsQueue`: its safety half; that a sample that waits is heard in the end is only checked |

A module of proofs serves several components where these are of one chip (`CpuProofs`) or of one cartridge
(`GamepakProofs`).  The recursive parts of the cartridge are recursive functions, or folds over sequences, because
the provers cannot reason about `RECURSIVE` operators; the induction over the bits of a transfer is on natural numbers, by
the theorem that they are well founded.

## 5. What is left out of the modelled parts, and why

- Clock: video capture DMA; a DMA that writes an I/O register from
  within `update_gba`; the value a read of a running timer returns; loading a
  savestate.
- Paging: `page_time` wrapping; ROMs that fit the buffer, which never page; bytes of a page other
  than the RTC's.
- Modes: abort mode, and undefined mode where the table has it (0x1C), behave as supervisor mode does; they are
  reached by no exception of the emulator.  0x1B is an invalid mode there, like every value without an entry.
  The word that an MSR to SPSR in an invalid mode overwrites is the saved r8 of user
  mode (`spsr` is followed by `reg_mode`) where the compiler keeps their order; the model leaves it alone.
  SWI does not mask interrupts: the model does what the code does, and no document of the repository says otherwise.
- Backup: a failed `fopen`; the contents, abstracted to regions modified or
  not; savestates keep `flash_bank_ptr` as an address, which another program image
  may not share: it is then taken for either bank of the snapshot or the first.
- Cartridge: games that leave the protocols, such as one that reads the EEPROM without having
  asked; EEPROM accesses by the CPU instead of DMA; the savestates' page of clock lines where the ROM is paged (`GamepakPages`).
- Direct Sound: sample values, resampling, volumes; transfers to a FIFO longer than it is.
- DMA: stepping of the addresses, and the split of a transfer over the border of a region: data movement,
  but for the alert, which is among the deviations.
- Translation cache: the caches for ROM (a hash table of blocks; the ROM does not change)
  and BIOS; the end of EWRAM, which a block may run past, and the last 16 bytes of the memory; translation gates; the mirrors of the RAM at other addresses; the host's
  instruction cache; two instruction sets over the same bytes.  What a block that
  has been overwritten does until it is left is the business of the code emitters.
- Thumb flags: the values of flags; the overflow of ADC in MIPS code, wrong when operand and
  carry wrap; ARM code, where conditions are part of the elimination.
- PsrCache: a return where there was no exception, and one in user mode; guests that write T by
  MSR, which is undefined on the processor; the ARM and x86 stubs.
- Ring: sample values beyond two; the pause and shutdown of the device; the wait
  for a stalled device.

## Not modelled

The video renderer, the sound channels, the interpreter's arithmetic and the code emitters are most
of the source: functions of many cases and large data, without an order of events that
could go wrong; a translation would be as long as they are and a small instance
would show little.  The rest is file formats, drawing, tables and a second front end over an external host.
`PROJECT.json` gives the reason for each component.

## 6. Plan

Done: the components above.  What is left, in this order:

1. The hash chains of the ROM's translation cache after a flush, beside the tags of `TranslationCache`;
   that a retried outer translation is entered where it was put, with its proof.
2. The transfer over a region border and its two alerts, in `DirectSound`.
3. The elimination for ARM code, with conditions, in `ThumbFlags`' form.
