------------------------------- MODULE Backup -------------------------------
(***************************************************************************)
(* The SRAM or flash chip of the cartridge and its save file.  Which of    *)
(* the two a game has, and how large it is, is found out from what the     *)
(* game does with it; the size decides how much of gamepak_backup          *)
(* save_backup writes to the file.  The chip's state is part of a          *)
(* savestate, its contents are not.                                        *)
(*                                                                         *)
(* gamepak_backup is divided into three regions: the lower and the upper   *)
(* 32KB of the first bank, and the second bank.  An address is one of the  *)
(* two unlock addresses, 0x0000 or an address from 0x8000 on ("high").     *)
(***************************************************************************)
EXTENDS Integers

CONSTANTS
    Listed128, \* gba_over.h lists the game with a 128KB flash chip
    NoState    \* no savestate has been written

Regions == {"low", "upper", "bank1"}
Addresses == {"5555", "2AAA", "0000", "high"}
Bytes == {"AA", "55", "90", "80", "F0", "A0", "B0", "10", "30", "00", "01"}

ASSUME ListedAssumption == Listed128 \in BOOLEAN

VARIABLES
    chip,     \* the chip, and what the game has done with it since the reset
    snapshot, \* the chip in the savestate
    file      \* the regions in the save file

vars == <<chip, snapshot, file>>

\* touched: the regions modified since the last reset (history); since: writes since the last one that modified flash; gap: the
\* writes there were before that one (history, counted to 3).
ChipState ==
    [type: {"none", "sram", "flash"}, sramSize: {32, 64}, flashSize: {64, 128},
     mode: {"base", "erase", "id", "write", "bankswitch"}, command: 0 .. 2,
     bank: 0 .. 1, touched: SUBSET Regions,
     since: 0 .. 3, gap: 0 .. 3]

RegionAt(bank, address) ==
    IF bank = 1 THEN "bank1" ELSE IF address = "high" THEN "upper" ELSE "low"

\* init_memory: all but the size of the flash chip.
ResetChip(flashSize) ==
    [type |-> "none", sramSize |-> 32, flashSize |-> flashSize, mode |-> "base",
     command |-> 0, bank |-> 0, touched |-> {}, since |-> 3, gap |-> 3]

\* load_gamepak: the size the list of games gives the chip.
ListedSize == IF Listed128 THEN 128 ELSE 64

Counted(n) == IF n < 3 THEN n + 1 ELSE n

\* A write that leaves the contents alone, and one that modifies flash.
Quiet(c) == [c EXCEPT !.since = Counted(chip.since)]
Modified(c, regions) ==
    [c EXCEPT !.touched = @ \cup regions, !.since = 0, !.gap = chip.since]
-----------------------------------------------------------------------------
(***************************************************************************)
(* write_backup, one case after the other.                                 *)
(***************************************************************************)
\* A chip that has not been told to be flash is taken for SRAM.
IsSram == chip.type \in {"none", "sram"}

\* The first byte of the unlock sequence makes the chip flash.
FirstUnlock(address, value) ==
    /\ address = "5555" /\ value = "AA"
    /\ chip.mode # "write" /\ chip.command = 0
    /\ chip' = Quiet([chip EXCEPT !.type = "flash", !.command = 1])

SecondUnlock(address, value) ==
    /\ address = "2AAA" /\ value = "55"
    /\ chip.command = 1
    /\ chip' = Quiet([chip EXCEPT !.command = 2])

\* The modes a command leads to from a mode that accepts it.
NextMode(value) ==
    CASE value = "90" /\ chip.mode = "base" -> "id"
      [] value = "80" /\ chip.mode = "base" -> "erase"
      [] value = "F0" /\ chip.mode = "id" -> "base"
      [] value = "A0" /\ chip.mode = "base" -> "write"
      [] value = "B0" /\ chip.mode = "base" -> "bankswitch"
      [] value = "10" /\ chip.mode = "erase" -> "base"
      [] OTHER -> chip.mode

\* The regions of the whole chip.
ChipRegions(flashSize) ==
    {"low", "upper"} \cup (IF flashSize = 128 THEN {"bank1"} ELSE {})

\* The command byte; one for the second bank makes the chip a 128KB one.
Command(address, value) ==
    LET done == [chip EXCEPT !.command = 0, !.mode = NextMode(value),
                     !.flashSize = IF value = "B0" THEN 128 ELSE @]
    IN /\ address = "5555"
       /\ chip.mode # "write" /\ chip.command = 2
       /\ chip' = IF value = "10" /\ chip.mode = "erase"
                    THEN Modified(done, ChipRegions(chip.flashSize))
                    ELSE Quiet(done)

EraseSector(address, value) ==
    /\ address # "5555" /\ value = "30"
    /\ chip.command = 2 /\ chip.mode = "erase"
    /\ chip' = Modified([chip EXCEPT !.mode = "base", !.command = 0],
                        {RegionAt(chip.bank, address)})

\* Mutant: the number of the bank is not masked.
BankUnmasked(value) == IF value = "00" THEN 0 ELSE IF value = "01" THEN 1 ELSE 2

\* Bit 0 of the byte written
BankOf(value) == IF value \in {"01", "55"} THEN 1 ELSE 0

SelectBank(address, value) ==
    /\ address = "0000"
    /\ chip.command = 0 /\ chip.mode = "bankswitch" /\ chip.flashSize = 128
    /\ chip' = Quiet([chip EXCEPT !.mode = "base", !.bank = BankOf(value)])

\* Mutant: the chip stays unlocked after a byte has been programmed.
ModeKept == chip.mode

Programmed == "base"

Program(address, value) ==
    /\ chip.command = 0 /\ chip.mode = "write"
    /\ chip' = Modified([chip EXCEPT !.mode = Programmed],
                        {RegionAt(chip.bank, address)})

\* Mutant: a 64KB SRAM is not noticed.
SramSizeKept(address) == chip.sramSize

SramSize(address) == IF address = "high" THEN 64 ELSE chip.sramSize

WriteSram(address, value) ==
    /\ IsSram
    /\ ~(address = "5555" /\ value = "AA")
    /\ chip' = [chip EXCEPT !.type = "sram", !.sramSize = SramSize(address),
                    !.touched = @ \cup {RegionAt(0, address)}]

\* Every other write to flash is dropped, and does not cancel a command.
Dropped(address, value) ==
    /\ chip.type = "flash"
    /\ ~(address = "2AAA" /\ value = "55" /\ chip.command = 1)
    /\ IF address = "5555" /\ chip.mode # "write"
         THEN chip.command # 2 /\ ~(chip.command = 0 /\ value = "AA")
         ELSE /\ ~(chip.command = 2 /\ chip.mode = "erase" /\ value = "30")
              /\ ~(chip.command = 0 /\ chip.mode = "write")
              /\ ~(address = "0000" /\ chip.command = 0
                     /\ chip.mode = "bankswitch" /\ chip.flashSize = 128)
    /\ chip' = Quiet(chip)

WriteBackup(address, value) ==
    /\ \/ FirstUnlock(address, value) \/ SecondUnlock(address, value)
       \/ Command(address, value) \/ EraseSector(address, value)
       \/ SelectBank(address, value) \/ Program(address, value)
       \/ WriteSram(address, value) \/ Dropped(address, value)
    /\ UNCHANGED <<snapshot, file>>
-----------------------------------------------------------------------------
\* read_backup: a chip that is only read is taken for SRAM, of 32KB.
ReadBackup(address) ==
    /\ chip' = [chip EXCEPT !.type = IF @ = "none" THEN "sram" ELSE @]
    /\ UNCHANGED <<snapshot, file>>

\* What save_backup writes of gamepak_backup.
Covered(c) ==
    CASE c.type = "none" -> {}
      [] c.type = "sram" -> {"low"} \cup (IF c.sramSize = 64 THEN {"upper"} ELSE {})
      [] c.type = "flash" -> ChipRegions(c.flashSize)

\* update_backup, on the way into the menu: the file is written anew.
Save ==
    /\ chip.type # "none"
    /\ file' = Covered(chip)
    /\ UNCHANGED <<chip, snapshot>>

\* reset_gba from the menu
Reset ==
    /\ chip' = ResetChip(chip.flashSize)
    /\ UNCHANGED <<snapshot, file>>

\* quit and a new start of the program: the file is saved, and load_gamepak with
\* reset_gba forgets what the size of the file said about the chip.
Restart ==
    /\ file' = IF chip.type = "none" THEN file ELSE Covered(chip)
    /\ chip' = ResetChip(ListedSize)
    /\ UNCHANGED snapshot

SaveState ==
    /\ snapshot' = chip
    /\ UNCHANGED <<chip, file>>

\* A savestate of another run of the program may hold a useless flash_bank_ptr.
LoadState ==
    /\ snapshot # NoState
    /\ \E bank \in {snapshot.bank, 0} : chip' = [snapshot EXCEPT !.bank = bank]
    /\ UNCHANGED <<snapshot, file>>

Init ==
    /\ chip = [type |-> "none", sramSize |-> 32, flashSize |-> ListedSize,
               mode |-> "base", command |-> 0, bank |-> 0, touched |-> {}, since |-> 3, gap |-> 3]
    /\ snapshot = NoState
    /\ file = {}

Next ==
    \/ \E address \in Addresses, value \in Bytes : WriteBackup(address, value)
    \/ \E address \in Addresses : ReadBackup(address)
    \/ Save \/ Reset \/ Restart \/ SaveState \/ LoadState

Spec == Init /\ [][Next]_vars
-----------------------------------------------------------------------------
TypeOK ==
    /\ chip \in ChipState
    /\ snapshot \in ChipState \cup {NoState}
    /\ file \subseteq Regions

\* Whatever the chip turned out to be and however its kind and size were found,
\* everything the game has modified since its last reset lies in the part of
\* gamepak_backup that the next save writes to the file.
SessionSaved == chip.touched \subseteq Covered(chip)

\* The second bank is never selected in a chip of 64KB, even though the size and
\* the bank are reset at different times and come back with a savestate.
BankInRange == chip.bank = 1 => chip.flashSize = 128

\* A chip taken for SRAM has no flash command half way: no write to it can be
\* swallowed, erase a sector or switch banks.
SramIsIdle == IsSram => chip.mode = "base" /\ chip.command = 0 /\ chip.bank = 0

\* Flash is protected: every write that modifies it comes after at least three
\* that do not, the unlock sequence and its command, since the last that did.
FlashProtected == chip.gap = 3
=============================================================================
