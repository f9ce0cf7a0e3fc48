---------------------------- MODULE BackupProofs ----------------------------
(***************************************************************************)
(* The invariants of Backup, whatever the list of games says of the        *)
(* cartridge and whatever stands for the missing savestate.                *)
(*                                                                         *)
(* The chip of a savestate replaces the chip of the game at any time, so   *)
(* what holds of the one has to hold of the other: the inductive invariant *)
(* says of both that they are Sound.                                       *)
(***************************************************************************)
EXTENDS Backup, TLAPS

\* The bank, the idle SRAM and the covered regions, of any chip.
Consistent(c) ==
    /\ c.bank = 1 => c.flashSize = 128
    /\ c.type \in {"none", "sram"} => c.mode = "base" /\ c.command = 0 /\ c.bank = 0
    /\ c.touched \subseteq Covered(c)

\* Every byte of the unlock sequence is a write that leaves flash alone, and so
\* is the command that follows it: a mode is entered after three of them.
Guarded(c) ==
    /\ c.command <= c.since
    /\ c.mode # "base" => c.since = 3
    /\ c.gap = 3

Sound(c) == c \in ChipState /\ Consistent(c) /\ Guarded(c)

IInv ==
    /\ Sound(chip)
    /\ snapshot # NoState => Sound(snapshot)
    /\ file \subseteq Regions

LEMMA CountedType ==
    ASSUME NEW n \in 0 .. 3
    PROVE  /\ Counted(n) \in 0 .. 3
           /\ n <= Counted(n)
           /\ n < 3 => Counted(n) = n + 1
           /\ n = 3 => Counted(n) = 3
BY DEF Counted

\* A chip like the present one but for a write that leaves flash alone is Sound when
\* its command is at most one byte ahead and its mode is not entered too early.
LEMMA QuietSound ==
    ASSUME chip \in ChipState, NEW c \in ChipState, Consistent(c),
           c.gap = 3, c.command <= Counted(chip.since),
           c.mode # "base" => Counted(chip.since) = 3
    PROVE  Sound(Quiet(c))
<1> DEFINE q == Quiet(c)
<1>1. Counted(chip.since) \in 0 .. 3
  BY CountedType DEF ChipState
<1>2. /\ q \in ChipState
      /\ q.type = c.type /\ q.sramSize = c.sramSize /\ q.flashSize = c.flashSize
      /\ q.mode = c.mode /\ q.command = c.command /\ q.bank = c.bank
      /\ q.touched = c.touched /\ q.gap = c.gap
      /\ q.since = Counted(chip.since)
  BY <1>1 DEF Quiet, ChipState
<1>3. Covered(q) = Covered(c)
  BY <1>2 DEF Covered
<1> HIDE DEF q
<1>4. Consistent(q)
  BY <1>2, <1>3 DEF Consistent
<1>5. Guarded(q)
  BY <1>2 DEF Guarded
<1>6. QED BY <1>2, <1>4, <1>5 DEF q, Sound

\* A write that modifies flash leaves a chip that is Sound when three writes came
\* before it and the chip is back in its base mode.
LEMMA ModifiedSound ==
    ASSUME chip \in ChipState, chip.since = 3,
           NEW c \in ChipState, Consistent(c), c.mode = "base", c.command = 0,
           NEW regions \in SUBSET Regions, regions \subseteq Covered(c)
    PROVE  Sound(Modified(c, regions))
<1> DEFINE q == Modified(c, regions)
<1>1. /\ q \in ChipState
      /\ q.type = c.type /\ q.sramSize = c.sramSize /\ q.flashSize = c.flashSize
      /\ q.mode = c.mode /\ q.command = c.command /\ q.bank = c.bank
      /\ q.touched = c.touched \cup regions /\ q.gap = 3 /\ q.since = 0
  <2>1. PICK touched \in SUBSET Regions : touched = c.touched \cup regions
    BY DEF ChipState
  <2>2. q = [c EXCEPT !.touched = touched, !.since = 0, !.gap = 3]
    BY <2>1 DEF Modified
  <2>3. q \in ChipState
    <3>1. ASSUME NEW n \in 0 .. 3, NEW m \in 0 .. 3
          PROVE  [c EXCEPT !.touched = touched, !.since = n, !.gap = m] \in ChipState
      BY ZenonT(40) DEF ChipState
    <3>2. QED BY <2>2, <3>1, 0 \in 0 .. 3, 3 \in 0 .. 3
  <2>4. QED BY <2>1, <2>2, <2>3 DEF ChipState
<1>2. Covered(q) = Covered(c)
  BY <1>1 DEF Covered
<1> HIDE DEF q
<1>3. Consistent(q)
  BY <1>1, <1>2 DEF Consistent
<1>4. Guarded(q)
  BY <1>1 DEF Guarded
<1>5. QED BY <1>1, <1>3, <1>4 DEF q, Sound

LEMMA ListedSizeType == ListedSize \in {64, 128}
BY DEF ListedSize

THEOREM InitSound == Init => IInv
<1> SUFFICES ASSUME Init PROVE IInv OBVIOUS
<1>1. Sound(chip)
  BY ListedSizeType DEF Init, Sound, Consistent, Guarded, ChipState, Covered, Regions
<1>2. QED BY <1>1 DEF Init, IInv

LEMMA ResetSound ==
    ASSUME NEW size \in {64, 128}
    PROVE  Sound(ResetChip(size))
BY DEF Sound, Consistent, Guarded, ChipState, Covered, ResetChip, Regions

LEMMA WriteSound ==
    ASSUME Sound(chip), NEW address \in Addresses, NEW value \in Bytes,
           WriteBackup(address, value)
    PROVE  Sound(chip')
<1>t. /\ chip \in ChipState /\ Consistent(chip) /\ Guarded(chip)
      /\ chip.since \in 0 .. 3 /\ chip.command \in 0 .. 2
  BY DEF Sound, ChipState
<1>c. /\ Counted(chip.since) \in 0 .. 3 /\ chip.since <= Counted(chip.since)
      /\ chip.since < 3 => Counted(chip.since) = chip.since + 1
      /\ chip.since = 3 => Counted(chip.since) = 3
  BY <1>t, CountedType
<1>k. /\ chip.command <= Counted(chip.since)
      /\ chip.mode # "base" => Counted(chip.since) = 3
      /\ chip.gap = 3
  BY <1>t, <1>c DEF Guarded
<1>r. \A size \in {64, 128} : ChipRegions(size) \in SUBSET Regions
  BY DEF ChipRegions, Regions
<1>a. \A bank \in 0 .. 1 : RegionAt(bank, address) \in Regions
  BY DEF RegionAt, Regions
<1>1. CASE FirstUnlock(address, value)
  <2> DEFINE c == [chip EXCEPT !.type = "flash", !.command = 1]
  <2>1. /\ c \in ChipState
        /\ c.type = "flash" /\ c.flashSize = chip.flashSize /\ c.mode = chip.mode
        /\ c.command = 1 /\ c.bank = chip.bank /\ c.touched = chip.touched
        /\ c.gap = chip.gap
    BY <1>t, 1 \in 0 .. 2 DEF ChipState
  <2>2. Covered(chip) \subseteq Covered(c)
    BY <1>t, <2>1 DEF Covered, ChipRegions, ChipState
  <2>3. Consistent(c)
    BY <1>t, <2>1, <2>2 DEF Consistent
  <2>4. 1 <= Counted(chip.since)
    BY <1>t, <1>c
  <2>5. chip' = Quiet(c)
    BY <1>1 DEF FirstUnlock
  <2> HIDE DEF c
  <2>6. QED BY <1>t, <1>k, <2>1, <2>3, <2>4, <2>5, QuietSound
<1>2. CASE SecondUnlock(address, value)
  <2> DEFINE c == [chip EXCEPT !.command = 2]
  <2>1. /\ c \in ChipState
        /\ c.type = chip.type /\ c.flashSize = chip.flashSize /\ c.mode = chip.mode
        /\ c.command = 2 /\ c.bank = chip.bank /\ c.touched = chip.touched
        /\ c.gap = chip.gap /\ c.sramSize = chip.sramSize
    BY <1>t DEF ChipState
  <2>2. Covered(c) = Covered(chip)
    BY <2>1 DEF Covered
  <2>3. chip.command = 1 /\ chip' = Quiet(c)
    BY <1>2 DEF SecondUnlock
  <2>4. Consistent(c)
    BY <1>t, <2>1, <2>2, <2>3 DEF Consistent
  <2>5. 2 <= Counted(chip.since)
    BY <1>t, <1>c, <2>3 DEF Guarded
  <2> HIDE DEF c
  <2>6. QED BY <1>t, <1>k, <2>1, <2>3, <2>4, <2>5, QuietSound
<1>3. CASE Command(address, value)
  <2> DEFINE c == [chip EXCEPT !.command = 0, !.mode = NextMode(value),
                      !.flashSize = IF value = "B0" THEN 128 ELSE @]
             erased == value = "10" /\ chip.mode = "erase"
  <2>1. NextMode(value) \in {"base", "erase", "id", "write", "bankswitch"}
    BY <1>t DEF NextMode, ChipState
  <2>2. /\ c \in ChipState
        /\ c.type = chip.type /\ c.mode = NextMode(value)
        /\ c.command = 0 /\ c.bank = chip.bank /\ c.touched = chip.touched
        /\ c.gap = chip.gap /\ c.sramSize = chip.sramSize
        /\ c.flashSize = IF value = "B0" THEN 128 ELSE chip.flashSize
    <3>1. PICK size \in {64, 128} : size = IF value = "B0" THEN 128 ELSE chip.flashSize
      BY <1>t DEF ChipState
    <3>2. c = [chip EXCEPT !.command = 0, !.mode = NextMode(value), !.flashSize = size]
      BY <1>t, <3>1 DEF ChipState
    <3>3. QED BY <1>t, <2>1, <3>1, <3>2, 0 \in 0 .. 2, ZenonT(40) DEF ChipState
  <2>3. /\ chip.command = 2 /\ chip.flashSize \in {64, 128}
        /\ chip' = IF erased THEN Modified(c, ChipRegions(chip.flashSize))
                    ELSE Quiet(c)
    BY <1>t, <1>3 DEF Command, ChipState
  <2> HIDE DEF c
  <2>4. chip.type = "flash"
    BY <1>t, <2>3 DEF Consistent, ChipState
  <2>5. Covered(chip) \subseteq Covered(c)
    BY <2>2, <2>4 DEF Covered, ChipRegions
  <2>6. Consistent(c)
    BY <1>t, <2>2, <2>4, <2>5 DEF Consistent
  <2>7. Counted(chip.since) = 3 /\ c.command <= Counted(chip.since)
    BY <1>t, <1>c, <2>2, <2>3 DEF Guarded
  <2>8. CASE ~erased
    BY <1>t, <1>k, <2>2, <2>3, <2>6, <2>7, <2>8, QuietSound
  <2>9. CASE erased
    <3>1. c.mode = "base"
      BY <2>2, <2>9 DEF NextMode
    <3>2. chip.since = 3
      BY <1>t, <2>9 DEF Guarded
    <3>3. ChipRegions(chip.flashSize) \subseteq Covered(c)
      BY <2>2, <2>4, <2>9 DEF Covered
    <3>4. QED BY <1>t, <1>r, <2>2, <2>3, <2>6, <2>9, <3>1, <3>2, <3>3, ModifiedSound
  <2>10. QED BY <2>8, <2>9
<1>4. CASE EraseSector(address, value)
  <2> DEFINE c == [chip EXCEPT !.mode = "base", !.command = 0]
  <2>1. /\ c \in ChipState
        /\ c.type = chip.type /\ c.flashSize = chip.flashSize /\ c.mode = "base"
        /\ c.command = 0 /\ c.bank = chip.bank /\ c.touched = chip.touched
        /\ c.sramSize = chip.sramSize
    BY <1>t, 0 \in 0 .. 2 DEF ChipState
  <2>2. Covered(c) = Covered(chip)
    BY <2>1 DEF Covered
  <2>3. /\ chip.command = 2 /\ chip.mode = "erase" /\ chip.bank \in 0 .. 1
        /\ chip' = Modified(c, {RegionAt(chip.bank, address)})
    BY <1>t, <1>4 DEF EraseSector, ChipState
  <2> HIDE DEF c
  <2>4. chip.type = "flash" /\ chip.since = 3
    BY <1>t, <2>3 DEF Consistent, Guarded, ChipState
  <2>5. Consistent(c)
    BY <1>t, <2>1, <2>2 DEF Consistent
  <2>6. RegionAt(chip.bank, address) \in Covered(c)
    BY <1>t, <2>1, <2>4 DEF Consistent, RegionAt, Covered, ChipRegions
  <2>7. QED BY <1>t, <1>a, <2>1, <2>3, <2>4, <2>5, <2>6, ModifiedSound
<1>5. CASE SelectBank(address, value)
  <2> DEFINE c == [chip EXCEPT !.mode = "base", !.bank = BankOf(value)]
  <2>1. /\ c \in ChipState
        /\ c.type = chip.type /\ c.flashSize = chip.flashSize /\ c.mode = "base"
        /\ c.command = chip.command /\ c.touched = chip.touched
        /\ c.gap = chip.gap /\ c.sramSize = chip.sramSize
    <3>1. BankOf(value) \in 0 .. 1
      BY DEF BankOf
    <3>2. QED BY <1>t, <3>1 DEF ChipState
  <2>2. Covered(c) = Covered(chip)
    BY <2>1 DEF Covered
  <2>3. /\ chip.mode = "bankswitch" /\ chip.flashSize = 128
        /\ chip' = Quiet(c)
    BY <1>5 DEF SelectBank
  <2> HIDE DEF c
  <2>4. chip.type = "flash"
    BY <1>t, <2>3 DEF Consistent, ChipState
  <2>5. Consistent(c)
    BY <1>t, <2>1, <2>2, <2>3, <2>4 DEF Consistent
  <2>6. QED BY <1>t, <1>k, <2>1, <2>3, <2>5, QuietSound
<1>6. CASE Program(address, value)
  <2> DEFINE c == [chip EXCEPT !.mode = "base"]
  <2>1. /\ c \in ChipState
        /\ c.type = chip.type /\ c.flashSize = chip.flashSize /\ c.mode = "base"
        /\ c.command = chip.command /\ c.bank = chip.bank
        /\ c.touched = chip.touched /\ c.sramSize = chip.sramSize
    BY <1>t DEF ChipState
  <2>2. Covered(c) = Covered(chip)
    BY <2>1 DEF Covered
  <2>3. /\ chip.command = 0 /\ chip.mode = "write" /\ chip.bank \in 0 .. 1
        /\ chip' = Modified(c, {RegionAt(chip.bank, address)})
    BY <1>t, <1>6 DEF Program, Programmed, ChipState
  <2> HIDE DEF c
  <2>4. chip.type = "flash" /\ chip.since = 3
    BY <1>t, <2>3 DEF Consistent, Guarded, ChipState
  <2>5. Consistent(c)
    BY <1>t, <2>1, <2>2 DEF Consistent
  <2>6. RegionAt(chip.bank, address) \in Covered(c)
    BY <1>t, <2>1, <2>4 DEF Consistent, RegionAt, Covered, ChipRegions
  <2>7. QED BY <1>t, <1>a, <2>1, <2>3, <2>4, <2>5, <2>6, ModifiedSound
<1>7. CASE WriteSram(address, value)
  <2>1. /\ chip.type \in {"none", "sram"}
        /\ chip' = [chip EXCEPT !.type = "sram", !.sramSize = SramSize(address),
                        !.touched = @ \cup {RegionAt(0, address)}]
        /\ SramSize(address) \in {32, 64}
    BY <1>t, <1>7 DEF WriteSram, IsSram, SramSize, ChipState
  <2>2. /\ chip' \in ChipState
        /\ chip'.type = "sram" /\ chip'.flashSize = chip.flashSize
        /\ chip'.mode = chip.mode /\ chip'.command = chip.command
        /\ chip'.bank = chip.bank /\ chip'.since = chip.since
        /\ chip'.gap = chip.gap /\ chip'.sramSize = SramSize(address)
        /\ chip'.touched = chip.touched \cup {RegionAt(0, address)}
    <3>1. PICK touched \in SUBSET Regions :
            touched = chip.touched \cup {RegionAt(0, address)}
      <4>1. chip.touched \in SUBSET Regions /\ RegionAt(0, address) \in Regions
        BY <1>t, <1>a DEF ChipState
      <4>2. QED BY <4>1
    <3>2. chip' = [chip EXCEPT !.type = "sram", !.sramSize = SramSize(address),
                      !.touched = touched]
      BY <1>t, <2>1, <3>1 DEF ChipState
    <3>3. PICK size \in {32, 64} : size = SramSize(address)
      BY <2>1
    <3>4. chip' = [chip EXCEPT !.type = "sram", !.sramSize = size, !.touched = touched]
      BY <3>2, <3>3
    <3>5. chip' \in ChipState
      BY <1>t, <3>4 DEF ChipState
    <3>6. QED BY <1>t, <3>1, <3>3, <3>4, <3>5 DEF ChipState
  <2>3. Guarded(chip')
    BY <1>t, <2>2 DEF Guarded
  <2>4. RegionAt(0, address) \in Covered(chip')
    BY <2>2 DEF RegionAt, Covered, SramSize
  <2>5. Covered(chip) \subseteq Covered(chip')
    BY <2>1, <2>2 DEF Covered, SramSize
  <2>6. Consistent(chip')
    BY <1>t, <2>1, <2>2, <2>4, <2>5 DEF Consistent
  <2>7. QED BY <2>2, <2>3, <2>6 DEF Sound
<1>8. CASE Dropped(address, value)
  <2>1. chip' = Quiet(chip)
    BY <1>8 DEF Dropped
  <2>2. QED BY <1>t, <1>k, <2>1, QuietSound
<1>9. QED BY <1>1, <1>2, <1>3, <1>4, <1>5, <1>6, <1>7, <1>8 DEF WriteBackup

\* A read settles the kind of the chip, a state that is loaded its bank.
LEMMA ReadSound ==
    ASSUME Sound(chip), NEW address \in Addresses, ReadBackup(address)
    PROVE  Sound(chip')
<1>1. /\ chip' \in ChipState
      /\ chip'.type = IF chip.type = "none" THEN "sram" ELSE chip.type
      /\ chip'.flashSize = chip.flashSize /\ chip'.sramSize = chip.sramSize
      /\ chip'.mode = chip.mode /\ chip'.command = chip.command
      /\ chip'.bank = chip.bank /\ chip'.since = chip.since
      /\ chip'.gap = chip.gap /\ chip'.touched = chip.touched
  BY DEF ReadBackup, Sound, ChipState
<1>2. Covered(chip) \subseteq Covered(chip')
  BY <1>1 DEF Covered
<1>3. Consistent(chip') /\ Guarded(chip')
  BY <1>1, <1>2 DEF Sound, Consistent, Guarded
<1>4. QED BY <1>1, <1>3 DEF Sound

LEMMA LoadSound ==
    ASSUME snapshot # NoState => Sound(snapshot), LoadState
    PROVE  Sound(chip')
<1>1. Sound(snapshot)
  BY DEF LoadState
<1>2. PICK bank \in {snapshot.bank, 0} : chip' = [snapshot EXCEPT !.bank = bank]
  BY DEF LoadState
<1>3. /\ chip' \in ChipState /\ chip'.bank = bank
      /\ chip'.type = snapshot.type /\ chip'.since = snapshot.since
      /\ chip'.flashSize = snapshot.flashSize
      /\ chip'.sramSize = snapshot.sramSize /\ chip'.mode = snapshot.mode
      /\ chip'.command = snapshot.command
      /\ chip'.gap = snapshot.gap /\ chip'.touched = snapshot.touched
  BY <1>1, <1>2 DEF Sound, ChipState
<1>4. Covered(chip') = Covered(snapshot)
  BY <1>3 DEF Covered
<1>5. Consistent(chip') /\ Guarded(chip')
  BY <1>1, <1>2, <1>3, <1>4 DEF Sound, Consistent, Guarded
<1>6. QED BY <1>3, <1>5 DEF Sound

LEMMA CoveredType == ASSUME NEW c \in ChipState PROVE Covered(c) \subseteq Regions
BY DEF ChipState, Covered, ChipRegions, Regions

\* The chip stays Sound through everything the game, the menu and the host do.
THEOREM StepSound == IInv /\ [Next]_vars => IInv'
<1> SUFFICES ASSUME IInv, [Next]_vars PROVE IInv' OBVIOUS
<1>t. /\ chip \in ChipState /\ chip.flashSize \in {64, 128} /\ Sound(chip)
      /\ chip' = chip => Sound(chip')
      /\ snapshot' = snapshot => (snapshot' # NoState => Sound(snapshot'))
    BY DEF IInv, Sound, ChipState
<1>1. ASSUME NEW address \in Addresses, NEW value \in Bytes, WriteBackup(address, value)
      PROVE  IInv'
  <2>1. Sound(chip')
    BY <1>1, <1>t, WriteSound
  <2>2. UNCHANGED <<snapshot, file>>
    BY <1>1, <1>t DEF WriteBackup
  <2>3. QED BY <1>t, <2>1, <2>2 DEF IInv
<1>2. ASSUME NEW address \in Addresses, ReadBackup(address)
      PROVE  IInv'
  <2>1. Sound(chip')
    BY <1>2, <1>t, ReadSound
  <2>2. UNCHANGED <<snapshot, file>>
    BY <1>2, <1>t DEF ReadBackup
  <2>3. QED BY <1>t, <2>1, <2>2 DEF IInv
<1>3. CASE Save
  BY <1>3, <1>t, CoveredType DEF Save, IInv
<1>4. CASE Reset
  BY <1>4, <1>t, ResetSound DEF Reset, IInv
<1>5. CASE Restart
  BY <1>5, <1>t, ResetSound, ListedSizeType, CoveredType DEF Restart, IInv
<1>6. CASE SaveState
  BY <1>6, <1>t DEF SaveState, IInv
<1>7. CASE LoadState
  <2>1. Sound(chip')
    BY <1>7, LoadSound DEF IInv
  <2>2. QED BY <1>7, <1>t, <2>1 DEF LoadState, IInv
<1>8. CASE UNCHANGED vars
  BY <1>8, <1>t DEF vars, IInv
<1>9. QED BY <1>1, <1>2, <1>3, <1>4, <1>5, <1>6, <1>7, <1>8 DEF Next

THEOREM AlwaysSound == Spec => []IInv
BY InitSound, StepSound, PTL DEF Spec

THEOREM TypeCorrect == Spec => []TypeOK
<1>1. IInv => TypeOK
  BY DEF IInv, Sound, TypeOK
<1>2. QED BY <1>1, AlwaysSound, PTL

\* What save_backup writes covers what the game has modified.
THEOREM NothingUnsaved == Spec => []SessionSaved
<1>1. IInv => SessionSaved
  BY DEF IInv, Sound, Consistent, SessionSaved
<1>2. QED BY <1>1, AlwaysSound, PTL

\* flash_bank_ptr stays in the chip.
THEOREM BankKept == Spec => []BankInRange
<1>1. IInv => BankInRange
  BY DEF IInv, Sound, Consistent, BankInRange
<1>2. QED BY <1>1, AlwaysSound, PTL

\* No command is half way in a chip that write_backup takes for SRAM.
THEOREM SramIdle == Spec => []SramIsIdle
<1>1. IInv => SramIsIdle
  BY DEF IInv, Sound, Consistent, SramIsIdle, IsSram
<1>2. QED BY <1>1, AlwaysSound, PTL

\* Three writes that change nothing come before each one that changes flash.
THEOREM FlashGuarded == Spec => []FlashProtected
<1>1. IInv => FlashProtected
  BY DEF IInv, Sound, Guarded, FlashProtected
<1>2. QED BY <1>1, AlwaysSound, PTL
=============================================================================
