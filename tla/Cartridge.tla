------------------------------- MODULE Cartridge -------------------------------
(***************************************************************************)
(* A cartridge with an EEPROM of either size or a real-time clock, the     *)
(* game that drives them by their protocols, and the frontend that resets  *)
(* the machine, saves the memory, writes and loads savestates and starts   *)
(* the program again, between any two steps of the game.  A transfer to or from the    *)
(* EEPROM is one DMA, which nothing interrupts; the lines of the clock are *)
(* driven one store at a time.                                             *)
(*                                                                         *)
(* A savestate holds the state of both chips and of the game, not the      *)
(* memory of the EEPROM nor the ROM page in which the game sees the lines  *)
(* of the clock.                                                           *)
(***************************************************************************)
EXTENDS Eeprom, Rtc

CONSTANTS
    Devices,     \* what games use, "small" or "large" EEPROM and "clock"
    Data,        \* what the game writes to a block
    Commands,    \* commands the game sends to the clock
    Times,       \* what localtime may return: year, month, day, weekday, hour, minute, second
    SavePoints,  \* steps of the game's driver after which a savestate may be written
    None

ASSUME GameAssumption ==
    /\ Devices \subseteq {"small", "large", "clock"}
    /\ Data \subseteq [1 .. BlockBits -> Bit]
    /\ Commands \subseteq {96, 98, 99, 101, 103}
    /\ Times \subseteq [1 .. 7 -> Nat]
    /\ None \notin Nat

VARIABLES
    device,     \* what this game uses
    eeprom,     \* the chip's state
    memory,     \* gamepak_backup, by block
    backupType, \* backup_type
    file,       \* the blocks in the save file
    asked,      \* the block the game has asked for
    answer,     \* the answer to its last read
    rtc,        \* the clock's state
    page,       \* the lines as the game sees them in page 0 of the ROM
    driver,     \* the command the game's driver is sending and its next step
    sampled,    \* the bits the driver has read
    snapshot,   \* the savestate
    expected,   \* the bytes the clock had to answer (history)
    torn,       \* a savestate was loaded between a line's change and its reading (history)
    touched     \* blocks written since the last reset or savestate (history)

chipVars == <<device, eeprom, memory, backupType, asked, answer, touched>>
clockVars == <<rtc, page, driver, sampled, expected, torn>>
cartridgeVars == <<chipVars, clockVars, file, snapshot>>

Idle == [command |-> None, step |-> 0]
-----------------------------------------------------------------------------
(***************************************************************************)
(* The EEPROM and the game                                                 *)
(***************************************************************************)
ChipBlocks == CASE device = "small" -> {b \in Blocks : b < 64}
                [] device = "large" -> Blocks
                [] OTHER -> {}

AddressBits(block) ==
    LET n == IF device = "large" THEN 14 ELSE 6
    IN [i \in 1 .. n |-> BitOf(block, n - i)]

ReadCommand(block) == <<1, 1>> \o AddressBits(block) \o <<0>>
WriteCommand(block, data) == <<1, 0>> \o AddressBits(block) \o data \o <<0>>

SendCommand(bits) ==
    LET sent == Send([chip |-> eeprom, memory |-> memory], bits)
    IN /\ asked = None
       /\ eeprom' = sent.chip /\ memory' = sent.memory
       /\ backupType' = "eeprom" /\ answer' = None
       /\ UNCHANGED <<device, clockVars, file, snapshot>>

WriteBlock(block, data) ==
    /\ block \in ChipBlocks
    /\ SendCommand(WriteCommand(block, data))
    /\ asked' = None /\ touched' = touched \cup {block}

AskForBlock(block) ==
    /\ block \in ChipBlocks
    /\ SendCommand(ReadCommand(block))
    /\ asked' = block /\ UNCHANGED touched

\* Four bits come before those of the block.
ReadBlock ==
    LET read == Receive([chip |-> eeprom, memory |-> memory], 4 + BlockBits)
    IN /\ asked # None
       /\ eeprom' = read.chip
       /\ answer' = SubSeq(read.answer, 5, 4 + BlockBits) /\ asked' = None
       /\ UNCHANGED <<device, memory, backupType, touched, clockVars, file, snapshot>>
-----------------------------------------------------------------------------
(***************************************************************************)
(* The clock and the game's driver: enable, select, the bits of the        *)
(* command from the most significant one, the bytes from the least         *)
(* significant bit, release.                                               *)
(***************************************************************************)
Write(port, value) == [op |-> "write", port |-> port, value |-> value]
Sample == [op |-> "sample", port |-> "lines", value |-> 0]

Select == <<Write("enable", 1), Write("lines", 1), Write("lines", 5), Write("direction", 7)>>
Release == <<Write("lines", 1), Write("lines", 1)>>

\* A bit is put on the line with the clock low, and taken with the clock high.
CommandBits(command) ==
    [i \in 1 .. 16 |->
        Write("lines", 4 + 2 * BitOf(command, 7 - (i - 1) \div 2) + ((i - 1) % 2))]

SentByte(byte) ==
    [i \in 1 .. 16 |-> Write("lines", 4 + 2 * BitOf(byte, (i - 1) \div 2) + ((i - 1) % 2))]

ReadBytes(n) ==
    <<Write("direction", 5)>> \o
    [i \in 1 .. 24 * n |-> CASE i % 3 = 1 -> Write("lines", 4)
                             [] i % 3 = 2 -> Write("lines", 5)
                             [] OTHER -> Sample]

AnswerBytes(command) ==
    CASE command = 99 -> 1 [] command = 101 -> 7 [] command = 103 -> 3 [] OTHER -> 0

Script(command) ==
    Select \o CommandBits(command) \o
    (CASE command = 96 -> << >>
       [] command = 98 -> SentByte(66)
       [] OTHER -> ReadBytes(AnswerBytes(command))) \o
    Release

Scripts == [command \in Commands |-> Script(command)]

NextStep == Scripts[driver.command][driver.step]

Advanced ==
    IF driver.step = Len(Scripts[driver.command]) THEN Idle
                                                  ELSE [driver EXCEPT !.step = @ + 1]

BeginTransaction(command) ==
    /\ device = "clock" /\ driver = Idle
    /\ driver' = [command |-> command, step |-> 1]
    /\ UNCHANGED <<rtc, page, sampled, expected, torn, chipVars, file, snapshot>>

\* What a read command has to answer.
Wanted(command, now) ==
    CASE command = 99 -> <<rtc.status>>
      [] command = 101 -> Clock(now)
      [] command = 103 -> SubSeq(Clock(now), 5, 7)
      [] OTHER -> << >>

WriteStep(now) ==
    LET after == WriteRtc([rtc |-> rtc, page |-> page], NextStep.port, NextStep.value, now)
    IN /\ driver # Idle /\ NextStep.op = "write"
       /\ rtc' = after.rtc /\ page' = after.page
       /\ driver' = Advanced
       /\ expected' = CASE driver.step = Len(Select) + 16 -> Wanted(driver.command, now)
                        [] driver' = Idle -> << >>
                        [] OTHER -> expected
       /\ sampled' = IF driver' = Idle THEN << >> ELSE sampled
       /\ torn' = (torn /\ driver' # Idle)
       /\ UNCHANGED <<chipVars, file, snapshot>>

SampleStep ==
    /\ driver # Idle /\ NextStep.op = "sample"
    /\ sampled' = Append(sampled, BitOf(page, 1))
    /\ driver' = Advanced
    /\ UNCHANGED <<rtc, page, expected, torn, chipVars, file, snapshot>>
-----------------------------------------------------------------------------
(***************************************************************************)
(* The frontend                                                            *)
(***************************************************************************)
\* The game starts again, with both chips as init_memory leaves them.
ResetChips ==
    /\ eeprom' = ResetEeprom(eeprom) /\ rtc' = ResetRtc(rtc)
    /\ backupType' = "none"
    /\ asked' = None /\ answer' = None /\ driver' = Idle
    /\ sampled' = << >> /\ expected' = << >> /\ torn' = FALSE /\ touched' = {}
    /\ UNCHANGED <<device, memory, page, file, snapshot>>

\* What save_backup writes.
Covered == IF backupType = "none" THEN {} ELSE {b \in ChipBlocks : b < eeprom.size}

\* save_backup: the file is written anew.
Saved == [b \in ChipBlocks |-> IF b \in Covered THEN memory[b] ELSE Cleared]

\* update_backup, on the way into the menu.
Save ==
    /\ backupType # "none"
    /\ file' = Saved
    /\ UNCHANGED <<chipVars, clockVars, snapshot>>

\* quit saves, and the next start loads the file.
Restart ==
    LET kept == IF backupType = "none" THEN file ELSE Saved
    IN /\ file' = kept /\ memory' = kept
       /\ eeprom' = Start /\ rtc' = Stopped /\ page' = 0
       /\ backupType' = "none"
       /\ asked' = None /\ answer' = None /\ driver' = Idle
       /\ sampled' = << >> /\ expected' = << >> /\ torn' = FALSE /\ touched' = {}
       /\ UNCHANGED <<device, snapshot>>

\* gba_save_state between two steps of the game.
SaveState ==
    /\ driver = Idle \/ driver.step \in SavePoints
    /\ snapshot' =
         [eeprom |-> eeprom, backupType |-> backupType, rtc |-> rtc, asked |-> asked,
          driver |-> driver, sampled |-> sampled, expected |-> expected, torn |-> torn]
    /\ UNCHANGED <<chipVars, clockVars, file>>

LoadChipState ==
    /\ snapshot # None
    /\ eeprom' = snapshot.eeprom /\ backupType' = snapshot.backupType
    /\ rtc' = snapshot.rtc
    /\ asked' = snapshot.asked /\ answer' = None
    /\ driver' = snapshot.driver
    /\ sampled' = snapshot.sampled /\ expected' = snapshot.expected
    /\ torn' = \/ snapshot.torn
               \/ driver' # Idle /\ Scripts[driver'.command][driver'.step] = Sample
    /\ touched' = {}
    /\ UNCHANGED <<device, memory, page, file, snapshot>>

CartridgeInit ==
    /\ device \in Devices
    /\ eeprom = Start /\ memory = [b \in ChipBlocks |-> Erased]
    /\ backupType = "none" /\ file = memory
    /\ asked = None /\ answer = None /\ touched = {}
    /\ rtc = Stopped /\ page = 0
    /\ driver = Idle /\ sampled = << >> /\ expected = << >> /\ torn = FALSE
    /\ snapshot = None

CartridgeNext ==
    \/ \E block \in Blocks :
         AskForBlock(block) \/ \E data \in Data : WriteBlock(block, data)
    \/ ReadBlock
    \/ \E command \in Commands : BeginTransaction(command)
    \/ \E now \in Times : WriteStep(now)
    \/ SampleStep
    \/ ResetChips \/ Save \/ Restart \/ SaveState \/ LoadChipState

CartridgeSpec == CartridgeInit /\ [][CartridgeNext]_cartridgeVars
-----------------------------------------------------------------------------
\* Bit by bit, with its size found out on the way, reset and brought back by savestates in
\* the middle of a read, the EEPROM is the array of blocks the game takes it for: a write
\* changes its block and no other, a read answers with the last write, and the save file
\* holds every block or is left alone.
AllBlocks(contents) == [b \in Blocks |-> IF b \in ChipBlocks THEN contents[b] ELSE Erased]

Array == INSTANCE EepromBlocks
           WITH blocks <- AllBlocks(memory), file <- AllBlocks(file), request <- asked,
                Data <- Data \cup {Erased}

EepromIsAnArray == Array!Spec

\* What the game has written since the last reset or savestate is in what the next save
\* writes: the size of the chip was inferred in time.
EepromSaved == touched \subseteq Covered

\* Whatever transaction was interrupted by a reset or brought back by a savestate, when the
\* game's driver is between transactions so is the clock: the next command is understood.
RtcInStep == driver = Idle => rtc.state \in {"disabled", "idle"}

\* The driver reads the bits of the status or the time as they were when the command was
\* complete, in order, unless a savestate was loaded between the change of a line and its
\* reading: the page with the lines is not part of it.
RtcAnswers ==
    ~torn => \A i \in 1 .. Len(sampled) :
                sampled[i] = BitOf(expected[(i - 1) \div 8 + 1], (i - 1) % 8)
=============================================================================
