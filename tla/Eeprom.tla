-------------------------------- MODULE Eeprom --------------------------------
(***************************************************************************)
(* The EEPROM of a cartridge (write_eeprom and read_eeprom), as operators  *)
(* on its state.  The game sends a command and receives an answer one bit  *)
(* at a time, with DMA 3.  Which of the two chips it is, of 64 blocks or   *)
(* of 1024, is inferred from the length of a transfer.  A block is a       *)
(* sequence of 64 bits; the memory is kept for the blocks the game uses.   *)
(***************************************************************************)
EXTENDS Integers, Sequences

CONSTANT Blocks  \* numbers of the blocks in use

ASSUME BlocksAssumption == Blocks \subseteq 0 .. 1023

Bit == {0, 1}
BlockBits == 64
Erased == [i \in 1 .. BlockBits |-> 1]
Cleared == [i \in 1 .. BlockBits |-> 0]

Modes == {"base", "read_address", "write_address", "read_footer", "write_footer",
          "read_header", "read", "write"}

\* The first two bytes of eeprom_buffer, bit 7 of the first one first.
NoBits == [i \in 0 .. 15 |-> 0]

Start ==
    [size |-> 64, mode |-> "base", addressLength |-> 0, address |-> 0, counter |-> 0,
     buffer |-> NoBits]

\* init_memory leaves eeprom_buffer and eeprom_address_length alone.
ResetEeprom(chip) ==
    [chip EXCEPT !.size = 64, !.mode = "base", !.address = 0, !.counter = 0]
-----------------------------------------------------------------------------
(***************************************************************************)
(* write_eeprom on a state [chip, memory]                                  *)
(***************************************************************************)
AddressLength(size) == IF size = 64 THEN 6 ELSE 14

\* n bits of the buffer as a number
Number(buffer, first, n) ==
    LET number[i \in 0 .. n] ==
            IF i = 0 THEN 0 ELSE 2 * number[i - 1] + buffer[first + i - 1]
    IN number[n]

\* The address that has been received, in blocks; a short one is taken from 16 bits.
Received(chip, buffer) ==
    IF chip.size = 64
      THEN Number(buffer, 0, 6) + 64 * Number(buffer, 8, 8)
      ELSE Number(buffer, 0, 14)

\* A bit is ORed into the buffer.
Put(buffer, i, bit) == [buffer EXCEPT ![i] = IF bit = 1 THEN 1 ELSE @]

OpCode(state, bit) ==
    LET chip == state.chip
        buffer == Put(chip.buffer, 6 + chip.counter, bit)
    IN IF chip.counter = 0
         THEN [state EXCEPT !.chip = [chip EXCEPT !.buffer = buffer, !.counter = 1]]
         ELSE [state EXCEPT !.chip =
                [chip EXCEPT !.addressLength = AddressLength(chip.size),
                    !.counter = 0, !.buffer = NoBits,
                    !.mode = CASE buffer[6] = 1 /\ buffer[7] = 0 -> "write_address"
                               [] buffer[6] = 1 /\ buffer[7] = 1 -> "read_address"
                               [] OTHER -> @]]

\* A block outside those in use is not remembered.
Store(memory, address, contents) ==
    [b \in DOMAIN memory |-> IF b = address THEN contents ELSE memory[b]]

AddressBit(state, bit) ==
    LET chip == state.chip
        buffer == Put(chip.buffer, chip.counter, bit)
        address == Received(chip, buffer)
    IN IF chip.counter + 1 # chip.addressLength
         THEN [state EXCEPT !.chip = [chip EXCEPT !.buffer = buffer, !.counter = @ + 1]]
         ELSE [chip |->
                 [chip EXCEPT !.address = address, !.buffer = NoBits, !.counter = 0,
                     !.mode = IF @ = "read_address" THEN "read_footer" ELSE "write"],
               memory |-> IF chip.mode = "read_address" THEN state.memory
                          ELSE Store(state.memory, address, Cleared)]

DataBit(state, bit) ==
    LET chip == state.chip
        i == chip.counter
        old == state.memory[chip.address]
        block == [old EXCEPT ![i + 1] = IF bit = 1 THEN 1 ELSE @]
    IN [chip |-> IF i + 1 = BlockBits
                   THEN [chip EXCEPT !.counter = 0, !.mode = "write_footer"]
                   ELSE [chip EXCEPT !.counter = i + 1],
        memory |-> IF chip.address \in DOMAIN state.memory
                     THEN Store(state.memory, chip.address, block)
                     ELSE state.memory]

Footer(state) ==
    LET next == IF state.chip.mode = "read_footer" THEN "read_header" ELSE "base"
    IN [state EXCEPT !.chip = [state.chip EXCEPT !.mode = next, !.counter = 0]]

WriteEeprom(state, bit) ==
    CASE state.chip.mode = "base" -> OpCode(state, bit)
      [] state.chip.mode \in {"read_address", "write_address"} -> AddressBit(state, bit)
      [] state.chip.mode = "write" -> DataBit(state, bit)
      [] state.chip.mode \in {"read_footer", "write_footer"} -> Footer(state)
      [] OTHER -> state

\* Mutant: the size is inferred from the whole length.
WholeLength(length) == length = 17

\* trigger_dma: lengths that only the large chip's commands have.
LongCommand(length) == length % 32 = 17

TellSize(state, length) ==
    IF LongCommand(length) THEN [state EXCEPT !.chip.size = 1024] ELSE state

\* A transfer of the bits of a command to the chip.
Send(state, bits) ==
    LET after[i \in 0 .. Len(bits)] ==
            IF i = 0 THEN TellSize(state, Len(bits)) ELSE WriteEeprom(after[i - 1], bits[i])
    IN after[Len(bits)]
-----------------------------------------------------------------------------
(***************************************************************************)
(* read_eeprom on a state [chip, memory, answer], the answer being what    *)
(* has been read before.                                                   *)
(***************************************************************************)
\* Mutant: one bit less comes before those of the block.
HeaderShort(chip) ==
    IF chip.counter = 2 THEN [chip EXCEPT !.mode = "read", !.counter = 0]
                        ELSE [chip EXCEPT !.counter = @ + 1]

ReadHeader(chip) ==
    IF chip.counter = 3 THEN [chip EXCEPT !.mode = "read", !.counter = 0]
                        ELSE [chip EXCEPT !.counter = @ + 1]

ReadData(chip) ==
    IF chip.counter = BlockBits - 1 THEN [chip EXCEPT !.mode = "base", !.counter = 0]
                                    ELSE [chip EXCEPT !.counter = @ + 1]

ReadEeprom(state) ==
    LET chip == state.chip
        read(bit, after) ==
            [state EXCEPT !.chip = after, !.answer = Append(@, bit)]
    IN CASE chip.mode = "base" -> read(1, chip)
         [] chip.mode = "read" ->
              read(state.memory[chip.address][chip.counter + 1], ReadData(chip))
         [] chip.mode = "read_header" -> read(0, ReadHeader(chip))
         [] OTHER -> read(0, chip)

\* A transfer of n bits from the chip.
Receive(state, n) ==
    LET after[i \in 0 .. n] ==
            IF i = 0 THEN [chip |-> state.chip, memory |-> state.memory, answer |-> << >>]
                     ELSE ReadEeprom(after[i - 1])
    IN after[n]
=============================================================================
