---------------------------------- MODULE Rtc ----------------------------------
(***************************************************************************)
(* The real-time clock of a cartridge (write_rtc), as operators on its     *)
(* state.  The game drives three lines through a halfword of page 0 of the *)
(* ROM, 0x80000C4: bit 0 the clock, bit 1 the data, bit 2 the select.  Two *)
(* more hold the direction of the lines (0x80000C6) and the enable bit     *)
(* (0x80000C8).  rtc_registers remembers the three; the game itself reads  *)
(* the bytes of the page, of which only those of the lines are kept here.  *)
(***************************************************************************)
EXTENDS Integers, Sequences

BitOf(n, i) == (n \div 2^i) % 2
SetBit(n, i, bit) == n + (bit - BitOf(n, i)) * 2^i

States == {"disabled", "idle", "command", "output", "input"}

Stopped ==
    [state |-> "disabled", lines |-> 0, direction |-> 0, enable |-> 0, command |-> 0,
     data |-> [i \in 0 .. 6 |-> 0], status |-> 64, bytes |-> 0, count |-> 0]

\* memset of rtc_registers: the bytes of the page stay.
Clear(rtc) == [rtc EXCEPT !.lines = 0, !.direction = 0, !.enable = 0]

\* Mutant: the reset leaves the clock where it was.
StateKept(rtc) == Clear(rtc)

\* init_memory: rtc_status and what a transfer has left behind survive.
ResetRtc(rtc) == [Clear(rtc) EXCEPT !.state = "disabled"]

\* An answer; the bytes of a longer one before it stay behind it.
Output(rtc, bytes) ==
    [rtc EXCEPT !.state = "output", !.bytes = Len(bytes), !.count = 0,
        !.data = [i \in 0 .. 6 |-> IF i < Len(bytes) THEN bytes[i + 1] ELSE rtc.data[i]]]

\* encode_bcd; the host counts months from 0 and years from 1900.
EncodeBcd(n) == ((n % 100) \div 10) * 16 + (n % 10)

Clock(now) == [i \in 1 .. 7 |-> EncodeBcd(IF i = 2 THEN now[i] + 1 ELSE now[i])]

\* The commands; an unknown one is tried again at every edge of the clock.
Execute(rtc, now) ==
    CASE rtc.command = 96 -> [Clear(rtc) EXCEPT !.state = "idle", !.count = 0]
      [] rtc.command = 98 -> [rtc EXCEPT !.state = "input", !.bytes = 1, !.count = 0]
      [] rtc.command = 99 -> Output(rtc, <<rtc.status>>)
      [] rtc.command = 101 -> Output(rtc, Clock(now))
      [] rtc.command = 103 -> Output(rtc, SubSeq(Clock(now), 5, 7))
      [] OTHER -> [rtc EXCEPT !.count = 0]

\* The clock line is high: the edge on which bits are taken.
Clocked(value) == BitOf(value, 0) = 1

CommandBit(rtc, value, now) ==
    LET bit == BitOf(value, 1)
        received ==
            [rtc EXCEPT !.count = @ - 1,
                !.command = IF bit = 1 THEN SetBit(@, rtc.count, 1) ELSE @]
    IN IF ~Clocked(value) THEN rtc
       ELSE IF received.count < 0 THEN Execute(received, now) ELSE received

\* The bit ORed into rtc_data is that of the clock line, which is low: rtc_data is left
\* as it was, and its first byte becomes the status.
InputBit(rtc, value) ==
    IF BitOf(rtc.direction, 1) = 0 \/ ~Clocked(value) THEN rtc
    ELSE IF rtc.count + 1 # 8 * rtc.bytes THEN [rtc EXCEPT !.count = @ + 1]
    ELSE [rtc EXCEPT !.count = @ + 1, !.state = "idle", !.status = rtc.data[0]]

LastBitRead(rtc) == [Clear(rtc) EXCEPT !.count = @ + 1, !.state = "idle"]

\* Mutant: the most significant bit of a byte is sent first.
HighBitFirst(rtc) == BitOf(rtc.data[rtc.count \div 8], 7 - (rtc.count % 8))

NextBit(rtc) == BitOf(rtc.data[rtc.count \div 8], rtc.count % 8)

\* The answer appears on the lines, made from those of the enable register.
OutputBit(rtc, value) ==
    IF BitOf(rtc.direction, 1) = 1 THEN rtc
    ELSE IF ~Clocked(value) THEN [rtc EXCEPT !.lines = SetBit(rtc.enable, 1, NextBit(rtc))]
    ELSE IF rtc.count + 1 # 8 * rtc.bytes THEN [rtc EXCEPT !.count = @ + 1]
    ELSE LastBitRead(rtc)

\* A write to the lines that has reached rtc_registers[0].
React(rtc, value, now) ==
    CASE rtc.state = "command" -> CommandBit(rtc, value, now)
      [] rtc.state = "input" -> InputBit(rtc, value)
      [] rtc.state = "output" -> OutputBit(rtc, value)
      [] OTHER -> rtc

\* The first access to the lines since the reset
Wake(rtc) == IF rtc.state = "disabled" THEN [rtc EXCEPT !.state = "idle"] ELSE rtc

\* While the select line is low the data line keeps its value.
LinesWith(rtc, written) ==
    IF BitOf(rtc.lines, 2) = 0 THEN SetBit(written, 1, BitOf(rtc.lines, 1)) ELSE written

\* Writes to the lines, on a state [rtc, page] of the clock and the bytes the game reads.
\* While the clock is not enabled the write goes to the enable register.
WriteLines(s, written, now) ==
    LET rtc == Wake(s.rtc)
        value == LinesWith(rtc, written)
        after == React([rtc EXCEPT !.lines = value], value, now)
        output == rtc.state = "output" /\ BitOf(rtc.direction, 1) = 0 /\ ~Clocked(value)
    IN IF BitOf(rtc.enable, 0) = 0
         THEN [rtc |-> [rtc EXCEPT !.enable = value], page |-> s.page]
       ELSE IF rtc.state = "idle" /\ rtc.lines = 1 /\ value = 5
         THEN [rtc |-> [rtc EXCEPT !.lines = 5, !.state = "command", !.command = 0, !.count = 7],
               page |-> 5]
       ELSE [rtc |-> after, page |-> IF output THEN after.lines ELSE value]

WriteRtc(s, port, value, now) ==
    CASE port = "lines" -> WriteLines(s, value, now)
      [] port = "direction" -> [s EXCEPT !.rtc.direction = value]
      [] port = "enable" -> [s EXCEPT !.rtc.enable = value]
=============================================================================
