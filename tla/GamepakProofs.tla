------------------------------ MODULE GamepakProofs ------------------------------
(***************************************************************************)
(* Proofs about what is in a cartridge: the page swapping of GamepakPages, *)
(* and the EEPROM and the clock of Cartridge.                              *)
(*                                                                         *)
(* For every number of slots and pages the tables of the page swapping     *)
(* stay in type, what is mapped is loaded, no page but page 0 occupies two *)
(* slots, and a slot that was given a page is given another one only when  *)
(* every other slot has had its turn.                                      *)
(*                                                                         *)
(* For both chips and any set of blocks the EEPROM, which is sent its      *)
(* commands and asked for its answers bit by bit, implements the array of  *)
(* blocks of EepromBlocks.                                                 *)
(*                                                                         *)
(* For any commands, times and points at which a savestate may be taken,   *)
(* the clock is at every step of the game's driver where the driver takes  *)
(* it to be, and the bits that the driver reads are those of the answer.   *)
(***************************************************************************)
EXTENDS GamepakPages, Cartridge, FiniteSetTheorems, WellFoundedInduction, SequenceTheorems,
        TLAPS

\* A page that is read into a slot, as far as the three tables go.
LEMMA LoadKeepsTables ==
    ASSUME TypeOK, MappedIsLoaded, HeldOnce,
           NEW p \in Pages, NEW s \in Slots, mapped[p] = NULL, LoadInto(p, s)
    PROVE  MappedIsLoaded' /\ HeldOnce'
<1>1. /\ physical' = [physical EXCEPT ![s] = p]
      /\ content' = [content EXCEPT ![s] = p]
      /\ mapped' = [mapped EXCEPT ![physical[s]] = NULL, ![p] = s]
  BY DEF LoadInto, Remap
<1>2. /\ physical \in [Slots -> Pages]
      /\ content \in [Slots -> Pages \cup {NULL}]
      /\ mapped \in [Pages -> Slots \cup {NULL}]
  BY DEF TypeOK
<1>3. MappedIsLoaded'
  <2> SUFFICES ASSUME NEW q \in Pages, mapped'[q] # NULL
               PROVE  physical'[mapped'[q]] = q /\ content'[mapped'[q]] = q
    BY DEF MappedIsLoaded
  <2>1. CASE q = p
    BY <1>1, <1>2, <2>1
  <2>2. CASE q # p
    <3>1. q # physical[s] /\ mapped'[q] = mapped[q]
      BY <1>1, <1>2, <2>2
    <3>2. mapped[q] \in Slots /\ physical[mapped[q]] = q /\ content[mapped[q]] = q
      BY <1>2, <3>1 DEF MappedIsLoaded
    <3> QED
      BY <1>1, <1>2, <3>1, <3>2
  <2> QED
    BY <2>1, <2>2
<1>4. HeldOnce'
  <2> SUFFICES ASSUME NEW t \in Slots, physical'[t] # 0
               PROVE  mapped'[physical'[t]] = t
    BY DEF HeldOnce
  <2>1. CASE t = s
    BY <1>1, <1>2, <2>1
  <2>2. CASE t # s
    <3>1. physical'[t] = physical[t] /\ physical[t] \in Pages
      BY <1>1, <1>2, <2>2
    <3>2. mapped[physical[t]] = t
      BY <3>1 DEF HeldOnce
    <3>3. physical[t] # p
      BY <3>2, NullAssumption
    <3>4. physical[t] # physical[s]
      BY <3>1, <3>2, <2>2 DEF HeldOnce
    <3> QED
      BY <1>1, <1>2, <3>1, <3>2, <3>3, <3>4
  <2> QED
    BY <2>1, <2>2
<1> QED
  BY <1>3, <1>4

\* The same load keeps the tables in type; the RTC bytes are its caller's.
LEMMA LoadTypes ==
    ASSUME TypeOK, NEW p \in Pages, NEW s \in Slots, LoadInto(p, s)
    PROVE  /\ timestamp' \in [Slots -> Nat]
           /\ \A t \in Slots : timestamp'[t] = 0 \/ timestamp'[t] < pageTime'
           /\ physical' \in [Slots -> Pages]
           /\ content' \in [Slots -> Pages \cup {NULL}]
           /\ mapped' \in [Pages -> Slots \cup {NULL}]
           /\ pageTime' \in 0 .. MaxTime
<1>1. /\ pageTime < MaxTime
      /\ timestamp' = [timestamp EXCEPT ![s] = pageTime]
      /\ physical' = [physical EXCEPT ![s] = p]
      /\ content' = [content EXCEPT ![s] = p]
      /\ mapped' = [mapped EXCEPT ![physical[s]] = NULL, ![p] = s]
      /\ pageTime' = pageTime + 1
  BY DEF LoadInto, Remap, Stamp
<1>2. MaxTime \in Nat
  BY SizesAssumption
<1>3. \A t \in Slots : timestamp'[t] = 0 \/ timestamp'[t] < pageTime'
  BY <1>1, <1>2 DEF TypeOK
<1> QED
  BY <1>1, <1>2, <1>3 DEF TypeOK

Bytes == RtcValues \cup {0, RomByte}

LEMMA PagedBytesType ==
    ASSUME NEW p \in Pages, NEW active \in BOOLEAN,
           NEW registers \in [0 .. 2 -> RtcValues]
    PROVE  PagedBytes(p, active, registers) \in [0 .. 5 -> Bytes]
BY DEF PagedBytes, RomBytes, Bytes

LEMMA LoadPageTypes ==
    ASSUME TypeOK, NEW p \in Pages, NEW s \in Slots, LoadPage(p, s)
    PROVE  gpio' \in [Slots -> [0 .. 5 -> Bytes]]
<1>1. PagedBytes(p, rtcActive, rtcRegisters) \in [0 .. 5 -> Bytes]
  BY PagedBytesType DEF TypeOK
<1>2. gpio \in [Slots -> [0 .. 5 -> Bytes]]
  BY DEF TypeOK, Bytes
<1> QED
  BY <1>1, <1>2 DEF LoadPage
-----------------------------------------------------------------------------
\* Every variable stays in the range its table gives it, and no slot is stamped
\* with a time that page_time has still to reach.
THEOREM TypeCorrect == Spec => []TypeOK
<1>1. Init => TypeOK
  <2> SUFFICES ASSUME Init PROVE TypeOK
    OBVIOUS
  <2>1. 0 \in Pages /\ 0 \in 0 .. MaxTime
    BY SizesAssumption DEF Pages
  <2> QED
    BY <2>1, RtcAssumption DEF Init, TypeOK, NoRtc, RomBytes
<1>2. TypeOK /\ [Next]_vars => TypeOK'
  <2> SUFFICES ASSUME TypeOK, [Next]_vars PROVE TypeOK'
    OBVIOUS
  <2>1. ASSUME NEW p \in Pages, ReadPage(p) PROVE TypeOK'
    <3>1. PICK s \in Slots : LoadPage(p, s)
      BY <2>1 DEF ReadPage
    <3>2. code' = code /\ rtcActive' = rtcActive /\ rtcRegisters' = rtcRegisters
      BY <2>1 DEF ReadPage, rtcVars
    <3> QED
      BY <3>1, <3>2, LoadTypes, LoadPageTypes DEF TypeOK, LoadPage, Bytes
  <2>2. ASSUME NEW p \in Pages, FetchFrom(p) PROVE TypeOK'
    <3>1. rtcActive' = rtcActive /\ rtcRegisters' = rtcRegisters
      BY <2>2 DEF FetchFrom, rtcVars
    <3>2. CASE mapped[p] # NULL
      <4>1. mapped[p] \in Slots
        BY <3>2 DEF TypeOK
      <4>2. code' = [page |-> p, slot |-> mapped[p]] /\ UNCHANGED <<slotVars, gpio>>
        BY <2>2, <3>2 DEF FetchFrom
      <4>3. code' \in CodePointer
        BY <4>1, <4>2 DEF CodePointer
      <4> QED
        BY <3>1, <4>2, <4>3 DEF TypeOK, slotVars
    <3>3. CASE mapped[p] = NULL
      <4>1. PICK s \in Slots : LoadPage(p, s) /\ code' = [page |-> p, slot |-> s]
        BY <2>2, <3>3 DEF FetchFrom
      <4>2. code' \in CodePointer
        BY <4>1 DEF CodePointer
      <4> QED
        BY <3>1, <4>1, <4>2, LoadTypes, LoadPageTypes DEF TypeOK, LoadPage, Bytes
    <3> QED
      BY <3>2, <3>3
  <2>3. ASSUME LeaveRom PROVE TypeOK'
    BY <2>3 DEF LeaveRom, TypeOK, slotVars, rtcVars
  <2>4. ASSUME NEW port \in 0 .. 2, WriteRtcPort(port) PROVE TypeOK'
    <3>0. PICK i \in 0 .. 2 : WriteRtcRegister(i)
      BY <2>4 DEF WriteRtcPort
    <3>1. PICK v \in RtcValues : rtcRegisters' = [rtcRegisters EXCEPT ![i] = v]
      BY <3>0 DEF WriteRtcRegister
    <3>2. /\ rtcRegisters' \in [0 .. 2 -> RtcValues]
          /\ rtcActive' \in BOOLEAN
          /\ code' = code
      BY <2>4, <3>0, <3>1 DEF WriteRtcPort, WriteRtcRegister, TypeOK
    <3>3. rtcRegisters'[i] \in Bytes /\ 0 \in Bytes /\ 2 * i \in 0 .. 5 /\ 2 * i + 1 \in 0 .. 5
      BY <3>2 DEF Bytes
    <3>4. ASSUME NEW bytes \in [0 .. 5 -> Bytes]
          PROVE  [bytes EXCEPT ![2 * i] = rtcRegisters'[i], ![2 * i + 1] = 0]
                   \in [0 .. 5 -> Bytes]
      BY <3>3
    <3>5. gpio \in [Slots -> [0 .. 5 -> Bytes]] /\ 0 \in Pages
      BY SizesAssumption DEF TypeOK, Bytes, Pages
    <3>6. CASE mapped[0] # NULL
      <4>1. mapped[0] \in Slots
        BY <3>5, <3>6 DEF TypeOK
      <4>2. /\ gpio' = [gpio EXCEPT ![mapped[0]] =
                   [@ EXCEPT ![2 * i] = rtcRegisters'[i], ![2 * i + 1] = 0]]
            /\ UNCHANGED slotVars
        BY <3>0, <3>6 DEF WriteRtcRegister
      <4>3. gpio' \in [Slots -> [0 .. 5 -> Bytes]]
        BY <3>4, <3>5, <4>1, <4>2
      <4> QED
        BY <3>2, <4>2, <4>3 DEF TypeOK, slotVars, Bytes
    <3>7. CASE mapped[0] = NULL
      <4>1. PICK s \in Slots :
               /\ LoadInto(0, s)
               /\ gpio' = [gpio EXCEPT ![s] =
                     [PagedBytes(0, rtcActive', rtcRegisters') EXCEPT
                        ![2 * i] = rtcRegisters'[i], ![2 * i + 1] = 0]]
        BY <3>0, <3>7 DEF WriteRtcRegister
      <4>2. PagedBytes(0, rtcActive', rtcRegisters') \in [0 .. 5 -> Bytes]
        BY <3>2, <3>5, PagedBytesType
      <4>3. gpio' \in [Slots -> [0 .. 5 -> Bytes]]
        BY <3>4, <3>5, <4>1, <4>2
      <4> QED
        BY <3>2, <3>5, <4>1, <4>3, LoadTypes DEF TypeOK, Bytes
    <3> QED
      BY <3>6, <3>7
  <2>5. ASSUME ClearRtcRegisters PROVE TypeOK'
    BY <2>5, RtcAssumption DEF ClearRtcRegisters, TypeOK, slotVars, NoRtc
  <2>6. ASSUME Reset PROVE TypeOK'
    <3>1. 0 \in Pages
      BY SizesAssumption DEF Pages
    <3> QED
      BY <2>6, <3>1, RtcAssumption DEF Reset, TypeOK, NoRtc, FreeSlots
  <2>7. ASSUME LoadState PROVE TypeOK'
    BY <2>7 DEF LoadState, TypeOK, slotVars
  <2>8. ASSUME UNCHANGED vars PROVE TypeOK'
    BY <2>8 DEF vars, slotVars, rtcVars, TypeOK
  <2> QED
    BY <2>1, <2>2, <2>3, <2>4, <2>5, <2>6, <2>7, <2>8 DEF Next
<1> QED
  BY <1>1, <1>2, PTL DEF Spec

Tables == MappedIsLoaded /\ HeldOnce

\* What is mapped is loaded, and no page but page 0 has two slots.  Each of the two
\* needs the other: a load could map a page a second time if another slot held it,
\* and could leave a mapping behind if the slot's entry were not the page mapped.
THEOREM TablesAgree == Spec => []Tables
<1>1. Init => Tables
  BY DEF Init, Tables, MappedIsLoaded, HeldOnce
<1>2. TypeOK /\ Tables /\ [Next]_vars => Tables'
  <2> SUFFICES ASSUME TypeOK, MappedIsLoaded, HeldOnce, [Next]_vars PROVE Tables'
    BY DEF Tables
  <2>1. ASSUME NEW p \in Pages, ReadPage(p) PROVE Tables'
    BY <2>1, LoadKeepsTables DEF ReadPage, LoadPage, Tables
  <2>2. ASSUME UNCHANGED slotVars PROVE Tables'
    BY <2>2 DEF slotVars, Tables, MappedIsLoaded, HeldOnce
  <2>3. ASSUME NEW p \in Pages, FetchFrom(p) PROVE Tables'
    <3>1. CASE mapped[p] # NULL
      BY <2>2, <2>3, <3>1 DEF FetchFrom
    <3>2. CASE mapped[p] = NULL
      BY <2>3, <3>2, LoadKeepsTables DEF FetchFrom, LoadPage, Tables
    <3> QED
      BY <3>1, <3>2
  <2>4. ASSUME NEW port \in 0 .. 2, WriteRtcPort(port) PROVE Tables'
    <3>1. 0 \in Pages
      BY SizesAssumption DEF Pages
    <3>2. CASE mapped[0] # NULL
      BY <2>2, <2>4, <3>2 DEF WriteRtcPort, WriteRtcRegister
    <3>3. CASE mapped[0] = NULL
      BY <2>4, <3>1, <3>3, LoadKeepsTables DEF WriteRtcPort, WriteRtcRegister, Tables
    <3> QED
      BY <3>2, <3>3
  <2>5. ASSUME Reset PROVE Tables'
    BY <2>5 DEF Reset, FreeSlots, Tables, MappedIsLoaded, HeldOnce
  <2> QED
    BY <2>1, <2>2, <2>3, <2>4, <2>5
       DEF Next, LeaveRom, ClearRtcRegisters, LoadState, vars
<1> QED
  BY <1>1, <1>2, TypeCorrect, PTL DEF Spec

\* The two parts as properties of the specification.
THEOREM MappedPagesAreLoaded == Spec => []MappedIsLoaded
BY TablesAgree, PTL DEF Tables

THEOREM NoPageHeldTwice == Spec => []HeldOnce
BY TablesAgree, PTL DEF Tables
-----------------------------------------------------------------------------
\* No two slots carry the same time, except those that are free.
TimesDiffer ==
    \A s, t \in Slots : 0 < timestamp[s] /\ timestamp[s] = timestamp[t] => s = t

\* A load stamps its slot with a time that no slot carries.
LEMMA LoadStampsAnew ==
    ASSUME TypeOK, TimesDiffer, NEW p \in Pages, NEW s \in Slots, LoadInto(p, s)
    PROVE  TimesDiffer'
<1>1. /\ timestamp' = [timestamp EXCEPT ![s] = pageTime]
      /\ timestamp \in [Slots -> Nat]
      /\ \A t \in Slots : timestamp[t] = 0 \/ timestamp[t] < pageTime
      /\ pageTime \in Nat
  BY SizesAssumption DEF LoadInto, Stamp, TypeOK
<1> SUFFICES ASSUME NEW t \in Slots, NEW u \in Slots,
                    0 < timestamp'[t], timestamp'[t] = timestamp'[u]
             PROVE  t = u
  BY DEF TimesDiffer
<1>2. CASE t # s /\ u # s
  BY <1>1, <1>2 DEF TimesDiffer
<1>3. CASE t = s \/ u = s
  BY <1>1, <1>3
<1>. QED BY <1>2, <1>3

\* The slot that is loaded has the smallest time: if it is not free no slot is, and
\* as many times lie between it and page_time as there are slots.
LEMMA VictimIsOld ==
    ASSUME TypeOK, TimesDiffer, NEW s \in Slots, Victim(s), 0 < timestamp[s]
    PROVE  pageTime - timestamp[s] >= RamPages
<1>. DEFINE Between == timestamp[s] .. pageTime - 1
<1>1. /\ timestamp \in [Slots -> Nat] /\ timestamp[s] \in Nat
      /\ pageTime \in Nat /\ RamPages \in Nat \ {0}
      /\ \A t \in Slots : timestamp[t] = 0 \/ timestamp[t] < pageTime
  BY SizesAssumption DEF TypeOK
<1>2. \A t \in Slots : timestamp[s] <= timestamp[t]
  BY DEF Victim
<1>3. timestamp \in [Slots -> Between]
  <2>1. ASSUME NEW t \in Slots
        PROVE  timestamp[t] \in Between
    BY <1>1, <1>2
  <2>. QED BY <1>1, <2>1
<1>4. /\ IsFiniteSet(Slots) /\ Cardinality(Slots) = RamPages
  BY <1>1, FS_Interval DEF Slots
<1>5. /\ IsFiniteSet(Between)
      /\ Cardinality(Between) = pageTime - timestamp[s]
  <2>1. timestamp[s] < pageTime /\ timestamp[s] \in Int /\ pageTime - 1 \in Int
    BY <1>1
  <2>2. /\ IsFiniteSet(Between)
        /\ Cardinality(Between)
             = IF timestamp[s] > pageTime - 1 THEN 0 ELSE pageTime - 1 - timestamp[s] + 1
    BY <2>1, FS_Interval
  <2>. HIDE DEF Between
  <2>. QED BY <1>1, <2>1, <2>2
<1>6. \A t, u \in Slots : timestamp[t] = timestamp[u] => t = u
  BY <1>1, <1>2 DEF TimesDiffer
<1>7. ~(Cardinality(Between) < Cardinality(Slots))
  <2>. HIDE DEF Between
  <2>. QED BY <1>3, <1>4, <1>5, <1>6, FS_PigeonHole
<1>. QED BY <1>1, <1>4, <1>5, <1>7

LEMMA TimesAlwaysDiffer == Spec => []TimesDiffer
<1>1. Init => TimesDiffer
  BY DEF Init, TimesDiffer
<1>2. TypeOK /\ TimesDiffer /\ [Next]_vars => TimesDiffer'
  <2> SUFFICES ASSUME TypeOK, TimesDiffer, [Next]_vars PROVE TimesDiffer'
    OBVIOUS
  <2>1. 0 \in Pages
    BY SizesAssumption DEF Pages
  <2>2. CASE \E p \in Pages : \E s \in Slots : LoadInto(p, s)
    BY <2>2, LoadStampsAnew
  <2>3. CASE timestamp' = timestamp
    BY <2>3 DEF TimesDiffer
  <2>4. CASE Reset
    BY <2>4 DEF Reset, TimesDiffer
  <2>. QED BY <2>1, <2>2, <2>3, <2>4 DEF Next, ReadPage, FetchFrom, LoadPage, LeaveRom,
        WriteRtcPort, WriteRtcRegister, ClearRtcRegisters, LoadState, slotVars, vars
<1>. QED BY <1>1, <1>2, TypeCorrect, PTL DEF Spec

\* Two loads into the same slot lie at least as many loads apart as there are slots,
\* unless a reset came between them: a page that was read stays for that long.
THEOREM PagesStay == Spec => LoadsApart
<1>1. TypeOK /\ TimesDiffer /\ [Next]_vars =>
        [pageTime' # pageTime =>
            \A s \in Slots : 0 < timestamp[s] /\ timestamp'[s] # timestamp[s]
                => timestamp'[s] - timestamp[s] >= RamPages]_vars
  <2> SUFFICES ASSUME TypeOK, TimesDiffer, Next, pageTime' # pageTime,
                      NEW s \in Slots, 0 < timestamp[s], timestamp'[s] # timestamp[s]
               PROVE  timestamp'[s] - timestamp[s] >= RamPages
    OBVIOUS
  <2>1. PICK p \in Pages, t \in Slots : LoadInto(p, t)
    <3>1. 0 \in Pages
      BY SizesAssumption DEF Pages
    <3>. QED BY <3>1 DEF Next, ReadPage, FetchFrom, LoadPage, LeaveRom, WriteRtcPort,
          WriteRtcRegister, ClearRtcRegisters, Reset, LoadState, slotVars
  <2>2. Victim(t) /\ timestamp' = [timestamp EXCEPT ![t] = pageTime]
    BY <2>1 DEF LoadInto, Stamp
  <2>3. s = t /\ timestamp'[s] = pageTime
    BY <2>2 DEF TypeOK
  <2>. QED BY <2>2, <2>3, VictimIsOld
<1>. QED BY <1>1, TypeCorrect, TimesAlwaysDiffer, PTL DEF Spec, LoadsApart
-----------------------------------------------------------------------------
\* The bits of a number, from its halves.
LEMMA Halves ==
    ASSUME NEW b \in Nat, NEW i \in 0 .. 13
    PROVE  /\ BitOf(b, i) \in Bit
           /\ b \div 2^i \in Nat
           /\ b \div 2^i = 2 * (b \div 2^(i + 1)) + BitOf(b, i)
<1>1. ASSUME NEW p \in Nat \ {0}, NEW q, p = 2^i, q = 2^(i + 1), q = 2 * p
      PROVE  /\ BitOf(b, i) \in Bit
             /\ b \div 2^i \in Nat
             /\ b \div 2^i = 2 * (b \div 2^(i + 1)) + BitOf(b, i)
  <2>1. b \div q = (b \div p) \div 2 /\ b \div p \in Nat
    BY <1>1
  <2>2. (b \div p) = 2 * ((b \div p) \div 2) + ((b \div p) % 2) /\ (b \div p) % 2 \in {0, 1}
    BY <2>1
  <2>. QED BY <1>1, <2>1, <2>2 DEF BitOf, Bit
<1>. DEFINE Power(n) == 2^n
<1>2. /\ Power(0) = 1 /\ Power(1) = 2 /\ Power(2) = 4 /\ Power(3) = 8 /\ Power(4) = 16
      /\ Power(5) = 32 /\ Power(6) = 64 /\ Power(7) = 128 /\ Power(8) = 256
      /\ Power(9) = 512 /\ Power(10) = 1024 /\ Power(11) = 2048 /\ Power(12) = 4096
      /\ Power(13) = 8192 /\ Power(14) = 16384
  OBVIOUS
<1>3. Power(i) \in Nat \ {0} /\ Power(i + 1) = 2 * Power(i)
  <2>1. i \in {0, 1, 2, 3, 4, 5, 6, 7, 8, 9, 10, 11, 12, 13}
    OBVIOUS
  <2>. HIDE DEF Power
  <2>. QED BY <1>2, <2>1
<1>. QED BY <1>1, <1>3

\* Induction over the natural numbers, for a set.
LEMMA Induct ==
    ASSUME NEW T, 0 \in T, \A n \in Nat : n \in T => n + 1 \in T
    PROVE  Nat \subseteq T
<1>. DEFINE Rest == Nat \ T
            R == OpToRel(<, Nat)
<1> SUFFICES ASSUME Rest # {} PROVE FALSE
  OBVIOUS
<1>1. IsWellFoundedOn(R, Nat)
  BY NatLessThanWellFounded
<1>2. \A x, y \in Nat : y < x => <<y, x>> \in R
  BY DEF OpToRel
<1>3. \E x \in Rest : \A y \in Rest : ~(<<y, x>> \in R)
  <2>. HIDE DEF R
  <2>. Rest \subseteq Nat
    OBVIOUS
  <2>. HIDE DEF Rest
  <2>. QED BY <1>1, WFMin
<1>4. PICK x \in Rest : \A y \in Rest : ~(<<y, x>> \in R)
  BY <1>3
<1>5. x \in Nat /\ x \notin T /\ x # 0
  OBVIOUS
<1>6. x - 1 \in Nat /\ x - 1 < x /\ (x - 1) + 1 = x
  BY <1>5
<1>7. x - 1 \in Rest
  BY <1>5, <1>6
<1>8. <<x - 1, x>> \in R
  BY <1>2, <1>5, <1>6
<1>. QED BY <1>4, <1>7, <1>8

\* A recursion over 0 .. n has one solution: two functions that agree at 0, and whose
\* next value the last one determines, are the same.
LEMMA SameRun ==
    ASSUME NEW n \in Nat, NEW f, NEW g, f[0] = g[0],
           \A i \in 1 .. n : f[i - 1] = g[i - 1] => f[i] = g[i]
    PROVE  f[n] = g[n]
<1>. DEFINE T == {i \in Nat : i <= n => f[i] = g[i]}
<1>1. 0 \in T
  OBVIOUS
<1>2. ASSUME NEW i \in Nat, i \in T
      PROVE  i + 1 \in T
  <2> SUFFICES ASSUME i + 1 <= n PROVE f[i + 1] = g[i + 1]
    OBVIOUS
  <2>1. i + 1 \in 1 .. n /\ (i + 1) - 1 = i /\ f[i] = g[i]
    BY <1>2
  <2>. QED BY <2>1
<1>3. Nat \subseteq T
  <2>. HIDE DEF T
  <2>. QED BY <1>1, <1>2, Induct
<1>. QED BY <1>3

\* What the three recursions of Eeprom return, given the values they go through.
LEMMA NumberIs ==
    ASSUME NEW buffer, NEW first \in Nat, NEW n \in Nat, NEW f, f[0] = 0,
           \A i \in 1 .. n : f[i] = 2 * f[i - 1] + buffer[first + i - 1]
    PROVE  Number(buffer, first, n) = f[n]
<1>. DEFINE g == CHOOSE v : v = [i \in 0 .. n |->
                   IF i = 0 THEN 0 ELSE 2 * v[i - 1] + buffer[first + i - 1]]
            h == [i \in 0 .. n |-> f[i]]
<1>1. h = [i \in 0 .. n |-> IF i = 0 THEN 0 ELSE 2 * h[i - 1] + buffer[first + i - 1]]
  <2>1. \A i \in 0 .. n : f[i] = IF i = 0 THEN 0 ELSE 2 * h[i - 1] + buffer[first + i - 1]
    OBVIOUS
  <2>. QED BY <2>1, Zenon
<1>2. g = [i \in 0 .. n |-> IF i = 0 THEN 0 ELSE 2 * g[i - 1] + buffer[first + i - 1]]
  <2>. HIDE DEF h
  <2>. QED BY <1>1, Zenon
<1>3. Number(buffer, first, n) = g[n]
  BY DEF Number
<1>. HIDE DEF g
<1>4. g[0] = 0 /\ \A i \in 1 .. n : g[i] = 2 * g[i - 1] + buffer[first + i - 1]
  <2>1. 0 \in 0 .. n /\ \A i \in 1 .. n : i \in 0 .. n /\ i # 0
    OBVIOUS
  <2>. QED BY <1>2, <2>1, Zenon
<1>5. f[0] = g[0] /\ \A i \in 1 .. n : f[i - 1] = g[i - 1] => f[i] = g[i]
  BY <1>4, Zenon
<1>6. f[n] = g[n]
  BY <1>5, SameRun
<1>. QED BY <1>3, <1>6

Sending(f, state, bits, n) ==
    /\ n \in Nat /\ Len(bits) = n
    /\ f[0] = TellSize(state, n)
    /\ \A i \in 1 .. n : f[i] = WriteEeprom(f[i - 1], bits[i])

\* What Send returns, given the states it goes through from bit to bit
LEMMA SendIs ==
    ASSUME NEW state, NEW bits, NEW n, NEW f, Sending(f, state, bits, n)
    PROVE  Send(state, bits) = f[n]
<1>. USE DEF Sending
<1>. DEFINE base == TellSize(state, n)
            g == CHOOSE v : v = [i \in 0 .. n |->
                   IF i = 0 THEN base ELSE WriteEeprom(v[i - 1], bits[i])]
            h == [i \in 0 .. n |-> f[i]]
<1>3. Send(state, bits) = g[n]
  BY DEF Send
<1>0. f[0] = base
  OBVIOUS
<1>. HIDE DEF base
<1>1. h = [i \in 0 .. n |-> IF i = 0 THEN base ELSE WriteEeprom(h[i - 1], bits[i])]
  <2>1. \A i \in 0 .. n : f[i] = IF i = 0 THEN base ELSE WriteEeprom(h[i - 1], bits[i])
    BY <1>0
  <2>. QED BY <2>1, Zenon
<1>2. g = [i \in 0 .. n |-> IF i = 0 THEN base ELSE WriteEeprom(g[i - 1], bits[i])]
  <2>. HIDE DEF h
  <2>. QED BY <1>1, Zenon
<1>. HIDE DEF g
<1>4. g[0] = base /\ \A i \in 1 .. n : g[i] = WriteEeprom(g[i - 1], bits[i])
  <2>1. 0 \in 0 .. n /\ \A i \in 1 .. n : i \in 0 .. n /\ i # 0
    OBVIOUS
  <2>. QED BY <1>2, <2>1, Zenon
<1>5. f[0] = g[0] /\ \A i \in 1 .. n : f[i - 1] = g[i - 1] => f[i] = g[i]
  BY <1>0, <1>4, Zenon
<1>6. f[n] = g[n]
  BY <1>5, SameRun
<1>. QED BY <1>3, <1>6

Receiving(f, state, n) ==
    /\ n \in Nat
    /\ f[0] = [chip |-> state.chip, memory |-> state.memory, answer |-> << >>]
    /\ \A i \in 1 .. n : f[i] = ReadEeprom(f[i - 1])

\* What Receive returns, given the states it goes through from bit to bit
LEMMA ReceiveIs ==
    ASSUME NEW state, NEW n, NEW f, Receiving(f, state, n)
    PROVE  Receive(state, n) = f[n]
<1>. USE DEF Receiving
<1>. DEFINE base == [chip |-> state.chip, memory |-> state.memory, answer |-> << >>]
            g == CHOOSE v : v = [i \in 0 .. n |->
                   IF i = 0 THEN base ELSE ReadEeprom(v[i - 1])]
            h == [i \in 0 .. n |-> f[i]]
<1>3. Receive(state, n) = g[n]
  BY DEF Receive
<1>0. f[0] = base
  OBVIOUS
<1>. HIDE DEF base
<1>1. h = [i \in 0 .. n |-> IF i = 0 THEN base ELSE ReadEeprom(h[i - 1])]
  <2>1. \A i \in 0 .. n : f[i] = IF i = 0 THEN base ELSE ReadEeprom(h[i - 1])
    BY <1>0
  <2>. QED BY <2>1, Zenon
<1>2. g = [i \in 0 .. n |-> IF i = 0 THEN base ELSE ReadEeprom(g[i - 1])]
  <2>. HIDE DEF h
  <2>. QED BY <1>1, Zenon
<1>. HIDE DEF g
<1>4. g[0] = base /\ \A i \in 1 .. n : g[i] = ReadEeprom(g[i - 1])
  <2>1. 0 \in 0 .. n /\ \A i \in 1 .. n : i \in 0 .. n /\ i # 0
    OBVIOUS
  <2>. QED BY <1>2, <2>1, Zenon
<1>5. f[0] = g[0] /\ \A i \in 1 .. n : f[i - 1] = g[i - 1] => f[i] = g[i]
  BY <1>0, <1>4, Zenon
<1>6. f[n] = g[n]
  BY <1>5, SameRun
<1>. QED BY <1>3, <1>6

-----------------------------------------------------------------------------
\* The EEPROM

Contents == [1 .. BlockBits -> Bit]

\* The bits of an address, received from the first one on, are the address.
LEMMA AddressReceived ==
    ASSUME NEW b \in Nat, NEW n \in 1 .. 14, b \div 2^n = 0, NEW buffer,
           \A j \in 0 .. n - 1 : buffer[j] = BitOf(b, n - 1 - j)
    PROVE  Number(buffer, 0, n) = b
<1>. DEFINE Power(i) == 2^i
            f == [i \in 0 .. n |-> b \div Power(n - i)]
<1>1. Power(0) = 1 /\ b \div 1 = b
  OBVIOUS
<1>2. b \div Power(n) = 0
  OBVIOUS
<1>3. ASSUME NEW i \in 1 .. n
      PROVE  f[i] = 2 * f[i - 1] + buffer[0 + i - 1]
  <2>1. /\ n - i \in 0 .. 13 /\ (n - i) + 1 = n - (i - 1) /\ i - 1 \in 0 .. n - 1
        /\ n - 1 - (i - 1) = n - i /\ 0 + i - 1 = i - 1 /\ i - 1 \in 0 .. n /\ i \in 0 .. n
    OBVIOUS
  <2>2. b \div Power(n - i) = 2 * (b \div Power((n - i) + 1)) + BitOf(b, n - i)
    BY <2>1, Halves
  <2>. HIDE DEF Power
  <2>3. buffer[i - 1] = BitOf(b, n - i)
    BY <2>1
  <2>. QED BY <2>1, <2>2, <2>3
<1>4. f[0] = 0 /\ f[n] = b
  <2>1. n - 0 = n /\ n - n = 0 /\ 0 \in 0 .. n /\ n \in 0 .. n
    OBVIOUS
  <2>. HIDE DEF Power
  <2>. QED BY <2>1, <1>1, <1>2
<1>6. Number(buffer, 0, n) = f[n]
  <2>. HIDE DEF f
  <2>. QED BY <1>3, <1>4, NumberIs
<1>. QED BY <1>4, <1>6

\* What was not received is zero.
LEMMA NothingReceived ==
    ASSUME NEW buffer, NEW first \in Nat, NEW n \in Nat,
           \A j \in first .. first + n - 1 : buffer[j] = 0
    PROVE  Number(buffer, first, n) = 0
<1>. DEFINE f == [i \in 0 .. n |-> 0]
<1>1. f[0] = 0 /\ \A i \in 1 .. n : f[i] = 2 * f[i - 1] + buffer[first + i - 1]
  <2>1. \A i \in 1 .. n : first + i - 1 \in first .. first + n - 1 /\ i - 1 \in 0 .. n
    OBVIOUS
  <2>. QED BY <2>1
<1>2. Number(buffer, first, n) = f[n]
  <2>. HIDE DEF f
  <2>. QED BY <1>1, NumberIs
<1>. QED BY <1>2

\* Bits of an address, for each chip
Width == IF device = "large" THEN 14 ELSE 6

\* A block of this chip is a number of as many bits as its address is long.
LEMMA BlockFits ==
    ASSUME NEW block \in ChipBlocks
    PROVE  /\ block \in Nat /\ block \div 2^Width = 0 /\ Width \in {6, 14}
           /\ device # "large" => Width = 6 /\ block < 64
           /\ device = "large" => Width = 14
           /\ device \in {"small", "large"}
<1>1. block \in 0 .. 1023 /\ (device # "large" => block < 64) /\ device \in {"small", "large"}
  BY BlocksAssumption DEF ChipBlocks
<1>2. 2^6 = 64 /\ 2^14 = 16384
  OBVIOUS
<1>3. block < 64 => block \div 64 = 0
  BY <1>1
<1>4. block \div 16384 = 0
  BY <1>1
<1>. QED BY <1>1, <1>2, <1>3, <1>4 DEF Width

\* The address that the chip finds in its buffer
LEMMA ReceivedIs ==
    ASSUME NEW block \in ChipBlocks, NEW chip, NEW buffer,
           chip.size = IF device = "large" THEN 1024 ELSE 64,
           \A j \in 0 .. Width - 1 : buffer[j] = AddressBits(block)[j + 1],
           \A j \in Width .. 15 : buffer[j] = 0
    PROVE  Received(chip, buffer) = block
<1>1. /\ block \in Nat /\ block \div 2^Width = 0 /\ Width \in 1 .. 14
      /\ Width = IF device = "large" THEN 14 ELSE 6
  BY BlockFits
<1>2. ASSUME NEW j \in 0 .. Width - 1
      PROVE  buffer[j] = BitOf(block, Width - 1 - j)
  <2>1. j + 1 \in 1 .. Width /\ Width - (j + 1) = Width - 1 - j
    BY <1>1
  <2>2. AddressBits(block) = [i \in 1 .. Width |-> BitOf(block, Width - i)]
    BY DEF AddressBits, Width
  <2>. QED BY <2>1, <2>2
<1>3. Number(buffer, 0, Width) = block
  BY <1>1, <1>2, AddressReceived
<1>4. CASE device = "large"
  BY <1>1, <1>3, <1>4 DEF Received
<1>5. CASE device # "large"
  <2>1. \A j \in 8 .. 8 + 8 - 1 : buffer[j] = 0
    BY <1>1, <1>5
  <2>2. Number(buffer, 8, 8) = 0
    <3>. DEFINE first == 8
    <3>1. first \in Nat /\ \A j \in first .. first + first - 1 : buffer[j] = 0
      BY <2>1
    <3>. HIDE DEF first
    <3>2. Number(buffer, first, first) = 0
      BY <3>1, NothingReceived
    <3>. QED BY <3>2 DEF first
  <2>. QED BY <1>1, <1>3, <1>5, <2>2 DEF Received
<1>. QED BY <1>4, <1>5

\* The state of the chip and the memory, and what each of its fields is.
State(size, mode, length, address, counter, buffer, contents) ==
    [chip |-> [size |-> size, mode |-> mode, addressLength |-> length, address |-> address,
               counter |-> counter, buffer |-> buffer],
     memory |-> contents]

IsChip(chip, size, mode, length, address, counter, buffer) ==
    /\ chip = [x \in DOMAIN chip |-> chip[x]]
    /\ DOMAIN chip = {"size", "mode", "addressLength", "address", "counter", "buffer"}
    /\ chip.size = size /\ chip.mode = mode /\ chip.addressLength = length
    /\ chip.address = address /\ chip.counter = counter /\ chip.buffer = buffer

IsState(state, size, mode, length, address, counter, buffer, contents) ==
    /\ state = [x \in DOMAIN state |-> state[x]]
    /\ DOMAIN state = {"chip", "memory"} /\ state.memory = contents
    /\ IsChip(state.chip, size, mode, length, address, counter, buffer)

\* A state of the chip and the memory, field by field
LEMMA StateIs ==
    ASSUME NEW state, NEW s, NEW m, NEW l, NEW a, NEW c, NEW b, NEW contents
    PROVE  IsState(state, s, m, l, a, c, b, contents)
             <=> state = State(s, m, l, a, c, b, contents)
BY DEF State, IsState, IsChip

\* The buffer after k bits of an address, and a block after k bits of its data.
Prefix(block, k) == [j \in 0 .. 15 |-> IF j < k THEN AddressBits(block)[j + 1] ELSE 0]
Filled(data, k) == [j \in 1 .. BlockBits |-> IF j <= k THEN data[j] ELSE 0]
OneBit == Put(NoBits, 6, 1)

\* The two bits of an operation code, received by a waiting chip
LEMMA OpCodeSteps ==
    ASSUME NEW m, NEW s, NEW l, NEW a, NEW bit \in Bit
    PROVE  /\ WriteEeprom(State(s, "base", l, a, 0, NoBits, m), 1)
                = State(s, "base", l, a, 1, OneBit, m)
           /\ WriteEeprom(State(s, "base", l, a, 1, OneBit, m), bit)
                = IF bit = 1
                    THEN State(s, "read_address", AddressLength(s), a, 0, NoBits, m)
                    ELSE State(s, "write_address", AddressLength(s), a, 0, NoBits, m)
<1>1. OneBit \in [0 .. 15 -> Bit] /\ OneBit[6] = 1 /\ OneBit[7] = 0
  BY DEF OneBit, Put, NoBits, Bit
<1>2. Put(OneBit, 7, bit)[6] = 1 /\ Put(OneBit, 7, bit)[7] = bit
  BY <1>1 DEF Put, Bit
<1>3. ASSUME NEW state, state = State(s, "base", l, a, 0, NoBits, m)
      PROVE  WriteEeprom(state, 1) = State(s, "base", l, a, 1, OneBit, m)
  <2>1. IsState(state, s, "base", l, a, 0, NoBits, m)
    BY <1>3, StateIs
  <2>2. WriteEeprom(state, 1) = OpCode(state, 1)
    BY <2>1 DEF WriteEeprom, IsState, IsChip
  <2>3. Put(state.chip.buffer, 6 + state.chip.counter, 1) = OneBit
    BY <2>1 DEF OneBit, IsState, IsChip
  <2>4. IsState(OpCode(state, 1), s, "base", l, a, 1, OneBit, m)
    BY <2>1, <2>3 DEF OpCode, IsState, IsChip
  <2>. QED BY <2>2, <2>4, StateIs
<1>4. ASSUME NEW state, state = State(s, "base", l, a, 1, OneBit, m)
      PROVE  WriteEeprom(state, bit)
               = IF bit = 1
                   THEN State(s, "read_address", AddressLength(s), a, 0, NoBits, m)
                   ELSE State(s, "write_address", AddressLength(s), a, 0, NoBits, m)
  <2>1. IsState(state, s, "base", l, a, 1, OneBit, m)
    BY <1>4, StateIs
  <2>2. WriteEeprom(state, bit) = OpCode(state, bit)
    BY <2>1 DEF WriteEeprom, IsState, IsChip
  <2>3. Put(state.chip.buffer, 6 + state.chip.counter, bit) = Put(OneBit, 7, bit)
    BY <2>1 DEF IsState, IsChip
  <2>. DEFINE buffer == Put(state.chip.buffer, 6 + state.chip.counter, bit)
              mode == CASE buffer[6] = 1 /\ buffer[7] = 0 -> "write_address"
                        [] buffer[6] = 1 /\ buffer[7] = 1 -> "read_address"
                        [] OTHER -> state.chip.mode
              chip == [state.chip EXCEPT !.addressLength = AddressLength(state.chip.size),
                                         !.counter = 0, !.buffer = NoBits, !.mode = mode]
  <2>4. OpCode(state, bit) = [state EXCEPT !.chip = chip]
    BY <2>1 DEF OpCode, IsState, IsChip
  <2>7. mode = IF bit = 1 THEN "read_address" ELSE "write_address"
    BY <1>2, <2>3 DEF Bit
  <2>. HIDE DEF mode
  <2>5. IsChip(chip, s, mode, AddressLength(s), a, 0, NoBits)
    BY <2>1 DEF IsState, IsChip
  <2>. HIDE DEF chip
  <2>6. IsState([state EXCEPT !.chip = chip], s, mode, AddressLength(s), a, 0, NoBits, m)
    BY <2>1, <2>5 DEF IsState
  <2>8. WriteEeprom(state, bit) = State(s, mode, AddressLength(s), a, 0, NoBits, m)
    BY <2>2, <2>4, <2>6, StateIs
  <2>. HIDE DEF buffer
  <2>. QED BY <2>7, <2>8
<1>. QED BY <1>3, <1>4

\* The next bit of an address is put behind the others.
LEMMA PrefixNext ==
    ASSUME NEW block \in ChipBlocks, NEW k \in 0 .. Width - 1
    PROVE  /\ Put(Prefix(block, k), k, AddressBits(block)[k + 1]) = Prefix(block, k + 1)
           /\ AddressBits(block)[k + 1] \in Bit
           /\ Prefix(block, 0) = NoBits
<1>1. block \in Nat /\ Width \in {6, 14}
  BY BlockFits
<1>2. AddressBits(block) = [i \in 1 .. Width |-> BitOf(block, Width - i)]
  BY DEF AddressBits, Width
<1>3. AddressBits(block)[k + 1] \in Bit
  <2>1. k + 1 \in 1 .. Width /\ Width - (k + 1) \in 0 .. 13
    BY <1>1
  <2>2. BitOf(block, Width - (k + 1)) \in Bit
    BY <1>1, <2>1, Halves
  <2>. QED BY <1>2, <2>1, <2>2
<1>. DEFINE bit == AddressBits(block)[k + 1]
<1>4. Put(Prefix(block, k), k, bit) = Prefix(block, k + 1)
  <2>1. bit \in {0, 1} /\ k \in 0 .. 15
    BY <1>1, <1>3 DEF Bit
  <2>. DEFINE address == AddressBits(block)
  <2>2. bit = address[k + 1]
    OBVIOUS
  <2>. HIDE DEF bit, address
  <2>3. Put([j \in 0 .. 15 |-> IF j < k THEN address[j + 1] ELSE 0], k, bit)
          = [j \in 0 .. 15 |-> IF j < k + 1 THEN address[j + 1] ELSE 0]
    BY <2>1, <2>2 DEF Put
  <2>. QED BY <2>3 DEF Prefix, address
<1>5. Prefix(block, 0) = NoBits
  BY DEF Prefix, NoBits
<1>. QED BY <1>3, <1>4, <1>5

\* A bit of an address: one before the last, or the last one
LEMMA AddressSteps ==
    ASSUME NEW block \in ChipBlocks, NEW k \in 0 .. Width - 1, NEW m, NEW a,
           NEW s, s = IF device = "large" THEN 1024 ELSE 64,
           NEW mode \in {"read_address", "write_address"}
    PROVE  WriteEeprom(State(s, mode, Width, a, k, Prefix(block, k), m),
                       AddressBits(block)[k + 1]) =
             IF k + 1 # Width
               THEN State(s, mode, Width, a, k + 1, Prefix(block, k + 1), m)
             ELSE IF mode = "read_address"
               THEN State(s, "read_footer", Width, block, 0, NoBits, m)
               ELSE State(s, "write", Width, block, 0, NoBits, Store(m, block, Cleared))
<1>. DEFINE bit == AddressBits(block)[k + 1]
<1>1. Put(Prefix(block, k), k, bit) = Prefix(block, k + 1)
  BY PrefixNext
<1>2. ASSUME k + 1 = Width, NEW chip, chip.size = s
      PROVE  Received(chip, Prefix(block, k + 1)) = block
  <2>1. Width \in {6, 14}
    BY BlockFits
  <2>2. \A j \in 0 .. Width - 1 : Prefix(block, k + 1)[j] = AddressBits(block)[j + 1]
    BY <1>2, <2>1 DEF Prefix
  <2>3. \A j \in Width .. 15 : Prefix(block, k + 1)[j] = 0
    BY <1>2, <2>1 DEF Prefix
  <2>. QED BY <1>2, <2>2, <2>3, ReceivedIs
<1>3. PICK state : state = State(s, mode, Width, a, k, Prefix(block, k), m)
  OBVIOUS
<1>4. IsState(state, s, mode, Width, a, k, Prefix(block, k), m)
  BY <1>3, StateIs
<1>5. WriteEeprom(state, bit) = AddressBit(state, bit)
  BY <1>4 DEF WriteEeprom, IsState, IsChip
<1>6. CASE k + 1 # Width
  <2>1. IsState(AddressBit(state, bit), s, mode, Width, a, k + 1, Prefix(block, k + 1), m)
    <3>. HIDE DEF bit
    <3>. QED BY <1>1, <1>4, <1>6 DEF AddressBit, IsState, IsChip
  <2>2. AddressBit(state, bit) = State(s, mode, Width, a, k + 1, Prefix(block, k + 1), m)
    BY <2>1, StateIs
  <2>. QED BY <1>3, <1>5, <1>6, <2>2
<1>7. CASE k + 1 = Width
  <2>1. Received(state.chip, Put(state.chip.buffer, state.chip.counter, bit)) = block
    BY <1>1, <1>2, <1>4, <1>7 DEF IsState, IsChip
  <2>2. IsState(AddressBit(state, bit), s,
                IF mode = "read_address" THEN "read_footer" ELSE "write", Width, block, 0,
                NoBits, IF mode = "read_address" THEN m ELSE Store(m, block, Cleared))
    <3>. HIDE DEF bit
    <3>. QED BY <1>4, <1>7, <2>1 DEF AddressBit, IsState, IsChip
  <2>3. AddressBit(state, bit) =
          State(s, IF mode = "read_address" THEN "read_footer" ELSE "write", Width, block, 0,
                NoBits, IF mode = "read_address" THEN m ELSE Store(m, block, Cleared))
    BY <2>2, StateIs
  <2>. QED BY <1>3, <1>5, <1>7, <2>3
<1>. QED BY <1>6, <1>7

\* One bit of a block, and what is left of a command.
LEMMA DataSteps ==
    ASSUME NEW block \in ChipBlocks, NEW k \in 0 .. 63, NEW data \in Contents,
           NEW m, ChipBlocks = DOMAIN m, NEW s, NEW l
    PROVE  WriteEeprom(State(s, "write", l, block, k, NoBits, Store(m, block, Filled(data, k))),
                       data[k + 1]) =
             IF k = 63
               THEN State(s, "write_footer", l, block, 0, NoBits, Store(m, block, data))
               ELSE State(s, "write", l, block, k + 1, NoBits, Store(m, block, Filled(data, k + 1)))
<1>. DEFINE bit == data[k + 1]
            old == Store(m, block, Filled(data, k))
            new == Store(m, block, Filled(data, k + 1))
<1>1. BlockBits = 64 /\ bit \in {0, 1} /\ k + 1 \in 1 .. 64
  BY DEF BlockBits, Bit, Contents
<1>2. DOMAIN old = ChipBlocks /\ old[block] = Filled(data, k)
  BY DEF Store
<1>3. [Filled(data, k) EXCEPT ![k + 1] = IF bit = 1 THEN 1 ELSE @] = Filled(data, k + 1)
  BY <1>1 DEF Filled
<1>4. Store(old, block, Filled(data, k + 1)) = new
  BY DEF Store
<1>. HIDE DEF bit, old, new
<1>5. PICK state : state = State(s, "write", l, block, k, NoBits, old)
  OBVIOUS
<1>6. IsState(state, s, "write", l, block, k, NoBits, old)
  BY <1>5, StateIs
<1>7. WriteEeprom(state, bit) = DataBit(state, bit)
  BY <1>6 DEF WriteEeprom, IsState, IsChip
<1>8. [state.memory[state.chip.address] EXCEPT
         ![state.chip.counter + 1] = IF bit = 1 THEN 1 ELSE @] = Filled(data, k + 1)
  BY <1>2, <1>3, <1>6 DEF IsState, IsChip
<1>. DEFINE mode == IF k = 63 THEN "write_footer" ELSE "write"
            counter == IF k = 63 THEN 0 ELSE k + 1
<1>9. IsState(DataBit(state, bit), s, mode, l, block, counter, NoBits, new)
  <2>. DEFINE after == DataBit(state, bit)
  <2>1. after.memory = new
    BY <1>2, <1>4, <1>6, <1>8 DEF DataBit, IsState, IsChip
  <2>2. IsChip(after.chip, s, mode, l, block, counter, NoBits)
    <3>1. CASE k = 63
      <4>. DEFINE chip == [state.chip EXCEPT !.counter = 0, !.mode = "write_footer"]
      <4>1. after.chip = chip
        BY <1>1, <1>6, <3>1 DEF DataBit, IsState, IsChip
      <4>2. mode = "write_footer" /\ counter = 0
        BY <3>1
      <4>3. IsChip(chip, s, "write_footer", l, block, 0, NoBits)
        BY <1>6 DEF IsState, IsChip
      <4>. HIDE DEF after, mode, counter, chip
      <4>. QED BY <4>1, <4>2, <4>3
    <3>2. CASE k # 63
      <4>1. after.chip = [state.chip EXCEPT !.counter = k + 1]
        BY <1>1, <1>6, <3>2 DEF DataBit, IsState, IsChip
      <4>. HIDE DEF after
      <4>. QED BY <1>6, <3>2, <4>1 DEF IsState, IsChip
    <3>. QED BY <3>1, <3>2
  <2>3. after = [x \in DOMAIN after |-> after[x]] /\ DOMAIN after = {"chip", "memory"}
    BY DEF DataBit
  <2>. HIDE DEF after, mode, counter
  <2>4. IsState(after, s, mode, l, block, counter, NoBits, new)
    BY <2>1, <2>2, <2>3 DEF IsState
  <2>. QED BY <2>4 DEF after
<1>10. k = 63 => Filled(data, k + 1) = data
  BY DEF Filled, BlockBits, Contents
<1>11. WriteEeprom(state, bit) = State(s, mode, l, block, counter, NoBits, new)
  BY <1>7, <1>9, StateIs
<1>12. CASE k = 63
  BY <1>5, <1>10, <1>11, <1>12 DEF bit, old, new
<1>13. CASE k # 63
  BY <1>5, <1>11, <1>13 DEF bit, old, new
<1>. QED BY <1>12, <1>13

\* The bit behind an address or a block
LEMMA FooterStep ==
    ASSUME NEW mode \in {"read_footer", "write_footer"}, NEW bit,
           NEW m, NEW s, NEW l, NEW a, NEW c
    PROVE  WriteEeprom(State(s, mode, l, a, c, NoBits, m), bit) =
             State(s, IF mode = "read_footer" THEN "read_header" ELSE "base", l, a, 0, NoBits, m)
<1>1. PICK state : state = State(s, mode, l, a, c, NoBits, m)
  OBVIOUS
<1>2. IsState(state, s, mode, l, a, c, NoBits, m)
  BY <1>1, StateIs
<1>3. WriteEeprom(state, bit) = Footer(state)
  BY <1>2 DEF WriteEeprom, IsState, IsChip
<1>. DEFINE next == IF state.chip.mode = "read_footer" THEN "read_header" ELSE "base"
            chip == [state.chip EXCEPT !.mode = next, !.counter = 0]
<1>4. Footer(state) = [state EXCEPT !.chip = chip]
  BY DEF Footer
<1>7. next = IF mode = "read_footer" THEN "read_header" ELSE "base"
  BY <1>2 DEF IsState, IsChip
<1>. HIDE DEF next
<1>5. IsChip(chip, s, next, l, a, 0, NoBits)
  BY <1>2 DEF IsState, IsChip
<1>. HIDE DEF chip
<1>6. IsState([state EXCEPT !.chip = chip], s, next, l, a, 0, NoBits, m)
  BY <1>2, <1>5 DEF IsState
<1>. QED BY <1>1, <1>3, <1>4, <1>6, <1>7, StateIs

-----------------------------------------------------------------------------
\* What a command does to the chip.

ChipSize == IF device = "large" THEN 1024 ELSE 64

\* Two sequences of bits put together: the first one, and behind it the second one
LEMMA Joined ==
    ASSUME NEW s1 \in Seq(Bit), NEW s2 \in Seq(Bit)
    PROVE  /\ s1 \o s2 \in Seq(Bit) /\ Len(s1 \o s2) = Len(s1) + Len(s2)
           /\ \A i \in 1 .. Len(s1) : (s1 \o s2)[i] = s1[i]
           /\ \A i \in 1 .. Len(s2) : (s1 \o s2)[Len(s1) + i] = s2[i]
<1>1. /\ s1 \o s2 \in Seq(Bit) /\ Len(s1 \o s2) = Len(s1) + Len(s2)
      /\ \A i \in 1 .. Len(s1) + Len(s2) :
           (s1 \o s2)[i] = IF i <= Len(s1) THEN s1[i] ELSE s2[i - Len(s1)]
  BY ConcatProperties
<1>2. ASSUME NEW i \in 1 .. Len(s2)
      PROVE  /\ Len(s1) + i \in 1 .. Len(s1) + Len(s2) /\ ~(Len(s1) + i <= Len(s1))
             /\ (Len(s1) + i) - Len(s1) = i
  OBVIOUS
<1>. QED BY <1>1, <1>2

\* A block is a sequence of bits, as long as Contents says.
LEMMA ContentsAreBits ==
    ASSUME NEW data \in Contents
    PROVE  data \in Seq(Bit) /\ Len(data) = 64
<1>1. ASSUME NEW n \in Nat, NEW s \in [1 .. n -> Bit]
      PROVE  s \in Seq(Bit) /\ Len(s) = n
  OBVIOUS
<1>2. data \in [1 .. 64 -> Bit] /\ 64 \in Nat
  BY DEF BlockBits, Contents
<1>. QED BY <1>1, <1>2

\* A bit, an operation code and a block as sequences of bits
LEMMA BitSequences ==
    ASSUME NEW bit \in Bit, NEW other \in Bit, NEW block \in ChipBlocks,
           NEW data \in Contents
    PROVE  /\ <<bit>> \in Seq(Bit) /\ Len(<<bit>>) = 1
           /\ <<bit, other>> \in Seq(Bit) /\ Len(<<bit, other>>) = 2
           /\ AddressBits(block) \in Seq(Bit) /\ Len(AddressBits(block)) = Width
           /\ data \in Seq(Bit) /\ Len(data) = 64
<1>1. Width \in {6, 14} /\ block \in Nat
  BY BlockFits
<1>. DEFINE address == AddressBits(block)
<1>2. address \in [1 .. Width -> Bit]
  <2>1. address = [i \in 1 .. Width |-> BitOf(block, Width - i)]
    BY DEF AddressBits, Width
  <2>2. \A i \in 1 .. Width : Width - i \in 0 .. 13
    BY <1>1
  <2>3. \A i \in 1 .. Width : BitOf(block, Width - i) \in Bit
    BY <1>1, <2>2, Halves
  <2>. QED BY <2>1, <2>3
<1>. HIDE DEF address
<1>3. address \in Seq(Bit) /\ Len(address) = Width
  BY <1>1, <1>2
<1>. QED BY <1>3, ContentsAreBits DEF address

\* The bits of a write command, by their places
LEMMA WriteCommandIs ==
    ASSUME NEW block \in ChipBlocks, NEW data \in Contents
    PROVE  LET bits == WriteCommand(block, data)
           IN /\ Len(bits) = Width + 67
              /\ bits[1] = 1 /\ bits[2] = 0
              /\ \A k \in 0 .. Width - 1 : bits[k + 3] = AddressBits(block)[k + 1]
              /\ \A k \in 0 .. 63 : bits[Width + k + 3] = data[k + 1]
<1>. DEFINE opcode == <<1, 0>>
            address == AddressBits(block)
            last == <<0>>
            first == opcode \o address
            second == first \o data
            bits == second \o last
<1>1. Width \in {6, 14}
  BY BlockFits
<1>2. /\ opcode \in Seq(Bit) /\ Len(opcode) = 2 /\ opcode[1] = 1 /\ opcode[2] = 0
      /\ address \in Seq(Bit) /\ Len(address) = Width
      /\ data \in Seq(Bit) /\ Len(data) = 64
      /\ last \in Seq(Bit) /\ Len(last) = 1
  BY BitSequences DEF Bit
<1>3. bits = WriteCommand(block, data)
  BY DEF WriteCommand
<1>. HIDE DEF opcode, address, last
<1>4. /\ first \in Seq(Bit) /\ Len(first) = 2 + Width
      /\ \A i \in 1 .. 2 : first[i] = opcode[i]
      /\ \A i \in 1 .. Width : first[2 + i] = address[i]
  <2>1. /\ first \in Seq(Bit) /\ Len(first) = Len(opcode) + Len(address)
        /\ \A i \in 1 .. Len(opcode) : first[i] = opcode[i]
        /\ \A i \in 1 .. Len(address) : first[Len(opcode) + i] = address[i]
    BY <1>2, Joined, Zenon
  <2>. HIDE DEF first
  <2>. QED BY <1>2, <2>1
<1>. HIDE DEF first
<1>5. /\ second \in Seq(Bit) /\ Len(second) = 2 + Width + 64
      /\ \A i \in 1 .. 2 + Width : second[i] = first[i]
      /\ \A i \in 1 .. 64 : second[2 + Width + i] = data[i]
  <2>1. /\ second \in Seq(Bit) /\ Len(second) = Len(first) + Len(data)
        /\ \A i \in 1 .. Len(first) : second[i] = first[i]
        /\ \A i \in 1 .. Len(data) : second[Len(first) + i] = data[i]
    BY <1>2, <1>4, Joined, Zenon
  <2>. HIDE DEF second
  <2>. QED BY <1>2, <1>4, <2>1
<1>. HIDE DEF second
<1>6. /\ Len(bits) = 2 + Width + 64 + 1
      /\ \A i \in 1 .. 2 + Width + 64 : bits[i] = second[i]
  <2>1. /\ bits \in Seq(Bit) /\ Len(bits) = Len(second) + Len(last)
        /\ \A i \in 1 .. Len(second) : bits[i] = second[i]
        /\ \A i \in 1 .. Len(last) : bits[Len(second) + i] = last[i]
    BY <1>2, <1>5, Joined, Zenon
  <2>. HIDE DEF bits
  <2>. QED BY <1>2, <1>5, <2>1
<1>. HIDE DEF bits
<1>7. bits[1] = 1 /\ bits[2] = 0
  <2>1. \A i \in {1, 2} : i \in 1 .. 2 /\ i \in 1 .. 2 + Width /\ i \in 1 .. 2 + Width + 64
    BY <1>1
  <2>2. \A i \in {1, 2} : bits[i] = opcode[i]
    BY <1>4, <1>5, <1>6, <2>1
  <2>. QED BY <1>2, <2>2
<1>8. ASSUME NEW k \in 0 .. Width - 1
      PROVE  bits[k + 3] = address[k + 1]
  <2>1. k + 3 = 2 + (k + 1) /\ k + 1 \in 1 .. Width /\ k + 3 \in 1 .. 2 + Width
        /\ k + 3 \in 1 .. 2 + Width + 64
    BY <1>1
  <2>2. bits[k + 3] = second[k + 3] /\ second[k + 3] = first[k + 3]
    BY <1>5, <1>6, <2>1
  <2>3. first[2 + (k + 1)] = address[k + 1]
    BY <1>4, <2>1
  <2>. QED BY <2>1, <2>2, <2>3
<1>9. ASSUME NEW k \in 0 .. 63
      PROVE  bits[Width + k + 3] = data[k + 1]
  <2>1. Width + k + 3 = 2 + Width + (k + 1) /\ k + 1 \in 1 .. 64
        /\ Width + k + 3 \in 1 .. 2 + Width + 64
    BY <1>1
  <2>. QED BY <1>5, <1>6, <2>1
<1>10. Len(bits) = Width + 67
  BY <1>1, <1>6
<1>. QED BY <1>3, <1>7, <1>8, <1>9, <1>10 DEF address

\* The bits of a read command, by their places
LEMMA ReadCommandIs ==
    ASSUME NEW block \in ChipBlocks
    PROVE  LET bits == ReadCommand(block)
           IN /\ Len(bits) = Width + 3
              /\ bits[1] = 1 /\ bits[2] = 1
              /\ \A k \in 0 .. Width - 1 : bits[k + 3] = AddressBits(block)[k + 1]
<1>. DEFINE opcode == <<1, 1>>
            address == AddressBits(block)
            last == <<0>>
            first == opcode \o address
            bits == first \o last
<1>1. Width \in {6, 14}
  BY BlockFits
<1>2. /\ opcode \in Seq(Bit) /\ Len(opcode) = 2 /\ opcode[1] = 1 /\ opcode[2] = 1
      /\ address \in Seq(Bit) /\ Len(address) = Width
      /\ last \in Seq(Bit) /\ Len(last) = 1
  <2>1. Cleared \in Contents
    BY DEF Cleared, Bit, Contents
  <2>. QED BY <2>1, BitSequences DEF Bit
<1>3. bits = ReadCommand(block)
  BY DEF ReadCommand
<1>. HIDE DEF opcode, address, last
<1>4. /\ first \in Seq(Bit) /\ Len(first) = 2 + Width
      /\ \A i \in 1 .. 2 : first[i] = opcode[i]
      /\ \A i \in 1 .. Width : first[2 + i] = address[i]
  <2>1. /\ first \in Seq(Bit) /\ Len(first) = Len(opcode) + Len(address)
        /\ \A i \in 1 .. Len(opcode) : first[i] = opcode[i]
        /\ \A i \in 1 .. Len(address) : first[Len(opcode) + i] = address[i]
    BY <1>2, Joined, Zenon
  <2>. HIDE DEF first
  <2>. QED BY <1>2, <2>1
<1>. HIDE DEF first
<1>5. /\ Len(bits) = 2 + Width + 1
      /\ \A i \in 1 .. 2 + Width : bits[i] = first[i]
  <2>1. /\ bits \in Seq(Bit) /\ Len(bits) = Len(first) + Len(last)
        /\ \A i \in 1 .. Len(first) : bits[i] = first[i]
        /\ \A i \in 1 .. Len(last) : bits[Len(first) + i] = last[i]
    BY <1>2, <1>4, Joined, Zenon
  <2>. HIDE DEF bits
  <2>. QED BY <1>2, <1>4, <2>1
<1>. HIDE DEF bits
<1>6. bits[1] = 1 /\ bits[2] = 1
  <2>1. \A i \in {1, 2} : bits[i] = opcode[i]
    BY <1>1, <1>4, <1>5
  <2>. QED BY <1>2, <2>1
<1>7. ASSUME NEW k \in 0 .. Width - 1
      PROVE  bits[k + 3] = address[k + 1]
  <2>1. k + 3 = 2 + (k + 1) /\ k + 1 \in 1 .. Width /\ k + 3 \in 1 .. 2 + Width
    BY <1>1
  <2>. QED BY <1>4, <1>5, <2>1
<1>8. Len(bits) = Width + 3
  BY <1>1, <1>5
<1>. QED BY <1>3, <1>6, <1>7, <1>8 DEF address

\* The length of a command tells the chip's size.
LEMMA SizeTold ==
    ASSUME NEW block \in ChipBlocks, NEW n \in {Width + 3, Width + 67},
           NEW s, device # "large" => s = 64, NEW l, NEW a, NEW m
    PROVE  TellSize(State(s, "base", l, a, 0, NoBits, m), n)
             = State(ChipSize, "base", l, a, 0, NoBits, m)
<1>1. /\ device = "large" => Width = 14
      /\ device # "large" => Width = 6
  BY BlockFits
<1>2. CASE device = "large"
  <2>1. LongCommand(n) /\ ChipSize = 1024
    BY <1>1, <1>2 DEF LongCommand, ChipSize
  <2>2. PICK state : state = State(s, "base", l, a, 0, NoBits, m)
    OBVIOUS
  <2>3. IsState(state, s, "base", l, a, 0, NoBits, m)
    BY <2>2, StateIs
  <2>. DEFINE after == [state EXCEPT !.chip.size = 1024]
  <2>4. IsState(after, 1024, "base", l, a, 0, NoBits, m)
    BY <2>3 DEF IsState, IsChip
  <2>. HIDE DEF after
  <2>5. after = State(1024, "base", l, a, 0, NoBits, m)
    BY <2>4, StateIs
  <2>. QED BY <2>1, <2>2, <2>5 DEF after, TellSize
<1>3. CASE device # "large"
  BY <1>1, <1>3 DEF LongCommand, ChipSize, TellSize
<1>. QED BY <1>2, <1>3

\* A write leaves the block as it was sent, and the chip waiting for a command.
LEMMA WriteSent ==
    ASSUME NEW block \in ChipBlocks, NEW data \in Contents,
           NEW m, DOMAIN m = ChipBlocks,
           NEW s, device # "large" => s = 64, NEW l, NEW a
    PROVE  Send(State(s, "base", l, a, 0, NoBits, m), WriteCommand(block, data))
             = State(ChipSize, "base", Width, block, 0, NoBits, Store(m, block, data))
<1>. DEFINE z == ChipSize
            w == Width
            n == w + 67
            bits == WriteCommand(block, data)
            f == [i \in 0 .. n |->
                    IF i = 0 THEN State(z, "base", l, a, 0, NoBits, m)
                    ELSE IF i = 1 THEN State(z, "base", l, a, 1, OneBit, m)
                    ELSE IF i < w + 2
                      THEN State(z, "write_address", w, a, i - 2, Prefix(block, i - 2), m)
                    ELSE IF i < w + 66
                      THEN State(z, "write", w, block, i - w - 2, NoBits,
                                 Store(m, block, Filled(data, i - w - 2)))
                    ELSE IF i = w + 66
                      THEN State(z, "write_footer", w, block, 0, NoBits, Store(m, block, data))
                    ELSE State(z, "base", w, block, 0, NoBits, Store(m, block, data))]
<1>1. w \in {6, 14} /\ w = AddressLength(z) /\ z = IF device = "large" THEN 1024 ELSE 64
  BY BlockFits DEF Width, AddressLength, ChipSize
<1>2. /\ Len(bits) = n /\ bits[1] = 1 /\ bits[2] = 0
      /\ \A k \in 0 .. w - 1 : bits[k + 3] = AddressBits(block)[k + 1]
      /\ \A k \in 0 .. 63 : bits[w + k + 3] = data[k + 1]
  BY WriteCommandIs
<1>3. f[0] = TellSize(State(s, "base", l, a, 0, NoBits, m), n)
  <2>1. f[0] = State(z, "base", l, a, 0, NoBits, m)
    BY <1>1
  <2>2. n \in {Width + 3, Width + 67}
    OBVIOUS
  <2>. HIDE DEF f, n
  <2>. QED BY <2>1, <2>2, SizeTold
<1>4. Filled(data, 0) = Cleared /\ Filled(data, 64) = data
  BY DEF Filled, Cleared, BlockBits, Contents
<1>5. Prefix(block, 0) = NoBits
  <2>1. 0 \in 0 .. Width - 1
    BY <1>1
  <2>. QED BY <2>1, PrefixNext
<1>. HIDE DEF bits, z
<1>6. f[1] = WriteEeprom(f[0], bits[1])
  <2>1. f[0] = State(z, "base", l, a, 0, NoBits, m) /\ f[1] = State(z, "base", l, a, 1, OneBit, m)
    BY <1>1
  <2>2. 0 \in Bit
    BY DEF Bit
  <2>. HIDE DEF f
  <2>3. WriteEeprom(State(z, "base", l, a, 0, NoBits, m), 1)
          = State(z, "base", l, a, 1, OneBit, m)
    BY <2>2, OpCodeSteps
  <2>4. bits[1] = 1
    BY <1>2
  <2>. QED BY <2>1, <2>3, <2>4
<1>7. f[2] = WriteEeprom(f[1], bits[2])
  <2>1. /\ f[1] = State(z, "base", l, a, 1, OneBit, m)
        /\ f[2] = State(z, "write_address", w, a, 0, Prefix(block, 0), m)
    BY <1>1
  <2>2. 0 \in Bit
    BY DEF Bit
  <2>. HIDE DEF f
  <2>3. WriteEeprom(State(z, "base", l, a, 1, OneBit, m), 0)
          = State(z, "write_address", AddressLength(z), a, 0, NoBits, m)
    BY <2>2, OpCodeSteps
  <2>4. bits[2] = 0 /\ w = AddressLength(z)
    BY <1>1, <1>2
  <2>5. State(z, "write_address", AddressLength(z), a, 0, NoBits, m)
          = State(z, "write_address", w, a, 0, Prefix(block, 0), m)
    BY <1>5, <2>4
  <2>. QED BY <2>1, <2>3, <2>4, <2>5
<1>8. ASSUME NEW k \in 0 .. w - 1
      PROVE  f[k + 3] = WriteEeprom(f[k + 2], bits[k + 3])
  <2>. DEFINE bit == AddressBits(block)[k + 1]
  <2>1. f[k + 2] = State(z, "write_address", w, a, k, Prefix(block, k), m)
    BY <1>1
  <2>2. WriteEeprom(State(z, "write_address", w, a, k, Prefix(block, k), m), bit)
          = IF k + 1 # w THEN State(z, "write_address", w, a, k + 1, Prefix(block, k + 1), m)
                         ELSE State(z, "write", w, block, 0, NoBits, Store(m, block, Cleared))
    <3>1. "write_address" \in {"read_address", "write_address"}
      OBVIOUS
    <3>. HIDE DEF f, bit
    <3>2. WriteEeprom(State(z, "write_address", w, a, k, Prefix(block, k), m),
                      AddressBits(block)[k + 1])
          = IF k + 1 # w THEN State(z, "write_address", w, a, k + 1, Prefix(block, k + 1), m)
            ELSE IF "write_address" = "read_address"
               THEN State(z, "read_footer", Width, block, 0, NoBits, m)
               ELSE State(z, "write", w, block, 0, NoBits, Store(m, block, Cleared))
      BY <1>1, <3>1, AddressSteps
    <3>. QED BY <3>2 DEF bit
  <2>3. bits[k + 3] = bit
    BY <1>2
  <2>. HIDE DEF bit
  <2>4. CASE k + 1 # w
    <3>1. f[k + 3] = State(z, "write_address", w, a, k + 1, Prefix(block, k + 1), m)
      <4>1. k + 3 \in 0 .. n /\ k + 3 < w + 2 /\ k + 3 # 0 /\ k + 3 # 1 /\ (k + 3) - 2 = k + 1
        BY <1>1, <2>4
      <4>. QED BY <4>1
    <3>. HIDE DEF f
    <3>. QED BY <2>1, <2>2, <2>3, <2>4, <3>1
  <2>5. CASE k + 1 = w
    <3>1. f[k + 3] = State(z, "write", w, block, 0, NoBits, Store(m, block, Filled(data, 0)))
      <4>1. k + 3 \in 0 .. n /\ ~(k + 3 < w + 2) /\ k + 3 # 0 /\ k + 3 # 1 /\ k + 3 < w + 66
            /\ (k + 3) - w - 2 = 0
        BY <1>1, <2>5
      <4>. QED BY <4>1
    <3>. HIDE DEF f
    <3>. QED BY <1>4, <2>1, <2>2, <2>3, <2>5, <3>1
  <2>. QED BY <2>4, <2>5
<1>9. ASSUME NEW k \in 0 .. 63
      PROVE  f[w + k + 3] = WriteEeprom(f[w + k + 2], bits[w + k + 3])
  <2>1. f[w + k + 2] = State(z, "write", w, block, k, NoBits, Store(m, block, Filled(data, k)))
    <3>1. w + k + 2 \in 0 .. n /\ ~(w + k + 2 < w + 2) /\ w + k + 2 # 0 /\ w + k + 2 # 1
          /\ w + k + 2 < w + 66 /\ (w + k + 2) - w - 2 = k
      BY <1>1
    <3>. QED BY <3>1
  <2>2. f[w + k + 3] =
          IF k = 63
            THEN State(z, "write_footer", w, block, 0, NoBits, Store(m, block, data))
            ELSE State(z, "write", w, block, k + 1, NoBits, Store(m, block, Filled(data, k + 1)))
    <3>1. /\ w + k + 3 \in 0 .. n /\ ~(w + k + 3 < w + 2) /\ w + k + 3 # 0 /\ w + k + 3 # 1
          /\ k # 63 => w + k + 3 < w + 66 /\ (w + k + 3) - w - 2 = k + 1
          /\ k = 63 => w + k + 3 = w + 66
      BY <1>1
    <3>2. CASE k = 63
      BY <3>1, <3>2
    <3>3. CASE k # 63
      BY <3>1, <3>3
    <3>. QED BY <3>2, <3>3
  <2>3. bits[w + k + 3] = data[k + 1]
    BY <1>2
  <2>. HIDE DEF f
  <2>4. WriteEeprom(State(z, "write", w, block, k, NoBits, Store(m, block, Filled(data, k))),
                    data[k + 1]) =
          IF k = 63
            THEN State(z, "write_footer", w, block, 0, NoBits, Store(m, block, data))
            ELSE State(z, "write", w, block, k + 1, NoBits, Store(m, block, Filled(data, k + 1)))
    BY DataSteps
  <2>. QED BY <2>1, <2>2, <2>3, <2>4
<1>10. f[w + 67] = WriteEeprom(f[w + 66], bits[w + 67])
  <2>1. f[w + 66] = State(z, "write_footer", w, block, 0, NoBits, Store(m, block, data))
    BY <1>1
  <2>2. f[w + 67] = State(z, "base", w, block, 0, NoBits, Store(m, block, data))
    BY <1>1
  <2>. DEFINE bit == bits[w + 67]
  <2>. HIDE DEF f, bit
  <2>3. WriteEeprom(State(z, "write_footer", w, block, 0, NoBits, Store(m, block, data)), bit)
          = State(z, IF "write_footer" = "read_footer" THEN "read_header" ELSE "base",
                  w, block, 0, NoBits, Store(m, block, data))
    BY FooterStep
  <2>. QED BY <2>1, <2>2, <2>3 DEF bit
<1>11. ASSUME NEW i \in 1 .. n
       PROVE  f[i] = WriteEeprom(f[i - 1], bits[i])
  <2>. HIDE DEF f
  <2>1. \/ i = 1 \/ i = 2
        \/ i - 3 \in 0 .. w - 1 \/ i - w - 3 \in 0 .. 63 \/ i = w + 67
    <3>1. CASE w = 6
      BY <3>1
    <3>2. CASE w = 14
      BY <3>2
    <3>. QED BY <1>1, <3>1, <3>2
  <2>2. CASE i = 1
    BY <1>6, <2>2
  <2>3. CASE i = 2
    BY <1>7, <2>3
  <2>4. CASE i - 3 \in 0 .. w - 1
    <3>1. (i - 3) + 3 = i /\ (i - 3) + 2 = i - 1
      OBVIOUS
    <3>. QED BY <1>8, <2>4, <3>1
  <2>5. CASE i - w - 3 \in 0 .. 63
    <3>1. w + (i - w - 3) + 3 = i /\ w + (i - w - 3) + 2 = i - 1
      BY <1>1
    <3>. QED BY <1>9, <2>5, <3>1
  <2>6. CASE i = w + 67
    <3>1. i - 1 = w + 66
      BY <1>1, <2>6
    <3>. QED BY <1>10, <2>6, <3>1
  <2>. QED BY <2>1, <2>2, <2>3, <2>4, <2>5, <2>6
<1>12. f[n] = State(z, "base", w, block, 0, NoBits, Store(m, block, data)) /\ n \in Nat
  BY <1>1
<1>13. Send(State(s, "base", l, a, 0, NoBits, m), bits) = f[n]
  <2>. DEFINE state == State(s, "base", l, a, 0, NoBits, m)
  <2>. HIDE DEF f, n
  <2>1. Sending(f, state, bits, n)
    BY <1>2, <1>3, <1>11, <1>12 DEF Sending
  <2>. QED BY <2>1, SendIs
<1>. HIDE DEF f
<1>. QED BY <1>12, <1>13 DEF z, bits

\* A request leaves the memory alone, and the chip with an answer to give.
LEMMA RequestSent ==
    ASSUME NEW block \in ChipBlocks, NEW m,
           NEW s, device # "large" => s = 64, NEW l, NEW a
    PROVE  Send(State(s, "base", l, a, 0, NoBits, m), ReadCommand(block))
             = State(ChipSize, "read_header", Width, block, 0, NoBits, m)
<1>. DEFINE z == ChipSize
            w == Width
            n == w + 3
            bits == ReadCommand(block)
            f == [i \in 0 .. n |->
                    IF i = 0 THEN State(z, "base", l, a, 0, NoBits, m)
                    ELSE IF i = 1 THEN State(z, "base", l, a, 1, OneBit, m)
                    ELSE IF i < w + 2
                      THEN State(z, "read_address", w, a, i - 2, Prefix(block, i - 2), m)
                    ELSE IF i = w + 2 THEN State(z, "read_footer", w, block, 0, NoBits, m)
                    ELSE State(z, "read_header", w, block, 0, NoBits, m)]
<1>1. w \in {6, 14} /\ w = AddressLength(z) /\ z = IF device = "large" THEN 1024 ELSE 64
  BY BlockFits DEF Width, AddressLength, ChipSize
<1>2. /\ Len(bits) = n /\ bits[1] = 1 /\ bits[2] = 1
      /\ \A k \in 0 .. w - 1 : bits[k + 3] = AddressBits(block)[k + 1]
  BY ReadCommandIs
<1>3. f[0] = TellSize(State(s, "base", l, a, 0, NoBits, m), n)
  <2>1. f[0] = State(z, "base", l, a, 0, NoBits, m)
    BY <1>1
  <2>2. n \in {Width + 3, Width + 67}
    OBVIOUS
  <2>. HIDE DEF f, n
  <2>. QED BY <2>1, <2>2, SizeTold
<1>5. Prefix(block, 0) = NoBits
  <2>1. 0 \in 0 .. Width - 1
    BY <1>1
  <2>. QED BY <2>1, PrefixNext
<1>. HIDE DEF bits, z
<1>6. f[1] = WriteEeprom(f[0], bits[1])
  <2>1. f[0] = State(z, "base", l, a, 0, NoBits, m) /\ f[1] = State(z, "base", l, a, 1, OneBit, m)
    BY <1>1
  <2>2. 0 \in Bit
    BY DEF Bit
  <2>. HIDE DEF f
  <2>3. WriteEeprom(State(z, "base", l, a, 0, NoBits, m), 1)
          = State(z, "base", l, a, 1, OneBit, m)
    BY <2>2, OpCodeSteps
  <2>4. bits[1] = 1
    BY <1>2
  <2>. QED BY <2>1, <2>3, <2>4
<1>7. f[2] = WriteEeprom(f[1], bits[2])
  <2>1. /\ f[1] = State(z, "base", l, a, 1, OneBit, m)
        /\ f[2] = State(z, "read_address", w, a, 0, Prefix(block, 0), m)
    BY <1>1
  <2>2. 1 \in Bit
    BY DEF Bit
  <2>. HIDE DEF f
  <2>3. WriteEeprom(State(z, "base", l, a, 1, OneBit, m), 1)
          = State(z, "read_address", AddressLength(z), a, 0, NoBits, m)
    BY <2>2, OpCodeSteps
  <2>4. bits[2] = 1 /\ w = AddressLength(z)
    BY <1>1, <1>2
  <2>5. State(z, "read_address", AddressLength(z), a, 0, NoBits, m)
          = State(z, "read_address", w, a, 0, Prefix(block, 0), m)
    BY <1>5, <2>4
  <2>. QED BY <2>1, <2>3, <2>4, <2>5
<1>8. ASSUME NEW k \in 0 .. w - 1
      PROVE  f[k + 3] = WriteEeprom(f[k + 2], bits[k + 3])
  <2>. DEFINE bit == AddressBits(block)[k + 1]
  <2>1. f[k + 2] = State(z, "read_address", w, a, k, Prefix(block, k), m)
    BY <1>1
  <2>2. WriteEeprom(State(z, "read_address", w, a, k, Prefix(block, k), m), bit)
          = IF k + 1 # w THEN State(z, "read_address", w, a, k + 1, Prefix(block, k + 1), m)
                         ELSE State(z, "read_footer", w, block, 0, NoBits, m)
    <3>1. "read_address" \in {"read_address", "write_address"}
      OBVIOUS
    <3>. HIDE DEF f, bit
    <3>2. WriteEeprom(State(z, "read_address", w, a, k, Prefix(block, k), m),
                      AddressBits(block)[k + 1])
          = IF k + 1 # w THEN State(z, "read_address", w, a, k + 1, Prefix(block, k + 1), m)
            ELSE IF "read_address" = "read_address"
               THEN State(z, "read_footer", Width, block, 0, NoBits, m)
               ELSE State(z, "write", w, block, 0, NoBits, Store(m, block, Cleared))
      BY <1>1, <3>1, AddressSteps
    <3>. QED BY <3>2 DEF bit
  <2>3. bits[k + 3] = bit
    BY <1>2
  <2>. HIDE DEF bit
  <2>4. CASE k + 1 # w
    <3>1. f[k + 3] = State(z, "read_address", w, a, k + 1, Prefix(block, k + 1), m)
      <4>1. k + 3 \in 0 .. n /\ k + 3 < w + 2 /\ k + 3 # 0 /\ k + 3 # 1 /\ (k + 3) - 2 = k + 1
        BY <1>1, <2>4
      <4>. QED BY <4>1
    <3>. HIDE DEF f
    <3>. QED BY <2>1, <2>2, <2>3, <2>4, <3>1
  <2>5. CASE k + 1 = w
    <3>1. f[k + 3] = State(z, "read_footer", w, block, 0, NoBits, m)
      <4>1. k + 3 \in 0 .. n /\ k + 3 = w + 2 /\ k + 3 # 0 /\ k + 3 # 1
        BY <1>1, <2>5
      <4>. QED BY <4>1
    <3>. HIDE DEF f
    <3>. QED BY <2>1, <2>2, <2>3, <2>5, <3>1
  <2>. QED BY <2>4, <2>5
<1>9. f[w + 3] = WriteEeprom(f[w + 2], bits[w + 3])
  <2>1. f[w + 2] = State(z, "read_footer", w, block, 0, NoBits, m)
    BY <1>1
  <2>2. f[w + 3] = State(z, "read_header", w, block, 0, NoBits, m)
    BY <1>1
  <2>. DEFINE bit == bits[w + 3]
  <2>. HIDE DEF f, bit
  <2>3. WriteEeprom(State(z, "read_footer", w, block, 0, NoBits, m), bit)
          = State(z, IF "read_footer" = "read_footer" THEN "read_header" ELSE "base",
                  w, block, 0, NoBits, m)
    BY FooterStep
  <2>. QED BY <2>1, <2>2, <2>3 DEF bit
<1>10. ASSUME NEW i \in 1 .. n
       PROVE  f[i] = WriteEeprom(f[i - 1], bits[i])
  <2>. HIDE DEF f
  <2>1. \/ i = 1 \/ i = 2 \/ i - 3 \in 0 .. w - 1 \/ i = w + 3
    <3>1. CASE w = 6
      BY <3>1
    <3>2. CASE w = 14
      BY <3>2
    <3>. QED BY <1>1, <3>1, <3>2
  <2>2. CASE i = 1
    BY <1>6, <2>2
  <2>3. CASE i = 2
    BY <1>7, <2>3
  <2>4. CASE i - 3 \in 0 .. w - 1
    <3>1. (i - 3) + 3 = i /\ (i - 3) + 2 = i - 1
      OBVIOUS
    <3>. QED BY <1>8, <2>4, <3>1
  <2>5. CASE i = w + 3
    <3>1. i - 1 = w + 2
      BY <1>1, <2>5
    <3>. QED BY <1>9, <2>5, <3>1
  <2>. QED BY <2>1, <2>2, <2>3, <2>4, <2>5
<1>11. f[n] = State(z, "read_header", w, block, 0, NoBits, m) /\ n \in Nat
  BY <1>1
<1>12. Send(State(s, "base", l, a, 0, NoBits, m), bits) = f[n]
  <2>. DEFINE state == State(s, "base", l, a, 0, NoBits, m)
  <2>. HIDE DEF f, n
  <2>1. Sending(f, state, bits, n)
    BY <1>2, <1>3, <1>10, <1>11 DEF Sending
  <2>. QED BY <2>1, SendIs
<1>. HIDE DEF f
<1>. QED BY <1>11, <1>12 DEF z, bits

\* While an answer is read: the chip, the memory and what has been read.
Reading(size, mode, length, address, counter, contents, read) ==
    [chip |-> [size |-> size, mode |-> mode, addressLength |-> length, address |-> address,
               counter |-> counter, buffer |-> NoBits],
     memory |-> contents, answer |-> read]

IsReading(state, size, mode, length, address, counter, contents, read) ==
    /\ state = [x \in DOMAIN state |-> state[x]]
    /\ DOMAIN state = {"chip", "memory", "answer"}
    /\ state.memory = contents /\ state.answer = read
    /\ IsChip(state.chip, size, mode, length, address, counter, NoBits)

\* A state of a read, field by field
LEMMA ReadingIs ==
    ASSUME NEW state, NEW s, NEW m, NEW l, NEW a, NEW c, NEW contents, NEW read
    PROVE  IsReading(state, s, m, l, a, c, contents, read)
             <=> state = Reading(s, m, l, a, c, contents, read)
BY DEF Reading, IsReading, IsChip

\* After i bits of the answer: four that mean nothing, then those of the block.
Answered(contents, block, i) ==
    [j \in 1 .. i |-> IF j <= 4 THEN 0 ELSE contents[block][j - 4]]

\* What has been answered so far grows by the next bit of the answer.
LEMMA AnswerNext ==
    ASSUME NEW m, NEW block, NEW i \in Nat
    PROVE  Append(Answered(m, block, i), IF i < 4 THEN 0 ELSE m[block][i - 3])
             = Answered(m, block, i + 1)
<1>. DEFINE bit == IF i < 4 THEN 0 ELSE m[block][i - 3]
            read == Answered(m, block, i)
<1>1. Len(read) = i /\ i + 1 \in Nat
  BY DEF Answered
<1>2. Append(read, bit) = [j \in 1 .. i + 1 |-> IF j <= i THEN read[j] ELSE bit]
  BY <1>1
<1>3. ASSUME NEW j \in 1 .. i + 1
      PROVE  (IF j <= i THEN read[j] ELSE bit) = IF j <= 4 THEN 0 ELSE m[block][j - 4]
  <2>1. CASE j <= i
    BY <2>1 DEF Answered
  <2>2. CASE j = i + 1
    BY <2>2
  <2>. QED BY <2>1, <2>2
<1>. HIDE DEF bit, read
<1>4. Append(read, bit) = Answered(m, block, i + 1)
  BY <1>2, <1>3 DEF Answered
<1>. QED BY <1>4 DEF bit, read

\* One of the four bits before those of a block
LEMMA HeaderStep ==
    ASSUME NEW i \in 0 .. 3, NEW block, NEW m, NEW s, NEW l
    PROVE  ReadEeprom(Reading(s, "read_header", l, block, i, m, Answered(m, block, i)))
             = IF i = 3
                 THEN Reading(s, "read", l, block, 0, m, Answered(m, block, i + 1))
                 ELSE Reading(s, "read_header", l, block, i + 1, m, Answered(m, block, i + 1))
<1>. DEFINE read == Answered(m, block, i)
            next == Answered(m, block, i + 1)
<1>1. Append(read, 0) = next
  <2>1. i < 4 /\ i \in Nat
    OBVIOUS
  <2>. QED BY <2>1, AnswerNext
<1>. HIDE DEF read, next
<1>2. PICK state : state = Reading(s, "read_header", l, block, i, m, read)
  OBVIOUS
<1>3. IsReading(state, s, "read_header", l, block, i, m, read)
  BY <1>2, ReadingIs
<1>. DEFINE chip == ReadHeader(state.chip)
<1>4. ReadEeprom(state) = [state EXCEPT !.chip = chip, !.answer = Append(state.answer, 0)]
  BY <1>3 DEF ReadEeprom, IsReading, IsChip
<1>5. CASE i = 3
  <2>1. chip = [state.chip EXCEPT !.mode = "read", !.counter = 0]
    BY <1>3, <1>5 DEF ReadHeader, IsReading, IsChip
  <2>. HIDE DEF chip
  <2>2. IsChip(chip, s, "read", l, block, 0, NoBits)
    BY <1>3, <2>1 DEF IsReading, IsChip
  <2>3. IsReading(ReadEeprom(state), s, "read", l, block, 0, m, next)
    BY <1>1, <1>3, <1>4, <2>2 DEF IsReading
  <2>. QED BY <1>2, <1>5, <2>3, ReadingIs DEF read, next
<1>6. CASE i # 3
  <2>1. chip = [state.chip EXCEPT !.counter = i + 1]
    BY <1>3, <1>6 DEF ReadHeader, IsReading, IsChip
  <2>. HIDE DEF chip
  <2>2. IsChip(chip, s, "read_header", l, block, i + 1, NoBits)
    BY <1>3, <2>1 DEF IsReading, IsChip
  <2>3. IsReading(ReadEeprom(state), s, "read_header", l, block, i + 1, m, next)
    BY <1>1, <1>3, <1>4, <2>2 DEF IsReading
  <2>. QED BY <1>2, <1>6, <2>3, ReadingIs DEF read, next
<1>. QED BY <1>5, <1>6

\* One of the bits of a block
LEMMA ReadStep ==
    ASSUME NEW k \in 0 .. 63, NEW block, NEW m, NEW s, NEW l
    PROVE  ReadEeprom(Reading(s, "read", l, block, k, m, Answered(m, block, k + 4)))
             = IF k = 63
                 THEN Reading(s, "base", l, block, 0, m, Answered(m, block, k + 5))
                 ELSE Reading(s, "read", l, block, k + 1, m, Answered(m, block, k + 5))
<1>. DEFINE read == Answered(m, block, k + 4)
            next == Answered(m, block, k + 5)
            bit == m[block][k + 1]
<1>1. Append(read, bit) = next
  <2>1. ~(k + 4 < 4) /\ k + 4 \in Nat /\ (k + 4) - 3 = k + 1 /\ (k + 4) + 1 = k + 5
    OBVIOUS
  <2>2. Append(Answered(m, block, k + 4), IF k + 4 < 4 THEN 0 ELSE m[block][(k + 4) - 3])
          = Answered(m, block, (k + 4) + 1)
    BY <2>1, AnswerNext
  <2>. QED BY <2>1, <2>2
<1>. HIDE DEF read, next
<1>2. PICK state : state = Reading(s, "read", l, block, k, m, read)
  OBVIOUS
<1>3. IsReading(state, s, "read", l, block, k, m, read)
  BY <1>2, ReadingIs
<1>. DEFINE chip == ReadData(state.chip)
<1>4. ReadEeprom(state) = [state EXCEPT !.chip = chip, !.answer = Append(state.answer, bit)]
  BY <1>3 DEF ReadEeprom, IsReading, IsChip
<1>. HIDE DEF bit
<1>5. CASE k = 63
  <2>1. chip = [state.chip EXCEPT !.mode = "base", !.counter = 0]
    BY <1>3, <1>5 DEF ReadData, IsReading, IsChip, BlockBits
  <2>. HIDE DEF chip
  <2>2. IsChip(chip, s, "base", l, block, 0, NoBits)
    BY <1>3, <2>1 DEF IsReading, IsChip
  <2>3. IsReading(ReadEeprom(state), s, "base", l, block, 0, m, next)
    BY <1>1, <1>3, <1>4, <2>2 DEF IsReading
  <2>. QED BY <1>2, <1>5, <2>3, ReadingIs DEF read, next
<1>6. CASE k # 63
  <2>1. chip = [state.chip EXCEPT !.counter = k + 1]
    BY <1>3, <1>6 DEF ReadData, IsReading, IsChip, BlockBits
  <2>. HIDE DEF chip
  <2>2. IsChip(chip, s, "read", l, block, k + 1, NoBits)
    BY <1>3, <2>1 DEF IsReading, IsChip
  <2>3. IsReading(ReadEeprom(state), s, "read", l, block, k + 1, m, next)
    BY <1>1, <1>3, <1>4, <2>2 DEF IsReading
  <2>. QED BY <1>2, <1>6, <2>3, ReadingIs DEF read, next
<1>. QED BY <1>5, <1>6

\* A read of the whole answer returns the block and leaves the chip waiting.
LEMMA AnswerReceived ==
    ASSUME NEW block, NEW m, m[block] \in Contents, NEW s, NEW l
    PROVE  LET read == Receive(State(s, "read_header", l, block, 0, NoBits, m), 4 + BlockBits)
           IN /\ read.chip = State(s, "base", l, block, 0, NoBits, m).chip
              /\ SubSeq(read.answer, 5, 4 + BlockBits) = m[block]
<1>. DEFINE state == State(s, "read_header", l, block, 0, NoBits, m)
            f == [i \in 0 .. 68 |->
                    IF i < 4
                      THEN Reading(s, "read_header", l, block, i, m, Answered(m, block, i))
                    ELSE IF i < 68
                      THEN Reading(s, "read", l, block, i - 4, m, Answered(m, block, i))
                    ELSE Reading(s, "base", l, block, 0, m, Answered(m, block, i))]
<1>1. f[0] = [chip |-> state.chip, memory |-> state.memory, answer |-> << >>]
  <2>1. Answered(m, block, 0) = << >>
    BY DEF Answered
  <2>2. f[0] = Reading(s, "read_header", l, block, 0, m, Answered(m, block, 0))
    OBVIOUS
  <2>. HIDE DEF f
  <2>. QED BY <2>1, <2>2 DEF Reading, State
<1>2. ASSUME NEW i \in 1 .. 68
      PROVE  f[i] = ReadEeprom(f[i - 1])
  <2>1. CASE i - 1 \in 0 .. 3
    <3>. DEFINE k == i - 1
    <3>1. k \in 0 .. 3 /\ k + 1 = i
      BY <2>1
    <3>2. f[k] = Reading(s, "read_header", l, block, k, m, Answered(m, block, k))
      BY <3>1
    <3>3. f[k + 1] = IF k = 3 THEN Reading(s, "read", l, block, 0, m, Answered(m, block, k + 1))
                     ELSE Reading(s, "read_header", l, block, k + 1, m, Answered(m, block, k + 1))
      <4>1. /\ k + 1 \in 0 .. 68
            /\ k = 3 => ~(k + 1 < 4) /\ k + 1 < 68 /\ (k + 1) - 4 = 0
            /\ k # 3 => k + 1 < 4
        BY <3>1
      <4>. HIDE DEF k
      <4>. QED BY <4>1
    <3>. HIDE DEF f, k
    <3>4. f[k + 1] = ReadEeprom(f[k])
      BY <3>1, <3>2, <3>3, HeaderStep
    <3>. QED BY <3>1, <3>4 DEF k
  <2>2. CASE i - 5 \in 0 .. 63
    <3>. DEFINE k == i - 5
    <3>1. k \in 0 .. 63 /\ k + 5 = i /\ k + 4 = i - 1
      BY <2>2
    <3>2. f[k + 4] = Reading(s, "read", l, block, k, m, Answered(m, block, k + 4))
      <4>1. k + 4 \in 0 .. 68 /\ ~(k + 4 < 4) /\ k + 4 < 68 /\ (k + 4) - 4 = k
        BY <3>1
      <4>. HIDE DEF k
      <4>. QED BY <4>1
    <3>3. f[k + 5] = IF k = 63 THEN Reading(s, "base", l, block, 0, m, Answered(m, block, k + 5))
                     ELSE Reading(s, "read", l, block, k + 1, m, Answered(m, block, k + 5))
      <4>1. /\ k + 5 \in 0 .. 68 /\ ~(k + 5 < 4)
            /\ k = 63 => ~(k + 5 < 68)
            /\ k # 63 => k + 5 < 68 /\ (k + 5) - 4 = k + 1
        BY <3>1
      <4>. HIDE DEF k
      <4>. QED BY <4>1
    <3>. HIDE DEF f, k
    <3>4. f[k + 5] = ReadEeprom(f[k + 4])
      BY <3>1, <3>2, <3>3, ReadStep
    <3>. QED BY <3>1, <3>4
  <2>. QED BY <2>1, <2>2
<1>3. f[68] = Reading(s, "base", l, block, 0, m, Answered(m, block, 68))
  OBVIOUS
<1>4. Receive(state, 68) = f[68]
  <2>. HIDE DEF f, state
  <2>1. Receiving(f, state, 68)
    BY <1>1, <1>2 DEF Receiving
  <2>. QED BY <2>1, ReceiveIs
<1>. HIDE DEF f
<1>5. SubSeq(Answered(m, block, 68), 5, 68) = m[block]
  <2>. DEFINE read == Answered(m, block, 68)
              from == 5
              to == 68
              data == m[block]
              part == SubSeq(read, from, to)
  <2>1. /\ \A j \in 1 .. 64 : read[from + j - 1] = data[j]
        /\ \A i \in from .. to : read[i] = data[i - 4] /\ i - 4 \in 1 .. 64
    BY DEF Answered
  <2>2. from \in Int /\ to \in Int /\ from <= to /\ to - from + 1 = 64
    OBVIOUS
  <2>3. data \in Seq(Bit) /\ Len(data) = 64
    BY ContentsAreBits
  <2>8. \A j \in 1 .. 64 : data[j] \in Bit
    BY DEF Contents, BlockBits
  <2>. HIDE DEF read, data, from, to
  <2>4. \A i \in from .. to : read[i] \in Bit
    BY <2>1, <2>8
  <2>5. part \in Seq(Bit) /\ Len(part) = 64 /\ \A j \in 1 .. 64 : part[j] = read[from + j - 1]
    BY <2>2, <2>4, SubSeqProperties
  <2>6. \A j \in 1 .. Len(part) : part[j] = data[j]
    BY <2>1, <2>5
  <2>. HIDE DEF part
  <2>7. part = data
    BY <2>3, <2>5, <2>6, SeqEqual, ZenonT(20)
  <2>. QED BY <2>7 DEF part, read, data, from, to
<1>6. /\ f[68].chip = State(s, "base", l, block, 0, NoBits, m).chip
      /\ f[68].answer = Answered(m, block, 68)
  BY <1>3 DEF Reading, State
<1>7. 4 + BlockBits = 68
  BY DEF BlockBits
<1>. QED BY <1>4, <1>5, <1>6, <1>7

-----------------------------------------------------------------------------
\* What holds of the EEPROM between two transfers.

\* The chip waits for a command, or is about to give the answer the game has asked for; the
\* large one has been told from the small one as soon as it has been used.
ChipOK(chip, request, type) ==
    /\ IsChip(chip, chip.size, chip.mode, chip.addressLength, chip.address, 0, NoBits)
    /\ request \in ChipBlocks \cup {None} /\ type \in {"none", "eeprom"}
    /\ request = None => chip.mode = "base"
    /\ request # None => chip.mode = "read_header" /\ chip.address = request
    /\ device # "large" => chip.size = 64
    /\ device = "large" /\ type = "eeprom" => chip.size = 1024

MemoryOK ==
    /\ device \in Devices
    /\ memory \in [ChipBlocks -> Contents] /\ file \in [ChipBlocks -> Contents]

TouchedOK == touched \subseteq ChipBlocks /\ (touched # {} => backupType = "eeprom")

SnapshotOK ==
    snapshot # None => ChipOK(snapshot.eeprom, snapshot.asked, snapshot.backupType)

EepromInv ==
    /\ MemoryOK /\ TouchedOK /\ SnapshotOK
    /\ ChipOK(eeprom, asked, backupType)

\* Between two transfers the chip is in a state of the kind the lemmas above start from.
LEMMA ChipState ==
    ASSUME NEW chip, NEW request, NEW type, ChipOK(chip, request, type), NEW m
    PROVE  [chip |-> chip, memory |-> m]
             = State(chip.size, chip.mode, chip.addressLength, chip.address, 0, NoBits, m)
<1>. DEFINE state == [chip |-> chip, memory |-> m]
<1>1. IsState(state, chip.size, chip.mode, chip.addressLength, chip.address, 0, NoBits, m)
  BY DEF ChipOK, IsState
<1>. QED BY <1>1, StateIs

\* The chip that a transfer leaves
LEMMA ChipLeft ==
    ASSUME NEW s, NEW mode, NEW l, NEW a, NEW m, NEW request \in ChipBlocks \cup {None},
           NEW type \in {"none", "eeprom"},
           request = None => mode = "base", request # None => mode = "read_header" /\ a = request,
           device # "large" => s = 64, device = "large" /\ type = "eeprom" => s = 1024
    PROVE  ChipOK(State(s, mode, l, a, 0, NoBits, m).chip, request, type)
<1>1. PICK chip : chip = State(s, mode, l, a, 0, NoBits, m).chip
  OBVIOUS
<1>2. IsChip(chip, s, mode, l, a, 0, NoBits)
  BY <1>1 DEF State, IsChip
<1>3. chip.size = s /\ chip.mode = mode /\ chip.addressLength = l /\ chip.address = a
  BY <1>2 DEF IsChip
<1>4. ChipOK(chip, request, type)
  BY <1>2, <1>3 DEF ChipOK
<1>. QED BY <1>1, <1>4

\* The blocks of a chip are numbers that its addresses reach, and None is none of them.
LEMMA BlocksAreNumbers ==
    /\ None \notin ChipBlocks /\ ChipBlocks \subseteq Blocks
    /\ device \notin {"small", "large"} => ChipBlocks = {}
    /\ \A b \in ChipBlocks : b < ChipSize
<1>1. \A b \in Blocks : b \in Nat /\ b < 1024
  BY BlocksAssumption
<1>2. None \notin Nat
  BY GameAssumption
<1>. QED BY <1>1, <1>2 DEF ChipBlocks, ChipSize

\* The three transfers, from a state in which the invariant holds.
LEMMA BlockWritten ==
    ASSUME EepromInv, NEW block, NEW data \in Contents, WriteBlock(block, data)
    PROVE  /\ block \in ChipBlocks /\ memory' = Store(memory, block, data)
           /\ ChipOK(eeprom', None, "eeprom")
<1>1. asked = None /\ block \in ChipBlocks
  BY DEF WriteBlock, SendCommand
<1>2. ChipOK(eeprom, None, backupType) /\ eeprom.mode = "base"
  BY <1>1 DEF EepromInv, ChipOK
<1>. DEFINE s == eeprom.size
            l == eeprom.addressLength
            a == eeprom.address
            state == [chip |-> eeprom, memory |-> memory]
            sent == Send(state, WriteCommand(block, data))
<1>3. state = State(s, "base", l, a, 0, NoBits, memory)
  BY <1>2, ChipState
<1>4. DOMAIN memory = ChipBlocks /\ (device # "large" => s = 64)
  BY <1>2 DEF EepromInv, MemoryOK, ChipOK
<1>5. eeprom' = sent.chip /\ memory' = sent.memory
  BY DEF WriteBlock, SendCommand
<1>. HIDE DEF state
<1>6. sent = State(ChipSize, "base", Width, block, 0, NoBits, Store(memory, block, data))
  <2>. HIDE DEF s, l, a, sent
  <2>1. Send(State(s, "base", l, a, 0, NoBits, memory), WriteCommand(block, data))
          = State(ChipSize, "base", Width, block, 0, NoBits, Store(memory, block, data))
    BY <1>1, <1>4, WriteSent
  <2>. QED BY <1>3, <2>1 DEF sent
<1>. HIDE DEF sent
<1>7. memory' = Store(memory, block, data)
  BY <1>5, <1>6 DEF State
<1>8. ChipOK(State(ChipSize, "base", Width, block, 0, NoBits, Store(memory, block, data)).chip,
             None, "eeprom")
  <2>1. /\ "eeprom" \in {"none", "eeprom"} /\ None \in ChipBlocks \cup {None}
        /\ device # "large" => ChipSize = 64
        /\ device = "large" => ChipSize = 1024
    BY DEF ChipSize
  <2>. QED BY <2>1, ChipLeft
<1>. QED BY <1>1, <1>5, <1>6, <1>7, <1>8

\* A request, from a state in which the invariant holds
LEMMA BlockAsked ==
    ASSUME EepromInv, NEW block, AskForBlock(block)
    PROVE  block \in ChipBlocks /\ memory' = memory /\ ChipOK(eeprom', block, "eeprom")
<1>1. asked = None /\ block \in ChipBlocks
  BY DEF AskForBlock, SendCommand
<1>2. ChipOK(eeprom, None, backupType) /\ eeprom.mode = "base"
  BY <1>1 DEF EepromInv, ChipOK
<1>. DEFINE s == eeprom.size
            l == eeprom.addressLength
            a == eeprom.address
            state == [chip |-> eeprom, memory |-> memory]
            sent == Send(state, ReadCommand(block))
<1>3. state = State(s, "base", l, a, 0, NoBits, memory)
  BY <1>2, ChipState
<1>4. device # "large" => s = 64
  BY <1>2 DEF ChipOK
<1>5. eeprom' = sent.chip /\ memory' = sent.memory
  BY DEF AskForBlock, SendCommand
<1>. HIDE DEF state
<1>6. sent = State(ChipSize, "read_header", Width, block, 0, NoBits, memory)
  <2>. HIDE DEF s, l, a, sent
  <2>1. Send(State(s, "base", l, a, 0, NoBits, memory), ReadCommand(block))
          = State(ChipSize, "read_header", Width, block, 0, NoBits, memory)
    BY <1>1, <1>4, RequestSent
  <2>. QED BY <1>3, <2>1 DEF sent
<1>. HIDE DEF sent
<1>7. memory' = memory
  BY <1>5, <1>6 DEF State
<1>8. ChipOK(State(ChipSize, "read_header", Width, block, 0, NoBits, memory).chip, block, "eeprom")
  <2>1. /\ "eeprom" \in {"none", "eeprom"} /\ block \in ChipBlocks \cup {None} /\ block # None
        /\ device # "large" => ChipSize = 64
        /\ device = "large" => ChipSize = 1024
    BY <1>1, BlocksAreNumbers DEF ChipSize
  <2>. QED BY <2>1, ChipLeft
<1>. QED BY <1>1, <1>5, <1>6, <1>7, <1>8

\* A read, from a state in which the invariant holds
LEMMA BlockRead ==
    ASSUME EepromInv, ReadBlock
    PROVE  asked \in ChipBlocks /\ answer' = memory[asked] /\ ChipOK(eeprom', None, backupType)
<1>1. asked \in ChipBlocks /\ asked # None
  BY DEF ReadBlock, EepromInv, ChipOK
<1>2. /\ ChipOK(eeprom, asked, backupType) /\ eeprom.mode = "read_header"
      /\ eeprom.address = asked
  BY <1>1 DEF EepromInv, ChipOK
<1>. DEFINE s == eeprom.size
            l == eeprom.addressLength
            state == [chip |-> eeprom, memory |-> memory]
            read == Receive(state, 4 + BlockBits)
<1>3. state = State(s, "read_header", l, asked, 0, NoBits, memory)
  BY <1>2, ChipState
<1>4. /\ device # "large" => s = 64
      /\ device = "large" /\ backupType = "eeprom" => s = 1024
      /\ backupType \in {"none", "eeprom"}
  BY <1>2 DEF ChipOK
<1>5. eeprom' = read.chip /\ answer' = SubSeq(read.answer, 5, 4 + BlockBits)
  BY DEF ReadBlock
<1>6. memory[asked] \in Contents
  BY <1>1 DEF EepromInv, MemoryOK
<1>. HIDE DEF state, s, l
<1>7. /\ read.chip = State(s, "base", l, asked, 0, NoBits, memory).chip
      /\ SubSeq(read.answer, 5, 4 + BlockBits) = memory[asked]
  BY <1>3, <1>6, AnswerReceived
<1>8. ChipOK(State(s, "base", l, asked, 0, NoBits, memory).chip, None, backupType)
  <2>1. None \in ChipBlocks \cup {None}
    OBVIOUS
  <2>. QED BY <1>4, <2>1, ChipLeft
<1>. QED BY <1>1, <1>5, <1>7, <1>8

\* While the device is the same, so are its blocks.
LEMMA SameDevice ==
    ASSUME UNCHANGED device
    PROVE  /\ ChipBlocks' = ChipBlocks
           /\ \A chip, request, type : ChipOK(chip, request, type)' <=> ChipOK(chip, request, type)
BY DEF ChipBlocks, ChipOK, IsChip

\* A save is of every block.
LEMMA AllCovered ==
    ASSUME EepromInv, backupType # "none"
    PROVE  Covered = ChipBlocks /\ Saved = memory
<1>1. eeprom.size = ChipSize
  BY DEF EepromInv, ChipOK, ChipSize
<1>2. Covered = ChipBlocks
  BY <1>1, BlocksAreNumbers DEF Covered
<1>. QED BY <1>2 DEF Saved, EepromInv, MemoryOK

\* Init establishes the invariant.
LEMMA EepromInit ==
    CartridgeInit => EepromInv
<1>. SUFFICES ASSUME CartridgeInit PROVE EepromInv
  OBVIOUS
<1>. USE DEF CartridgeInit
<1>1. MemoryOK
  <2>1. Erased \in Contents
    BY DEF Erased, Contents, Bit
  <2>. QED BY <2>1 DEF MemoryOK
<1>2. ChipOK(eeprom, asked, backupType)
  BY DEF ChipOK, IsChip, Start
<1>. QED BY <1>1, <1>2 DEF EepromInv, TouchedOK, SnapshotOK

\* A step that leaves what the invariant is about alone, or changes one part of it
LEMMA Kept ==
    ASSUME EepromInv, UNCHANGED device
    PROVE  /\ UNCHANGED <<memory, file>> => MemoryOK'
           /\ UNCHANGED snapshot => SnapshotOK'
           /\ UNCHANGED <<touched, backupType>> => TouchedOK'
           /\ touched' = {} => TouchedOK'
           /\ UNCHANGED <<eeprom, asked, backupType>> => ChipOK(eeprom, asked, backupType)'
<1>1. ChipBlocks' = ChipBlocks
  BY SameDevice
<1>2. UNCHANGED <<memory, file>> => MemoryOK'
  BY <1>1 DEF EepromInv, MemoryOK
<1>3. UNCHANGED snapshot => SnapshotOK'
  BY <1>1 DEF EepromInv, SnapshotOK, ChipOK, IsChip
<1>4. /\ UNCHANGED <<touched, backupType>> => TouchedOK'
      /\ touched' = {} => TouchedOK'
  BY <1>1 DEF EepromInv, TouchedOK
<1>5. UNCHANGED <<eeprom, asked, backupType>> => ChipOK(eeprom, asked, backupType)'
  BY <1>1 DEF EepromInv, ChipOK, IsChip
<1>. QED BY <1>2, <1>3, <1>4, <1>5

\* What a reset makes of a chip between two transfers
LEMMA ChipReset ==
    ASSUME NEW chip, NEW s, NEW m, NEW l, NEW a, NEW c, IsChip(chip, s, m, l, a, c, NoBits)
    PROVE  IsChip(ResetEeprom(chip), 64, "base", l, 0, 0, NoBits)
<1>. DEFINE after == [chip EXCEPT !.size = 64, !.mode = "base", !.address = 0, !.counter = 0]
<1>1. ResetEeprom(chip) = after
  BY DEF ResetEeprom
<1>2. IsChip(after, 64, "base", l, 0, 0, NoBits)
  BY DEF IsChip
<1>. HIDE DEF after
<1>. QED BY <1>1, <1>2

\* Every step keeps the invariant.
LEMMA EepromStep ==
    EepromInv /\ [CartridgeNext]_cartridgeVars => EepromInv'
<1> SUFFICES ASSUME EepromInv, [CartridgeNext]_cartridgeVars
             PROVE  EepromInv'
  OBVIOUS
<1>. USE DEF EepromInv
<1>1. ASSUME UNCHANGED <<chipVars, file, snapshot>>
      PROVE  EepromInv'
  BY <1>1, Kept DEF chipVars
<1>2. ASSUME NEW block \in Blocks, AskForBlock(block)
      PROVE  EepromInv'
  <2>1. block \in ChipBlocks /\ memory' = memory /\ ChipOK(eeprom', block, "eeprom")
    BY <1>2, BlockAsked
  <2>2. /\ asked' = block /\ backupType' = "eeprom"
        /\ UNCHANGED <<device, file, snapshot, touched>>
    BY <1>2 DEF AskForBlock, SendCommand, clockVars
  <2>3. ChipOK(eeprom, asked, backupType)'
    BY <2>1, <2>2 DEF ChipOK, IsChip, ChipBlocks
  <2>4. TouchedOK'
    BY <2>2, SameDevice DEF TouchedOK
  <2>. QED BY <2>1, <2>2, <2>3, <2>4, Kept
<1>3. ASSUME NEW block \in Blocks, NEW data \in Data, WriteBlock(block, data)
      PROVE  EepromInv'
  <2>. data \in Contents
    BY GameAssumption DEF Contents
  <2>1. /\ block \in ChipBlocks /\ memory' = Store(memory, block, data)
        /\ ChipOK(eeprom', None, "eeprom")
    BY <1>3, BlockWritten
  <2>2. /\ asked' = None /\ backupType' = "eeprom" /\ touched' = touched \cup {block}
        /\ UNCHANGED <<device, file, snapshot>>
    BY <1>3 DEF WriteBlock, SendCommand, clockVars
  <2>3. ChipOK(eeprom, asked, backupType)'
    BY <2>1, <2>2 DEF ChipOK, IsChip, ChipBlocks
  <2>4. TouchedOK'
    BY <2>1, <2>2, SameDevice DEF TouchedOK
  <2>5. MemoryOK'
    BY <2>1, <2>2, SameDevice DEF MemoryOK, Store
  <2>. QED BY <2>2, <2>3, <2>4, <2>5, Kept
<1>4. ASSUME ReadBlock
      PROVE  EepromInv'
  <2>1. ChipOK(eeprom', None, backupType)
    BY <1>4, BlockRead
  <2>2. asked' = None /\ UNCHANGED <<device, memory, backupType, touched, file, snapshot>>
    BY <1>4 DEF ReadBlock
  <2>3. ChipOK(eeprom, asked, backupType)'
    BY <2>1, <2>2 DEF ChipOK, IsChip, ChipBlocks
  <2>. QED BY <2>2, <2>3, Kept
<1>5. CASE ResetChips
  <2>1. /\ eeprom' = ResetEeprom(eeprom) /\ backupType' = "none" /\ asked' = None
        /\ touched' = {} /\ UNCHANGED <<device, memory, file, snapshot>>
    BY <1>5 DEF ResetChips
  <2>2. IsChip(ResetEeprom(eeprom), 64, "base", eeprom.addressLength, 0, 0, NoBits)
    <3>1. IsChip(eeprom, eeprom.size, eeprom.mode, eeprom.addressLength, eeprom.address, 0,
                 NoBits)
      BY DEF ChipOK
    <3>. QED BY <3>1, ChipReset
  <2>3. ChipOK(ResetEeprom(eeprom), None, "none")
    <3>. DEFINE chip == ResetEeprom(eeprom)
    <3>1. chip.size = 64 /\ chip.mode = "base" /\ chip.address = 0
          /\ chip.addressLength = eeprom.addressLength
      BY <2>2 DEF IsChip
    <3>. HIDE DEF chip
    <3>2. IsChip(chip, chip.size, chip.mode, chip.addressLength, chip.address, 0, NoBits)
      BY <2>2, <3>1 DEF chip
    <3>3. ChipOK(chip, None, "none")
      BY <3>1, <3>2 DEF ChipOK
    <3>. QED BY <3>3 DEF chip
  <2>4. ChipOK(eeprom, asked, backupType)'
    BY <2>1, <2>3 DEF ChipOK, IsChip, ChipBlocks
  <2>. QED BY <2>1, <2>4, Kept
<1>6. CASE Save
  <2>1. backupType # "none" /\ file' = Saved /\ UNCHANGED <<chipVars, snapshot>>
    BY <1>6 DEF Save
  <2>2. file' = memory
    BY <2>1, AllCovered
  <2>3. MemoryOK'
    BY <2>1, <2>2, SameDevice DEF MemoryOK, chipVars
  <2>. QED BY <2>1, <2>3, Kept DEF chipVars
<1>7. CASE Restart
  <2>1. /\ eeprom' = Start /\ backupType' = "none" /\ asked' = None /\ touched' = {}
        /\ UNCHANGED <<device, snapshot>>
        /\ file' = IF backupType = "none" THEN file ELSE Saved
        /\ memory' = IF backupType = "none" THEN file ELSE Saved
    BY <1>7 DEF Restart
  <2>2. MemoryOK'
    BY <2>1, AllCovered, SameDevice DEF MemoryOK
  <2>3. ChipOK(eeprom, asked, backupType)'
    BY <2>1 DEF ChipOK, IsChip, Start
  <2>. QED BY <2>1, <2>2, <2>3, Kept
<1>8. CASE SaveState
  <2>1. /\ snapshot'.eeprom = eeprom /\ snapshot'.asked = asked
        /\ snapshot'.backupType = backupType /\ UNCHANGED <<chipVars, file>>
    BY <1>8 DEF SaveState
  <2>2. SnapshotOK'
    BY <2>1, SameDevice DEF SnapshotOK, chipVars, ChipOK, IsChip
  <2>. QED BY <2>1, <2>2, Kept DEF chipVars
<1>9. CASE LoadChipState
  <2>1. /\ snapshot # None /\ eeprom' = snapshot.eeprom /\ backupType' = snapshot.backupType
        /\ asked' = snapshot.asked /\ touched' = {}
        /\ UNCHANGED <<device, memory, file, snapshot>>
    BY <1>9 DEF LoadChipState
  <2>2. ChipOK(eeprom, asked, backupType)'
    BY <2>1 DEF SnapshotOK, ChipOK, IsChip, ChipBlocks
  <2>. QED BY <2>1, <2>2, Kept
<1>10. CASE \/ \E command \in Commands : BeginTransaction(command)
            \/ \E now \in Times : WriteStep(now)
            \/ SampleStep
  BY <1>1, <1>10 DEF BeginTransaction, WriteStep, SampleStep
<1>11. CASE UNCHANGED cartridgeVars
  BY <1>1, <1>11 DEF cartridgeVars
<1>. QED
  BY <1>2, <1>3, <1>4, <1>5, <1>6, <1>7, <1>8, <1>9, <1>10, <1>11 DEF CartridgeNext

\* Between two transfers the EEPROM waits for a command or has the answer the game has asked
\* for, and the large one is known for what it is once it has been used.
THEOREM EepromWaits == CartridgeSpec => []EepromInv
<1>1. CartridgeInit => EepromInv
  BY EepromInit
<1>2. EepromInv /\ [CartridgeNext]_cartridgeVars => EepromInv'
  BY EepromStep
<1>. QED BY <1>1, <1>2, PTL DEF CartridgeSpec

\* What the game has written since the last reset or savestate is in what the next save
\* writes.
THEOREM WrittenIsSaved == CartridgeSpec => []EepromSaved
<1>1. EepromInv => EepromSaved
  BY AllCovered DEF EepromInv, TouchedOK, EepromSaved
<1>. QED BY <1>1, EepromWaits, PTL

-----------------------------------------------------------------------------
\* The blocks a game sees are those of the memory.
LEMMA BlocksAre ==
    ASSUME UNCHANGED device, NEW contents, NEW block \in ChipBlocks, NEW data,
           DOMAIN contents = ChipBlocks
    PROVE  /\ AllBlocks(contents)[block] = contents[block]
           /\ AllBlocks(Store(contents, block, data)) = [AllBlocks(contents) EXCEPT ![block] = data]
<1>1. ChipBlocks \subseteq Blocks
  BY BlocksAreNumbers
<1>. QED BY <1>1 DEF AllBlocks, Store

\* A step that leaves the memory, the file, the request and the answer alone
LEMMA ChipsAlone ==
    ASSUME UNCHANGED <<chipVars, file>>
    PROVE  UNCHANGED Array!vars
<1>1. ChipBlocks' = ChipBlocks
  BY SameDevice DEF chipVars
<1>. QED BY <1>1 DEF Array!vars, chipVars, AllBlocks

\* A memory that is left alone is still the same array.
LEMMA SameArray ==
    ASSUME UNCHANGED device
    PROVE  /\ UNCHANGED memory => AllBlocks(memory)' = AllBlocks(memory)
           /\ UNCHANGED file => AllBlocks(file)' = AllBlocks(file)
           /\ memory' = file => AllBlocks(memory)' = AllBlocks(file)
           /\ file' = memory => AllBlocks(file)' = AllBlocks(memory)
<1>1. ChipBlocks' = ChipBlocks
  BY SameDevice
<1>. QED BY <1>1 DEF AllBlocks

\* Every step between two transfers is one of the array's, or none.
LEMMA ArrayStep ==
    EepromInv /\ EepromInv' /\ [CartridgeNext]_cartridgeVars => [Array!Next]_Array!vars
<1> SUFFICES ASSUME EepromInv, EepromInv', [CartridgeNext]_cartridgeVars
             PROVE  [Array!Next]_Array!vars
  OBVIOUS
<1>1. ASSUME UNCHANGED <<chipVars, file>>
      PROVE  [Array!Next]_Array!vars
  BY <1>1, ChipsAlone
<1>2. ASSUME NEW block \in Blocks, AskForBlock(block)
      PROVE  Array!AskFor(block)
  <2>1. memory' = memory
    BY <1>2, BlockAsked
  <2>2. asked' = block /\ answer' = None /\ UNCHANGED <<device, file>>
    BY <1>2 DEF AskForBlock, SendCommand
  <2>. QED BY <2>1, <2>2, SameArray DEF Array!AskFor
<1>3. ASSUME NEW block \in Blocks, NEW data \in Data, WriteBlock(block, data)
      PROVE  Array!Write(block, data)
  <2>. data \in Contents
    BY GameAssumption DEF Contents
  <2>1. block \in ChipBlocks /\ memory' = Store(memory, block, data)
    BY <1>3, BlockWritten
  <2>2. asked' = None /\ answer' = None /\ UNCHANGED <<device, file>>
    BY <1>3 DEF WriteBlock, SendCommand
  <2>3. DOMAIN memory = ChipBlocks /\ ChipBlocks' = ChipBlocks
    BY <2>2, SameDevice DEF EepromInv, MemoryOK
  <2>4. AllBlocks(memory)' = AllBlocks(Store(memory, block, data))
    BY <2>1, <2>3 DEF AllBlocks
  <2>5. AllBlocks(memory)' = [AllBlocks(memory) EXCEPT ![block] = data]
    BY <2>1, <2>2, <2>3, <2>4, BlocksAre
  <2>. QED BY <2>2, <2>5, SameArray DEF Array!Write
<1>4. ASSUME ReadBlock
      PROVE  Array!Read
  <2>1. asked \in ChipBlocks /\ answer' = memory[asked]
    BY <1>4, BlockRead
  <2>2. asked # None /\ asked' = None /\ UNCHANGED <<device, memory, file>>
    BY <1>4 DEF ReadBlock
  <2>3. asked \in Blocks
    BY <2>1, BlocksAreNumbers
  <2>4. AllBlocks(memory)[asked] = memory[asked]
    BY <2>1, <2>3 DEF AllBlocks
  <2>. QED BY <2>1, <2>2, <2>4, SameArray DEF Array!Read
<1>5. CASE ResetChips \/ LoadChipState
  <2>1. answer' = None /\ UNCHANGED <<device, memory, file>>
    BY <1>5 DEF ResetChips, LoadChipState
  <2>2. asked' \in Blocks \cup {None}
    <3>1. asked' \in ChipBlocks \cup {None}
      BY <2>1, SameDevice DEF EepromInv, ChipOK
    <3>. QED BY <3>1, BlocksAreNumbers
  <2>3. Array!Forget
    BY <2>1, <2>2, SameArray DEF Array!Forget
  <2>. QED BY <2>3 DEF Array!Next
<1>6. CASE Save
  <2>1. file' = memory
    BY <1>6, AllCovered DEF Save
  <2>2. UNCHANGED <<device, memory, asked, answer>>
    BY <1>6 DEF Save, chipVars
  <2>3. Array!Save
    BY <2>1, <2>2, SameArray DEF Array!Save
  <2>. QED BY <2>3 DEF Array!Next
<1>7. CASE Restart
  <2>1. /\ asked' = None /\ answer' = None /\ UNCHANGED device
        /\ file' = IF backupType = "none" THEN file ELSE Saved
        /\ memory' = IF backupType = "none" THEN file ELSE Saved
    BY <1>7 DEF Restart
  <2>2. \/ file' = memory /\ UNCHANGED memory
        \/ memory' = file /\ UNCHANGED file
    BY <2>1, AllCovered
  <2>3. Array!Restart
    BY <2>1, <2>2, SameArray DEF Array!Restart
  <2>. QED BY <2>3 DEF Array!Next
<1>8. CASE \/ SaveState \/ SampleStep
           \/ \E command \in Commands : BeginTransaction(command)
           \/ \E now \in Times : WriteStep(now)
  BY <1>1, <1>8 DEF BeginTransaction, WriteStep, SampleStep, SaveState
<1>9. CASE UNCHANGED cartridgeVars
  BY <1>1, <1>9 DEF cartridgeVars
<1>10. (\E block \in Blocks : AskForBlock(block) \/ \E data \in Data : WriteBlock(block, data))
          => Array!Next
  BY <1>2, <1>3 DEF Array!Next
<1>11. ReadBlock => Array!Next
  BY <1>4 DEF Array!Next
<1>. QED
  BY <1>5, <1>6, <1>7, <1>8, <1>9, <1>10, <1>11 DEF CartridgeNext

\* Bit by bit, with its size told on the way, reset and brought back by savestates in the
\* middle of a read, the EEPROM is the array of blocks the game takes it for: a write changes
\* its block and no other, a read answers with the last write, and a save is of every block.
THEOREM EepromImplementsArray == CartridgeSpec => EepromIsAnArray
<1>1. CartridgeInit => Array!Init
  BY DEF CartridgeInit, Array!Init, AllBlocks
<1>. QED BY <1>1, ArrayStep, EepromWaits, PTL DEF CartridgeSpec, EepromIsAnArray, Array!Spec

-----------------------------------------------------------------------------
(***************************************************************************)
(* The real-time clock                                                     *)
(***************************************************************************)
\* What holds of the clock before every step of the game's driver.

IsRtc(r) ==
    /\ r = [field \in DOMAIN r |-> r[field]]
    /\ DOMAIN r = {"state", "lines", "direction", "enable", "command", "data", "status",
                   "bytes", "count"}
    /\ r.state \in States
    /\ r.lines \in 0 .. 7 /\ r.direction \in 0 .. 7 /\ r.enable \in 0 .. 7
    /\ r.command \in Nat /\ r.data \in [0 .. 6 -> Nat] /\ r.status \in Nat
    /\ r.bytes \in Nat /\ r.count \in Int

\* Neither selected nor in the middle of a command
Waits(r) == r.state \in {"disabled", "idle"} /\ r.lines \in {0, 1}

\* Enabled, and the select line is high.
Selected(r) == r.enable = 1 /\ r.lines \in 4 .. 7

\* After a reset or the last bit of an answer
Shut(r, enable) == r.state = "idle" /\ r.lines = 0 /\ r.enable = enable

SelectAt(r, step) ==
    /\ step \in {0, 1, 2} => Waits(r)
    /\ step \in {2, 3} => r.enable = 1
    /\ step = 3 => r.state = "idle" /\ r.lines = 1

\* The most significant bits of a command, n of them
Taken(command, n) == (command \div 2^(8 - n)) * 2^(8 - n)

TakesBit(r, command, n) ==
    r.state = "command" /\ r.count = 7 - n /\ r.command = Taken(command, n)

CommandAt(r, command, step) ==
    /\ step \in 4 .. 20 => Selected(r)
    /\ step = 4 => TakesBit(r, command, 0)
    /\ step \in 5 .. 20 => r.direction = 7 /\ TakesBit(r, command, (step - 5) \div 2)

ResetAt(r, step) ==
    /\ step = 21 => Shut(r, 0)
    /\ step = 22 => Shut(r, 1)

InputAt(r, step) ==
    /\ step \in 21 .. 36 => /\ r.state = "input" /\ Selected(r) /\ r.direction = 7
                            /\ r.bytes = 1 /\ r.count = (step - 21) \div 2
    /\ step \in {37, 38} => r.state = "idle" /\ r.enable = 1
    /\ step = 37 => Selected(r)
    /\ step = 38 => r.lines = 1

\* The answer, as far as the clock is concerned
Holds(r, bytes) ==
    /\ r.state = "output" /\ r.bytes = Len(bytes)
    /\ \A i \in 0 .. Len(bytes) - 1 : r.data[i] = bytes[i + 1]

WantedBit(bytes, bit) == BitOf(bytes[bit \div 8 + 1], bit % 8)

\* The lines while a bit of the answer is low, high and read
AnswerAt(r, bytes, bit, phase) ==
    IF phase = 2 /\ bit + 1 = 8 * Len(bytes)
      THEN Shut(r, 0)
      ELSE /\ Holds(r, bytes) /\ r.direction = 5 /\ r.enable = 1
           /\ phase # 1 => Selected(r)
           /\ phase = 1 => r.lines = 1 + 2 * WantedBit(bytes, bit)
           /\ r.count = IF phase = 2 THEN bit + 1 ELSE bit

OutputAt(r, bytes, step) ==
    LET n == Len(bytes)
    IN /\ step = 21 => Holds(r, bytes) /\ Selected(r) /\ r.count = 0
       /\ step \in 22 .. 21 + 24 * n =>
            AnswerAt(r, bytes, (step - 22) \div 3, (step - 22) % 3)
       /\ step = 22 + 24 * n => Shut(r, 0)
       /\ step = 23 + 24 * n => Shut(r, 1)

Answers(command) == command \in {99, 101, 103}

ClockAt(r, command, step, bytes) ==
    /\ IsRtc(r)
    /\ SelectAt(r, step) /\ CommandAt(r, command, step)
    /\ command = 96 => ResetAt(r, step)
    /\ command = 98 => InputAt(r, step)
    /\ Answers(command) => OutputAt(r, bytes, step)

\* The driver, what it has to be given and what it has read
Sampled(command, step) == IF Answers(command) /\ step >= 22 THEN (step - 22) \div 3 ELSE 0

LastStep(command) ==
    22 + (CASE command = 96 -> 0 [] command = 98 -> 16 [] OTHER -> 1 + 24 * AnswerBytes(command))

At(command, step) == [command |-> command, step |-> step]

DriverAt(d, bytes, bits) ==
    /\ d # Idle => /\ d = At(d.command, d.step) /\ d.command \in Commands
                   /\ d.step \in 1 .. LastStep(d.command)
    /\ bytes \in Seq(Nat) /\ bits \in Seq(Bit)
    /\ Len(bits) = Sampled(d.command, d.step)
    /\ Answers(d.command) /\ d.step > 20 => Len(bytes) = AnswerBytes(d.command)

BitsRight(bytes, bits) == \A i \in 1 .. Len(bits) : bits[i] = WantedBit(bytes, i - 1)

ClockOK(r, d, bytes, bits, spoilt) ==
    /\ DriverAt(d, bytes, bits) /\ ClockAt(r, d.command, d.step, bytes)
    /\ spoilt \in BOOLEAN
    /\ ~spoilt => BitsRight(bytes, bits)

\* The driver is about to read a line.
AboutToSample(d) ==
    /\ Answers(d.command) /\ d.step \in 22 .. 21 + 24 * AnswerBytes(d.command)
    /\ (d.step - 22) % 3 = 2

PageOK ==
    /\ page \in 0 .. 7
    /\ ~torn /\ AboutToSample(driver) => BitOf(page, 1) = WantedBit(expected, Len(sampled))

RtcSnapshotOK ==
    snapshot # None =>
      ClockOK(snapshot.rtc, snapshot.driver, snapshot.expected, snapshot.sampled, snapshot.torn)

RtcInv == ClockOK(rtc, driver, expected, sampled, torn) /\ PageOK /\ RtcSnapshotOK

-----------------------------------------------------------------------------
\* The lines

\* The three lines in a halfword, and the data line set
LEMMA LineBits ==
    ASSUME NEW v \in 0 .. 7, NEW b \in {0, 1}
    PROVE  /\ BitOf(v, 0) = v % 2 /\ BitOf(v, 1) = (v \div 2) % 2 /\ BitOf(v, 2) = v \div 4
           /\ SetBit(v, 1, b) = v + 2 * b - 2 * ((v \div 2) % 2)
           /\ SetBit(v, 1, b) \in 0 .. 7 /\ BitOf(v, 1) \in {0, 1}
<1>1. /\ 2^0 = 1 /\ 2^1 = 2 /\ 2^2 = 4
  OBVIOUS
<1>2. v \in {0, 1, 2, 3, 4, 5, 6, 7}
  OBVIOUS
<1>. QED BY <1>1, <1>2 DEF BitOf, SetBit

\* The clock and the page of its lines
Both(r, p) == [rtc |-> r, page |-> p]

\* A clock whose lines are given a value
Latched(r, value) == [r EXCEPT !.lines = value]

\* The clock with new values on its lines, field by field
LEMMA LatchedIs ==
    ASSUME NEW r, IsRtc(r), NEW v \in 0 .. 7
    PROVE  /\ IsRtc(Latched(r, v)) /\ Latched(r, v).lines = v
           /\ Latched(r, v).state = r.state /\ Latched(r, v).direction = r.direction
           /\ Latched(r, v).enable = r.enable /\ Latched(r, v).command = r.command
           /\ Latched(r, v).data = r.data /\ Latched(r, v).status = r.status
           /\ Latched(r, v).bytes = r.bytes /\ Latched(r, v).count = r.count
BY DEF Latched, IsRtc

\* A write while the select line is high
LEMMA SelectedWrite ==
    ASSUME NEW r, IsRtc(r), Selected(r), r.state # "disabled",
           NEW p, NEW v \in 0 .. 7, NEW now
    PROVE  LET w == WriteLines(Both(r, p), v, now)
           IN /\ w.rtc = React(Latched(r, v), v, now)
              /\ w.page = IF r.state = "output" /\ BitOf(r.direction, 1) = 0 /\ ~Clocked(v)
                            THEN w.rtc.lines ELSE v
<1>1. r.enable = 1 /\ r.lines \in 4 .. 7
  BY DEF Selected
<1>2. Wake(r) = r
  BY DEF Wake
<1>3. LinesWith(r, v) = v
  <2>1. BitOf(r.lines, 2) = r.lines \div 4
    BY <1>1, LineBits
  <2>2. BitOf(r.lines, 2) = 1
    BY <1>1, <2>1
  <2>. QED BY <2>2 DEF LinesWith
<1>4. ~(r.state = "idle" /\ r.lines = 1 /\ v = 5)
  BY <1>1
<1>5. BitOf(r.enable, 0) # 0
  <2>1. BitOf(1, 0) = 1
    BY LineBits
  <2>. QED BY <1>1, <2>1
<1>. DEFINE s == Both(r, p)
<1>6. s.rtc = r
  BY DEF Both
<1>. HIDE DEF s
<1>7. Wake(s.rtc) = r
  BY <1>2, <1>6
<1>. QED BY <1>3, <1>4, <1>5, <1>7 DEF WriteLines, s, Latched

\* The bits of a command that have been received grow by one.
LEMMA TakenNext ==
    ASSUME NEW c \in Nat, c < 256, NEW n \in 0 .. 7
    PROVE  /\ Taken(c, n) \in Nat /\ Taken(c, 0) = 0 /\ Taken(c, 8) = c
           /\ BitOf(c, 7 - n) \in {0, 1}
           /\ Taken(c, n + 1) = IF BitOf(c, 7 - n) = 1 THEN SetBit(Taken(c, n), 7 - n, 1)
                                                       ELSE Taken(c, n)
<1>1. ASSUME NEW p \in {1, 2, 4, 8, 16, 32, 64, 128}, p = 2^(7 - n), 2 * p = 2^(8 - n)
      PROVE  /\ Taken(c, n) \in Nat /\ BitOf(c, 7 - n) \in {0, 1}
             /\ Taken(c, n + 1) = Taken(c, n) + BitOf(c, 7 - n) * p
             /\ BitOf(Taken(c, n), 7 - n) = 0
  <2>1. 8 - (n + 1) = 7 - n
    OBVIOUS
  <2>2. /\ Taken(c, n) = (c \div (2 * p)) * (2 * p) /\ Taken(c, n + 1) = (c \div p) * p
        /\ BitOf(c, 7 - n) = (c \div p) % 2
        /\ BitOf(Taken(c, n), 7 - n) = (Taken(c, n) \div p) % 2
    BY <1>1, <2>1 DEF Taken, BitOf
  <2>. DEFINE t == Taken(c, n)
              u == Taken(c, n + 1)
              b == BitOf(c, 7 - n)
              z == BitOf(Taken(c, n), 7 - n)
  <2>3. /\ t = (c \div (2 * p)) * (2 * p) /\ u = (c \div p) * p /\ b = (c \div p) % 2
        /\ z = (t \div p) % 2
    BY <2>2
  <2>. HIDE DEF t, u, b, z
  <2>4. t \in Nat /\ b \in {0, 1} /\ u = t + b * p /\ z = 0
    BY <1>1, <2>3
  <2>. QED BY <2>4 DEF t, u, b, z
<1>2. n \in {0, 1, 2, 3, 4, 5, 6, 7}
  OBVIOUS
<1>. DEFINE Power(i) == 2^i
<1>3. /\ Power(0) = 1 /\ Power(1) = 2 /\ Power(2) = 4 /\ Power(3) = 8 /\ Power(4) = 16
      /\ Power(5) = 32 /\ Power(6) = 64 /\ Power(7) = 128 /\ Power(8) = 256
  OBVIOUS
<1>4. Power(7 - n) \in {1, 2, 4, 8, 16, 32, 64, 128} /\ 2 * Power(7 - n) = Power(8 - n)
  <2>. HIDE DEF Power
  <2>. QED BY <1>2, <1>3
<1>5. Taken(c, 0) = 0 /\ Taken(c, 8) = c
  <2>1. 8 - 8 = 0 /\ 8 - 0 = 8
    OBVIOUS
  <2>2. Taken(c, 0) = (c \div 256) * 256 /\ Taken(c, 8) = (c \div 1) * 1
    BY <1>3, <2>1 DEF Taken
  <2>. QED BY <2>2
<1>. QED BY <1>1, <1>4, <1>5 DEF SetBit

\* A bit of a command, on the rising edge of the clock
LEMMA BitTaken ==
    ASSUME NEW r, IsRtc(r), NEW c \in Nat, c < 256, NEW n \in 0 .. 7, TakesBit(r, c, n),
           NEW v \in 4 .. 7, NEW now, v % 2 = 1, (v \div 2) % 2 = BitOf(c, 7 - n)
    PROVE  \E q :
             /\ IsRtc(q)
             /\ q.state = "command" /\ q.count = 6 - n /\ q.command = Taken(c, n + 1)
             /\ q.lines = r.lines /\ q.direction = r.direction /\ q.enable = r.enable
             /\ q.data = r.data /\ q.status = r.status
             /\ CommandBit(r, v, now) = IF n = 7 THEN Execute(q, now) ELSE q
<1>. DEFINE bit == BitOf(v, 1)
            q == [r EXCEPT !.count = @ - 1,
                     !.command = IF bit = 1 THEN SetBit(@, r.count, 1) ELSE @]
<1>1. /\ v \in 0 .. 7 /\ BitOf(v, 0) = 1 /\ bit = BitOf(c, 7 - n)
  BY LineBits
<1>2. r.count = 7 - n /\ r.command = Taken(c, n) /\ r.state = "command"
  BY DEF TakesBit
<1>3. q.command = Taken(c, n + 1)
  <2>1. q.command = IF bit = 1 THEN SetBit(r.command, r.count, 1) ELSE r.command
    <3>. HIDE DEF bit
    <3>. QED BY DEF IsRtc
  <2>. HIDE DEF q, bit
  <2>. QED BY <1>1, <1>2, <2>1, TakenNext
<1>4. Taken(c, n + 1) \in Nat
  <2>1. n = 7 => Taken(c, n + 1) = c
    BY TakenNext
  <2>2. n < 7 => n + 1 \in 0 .. 7
    OBVIOUS
  <2>. QED BY <2>1, <2>2, TakenNext
<1>5. /\ q.state = "command" /\ q.count = 6 - n
      /\ q.lines = r.lines /\ q.direction = r.direction /\ q.enable = r.enable
      /\ q.data = r.data /\ q.status = r.status
  <2>. HIDE DEF bit
  <2>. QED BY <1>2 DEF IsRtc
<1>6. IsRtc(q)
  <2>. DEFINE number == IF bit = 1 THEN SetBit(r.command, r.count, 1) ELSE r.command
              count == r.count - 1
  <2>1. number = q.command
    <3>. HIDE DEF bit
    <3>. QED BY DEF IsRtc
  <2>2. number \in Nat /\ count \in Int
    <3>1. number \in Nat
      BY <1>3, <1>4, <2>1
    <3>. QED BY <1>2, <3>1
  <2>3. q = [r EXCEPT !.count = count, !.command = number]
    OBVIOUS
  <2>. HIDE DEF number, q, count
  <2>. QED BY <2>2, <2>3 DEF IsRtc
<1>7. CommandBit(r, v, now) = IF q.count < 0 THEN Execute(q, now) ELSE q
  BY <1>1 DEF CommandBit, Clocked
<1>. HIDE DEF q
<1>8. CommandBit(r, v, now) = IF n = 7 THEN Execute(q, now) ELSE q
  BY <1>5, <1>7
<1>. QED BY <1>3, <1>5, <1>6, <1>8

-----------------------------------------------------------------------------
\* What the clock does with a command

\* The time as it is answered is seven bytes.
LEMMA ClockBytes ==
    ASSUME NEW now \in [1 .. 7 -> Nat]
    PROVE  /\ Clock(now) \in Seq(Nat) /\ Len(Clock(now)) = 7
           /\ SubSeq(Clock(now), 5, 7) \in Seq(Nat) /\ Len(SubSeq(Clock(now), 5, 7)) = 3
<1>1. ASSUME NEW n \in Nat
      PROVE  EncodeBcd(n) \in Nat
  BY DEF EncodeBcd
<1>2. Clock(now) \in [1 .. 7 -> Nat]
  <2>1. ASSUME NEW i \in 1 .. 7
        PROVE  EncodeBcd(IF i = 2 THEN now[i] + 1 ELSE now[i]) \in Nat
    <3>1. now[i] \in Nat /\ now[i] + 1 \in Nat
      OBVIOUS
    <3>2. CASE i = 2
      BY <1>1, <3>1, <3>2
    <3>3. CASE i # 2
      BY <1>1, <3>1, <3>3
    <3>. QED BY <3>2, <3>3
  <2>. QED BY <2>1 DEF Clock
<1>3. ASSUME NEW n \in Nat, NEW s \in [1 .. n -> Nat]
      PROVE  s \in Seq(Nat) /\ Len(s) = n
  OBVIOUS
<1>4. Clock(now) \in Seq(Nat) /\ Len(Clock(now)) = 7
  BY <1>2, <1>3
<1>. DEFINE clock == Clock(now)
<1>5. ASSUME NEW i \in 5 .. 7
      PROVE  clock[i] \in Nat
  <2>1. i \in 1 .. 7
    OBVIOUS
  <2>. QED BY <1>2, <2>1
<1>. HIDE DEF clock
<1>6. ASSUME NEW m \in Int, NEW n \in Int, \A i \in m .. n : clock[i] \in Nat
      PROVE  /\ SubSeq(clock, m, n) \in Seq(Nat)
             /\ Len(SubSeq(clock, m, n)) = IF m <= n THEN n - m + 1 ELSE 0
  BY <1>6, SubSeqProperties, Zenon
<1>7. 5 \in Int /\ 7 \in Int /\ 5 <= 7 /\ 7 - 5 + 1 = 3
  OBVIOUS
<1>8. SubSeq(clock, 5, 7) \in Seq(Nat) /\ Len(SubSeq(clock, 5, 7)) = 3
  BY <1>5, <1>6, <1>7
<1>. QED BY <1>4, <1>8 DEF clock

\* The clock once it has an answer to give, field by field
LEMMA OutputIs ==
    ASSUME NEW r, IsRtc(r), NEW bytes \in Seq(Nat), Len(bytes) \in 1 .. 7
    PROVE  LET w == Output(r, bytes)
           IN /\ IsRtc(w) /\ Holds(w, bytes) /\ w.count = 0
              /\ w.lines = r.lines /\ w.enable = r.enable
<1>. DEFINE d == [i \in 0 .. 6 |-> IF i < Len(bytes) THEN bytes[i + 1] ELSE r.data[i]]
            n == Len(bytes)
            w == [r EXCEPT !.state = "output", !.bytes = n, !.count = 0, !.data = d]
<1>0. ASSUME NEW k \in 1 .. 7, NEW i \in 0 .. k - 1
      PROVE  i \in 0 .. 6 /\ i < k
  OBVIOUS
<1>1. Output(r, bytes) = w
  BY DEF Output
<1>2. d \in [0 .. 6 -> Nat] /\ n \in Nat
  <2>1. ASSUME NEW i \in 0 .. 6
        PROVE  (IF i < Len(bytes) THEN bytes[i + 1] ELSE r.data[i]) \in Nat
    <3>1. r.data[i] \in Nat
      BY DEF IsRtc
    <3>2. i < Len(bytes) => i + 1 \in 1 .. Len(bytes)
      OBVIOUS
    <3>. QED BY <3>1, <3>2
  <2>. QED BY <2>1
<1>3. ASSUME NEW i \in 0 .. n - 1
      PROVE  d[i] = bytes[i + 1]
  <2>1. i \in 0 .. 6 /\ i < Len(bytes)
    BY <1>0
  <2>. QED BY <2>1
<1>. HIDE DEF d, n
<1>4. w = [field \in DOMAIN w |-> w[field]] /\ DOMAIN w = DOMAIN r
  BY DEF IsRtc
<1>5. /\ w.state = "output" /\ w.bytes = n /\ w.count = 0 /\ w.data = d
      /\ w.lines = r.lines /\ w.enable = r.enable /\ w.direction = r.direction
      /\ w.command = r.command /\ w.status = r.status
  BY DEF IsRtc
<1>. HIDE DEF w
<1>6. IsRtc(w)
  BY <1>2, <1>4, <1>5 DEF IsRtc, States
<1>. QED BY <1>1, <1>3, <1>5, <1>6 DEF Holds, n

\* What remains of a clock of which the registers are cleared
LEMMA RegistersCleared ==
    ASSUME NEW r, IsRtc(r)
    PROVE  /\ IsRtc(Clear(r))
           /\ Clear(r).lines = 0 /\ Clear(r).direction = 0 /\ Clear(r).enable = 0
           /\ Clear(r).count = r.count /\ Clear(r).command = r.command
<1>. DEFINE w == [r EXCEPT !.lines = 0, !.direction = 0, !.enable = 0]
<1>1. Clear(r) = w
  BY DEF Clear
<1>2. w = [field \in DOMAIN w |-> w[field]] /\ DOMAIN w = DOMAIN r
  BY DEF IsRtc
<1>3. /\ w.lines = 0 /\ w.direction = 0 /\ w.enable = 0
      /\ w.state = r.state /\ w.command = r.command /\ w.data = r.data
      /\ w.status = r.status /\ w.bytes = r.bytes /\ w.count = r.count
  BY DEF IsRtc
<1>. HIDE DEF w
<1>. QED BY <1>1, <1>2, <1>3 DEF IsRtc

\* An answer of one byte
One(byte) == <<byte>>

\* What a command does to a selected clock
LEMMA CommandExecuted ==
    ASSUME NEW r, IsRtc(r), NEW now \in Times, NEW w, w = Execute(r, now)
    PROVE  /\ r.command = 96 => IsRtc(w) /\ Shut(w, 0)
           /\ r.command = 98 => /\ IsRtc(w) /\ w.state = "input" /\ w.bytes = 1 /\ w.count = 0
                                /\ w.lines = r.lines /\ w.enable = r.enable
                                /\ w.direction = r.direction
           /\ r.command = 99 => w = Output(r, One(r.status))
           /\ r.command = 101 => w = Output(r, Clock(now))
           /\ r.command = 103 => w = Output(r, SubSeq(Clock(now), 5, 7))
<1>1. CASE r.command = 96
  <2>. DEFINE c == Clear(r)
              x == [c EXCEPT !.state = "idle", !.count = 0]
  <2>1. w = x
    BY <1>1 DEF Execute
  <2>2. IsRtc(c) /\ c.lines = 0 /\ c.enable = 0
    BY RegistersCleared
  <2>. HIDE DEF c
  <2>3. x = [field \in DOMAIN x |-> x[field]] /\ DOMAIN x = DOMAIN c
    BY <2>2 DEF IsRtc
  <2>4. /\ x.state = "idle" /\ x.count = 0 /\ x.lines = c.lines /\ x.enable = c.enable
        /\ x.direction = c.direction /\ x.command = c.command /\ x.data = c.data
        /\ x.status = c.status /\ x.bytes = c.bytes
    BY <2>2 DEF IsRtc
  <2>. HIDE DEF x
  <2>5. IsRtc(x) /\ Shut(x, 0)
    BY <2>2, <2>3, <2>4 DEF IsRtc, Shut, States
  <2>. QED BY <1>1, <2>1, <2>5
<1>2. CASE r.command = 98
  <2>. DEFINE x == [r EXCEPT !.state = "input", !.bytes = 1, !.count = 0]
  <2>1. w = x
    BY <1>2 DEF Execute
  <2>2. x = [field \in DOMAIN x |-> x[field]] /\ DOMAIN x = DOMAIN r
    BY DEF IsRtc
  <2>3. /\ x.state = "input" /\ x.count = 0 /\ x.lines = r.lines /\ x.enable = r.enable
        /\ x.direction = r.direction /\ x.command = r.command /\ x.data = r.data
        /\ x.status = r.status /\ x.bytes = 1
    BY DEF IsRtc
  <2>. HIDE DEF x
  <2>4. IsRtc(x)
    BY <2>2, <2>3 DEF IsRtc, States
  <2>. QED BY <1>2, <2>1, <2>3, <2>4
<1>. QED BY <1>1, <1>2 DEF Execute, One

-----------------------------------------------------------------------------
\* Writes while the select line is low, and to the other registers

\* The clock as the first access after a reset finds it
LEMMA WakeIs ==
    ASSUME NEW r, IsRtc(r), Waits(r)
    PROVE  /\ IsRtc(Wake(r)) /\ Wake(r).state = "idle"
           /\ Wake(r).lines = r.lines /\ Wake(r).enable = r.enable
<1>1. CASE r.state = "disabled"
  <2>. DEFINE w == [r EXCEPT !.state = "idle"]
  <2>1. w = [field \in DOMAIN w |-> w[field]] /\ DOMAIN w = DOMAIN r
    BY DEF IsRtc
  <2>2. /\ w.state = "idle" /\ w.lines = r.lines /\ w.enable = r.enable
        /\ w.direction = r.direction /\ w.command = r.command /\ w.data = r.data
        /\ w.status = r.status /\ w.bytes = r.bytes /\ w.count = r.count
    BY DEF IsRtc
  <2>. HIDE DEF w
  <2>3. IsRtc(w)
    BY <2>1, <2>2 DEF IsRtc, States
  <2>. QED BY <1>1, <2>2, <2>3 DEF Wake, w
<1>2. CASE r.state # "disabled"
  BY <1>2 DEF Wake, Waits
<1>. QED BY <1>1, <1>2

\* The lines are written while the select line is low, and this does not raise it.
LEMMA UnselectedWrite ==
    ASSUME NEW r, IsRtc(r), Waits(r), r.enable = 1, NEW p, NEW now
    PROVE  LET w == WriteLines(Both(r, p), 1, now)
           IN w.rtc = Latched(Wake(r), 1) /\ w.page = 1
<1>. DEFINE s == Both(r, p)
            k == Wake(r)
<1>1. s.rtc = r
  BY DEF Both
<1>2. IsRtc(k) /\ k.state = "idle" /\ k.lines = r.lines /\ k.enable = 1 /\ k.lines \in {0, 1}
  BY WakeIs DEF Waits
<1>3. Wake(s.rtc) = k
  BY <1>1
<1>. HIDE DEF s, k
<1>4. LinesWith(k, 1) = 1
  <2>1. BitOf(k.lines, 1) = 0
    BY <1>2, LineBits
  <2>2. SetBit(1, 1, 0) = 1
    BY LineBits
  <2>. QED BY <2>1, <2>2 DEF LinesWith
<1>5. BitOf(k.enable, 0) # 0
  <2>1. BitOf(1, 0) = 1
    BY LineBits
  <2>. QED BY <1>2, <2>1
<1>6. WriteLines(s, 1, now).rtc = React(Latched(k, 1), 1, now) /\ WriteLines(s, 1, now).page = 1
  BY <1>2, <1>3, <1>4, <1>5 DEF WriteLines, Latched
<1>7. React(Latched(k, 1), 1, now) = Latched(k, 1)
  <2>1. Latched(k, 1).state = "idle"
    BY <1>2, LatchedIs
  <2>. QED BY <2>1 DEF React
<1>. QED BY <1>6, <1>7 DEF s, k

\* The start of a command
LEMMA CommandStarts ==
    ASSUME NEW r, IsRtc(r), r.state = "idle", r.lines = 1, r.enable = 1, NEW p, NEW now
    PROVE  LET w == WriteLines(Both(r, p), 5, now)
           IN /\ IsRtc(w.rtc) /\ w.rtc.state = "command" /\ w.rtc.lines = 5
              /\ w.rtc.enable = 1 /\ w.rtc.command = 0 /\ w.rtc.count = 7 /\ w.page = 5
<1>. DEFINE s == Both(r, p)
            q == [r EXCEPT !.lines = 5, !.state = "command", !.command = 0, !.count = 7]
<1>1. s.rtc = r
  BY DEF Both
<1>2. Wake(s.rtc) = r
  BY <1>1 DEF Wake
<1>. HIDE DEF s
<1>3. LinesWith(r, 5) = 5
  <2>1. BitOf(1, 1) = 0 /\ BitOf(1, 2) = 0 /\ SetBit(5, 1, 0) = 5
    BY LineBits
  <2>. QED BY <2>1 DEF LinesWith
<1>4. BitOf(r.enable, 0) # 0
  <2>1. BitOf(1, 0) = 1
    BY LineBits
  <2>. QED BY <2>1
<1>5. WriteLines(s, 5, now).rtc = q /\ WriteLines(s, 5, now).page = 5
  BY <1>2, <1>3, <1>4 DEF WriteLines
<1>6. q = [field \in DOMAIN q |-> q[field]] /\ DOMAIN q = DOMAIN r
  BY DEF IsRtc
<1>7. /\ q.lines = 5 /\ q.state = "command" /\ q.command = 0 /\ q.count = 7
      /\ q.enable = r.enable /\ q.direction = r.direction /\ q.data = r.data
      /\ q.status = r.status /\ q.bytes = r.bytes
  BY DEF IsRtc
<1>. HIDE DEF q
<1>8. IsRtc(q)
  BY <1>6, <1>7 DEF IsRtc, States
<1>. QED BY <1>5, <1>7, <1>8 DEF s

\* The first write of the end of an answer or a reset enables the clock again.
LEMMA DisabledWrite ==
    ASSUME NEW r, IsRtc(r), Shut(r, 0), NEW p, NEW now
    PROVE  LET w == WriteLines(Both(r, p), 1, now)
           IN IsRtc(w.rtc) /\ Shut(w.rtc, 1) /\ w.page = p
<1>. DEFINE s == Both(r, p)
            q == [r EXCEPT !.enable = 1]
<1>1. s.rtc = r /\ s.page = p
  BY DEF Both
<1>2. Wake(s.rtc) = r
  BY <1>1 DEF Wake, Shut
<1>. HIDE DEF s
<1>3. LinesWith(r, 1) = 1 /\ BitOf(r.enable, 0) = 0
  <2>1. BitOf(0, 1) = 0 /\ BitOf(0, 2) = 0 /\ SetBit(1, 1, 0) = 1 /\ BitOf(0, 0) = 0
    BY LineBits
  <2>. QED BY <2>1 DEF LinesWith, Shut
<1>4. WriteLines(s, 1, now).rtc = q /\ WriteLines(s, 1, now).page = p
  BY <1>1, <1>2, <1>3 DEF WriteLines
<1>5. IsRtc(q) /\ Shut(q, 1)
  BY DEF IsRtc, Shut
<1>. QED BY <1>4, <1>5 DEF s

\* The two other registers given a value
Enabled(r, value) == [r EXCEPT !.enable = value]
Directed(r, value) == [r EXCEPT !.direction = value]

\* The clock with a new enable register, field by field
LEMMA EnabledIs ==
    ASSUME NEW r, IsRtc(r), NEW v \in 0 .. 7
    PROVE  LET w == Enabled(r, v)
           IN /\ IsRtc(w) /\ w.enable = v /\ w.state = r.state /\ w.lines = r.lines
              /\ w.direction = r.direction /\ w.command = r.command /\ w.count = r.count
              /\ w.bytes = r.bytes /\ w.data = r.data
BY DEF Enabled, IsRtc

\* The clock with new directions of its lines, field by field
LEMMA DirectedIs ==
    ASSUME NEW r, IsRtc(r), NEW v \in 0 .. 7
    PROVE  LET w == Directed(r, v)
           IN /\ IsRtc(w) /\ w.direction = v /\ w.state = r.state /\ w.lines = r.lines
              /\ w.enable = r.enable /\ w.command = r.command /\ w.count = r.count
              /\ w.bytes = r.bytes /\ w.data = r.data
BY DEF Directed, IsRtc

\* Writes to the registers of the direction and of the enable bit
LEMMA RegisterWrite ==
    ASSUME NEW r, IsRtc(r), NEW p, NEW v \in 0 .. 7, NEW now
    PROVE  LET d == WriteRtc(Both(r, p), "direction", v, now)
               e == WriteRtc(Both(r, p), "enable", v, now)
           IN /\ d.rtc = Directed(r, v) /\ d.page = p
              /\ e.rtc = Enabled(r, v) /\ e.page = p
              /\ WriteRtc(Both(r, p), "lines", v, now)
                   = WriteLines(Both(r, p), v, now)
<1>. DEFINE s == Both(r, p)
<1>1. s.rtc = r /\ s.page = p /\ DOMAIN s = {"rtc", "page"}
  BY DEF Both
<1>. HIDE DEF s
<1>2. /\ WriteRtc(s, "direction", v, now) = [s EXCEPT !.rtc.direction = v]
      /\ WriteRtc(s, "enable", v, now) = [s EXCEPT !.rtc.enable = v]
      /\ WriteRtc(s, "lines", v, now) = WriteLines(s, v, now)
  BY DEF WriteRtc
<1>3. /\ [s EXCEPT !.rtc.direction = v].rtc = [r EXCEPT !.direction = v]
      /\ [s EXCEPT !.rtc.direction = v].page = p
  BY <1>1
<1>4. /\ [s EXCEPT !.rtc.enable = v].rtc = [r EXCEPT !.enable = v]
      /\ [s EXCEPT !.rtc.enable = v].page = p
  BY <1>1
<1>. QED BY <1>2, <1>3, <1>4 DEF s, Directed, Enabled

-----------------------------------------------------------------------------
\* The steps of the game's driver

Ports == {"enable", "lines", "direction"}
Steps == [op : {"write", "sample"}, port : Ports, value : Int]

\* Two parts of a script put together
LEMMA StepsJoined ==
    ASSUME NEW s1 \in Seq(Steps), NEW s2 \in Seq(Steps)
    PROVE  /\ s1 \o s2 \in Seq(Steps) /\ Len(s1 \o s2) = Len(s1) + Len(s2)
           /\ \A i \in 1 .. Len(s1) : (s1 \o s2)[i] = s1[i]
           /\ \A i \in 1 .. Len(s2) : (s1 \o s2)[Len(s1) + i] = s2[i]
<1>1. /\ s1 \o s2 \in Seq(Steps) /\ Len(s1 \o s2) = Len(s1) + Len(s2)
      /\ \A i \in 1 .. Len(s1) + Len(s2) :
           (s1 \o s2)[i] = IF i <= Len(s1) THEN s1[i] ELSE s2[i - Len(s1)]
  BY ConcatProperties
<1>2. ASSUME NEW i \in 1 .. Len(s2)
      PROVE  /\ Len(s1) + i \in 1 .. Len(s1) + Len(s2) /\ ~(Len(s1) + i <= Len(s1))
             /\ (Len(s1) + i) - Len(s1) = i
  OBVIOUS
<1>. QED BY <1>1, <1>2

\* A function on 1 .. n is a sequence of length n.
LEMMA StepsListed ==
    ASSUME NEW n \in Nat, NEW s \in [1 .. n -> Steps]
    PROVE  s \in Seq(Steps) /\ Len(s) = n
OBVIOUS

\* A write of the driver, field by field
LEMMA WriteIs ==
    ASSUME NEW port \in Ports, NEW value \in Int
    PROVE  /\ Write(port, value) \in Steps /\ Write(port, value).op = "write"
           /\ Write(port, value).port = port /\ Write(port, value).value = value
BY DEF Write, Steps

\* The reading of a line is a step of its own kind.
LEMMA SampleIs == Sample \in Steps /\ Sample.op = "sample"
BY DEF Sample, Steps, Ports

\* The bits of a number are 0 or 1.
LEMMA ByteBits ==
    ASSUME NEW b \in Nat, NEW i \in 0 .. 7
    PROVE  BitOf(b, i) \in {0, 1}
<1>1. i \in 0 .. 13
  OBVIOUS
<1>. QED BY <1>1, Halves DEF Bit

\* The parts that scripts are made of, and their lengths
LEMMA PartsAreSteps ==
    ASSUME NEW c \in Nat
    PROVE  /\ Select \in Seq(Steps) /\ Len(Select) = 4
           /\ CommandBits(c) \in Seq(Steps) /\ Len(CommandBits(c)) = 16
           /\ SentByte(c) \in Seq(Steps) /\ Len(SentByte(c)) = 16
           /\ Release \in Seq(Steps) /\ Len(Release) = 2
<1>. USE DEF Ports
<1>1. Select \in Seq(Steps) /\ Len(Select) = 4
  <2>1. /\ Write("enable", 1) \in Steps /\ Write("lines", 1) \in Steps
        /\ Write("lines", 5) \in Steps /\ Write("direction", 7) \in Steps
    BY WriteIs
  <2>. QED BY <2>1 DEF Select
<1>2. Release \in Seq(Steps) /\ Len(Release) = 2
  <2>1. Write("lines", 1) \in Steps
    BY WriteIs
  <2>. QED BY <2>1 DEF Release
<1>3. CommandBits(c) \in [1 .. 16 -> Steps]
  <2>1. ASSUME NEW i \in 1 .. 16
        PROVE  Write("lines", 4 + 2 * BitOf(c, 7 - (i - 1) \div 2) + ((i - 1) % 2)) \in Steps
    <3>1. 7 - (i - 1) \div 2 \in 0 .. 7 /\ (i - 1) % 2 \in {0, 1}
      OBVIOUS
    <3>2. BitOf(c, 7 - (i - 1) \div 2) \in {0, 1}
      BY <3>1, ByteBits
    <3>3. "lines" \in Ports /\ 4 + 2 * BitOf(c, 7 - (i - 1) \div 2) + ((i - 1) % 2) \in Int
      BY <3>1, <3>2
    <3>. QED BY <3>3, WriteIs
  <2>. QED BY <2>1 DEF CommandBits
<1>4. SentByte(c) \in [1 .. 16 -> Steps]
  <2>1. ASSUME NEW i \in 1 .. 16
        PROVE  Write("lines", 4 + 2 * BitOf(c, (i - 1) \div 2) + ((i - 1) % 2)) \in Steps
    <3>1. (i - 1) \div 2 \in 0 .. 7 /\ (i - 1) % 2 \in {0, 1}
      OBVIOUS
    <3>2. BitOf(c, (i - 1) \div 2) \in {0, 1}
      BY <3>1, ByteBits
    <3>3. "lines" \in Ports /\ 4 + 2 * BitOf(c, (i - 1) \div 2) + ((i - 1) % 2) \in Int
      BY <3>1, <3>2
    <3>. QED BY <3>3, WriteIs
  <2>. QED BY <2>1 DEF SentByte
<1>5. 16 \in Nat
  OBVIOUS
<1>. QED BY <1>1, <1>2, <1>3, <1>4, <1>5, StepsListed

\* What a command's script has between the command and the release
Body(c) == CASE c = 96 -> << >>
             [] c = 98 -> SentByte(66)
             [] OTHER -> ReadBytes(AnswerBytes(c))

ReadStepOf(i) ==
    CASE i % 3 = 1 -> Write("lines", 4) [] i % 3 = 2 -> Write("lines", 5) [] OTHER -> Sample

\* The part between the command and the release, by its places
LEMMA BodyIs ==
    ASSUME NEW c \in {96, 98, 99, 101, 103}
    PROVE  /\ Body(c) \in Seq(Steps) /\ Len(Body(c)) = LastStep(c) - 22
           /\ LastStep(c) \in Nat
           /\ Answers(c) => /\ Body(c)[1] = Write("direction", 5)
                            /\ \A i \in 1 .. 24 * AnswerBytes(c) : Body(c)[1 + i] = ReadStepOf(i)
<1>1. CASE c = 96
  BY <1>1 DEF Body, LastStep, Answers
<1>2. CASE c = 98
  <2>1. 66 \in Nat
    OBVIOUS
  <2>. QED BY <1>2, <2>1, PartsAreSteps DEF Body, LastStep, Answers
<1>3. CASE c \in {99, 101, 103}
  <2>. DEFINE n == AnswerBytes(c)
              s == [i \in 1 .. 24 * n |-> ReadStepOf(i)]
              first == <<Write("direction", 5)>>
  <2>1. n \in {1, 3, 7} /\ 24 * n \in Nat /\ LastStep(c) = 22 + (1 + 24 * n)
    BY <1>3 DEF AnswerBytes, LastStep
  <2>2. s \in Seq(Steps) /\ Len(s) = 24 * n
    <3>1. ASSUME NEW i \in 1 .. 24 * n
          PROVE  ReadStepOf(i) \in Steps
      BY WriteIs, SampleIs DEF ReadStepOf, Ports
    <3>. HIDE DEF n
    <3>2. s \in [1 .. 24 * n -> Steps]
      BY <3>1
    <3>. HIDE DEF s
    <3>. QED BY <2>1, <3>2, StepsListed
  <2>3. first \in Seq(Steps) /\ Len(first) = 1 /\ first[1] = Write("direction", 5)
    <3>1. Write("direction", 5) \in Steps
      BY WriteIs DEF Ports
    <3>. QED BY <3>1
  <2>4. Body(c) = first \o s
    <3>1. Body(c) = ReadBytes(n)
      BY <1>3 DEF Body
    <3>. HIDE DEF n
    <3>. QED BY <3>1 DEF ReadBytes, ReadStepOf
  <2>5. \A i \in 1 .. 24 * n : s[i] = ReadStepOf(i)
    OBVIOUS
  <2>. HIDE DEF s, n, first
  <2>6. /\ first \o s \in Seq(Steps) /\ Len(first \o s) = 1 + 24 * n
        /\ (first \o s)[1] = first[1]
        /\ \A i \in 1 .. 24 * n : (first \o s)[1 + i] = s[i]
    <3>1. /\ first \o s \in Seq(Steps) /\ Len(first \o s) = Len(first) + Len(s)
          /\ \A i \in 1 .. Len(first) : (first \o s)[i] = first[i]
          /\ \A i \in 1 .. Len(s) : (first \o s)[Len(first) + i] = s[i]
      BY <2>2, <2>3, StepsJoined
    <3>. QED BY <2>1, <2>2, <2>3, <3>1, SMTT(20)
  <2>. DEFINE body == first \o s
  <2>7. /\ body \in Seq(Steps) /\ Len(body) = LastStep(c) - 22 /\ LastStep(c) \in Nat
        /\ body[1] = Write("direction", 5)
        /\ \A i \in 1 .. 24 * n : body[1 + i] = ReadStepOf(i)
    <3>1. body \in Seq(Steps) /\ LastStep(c) \in Nat
      BY <2>1, <2>6
    <3>2. Len(body) = LastStep(c) - 22
      BY <2>1, <2>6
    <3>. QED BY <2>3, <2>5, <2>6, <3>1, <3>2
  <2>. HIDE DEF body
  <2>. QED BY <2>4, <2>7 DEF n, body
<1>. QED BY <1>1, <1>2, <1>3

\* The steps of a script
LEMMA ScriptIs ==
    ASSUME NEW c \in {96, 98, 99, 101, 103}
    PROVE  /\ Len(Script(c)) = LastStep(c)
           /\ \A i \in 1 .. 4 : Script(c)[i] = Select[i]
           /\ \A i \in 1 .. 16 : Script(c)[4 + i] = CommandBits(c)[i]
           /\ \A i \in 1 .. Len(Body(c)) : Script(c)[20 + i] = Body(c)[i]
           /\ \A i \in 1 .. 2 : Script(c)[LastStep(c) - 2 + i] = Release[i]
<1>. DEFINE s == Select
            b == CommandBits(c)
            d == Body(c)
            e == Release
<1>1. Script(c) = ((s \o b) \o d) \o e
  BY DEF Script, Body
<1>2. s \in Seq(Steps) /\ b \in Seq(Steps) /\ e \in Seq(Steps)
  BY PartsAreSteps
<1>3. Len(s) = 4 /\ Len(b) = 16 /\ Len(e) = 2
  BY PartsAreSteps
<1>4. d \in Seq(Steps)
  BY BodyIs
<1>5. PICK n \in Nat : Len(d) = n /\ LastStep(c) = n + 22
  <2>1. Len(d) \in Nat
    BY <1>4
  <2>2. Len(d) = LastStep(c) - 22 /\ LastStep(c) \in Nat
    BY BodyIs, ZenonT(20)
  <2>. HIDE DEF d
  <2>. QED BY <2>1, <2>2
<1>. HIDE DEF s, b, d, e
<1>. DEFINE t == s \o b
            u == t \o d
            w == u \o e
<1>6. t \in Seq(Steps) /\ u \in Seq(Steps)
  <2>1. t \in Seq(Steps)
    BY <1>2, ConcatProperties
  <2>. HIDE DEF t
  <2>. QED BY <1>4, <2>1, ConcatProperties
<1>7. /\ Len(t) = Len(s) + Len(b)
      /\ \A i \in 1 .. Len(s) : t[i] = s[i]
      /\ \A i \in 1 .. Len(b) : t[Len(s) + i] = b[i]
  BY <1>2, StepsJoined
<1>. HIDE DEF t
<1>8. /\ Len(u) = Len(t) + Len(d)
      /\ \A i \in 1 .. Len(t) : u[i] = t[i]
      /\ \A i \in 1 .. Len(d) : u[Len(t) + i] = d[i]
  BY <1>4, <1>6, StepsJoined
<1>. HIDE DEF u
<1>9. /\ w \in Seq(Steps) /\ Len(w) = Len(u) + Len(e)
      /\ \A i \in 1 .. Len(u) : w[i] = u[i]
      /\ \A i \in 1 .. Len(e) : w[Len(u) + i] = e[i]
  BY <1>2, <1>6, StepsJoined
<1>. HIDE DEF w
<1>10. Script(c) = w
  BY <1>1 DEF w, u, t
<1>11. Len(t) = 20 /\ Len(u) = n + 20 /\ Len(w) = n + 22
  BY <1>3, <1>5, <1>7, <1>8, <1>9
<1>12. ASSUME NEW i \in 1 .. 4
       PROVE  w[i] = s[i]
  <2>1. i \in 1 .. Len(s) /\ i \in 1 .. Len(t) /\ i \in 1 .. Len(u)
    BY <1>3, <1>11
  <2>. QED BY <1>7, <1>8, <1>9, <2>1
<1>13. ASSUME NEW i \in 1 .. 16
       PROVE  w[4 + i] = b[i]
  <2>1. i \in 1 .. Len(b) /\ 4 + i \in 1 .. Len(t) /\ 4 + i \in 1 .. Len(u)
    BY <1>3, <1>11
  <2>2. t[4 + i] = b[i]
    BY <1>3, <1>7, <2>1
  <2>. QED BY <1>8, <1>9, <2>1, <2>2
<1>14. ASSUME NEW i \in 1 .. Len(d)
       PROVE  w[20 + i] = d[i]
  <2>1. 20 + i \in 1 .. Len(u)
    BY <1>5, <1>11
  <2>2. u[20 + i] = d[i]
    BY <1>8, <1>11
  <2>. QED BY <1>9, <2>1, <2>2
<1>15. ASSUME NEW i \in 1 .. 2
       PROVE  w[LastStep(c) - 2 + i] = e[i]
  <2>1. i \in 1 .. Len(e) /\ LastStep(c) - 2 + i = Len(u) + i
    BY <1>3, <1>5, <1>11
  <2>. QED BY <1>9, <2>1
<1>16. Len(w) = LastStep(c)
  BY <1>5, <1>11
<1>. QED BY <1>10, <1>12, <1>13, <1>14, <1>15, <1>16 DEF s, b, d, e

-----------------------------------------------------------------------------
\* What a step of the driver does to the clock

\* The four writes that enable the clock, select it and turn the data line
LEMMA SelectStep ==
    ASSUME NEW r, IsRtc(r), NEW p \in 0 .. 7, NEW now, NEW c \in Nat, c < 256, NEW k \in 1 .. 4,
           SelectAt(r, k), CommandAt(r, c, k),
           NEW w, w = WriteRtc(Both(r, p), Select[k].port, Select[k].value, now)
    PROVE  /\ IsRtc(w.rtc) /\ w.page \in 0 .. 7
           /\ SelectAt(w.rtc, k + 1) /\ CommandAt(w.rtc, c, k + 1)
<1>1. /\ Select[1].port = "enable" /\ Select[1].value = 1
      /\ Select[2].port = "lines" /\ Select[2].value = 1
      /\ Select[3].port = "lines" /\ Select[3].value = 5
      /\ Select[4].port = "direction" /\ Select[4].value = 7
  BY DEF Select, Write
<1>2. CASE k = 1
  <2>1. w.rtc = Enabled(r, 1) /\ w.page = p
    BY <1>1, <1>2, RegisterWrite
  <2>2. IsRtc(w.rtc) /\ w.rtc.enable = 1 /\ w.rtc.state = r.state /\ w.rtc.lines = r.lines
    BY <2>1, EnabledIs
  <2>. QED BY <1>2, <2>1, <2>2 DEF SelectAt, CommandAt, Waits
<1>3. CASE k = 2
  <2>1. Waits(r) /\ r.enable = 1
    BY <1>3 DEF SelectAt
  <2>2. w.rtc = Latched(Wake(r), 1) /\ w.page = 1
    BY <1>1, <1>3, <2>1, RegisterWrite, UnselectedWrite
  <2>3. IsRtc(Wake(r)) /\ Wake(r).state = "idle" /\ Wake(r).enable = 1
    BY <2>1, WakeIs
  <2>4. IsRtc(w.rtc) /\ w.rtc.state = "idle" /\ w.rtc.lines = 1 /\ w.rtc.enable = 1
    BY <2>2, <2>3, LatchedIs
  <2>. QED BY <1>3, <2>2, <2>4 DEF SelectAt, CommandAt
<1>4. CASE k = 3
  <2>1. r.state = "idle" /\ r.lines = 1 /\ r.enable = 1
    BY <1>4 DEF SelectAt
  <2>2. /\ IsRtc(w.rtc) /\ w.rtc.state = "command" /\ w.rtc.lines = 5 /\ w.rtc.enable = 1
        /\ w.rtc.command = 0 /\ w.rtc.count = 7 /\ w.page = 5
    BY <1>1, <1>4, <2>1, RegisterWrite, CommandStarts
  <2>3. Taken(c, 0) = 0
    BY TakenNext
  <2>4. SelectAt(w.rtc, 4)
    BY DEF SelectAt
  <2>5. CommandAt(w.rtc, c, 4)
    BY <2>2, <2>3 DEF CommandAt, Selected, TakesBit
  <2>. QED BY <1>4, <2>2, <2>4, <2>5
<1>5. CASE k = 4
  <2>1. w.rtc = Directed(r, 7) /\ w.page = p
    BY <1>1, <1>5, RegisterWrite
  <2>2. /\ IsRtc(w.rtc) /\ w.rtc.direction = 7 /\ w.rtc.state = r.state /\ w.rtc.lines = r.lines
        /\ w.rtc.enable = r.enable /\ w.rtc.command = r.command /\ w.rtc.count = r.count
    BY <2>1, DirectedIs
  <2>3. Selected(r) /\ TakesBit(r, c, 0)
    BY <1>5 DEF CommandAt
  <2>4. (5 - 5) \div 2 = 0
    OBVIOUS
  <2>5. CommandAt(w.rtc, c, 5)
    BY <2>2, <2>3, <2>4 DEF CommandAt, Selected, TakesBit
  <2>6. SelectAt(w.rtc, 5)
    BY DEF SelectAt
  <2>. QED BY <1>5, <2>1, <2>2, <2>5, <2>6
<1>. QED BY <1>2, <1>3, <1>4, <1>5

\* The last bit of a command has arrived: x is what executing it makes of the clock.
Completed(r, x, c, now) ==
    \E q : /\ IsRtc(q) /\ q.command = c /\ Selected(q) /\ q.direction = 7
           /\ q.status = r.status /\ x = Execute(q, now)

\* A bit of the command, in two steps
LEMMA CommandStep ==
    ASSUME NEW r, IsRtc(r), NEW p, NEW now, NEW c \in Nat, c < 256, NEW i \in 1 .. 16,
           CommandAt(r, c, 4 + i),
           NEW w, w = WriteRtc(Both(r, p), CommandBits(c)[i].port,
                               CommandBits(c)[i].value, now)
    PROVE  /\ w.page \in 0 .. 7
           /\ i < 16 => IsRtc(w.rtc) /\ CommandAt(w.rtc, c, 5 + i)
           /\ i = 16 => Completed(r, w.rtc, c, now)
<1>. DEFINE n == (i - 1) \div 2
            b == BitOf(c, 7 - n)
            v == 4 + 2 * b + ((i - 1) % 2)
            l == Latched(r, v)
<1>1. n \in 0 .. 7 /\ (i - 1) % 2 \in {0, 1} /\ ((4 + i) - 5) \div 2 = n
  OBVIOUS
<1>2. b \in {0, 1}
  BY <1>1, TakenNext
<1>3. CommandBits(c)[i].port = "lines" /\ CommandBits(c)[i].value = v
  BY DEF CommandBits, Write
<1>4. /\ v \in 4 .. 7 /\ v \in 0 .. 7 /\ v % 2 = (i - 1) % 2 /\ (v \div 2) % 2 = b
  <2>. HIDE DEF b, n
  <2>. QED BY <1>1, <1>2
<1>. HIDE DEF n, b, v
<1>5. Selected(r) /\ r.direction = 7 /\ TakesBit(r, c, n)
  <2>1. 4 + i \in 4 .. 20 /\ 4 + i \in 5 .. 20
    OBVIOUS
  <2>. QED BY <1>1, <2>1 DEF CommandAt
<1>6. r.state = "command"
  BY <1>5 DEF TakesBit
<1>7. /\ IsRtc(l) /\ l.lines = v /\ l.state = "command" /\ l.direction = 7 /\ l.enable = 1
      /\ l.command = r.command /\ l.status = r.status /\ l.count = r.count
  BY <1>4, <1>5, <1>6, LatchedIs DEF Selected
<1>8. w.rtc = CommandBit(l, v, now) /\ w.page = v
  <2>1. w = WriteLines(Both(r, p), v, now)
    BY <1>3, <1>4, RegisterWrite
  <2>2. w.rtc = React(l, v, now) /\ w.page = v
    BY <1>4, <1>5, <1>6, <2>1, SelectedWrite
  <2>. HIDE DEF l
  <2>. QED BY <1>7, <2>2 DEF React
<1>. HIDE DEF l
<1>9. TakesBit(l, c, n) /\ Selected(l)
  BY <1>4, <1>5, <1>7 DEF TakesBit, Selected
<1>10. ASSUME NEW q, IsRtc(q), Selected(q), q.direction = 7, i < 16,
              TakesBit(q, c, ((5 + i) - 5) \div 2)
       PROVE  CommandAt(q, c, 5 + i)
  <2>1. 5 + i # 4
    OBVIOUS
  <2>. QED BY <1>10, <2>1 DEF CommandAt
<1>11. CASE (i - 1) % 2 = 0
  <2>1. ~Clocked(v)
    <3>1. BitOf(v, 0) = v % 2
      BY <1>4, LineBits
    <3>. QED BY <1>4, <1>11, <3>1 DEF Clocked
  <2>2. w.rtc = l
    BY <1>8, <2>1 DEF CommandBit
  <2>3. i < 16 /\ ((5 + i) - 5) \div 2 = n
    BY <1>11 DEF n
  <2>. QED BY <1>4, <1>7, <1>8, <1>9, <1>10, <2>2, <2>3
<1>12. CASE (i - 1) % 2 = 1
  <2>1. PICK q :
          /\ IsRtc(q) /\ q.state = "command" /\ q.count = 6 - n /\ q.command = Taken(c, n + 1)
          /\ q.lines = l.lines /\ q.direction = l.direction /\ q.enable = l.enable
          /\ q.data = l.data /\ q.status = l.status
          /\ CommandBit(l, v, now) = IF n = 7 THEN Execute(q, now) ELSE q
    BY <1>1, <1>4, <1>7, <1>9, <1>12, BitTaken DEF b
  <2>2. Selected(q) /\ q.direction = 7 /\ q.status = r.status
    BY <1>4, <1>7, <2>1 DEF Selected
  <2>3. (n = 7 <=> i = 16) /\ ((5 + i) - 5) \div 2 = n + 1
    BY <1>12 DEF n
  <2>4. i < 16 => TakesBit(q, c, n + 1)
    BY <1>1, <2>1 DEF TakesBit
  <2>5. i < 16 => IsRtc(w.rtc) /\ CommandAt(w.rtc, c, 5 + i)
    BY <1>8, <1>10, <2>1, <2>2, <2>3, <2>4
  <2>6. i = 16 => q.command = c /\ w.rtc = Execute(q, now)
    BY <1>8, <2>1, <2>3, TakenNext
  <2>7. i = 16 => Completed(r, w.rtc, c, now)
    BY <2>1, <2>2, <2>6 DEF Completed
  <2>. QED BY <1>4, <1>8, <2>5, <2>7
<1>. QED BY <1>1, <1>11, <1>12

\* What a command asks this clock for
WantedOf(r, command, now) ==
    CASE command = 99 -> One(r.status)
      [] command = 101 -> Clock(now)
      [] command = 103 -> SubSeq(Clock(now), 5, 7)
      [] OTHER -> << >>

\* The command is complete: what follows depends on it.
LEMMA ExecuteStep ==
    ASSUME NEW q, IsRtc(q), Selected(q), q.direction = 7, NEW now \in [1 .. 7 -> Nat],
           now \in Times, q.command \in {96, 98, 99, 101, 103},
           NEW bytes, bytes = WantedOf(q, q.command, now),
           NEW w, w = Execute(q, now)
    PROVE  /\ IsRtc(w) /\ bytes \in Seq(Nat)
           /\ q.command = 96 => ResetAt(w, 21)
           /\ q.command = 98 => InputAt(w, 21)
           /\ Answers(q.command) => OutputAt(w, bytes, 21) /\ Len(bytes) = AnswerBytes(q.command)
<1>1. CASE q.command = 96
  <2>1. IsRtc(w) /\ Shut(w, 0)
    BY <1>1, CommandExecuted
  <2>2. bytes \in Seq(Nat)
    <3>1. bytes = << >>
      BY <1>1 DEF WantedOf
    <3>. QED BY <3>1
  <2>. QED BY <1>1, <2>1, <2>2 DEF ResetAt, Answers
<1>2. CASE q.command = 98
  <2>1. /\ IsRtc(w) /\ w.state = "input" /\ w.bytes = 1 /\ w.count = 0
        /\ w.lines = q.lines /\ w.enable = q.enable /\ w.direction = q.direction
    BY <1>2, CommandExecuted
  <2>2. (21 - 21) \div 2 = 0
    OBVIOUS
  <2>3. InputAt(w, 21)
    BY <2>1, <2>2 DEF InputAt, Selected
  <2>4. bytes \in Seq(Nat)
    <3>1. bytes = << >>
      BY <1>2 DEF WantedOf
    <3>. QED BY <3>1
  <2>. QED BY <1>2, <2>1, <2>3, <2>4 DEF Answers
<1>3. CASE q.command \in {99, 101, 103}
  <2>1. /\ q.status \in Nat /\ Clock(now) \in Seq(Nat) /\ Len(Clock(now)) = 7
        /\ SubSeq(Clock(now), 5, 7) \in Seq(Nat) /\ Len(SubSeq(Clock(now), 5, 7)) = 3
    BY ClockBytes DEF IsRtc
  <2>2. One(q.status) \in Seq(Nat) /\ Len(One(q.status)) = 1
    BY <2>1 DEF One
  <2>. DEFINE one == One(q.status)
              all == Clock(now)
              some == SubSeq(Clock(now), 5, 7)
  <2>3. /\ q.command = 99 => w = Output(q, one) /\ bytes = one
        /\ q.command = 101 => w = Output(q, all) /\ bytes = all
        /\ q.command = 103 => w = Output(q, some) /\ bytes = some
    <3>1. /\ q.command = 99 => w = Output(q, one)
          /\ q.command = 101 => w = Output(q, all)
          /\ q.command = 103 => w = Output(q, some)
      BY CommandExecuted
    <3>2. /\ q.command = 99 => bytes = one
          /\ q.command = 101 => bytes = all
          /\ q.command = 103 => bytes = some
      BY DEF WantedOf
    <3>. QED BY <3>1, <3>2
  <2>. HIDE DEF one, all, some
  <2>4. bytes \in Seq(Nat)
    BY <1>3, <2>1, <2>2, <2>3, ZenonT(20) DEF one, all, some
  <2>9. Len(bytes) = AnswerBytes(q.command)
    <3>1. /\ q.command = 99 => Len(bytes) = 1
          /\ q.command = 101 => Len(bytes) = 7
          /\ q.command = 103 => Len(bytes) = 3
      BY <2>1, <2>2, <2>3 DEF one, all, some
    <3>. QED BY <1>3, <3>1 DEF AnswerBytes
  <2>5. w = Output(q, bytes)
    BY <1>3, <2>3
  <2>6. Len(bytes) \in 1 .. 7
    BY <1>3, <2>9 DEF AnswerBytes
  <2>7. /\ IsRtc(w) /\ Holds(w, bytes) /\ w.count = 0
        /\ w.lines = q.lines /\ w.enable = q.enable
    BY <2>4, <2>5, <2>6, OutputIs
  <2>8. OutputAt(w, bytes, 21)
    <3>1. Holds(w, bytes) /\ Selected(w) /\ w.count = 0
      BY <2>7 DEF Selected
    <3>2. Len(bytes) \in Nat
      BY <2>6
    <3>. QED BY <3>1, <3>2 DEF OutputAt
  <2>. QED BY <1>3, <2>4, <2>7, <2>8, <2>9, SMTT(20)
<1>. QED BY <1>1, <1>2, <1>3

\* A bit of the status, in two steps
LEMMA InputStep ==
    ASSUME NEW r, IsRtc(r), NEW p, NEW now, NEW i \in 1 .. 16, InputAt(r, 20 + i),
           NEW w, w = WriteRtc(Both(r, p), SentByte(66)[i].port, SentByte(66)[i].value, now)
    PROVE  w.page \in 0 .. 7 /\ IsRtc(w.rtc) /\ InputAt(w.rtc, 21 + i)
<1>. DEFINE n == (i - 1) \div 2
            b == BitOf(66, n)
            v == 4 + 2 * b + ((i - 1) % 2)
            l == Latched(r, v)
<1>1. n \in 0 .. 7 /\ (i - 1) % 2 \in {0, 1} /\ ((20 + i) - 21) \div 2 = n
  OBVIOUS
<1>2. b \in {0, 1}
  BY <1>1, ByteBits
<1>3. SentByte(66)[i].port = "lines" /\ SentByte(66)[i].value = v
  BY DEF SentByte, Write
<1>4. v \in 4 .. 7 /\ v \in 0 .. 7 /\ v % 2 = (i - 1) % 2
  <2>. HIDE DEF b, n
  <2>. QED BY <1>1, <1>2
<1>. HIDE DEF n, b, v
<1>5. r.state = "input" /\ Selected(r) /\ r.direction = 7 /\ r.bytes = 1 /\ r.count = n
  <2>1. 20 + i \in 21 .. 36
    OBVIOUS
  <2>. QED BY <1>1, <2>1 DEF InputAt
<1>6. /\ IsRtc(l) /\ l.lines = v /\ l.state = "input" /\ l.direction = 7 /\ l.enable = 1
      /\ l.count = n /\ l.bytes = 1
  BY <1>4, <1>5, LatchedIs DEF Selected
<1>7. w.rtc = InputBit(l, v) /\ w.page = v
  <2>1. w = WriteLines(Both(r, p), v, now)
    BY <1>3, <1>4, RegisterWrite
  <2>2. w.rtc = React(l, v, now) /\ w.page = v
    BY <1>4, <1>5, <2>1, SelectedWrite
  <2>. HIDE DEF l
  <2>. QED BY <1>6, <2>2 DEF React
<1>. HIDE DEF l
<1>8. BitOf(l.direction, 1) = 1 /\ BitOf(v, 0) = v % 2
  <2>1. BitOf(7, 1) = 1
    BY LineBits
  <2>. QED BY <1>4, <1>6, <2>1, LineBits
<1>9. CASE (i - 1) % 2 = 0
  <2>1. w.rtc = l
    BY <1>4, <1>7, <1>8, <1>9 DEF InputBit, Clocked
  <2>2. 21 + i \in 21 .. 36 /\ 21 + i \notin {37, 38} /\ ((21 + i) - 21) \div 2 = n
    BY <1>9 DEF n
  <2>. QED BY <1>4, <1>6, <1>7, <2>1, <2>2 DEF InputAt, Selected
<1>10. CASE (i - 1) % 2 = 1 /\ i # 16
  <2>. DEFINE q == [l EXCEPT !.count = @ + 1]
  <2>1. n + 1 # 8 /\ 21 + i \in 21 .. 36 /\ 21 + i \notin {37, 38}
        /\ ((21 + i) - 21) \div 2 = n + 1
    BY <1>10 DEF n
  <2>2. w.rtc = q
    BY <1>4, <1>6, <1>7, <1>8, <1>10, <2>1 DEF InputBit, Clocked
  <2>3. /\ IsRtc(q) /\ q.count = n + 1 /\ q.lines = v /\ q.state = "input" /\ q.direction = 7
        /\ q.enable = 1 /\ q.bytes = 1
    BY <1>1, <1>6 DEF IsRtc
  <2>. HIDE DEF q
  <2>. QED BY <1>4, <1>7, <2>1, <2>2, <2>3 DEF InputAt, Selected
<1>11. CASE i = 16
  <2>. DEFINE q == [l EXCEPT !.count = @ + 1, !.state = "idle", !.status = l.data[0]]
  <2>1. n + 1 = 8 /\ 21 + i = 37 /\ (i - 1) % 2 = 1
    BY <1>11 DEF n
  <2>2. w.rtc = q
    BY <1>4, <1>6, <1>7, <1>8, <2>1 DEF InputBit, Clocked
  <2>3. q = [field \in DOMAIN q |-> q[field]] /\ DOMAIN q = DOMAIN l
    BY <1>6 DEF IsRtc
  <2>4. /\ q.count = l.count + 1 /\ q.state = "idle" /\ q.status = l.data[0]
        /\ q.lines = l.lines /\ q.direction = l.direction /\ q.enable = l.enable
        /\ q.command = l.command /\ q.data = l.data /\ q.bytes = l.bytes
    BY <1>6 DEF IsRtc
  <2>. HIDE DEF q
  <2>5. IsRtc(q)
    BY <1>6, <2>3, <2>4 DEF IsRtc, States
  <2>6. InputAt(w.rtc, 37)
    BY <1>4, <1>6, <2>2, <2>4 DEF InputAt, Selected
  <2>. QED BY <1>4, <1>7, <2>1, <2>2, <2>5, <2>6
<1>. QED BY <1>1, <1>9, <1>10, <1>11

\* The release of the lines
LEMMA ReleaseStep ==
    ASSUME NEW r, IsRtc(r), NEW p \in 0 .. 7, NEW now, NEW w, w = WriteRtc(Both(r, p), "lines", 1, now)
    PROVE  /\ Shut(r, 0) => IsRtc(w.rtc) /\ Shut(w.rtc, 1) /\ w.page \in 0 .. 7
           /\ InputAt(r, 37) => IsRtc(w.rtc) /\ InputAt(w.rtc, 38) /\ w.page \in 0 .. 7
           /\ Shut(r, 1) \/ InputAt(r, 38) => IsRtc(w.rtc) /\ Waits(w.rtc) /\ w.page \in 0 .. 7
<1>1. w = WriteLines(Both(r, p), 1, now)
  BY RegisterWrite
<1>2. CASE Shut(r, 0)
  <2>1. IsRtc(w.rtc) /\ Shut(w.rtc, 1) /\ w.page \in 0 .. 7
    BY <1>1, <1>2, DisabledWrite
  <2>2. ~InputAt(r, 37) /\ ~InputAt(r, 38)
    BY <1>2 DEF Shut, InputAt, Selected
  <2>3. ~Shut(r, 1)
    BY <1>2 DEF Shut
  <2>. QED BY <1>2, <2>1, <2>2, <2>3
<1>3. ASSUME InputAt(r, 37)
      PROVE  IsRtc(w.rtc) /\ InputAt(w.rtc, 38) /\ w.page \in 0 .. 7
  <2>. DEFINE l == Latched(r, 1)
  <2>1. r.state = "idle" /\ Selected(r)
    BY <1>3 DEF InputAt
  <2>2. w.rtc = React(l, 1, now) /\ w.page = 1
    BY <1>1, <2>1, SelectedWrite
  <2>3. IsRtc(l) /\ l.lines = 1 /\ l.state = "idle" /\ l.enable = 1
    BY <2>1, LatchedIs DEF Selected
  <2>. HIDE DEF l
  <2>4. w.rtc = l
    BY <2>2, <2>3 DEF React
  <2>. QED BY <2>2, <2>3, <2>4 DEF InputAt
<1>4. ASSUME Shut(r, 1) \/ InputAt(r, 38)
      PROVE  IsRtc(w.rtc) /\ Waits(w.rtc) /\ w.page \in 0 .. 7
  <2>1. Waits(r) /\ r.enable = 1
    BY <1>4 DEF Shut, InputAt, Waits
  <2>2. w.rtc = Latched(Wake(r), 1) /\ w.page = 1
    BY <1>1, <2>1, UnselectedWrite
  <2>3. IsRtc(Wake(r)) /\ Wake(r).state = "idle"
    BY <2>1, WakeIs
  <2>4. IsRtc(w.rtc) /\ w.rtc.state = "idle" /\ w.rtc.lines = 1
    BY <2>2, <2>3, LatchedIs
  <2>. QED BY <2>2, <2>4 DEF Waits
<1>. QED BY <1>2, <1>3, <1>4

\* A write of the rising clock while the answer is on the lines, which leaves the data line
\* as it is
LEMMA AnswerClocked ==
    ASSUME NEW r, IsRtc(r), r.state = "output", r.enable = 1, NEW b \in {0, 1},
           r.lines = 1 + 2 * b, NEW p, NEW now
    PROVE  LET w == WriteLines(Both(r, p), 5, now)
           IN w.rtc = React(Latched(r, 5 + 2 * b), 5 + 2 * b, now) /\ w.page = 5 + 2 * b
<1>. DEFINE s == Both(r, p)
            v == 5 + 2 * b
<1>1. s.rtc = r
  BY DEF Both
<1>2. Wake(s.rtc) = r
  BY <1>1 DEF Wake
<1>. HIDE DEF s
<1>3. v \in {5, 7}
  OBVIOUS
<1>4. LinesWith(r, 5) = v /\ Clocked(v)
  <2>1. BitOf(r.lines, 2) = 0 /\ BitOf(r.lines, 1) = b
    <3>1. r.lines \in 0 .. 7 /\ r.lines \div 4 = 0 /\ (r.lines \div 2) % 2 = b
      OBVIOUS
    <3>. QED BY <3>1, LineBits
  <2>2. SetBit(5, 1, b) = 5 + 2 * b - 2 * ((5 \div 2) % 2)
    BY LineBits
  <2>3. BitOf(5, 0) = 1 /\ BitOf(7, 0) = 1
    BY LineBits
  <2>. QED BY <1>3, <2>1, <2>2, <2>3 DEF LinesWith, Clocked
<1>5. BitOf(r.enable, 0) # 0
  <2>1. BitOf(1, 0) = 1
    BY LineBits
  <2>. QED BY <2>1
<1>. HIDE DEF v
<1>6. WriteLines(s, 5, now).rtc = React(Latched(r, v), v, now) /\ WriteLines(s, 5, now).page = v
  BY <1>2, <1>4, <1>5 DEF WriteLines, Latched
<1>. QED BY <1>6 DEF s, v

\* The direction is turned, and the first bit can be asked for.
LEMMA TurnStep ==
    ASSUME NEW r, IsRtc(r), NEW p \in 0 .. 7, NEW now, NEW bytes \in Seq(Nat), Len(bytes) \in 1 .. 7,
           OutputAt(r, bytes, 21), NEW w, w = WriteRtc(Both(r, p), "direction", 5, now)
    PROVE  IsRtc(w.rtc) /\ w.page \in 0 .. 7 /\ AnswerAt(w.rtc, bytes, 0, 0)
<1>1. Holds(r, bytes) /\ Selected(r) /\ r.count = 0
  BY DEF OutputAt
<1>2. w.rtc = Directed(r, 5) /\ w.page = p
  BY RegisterWrite
<1>3. /\ IsRtc(w.rtc) /\ w.rtc.direction = 5 /\ w.rtc.state = r.state /\ w.rtc.lines = r.lines
      /\ w.rtc.enable = r.enable /\ w.rtc.count = r.count /\ w.rtc.bytes = r.bytes
      /\ w.rtc.data = r.data
  BY <1>2, DirectedIs
<1>4. Holds(w.rtc, bytes) /\ Selected(w.rtc) /\ w.rtc.count = 0 /\ w.rtc.enable = 1
  BY <1>1, <1>3 DEF Holds, Selected
<1>. QED BY <1>2, <1>3, <1>4 DEF AnswerAt

\* The bit of an answer that the clock is about to send is the one the game wants.
LEMMA NextBitIs ==
    ASSUME NEW r, NEW bytes \in Seq(Nat), Holds(r, bytes), NEW n \in 1 .. 7, n = Len(bytes),
           NEW bit \in 0 .. 8 * n - 1, r.count = bit
    PROVE  NextBit(r) = WantedBit(bytes, bit) /\ WantedBit(bytes, bit) \in {0, 1}
<1>1. bit \div 8 \in 0 .. n - 1 /\ bit % 8 \in 0 .. 7 /\ bit \div 8 + 1 \in 1 .. n
  OBVIOUS
<1>2. r.data[bit \div 8] = bytes[bit \div 8 + 1]
  BY <1>1 DEF Holds
<1>3. bytes[bit \div 8 + 1] \in Nat
  BY <1>1
<1>4. BitOf(bytes[bit \div 8 + 1], bit % 8) \in {0, 1}
  BY <1>1, <1>3, ByteBits
<1>. QED BY <1>2, <1>4 DEF NextBit, WantedBit

\* The clock line goes down: the bit appears on the data line.
LEMMA LowStep ==
    ASSUME NEW r, IsRtc(r), NEW p, NEW now, NEW bytes \in Seq(Nat), NEW n \in 1 .. 7,
           n = Len(bytes), NEW bit \in 0 .. 8 * n - 1, AnswerAt(r, bytes, bit, 0),
           NEW w, w = WriteRtc(Both(r, p), "lines", 4, now)
    PROVE  IsRtc(w.rtc) /\ w.page \in 0 .. 7 /\ AnswerAt(w.rtc, bytes, bit, 1)
<1>. DEFINE l == Latched(r, 4)
            b == WantedBit(bytes, bit)
<1>1. Holds(r, bytes) /\ Selected(r) /\ r.direction = 5 /\ r.enable = 1 /\ r.count = bit
  BY DEF AnswerAt
<1>2. r.state = "output" /\ r.bytes = n
  BY <1>1 DEF Holds
<1>3. /\ BitOf(5, 1) = 0 /\ BitOf(4, 0) = 0
      /\ \A x \in {0, 1} : SetBit(1, 1, x) = 1 + 2 * x
  BY LineBits
<1>4. /\ IsRtc(l) /\ l.lines = 4 /\ l.state = "output" /\ l.direction = 5 /\ l.enable = 1
      /\ l.count = bit /\ l.bytes = n /\ l.data = r.data
  BY <1>1, <1>2, LatchedIs
<1>5. Holds(l, bytes)
  BY <1>1, <1>2, <1>4 DEF Holds
<1>6. w.rtc = React(l, 4, now) /\ w.page = w.rtc.lines
  <2>1. w = WriteLines(Both(r, p), 4, now)
    BY RegisterWrite
  <2>. QED BY <1>1, <1>2, <1>3, <2>1, SelectedWrite, SMTT(20) DEF Clocked
<1>. HIDE DEF l
<1>7. NextBit(l) = b /\ b \in {0, 1}
  BY <1>4, <1>5, NextBitIs
<1>. HIDE DEF b
<1>8. w.rtc = [l EXCEPT !.lines = 1 + 2 * b]
  <2>1. React(l, 4, now) = OutputBit(l, 4)
    BY <1>4 DEF React
  <2>2. SetBit(l.enable, 1, NextBit(l)) = 1 + 2 * b
    BY <1>3, <1>4, <1>7
  <2>3. BitOf(l.direction, 1) # 1 /\ ~Clocked(4)
    BY <1>3, <1>4 DEF Clocked
  <2>. QED BY <1>6, <2>1, <2>2, <2>3 DEF OutputBit
<1>9. 1 + 2 * b \in 0 .. 7
  BY <1>7
<1>10. w.rtc = Latched(l, 1 + 2 * b)
  BY <1>8 DEF Latched
<1>11. /\ IsRtc(w.rtc) /\ w.rtc.lines = 1 + 2 * b /\ w.rtc.state = "output"
       /\ w.rtc.direction = 5 /\ w.rtc.enable = 1 /\ w.rtc.count = bit /\ w.rtc.bytes = n
       /\ w.rtc.data = l.data
  <2>. DEFINE v == 1 + 2 * b
  <2>1. v \in 0 .. 7
    BY <1>9
  <2>. HIDE DEF v
  <2>2. /\ IsRtc(Latched(l, v)) /\ Latched(l, v).lines = v
        /\ Latched(l, v).state = l.state /\ Latched(l, v).direction = l.direction
        /\ Latched(l, v).enable = l.enable /\ Latched(l, v).count = l.count
        /\ Latched(l, v).bytes = l.bytes /\ Latched(l, v).data = l.data
    BY <1>4, <2>1, LatchedIs
  <2>3. w.rtc = Latched(l, v)
    BY <1>10 DEF v
  <2>. QED BY <1>4, <2>2, <2>3 DEF v
<1>12. Holds(w.rtc, bytes)
  BY <1>5, <1>11 DEF Holds
<1>. QED BY <1>6, <1>9, <1>11, <1>12 DEF AnswerAt, b

\* The game's page has a bit of the answer on the data line.
Shows(lines, bytes, bit) == BitOf(lines, 1) = WantedBit(bytes, bit)

\* The clock line goes up: the game's page has the bit, and the clock moves on to the next.
LEMMA HighStep ==
    ASSUME NEW r, IsRtc(r), NEW p, NEW now, NEW bytes \in Seq(Nat), NEW n \in 1 .. 7,
           n = Len(bytes), NEW bit \in 0 .. 8 * n - 1, AnswerAt(r, bytes, bit, 1),
           NEW w, w = WriteRtc(Both(r, p), "lines", 5, now)
    PROVE  /\ IsRtc(w.rtc) /\ w.page \in 0 .. 7 /\ AnswerAt(w.rtc, bytes, bit, 2)
           /\ Shows(w.page, bytes, bit)
<1>. DEFINE b == WantedBit(bytes, bit)
            v == 5 + 2 * b
            l == Latched(r, v)
<1>1. /\ Holds(r, bytes) /\ r.direction = 5 /\ r.enable = 1 /\ r.count = bit
      /\ r.lines = 1 + 2 * b
  BY DEF AnswerAt
<1>2. r.state = "output" /\ r.bytes = n
  BY <1>1 DEF Holds
<1>3. b \in {0, 1}
  BY <1>1, NextBitIs
<1>. HIDE DEF b
<1>4. v \in {5, 7} /\ v \in 0 .. 7 /\ v \in 4 .. 7 /\ (v \div 2) % 2 = b
  BY <1>3
<1>5. w.rtc = React(l, v, now) /\ w.page = v
  <2>1. w = WriteLines(Both(r, p), 5, now)
    BY RegisterWrite
  <2>. QED BY <1>1, <1>2, <1>3, <2>1, AnswerClocked
<1>6. BitOf(v, 1) = b /\ BitOf(5, 1) = 0 /\ Clocked(v)
  <2>1. BitOf(5, 0) = 1 /\ BitOf(7, 0) = 1 /\ BitOf(5, 1) = 0
    BY LineBits
  <2>2. BitOf(v, 1) = (v \div 2) % 2
    BY <1>4, LineBits
  <2>. HIDE DEF v
  <2>. QED BY <1>4, <2>1, <2>2 DEF Clocked
<1>. HIDE DEF v
<1>7. /\ IsRtc(l) /\ l.lines = v /\ l.state = "output" /\ l.direction = 5 /\ l.enable = 1
      /\ l.count = bit /\ l.bytes = n /\ l.data = r.data
  BY <1>1, <1>2, <1>4, LatchedIs
<1>. HIDE DEF l
<1>8. React(l, v, now) = OutputBit(l, v)
  BY <1>7 DEF React
<1>9. CASE bit + 1 # 8 * n
  <2>. DEFINE q == [l EXCEPT !.count = @ + 1]
  <2>1. w.rtc = q
    BY <1>5, <1>6, <1>7, <1>8, <1>9 DEF OutputBit
  <2>4. q = [field \in DOMAIN q |-> q[field]] /\ DOMAIN q = DOMAIN l
    BY <1>7 DEF IsRtc
  <2>5. /\ q.count = l.count + 1 /\ q.lines = l.lines /\ q.state = l.state
        /\ q.direction = l.direction /\ q.enable = l.enable /\ q.bytes = l.bytes
        /\ q.data = l.data /\ q.command = l.command /\ q.status = l.status
    BY <1>7 DEF IsRtc
  <2>. HIDE DEF q
  <2>6. q.count = bit + 1 /\ q.count \in Int
    BY <1>7, <2>5
  <2>2. /\ IsRtc(q) /\ q.count = bit + 1 /\ q.lines = v /\ q.state = "output" /\ q.direction = 5
        /\ q.enable = 1 /\ q.bytes = n /\ q.data = r.data
    BY <1>7, <2>4, <2>5, <2>6 DEF IsRtc
  <2>7. Holds(q, bytes)
    BY <1>1, <2>2 DEF Holds
  <2>3. Holds(q, bytes) /\ Selected(q)
    BY <1>4, <2>2, <2>7 DEF Selected
  <2>8. ~(bit + 1 = 8 * Len(bytes))
    BY <1>9
  <2>9. AnswerAt(q, bytes, bit, 2)
    BY <2>2, <2>3, <2>8 DEF AnswerAt
  <2>. QED BY <1>4, <1>5, <1>6, <2>1, <2>2, <2>9 DEF b, Shows
<1>10. CASE bit + 1 = 8 * n
  <2>. DEFINE c == Clear(l)
              q == [c EXCEPT !.count = @ + 1, !.state = "idle"]
  <2>1. w.rtc = q
    BY <1>5, <1>6, <1>7, <1>8, <1>10 DEF OutputBit, LastBitRead
  <2>2. IsRtc(c) /\ c.lines = 0 /\ c.enable = 0
    BY <1>7, RegistersCleared
  <2>. HIDE DEF c
  <2>3. q = [field \in DOMAIN q |-> q[field]] /\ DOMAIN q = DOMAIN c
    BY <2>2 DEF IsRtc
  <2>4. /\ q.count = c.count + 1 /\ q.state = "idle" /\ q.lines = 0 /\ q.enable = 0
        /\ q.direction = c.direction /\ q.command = c.command /\ q.data = c.data
        /\ q.status = c.status /\ q.bytes = c.bytes
    BY <2>2 DEF IsRtc
  <2>. HIDE DEF q
  <2>8. c.count \in Int
    BY <2>2 DEF IsRtc
  <2>9. q.count = c.count + 1
    BY <2>4
  <2>6. q.count \in Int
    BY <2>8, <2>9
  <2>7. IsRtc(q)
    BY <2>2, <2>3, <2>4, <2>6 DEF IsRtc, States
  <2>5. IsRtc(q) /\ Shut(q, 0)
    BY <2>4, <2>7 DEF Shut
  <2>. QED BY <1>4, <1>5, <1>6, <1>10, <2>1, <2>5 DEF AnswerAt, b, Shows
<1>. QED BY <1>9, <1>10

\* The bit has been read, and the next one can be asked for.
LEMMA AnswerMoves ==
    ASSUME NEW r, NEW bytes \in Seq(Nat), NEW n \in 1 .. 7, n = Len(bytes),
           NEW bit \in 0 .. 8 * n - 1, AnswerAt(r, bytes, bit, 2)
    PROVE  IF bit + 1 = 8 * n THEN Shut(r, 0) ELSE AnswerAt(r, bytes, bit + 1, 0)
BY DEF AnswerAt

-----------------------------------------------------------------------------
\* What every write of a driver's script does

AllCommands == {96, 98, 99, 101, 103}

\* What does not concern a step that comes early, or late
LEMMA EarlyAt ==
    ASSUME NEW r, NEW k \in 0 .. 20, NEW bytes \in Seq(Nat)
    PROVE  ResetAt(r, k) /\ InputAt(r, k) /\ OutputAt(r, bytes, k)
<1>1. Len(bytes) \in Nat
  OBVIOUS
<1>2. k # 21 /\ k # 22 /\ k \notin 21 .. 36 /\ k \notin {37, 38}
  OBVIOUS
<1>3. \A n \in Nat : k # 22 + 24 * n /\ k # 23 + 24 * n /\ k \notin 22 .. 21 + 24 * n
  OBVIOUS
<1>4. ResetAt(r, k)
  BY <1>2 DEF ResetAt
<1>5. InputAt(r, k)
  BY <1>2 DEF InputAt
<1>6. OutputAt(r, bytes, k)
  BY <1>1, <1>2, <1>3 DEF OutputAt
<1>. QED BY <1>4, <1>5, <1>6

\* What does not concern a step behind the command
LEMMA LateAt ==
    ASSUME NEW r, NEW c, NEW k \in Nat, k > 20
    PROVE  SelectAt(r, k) /\ CommandAt(r, c, k)
BY DEF SelectAt, CommandAt

\* The lengths of the scripts
LEMMA LastStepIs ==
    ASSUME NEW c \in AllCommands
    PROVE  /\ c \in Nat /\ c < 256 /\ LastStep(c) \in 22 .. 191
           /\ c = 96 => LastStep(c) = 22
           /\ c = 98 => LastStep(c) = 38
           /\ Answers(c) => AnswerBytes(c) \in 1 .. 7 /\ LastStep(c) = 23 + 24 * AnswerBytes(c)
           /\ c = 96 \/ c = 98 \/ Answers(c)
           /\ ~(c = 96 /\ c = 98) /\ ~(c = 96 /\ Answers(c)) /\ ~(c = 98 /\ Answers(c))
<1>1. c \in {96, 98, 99, 101, 103}
  BY DEF AllCommands
<1>. QED BY <1>1 DEF LastStep, Answers, AnswerBytes

\* The places of the bits of an answer
LEMMA PlaceIs ==
    ASSUME NEW n \in 1 .. 7, NEW bit \in 0 .. 8 * n - 1, NEW phase \in {0, 1, 2},
           NEW r, NEW bytes \in Seq(Nat), Len(bytes) = n
    PROVE  AnswerAt(r, bytes, bit, phase) <=> OutputAt(r, bytes, 22 + 3 * bit + phase)
<1>. DEFINE k == 22 + 3 * bit + phase
<1>1. /\ k \in 22 .. 21 + 24 * n /\ k # 21 /\ k # 22 + 24 * n /\ k # 23 + 24 * n
      /\ (k - 22) \div 3 = bit /\ (k - 22) % 3 = phase
  OBVIOUS
<1>. HIDE DEF k
<1>2. AnswerAt(r, bytes, bit, phase) <=> OutputAt(r, bytes, k)
  BY <1>1 DEF OutputAt
<1>. QED BY <1>2 DEF k

\* What a write at step k of a command has to bring about
WriteRight(w, c, k, bytes, after) ==
    /\ w.page \in 0 .. 7 /\ IsRtc(w.rtc) /\ after \in Seq(Nat)
    /\ k < LastStep(c) => ClockAt(w.rtc, c, k + 1, after)
    /\ k = LastStep(c) => Waits(w.rtc)
    /\ Answers(c) /\ k >= 20 => Len(after) = AnswerBytes(c)
    /\ Answers(c) /\ k \in 22 .. 21 + 24 * AnswerBytes(c) /\ (k - 22) % 3 = 1
         => BitOf(w.page, 1) = WantedBit(bytes, (k - 22) \div 3)

\* A step of a command is not the last of its script.
LEMMA Below ==
    ASSUME NEW k \in 1 .. 20, NEW last \in 22 .. 191
    PROVE  k < last /\ k # last
OBVIOUS

\* A write before the last bit of the command
LEMMA EarlyWrite ==
    ASSUME NEW c \in AllCommands, NEW k \in 1 .. 19, NEW bytes \in Seq(Nat), NEW w,
           w.page \in 0 .. 7, IsRtc(w.rtc), SelectAt(w.rtc, k + 1), CommandAt(w.rtc, c, k + 1)
    PROVE  WriteRight(w, c, k, bytes, bytes)
<1>1. PICK last \in 22 .. 191 : last = LastStep(c)
  BY LastStepIs
<1>2. k + 1 \in 0 .. 20 /\ ~(k >= 20)
  OBVIOUS
<1>6. k < last /\ k # last
  <2>1. k \in 1 .. 20
    OBVIOUS
  <2>. QED BY <2>1, Below
<1>5. ~(k \in 22 .. 21 + 24 * AnswerBytes(c))
  OBVIOUS
<1>3. ResetAt(w.rtc, k + 1) /\ InputAt(w.rtc, k + 1) /\ OutputAt(w.rtc, bytes, k + 1)
  BY <1>2, EarlyAt
<1>4. ClockAt(w.rtc, c, k + 1, bytes)
  BY <1>3 DEF ClockAt
<1>. QED BY <1>1, <1>2, <1>4, <1>5, <1>6 DEF WriteRight

\* The writes that select the clock
LEMMA SelectWritten ==
    ASSUME NEW c \in AllCommands, NEW k \in 1 .. 4, NEW r, NEW bytes \in Seq(Nat),
           ClockAt(r, c, k, bytes), NEW p \in 0 .. 7, NEW now,
           NEW w, w = WriteRtc(Both(r, p), Select[k].port, Select[k].value, now)
    PROVE  WriteRight(w, c, k, bytes, bytes)
<1>1. c \in Nat /\ c < 256
  BY LastStepIs
<1>2. IsRtc(r) /\ SelectAt(r, k) /\ CommandAt(r, c, k)
  BY DEF ClockAt
<1>3. /\ IsRtc(w.rtc) /\ w.page \in 0 .. 7
      /\ SelectAt(w.rtc, k + 1) /\ CommandAt(w.rtc, c, k + 1)
  BY <1>1, <1>2, SelectStep
<1>4. k \in 1 .. 19
  OBVIOUS
<1>. QED BY <1>3, <1>4, EarlyWrite

\* The writes of the bits of a command, but the very last one
LEMMA BitWritten ==
    ASSUME NEW c \in AllCommands, NEW i \in 1 .. 15, NEW r, NEW bytes \in Seq(Nat),
           ClockAt(r, c, 4 + i, bytes), NEW p \in 0 .. 7, NEW now,
           NEW w, w = WriteRtc(Both(r, p), CommandBits(c)[i].port, CommandBits(c)[i].value, now)
    PROVE  WriteRight(w, c, 4 + i, bytes, bytes)
<1>1. c \in Nat /\ c < 256
  BY LastStepIs
<1>2. IsRtc(r) /\ CommandAt(r, c, 4 + i)
  BY DEF ClockAt
<1>3. i \in 1 .. 16 /\ i < 16 /\ 4 + i \in 1 .. 19 /\ (4 + i) + 1 = 5 + i
  OBVIOUS
<1>4. w.page \in 0 .. 7 /\ IsRtc(w.rtc) /\ CommandAt(w.rtc, c, 5 + i)
  BY <1>1, <1>2, <1>3, CommandStep
<1>5. SelectAt(w.rtc, 5 + i)
  BY DEF SelectAt
<1>. DEFINE k == 4 + i
<1>6. k \in 1 .. 19 /\ k + 1 = 5 + i
  BY <1>3
<1>. HIDE DEF k
<1>7. WriteRight(w, c, k, bytes, bytes)
  BY <1>4, <1>5, <1>6, EarlyWrite
<1>. QED BY <1>7 DEF k

\* The write with which the command is complete
LEMMA CommandWritten ==
    ASSUME NEW c \in AllCommands, NEW r, NEW bytes \in Seq(Nat), ClockAt(r, c, 20, bytes),
           NEW p \in 0 .. 7, NEW now \in [1 .. 7 -> Nat], now \in Times,
           NEW w, w = WriteRtc(Both(r, p), CommandBits(c)[16].port, CommandBits(c)[16].value, now),
           NEW after, after = WantedOf(r, c, now)
    PROVE  WriteRight(w, c, 20, bytes, after)
<1>1. c \in Nat /\ c < 256
  BY LastStepIs
<1>16. PICK last \in 22 .. 191 : last = LastStep(c)
  BY LastStepIs
<1>2. IsRtc(r) /\ CommandAt(r, c, 20)
  BY DEF ClockAt
<1>3. PICK i \in 1 .. 16 : i = 16 /\ 4 + i = 20
  OBVIOUS
<1>12. /\ CommandAt(r, c, 4 + i)
       /\ w = WriteRtc(Both(r, p), CommandBits(c)[i].port, CommandBits(c)[i].value, now)
  BY <1>2, <1>3
<1>4. /\ w.page \in 0 .. 7
      /\ Completed(r, w.rtc, c, now)
  BY <1>1, <1>2, <1>3, <1>12, CommandStep, ZenonT(20)
<1>5. PICK q : /\ IsRtc(q) /\ q.command = c /\ Selected(q) /\ q.direction = 7
               /\ q.status = r.status /\ w.rtc = Execute(q, now)
  BY <1>4 DEF Completed
<1>15. PICK x : x = w.rtc
  OBVIOUS
<1>6. after = WantedOf(q, q.command, now)
  BY <1>5 DEF WantedOf
<1>7. q.command \in {96, 98, 99, 101, 103}
  BY <1>5 DEF AllCommands
<1>13. /\ IsRtc(x) /\ after \in Seq(Nat)
       /\ q.command = 96 => ResetAt(x, 21)
       /\ q.command = 98 => InputAt(x, 21)
       /\ Answers(q.command) => OutputAt(x, after, 21) /\ Len(after) = AnswerBytes(q.command)
  <2>1. IsRtc(q) /\ Selected(q) /\ q.direction = 7
    BY <1>5
  <2>2. x = Execute(q, now)
    BY <1>5, <1>15
  <2>. QED BY ONLY <2>1, <2>2, <1>6, <1>7, ExecuteStep,
           now \in [1 .. 7 -> Nat], now \in Times, SMTT(20)
<1>8. /\ IsRtc(w.rtc) /\ after \in Seq(Nat)
      /\ c = 96 => ResetAt(w.rtc, 21)
      /\ c = 98 => InputAt(w.rtc, 21)
      /\ Answers(c) => OutputAt(w.rtc, after, 21) /\ Len(after) = AnswerBytes(c)
  BY <1>5, <1>13, <1>15
<1>9. SelectAt(w.rtc, 21) /\ CommandAt(w.rtc, c, 21)
  BY LateAt
<1>10. ClockAt(w.rtc, c, 21, after)
  BY <1>8, <1>9 DEF ClockAt
<1>11. 20 < last /\ 20 # last /\ 20 + 1 = 21
  OBVIOUS
<1>14. ~(20 \in 22 .. 21 + 24 * AnswerBytes(c))
  OBVIOUS
<1>. QED BY <1>4, <1>8, <1>10, <1>11, <1>14, <1>16 DEF WriteRight

\* A write after the command that is not the one before a bit is read
LEMMA LateWrite ==
    ASSUME NEW c \in AllCommands, NEW k \in 21 .. LastStep(c), NEW bytes \in Seq(Nat), NEW w,
           w.page \in 0 .. 7, IsRtc(w.rtc),
           c = 96 /\ k < LastStep(c) => ResetAt(w.rtc, k + 1),
           c = 98 /\ k < LastStep(c) => InputAt(w.rtc, k + 1),
           Answers(c) /\ k < LastStep(c) => OutputAt(w.rtc, bytes, k + 1),
           k = LastStep(c) => Waits(w.rtc),
           Answers(c) => Len(bytes) = AnswerBytes(c),
           Answers(c) /\ k \in 22 .. 21 + 24 * AnswerBytes(c) /\ (k - 22) % 3 = 1
             => BitOf(w.page, 1) = WantedBit(bytes, (k - 22) \div 3)
    PROVE  WriteRight(w, c, k, bytes, bytes)
<1>1. LastStep(c) \in 22 .. 191
  BY LastStepIs
<1>2. k + 1 \in Nat /\ k + 1 > 20
  BY <1>1
<1>3. SelectAt(w.rtc, k + 1) /\ CommandAt(w.rtc, c, k + 1)
  BY <1>2, LateAt
<1>4. k < LastStep(c) => ClockAt(w.rtc, c, k + 1, bytes)
  BY <1>3 DEF ClockAt
<1>. QED BY <1>4 DEF WriteRight

\* The release after a reset of the clock
LEMMA ResetWritten ==
    ASSUME NEW k \in {21, 22}, NEW r, NEW bytes \in Seq(Nat), ClockAt(r, 96, k, bytes),
           NEW p \in 0 .. 7, NEW now, NEW w, w = WriteRtc(Both(r, p), "lines", 1, now)
    PROVE  WriteRight(w, 96, k, bytes, bytes)
<1>1. 96 \in AllCommands /\ LastStep(96) = 22 /\ ~Answers(96)
  BY LastStepIs DEF AllCommands, Answers
<1>2. IsRtc(r) /\ ResetAt(r, k)
  BY DEF ClockAt
<1>3. CASE k = 21
  <2>1. Shut(r, 0)
    BY <1>2, <1>3 DEF ResetAt
  <2>2. IsRtc(w.rtc) /\ Shut(w.rtc, 1) /\ w.page \in 0 .. 7
    BY <1>2, <2>1, ReleaseStep
  <2>3. ResetAt(w.rtc, k + 1)
    BY <1>3, <2>2 DEF ResetAt
  <2>4. k \in 21 .. LastStep(96) /\ k # LastStep(96)
    BY <1>1, <1>3
  <2>. QED BY <1>1, <2>2, <2>3, <2>4, LateWrite
<1>4. CASE k = 22
  <2>1. Shut(r, 1)
    BY <1>2, <1>4 DEF ResetAt
  <2>2. IsRtc(w.rtc) /\ Waits(w.rtc) /\ w.page \in 0 .. 7
    BY <1>2, <2>1, ReleaseStep
  <2>3. k \in 21 .. LastStep(96) /\ ~(k < LastStep(96))
    BY <1>1, <1>4
  <2>. QED BY <1>1, <2>2, <2>3, LateWrite
<1>. QED BY <1>3, <1>4

\* The writes of the bits of the status byte
LEMMA StatusWritten ==
    ASSUME NEW i \in 1 .. 16, NEW r, NEW bytes \in Seq(Nat), ClockAt(r, 98, 20 + i, bytes),
           NEW p \in 0 .. 7, NEW now,
           NEW w, w = WriteRtc(Both(r, p), SentByte(66)[i].port, SentByte(66)[i].value, now)
    PROVE  WriteRight(w, 98, 20 + i, bytes, bytes)
<1>1. 98 \in AllCommands /\ LastStep(98) = 38 /\ ~Answers(98)
  BY LastStepIs DEF AllCommands, Answers
<1>2. IsRtc(r) /\ InputAt(r, 20 + i)
  BY DEF ClockAt
<1>3. w.page \in 0 .. 7 /\ IsRtc(w.rtc) /\ InputAt(w.rtc, 21 + i)
  BY <1>2, InputStep
<1>. DEFINE k == 20 + i
<1>4. k + 1 = 21 + i /\ k \in 21 .. LastStep(98) /\ k # LastStep(98)
  BY <1>1
<1>. HIDE DEF k
<1>5. WriteRight(w, 98, k, bytes, bytes)
  BY <1>1, <1>3, <1>4, LateWrite
<1>. QED BY <1>5 DEF k

\* The release after the status byte
LEMMA InputReleased ==
    ASSUME NEW k \in {37, 38}, NEW r, NEW bytes \in Seq(Nat), ClockAt(r, 98, k, bytes),
           NEW p \in 0 .. 7, NEW now, NEW w, w = WriteRtc(Both(r, p), "lines", 1, now)
    PROVE  WriteRight(w, 98, k, bytes, bytes)
<1>1. 98 \in AllCommands /\ LastStep(98) = 38 /\ ~Answers(98)
  BY LastStepIs DEF AllCommands, Answers
<1>2. IsRtc(r) /\ InputAt(r, k)
  BY DEF ClockAt
<1>3. CASE k = 37
  <2>1. InputAt(r, 37)
    BY <1>2, <1>3
  <2>2. IsRtc(w.rtc) /\ InputAt(w.rtc, 38) /\ w.page \in 0 .. 7
    BY <1>2, <2>1, ReleaseStep
  <2>3. k + 1 = 38 /\ k \in 21 .. LastStep(98) /\ k # LastStep(98)
    BY <1>1, <1>3
  <2>. QED BY <1>1, <2>2, <2>3, LateWrite
<1>4. CASE k = 38
  <2>1. InputAt(r, 38)
    BY <1>2, <1>4
  <2>2. IsRtc(w.rtc) /\ Waits(w.rtc) /\ w.page \in 0 .. 7
    BY <1>2, <2>1, ReleaseStep
  <2>3. k \in 21 .. LastStep(98) /\ ~(k < LastStep(98))
    BY <1>1, <1>4
  <2>. QED BY <1>1, <2>2, <2>3, LateWrite
<1>. QED BY <1>3, <1>4

\* The write that turns the data line round for an answer
LEMMA Turned ==
    ASSUME NEW c \in AllCommands, Answers(c), NEW r, NEW bytes \in Seq(Nat),
           ClockAt(r, c, 21, bytes), Len(bytes) = AnswerBytes(c),
           NEW p \in 0 .. 7, NEW now, NEW w, w = WriteRtc(Both(r, p), "direction", 5, now)
    PROVE  WriteRight(w, c, 21, bytes, bytes)
<1>1. c # 96 /\ c # 98 /\ AnswerBytes(c) \in 1 .. 7 /\ LastStep(c) = 23 + 24 * AnswerBytes(c)
  BY LastStepIs
<1>2. IsRtc(r) /\ OutputAt(r, bytes, 21)
  BY DEF ClockAt
<1>3. IsRtc(w.rtc) /\ w.page \in 0 .. 7 /\ AnswerAt(w.rtc, bytes, 0, 0)
  BY <1>1, <1>2, TurnStep
<1>4. PICK k : k = 21
  OBVIOUS
<1>5. OutputAt(w.rtc, bytes, k + 1)
  <2>1. PICK bit, phase : bit = 0 /\ phase = 0
    OBVIOUS
  <2>2. /\ bit \in 0 .. 8 * AnswerBytes(c) - 1 /\ phase \in {0, 1, 2}
        /\ 22 + 3 * bit + phase = k + 1
    BY <1>1, <1>4, <2>1
  <2>3. AnswerAt(w.rtc, bytes, bit, phase)
    BY <1>3, <2>1
  <2>4. OutputAt(w.rtc, bytes, 22 + 3 * bit + phase)
    BY <1>1, <2>2, <2>3, PlaceIs
  <2>. QED BY <2>2, <2>4
<1>6. k \in 21 .. LastStep(c) /\ k # LastStep(c) /\ ~(k \in 22 .. 21 + 24 * AnswerBytes(c))
  BY <1>1, <1>4
<1>7. WriteRight(w, c, k, bytes, bytes)
  BY <1>1, <1>3, <1>5, <1>6, LateWrite
<1>. QED BY <1>4, <1>7

\* The number k of the step that writes a bit of an answer
Placed(k, n, bit, phase) ==
    /\ k \in 21 .. 23 + 24 * n /\ k # 23 + 24 * n /\ k + 1 = 22 + 3 * bit + (phase + 1)
    /\ (k - 22) \div 3 = bit /\ (k - 22) % 3 = phase

\* where it is counted from the bit
LEMMA AnswerPlaces ==
    ASSUME NEW n \in 1 .. 7, NEW bit \in 0 .. 8 * n - 1, NEW phase \in {0, 1}
    PROVE  Placed(22 + 3 * bit + phase, n, bit, phase)
BY DEF Placed

\* The two writes of a bit of an answer
LEMMA LineWritten ==
    ASSUME NEW c \in AllCommands, Answers(c), NEW r, NEW bytes \in Seq(Nat),
           Len(bytes) = AnswerBytes(c), NEW bit \in 0 .. 8 * AnswerBytes(c) - 1,
           NEW phase \in {0, 1}, ClockAt(r, c, 22 + 3 * bit + phase, bytes),
           NEW p \in 0 .. 7, NEW now,
           NEW w, w = WriteRtc(Both(r, p), "lines", 4 + phase, now)
    PROVE  WriteRight(w, c, 22 + 3 * bit + phase, bytes, bytes)
<1>. DEFINE k == 22 + 3 * bit + phase
            n == AnswerBytes(c)
<1>1. c # 96 /\ c # 98 /\ n \in 1 .. 7 /\ LastStep(c) = 23 + 24 * n
  BY LastStepIs
<1>2. /\ k \in 21 .. LastStep(c) /\ k # LastStep(c) /\ k + 1 = 22 + 3 * bit + (phase + 1)
      /\ (k - 22) \div 3 = bit /\ (k - 22) % 3 = phase /\ phase + 1 \in {0, 1, 2}
  <2>1. Placed(k, n, bit, phase)
    BY <1>1, AnswerPlaces
  <2>2. phase + 1 \in {0, 1, 2}
    OBVIOUS
  <2>. HIDE DEF k, n
  <2>. QED BY <1>1, <2>1, <2>2 DEF Placed
<1>3. IsRtc(r) /\ OutputAt(r, bytes, k)
  BY DEF ClockAt
<1>4. AnswerAt(r, bytes, bit, phase)
  <2>1. phase \in {0, 1, 2}
    OBVIOUS
  <2>. QED BY <1>1, <1>3, <2>1, PlaceIs
<1>5. /\ IsRtc(w.rtc) /\ w.page \in 0 .. 7 /\ AnswerAt(w.rtc, bytes, bit, phase + 1)
      /\ phase = 1 => BitOf(w.page, 1) = WantedBit(bytes, bit)
  <2>1. CASE phase = 0
    <3>1. w = WriteRtc(Both(r, p), "lines", 4, now) /\ AnswerAt(r, bytes, bit, 0)
      BY <1>4, <2>1
    <3>2. IsRtc(w.rtc) /\ w.page \in 0 .. 7 /\ AnswerAt(w.rtc, bytes, bit, 1)
      BY <1>1, <1>3, <3>1, LowStep
    <3>. QED BY <2>1, <3>2
  <2>2. CASE phase = 1
    <3>1. w = WriteRtc(Both(r, p), "lines", 5, now) /\ AnswerAt(r, bytes, bit, 1)
      BY <1>4, <2>2
    <3>2. /\ IsRtc(w.rtc) /\ w.page \in 0 .. 7 /\ AnswerAt(w.rtc, bytes, bit, 2)
          /\ Shows(w.page, bytes, bit)
      BY <1>1, <1>3, <3>1, HighStep
    <3>. QED BY <2>2, <3>2 DEF Shows
  <2>. QED BY <2>1, <2>2
<1>6. OutputAt(w.rtc, bytes, k + 1)
  BY <1>1, <1>2, <1>5, PlaceIs
<1>. HIDE DEF k
<1>7. WriteRight(w, c, k, bytes, bytes)
  BY <1>1, <1>2, <1>5, <1>6, LateWrite DEF n
<1>. QED BY <1>7 DEF k

\* The release after an answer
LEMMA AnswerReleased ==
    ASSUME NEW c \in AllCommands, Answers(c), NEW r, NEW bytes \in Seq(Nat),
           Len(bytes) = AnswerBytes(c), NEW k \in {LastStep(c) - 1, LastStep(c)},
           ClockAt(r, c, k, bytes), NEW p \in 0 .. 7, NEW now,
           NEW w, w = WriteRtc(Both(r, p), "lines", 1, now)
    PROVE  WriteRight(w, c, k, bytes, bytes)
<1>. DEFINE n == AnswerBytes(c)
<1>1. c # 96 /\ c # 98 /\ n \in 1 .. 7 /\ LastStep(c) = 23 + 24 * n
  BY LastStepIs
<1>2. IsRtc(r) /\ OutputAt(r, bytes, k)
  BY DEF ClockAt
<1>. HIDE DEF n
<1>5. k = 22 + 24 * n \/ k = 23 + 24 * n
  BY <1>1
<1>3. CASE k = 22 + 24 * n
  <2>1. Shut(r, 0)
    BY <1>2, <1>3 DEF OutputAt, n
  <2>2. IsRtc(w.rtc) /\ Shut(w.rtc, 1) /\ w.page \in 0 .. 7
    BY <1>2, <2>1, ReleaseStep
  <2>3. /\ k + 1 = 23 + 24 * n /\ k \in 21 .. LastStep(c) /\ k # LastStep(c) /\ k + 1 # 21
        /\ k + 1 \notin 22 .. 21 + 24 * n /\ k + 1 # 22 + 24 * n /\ k \notin 22 .. 21 + 24 * n
    BY <1>1, <1>3
  <2>4. OutputAt(w.rtc, bytes, k + 1)
    BY <2>2, <2>3 DEF OutputAt, n
  <2>. QED BY <1>1, <2>2, <2>3, <2>4, LateWrite DEF n
<1>4. CASE k = 23 + 24 * n
  <2>1. Shut(r, 1)
    BY <1>2, <1>4 DEF OutputAt, n
  <2>2. IsRtc(w.rtc) /\ Waits(w.rtc) /\ w.page \in 0 .. 7
    BY <1>2, <2>1, ReleaseStep
  <2>3. k \in 21 .. LastStep(c) /\ ~(k < LastStep(c)) /\ k \notin 22 .. 21 + 24 * n
    BY <1>1, <1>4
  <2>. QED BY <1>1, <2>2, <2>3, LateWrite DEF n
<1>. QED BY <1>3, <1>4, <1>5

\* The steps of a script one by one
LEMMA FirstSteps ==
    ASSUME NEW c \in AllCommands
    PROVE  /\ \A k \in 1 .. 4 : Script(c)[k] = Select[k]
           /\ \A i \in 1 .. 16 : Script(c)[4 + i] = CommandBits(c)[i]
           /\ \A k \in {LastStep(c) - 1, LastStep(c)} : Script(c)[k] = Write("lines", 1)
           /\ Len(Script(c)) = LastStep(c)
<1>1. c \in {96, 98, 99, 101, 103}
  BY DEF AllCommands
<1>2. /\ \A k \in 1 .. 4 : Script(c)[k] = Select[k]
      /\ \A i \in 1 .. 16 : Script(c)[4 + i] = CommandBits(c)[i]
      /\ Len(Script(c)) = LastStep(c)
  BY <1>1, ScriptIs, ZenonT(20)
<1>3. \A i \in 1 .. 2 : Script(c)[LastStep(c) - 2 + i] = Release[i]
  BY <1>1, ScriptIs
<1>4. Release[1] = Write("lines", 1) /\ Release[2] = Write("lines", 1)
  BY DEF Release
<1>5. PICK last \in 22 .. 191 : last = LastStep(c)
  BY LastStepIs
<1>6. /\ last - 2 + 1 = last - 1 /\ last - 2 + 2 = last
      /\ 1 \in 1 .. 2 /\ 2 \in 1 .. 2
  OBVIOUS
<1>7. Script(c)[last - 2 + 1] = Release[1] /\ Script(c)[last - 2 + 2] = Release[2]
  BY <1>3, <1>5, <1>6
<1>8. Script(c)[last - 1] = Write("lines", 1) /\ Script(c)[last] = Write("lines", 1)
  BY <1>4, <1>6, <1>7
<1>. QED BY <1>2, <1>5, <1>8

\* The steps that send the status byte
LEMMA StatusSteps == \A i \in 1 .. 16 : Script(98)[20 + i] = SentByte(66)[i]
<1>1. Body(98) = SentByte(66)
  BY DEF Body
<1>2. 66 \in Nat /\ 98 \in {96, 98, 99, 101, 103}
  OBVIOUS
<1>3. Len(Body(98)) = 16
  BY <1>1, <1>2, PartsAreSteps
<1>4. \A i \in 1 .. Len(Body(98)) : Script(98)[20 + i] = Body(98)[i]
  BY <1>2, ScriptIs
<1>. QED BY <1>1, <1>3, <1>4

\* The steps that turn the data line and read an answer
LEMMA AnswerSteps ==
    ASSUME NEW c \in AllCommands, Answers(c)
    PROVE  /\ Script(c)[21] = Write("direction", 5)
           /\ \A i \in 1 .. 24 * AnswerBytes(c) : Script(c)[21 + i] = ReadStepOf(i)
<1>. DEFINE n == AnswerBytes(c)
<1>1. c \in {96, 98, 99, 101, 103}
  BY DEF AllCommands
<1>2. n \in 1 .. 7 /\ LastStep(c) = 23 + 24 * n
  BY LastStepIs
<1>3. /\ Len(Body(c)) = LastStep(c) - 22 /\ Body(c)[1] = Write("direction", 5)
      /\ \A i \in 1 .. 24 * n : Body(c)[1 + i] = ReadStepOf(i)
  BY <1>1, BodyIs, ZenonT(20)
<1>4. \A i \in 1 .. Len(Body(c)) : Script(c)[20 + i] = Body(c)[i]
  BY <1>1, ScriptIs
<1>. HIDE DEF n
<1>5. Len(Body(c)) = 1 + 24 * n
  BY <1>2, <1>3
<1>6. Script(c)[21] = Write("direction", 5)
  <2>1. 1 \in 1 .. 1 + 24 * n /\ 20 + 1 = 21
    BY <1>2
  <2>2. Script(c)[20 + 1] = Body(c)[1]
    BY <1>4, <1>5, <2>1
  <2>. QED BY <1>3, <2>1, <2>2
<1>7. ASSUME NEW i \in 1 .. 24 * n
      PROVE  Script(c)[21 + i] = ReadStepOf(i)
  <2>1. 1 + i \in 1 .. 1 + 24 * n /\ 20 + (1 + i) = 21 + i
    BY <1>2
  <2>2. Script(c)[20 + (1 + i)] = Body(c)[1 + i]
    BY <1>4, <1>5, <2>1
  <2>. QED BY <1>3, <2>1, <2>2
<1>. QED BY <1>6, <1>7 DEF n

\* The step k of an answer, the i-th after the turn, is one of the three of a bit.
PartOf(k, n, i, bit, phase) ==
    /\ i \in 1 .. 24 * n /\ k = 21 + i /\ bit \in 0 .. 8 * n - 1 /\ phase \in {0, 1, 2}
    /\ k = 22 + 3 * bit + phase /\ bit = (k - 22) \div 3 /\ phase = (k - 22) % 3
    /\ (phase = 0 <=> i % 3 = 1) /\ (phase = 1 <=> i % 3 = 2)

\* where it is counted from the beginning of the script
LEMMA AnswerParts ==
    ASSUME NEW n \in 1 .. 7, NEW k \in 22 .. 21 + 24 * n
    PROVE  PartOf(k, n, k - 21, (k - 22) \div 3, (k - 22) % 3)
BY DEF PartOf

\* The write or the reading at step k of an answer
LEMMA ReadStepsAre ==
    ASSUME NEW c \in AllCommands, Answers(c), NEW k \in 22 .. 21 + 24 * AnswerBytes(c)
    PROVE  LET phase == (k - 22) % 3
           IN IF phase = 2 THEN Script(c)[k] = Sample
              ELSE Script(c)[k] = Write("lines", 4 + phase)
<1>1. AnswerBytes(c) \in 1 .. 7
  BY LastStepIs
<1>2. PICK i, bit, phase : PartOf(k, AnswerBytes(c), i, bit, phase)
  BY <1>1, AnswerParts
<1>3. Script(c)[k] = ReadStepOf(i)
  <2>1. i \in 1 .. 24 * AnswerBytes(c) /\ k = 21 + i
    BY <1>2 DEF PartOf
  <2>2. Script(c)[21 + i] = ReadStepOf(i)
    BY <2>1, AnswerSteps
  <2>. QED BY <2>1, <2>2
<1>4. /\ phase \in {0, 1, 2} /\ phase = (k - 22) % 3
      /\ (phase = 0 <=> i % 3 = 1) /\ (phase = 1 <=> i % 3 = 2)
  BY <1>2 DEF PartOf
<1>5. phase = 0 => ReadStepOf(i) = Write("lines", 4)
  BY <1>4 DEF ReadStepOf
<1>6. phase = 1 => ReadStepOf(i) = Write("lines", 5)
  BY <1>4 DEF ReadStepOf
<1>7. phase = 2 => ReadStepOf(i) = Sample
  BY <1>4 DEF ReadStepOf
<1>8. phase = 2 \/ (phase = 0 /\ 4 + phase = 4) \/ (phase = 1 /\ 4 + phase = 5)
  <2>1. \A x \in {0, 1, 2} : x = 2 \/ (x = 0 /\ 4 + x = 4) \/ (x = 1 /\ 4 + x = 5)
    OBVIOUS
  <2>. QED BY <1>4, <2>1
<1>9. IF phase = 2 THEN Script(c)[k] = Sample ELSE Script(c)[k] = Write("lines", 4 + phase)
  BY <1>3, <1>5, <1>6, <1>7, <1>8
<1>. QED BY <1>4, <1>9

\* The steps behind the command: the turn, the bits, the release
LEMMA LateSteps ==
    ASSUME NEW n \in 1 .. 7, NEW k \in 1 .. 23 + 24 * n, k > 20
    PROVE  k = 21 \/ k \in 22 .. 21 + 24 * n \/ k \in {22 + 24 * n, 23 + 24 * n}
OBVIOUS

\* Every write of every script does what it has to.
LEMMA ClockWritten ==
    ASSUME NEW c \in AllCommands, NEW last \in 22 .. 191, last = LastStep(c), NEW k \in 1 .. last,
           NEW r, NEW bytes \in Seq(Nat), ClockAt(r, c, k, bytes),
           Answers(c) /\ k > 20 => Len(bytes) = AnswerBytes(c),
           NEW p \in 0 .. 7, NEW now \in [1 .. 7 -> Nat], now \in Times,
           NEW step, step = Script(c)[k], step.op = "write",
           NEW w, w = WriteRtc(Both(r, p), step.port, step.value, now)
    PROVE  WriteRight(w, c, k, bytes, IF k = 20 THEN WantedOf(r, c, now) ELSE bytes)
<1>3. ASSUME k # 20, WriteRight(w, c, k, bytes, bytes)
      PROVE  WriteRight(w, c, k, bytes, IF k = 20 THEN WantedOf(r, c, now) ELSE bytes)
  BY <1>3
<1>4. CASE k \in 1 .. 4
  <2>1. step = Select[k]
    BY <1>4, FirstSteps
  <2>2. w = WriteRtc(Both(r, p), Select[k].port, Select[k].value, now)
    BY <2>1
  <2>3. WriteRight(w, c, k, bytes, bytes)
    BY <1>4, <2>2, SelectWritten
  <2>. QED BY <1>3, <1>4, <2>3
<1>5. CASE k \in 5 .. 19
  <2>1. PICK i \in 1 .. 15 : k = 4 + i
    <3>1. k - 4 \in 1 .. 15 /\ k = 4 + (k - 4)
      BY <1>5
    <3>. QED BY <3>1
  <2>2. i \in 1 .. 16
    OBVIOUS
  <2>3. step = CommandBits(c)[i]
    BY <2>1, <2>2, FirstSteps
  <2>4. w = WriteRtc(Both(r, p), CommandBits(c)[i].port, CommandBits(c)[i].value, now)
    BY <2>3
  <2>5. WriteRight(w, c, 4 + i, bytes, bytes)
    BY <2>1, <2>4, BitWritten
  <2>. QED BY <1>3, <1>5, <2>1, <2>5
<1>6. CASE k = 20
  <2>1. PICK i \in 1 .. 16 : i = 16 /\ k = 4 + i
    BY <1>6
  <2>2. step = CommandBits(c)[16]
    BY <2>1, FirstSteps
  <2>3. w = WriteRtc(Both(r, p), CommandBits(c)[16].port, CommandBits(c)[16].value, now)
    BY <2>2
  <2>4. ClockAt(r, c, 20, bytes)
    BY <1>6
  <2>5. WriteRight(w, c, 20, bytes, WantedOf(r, c, now))
    BY <2>3, <2>4, CommandWritten
  <2>. QED BY <1>6, <2>5
<1>7. k \in {LastStep(c) - 1, LastStep(c)} => w = WriteRtc(Both(r, p), "lines", 1, now)
  <2>1. k \in {LastStep(c) - 1, LastStep(c)} => step = Write("lines", 1)
    BY FirstSteps
  <2>2. Write("lines", 1).port = "lines" /\ Write("lines", 1).value = 1
    BY DEF Write
  <2>. QED BY <2>1, <2>2
<1>8. CASE k > 20 /\ c = 96
  <2>1. k \in {21, 22} /\ k \in {LastStep(c) - 1, LastStep(c)} /\ k # 20
    <3>1. last = 22
      BY <1>8, LastStepIs
    <3>2. k \in 1 .. 22 /\ last - 1 = 21
      BY <3>1
    <3>3. k \in {21, 22} /\ k # 20
      BY <1>8, <3>2
    <3>. QED BY <3>1, <3>2, <3>3
  <2>2. ClockAt(r, 96, k, bytes)
    BY <1>8
  <2>3. WriteRight(w, 96, k, bytes, bytes)
    BY <1>7, <2>1, <2>2, ResetWritten
  <2>. QED BY <1>3, <1>8, <2>1, <2>3
<1>9. CASE k > 20 /\ c = 98
  <2>1. last = 38 /\ k \in 21 .. 38 /\ k # 20
    <3>1. last = 38
      BY <1>9, LastStepIs
    <3>. QED BY <1>9, <3>1
  <2>2. ClockAt(r, 98, k, bytes)
    BY <1>9
  <2>3. CASE k \in 21 .. 36
    <3>1. PICK i \in 1 .. 16 : k = 20 + i
      <4>1. k - 20 \in 1 .. 16 /\ k = 20 + (k - 20)
        BY <2>3
      <4>. QED BY <4>1
    <3>2. step = SentByte(66)[i]
      BY <1>9, <3>1, StatusSteps
    <3>3. w = WriteRtc(Both(r, p), SentByte(66)[i].port, SentByte(66)[i].value, now)
      BY <3>2
    <3>4. ClockAt(r, 98, 20 + i, bytes)
      BY <2>2, <3>1
    <3>5. WriteRight(w, 98, 20 + i, bytes, bytes)
      BY <3>3, <3>4, StatusWritten
    <3>. QED BY <1>3, <1>9, <2>1, <3>1, <3>5
  <2>4. CASE k \in {37, 38}
    <3>1. k \in {last - 1, last}
      BY <2>1, <2>4
    <3>2. WriteRight(w, 98, k, bytes, bytes)
      BY <1>7, <2>2, <2>4, <3>1, InputReleased
    <3>. QED BY <1>3, <1>9, <2>1, <3>2
  <2>5. k \in 21 .. 36 \/ k \in {37, 38}
    BY <2>1
  <2>. QED BY <2>3, <2>4, <2>5
<1>10. CASE k > 20 /\ Answers(c)
  <2>. DEFINE n == AnswerBytes(c)
  <2>1. n \in 1 .. 7 /\ last = 23 + 24 * n
    BY <1>10, LastStepIs
  <2>2. Len(bytes) = AnswerBytes(c) /\ k # 20
    BY <1>10
  <2>3. CASE k = 21
    <3>1. step = Write("direction", 5)
      BY <1>10, <2>3, AnswerSteps
    <3>2. step.port = "direction" /\ step.value = 5
      BY <3>1 DEF Write
    <3>3. w = WriteRtc(Both(r, p), "direction", 5, now) /\ ClockAt(r, c, 21, bytes)
      BY <2>3, <3>2
    <3>4. WriteRight(w, c, 21, bytes, bytes)
      BY <1>10, <2>2, <3>3, Turned
    <3>. QED BY <1>3, <2>2, <2>3, <3>4
  <2>4. CASE k \in 22 .. 21 + 24 * n
    <3>1. PICK i, bit, phase : PartOf(k, n, i, bit, phase)
      BY <2>1, <2>4, AnswerParts
    <3>2. /\ phase \in {0, 1, 2} /\ phase = (k - 22) % 3 /\ bit \in 0 .. 8 * n - 1
          /\ k = 22 + 3 * bit + phase
      BY <3>1 DEF PartOf
    <3>3. IF phase = 2 THEN step = Sample ELSE step = Write("lines", 4 + phase)
      BY <1>10, <2>4, <3>2, ReadStepsAre
    <3>4. phase \in {0, 1} /\ step = Write("lines", 4 + phase)
      <4>1. Sample.op # "write"
        BY SampleIs
      <4>. QED BY <3>2, <3>3, <4>1
    <3>5. step.port = "lines" /\ step.value = 4 + phase
      BY <3>4 DEF Write
    <3>6. w = WriteRtc(Both(r, p), "lines", 4 + phase, now)
      BY <3>5
    <3>7. ClockAt(r, c, 22 + 3 * bit + phase, bytes)
      BY <3>2
    <3>8. WriteRight(w, c, 22 + 3 * bit + phase, bytes, bytes)
      BY <1>10, <2>2, <3>2, <3>4, <3>6, <3>7, LineWritten
    <3>. QED BY <1>3, <2>2, <3>2, <3>8
  <2>5. CASE k \in {22 + 24 * n, 23 + 24 * n}
    <3>1. k \in {last - 1, last}
      <4>. HIDE DEF n
      <4>1. last - 1 = 22 + 24 * n /\ last = 23 + 24 * n
        BY <2>1
      <4>. QED BY <2>5, <4>1 DEF n
    <3>2. WriteRight(w, c, k, bytes, bytes)
      BY <1>7, <1>10, <2>2, <3>1, AnswerReleased
    <3>. QED BY <1>3, <2>2, <3>2
  <2>. HIDE DEF n
  <2>6. k = 21 \/ k \in 22 .. 21 + 24 * n \/ k \in {22 + 24 * n, 23 + 24 * n}
    BY <1>10, <2>1, LateSteps
  <2>. QED BY <2>3, <2>4, <2>5, <2>6
<1>11. k \in 1 .. 4 \/ k \in 5 .. 19 \/ k = 20 \/ k > 20
  OBVIOUS
<1>12. c = 96 \/ c = 98 \/ Answers(c)
  BY LastStepIs
<1>. QED BY <1>4, <1>5, <1>6, <1>8, <1>9, <1>10, <1>11, <1>12

-----------------------------------------------------------------------------
\* What every step of the driver does to the part of the invariant about the clock

\* The driver between transactions
LEMMA IdleIs ==
    /\ Idle = At(None, 0) /\ Idle.command = None /\ Idle.step = 0
    /\ None # 96 /\ None # 98 /\ ~Answers(None)
<1>1. None \notin Nat
  BY GameAssumption
<1>. QED BY <1>1 DEF Idle, At, Answers

\* The driver in a transaction
LEMMA AtIs ==
    ASSUME NEW c \in Commands, NEW k
    PROVE  /\ At(c, k).command = c /\ At(c, k).step = k /\ c \in AllCommands
           /\ k # 0 => At(c, k) # Idle
<1>1. c \in {96, 98, 99, 101, 103}
  BY GameAssumption
<1>. QED BY <1>1 DEF At, Idle, AllCommands

\* Between transactions
LEMMA AtRest ==
    ASSUME NEW r, IsRtc(r), Waits(r), NEW bytes, bytes = << >>
    PROVE  ClockOK(r, Idle, bytes, bytes, FALSE)
<1>1. bytes \in Seq(Nat) /\ bytes \in Seq(Bit) /\ Len(bytes) = 0
  OBVIOUS
<1>2. SelectAt(r, 0) /\ CommandAt(r, None, 0)
  BY DEF SelectAt, CommandAt
<1>3. ClockAt(r, Idle.command, Idle.step, bytes)
  BY <1>2, IdleIs DEF ClockAt
<1>4. DriverAt(Idle, bytes, bytes)
  BY <1>1, IdleIs DEF DriverAt, Sampled
<1>5. BitsRight(bytes, bytes)
  BY <1>1 DEF BitsRight
<1>. QED BY <1>3, <1>4, <1>5 DEF ClockOK

\* and what is known of the clock then
LEMMA Resting ==
    ASSUME NEW r, NEW bytes, NEW bits, NEW spoilt, ClockOK(r, Idle, bytes, bits, spoilt)
    PROVE  IsRtc(r) /\ Waits(r) /\ Len(bits) = 0
<1>1. ClockAt(r, None, 0, bytes) /\ DriverAt(Idle, bytes, bits)
  BY IdleIs DEF ClockOK
<1>2. IsRtc(r) /\ SelectAt(r, 0)
  BY <1>1 DEF ClockAt
<1>3. Len(bits) = Sampled(None, 0)
  BY <1>1, IdleIs DEF DriverAt
<1>. QED BY <1>2, <1>3, IdleIs DEF SelectAt, Sampled

\* The first step of a transaction is ahead.
LEMMA Begun ==
    ASSUME NEW c \in Commands, NEW r, NEW bytes, NEW bits, NEW spoilt,
           ClockOK(r, Idle, bytes, bits, spoilt)
    PROVE  ClockOK(r, At(c, 1), bytes, bits, spoilt)
<1>1. /\ At(c, 1).command = c /\ At(c, 1).step = 1 /\ c \in AllCommands
  BY AtIs
<1>2. IsRtc(r) /\ Waits(r) /\ Len(bits) = 0
  BY Resting
<1>3. bytes \in Seq(Nat) /\ bits \in Seq(Bit) /\ spoilt \in BOOLEAN
      /\ (~spoilt => BitsRight(bytes, bits))
  BY DEF ClockOK, DriverAt
<1>4. SelectAt(r, 1) /\ CommandAt(r, c, 1)
  BY <1>2 DEF SelectAt, CommandAt
<1>5. ResetAt(r, 1) /\ InputAt(r, 1) /\ OutputAt(r, bytes, 1)
  <2>1. 1 \in 0 .. 20
    OBVIOUS
  <2>. QED BY <1>3, <2>1, EarlyAt
<1>6. ClockAt(r, c, 1, bytes)
  BY <1>2, <1>4, <1>5 DEF ClockAt
<1>7. 1 \in 1 .. LastStep(c) /\ Sampled(c, 1) = 0
  <2>1. PICK last \in 22 .. 191 : last = LastStep(c)
    BY <1>1, LastStepIs
  <2>2. 1 \in 1 .. last
    OBVIOUS
  <2>. QED BY <2>1, <2>2 DEF Sampled
<1>8. DriverAt(At(c, 1), bytes, bits)
  BY <1>1, <1>2, <1>3, <1>7 DEF DriverAt
<1>. QED BY <1>1, <1>3, <1>6, <1>8 DEF ClockOK

\* The clock at a step of a transaction
LEMMA Underway ==
    ASSUME NEW c \in Commands, NEW k \in Nat \ {0}, NEW r, NEW bytes, NEW bits, NEW spoilt,
           ClockOK(r, At(c, k), bytes, bits, spoilt)
    PROVE  /\ c \in AllCommands /\ k \in 1 .. LastStep(c) /\ ClockAt(r, c, k, bytes)
           /\ bytes \in Seq(Nat) /\ bits \in Seq(Bit) /\ Len(bits) = Sampled(c, k)
           /\ Answers(c) /\ k > 20 => Len(bytes) = AnswerBytes(c)
           /\ spoilt \in BOOLEAN /\ (~spoilt => BitsRight(bytes, bits))
<1>1. At(c, k).command = c /\ At(c, k).step = k /\ c \in AllCommands /\ At(c, k) # Idle
  BY AtIs
<1>2. DriverAt(At(c, k), bytes, bits) /\ ClockAt(r, c, k, bytes)
      /\ spoilt \in BOOLEAN /\ (~spoilt => BitsRight(bytes, bits))
  BY <1>1 DEF ClockOK
<1>3. /\ k \in 1 .. LastStep(c) /\ bytes \in Seq(Nat) /\ bits \in Seq(Bit)
      /\ Len(bits) = Sampled(c, k)
      /\ Answers(c) /\ k > 20 => Len(bytes) = AnswerBytes(c)
  BY <1>1, <1>2 DEF DriverAt
<1>. QED BY <1>1, <1>2, <1>3

\* and what has to be shown of it
LEMMA IsUnderway ==
    ASSUME NEW c \in Commands, NEW k \in 1 .. LastStep(c), k # 0, NEW r,
           NEW bytes \in Seq(Nat), ClockAt(r, c, k, bytes), NEW bits \in Seq(Bit), Len(bits) = Sampled(c, k),
           Answers(c) /\ k > 20 => Len(bytes) = AnswerBytes(c),
           NEW spoilt \in BOOLEAN, ~spoilt => BitsRight(bytes, bits)
    PROVE  ClockOK(r, At(c, k), bytes, bits, spoilt)
<1>1. At(c, k).command = c /\ At(c, k).step = k
  BY AtIs
<1>2. DriverAt(At(c, k), bytes, bits)
  BY <1>1 DEF DriverAt
<1>. QED BY <1>1, <1>2 DEF ClockOK

\* A write between two bits leaves the number of bits read.
LEMMA SampledKept ==
    ASSUME NEW c, NEW k \in Nat,
           Answers(c) /\ k >= 22 => (k - 22) % 3 # 2
    PROVE  Sampled(c, k + 1) = Sampled(c, k)
<1>1. ASSUME k >= 22, (k - 22) % 3 # 2
      PROVE  ((k + 1) - 22) \div 3 = (k - 22) \div 3 /\ k + 1 >= 22
  <2>. DEFINE x == k - 22
  <2>1. x \in Nat /\ x % 3 # 2
    BY <1>1
  <2>. HIDE DEF x
  <2>2. (x + 1) \div 3 = x \div 3
    BY <2>1
  <2>3. (k + 1) - 22 = x + 1
    BY DEF x
  <2>. QED BY <1>1, <2>2, <2>3 DEF x
<1>2. ASSUME ~(k >= 22)
      PROVE  k + 1 >= 22 => ((k + 1) - 22) \div 3 = 0
  <2>1. k + 1 >= 22 => k = 21
    BY <1>2
  <2>. QED BY <2>1
<1>. QED BY <1>1, <1>2 DEF Sampled

\* Every step is a write but those that read a bit of an answer.
LEMMA OnlyReadsSample ==
    ASSUME NEW c \in AllCommands, NEW last \in 22 .. 191, last = LastStep(c), NEW k \in 1 .. last,
           Script(c)[k].op = "sample"
    PROVE  Answers(c) /\ k \in 22 .. 21 + 24 * AnswerBytes(c) /\ (k - 22) % 3 = 2
<1>1. \A port \in Ports, value \in Int : Write(port, value).op # "sample"
  <2>1. ASSUME NEW port \in Ports, NEW value \in Int
        PROVE  Write(port, value).op # "sample"
    BY WriteIs
  <2>. QED BY <2>1
<1>2. ASSUME NEW port \in Ports, NEW value \in Int, Script(c)[k] = Write(port, value)
      PROVE  FALSE
  BY <1>1, <1>2
<1>3. k \in 5 .. 20 => FALSE
  <2>1. ASSUME NEW i \in 1 .. 16, k = 4 + i
        PROVE  FALSE
    <3>1. Script(c)[k] = CommandBits(c)[i]
      BY <2>1, FirstSteps
    <3>2. CommandBits(c)[i].op = "write"
      BY DEF CommandBits, Write
    <3>. QED BY <3>1, <3>2
  <2>2. k \in 5 .. 20 => k - 4 \in 1 .. 16 /\ k = 4 + (k - 4)
    OBVIOUS
  <2>. QED BY <2>1, <2>2
<1>4. k \in 1 .. 4 => FALSE
  <2>1. \A i \in 1 .. 4 : Select[i].op = "write"
    BY DEF Select, Write
  <2>2. k \in 1 .. 4 => Script(c)[k] = Select[k]
    BY FirstSteps
  <2>. QED BY <2>1, <2>2
<1>5. k \in {last - 1, last} => FALSE
  <2>1. k \in {last - 1, last} => Script(c)[k] = Write("lines", 1)
    BY FirstSteps
  <2>2. "lines" \in Ports /\ 1 \in Int
    BY DEF Ports
  <2>. QED BY <1>2, <2>1, <2>2
<1>6. k > 20 /\ k < last - 1
  <2>1. k \in 1 .. 4 \/ k \in 5 .. 20 \/ k \in {last - 1, last} \/ (k > 20 /\ k < last - 1)
    OBVIOUS
  <2>. QED BY <1>3, <1>4, <1>5, <2>1
<1>7. CASE c = 96
  <2>1. last = 22
    BY <1>7, LastStepIs
  <2>. QED BY <1>6, <2>1
<1>8. CASE c = 98
  <2>1. last = 38
    BY <1>8, LastStepIs
  <2>2. k - 20 \in 1 .. 16 /\ k = 20 + (k - 20)
    BY <1>6, <2>1
  <2>3. ASSUME NEW i \in 1 .. 16, k = 20 + i
        PROVE  FALSE
    <3>1. Script(c)[k] = SentByte(66)[i]
      BY <1>8, <2>3, StatusSteps
    <3>2. SentByte(66)[i].op = "write"
      BY DEF SentByte, Write
    <3>. QED BY <3>1, <3>2
  <2>. QED BY <2>2, <2>3
<1>9. CASE Answers(c)
  <2>. DEFINE n == AnswerBytes(c)
  <2>1. n \in 1 .. 7 /\ last = 23 + 24 * n
    BY <1>9, LastStepIs
  <2>2. k # 21
    <3>1. "direction" \in Ports /\ 5 \in Int
      BY DEF Ports
    <3>2. Script(c)[21] = Write("direction", 5)
      BY <1>9, AnswerSteps
    <3>. QED BY <1>2, <3>1, <3>2
  <2>3. k \in 22 .. 21 + 24 * n
    <3>. HIDE DEF n
    <3>1. k # last - 1 /\ k # last
      BY <1>6
    <3>2. k # 22 + 24 * n /\ k # 23 + 24 * n
      BY <2>1, <3>1
    <3>3. k \in 1 .. 23 + 24 * n /\ k > 20
      BY <1>6, <2>1
    <3>. QED BY <2>1, <2>2, <3>2, <3>3, LateSteps
  <2>4. CASE (k - 22) % 3 # 2
    <3>1. PICK i, bit, phase : PartOf(k, n, i, bit, phase)
      BY <2>1, <2>3, AnswerParts
    <3>2. phase \in {0, 1, 2} /\ phase = (k - 22) % 3
      BY <3>1 DEF PartOf
    <3>3. phase \in {0, 1} /\ Script(c)[k] = Write("lines", 4 + phase)
      BY <1>9, <2>3, <2>4, <3>2, ReadStepsAre
    <3>4. "lines" \in Ports /\ 4 + phase \in Int
      BY <3>3 DEF Ports
    <3>. QED BY <1>2, <3>3, <3>4
  <2>. QED BY <1>9, <2>3, <2>4
<1>10. c = 96 \/ c = 98 \/ Answers(c)
  BY LastStepIs
<1>. QED BY <1>7, <1>8, <1>9, <1>10

\* A write that does not end the transaction
LEMMA WriteMoves ==
    ASSUME NEW c \in Commands, NEW last \in 22 .. 191, last = LastStep(c), NEW k \in 1 .. last,
           k # last, NEW r, NEW bytes, NEW bits, NEW spoilt, ClockOK(r, At(c, k), bytes, bits, spoilt),
           Script(c)[k].op = "write", NEW w, NEW after, WriteRight(w, c, k, bytes, after),
           k # 20 => after = bytes
    PROVE  /\ ClockOK(w.rtc, At(c, k + 1), after, bits, spoilt)
           /\ AboutToSample(At(c, k + 1)) => Shows(w.page, after, Len(bits))
<1>1. k \in Nat \ {0}
  OBVIOUS
<1>2. /\ c \in AllCommands
      /\ bytes \in Seq(Nat) /\ bits \in Seq(Bit) /\ Len(bits) = Sampled(c, k)
      /\ Answers(c) /\ k > 20 => Len(bytes) = AnswerBytes(c)
      /\ spoilt \in BOOLEAN /\ (~spoilt => BitsRight(bytes, bits))
  BY <1>1, Underway
<1>3. k + 1 \in 1 .. last /\ k + 1 # 0 /\ k < last /\ (k + 1 > 20 => k >= 20)
      /\ (k + 1) - 22 = (k - 22) + 1
  OBVIOUS
<1>4. /\ after \in Seq(Nat) /\ ClockAt(w.rtc, c, k + 1, after)
      /\ Answers(c) /\ k + 1 > 20 => Len(after) = AnswerBytes(c)
  BY <1>3 DEF WriteRight
<1>5. ASSUME Answers(c), k \in 22 .. 21 + 24 * AnswerBytes(c)
      PROVE  (k - 22) % 3 # 2
  <2>1. Script(c)[k] = Sample => FALSE
    BY SampleIs
  <2>. QED BY <1>2, <1>5, <2>1, ReadStepsAre
<1>6. Answers(c) /\ k >= 22 => (k - 22) % 3 # 2
  <2>1. ASSUME Answers(c), k >= 22, ~(k \in 22 .. 21 + 24 * AnswerBytes(c))
        PROVE  (k - 22) % 3 # 2
    <3>4. AnswerBytes(c) \in 1 .. 7 /\ LastStep(c) = 23 + 24 * AnswerBytes(c)
      BY <1>2, <2>1, LastStepIs
    <3>1. PICK n \in 1 .. 7 : n = AnswerBytes(c) /\ last = 23 + 24 * n
      BY <3>4
    <3>2. k = 22 + 24 * n
      <4>1. k \in 1 .. 23 + 24 * n /\ k # 23 + 24 * n /\ k > 20 /\ k # 21
        BY <2>1, <3>1
      <4>2. ~(k \in 22 .. 21 + 24 * n)
        BY <2>1, <3>1
      <4>. QED BY <4>1, <4>2, LateSteps
    <3>3. (24 * n) % 3 = 0 /\ (22 + 24 * n) - 22 = 24 * n
      OBVIOUS
    <3>. QED BY <3>2, <3>3
  <2>. QED BY <1>5, <2>1
<1>7. Len(bits) = Sampled(c, k + 1)
  BY <1>1, <1>2, <1>6, SampledKept
<1>8. ~spoilt => BitsRight(after, bits)
  <2>1. CASE k = 20
    <3>1. Len(bits) = 0
      BY <1>2, <2>1 DEF Sampled
    <3>. QED BY <3>1 DEF BitsRight
  <2>. QED BY <1>2, <2>1
<1>9. ClockOK(w.rtc, At(c, k + 1), after, bits, spoilt)
  BY <1>2, <1>3, <1>4, <1>7, <1>8, IsUnderway
<1>10. ASSUME AboutToSample(At(c, k + 1))
       PROVE  Shows(w.page, after, Len(bits))
  <2>1. /\ Answers(c) /\ k + 1 \in 22 .. 21 + 24 * AnswerBytes(c)
        /\ ((k + 1) - 22) % 3 = 2
    BY <1>10, AtIs DEF AboutToSample
  <2>2. AnswerBytes(c) \in 1 .. 7
    BY <1>2, <2>1, LastStepIs
  <2>3. PICK i, bit, phase : PartOf(k + 1, AnswerBytes(c), i, bit, phase)
    BY <2>1, <2>2, AnswerParts
  <2>4. bit \in Nat /\ phase = 2 /\ k + 1 = 22 + 3 * bit + 2
    BY <2>1, <2>3 DEF PartOf
  <2>5. k = 22 + 3 * bit + 1 /\ (k - 22) % 3 = 1 /\ (k - 22) \div 3 = bit /\ k >= 22 /\ k # 20
    BY <2>4
  <2>6. k \in 22 .. 21 + 24 * AnswerBytes(c)
    <3>1. PICK n \in 1 .. 7 : n = AnswerBytes(c)
      BY <2>2
    <3>2. k + 1 \in 22 .. 21 + 24 * n
      BY <2>1, <3>1
    <3>3. k \in 22 .. 21 + 24 * n
      BY <2>5, <3>2
    <3>. QED BY <3>1, <3>3
  <2>7. BitOf(w.page, 1) = WantedBit(bytes, bit)
    BY <2>1, <2>5, <2>6 DEF WriteRight
  <2>8. Len(bits) = bit /\ after = bytes
    BY <1>2, <2>1, <2>5 DEF Sampled
  <2>. QED BY <2>7, <2>8 DEF Shows
<1>. QED BY <1>9, <1>10

\* The last write of a transaction
LEMMA WriteEnds ==
    ASSUME NEW c \in Commands, NEW last \in 22 .. 191, last = LastStep(c),
           NEW bytes, NEW w, NEW after, WriteRight(w, c, last, bytes, after),
           NEW empty, empty = << >>
    PROVE  ClockOK(w.rtc, Idle, empty, empty, FALSE)
<1>1. IsRtc(w.rtc) /\ Waits(w.rtc)
  BY DEF WriteRight
<1>. QED BY <1>1, AtRest

\* A line is read: the last one closes the answer, as far as the clock is concerned.
LEMMA SampleMoves ==
    ASSUME NEW c \in Commands, NEW last \in 22 .. 191, last = LastStep(c), NEW k \in 1 .. last,
           NEW r, NEW bytes, NEW bits, NEW spoilt, ClockOK(r, At(c, k), bytes, bits, spoilt),
           Script(c)[k].op = "sample", NEW bit \in Bit,
           ~spoilt => bit = WantedBit(bytes, Len(bits))
    PROVE  /\ k # last
           /\ ClockOK(r, At(c, k + 1), bytes, Append(bits, bit), spoilt)
           /\ ~AboutToSample(At(c, k + 1))
<1>1. k \in Nat \ {0}
  OBVIOUS
<1>2. /\ c \in AllCommands /\ ClockAt(r, c, k, bytes)
      /\ bytes \in Seq(Nat) /\ bits \in Seq(Bit) /\ Len(bits) = Sampled(c, k)
      /\ Answers(c) /\ k > 20 => Len(bytes) = AnswerBytes(c)
      /\ spoilt \in BOOLEAN /\ (~spoilt => BitsRight(bytes, bits))
  BY <1>1, Underway
<1>3. Answers(c) /\ k \in 22 .. 21 + 24 * AnswerBytes(c) /\ (k - 22) % 3 = 2
  BY <1>2, OnlyReadsSample
<1>4. /\ AnswerBytes(c) \in 1 .. 7 /\ LastStep(c) = 23 + 24 * AnswerBytes(c) /\ c # 96 /\ c # 98
  BY <1>2, <1>3, LastStepIs
<1>5. PICK n \in 1 .. 7 : n = AnswerBytes(c)
  BY <1>4
<1>6. PICK i, b, phase : PartOf(k, n, i, b, phase)
  BY <1>3, <1>5, AnswerParts
<1>7. /\ b \in 0 .. 8 * n - 1 /\ phase = 2 /\ k = 22 + 3 * b + 2 /\ b = (k - 22) \div 3
  BY <1>3, <1>6 DEF PartOf
<1>8. Len(bits) = b /\ Len(bytes) = n
  BY <1>2, <1>3, <1>5, <1>7 DEF Sampled
<1>9. k + 1 \in 22 .. 22 + 24 * n /\ k + 1 > 20 /\ k + 1 \in Nat /\ k + 1 = 22 + 3 * (b + 1) + 0
  BY <1>7
<1>10. k # last /\ k + 1 \in 1 .. last /\ k + 1 # 0
  <2>1. last = 23 + 24 * n
    BY <1>4, <1>5
  <2>. QED BY <1>9, <2>1
<1>11. OutputAt(r, bytes, k) /\ IsRtc(r)
  BY <1>2, <1>3 DEF ClockAt
<1>12. AnswerAt(r, bytes, b, 2)
  <2>1. 2 \in {0, 1, 2}
    OBVIOUS
  <2>. QED BY <1>2, <1>7, <1>8, <1>11, <2>1, PlaceIs
<1>13. IF b + 1 = 8 * n THEN Shut(r, 0) ELSE AnswerAt(r, bytes, b + 1, 0)
  BY <1>2, <1>7, <1>8, <1>12, AnswerMoves
<1>14. OutputAt(r, bytes, k + 1)
  <2>1. CASE b + 1 = 8 * n
    <3>1. /\ k + 1 = 22 + 24 * n /\ k + 1 # 21 /\ k + 1 \notin 22 .. 21 + 24 * n
          /\ k + 1 # 23 + 24 * n
      BY <1>9, <2>1
    <3>2. Shut(r, 0)
      BY <1>13, <2>1
    <3>. QED BY <1>8, <3>1, <3>2 DEF OutputAt
  <2>2. CASE b + 1 # 8 * n
    <3>1. b + 1 \in 0 .. 8 * n - 1 /\ 0 \in {0, 1, 2}
      BY <1>7, <2>2
    <3>2. AnswerAt(r, bytes, b + 1, 0)
      BY <1>13, <2>2
    <3>3. OutputAt(r, bytes, 22 + 3 * (b + 1) + 0)
      BY <1>2, <1>8, <3>1, <3>2, PlaceIs
    <3>. QED BY <1>9, <3>3
  <2>. QED BY <2>1, <2>2
<1>15. SelectAt(r, k + 1) /\ CommandAt(r, c, k + 1)
  BY <1>9, LateAt
<1>16. ClockAt(r, c, k + 1, bytes)
  BY <1>4, <1>11, <1>14, <1>15 DEF ClockAt
<1>17. /\ Append(bits, bit) \in Seq(Bit) /\ Len(Append(bits, bit)) = b + 1
       /\ \A j \in 1 .. b : Append(bits, bit)[j] = bits[j]
       /\ Append(bits, bit)[b + 1] = bit
  BY <1>2, <1>8
<1>18. Sampled(c, k + 1) = b + 1
  <2>1. k + 1 >= 22 /\ ((k + 1) - 22) \div 3 = b + 1
    BY <1>7
  <2>. QED BY <1>3, <2>1 DEF Sampled
<1>19. ~spoilt => BitsRight(bytes, Append(bits, bit))
  <2>1. ASSUME ~spoilt, NEW j \in 1 .. b + 1
        PROVE  Append(bits, bit)[j] = WantedBit(bytes, j - 1)
    <3>1. CASE j = b + 1
      <4>1. j - 1 = b
        BY <1>7, <3>1
      <4>. QED BY <1>8, <1>17, <2>1, <3>1, <4>1
    <3>2. CASE j # b + 1
      <4>1. j \in 1 .. b
        BY <1>7, <3>2
      <4>. QED BY <1>2, <1>8, <1>17, <2>1, <4>1 DEF BitsRight
    <3>. QED BY <3>1, <3>2
  <2>. QED BY <1>17, <2>1 DEF BitsRight
<1>20. ClockOK(r, At(c, k + 1), bytes, Append(bits, bit), spoilt)
  <2>1. Len(Append(bits, bit)) = Sampled(c, k + 1) /\ Len(bytes) = AnswerBytes(c)
    BY <1>5, <1>8, <1>17, <1>18
  <2>. QED BY <1>2, <1>10, <1>16, <1>17, <1>19, <2>1, IsUnderway
<1>21. ~AboutToSample(At(c, k + 1))
  <2>1. ((k + 1) - 22) % 3 # 2
    BY <1>7
  <2>. QED BY <2>1, AtIs DEF AboutToSample
<1>. QED BY <1>10, <1>20, <1>21

-----------------------------------------------------------------------------
\* The invariant and the actions

\* The clock when the program starts
LEMMA StoppedIs == IsRtc(Stopped) /\ Waits(Stopped)
<1>1. IsRtc(Stopped)
  BY DEF Stopped, IsRtc, States
<1>2. Stopped.state = "disabled" /\ Stopped.lines = 0
  BY DEF Stopped
<1>. QED BY <1>1, <1>2 DEF Waits

\* The clock after init_memory
LEMMA ResetIs ==
    ASSUME NEW r, IsRtc(r)
    PROVE  IsRtc(ResetRtc(r)) /\ Waits(ResetRtc(r))
<1>. DEFINE c == Clear(r)
            q == [c EXCEPT !.state = "disabled"]
<1>1. IsRtc(c) /\ c.lines = 0
  BY RegistersCleared
<1>. HIDE DEF c
<1>2. q = [field \in DOMAIN q |-> q[field]] /\ DOMAIN q = DOMAIN c
  BY <1>1 DEF IsRtc
<1>3. /\ q.state = "disabled" /\ q.lines = c.lines /\ q.enable = c.enable
      /\ q.direction = c.direction /\ q.command = c.command /\ q.data = c.data
      /\ q.status = c.status /\ q.bytes = c.bytes /\ q.count = c.count
  BY <1>1 DEF IsRtc
<1>. HIDE DEF q
<1>4. IsRtc(q) /\ Waits(q)
  BY <1>1, <1>2, <1>3 DEF IsRtc, States, Waits
<1>. QED BY <1>4 DEF q, c, ResetRtc

\* Nothing is about to be read between transactions.
LEMMA RestSamplesNothing == ~AboutToSample(Idle)
BY IdleIs DEF AboutToSample

\* The invariant holds when the program starts.
LEMMA RtcInvInit ==
    ASSUME CartridgeInit
    PROVE  RtcInv
<1>1. ClockOK(rtc, driver, expected, sampled, torn)
  BY StoppedIs, AtRest DEF CartridgeInit
<1>2. PageOK
  BY RestSamplesNothing DEF CartridgeInit, PageOK
<1>3. RtcSnapshotOK
  BY DEF CartridgeInit, RtcSnapshotOK
<1>. QED BY <1>1, <1>2, <1>3 DEF RtcInv

\* The driver's next step
LEMMA NextStepIs ==
    ASSUME RtcInv, driver # Idle
    PROVE  \E c \in Commands, last \in 22 .. 191 : \E k \in 1 .. last :
             /\ driver = At(c, k) /\ driver.command = c /\ driver.step = k
             /\ last = LastStep(c) /\ c \in AllCommands /\ NextStep = Script(c)[k]
             /\ Advanced = IF k = last THEN Idle ELSE At(c, k + 1)
<1>1. DriverAt(driver, expected, sampled)
  BY DEF RtcInv, ClockOK
<1>2. /\ driver = At(driver.command, driver.step) /\ driver.command \in Commands
      /\ driver.step \in 1 .. LastStep(driver.command)
  BY <1>1 DEF DriverAt
<1>3. PICK c, k : c = driver.command /\ k = driver.step /\ driver = At(c, k)
  BY <1>2
<1>4. c \in Commands /\ c \in AllCommands
  BY <1>2, <1>3, AtIs
<1>5. PICK last \in 22 .. 191 : last = LastStep(c)
  BY <1>4, LastStepIs
<1>6. k \in 1 .. last
  BY <1>2, <1>3, <1>5
<1>7. Scripts[c] = Script(c)
  BY <1>4 DEF Scripts
<1>8. NextStep = Script(c)[k]
  BY <1>3, <1>7 DEF NextStep
<1>9. Len(Scripts[driver.command]) = last
  BY <1>3, <1>4, <1>5, <1>7, FirstSteps
<1>10. [driver EXCEPT !.step = @ + 1] = At(c, k + 1)
  BY <1>3 DEF At
<1>11. Advanced = IF k = last THEN Idle ELSE At(c, k + 1)
  BY <1>3, <1>9, <1>10 DEF Advanced
<1>. QED BY <1>3, <1>4, <1>5, <1>6, <1>8, <1>11

\* The game begins a transaction.
LEMMA BeginKeepsRtc ==
    ASSUME RtcInv, NEW command \in Commands, BeginTransaction(command)
    PROVE  RtcInv'
<1>1. /\ driver = Idle /\ driver' = At(command, 1)
      /\ UNCHANGED <<rtc, page, sampled, expected, torn, snapshot>>
  BY DEF BeginTransaction, At
<1>2. ClockOK(rtc, Idle, expected, sampled, torn)
  BY <1>1 DEF RtcInv
<1>3. ClockOK(rtc, At(command, 1), expected, sampled, torn)
  BY <1>2, Begun
<1>4. ~AboutToSample(At(command, 1))
  <2>1. At(command, 1).step = 1
    BY AtIs
  <2>2. 1 \notin 22 .. 21 + 24 * AnswerBytes(command)
    OBVIOUS
  <2>. QED BY <2>1, <2>2, AtIs DEF AboutToSample
<1>5. ClockOK(rtc, driver, expected, sampled, torn)'
  BY <1>1, <1>3
<1>6. PageOK'
  BY <1>1, <1>4 DEF PageOK, RtcInv
<1>7. RtcSnapshotOK'
  BY <1>1 DEF RtcSnapshotOK, RtcInv
<1>. QED BY <1>5, <1>6, <1>7 DEF RtcInv

\* The driver writes to one of the three ports.
LEMMA WriteKeepsRtc ==
    ASSUME RtcInv, NEW now \in Times, WriteStep(now)
    PROVE  RtcInv'
<1>. DEFINE w == WriteRtc(Both(rtc, page), NextStep.port, NextStep.value, now)
<1>1. /\ driver # Idle /\ NextStep.op = "write"
      /\ rtc' = w.rtc /\ page' = w.page /\ driver' = Advanced
      /\ expected' = CASE driver.step = Len(Select) + 16 -> Wanted(driver.command, now)
                       [] driver' = Idle -> << >>
                       [] OTHER -> expected
      /\ sampled' = IF driver' = Idle THEN << >> ELSE sampled
      /\ torn' = (torn /\ driver' # Idle)
      /\ snapshot' = snapshot
  BY DEF WriteStep, Both
<1>. HIDE DEF w
<1>2. PICK c \in Commands, last \in 22 .. 191 : \E k \in 1 .. last :
        /\ driver = At(c, k) /\ driver.command = c /\ driver.step = k
        /\ last = LastStep(c) /\ c \in AllCommands /\ NextStep = Script(c)[k]
        /\ Advanced = IF k = last THEN Idle ELSE At(c, k + 1)
  BY <1>1, NextStepIs
<1>3. PICK k \in 1 .. last :
        /\ driver = At(c, k) /\ driver.command = c /\ driver.step = k
        /\ last = LastStep(c) /\ c \in AllCommands /\ NextStep = Script(c)[k]
        /\ Advanced = IF k = last THEN Idle ELSE At(c, k + 1)
  BY <1>2
<1>4. ClockOK(rtc, At(c, k), expected, sampled, torn) /\ page \in 0 .. 7
  BY <1>3 DEF RtcInv, PageOK
<1>5. k \in Nat \ {0}
  OBVIOUS
<1>6. /\ ClockAt(rtc, c, k, expected) /\ expected \in Seq(Nat)
      /\ Answers(c) /\ k > 20 => Len(expected) = AnswerBytes(c)
      /\ torn \in BOOLEAN
  BY <1>4, <1>5, Underway
<1>7. now \in [1 .. 7 -> Nat]
  BY GameAssumption
<1>. DEFINE after == IF k = 20 THEN WantedOf(rtc, c, now) ELSE expected
<1>8. WriteRight(w, c, k, expected, after)
  <2>1. PICK step : step = Script(c)[k]
    OBVIOUS
  <2>2. step.op = "write" /\ w = WriteRtc(Both(rtc, page), step.port, step.value, now)
    BY <1>1, <1>3, <2>1 DEF w
  <2>. QED BY <1>3, <1>4, <1>6, <1>7, <2>1, <2>2, ClockWritten
<1>9. RtcSnapshotOK'
  BY <1>1 DEF RtcSnapshotOK, RtcInv
<1>10. page' \in 0 .. 7
  BY <1>1, <1>8 DEF WriteRight
<1>11. Len(Select) = 4
  BY PartsAreSteps
<1>12. Wanted(driver.command, now) = WantedOf(rtc, c, now)
  <2>1. Wanted(c, now) = WantedOf(rtc, c, now)
    BY Zenon DEF Wanted, WantedOf, One
  <2>. QED BY <1>3, <2>1
<1>13. CASE k = last
  <2>1. driver' = Idle /\ sampled' = << >> /\ torn' = FALSE
    BY <1>1, <1>3, <1>6, <1>13
  <2>2. expected' = << >>
    <3>1. driver.step # 4 + 16
      BY <1>3, <1>13
    <3>. QED BY <1>1, <1>11, <2>1, <3>1
  <2>3. WriteRight(w, c, last, expected, after)
    BY <1>8, <1>13
  <2>. HIDE DEF after
  <2>4. ClockOK(w.rtc, Idle, sampled', sampled', FALSE)
    BY <1>3, <2>1, <2>3, WriteEnds
  <2>5. ClockOK(rtc, driver, expected, sampled, torn)'
    BY <1>1, <2>1, <2>2, <2>4
  <2>6. PageOK'
    BY <1>10, <2>1, RestSamplesNothing DEF PageOK
  <2>. QED BY <1>9, <2>5, <2>6 DEF RtcInv
<1>14. CASE k # last
  <2>1. driver' = At(c, k + 1) /\ At(c, k + 1) # Idle
    <3>1. k + 1 # 0
      OBVIOUS
    <3>. QED BY <1>1, <1>3, <1>14, <3>1, AtIs
  <2>2. sampled' = sampled /\ torn' = torn
    BY <1>1, <1>6, <2>1
  <2>3. expected' = after
    BY <1>1, <1>3, <1>11, <1>12, <2>1
  <2>4. Script(c)[k].op = "write" /\ (k # 20 => after = expected)
    BY <1>1, <1>3
  <2>. HIDE DEF after
  <2>5. /\ ClockOK(w.rtc, At(c, k + 1), after, sampled, torn)
        /\ AboutToSample(At(c, k + 1)) => Shows(w.page, after, Len(sampled))
    BY <1>3, <1>4, <1>8, <1>14, <2>4, WriteMoves
  <2>6. ClockOK(rtc, driver, expected, sampled, torn)'
    BY <1>1, <2>1, <2>2, <2>3, <2>5
  <2>7. PageOK'
    BY <1>1, <1>10, <2>1, <2>2, <2>3, <2>5 DEF PageOK, Shows
  <2>. QED BY <1>9, <2>6, <2>7 DEF RtcInv
<1>. QED BY <1>13, <1>14

\* The driver reads the data line.
LEMMA SampleKeepsRtc ==
    ASSUME RtcInv, SampleStep
    PROVE  RtcInv'
<1>1. /\ driver # Idle /\ NextStep.op = "sample"
      /\ sampled' = Append(sampled, BitOf(page, 1)) /\ driver' = Advanced
      /\ UNCHANGED <<rtc, page, expected, torn, snapshot>>
  BY DEF SampleStep
<1>2. PICK c \in Commands, last \in 22 .. 191 : \E k \in 1 .. last :
        /\ driver = At(c, k) /\ driver.command = c /\ driver.step = k
        /\ last = LastStep(c) /\ c \in AllCommands /\ NextStep = Script(c)[k]
        /\ Advanced = IF k = last THEN Idle ELSE At(c, k + 1)
  BY <1>1, NextStepIs
<1>3. PICK k \in 1 .. last :
        /\ driver = At(c, k) /\ driver.command = c /\ driver.step = k
        /\ last = LastStep(c) /\ c \in AllCommands /\ NextStep = Script(c)[k]
        /\ Advanced = IF k = last THEN Idle ELSE At(c, k + 1)
  BY <1>2
<1>4. ClockOK(rtc, At(c, k), expected, sampled, torn) /\ PageOK
  BY <1>3 DEF RtcInv
<1>5. k \in Nat \ {0}
  OBVIOUS
<1>6. /\ Script(c)[k].op = "sample" /\ Answers(c) /\ k \in 22 .. 21 + 24 * AnswerBytes(c)
      /\ (k - 22) % 3 = 2
  BY <1>1, <1>3, OnlyReadsSample
<1>7. AboutToSample(driver)
  BY <1>3, <1>6 DEF AboutToSample
<1>. DEFINE bit == BitOf(page, 1)
<1>8. bit \in Bit
  <2>1. page \in Nat /\ 1 \in 0 .. 7
    BY <1>4 DEF PageOK
  <2>. QED BY <2>1, ByteBits DEF Bit
<1>9. ~torn => bit = WantedBit(expected, Len(sampled))
  BY <1>4, <1>7 DEF PageOK
<1>. HIDE DEF bit
<1>10. /\ k # last /\ ClockOK(rtc, At(c, k + 1), expected, Append(sampled, bit), torn)
       /\ ~AboutToSample(At(c, k + 1))
  <2>1. last = LastStep(c)
    BY <1>3
  <2>2. ClockOK(rtc, At(c, k), expected, sampled, torn) /\ Script(c)[k].op = "sample"
    BY <1>4, <1>6
  <2>. QED BY <1>8, <1>9, <2>1, <2>2, SampleMoves
<1>11. driver' = At(c, k + 1) /\ sampled' = Append(sampled, bit)
  BY <1>1, <1>3, <1>10 DEF bit
<1>12. ClockOK(rtc, driver, expected, sampled, torn)'
  BY <1>1, <1>10, <1>11
<1>13. PageOK'
  BY <1>1, <1>4, <1>10, <1>11 DEF PageOK
<1>14. RtcSnapshotOK'
  BY <1>1 DEF RtcSnapshotOK, RtcInv
<1>. QED BY <1>12, <1>13, <1>14 DEF RtcInv

\* The machine is reset, the memory is saved, the program starts again.
LEMMA FrontendKeepsRtc ==
    ASSUME RtcInv, ResetChips \/ Save \/ Restart
    PROVE  RtcInv'
<1>1. RtcSnapshotOK'
  BY DEF ResetChips, Save, Restart, RtcInv, RtcSnapshotOK
<1>2. CASE ResetChips
  <2>1. /\ rtc' = ResetRtc(rtc) /\ driver' = Idle /\ sampled' = << >> /\ expected' = << >>
        /\ torn' = FALSE /\ page' = page
    BY <1>2 DEF ResetChips
  <2>2. IsRtc(rtc)
    BY DEF RtcInv, ClockOK, ClockAt
  <2>3. IsRtc(rtc') /\ Waits(rtc')
    BY <2>1, <2>2, ResetIs
  <2>4. ClockOK(rtc', Idle, sampled', sampled', FALSE)
    BY <2>1, <2>3, AtRest
  <2>5. ClockOK(rtc, driver, expected, sampled, torn)'
    BY <2>1, <2>4
  <2>6. PageOK'
    BY <2>1, RestSamplesNothing DEF PageOK, RtcInv
  <2>. QED BY <1>1, <2>5, <2>6 DEF RtcInv
<1>3. CASE Restart
  <2>1. /\ rtc' = Stopped /\ driver' = Idle /\ sampled' = << >> /\ expected' = << >>
        /\ torn' = FALSE /\ page' = 0
    BY <1>3 DEF Restart
  <2>2. ClockOK(rtc', Idle, sampled', sampled', FALSE)
    BY <2>1, StoppedIs, AtRest
  <2>3. ClockOK(rtc, driver, expected, sampled, torn)'
    BY <2>1, <2>2
  <2>4. PageOK'
    BY <2>1, RestSamplesNothing DEF PageOK
  <2>. QED BY <1>1, <2>3, <2>4 DEF RtcInv
<1>4. CASE Save
  <2>1. UNCHANGED clockVars
    BY <1>4 DEF Save
  <2>. QED BY <1>1, <2>1 DEF clockVars, RtcInv, ClockOK, PageOK
<1>. QED BY <1>2, <1>3, <1>4

\* A savestate keeps the clock, the driver and what it has read.
LEMMA SaveKeepsRtc ==
    ASSUME RtcInv, SaveState
    PROVE  RtcInv'
<1>1. /\ UNCHANGED clockVars
      /\ snapshot' =
           [eeprom |-> eeprom, backupType |-> backupType, rtc |-> rtc, asked |-> asked,
            driver |-> driver, sampled |-> sampled, expected |-> expected, torn |-> torn]
  BY DEF SaveState
<1>2. /\ snapshot'.rtc = rtc /\ snapshot'.driver = driver /\ snapshot'.expected = expected
      /\ snapshot'.sampled = sampled /\ snapshot'.torn = torn
  BY <1>1
<1>3. RtcSnapshotOK'
  BY <1>2 DEF RtcSnapshotOK, RtcInv
<1>. QED BY <1>1, <1>3 DEF clockVars, RtcInv, ClockOK, PageOK

\* A savestate brings the clock back and not the page: whatever the driver is about to read
\* of the lines is lost, and nothing else.
LEMMA LoadKeepsRtc ==
    ASSUME RtcInv, LoadChipState
    PROVE  RtcInv'
<1>1. /\ snapshot # None /\ rtc' = snapshot.rtc /\ driver' = snapshot.driver
      /\ sampled' = snapshot.sampled /\ expected' = snapshot.expected
      /\ torn' = \/ snapshot.torn
                 \/ driver' # Idle /\ Scripts[driver'.command][driver'.step] = Sample
      /\ page' = page /\ snapshot' = snapshot
  BY DEF LoadChipState
<1>2. ClockOK(rtc', driver', expected', sampled', snapshot.torn)
  BY <1>1 DEF RtcInv, RtcSnapshotOK
<1>3. torn' \in BOOLEAN /\ (~torn' => ~snapshot.torn)
  BY <1>1, <1>2 DEF ClockOK
<1>4. ClockOK(rtc, driver, expected, sampled, torn)'
  BY <1>2, <1>3 DEF ClockOK
<1>5. ASSUME AboutToSample(driver')
      PROVE  torn'
  <2>1. driver' # Idle
    BY <1>5, RestSamplesNothing
  <2>2. driver'.command \in Commands /\ driver' = At(driver'.command, driver'.step)
    BY <1>2, <2>1 DEF ClockOK, DriverAt
  <2>3. PICK c, k : c = driver'.command /\ k = driver'.step
    OBVIOUS
  <2>4. c \in Commands /\ c \in AllCommands
    BY <2>2, <2>3, AtIs
  <2>5. Answers(c) /\ k \in 22 .. 21 + 24 * AnswerBytes(c) /\ (k - 22) % 3 = 2
    BY <1>5, <2>3 DEF AboutToSample
  <2>6. Script(c)[k] = Sample
    BY <2>4, <2>5, ReadStepsAre
  <2>7. Scripts[c] = Script(c)
    BY <2>4 DEF Scripts
  <2>. QED BY <1>1, <2>1, <2>3, <2>6, <2>7
<1>6. PageOK'
  BY <1>1, <1>5 DEF PageOK, RtcInv
<1>7. RtcSnapshotOK'
  BY <1>1 DEF RtcSnapshotOK, RtcInv
<1>. QED BY <1>4, <1>6, <1>7 DEF RtcInv

\* Every step keeps the invariant.
LEMMA RtcInvStep ==
    ASSUME RtcInv, [CartridgeNext]_cartridgeVars
    PROVE  RtcInv'
<1>1. ASSUME UNCHANGED <<clockVars, snapshot>>
      PROVE  RtcInv'
  BY <1>1 DEF clockVars, RtcInv, ClockOK, PageOK, RtcSnapshotOK
<1>2. ASSUME NEW block \in Blocks, AskForBlock(block)
      PROVE  RtcInv'
  BY <1>1, <1>2 DEF AskForBlock, SendCommand
<1>3. ASSUME NEW block \in Blocks, NEW data \in Data, WriteBlock(block, data)
      PROVE  RtcInv'
  BY <1>1, <1>3 DEF WriteBlock, SendCommand
<1>4. CASE ReadBlock
  BY <1>1, <1>4 DEF ReadBlock
<1>5. ASSUME NEW command \in Commands, BeginTransaction(command)
      PROVE  RtcInv'
  BY <1>5, BeginKeepsRtc
<1>6. ASSUME NEW now \in Times, WriteStep(now)
      PROVE  RtcInv'
  BY <1>6, WriteKeepsRtc
<1>7. CASE SampleStep
  BY <1>7, SampleKeepsRtc
<1>8. CASE ResetChips \/ Save \/ Restart
  BY <1>8, FrontendKeepsRtc
<1>9. CASE SaveState
  BY <1>9, SaveKeepsRtc
<1>10. CASE LoadChipState
  BY <1>10, LoadKeepsRtc
<1>11. CASE UNCHANGED cartridgeVars
  BY <1>1, <1>11 DEF cartridgeVars
<1>. QED BY <1>2, <1>3, <1>4, <1>5, <1>6, <1>7, <1>8, <1>9, <1>10, <1>11 DEF CartridgeNext

\* At every step of every command, over every interruption, the clock is where the driver
\* takes it to be: its state, the lines, the bits of the command it has taken and what it
\* is answering; and so it is in the savestate.
THEOREM RtcFollows == CartridgeSpec => []RtcInv
<1>1. CartridgeInit => RtcInv
  BY RtcInvInit
<1>2. RtcInv /\ [CartridgeNext]_cartridgeVars => RtcInv'
  BY RtcInvStep
<1>. QED BY <1>1, <1>2, PTL DEF CartridgeSpec

\* A reset or a savestate in the middle of a transaction leaves no clock waiting for the
\* rest of it: between transactions the clock is ready for a command.
THEOREM RtcIsInStep == CartridgeSpec => []RtcInStep
<1>1. RtcInv => RtcInStep
  <2>1. ASSUME RtcInv, driver = Idle
        PROVE  rtc.state \in {"disabled", "idle"}
    <3>1. ClockOK(rtc, Idle, expected, sampled, torn)
      BY <2>1 DEF RtcInv
    <3>2. Waits(rtc)
      BY <3>1, Resting
    <3>. QED BY <3>2 DEF Waits
  <2>. QED BY <2>1 DEF RtcInStep
<1>. QED BY <1>1, RtcFollows, PTL

\* The bits that the driver reads are those of what the clock had to answer, in order.
THEOREM AnswersAreRight == CartridgeSpec => []RtcAnswers
<1>1. RtcInv => RtcAnswers
  BY DEF RtcInv, ClockOK, BitsRight, WantedBit, RtcAnswers
<1>. QED BY <1>1, RtcFollows, PTL
=============================================================================
