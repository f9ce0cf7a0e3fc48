--------------------------- MODULE DirectSoundProofs ---------------------------
(***************************************************************************)
(* Proofs about DirectSound, for both FIFOs and a burst of any size.  The  *)
(* inductive invariant says how the samples that were not played lie in    *)
(* the ring: they are the last ones before the top, and all of them follow *)
(* the base.  Then a burst that is asked for when the FIFO is half empty   *)
(* fits, although the indices alone do not tell a full FIFO from an empty  *)
(* one; and so does what the CPU stores, unless slots were skipped.        *)
(***************************************************************************)
EXTENDS DirectSound, FiniteSetTheorems, TLAPS

\* How far the slot i lies before the top t.
Back(i, t) == IF i < t THEN t - i ELSE t - i + Size

\* The slots u that hold samples lie between the base b and the top t, up to the top.
Ring(u, b, t) ==
    /\ \A i \in u, j \in Slots : Back(j, t) <= Back(i, t) => j \in u
    /\ \A i \in u : t # b => Back(i, t) <= Distance(t, b)

HeldOf(u, b, t) == IF t = b THEN IF u = {} THEN 0 ELSE Size ELSE Distance(t, b)

\* There is a next sample, and half a FIFO of them.
Supplied(u, b, t) == b \in u /\ Back(b, t) >= Burst

ChannelsOK ==
    \A c \in Channels :
        /\ start[c] = "special" => length[c] = Burst /\ (repeat[c] \/ oneShot[c])
        /\ link[c] # "none" => start[c] = "special" \/ oneShot[c]

FifoOK(f) ==
    /\ flowing[f] => Feeding(f)
    /\ Orderly(f) =>
         /\ ~lost[f]
         /\ Ring(unread[f], base[f], top[f])
         /\ flowing[f] => Supplied(unread[f], base[f], top[f])

IInv == TypeOK /\ ChannelsOK /\ \A f \in Fifos : FifoOK(f)
-----------------------------------------------------------------------------
(***************************************************************************)
(* The ring                                                                *)
(***************************************************************************)
\* The size of a FIFO and its slots are numbers.
LEMMA SizeIsEven == Size \in Nat /\ Burst \in Nat /\ Burst >= 1 /\ Size = Burst + Burst
  BY BurstAssumption DEF Size

\* The top moves within the ring.
LEMMA PlusInRing ==
    ASSUME NEW t \in Slots, NEW n \in 0 .. Size + Size
    PROVE  Plus(t, n) \in Slots
  BY SizeIsEven DEF Plus, Slots

\* Samples queued where there is room overwrite none, and lie behind those before.
LEMMA QueueFits ==
    ASSUME NEW u \in SUBSET Slots, NEW b \in Slots, NEW t \in Slots, NEW n \in 0 .. Size,
           Ring(u, b, t), HeldOf(u, b, t) + n <= Size
    PROVE  /\ NextSlots(t, n) \cap u = {}
           /\ Ring(u \cup NextSlots(t, n), b, Plus(t, n))
  <1> DEFINE v == u \cup NextSlots(t, n)
             s == Plus(t, n)
  <1>1. /\ s \in Slots
        /\ n # 0 \/ s = t
        /\ \A i \in Slots : i \in NextSlots(t, n) <=> Back(i, t) > Size - n
    BY SizeIsEven DEF Plus, Slots, NextSlots, Distance, Back
  <1>2. \A i \in u : Back(i, t) <= HeldOf(u, b, t)
    BY SizeIsEven DEF Ring, HeldOf, Slots, Back, Distance
  <1>3. NextSlots(t, n) \cap u = {}
    <2>1. ASSUME NEW i \in u, i \in NextSlots(t, n)
          PROVE  FALSE
      <3>1. i \in Slots /\ Back(i, t) > Size - n /\ Back(i, t) <= HeldOf(u, b, t)
        BY <1>1, <1>2, <2>1
      <3>2. HeldOf(u, b, t) \in Int /\ Back(i, t) \in Int
        BY <3>1, SizeIsEven DEF Slots, Back, HeldOf, Distance
      <3> QED BY <3>1, <3>2, SizeIsEven
    <2> QED BY <2>1
  <1>4. \A i \in Slots : IF Back(i, t) > Size - n THEN Back(i, s) = Back(i, t) - (Size - n)
                                                   ELSE Back(i, s) = Back(i, t) + n
    BY SizeIsEven DEF Plus, Slots, Back
  <1>5. ASSUME NEW i \in v, NEW j \in Slots, Back(j, s) <= Back(i, s)
        PROVE  j \in v
    <2>1. i \in Slots
      BY DEF NextSlots
    <2>2. CASE i \in NextSlots(t, n)
      BY <1>1, <1>4, <1>5, <2>1, <2>2, SizeIsEven DEF Slots, Back
    <2>3. CASE i \in u
      BY <1>1, <1>4, <1>5, <2>1, <2>3, SizeIsEven DEF Slots, Back, Ring
    <2> QED BY <2>2, <2>3
  <1>6. ASSUME NEW i \in v, s # b
        PROVE  Back(i, s) <= Distance(s, b)
    <2>1. i \in Slots
      BY DEF NextSlots
    <2>2. Distance(s, b) = HeldOf(u, b, t) + n
      BY <1>6, SizeIsEven DEF Plus, Slots, Distance, HeldOf
    <2>3. CASE i \in NextSlots(t, n)
      BY <1>1, <1>4, <2>1, <2>2, <2>3, SizeIsEven DEF Slots, Back, HeldOf, Distance
    <2>4. CASE i \in u
      BY <1>2, <1>4, <2>1, <2>2, <2>4, SizeIsEven DEF Slots, Back, HeldOf, Distance
    <2> QED BY <2>3, <2>4
  <1> QED BY <1>3, <1>5, <1>6 DEF Ring

\* Where no slot was skipped the distance of the indices is the number of samples.
LEMMA IndicesCount ==
    ASSUME NEW u \in SUBSET Slots, NEW b \in Slots, NEW t \in Slots, Ring(u, b, t),
           \A i \in Slots : Distance(i, b) < HeldOf(u, b, t) => i \in u
    PROVE  Cardinality(u) = HeldOf(u, b, t)
  <1> DEFINE h == HeldOf(u, b, t)
  <1>1. h \in 0 .. Size /\ b \in 0 .. Size - 1 /\ Size \in Nat
    BY SizeIsEven DEF HeldOf, Distance, Slots
  <1>2. \A i \in Slots : i \in u <=> Distance(i, b) < h
    BY SizeIsEven DEF Ring, HeldOf, Slots, Back, Distance
  <1> HIDE DEF h
  <1>3. CASE b + h <= Size
    <2>1. /\ b + h - 1 \in Int
          /\ \A i : i \in b .. b + h - 1 <=> i \in Slots /\ Distance(i, b) < h
      BY <1>1, <1>3 DEF Distance, Slots
    <2>2. u = b .. b + h - 1
      BY <1>2, <2>1
    <2>3. Cardinality(b .. b + h - 1) = IF b > b + h - 1 THEN 0 ELSE (b + h - 1) - b + 1
      BY <1>1, <2>1, FS_Interval
    <2>4. Cardinality(b .. b + h - 1) = h
      BY <1>1, <2>3
    <2> QED BY <2>2, <2>4 DEF h
  <1>4. CASE b + h > Size
    <2> DEFINE high == b .. Size - 1
               low == 0 .. b + h - Size - 1
    <2>1. /\ IsFiniteSet(high) /\ Cardinality(high) = Size - b
          /\ IsFiniteSet(low) /\ Cardinality(low) = b + h - Size
      <3>1. b \in Int /\ Size - 1 \in Int /\ 0 \in Int /\ b + h - Size - 1 \in Int
        BY <1>1
      <3>2. /\ IsFiniteSet(high)
            /\ Cardinality(high) = IF b > Size - 1 THEN 0 ELSE (Size - 1) - b + 1
        BY <3>1, FS_Interval
      <3>3. /\ IsFiniteSet(low)
            /\ Cardinality(low)
                   = IF 0 > b + h - Size - 1 THEN 0 ELSE (b + h - Size - 1) - 0 + 1
        BY <3>1, FS_Interval
      <3> QED BY <1>1, <1>4, <3>2, <3>3
    <2>2. u = high \cup low /\ high \cap low = {}
      <3>1. \A i : i \in high \/ i \in low <=> i \in Slots /\ Distance(i, b) < h
        BY <1>1, <1>4 DEF Distance, Slots
      <3>2. high \cap low = {}
        BY <1>1
      <3> QED BY <1>2, <3>1, <3>2
    <2> HIDE DEF high, low
    <2>3. Cardinality(high \cup low)
              = Cardinality(high) + Cardinality(low) - Cardinality({})
      BY <2>1, <2>2, FS_Union
    <2>4. Cardinality({}) = 0
      BY FS_EmptySet
    <2>5. Cardinality(u) = (Size - b) + (b + h - Size) - 0
      BY <2>1, <2>2, <2>3, <2>4
    <2> QED BY <1>1, <2>5 DEF h
  <1> QED BY <1>1, <1>3, <1>4

\* Taking a sample, there or not, keeps the ring, and leaves room for half a FIFO when the
\* indices are at most half a FIFO apart.
LEMMA TakeKeepsRing ==
    ASSUME NEW u \in SUBSET Slots, NEW b \in Slots, NEW t \in Slots, Ring(u, b, t)
    PROVE  /\ Plus(b, 1) \in Slots
           /\ Ring(u \ {b}, Plus(b, 1), t)
           /\ Low(t, Plus(b, 1)) => HeldOf(u \ {b}, Plus(b, 1), t) + Burst <= Size
  <1> DEFINE d == Plus(b, 1)
  <1>1. /\ d \in Slots /\ d # b
        /\ \A i \in Slots : i # b /\ i \in u => t # d /\ Back(i, t) <= Distance(t, d)
    BY SizeIsEven DEF Ring, Plus, Slots, Back, Distance
  <1>2. ASSUME NEW i \in u \ {b}, NEW j \in Slots, Back(j, t) <= Back(i, t)
        PROVE  j \in u \ {b}
    <2>1. j \in u
      BY <1>2 DEF Ring
    <2>2. j # b
      BY <1>1, <1>2, SizeIsEven DEF Plus, Slots, Back, Distance
    <2> QED BY <2>1, <2>2
  <1>3. Ring(u \ {b}, d, t)
    BY <1>1, <1>2 DEF Ring
  <1>4. Low(t, d) => HeldOf(u \ {b}, d, t) + Burst <= Size
    BY <1>1, SizeIsEven DEF Low, HeldOf, Distance, Slots
  <1> QED BY <1>1, <1>3, <1>4

\* After a burst, or as long as none is due, there is a next sample.
LEMMA TakeKeepsSupply ==
    ASSUME NEW u \in SUBSET Slots, NEW b \in Slots, NEW t \in Slots, Ring(u, b, t), b \in u
    PROVE  /\ Low(t, Plus(b, 1)) =>
                Supplied((u \ {b}) \cup NextSlots(t, Burst), Plus(b, 1), Plus(t, Burst))
           /\ ~Low(t, Plus(b, 1)) => Supplied(u \ {b}, Plus(b, 1), t)
  <1> DEFINE d == Plus(b, 1)
  <1>1. d \in Slots /\ d # b
    BY SizeIsEven DEF Plus, Slots
  <1>2. CASE Back(b, t) = 1
    <2>1. d = t /\ Distance(t, d) = 0
      BY <1>2, SizeIsEven DEF Plus, Slots, Back, Distance
    <2>2. d \in NextSlots(t, Burst) /\ Back(d, Plus(t, Burst)) = Burst
      BY <2>1, <1>1, SizeIsEven DEF Plus, Slots, Back, Distance, NextSlots
    <2> QED BY <2>1, <2>2, SizeIsEven DEF Low, Supplied
  <1>3. CASE Back(b, t) # 1
    <2>1. Back(d, t) = Back(b, t) - 1 /\ Distance(t, d) = Back(d, t)
      BY <1>3, SizeIsEven DEF Plus, Slots, Back, Distance
    <2>2. d \in u \ {b}
      BY <1>1, <2>1, SizeIsEven DEF Ring, Slots, Back
    <2>3. Low(t, d) => Back(d, Plus(t, Burst)) >= Burst
      BY <1>1, <2>1, SizeIsEven DEF Low, Plus, Slots, Back, Distance
    <2>4. ~Low(t, d) => Back(d, t) >= Burst
      BY <1>1, <2>1, SizeIsEven DEF Low, Slots, Back
    <2> QED BY <2>2, <2>3, <2>4 DEF Supplied
  <1> QED BY <1>2, <1>3
-----------------------------------------------------------------------------
(***************************************************************************)
(* The steps                                                               *)
(***************************************************************************)
LEMMA InitSound == Init => IInv
  <1> SUFFICES ASSUME Init PROVE IInv
    OBVIOUS
  <1>1. TypeOK
    BY SizeIsEven, FifosAssumption DEF Init, TypeOK, Slots, Channels, Addresses, DisplayTypes
  <1>2. ChannelsOK
    BY DEF Init, ChannelsOK, Channels
  <1>3. \A f \in Fifos : FifoOK(f)
    BY DEF Init, FifoOK, Ring
  <1> QED BY <1>1, <1>2, <1>3 DEF IInv

\* What queueing does to the types.
LEMMA QueueType ==
    ASSUME TypeOK, NEW r \in [Fifos -> SUBSET Slots], NEW n \in [Fifos -> 0 .. Size + Size],
           Queue(r, n)
    PROVE  /\ top' \in [Fifos -> Slots] /\ unread' \in [Fifos -> SUBSET Slots]
           /\ lost' \in [Fifos -> BOOLEAN]
  <1>1. \A f \in Fifos : top[f] \in Slots /\ n[f] \in 0 .. Size + Size
    BY DEF TypeOK
  <1>2. \A f \in Fifos : Plus(top[f], n[f]) \in Slots
    BY <1>1, PlusInRing
  <1>3. \A t, k : NextSlots(t, k) \subseteq Slots
    BY DEF NextSlots
  <1> QED BY <1>2, <1>3 DEF Queue, TypeOK

\* Nothing queued changes nothing.
LEMMA QueueNothing ==
    ASSUME NEW t \in Slots
    PROVE  Plus(t, 0) = t /\ NextSlots(t, 0) = {}
  BY SizeIsEven DEF Plus, NextSlots, Slots, Distance

\* Where nothing is queued the FIFO stays as it was.
LEMMA QueueElsewhere ==
    ASSUME TypeOK, NEW r, NEW n, Queue(r, n), NEW f \in Fifos, n[f] = 0
    PROVE  top[f]' = top[f] /\ unread[f]' = r[f] /\ lost[f]' = lost[f]
  <1>1. top[f] \in Slots /\ lost[f] \in BOOLEAN
    BY DEF TypeOK
  <1>2. Plus(top[f], 0) = top[f] /\ NextSlots(top[f], 0) = {}
    BY <1>1, QueueNothing
  <1> QED BY <1>1, <1>2 DEF Queue

\* What is known of a channel's part of a transfer.
LEMMA AmountType ==
    ASSUME TypeOK, NEW cs, NEW f
    PROVE  /\ Amount(cs, f) \in 0 .. Size + Size
           /\ f \notin Reached(cs) => Amount(cs, f) = 0
  <1>1. length[1] \in 0 .. Size /\ length[2] \in 0 .. Size
    BY DEF TypeOK, Channels
  <1>2. Part(cs, 1, f) \in 0 .. Size /\ Part(cs, 2, f) \in 0 .. Size
    BY <1>1, SizeIsEven DEF Part
  <1>3. f \notin Reached(cs) => Part(cs, 1, f) = 0 /\ Part(cs, 2, f) = 0
    BY DEF Part, Reached
  <1> QED BY <1>2, <1>3, SizeIsEven DEF Amount

\* A FIFO whose ring and whose channels stay as they are.
LEMMA FifoStays ==
    ASSUME NEW f \in Fifos, FifoOK(f),
           base[f]' = base[f], top[f]' = top[f], unread[f]' = unread[f],
           lost[f]' = lost[f], disturbed[f]' = disturbed[f], strayed[f]' = strayed[f],
           flowing[f]' => flowing[f],
           flowing[f]' => Feeding(f)'
    PROVE  FifoOK(f)'
  BY DEF FifoOK, Orderly

\* A FIFO something else has written to.
LEMMA FifoDisturbed ==
    ASSUME NEW f \in Fifos, disturbed[f]' = TRUE \/ ~Orderly(f)', flowing[f]' => Feeding(f)'
    PROVE  FifoOK(f)'
  BY DEF FifoOK, Orderly

\* Starting another channel leaves those that feed a FIFO.
LEMMA FeedingStays ==
    ASSUME NEW f \in Fifos, NEW c \in Channels, start[c] = "inactive", TypeOK,
           \A d \in Channels \ {c} : start'[d] = start[d] /\ link'[d] = link[d] /\ dest'[d] = dest[d],
           Feeding(f)
    PROVE  Feeding(f)'
  BY DEF Feeding, Channels

LEMMA ProgramType ==
    ASSUME NEW p \in Programs
    PROVE  /\ p.type \in DisplayTypes \cup {"immediately", "special"}
           /\ p.address \in Addresses /\ p.again \in BOOLEAN /\ p.length \in 1 .. Size
  BY GameAssumption

\* The registers a program writes have their types.
LEMMA ProgrammedType ==
    ASSUME TypeOK, NEW c \in Channels, NEW p \in Programs, Programmed(c, p)
    PROVE  /\ repeat' \in [Channels -> BOOLEAN] /\ dest' \in [Channels -> Addresses]
           /\ length' \in [Channels -> 0 .. Size]
  <1>1. (IF p.type = "special" THEN Burst ELSE p.length) \in 0 .. Size
    BY ProgramType, SizeIsEven
  <1> QED BY <1>1, ProgramType DEF TypeOK, Programmed

LEMMA StartSoundStep ==
    ASSUME IInv, NEW c \in Channels, NEW p \in Programs, StartSound(c, p)
    PROVE  IInv'
  <1>1. LinkTo(p.address) \in Fifos
    BY ProgramType, FifosAssumption DEF LinkTo, Addresses
  <1>2. TypeOK'
    <2>1. start' \in [Channels -> {"inactive", "special"} \cup DisplayTypes]
          /\ link' \in [Channels -> Fifos \cup {"none"}]
          /\ oneShot' \in [Channels -> BOOLEAN]
      BY <1>1, ProgramType DEF IInv, TypeOK, StartSound
    <2> QED BY <2>1, ProgrammedType DEF IInv, TypeOK, StartSound, ringVars
  <1>3. ChannelsOK'
    BY DEF IInv, TypeOK, ChannelsOK, StartSound, Programmed
  <1>4. ASSUME NEW f \in Fifos PROVE FifoOK(f)'
    <2>1. Feeding(f) => Feeding(f)'
      BY FeedingStays DEF IInv, StartSound, Programmed
    <2> QED BY <2>1, FifoStays DEF IInv, FifoOK, StartSound, ringVars
  <1> QED BY <1>2, <1>3, <1>4 DEF IInv

LEMMA StartDisplayStep ==
    ASSUME IInv, NEW c \in Channels, NEW p \in Programs, StartDisplay(c, p)
    PROVE  IInv'
  <1>1. TypeOK'
    <2>1. start' \in [Channels -> {"inactive", "special"} \cup DisplayTypes]
      BY DEF IInv, TypeOK, StartDisplay
    <2> QED BY <2>1, ProgrammedType DEF IInv, TypeOK, StartDisplay, ringVars, history
  <1>2. ChannelsOK'
    BY DEF IInv, TypeOK, ChannelsOK, StartDisplay, Programmed, history, DisplayTypes
  <1>3. ASSUME NEW f \in Fifos PROVE FifoOK(f)'
    <2>1. Feeding(f) => Feeding(f)'
      BY FeedingStays DEF IInv, StartDisplay, Programmed
    <2> QED BY <2>1, FifoStays DEF IInv, FifoOK, StartDisplay, ringVars, history
  <1> QED BY <1>1, <1>2, <1>3 DEF IInv

LEMMA StartImmediatelyStep ==
    ASSUME IInv, NEW c \in Channels, NEW p \in Programs, StartImmediately(c, p)
    PROVE  IInv'
  <1> DEFINE n == [f \in Fifos |-> IF f = p.address THEN p.length ELSE 0]
  <1>1. n \in [Fifos -> 0 .. Size + Size]
    BY ProgramType, SizeIsEven
  <1>2. Queue(unread, n) /\ unread \in [Fifos -> SUBSET Slots]
    BY DEF StartImmediately, IInv, TypeOK
  <1>3. TypeOK'
    <2>1. disturbed' \in [Fifos -> BOOLEAN]
      BY DEF IInv, TypeOK, StartImmediately
    <2> QED BY <1>1, <1>2, <2>1, QueueType, ProgrammedType DEF IInv, TypeOK, StartImmediately
  <1>4. ChannelsOK'
    BY DEF IInv, TypeOK, ChannelsOK, StartImmediately, Programmed
  <1>5. ASSUME NEW f \in Fifos PROVE FifoOK(f)'
    <2>1. Feeding(f) => Feeding(f)'
      BY FeedingStays DEF IInv, StartImmediately, Programmed
    <2>2. CASE f = p.address
      BY <2>1, <2>2, FifoDisturbed DEF IInv, FifoOK, StartImmediately
    <2>3. CASE f # p.address
      <3>1. n[f] = 0
        BY <2>3
      <3>2. top[f]' = top[f] /\ unread[f]' = unread[f] /\ lost[f]' = lost[f]
        BY <1>2, <3>1, QueueElsewhere DEF IInv
      <3>3. /\ disturbed[f]' = disturbed[f] /\ strayed[f]' = strayed[f]
            /\ base[f]' = base[f] /\ flowing[f]' = flowing[f]
        BY <2>3 DEF StartImmediately, IInv, TypeOK
      <3> QED BY <2>1, <3>2, <3>3, FifoStays DEF IInv, FifoOK
    <2> QED BY <2>2, <2>3
  <1> QED BY <1>3, <1>4, <1>5 DEF IInv

LEMMA DisableStep ==
    ASSUME IInv, NEW c \in Channels, Disable(c)
    PROVE  IInv'
  <1>1. TypeOK'
    BY DEF IInv, TypeOK, Disable, NoLink, ringVars
  <1>2. ChannelsOK'
    BY DEF IInv, TypeOK, ChannelsOK, Disable, NoLink
  <1>3. ASSUME NEW f \in Fifos PROVE FifoOK(f)'
    <2>1. flowing[f]' = (flowing[f] /\ Feeding(f)')
      BY DEF Disable
    <2>2. FifoOK(f) /\ flowing[f] \in BOOLEAN
      BY DEF IInv, TypeOK
    <2> QED BY <2>1, <2>2, FifoStays DEF Disable, ringVars
  <1> QED BY <1>1, <1>2, <1>3 DEF IInv

\* A transfer leaves the channels of other start types alone.
LEMMA FinishedType ==
    ASSUME TypeOK, ChannelsOK, NEW cs \in SUBSET Channels, Finished(cs),
           UNCHANGED <<link, repeat, dest, length, oneShot>>
    PROVE  /\ start' \in [Channels -> {"inactive", "special"} \cup DisplayTypes]
           /\ ChannelsOK'
  <1>1. \A c \in Channels :
            \/ start'[c] = start[c]
            \/ start'[c] = "inactive" /\ c \in cs /\ ~repeat[c]
    BY DEF Finished
  <1>2. start' \in [Channels -> {"inactive", "special"} \cup DisplayTypes]
    BY <1>1 DEF TypeOK, Finished
  <1>3. ASSUME NEW c \in Channels
        PROVE  /\ start[c]' = "special" => length[c]' = Burst /\ (repeat[c]' \/ oneShot[c]')
               /\ link[c]' # "none" => start[c]' = "special" \/ oneShot[c]'
    BY <1>1, <1>3 DEF ChannelsOK
  <1> QED BY <1>2, <1>3 DEF ChannelsOK

LEMMA DisplayStartsStep ==
    ASSUME IInv, NEW type \in DisplayTypes, DisplayStarts(type)
    PROVE  IInv'
  <1> DEFINE cs == {c \in Channels : start[c] = type}
             n == [f \in Fifos |-> Amount(cs, f)]
  <1>1. /\ Finished(cs) /\ Queue(unread, n) /\ unread \in [Fifos -> SUBSET Slots]
        /\ disturbed' = [f \in Fifos |-> disturbed[f] \/ f \in Reached(cs)]
        /\ UNCHANGED <<base, link, repeat, dest, length, oneShot, strayed, flowing>>
    BY DEF DisplayStarts, IInv, TypeOK
  <1>2. n \in [Fifos -> 0 .. Size + Size]
    BY AmountType DEF IInv
  <1>3. start' \in [Channels -> {"inactive", "special"} \cup DisplayTypes] /\ ChannelsOK'
    <2>1. cs \in SUBSET Channels
      OBVIOUS
    <2> HIDE DEF cs
    <2> QED BY <1>1, <2>1, FinishedType DEF IInv
  <1>4. TypeOK'
    BY <1>1, <1>2, <1>3, QueueType DEF IInv, TypeOK
  <1>5. ASSUME NEW f \in Fifos PROVE FifoOK(f)'
    <2>1. Feeding(f) => Feeding(f)'
      BY <1>1 DEF Feeding, Finished, DisplayTypes
    <2>2. CASE f \in Reached(cs)
      BY <1>1, <2>1, <2>2, FifoDisturbed DEF IInv, FifoOK
    <2>3. CASE f \notin Reached(cs)
      <3>1. n[f] = 0
        BY <2>3, AmountType DEF IInv
      <3>2. top[f]' = top[f] /\ unread[f]' = unread[f] /\ lost[f]' = lost[f]
        BY <1>1, <3>1, QueueElsewhere DEF IInv
      <3>3. /\ disturbed[f]' = disturbed[f] /\ strayed[f]' = strayed[f]
            /\ base[f]' = base[f] /\ flowing[f]' = flowing[f]
        BY <1>1, <2>3 DEF IInv, TypeOK
      <3> QED BY <2>1, <3>2, <3>3, FifoStays DEF IInv, FifoOK
    <2> QED BY <2>2, <2>3
  <1> QED BY <1>3, <1>4, <1>5 DEF IInv

\* Samples queued where there is room keep a supply.
LEMMA QueueKeepsSupply ==
    ASSUME NEW u \in SUBSET Slots, NEW b \in Slots, NEW t \in Slots, NEW n \in 0 .. Size,
           Ring(u, b, t), HeldOf(u, b, t) + n <= Size, Supplied(u, b, t)
    PROVE  Supplied(u \cup NextSlots(t, n), b, Plus(t, n))
  <1>1. Back(b, t) = HeldOf(u, b, t)
    BY SizeIsEven DEF Supplied, Slots, Back, HeldOf, Distance
  <1>2. Back(b, Plus(t, n)) = Back(b, t) + n
    BY <1>1, SizeIsEven DEF Slots, Back, Plus
  <1> QED BY <1>2, SizeIsEven DEF Supplied, Slots, Back

LEMMA CpuWriteStep ==
    ASSUME IInv, NEW f \in Fifos, NEW k \in CpuWrites, CpuWrite(f, k)
    PROVE  IInv'
  <1> DEFINE n == [g \in Fifos |-> IF g = f THEN k ELSE 0]
  <1>0. k \in 0 .. Size
    BY GameAssumption, SizeIsEven
  <1>1. /\ Queue(unread, n) /\ unread \in [Fifos -> SUBSET Slots]
        /\ disturbed' = [disturbed EXCEPT ![f] = @ \/ Cardinality(unread[f]) + k > Size]
        /\ strayed' = [strayed EXCEPT ![f] = @ \/ (Adrift(f) /\ Held(f) + k > Size)]
        /\ UNCHANGED <<base, start, link, repeat, dest, length, oneShot, flowing>>
    BY DEF CpuWrite, IInv, TypeOK, dmaVars
  <1>2. n \in [Fifos -> 0 .. Size + Size]
    BY <1>0, SizeIsEven
  <1>3. TypeOK'
    <2>1. disturbed' \in [Fifos -> BOOLEAN] /\ strayed' \in [Fifos -> BOOLEAN]
      BY <1>1 DEF IInv, TypeOK, Adrift
    <2> QED BY <1>1, <1>2, <2>1, QueueType DEF IInv, TypeOK
  <1>4. ChannelsOK'
    BY <1>1 DEF IInv, ChannelsOK
  <1>5. ASSUME NEW g \in Fifos PROVE FifoOK(g)'
    <2>1. Feeding(g) => Feeding(g)'
      BY <1>1 DEF Feeding
    <2>2. CASE g # f
      <3>1. n[g] = 0
        BY <2>2
      <3>2. top[g]' = top[g] /\ unread[g]' = unread[g] /\ lost[g]' = lost[g]
        BY <1>1, <3>1, QueueElsewhere DEF IInv
      <3>3. disturbed[g]' = disturbed[g] /\ strayed[g]' = strayed[g]
        BY <1>1, <2>2 DEF IInv, TypeOK
      <3> QED BY <1>1, <2>1, <3>2, <3>3, FifoStays DEF IInv, FifoOK
    <2>3. CASE g = f /\ ~Orderly(f)'
      BY <1>1, <2>1, <2>3, FifoDisturbed DEF IInv, FifoOK
    <2>4. CASE g = f /\ Orderly(f)'
      <3> DEFINE u == unread[f]  b == base[f]  t == top[f]
      <3>1. u \in SUBSET Slots /\ b \in Slots /\ t \in Slots /\ lost[f] \in BOOLEAN
        BY DEF IInv, TypeOK
      <3>2. /\ Orderly(f) /\ ~(Cardinality(u) + k > Size)
            /\ ~(Adrift(f) /\ Held(f) + k > Size)
        BY <1>1, <2>4 DEF Orderly, IInv, TypeOK
      <3>3. /\ top[f]' = Plus(t, k) /\ unread[f]' = u \cup NextSlots(t, k)
            /\ lost[f]' = (lost[f] \/ NextSlots(t, k) \cap u # {})
        BY <1>1 DEF Queue
      <3>4. FifoOK(f) /\ Ring(u, b, t)
        BY <3>2 DEF IInv, FifoOK
      <3>5. base[f]' = b /\ flowing[f]' = flowing[f] /\ Held(f) = HeldOf(u, b, t)
        BY <1>1 DEF Held, HeldOf
      <3>6. HeldOf(u, b, t) + k <= Size
        <4>1. HeldOf(u, b, t) + k \in Int
          BY <1>0, <3>1, SizeIsEven DEF HeldOf, Distance, Slots
        <4>2. CASE Adrift(f)
          BY <3>2, <3>5, <4>1, <4>2, SizeIsEven
        <4>3. CASE ~Adrift(f)
          <5>1. \A i \in Slots : Distance(i, b) < HeldOf(u, b, t) => i \in u
            BY <3>5, <4>3 DEF Adrift
          <5>2. Cardinality(u) = HeldOf(u, b, t)
            BY <3>1, <3>4, <5>1, IndicesCount
          <5> QED BY <3>2, <4>1, <5>2, SizeIsEven
        <4> QED BY <4>2, <4>3
      <3>7. /\ NextSlots(t, k) \cap u = {}
            /\ Ring(u \cup NextSlots(t, k), b, Plus(t, k))
        BY <1>0, <3>1, <3>4, <3>6, QueueFits
      <3>8. ASSUME flowing[f]
            PROVE  Supplied(u \cup NextSlots(t, k), b, Plus(t, k))
        BY <1>0, <3>1, <3>2, <3>4, <3>6, <3>8, QueueKeepsSupply DEF FifoOK
      <3> QED BY <2>1, <2>4, <3>2, <3>3, <3>4, <3>5, <3>7, <3>8 DEF FifoOK
    <2> QED BY <2>2, <2>3, <2>4
  <1> QED BY <1>3, <1>4, <1>5 DEF IInv

LEMMA ResetFifoStep ==
    ASSUME IInv, ResetFifo
    PROVE  IInv'
  <1>1. "A" \in Fifos
    BY FifosAssumption
  <1>2. TypeOK'
    BY <1>1 DEF IInv, TypeOK, ResetFifo, ringVars, dmaVars
  <1>3. ChannelsOK'
    BY DEF IInv, ChannelsOK, ResetFifo, dmaVars
  <1>4. ASSUME NEW f \in Fifos PROVE FifoOK(f)'
    <2>1. Feeding(f)' <=> Feeding(f)
      BY DEF Feeding, ResetFifo, dmaVars
    <2>2. FifoOK(f)
      BY DEF IInv
    <2>3. CASE f = "A" /\ unread["A"] # {}
      BY <2>1, <2>2, <2>3, FifoDisturbed DEF ResetFifo, IInv, TypeOK, FifoOK
    <2>4. CASE ~(f = "A" /\ unread["A"] # {})
      <3>1. lost[f]' = lost[f] /\ disturbed[f]' = disturbed[f]
        BY <2>4 DEF ResetFifo, IInv, TypeOK
      <3> QED BY <2>1, <2>2, <3>1, FifoStays DEF ResetFifo, ringVars, FifoOK
    <2> QED BY <2>3, <2>4
  <1> QED BY <1>2, <1>3, <1>4 DEF IInv

LEMMA ResetStep ==
    ASSUME IInv, Reset
    PROVE  IInv'
  <1>1. 0 \in Slots
    BY SizeIsEven DEF Slots
  <1>2. TypeOK'
    BY <1>1 DEF IInv, TypeOK, Reset
  <1>3. ChannelsOK'
    BY DEF ChannelsOK, Reset
  <1>4. ASSUME NEW f \in Fifos PROVE FifoOK(f)'
    BY DEF FifoOK, Reset, Ring
  <1> QED BY <1>2, <1>3, <1>4 DEF IInv
-----------------------------------------------------------------------------
(***************************************************************************)
(* The FIFO's timer                                                        *)
(***************************************************************************)
\* A burst after a sample was taken from the FIFO u, or none.
LEMMA TakeThenBurst ==
    ASSUME NEW u \in SUBSET Slots, NEW b \in Slots, NEW t \in Slots, Ring(u, b, t),
           Low(t, Plus(b, 1))
    PROVE  /\ NextSlots(t, Burst) \cap (u \ {b}) = {}
           /\ Ring((u \ {b}) \cup NextSlots(t, Burst), Plus(b, 1), Plus(t, Burst))
  <1> DEFINE v == u \ {b}  d == Plus(b, 1)
  <1>1. v \in SUBSET Slots /\ d \in Slots /\ Ring(v, d, t) /\ HeldOf(v, d, t) + Burst <= Size
    BY TakeKeepsRing
  <1>2. Burst \in 0 .. Size
    BY SizeIsEven
  <1> HIDE DEF v, d
  <1>3. NextSlots(t, Burst) \cap v = {} /\ Ring(v \cup NextSlots(t, Burst), d, Plus(t, Burst))
    BY <1>1, <1>2, QueueFits
  <1> QED BY <1>3 DEF v, d

\* One sound DMA for the FIFO writes a burst to it.
LEMMA AloneAmount ==
    ASSUME TypeOK, ChannelsOK, NEW cs \in SUBSET Channels, NEW f \in Fifos,
           Alone(cs, f, f), f \in Reached(cs)
    PROVE  Amount(cs, f) = Burst
  <1>1. PICK c \in cs : cs = {c} /\ start[c] = "special"
    BY DEF Alone
  <1>2. c \in Channels /\ dest[c] = f /\ length[c] = Burst
    BY <1>1 DEF Reached, ChannelsOK
  <1> QED BY <1>1, <1>2, SizeIsEven DEF Amount, Part, Channels

LEMMA SoundTimerStep ==
    ASSUME IInv, NEW f \in Fifos, SoundTimer(f)
    PROVE  IInv'
  <1> DEFINE b == Plus(base[f], 1)
             cs == IF Low(top[f], b) THEN Asked(f) ELSE {}
             rest == [unread EXCEPT ![f] = @ \ {base[f]}]
             n == [g \in Fifos |-> Amount(cs, g)]
  <1>1. /\ base' = [base EXCEPT ![f] = b]
        /\ Finished(cs) /\ Queue(rest, n)
        /\ disturbed' = [g \in Fifos |->
                           disturbed[g] \/ (g \in Reached(cs) /\ ~Alone(cs, f, g))]
        /\ UNCHANGED <<link, repeat, dest, length, oneShot, strayed>>
        /\ flowing' = [flowing EXCEPT ![f] = Feeding(f)' /\ (@ \/ base[f] \in unread[f])]
    BY DEF SoundTimer
  <1>2. /\ cs \in SUBSET Channels /\ \A c \in cs : link[c] = f /\ Low(top[f], b)
        /\ Low(top[f], b) => cs = Asked(f)
    BY DEF Asked
  <1>3. /\ base[f] \in Slots /\ top[f] \in Slots /\ unread[f] \in SUBSET Slots
        /\ rest \in [Fifos -> SUBSET Slots] /\ rest[f] = unread[f] \ {base[f]}
        /\ \A g \in Fifos : g # f => rest[g] = unread[g]
    BY DEF IInv, TypeOK
  <1>4. b \in Slots
    BY <1>3, SizeIsEven DEF Plus, Slots
  <1>5. TypeOK /\ ChannelsOK /\ \A g \in Fifos : FifoOK(g)
    BY DEF IInv
  <1>6. n \in [Fifos -> 0 .. Size + Size] /\ \A g \in Fifos : n[g] = Amount(cs, g)
    BY <1>5, AmountType
  <1> HIDE DEF b, cs, rest, n
  <1>7. start' \in [Channels -> {"inactive", "special"} \cup DisplayTypes] /\ ChannelsOK'
    BY <1>1, <1>2, <1>5, FinishedType
  <1>8. TypeOK'
    <2>1. /\ top' \in [Fifos -> Slots] /\ unread' \in [Fifos -> SUBSET Slots]
          /\ lost' \in [Fifos -> BOOLEAN]
      BY <1>1, <1>3, <1>5, <1>6, QueueType
    <2>2. disturbed' \in [Fifos -> BOOLEAN]
      BY <1>1, <1>5 DEF TypeOK
    <2>3. flowing' \in [Fifos -> BOOLEAN] /\ base' \in [Fifos -> Slots]
      BY <1>1, <1>4, <1>5 DEF TypeOK, Feeding
    <2> QED BY <1>1, <1>5, <1>7, <2>1, <2>2, <2>3 DEF TypeOK
  <1>9. ASSUME NEW g \in Fifos, g # f PROVE FifoOK(g)'
    <2>1. Feeding(g) => Feeding(g)'
      BY <1>1, <1>2, <1>9 DEF Feeding, Finished
    <2>2. flowing[g]' = flowing[g] /\ base[g]' = base[g]
      BY <1>1, <1>5, <1>9 DEF TypeOK
    <2>3. CASE g \in Reached(cs)
      <3>1. disturbed[g]' = TRUE
        BY <1>1, <1>9, <2>3 DEF Alone
      <3> QED BY <1>5, <2>1, <2>2, <3>1, FifoDisturbed DEF FifoOK
    <2>4. CASE g \notin Reached(cs)
      <3>1. n[g] = 0
        BY <1>5, <1>6, <2>4, AmountType
      <3>2. top[g]' = top[g] /\ unread[g]' = unread[g] /\ lost[g]' = lost[g]
        BY <1>1, <1>3, <1>5, <1>9, <3>1, QueueElsewhere
      <3>3. disturbed[g]' = disturbed[g] /\ strayed[g]' = strayed[g]
        BY <1>1, <1>5, <2>4 DEF TypeOK
      <3> QED BY <1>5, <2>1, <2>2, <3>2, <3>3, FifoStays DEF FifoOK
    <2> QED BY <2>3, <2>4
  <1>10. FifoOK(f)'
    <2>1. base[f]' = b /\ flowing[f]' = (Feeding(f)' /\ (flowing[f] \/ base[f] \in unread[f]))
      BY <1>1, <1>5 DEF TypeOK
    <2>2. /\ lost[f] \in BOOLEAN /\ disturbed[f] \in BOOLEAN /\ FifoOK(f)
          /\ strayed[f]' = strayed[f]
      BY <1>1, <1>5 DEF TypeOK
    <2>3. Orderly(f) /\ flowing[f]' => base[f] \in unread[f]
      BY <2>1, <2>2 DEF FifoOK, Supplied
    <2>4. CASE f \in Reached(cs) /\ ~Alone(cs, f, f)
      <3>1. disturbed[f]' = TRUE
        BY <1>1, <2>4
      <3> QED BY <2>1, <3>1, FifoDisturbed
    <2>5. CASE f \in Reached(cs) /\ Alone(cs, f, f)
      <3>1. n[f] = Burst /\ Low(top[f], b) /\ disturbed[f]' = disturbed[f]
        BY <1>1, <1>2, <1>5, <1>6, <2>2, <2>5, AloneAmount DEF Reached
      <3>2. /\ top[f]' = Plus(top[f], Burst)
            /\ unread[f]' = rest[f] \cup NextSlots(top[f], Burst)
            /\ lost[f]' = (lost[f] \/ NextSlots(top[f], Burst) \cap rest[f] # {})
        BY <1>1, <3>1 DEF Queue
      <3>3. ASSUME Orderly(f)
            PROVE  ~lost[f]' /\ Ring(unread[f]', base[f]', top[f]')
        <4> DEFINE u == unread[f] \ {base[f]}
        <4>1. Ring(unread[f], base[f], top[f]) /\ ~lost[f] /\ Low(top[f], Plus(base[f], 1))
          BY <2>2, <3>1, <3>3 DEF b, FifoOK
        <4>2. /\ NextSlots(top[f], Burst) \cap u = {}
              /\ Ring(u \cup NextSlots(top[f], Burst), Plus(base[f], 1), Plus(top[f], Burst))
          BY <1>3, <4>1, TakeThenBurst
        <4> QED BY <1>3, <2>1, <2>2, <3>2, <4>1, <4>2 DEF b
      <3>4. ASSUME Orderly(f), flowing[f]'
            PROVE  Supplied(unread[f]', base[f]', top[f]')
        <4> DEFINE u == unread[f] \ {base[f]}
        <4>1. /\ Ring(unread[f], base[f], top[f]) /\ base[f] \in unread[f]
              /\ Low(top[f], Plus(base[f], 1))
          BY <2>2, <2>3, <3>1, <3>4 DEF b, FifoOK
        <4>2. Supplied(u \cup NextSlots(top[f], Burst), Plus(base[f], 1), Plus(top[f], Burst))
          BY <1>3, <4>1, TakeKeepsSupply
        <4> QED BY <1>3, <2>1, <3>2, <4>2 DEF b
      <3> QED BY <2>1, <2>2, <3>1, <3>3, <3>4 DEF FifoOK, Orderly
    <2>6. CASE f \notin Reached(cs)
      <3>1. n[f] = 0 /\ disturbed[f]' = disturbed[f]
        BY <1>1, <1>5, <1>6, <2>2, <2>6, AmountType
      <3>2. top[f]' = top[f] /\ unread[f]' = rest[f] /\ lost[f]' = lost[f]
        BY <1>1, <1>5, <3>1, QueueElsewhere
      <3>3. ASSUME Orderly(f)
            PROVE  ~lost[f]' /\ Ring(unread[f]', base[f]', top[f]')
        BY <1>3, <2>1, <2>2, <3>2, <3>3, TakeKeepsRing DEF b, FifoOK
      <3>4. Feeding(f)' => ~Low(top[f], b)
        <4>1. ASSUME NEW c \in Channels, start[c]' = "special", link[c]' = f, dest[c]' = f
              PROVE  start[c] = "special" /\ link[c] = f /\ dest[c] = f
          BY <1>1, <4>1 DEF Finished
        <4>2. ASSUME NEW c \in Channels, link[c] = f, dest[c] = f PROVE c \notin cs
          BY <2>6, <4>2 DEF Reached
        <4> QED BY <1>2, <4>1, <4>2 DEF Feeding, Asked
      <3>5. ASSUME Orderly(f), flowing[f]'
            PROVE  Supplied(unread[f]', base[f]', top[f]')
        <4>1. /\ Ring(unread[f], base[f], top[f]) /\ base[f] \in unread[f]
              /\ ~Low(top[f], Plus(base[f], 1))
          BY <2>1, <2>2, <2>3, <3>4, <3>5 DEF b, FifoOK
        <4>2. Supplied(unread[f] \ {base[f]}, Plus(base[f], 1), top[f])
          BY <1>3, <4>1, TakeKeepsSupply
        <4> QED BY <1>3, <2>1, <3>2, <4>2 DEF b
      <3> QED BY <2>1, <2>2, <3>1, <3>3, <3>5 DEF FifoOK, Orderly
    <2> QED BY <2>4, <2>5, <2>6
  <1> QED BY <1>7, <1>8, <1>9, <1>10 DEF IInv

LEMMA SoundStep == IInv /\ [Next]_vars => IInv'
  <1> SUFFICES ASSUME IInv, [Next]_vars PROVE IInv'
    OBVIOUS
  <1>1. CASE UNCHANGED vars
    <2> USE <1>1 DEF vars, ringVars, dmaVars, history
    <2>1. TypeOK' /\ ChannelsOK'
      BY DEF IInv, TypeOK, ChannelsOK
    <2>2. ASSUME NEW f \in Fifos PROVE FifoOK(f)'
      BY DEF IInv, FifoOK, Orderly, Feeding
    <2> QED BY <2>1, <2>2 DEF IInv
  <1>2. ASSUME NEW c \in Channels, TriggerDma(c) PROVE IInv'
    BY <1>2, StartSoundStep, StartDisplayStep, StartImmediatelyStep, DisableStep DEF TriggerDma
  <1>3. ASSUME NEW type \in DisplayTypes, DisplayStarts(type) PROVE IInv'
    BY <1>3, DisplayStartsStep
  <1>4. ASSUME NEW f \in Fifos, SoundTimer(f) PROVE IInv'
    BY <1>4, SoundTimerStep
  <1>5. ASSUME NEW f \in Fifos, NEW n \in CpuWrites, CpuWrite(f, n) PROVE IInv'
    BY <1>5, CpuWriteStep
  <1>6. CASE ResetFifo
    BY <1>6, ResetFifoStep
  <1>7. CASE Reset
    BY <1>7, ResetStep
  <1> QED BY <1>1, <1>2, <1>3, <1>4, <1>5, <1>6, <1>7 DEF Next

LEMMA SoundInvariant == Spec => []IInv
  BY InitSound, SoundStep, PTL DEF Spec
-----------------------------------------------------------------------------
\* The types of the FIFOs and of the channels that feed them.
THEOREM SoundTypes == Spec => []TypeOK
  <1>1. IInv => TypeOK
    BY DEF IInv
  <1> QED BY <1>1, SoundInvariant, PTL

\* No sample of an orderly FIFO is overwritten, by sound_timer's next burst or by the CPU,
\* although the indices of a full FIFO are those of an empty one and those of a dry FIFO
\* look like those of a nearly full one.
THEOREM NoSampleLost == Spec => []SamplesKept
  <1>1. IInv => SamplesKept
    BY DEF IInv, FifoOK, SamplesKept
  <1> QED BY <1>1, SoundInvariant, PTL

\* An orderly FIFO that a sound DMA feeds, once it plays, never runs dry.
THEOREM NoGap == Spec => []Gapless
  <1>1. IInv => Gapless
    BY DEF IInv, FifoOK, Supplied, Gapless
  <1> QED BY <1>1, SoundInvariant, PTL

\* The channel sound_timer starts is a sound DMA, or was one without repeat.
THEOREM LinksAreActive == Spec => []LinkedIsActive
  <1>1. IInv => LinkedIsActive
    BY DEF IInv, ChannelsOK, LinkedIsActive
  <1> QED BY <1>1, SoundInvariant, PTL
-----------------------------------------------------------------------------
(***************************************************************************)
(* A FIFO that has run dry is filled.                                      *)
(***************************************************************************)
\* Samples that a dry FIFO plays until its indices meet
Wait(f) == IF top[f] = base[f] THEN Size ELSE Distance(top[f], base[f])

\* A dry FIFO that a sound DMA feeds is filled, or comes nearer to the point at which
\* sound_timer asks for samples with every tick of its timer, and nothing else puts it
\* off: as its indices are equal it looks full at first, but it does not go round for ever.
SoundAdvances ==
    [][\A f \in Fifos : Feeding(f) /\ unread[f] = {} =>
          \/ unread'[f] # {}
          \/ ~Feeding(f)'
          \/ SoundTimer(f) /\ Wait(f) \in Nat /\ Wait(f)' < Wait(f)
          \/ ~SoundTimer(f) /\ Wait(f)' = Wait(f)]_vars

\* A FIFO to which something is queued holds samples.
LEMMA QueueFills ==
    ASSUME TypeOK, NEW r, NEW n \in [Fifos -> 0 .. Size + Size], Queue(r, n), NEW f \in Fifos
    PROVE  unread'[f] # {} \/ (n[f] = 0 /\ top'[f] = top[f])
<1>1. top[f] \in Slots /\ n[f] \in 0 .. Size + Size
  BY DEF TypeOK
<1>2. n[f] # 0 => top[f] \in NextSlots(top[f], n[f])
  BY <1>1, SizeIsEven DEF NextSlots, Distance, Slots
<1>3. n[f] = 0 => top'[f] = top[f]
  BY <1>1, QueueNothing DEF Queue
<1>. QED BY <1>2, <1>3 DEF Queue

LEMMA SameWait ==
    ASSUME NEW f, top'[f] = top[f], base'[f] = base[f]
    PROVE  Wait(f)' = Wait(f)
BY DEF Wait, Distance

\* The timer of the FIFO itself
LEMMA TimerAdvances ==
    ASSUME IInv, NEW f \in Fifos, SoundTimer(f), Feeding(f), unread[f] = {}
    PROVE  unread'[f] # {} \/ (Wait(f) \in Nat /\ Wait(f)' < Wait(f))
<1>. DEFINE b == Plus(base[f], 1)
            cs == IF Low(top[f], b) THEN Asked(f) ELSE {}
            rest == [unread EXCEPT ![f] = @ \ {base[f]}]
            n == [g \in Fifos |-> Amount(cs, g)]
<1>1. TypeOK /\ ChannelsOK /\ base[f] \in Slots /\ top[f] \in Slots
  BY DEF IInv, TypeOK
<1>2. base'[f] = b /\ Queue(rest, n)
  BY <1>1 DEF SoundTimer, TypeOK
<1>3. n \in [Fifos -> 0 .. Size + Size] /\ n[f] = Amount(cs, f)
  BY <1>1, AmountType
<1>4. CASE Low(top[f], b)
  <2>1. PICK c \in Channels : start[c] = "special" /\ link[c] = f /\ dest[c] = f
    BY DEF Feeding
  <2>2. c \in cs /\ length[c] = Burst
    BY <1>1, <1>4, <2>1 DEF Asked, ChannelsOK
  <2>3. length[1] \in 0 .. Size /\ length[2] \in 0 .. Size
    BY <1>1 DEF TypeOK, Channels
  <2>. HIDE DEF cs
  <2>. HIDE DEF n, rest, b
  <2>4. Part(cs, 1, f) \in Nat /\ Part(cs, 2, f) \in Nat
    BY <2>3 DEF Part
  <2>5. Part(cs, c, f) = Burst
    BY <2>1, <2>2 DEF Part
  <2>6. Amount(cs, f) # 0
    <3>1. CASE c = 1
      BY <2>4, <2>5, <3>1, SizeIsEven DEF Amount
    <3>2. CASE c = 2
      BY <2>4, <2>5, <3>2, SizeIsEven DEF Amount
    <3>. QED BY <3>1, <3>2 DEF Channels
  <2>. QED BY <1>1, <1>2, <1>3, <2>6, QueueFills
<1>5. CASE ~Low(top[f], b)
  <2>1. cs = {}
    BY <1>5
  <2>2. n[f] = 0
    BY <1>1, <1>3, <2>1, AmountType DEF Reached
  <2>3. top'[f] = top[f]
    <3>. HIDE DEF n, rest
    <3>. QED BY <1>1, <1>2, <1>3, <2>2, QueueElsewhere
  <2>4. Wait(f)' = IF top[f] = b THEN Size ELSE Distance(top[f], b)
    BY <1>2, <2>3 DEF Wait, Distance, Size
  <2>5. Wait(f) \in Nat /\ (IF top[f] = b THEN Size ELSE Distance(top[f], b)) < Wait(f)
    BY <1>1, <1>5, SizeIsEven DEF Wait, Distance, Low, Plus, Slots
  <2>. QED BY <2>4, <2>5
<1>. QED BY <1>4, <1>5

\* The timer of the other FIFO: its channels may write to this one.
LEMMA OtherTimerWaits ==
    ASSUME IInv, NEW f \in Fifos, NEW g \in Fifos, f # g, SoundTimer(g)
    PROVE  unread'[f] # {} \/ Wait(f)' = Wait(f)
<1>. DEFINE cs == IF Low(top[g], Plus(base[g], 1)) THEN Asked(g) ELSE {}
            rest == [unread EXCEPT ![g] = @ \ {base[g]}]
            n == [h \in Fifos |-> Amount(cs, h)]
<1>1. TypeOK
  BY DEF IInv
<1>2. base'[f] = base[f] /\ Queue(rest, n)
  BY <1>1 DEF SoundTimer, TypeOK
<1>3. n \in [Fifos -> 0 .. Size + Size]
  BY <1>1, AmountType
<1>. HIDE DEF rest, n
<1>. QED BY <1>1, <1>2, <1>3, QueueFills, SameWait

\* What the CPU and the other transfers do
LEMMA OthersWait ==
    ASSUME IInv, NEW f \in Fifos, Next, \A g \in Fifos : ~SoundTimer(g), Feeding(f)'
    PROVE  unread'[f] # {} \/ Wait(f)' = Wait(f)
<1>1. TypeOK
  BY DEF IInv
<1>2. ASSUME UNCHANGED ringVars
      PROVE  Wait(f)' = Wait(f)
  BY <1>2, SameWait DEF ringVars
<1>3. ASSUME NEW n \in [Fifos -> 0 .. Size + Size], Queue(unread, n), base' = base
      PROVE  unread'[f] # {} \/ Wait(f)' = Wait(f)
  BY <1>1, <1>3, QueueFills, SameWait
<1>4. ASSUME NEW c \in Channels, TriggerDma(c)
      PROVE  unread'[f] # {} \/ Wait(f)' = Wait(f)
  <2>1. ASSUME NEW p \in Programs, StartSound(c, p) \/ StartDisplay(c, p)
        PROVE  Wait(f)' = Wait(f)
    BY <1>2, <2>1 DEF StartSound, StartDisplay
  <2>2. ASSUME NEW p \in Programs, StartImmediately(c, p)
        PROVE  unread'[f] # {} \/ Wait(f)' = Wait(f)
    <3>. DEFINE n == [g \in Fifos |-> IF g = p.address THEN p.length ELSE 0]
    <3>1. p.length \in 0 .. Size + Size
      BY GameAssumption, SizeIsEven
    <3>2. n \in [Fifos -> 0 .. Size + Size] /\ Queue(unread, n) /\ base' = base
      BY <2>2, <3>1, SizeIsEven DEF StartImmediately
    <3>. HIDE DEF n
    <3>. QED BY <1>3, <3>2
  <2>3. CASE Disable(c)
    BY <1>2, <2>3 DEF Disable
  <2>. QED BY <1>4, <2>1, <2>2, <2>3 DEF TriggerDma
<1>5. ASSUME NEW type \in DisplayTypes, DisplayStarts(type)
      PROVE  unread'[f] # {} \/ Wait(f)' = Wait(f)
  <2>. DEFINE cs == {c \in Channels : start[c] = type}
              n == [g \in Fifos |-> Amount(cs, g)]
  <2>1. n \in [Fifos -> 0 .. Size + Size]
    BY <1>1, AmountType
  <2>2. Queue(unread, n) /\ base' = base
    BY <1>5 DEF DisplayStarts
  <2>. HIDE DEF n
  <2>. QED BY <1>3, <2>1, <2>2
<1>6. ASSUME NEW g \in Fifos, NEW k \in CpuWrites, CpuWrite(g, k)
      PROVE  unread'[f] # {} \/ Wait(f)' = Wait(f)
  <2>. DEFINE n == [h \in Fifos |-> IF h = g THEN k ELSE 0]
  <2>1. k \in 0 .. Size + Size
    BY GameAssumption, SizeIsEven
  <2>2. n \in [Fifos -> 0 .. Size + Size] /\ Queue(unread, n) /\ base' = base
    BY <1>6, <2>1, SizeIsEven DEF CpuWrite
  <2>. HIDE DEF n
  <2>. QED BY <1>3, <2>2
<1>7. CASE ResetFifo
  BY <1>2, <1>7 DEF ResetFifo
<1>8. ~Reset
  BY DEF Reset, Feeding
<1>. QED BY <1>4, <1>5, <1>6, <1>7, <1>8 DEF Next

\* For both FIFOs, a burst of any size, and whatever the game does with its channels.
THEOREM SoundGoesOn == Spec => SoundAdvances
<1>. DEFINE Advance ==
        \A f \in Fifos : Feeding(f) /\ unread[f] = {} =>
          \/ unread'[f] # {}
          \/ ~Feeding(f)'
          \/ SoundTimer(f) /\ Wait(f) \in Nat /\ Wait(f)' < Wait(f)
          \/ ~SoundTimer(f) /\ Wait(f)' = Wait(f)
<1>1. ASSUME IInv, Next, NEW f \in Fifos, Feeding(f), unread[f] = {}, unread'[f] = {},
             Feeding(f)'
      PROVE  \/ SoundTimer(f) /\ Wait(f) \in Nat /\ Wait(f)' < Wait(f)
             \/ ~SoundTimer(f) /\ Wait(f)' = Wait(f)
  <2>1. CASE SoundTimer(f)
    BY <1>1, <2>1, TimerAdvances
  <2>2. CASE ~SoundTimer(f) /\ \E g \in Fifos : SoundTimer(g)
    BY <1>1, <2>2, OtherTimerWaits
  <2>3. CASE \A g \in Fifos : ~SoundTimer(g)
    BY <1>1, <2>3, OthersWait
  <2>. QED BY <2>1, <2>2, <2>3
<1>2. IInv /\ [Next]_vars => [Advance]_vars
  BY <1>1
<1>. QED BY <1>2, SoundInvariant, PTL DEF Spec, SoundAdvances
================================================================================
