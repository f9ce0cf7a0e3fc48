--------------------------- MODULE AudioRingProofs ---------------------------
(***************************************************************************)
(* The safety properties of AudioRing for every size of the ring, the      *)
(* batches and the requests of the audio device, and that the ring         *)
(* implements the safety half of AudioQueue.                               *)
(*                                                                         *)
(* That plat_sound_capacity never understates rests on what the callback   *)
(* may have done between two of its reads: it moves buf_r towards buf_w    *)
(* and not past it.  That nothing is dropped rests on the settings: sound  *)
(* and frame limit are on together or off together, and the main loop      *)
(* writes only while they are on.                                          *)
(***************************************************************************)
EXTENDS AudioRing, Sequences, TLAPS

LEMMA ModBelow == ASSUME NEW n \in Nat, NEW a \in 0 .. n - 1 PROVE a % n = a
OBVIOUS

LEMMA ModAbove == ASSUME NEW n \in Nat \ {0}, NEW a \in n .. 2 * n - 1 PROVE a % n = a - n
OBVIOUS

\* Count without its remainder: what the indices say of the ring.
LEMMA RemainderIs ==
    ASSUME NEW n \in Nat \ {0}, NEW w \in 0 .. n - 1, NEW r \in 0 .. n
    PROVE  (w + n - r) % n = IF r <= w THEN w - r ELSE w + n - r
<1>1. CASE r <= w
  <2>1. w + n - r \in n .. 2 * n - 1
    BY <1>1
  <2>2. QED BY <1>1, <2>1, ModAbove
<1>2. CASE w < r
  <2>1. w + n - r \in 0 .. n - 1
    BY <1>2
  <2>2. QED BY <1>2, <2>1, ModBelow
<1>3. QED BY <1>1, <1>2

\* Between "buf_w > buf_r" and the difference, buf_r stays below buf_w.
ReadInOrder == main = "above" => bufR <= bufW

\* The sound and the frame limit go together, and the main loop writes only while
\* they are on.
SoundWithLimit ==
    /\ fastForward => limitWas /\ audioWas
    /\ limitFrames <=> ~fastForward
    /\ processAudio <=> ~fastForward
    /\ main \in {"write", "sleep"} => ~fastForward

IInv == TypeOK /\ ReadInOrder /\ NeverUnderstated /\ SoundWithLimit

THEOREM InitInv == Init => IInv
<1> SUFFICES ASSUME Init PROVE IInv OBVIOUS
<1>1. buf \in [0 .. BufLen - 1 -> Samples]
  BY DEF Init
<1>2. /\ bufW \in 0 .. BufLen - 1 /\ bufR \in 0 .. BufLen /\ bufR # BufLen
      /\ len \in 0 .. Request /\ left \in 0 .. Batch
  BY SizesAssumption DEF Init
<1>3. /\ fastForward \in BOOLEAN /\ limitFrames \in BOOLEAN /\ processAudio \in BOOLEAN
      /\ limitWas \in BOOLEAN /\ audioWas \in BOOLEAN
  BY DEF Init
<1>4. /\ lock = "free" /\ callback = "out" /\ heard = Silence /\ main = "input"
      /\ buffered = 0
  BY DEF Init
<1>5. TypeOK
  BY <1>1, <1>2, <1>3, <1>4 DEF TypeOK
<1>6. QED BY <1>5 DEF Init, IInv, ReadInOrder, NeverUnderstated, SoundWithLimit

\* A sample that is taken, or an index that is wrapped, only ever lowers Count.
LEMMA TakeLowers ==
    ASSUME TypeOK, TypeOK', ReadInOrder, TakeSample
    PROVE  ReadInOrder' /\ Count' <= Count
<1>1. /\ bufW \in 0 .. BufLen - 1 /\ bufR \in 0 .. BufLen - 1 /\ bufR' \in 0 .. BufLen
      /\ BufLen \in Nat \ {0}
      /\ bufR # bufW /\ bufR' = bufR + 1 /\ bufW' = bufW /\ main' = main
  BY SizesAssumption DEF TypeOK, TakeSample
<1>2. ReadInOrder'
  BY <1>1 DEF ReadInOrder
<1>3. Count = IF bufR <= bufW THEN bufW - bufR ELSE bufW + BufLen - bufR
  BY <1>1, RemainderIs DEF Count
<1>4. Count' = IF bufR' <= bufW THEN bufW - bufR' ELSE bufW + BufLen - bufR'
  BY <1>1, RemainderIs DEF Count
<1>5. QED BY <1>1, <1>2, <1>3, <1>4

LEMMA WrapKeeps ==
    ASSUME TypeOK, TypeOK', ReadInOrder, WrapIndex
    PROVE  ReadInOrder' /\ Count' <= Count
<1>1. /\ bufW \in 0 .. BufLen - 1 /\ bufR \in 0 .. BufLen /\ BufLen \in Nat \ {0}
      /\ bufR' \in 0 .. BufLen
      /\ bufR' = bufR % BufLen /\ bufW' = bufW /\ main' = main
  BY SizesAssumption DEF TypeOK, WrapIndex, Wrapped
<1>2. bufR' = bufR \/ (bufR = BufLen /\ bufR' = 0)
  BY <1>1, ModBelow, ModAbove
<1>3. ReadInOrder'
  BY <1>1, <1>2 DEF ReadInOrder
<1>4. Count = IF bufR <= bufW THEN bufW - bufR ELSE bufW + BufLen - bufR
  BY <1>1, RemainderIs DEF Count
<1>5. Count' = IF bufR' <= bufW THEN bufW - bufR' ELSE bufW + BufLen - bufR'
  BY <1>1, RemainderIs DEF Count
<1>6. QED BY <1>1, <1>2, <1>3, <1>4, <1>5
THEOREM StepInv == IInv /\ [Next]_vars => IInv'
<1> SUFFICES ASSUME IInv, [Next]_vars PROVE IInv' OBVIOUS
<1>t. /\ BufLen \in Nat \ {0, 1} /\ Batch \in Nat \ {0} /\ Request \in Nat \ {0}
      /\ TypeOK /\ ReadInOrder /\ NeverUnderstated /\ SoundWithLimit
  BY SizesAssumption DEF IInv
<1>w. bufR = BufLen => (bufR % BufLen = 0)
  BY <1>t, ModAbove
<1>m. /\ (bufW + 1) % BufLen \in 0 .. BufLen - 1
      /\ bufR % BufLen \in 0 .. BufLen - 1
  BY <1>t DEF TypeOK
<1>c. Count \in 0 .. BufLen - 1 /\ Count <= bufW + BufLen - bufR
  BY <1>t, RemainderIs DEF TypeOK, Count
<1>1. CASE CallbackBegins
  <2>1. TypeOK'
    BY <1>1, <1>t DEF CallbackBegins, Acquire, TypeOK, ring, settings
  <2>2. QED BY <1>1, <1>t, <2>1 DEF CallbackBegins, ring, settings, IInv, ReadInOrder,
                                    NeverUnderstated, Count, SoundWithLimit
<1>2. CASE TakeSample
  <2>1. TypeOK'
    BY <1>2, <1>t DEF TakeSample, TypeOK, settings
  <2>2. ReadInOrder' /\ Count' <= Count /\ Count' \in Int
    BY <1>2, <1>t, <2>1, TakeLowers DEF Count, TypeOK
  <2>3. NeverUnderstated'
    BY <1>2, <1>t, <1>c, <2>2 DEF TakeSample, NeverUnderstated, TypeOK
  <2>4. QED BY <1>2, <1>t, <2>1, <2>2, <2>3 DEF TakeSample, settings, IInv, SoundWithLimit
<1>3. CASE WrapIndex
  <2>1. TypeOK'
    BY <1>3, <1>t, <1>m DEF WrapIndex, Wrapped, TypeOK, settings
  <2>2. ReadInOrder' /\ Count' <= Count /\ Count' \in Int
    BY <1>3, <1>t, <2>1, WrapKeeps DEF Count, TypeOK
  <2>3. NeverUnderstated'
    BY <1>3, <1>t, <1>c, <2>2 DEF WrapIndex, NeverUnderstated, TypeOK
  <2>4. QED BY <1>3, <1>t, <2>1, <2>2, <2>3 DEF WrapIndex, settings, IInv, SoundWithLimit
<1>4. CASE CallbackEnds
  <2>1. TypeOK'
    BY <1>4, <1>t DEF CallbackEnds, Release, TypeOK, ring, settings
  <2>2. QED BY <1>4, <1>t, <2>1 DEF CallbackEnds, ring, settings, IInv, ReadInOrder,
                                    NeverUnderstated, Count, SoundWithLimit
<1>5. CASE ToggleFastForward
  <2>1. /\ UNCHANGED <<bufW, bufR, main, buffered>> /\ main = "input"
        /\ TypeOK'
    BY <1>5, <1>t DEF ToggleFastForward, TypeOK, ring, audioVars, SoundWithLimit, SoundOff
  <2>2. SoundWithLimit'
    BY <1>5, <1>t DEF ToggleFastForward, SoundWithLimit, SoundOff, TypeOK
  <2>3. QED BY <1>t, <2>1, <2>2 DEF IInv, ReadInOrder, NeverUnderstated, Count
<1>6. CASE CompareEqual
  <2>1. TypeOK'
    BY <1>6, <1>t DEF CompareEqual, TypeOK, ring, audioVars, settings
  <2>2. NeverUnderstated'
    BY <1>6, <1>t, RemainderIs DEF CompareEqual, NeverUnderstated, Count, ring, TypeOK
  <2>3. QED BY <1>6, <1>t, <2>1, <2>2 DEF CompareEqual, ring, settings, IInv, ReadInOrder,
                                          SoundWithLimit
<1>7. CASE CompareGreater
  <2>1. TypeOK'
    BY <1>7, <1>t DEF CompareGreater, TypeOK, ring, audioVars, settings
  <2>2. ReadInOrder'
    BY <1>7, <1>t DEF CompareGreater, ReadInOrder, TypeOK, ring
  <2>3. QED BY <1>7, <1>t, <2>1, <2>2 DEF CompareGreater, ring, settings, IInv,
                                          NeverUnderstated, SoundWithLimit
<1>8. CASE Subtract
  <2>1. TypeOK'
    BY <1>8, <1>t DEF Subtract, AroundEnd, TypeOK, ring, audioVars, settings
  <2>2. Count <= buffered'
    BY <1>8, <1>t, <1>c, RemainderIs DEF Subtract, AroundEnd, ReadInOrder, Count, TypeOK
  <2>3. Count' = Count
    BY <1>8 DEF Subtract, Count, ring
  <2>4. QED BY <1>8, <1>t, <2>1, <2>2, <2>3 DEF Subtract, settings, IInv, ReadInOrder,
                                              NeverUnderstated, SoundWithLimit
<1>9. CASE BeginWrite
  <2>1. TypeOK'
    BY <1>9, <1>t DEF BeginWrite, Acquire, TypeOK, ring, audioVars, settings
  <2>2. QED BY <1>9, <1>t, <2>1 DEF BeginWrite, ring, settings, IInv, ReadInOrder,
                                    NeverUnderstated, SoundWithLimit
<1>10. CASE EndFrame
  <2>1. TypeOK'
    BY <1>10, <1>t DEF EndFrame, TypeOK, ring, audioVars, settings
  <2>2. QED BY <1>10, <1>t, <2>1 DEF EndFrame, settings, IInv, ReadInOrder,
                                     NeverUnderstated, SoundWithLimit
<1>11. CASE PutSample
  <2>1. TypeOK'
    BY <1>11, <1>t, <1>m DEF PutSample, Rest, TypeOK, audioVars, settings
  <2>2. QED BY <1>11, <1>t, <2>1 DEF PutSample, settings, IInv, ReadInOrder,
                                     NeverUnderstated, SoundWithLimit
<1>12. CASE FindFull
  <2>1. TypeOK'
    BY <1>12, <1>t DEF FindFull, Release, TypeOK, ring, audioVars, settings
  <2>2. QED BY <1>12, <1>t, <2>1 DEF FindFull, settings, IInv, ReadInOrder,
                                     NeverUnderstated, SoundWithLimit
<1>13. CASE EndWrite
  <2>1. TypeOK'
    BY <1>13, <1>t DEF EndWrite, Release, TypeOK, ring, audioVars, settings
  <2>2. QED BY <1>13, <1>t, <2>1 DEF EndWrite, settings, IInv, ReadInOrder,
                                     NeverUnderstated, SoundWithLimit
<1>14. CASE WakeUp
  <2>1. TypeOK'
    BY <1>14, <1>t DEF WakeUp, Acquire, TypeOK, ring, audioVars, settings
  <2>2. QED BY <1>14, <1>t, <2>1 DEF WakeUp, settings, IInv, ReadInOrder,
                                     NeverUnderstated, SoundWithLimit
<1>15. CASE UNCHANGED vars
  BY <1>15, <1>t DEF vars, ring, audioVars, settings, IInv, TypeOK, ReadInOrder,
                     NeverUnderstated, Count, SoundWithLimit
<1>16. QED BY <1>1, <1>2, <1>3, <1>4, <1>5, <1>6, <1>7, <1>8, <1>9, <1>10, <1>11, <1>12,
              <1>13, <1>14, <1>15 DEF Next, CallbackStep, WriteStep

THEOREM AlwaysInv == Spec => []IInv
BY InitInv, StepInv, PTL DEF Spec

THEOREM TypeCorrect == Spec => []TypeOK
<1>1. IInv => TypeOK
  BY DEF IInv
<1>2. QED BY <1>1, AlwaysInv, PTL

\* The race in plat_sound_capacity skips no frame, for any size of the ring.
THEOREM RaceIsHarmless == Spec => []NeverUnderstated
<1>1. IInv => NeverUnderstated
  BY DEF IInv
<1>2. QED BY <1>1, AlwaysInv, PTL

\* No write is cut short.
THEOREM EverySampleWritten == Spec => NothingDropped
<1>1. IInv /\ [Next]_vars => [main = "write" /\ main' = "rendered" => left = 0]_vars
  <2> SUFFICES ASSUME IInv, Next, main = "write", main' = "rendered" PROVE left = 0
    OBVIOUS
  <2>1. limitFrames
    BY DEF IInv, SoundWithLimit
  <2>2. QED BY <2>1 DEF Next, CallbackBegins, CallbackStep, TakeSample, WrapIndex,
      CallbackEnds, ToggleFastForward, CompareEqual, CompareGreater, Subtract, BeginWrite,
      EndFrame, WriteStep, PutSample, FindFull, EndWrite, WakeUp
<1>2. QED BY <1>1, AlwaysInv, PTL DEF Spec, NothingDropped

-----------------------------------------------------------------------------
\* The ring implements the queue

\* Who holds the audio lock is where the lock is needed: no sample is written while
\* the callback has buf_r past the end of the ring.
LockHeld == /\ lock = "audio" <=> callback # "out"
            /\ lock = "main" <=> main = "write"

RingInv == TypeOK /\ LockHeld

LEMMA RingInvariance == Spec => []RingInv
<1>1. Init => LockHeld
  BY DEF Init, LockHeld
<1>2. LockHeld /\ [Next]_vars => LockHeld'
  <2> SUFFICES ASSUME LockHeld, [Next]_vars PROVE LockHeld'
    OBVIOUS
  <2>1. CASE CallbackBegins \/ TakeSample \/ WrapIndex \/ CallbackEnds
    BY <2>1 DEF LockHeld, CallbackBegins, TakeSample, WrapIndex, CallbackEnds, Acquire,
                Release
  <2>2. CASE ToggleFastForward \/ CompareEqual \/ CompareGreater \/ Subtract \/ UNCHANGED vars
    BY <2>2 DEF LockHeld, ToggleFastForward, CompareEqual, CompareGreater, Subtract,
                audioVars, vars
  <2>3. CASE BeginWrite \/ EndFrame \/ WakeUp
    BY <2>3 DEF LockHeld, BeginWrite, EndFrame, WakeUp, Acquire, audioVars
  <2>4. CASE WriteStep
    BY <2>4 DEF LockHeld, WriteStep, PutSample, FindFull, EndWrite, Release, audioVars
  <2>. QED BY <2>1, <2>2, <2>3, <2>4 DEF Next, CallbackStep
<1>. QED BY <1>1, <1>2, TypeCorrect, PTL DEF Spec, RingInv

\* The place of the i-th sample from index r on.
Place(r, i) == IF r + i - 1 < BufLen THEN r + i - 1 ELSE r + i - 1 - BufLen

Contents == [i \in 1 .. Count |-> buf[(bufR + i - 1) % BufLen]]

LEMMA PlaceIs ==
    ASSUME NEW r \in 0 .. BufLen, NEW i \in 1 .. BufLen - 1
    PROVE  (r + i - 1) % BufLen = Place(r, i) /\ Place(r, i) \in 0 .. BufLen - 1
<1>. BufLen \in Nat \ {0, 1}
  BY SizesAssumption
<1>1. CASE r + i - 1 < BufLen
  <2>1. r + i - 1 \in 0 .. BufLen - 1
    BY <1>1
  <2>. QED BY <1>1, <2>1, ModBelow DEF Place
<1>2. CASE r + i - 1 >= BufLen
  <2>1. r + i - 1 \in BufLen .. 2 * BufLen - 1
    BY <1>2
  <2>. QED BY <1>2, <2>1, ModAbove DEF Place
<1>. QED BY <1>1, <1>2

LEMMA CountIs ==
    ASSUME TypeOK
    PROVE  /\ Count = IF bufR <= bufW THEN bufW - bufR ELSE bufW + BufLen - bufR
           /\ Count \in 0 .. BufLen - 1
BY RemainderIs, SizesAssumption DEF TypeOK, Count

LEMMA ContentsAre ==
    ASSUME TypeOK
    PROVE  /\ Contents = [i \in 1 .. Count |-> buf[Place(bufR, i)]]
           /\ Contents \in Seq(Samples) /\ Len(Contents) = Count
<1>1. Count \in 0 .. BufLen - 1 /\ bufR \in 0 .. BufLen /\ BufLen \in Nat
  BY CountIs, SizesAssumption DEF TypeOK
<1>2. ASSUME NEW i \in 1 .. Count
      PROVE  /\ (bufR + i - 1) % BufLen = Place(bufR, i)
             /\ buf[(bufR + i - 1) % BufLen] \in Samples
  <2>1. i \in 1 .. BufLen - 1
    BY <1>1
  <2>. QED BY <1>1, <2>1, PlaceIs DEF TypeOK
<1>. HIDE DEF Place
<1>3. Contents = [i \in 1 .. Count |-> buf[Place(bufR, i)]]
  BY <1>2, Zenon DEF Contents
<1>4. \A i \in 1 .. Count : Contents[i] \in Samples
  BY <1>2 DEF Contents
<1>5. Contents \in [1 .. Count -> Samples]
  BY <1>4 DEF Contents
<1>. QED BY <1>1, <1>3, <1>5

\* A callback's step takes the first sample.
LEMMA TakeHears ==
    ASSUME RingInv, RingInv', TakeSample
    PROVE  Queue!Hear
<1>. BufLen \in Nat \ {0, 1} /\ TypeOK /\ TypeOK'
  BY SizesAssumption DEF RingInv
<1>1. /\ bufR \in 0 .. BufLen - 1 /\ bufW \in 0 .. BufLen - 1 /\ bufR # bufW
      /\ bufR' = bufR + 1 /\ UNCHANGED <<buf, bufW>> /\ heard' = buf[bufR]
  BY DEF TakeSample, TypeOK
<1>2. Count \in 1 .. BufLen - 1 /\ Count' = Count - 1
  <2>1. Count = IF bufR <= bufW THEN bufW - bufR ELSE bufW + BufLen - bufR
    BY CountIs
  <2>2. Count' = IF bufR' <= bufW' THEN bufW' - bufR' ELSE bufW' + BufLen - bufR'
    BY <1>1, RemainderIs, SMTT(20) DEF Count
  <2>3. Count \in 1 .. BufLen - 1
    BY <1>1, <2>1
  <2>. QED BY <1>1, <2>1, <2>2, <2>3
<1>3. ASSUME NEW i \in 1 .. Count - 1
      PROVE  buf'[(bufR' + i - 1) % BufLen] = buf[Place(bufR, i + 1)]
  <2>1. i \in 1 .. BufLen - 1 /\ i + 1 \in 1 .. BufLen - 1 /\ bufR' \in 0 .. BufLen
    BY <1>1, <1>2
  <2>2. (bufR' + i - 1) % BufLen = Place(bufR', i)
    BY <2>1, PlaceIs
  <2>3. Place(bufR', i) = Place(bufR, i + 1)
    BY <1>1, <2>1 DEF Place
  <2>. QED BY <1>1, <2>2, <2>3
<1>4. /\ Contents = [i \in 1 .. Count |-> buf[Place(bufR, i)]]
      /\ Contents \in Seq(Samples) /\ Len(Contents) = Count
  BY ContentsAre
<1>5. Contents' = [i \in 1 .. Count - 1 |-> Contents[i + 1]]
  <2>1. Contents' = [i \in 1 .. Count - 1 |-> buf[Place(bufR, i + 1)]]
    BY <1>2, <1>3 DEF Contents
  <2>. QED BY <2>1, <1>2, <1>4
<1>6. Contents # <<>> /\ Head(Contents) = buf[bufR]
  <2>1. Place(bufR, 1) = bufR
    BY <1>1 DEF Place
  <2>. QED BY <2>1, <1>2, <1>4
<1>7. Contents' = Tail(Contents)
  BY <1>2, <1>4, <1>5
<1>. QED BY <1>1, <1>6, <1>7 DEF Queue!Hear, Contents

\* The wrap of buf_r moves no sample.
LEMMA WrapStutters ==
    ASSUME RingInv, RingInv', WrapIndex
    PROVE  Contents' = Contents /\ heard' = heard
<1>. BufLen \in Nat \ {0, 1} /\ TypeOK /\ TypeOK'
  BY SizesAssumption DEF RingInv
<1>1. /\ bufR \in 0 .. BufLen /\ bufW \in 0 .. BufLen - 1
      /\ bufR' = bufR % BufLen /\ UNCHANGED <<buf, bufW, heard>>
  BY DEF WrapIndex, Wrapped, TypeOK
<1>2. CASE bufR < BufLen
  <2>1. bufR' = bufR
    BY <1>1, <1>2, ModBelow
  <2>. QED BY <1>1, <2>1 DEF Contents, Count
<1>3. CASE bufR = BufLen
  <2>1. bufR' = 0
    BY <1>1, <1>3, ModAbove
  <2>2. Count' = Count /\ Count \in 0 .. BufLen - 1
    <3>1. Count = bufW
      BY <1>1, <1>3, CountIs
    <3>2. Count' = bufW'
      BY <1>1, <2>1, RemainderIs DEF Count
    <3>. QED BY <1>1, <3>1, <3>2
  <2>3. ASSUME NEW i \in 1 .. Count
        PROVE  buf'[(bufR' + i - 1) % BufLen] = buf[(bufR + i - 1) % BufLen]
    <3>1. i \in 1 .. BufLen - 1 /\ bufR' \in 0 .. BufLen
      BY <2>1, <2>2
    <3>2. (bufR' + i - 1) % BufLen = Place(bufR', i) /\ (bufR + i - 1) % BufLen = Place(bufR, i)
      BY <1>1, <3>1, PlaceIs
    <3>3. Place(bufR', i) = Place(bufR, i)
      BY <1>3, <2>1, <3>1 DEF Place
    <3>. QED BY <1>1, <3>2, <3>3
  <2>. QED BY <1>1, <2>2, <2>3 DEF Contents
<1>. QED BY <1>1, <1>2, <1>3

\* A sample is written behind the others, under the lock.
LEMMA PutWrites ==
    ASSUME RingInv, RingInv', PutSample
    PROVE  Queue!Write
<1>. BufLen \in Nat \ {0, 1} /\ TypeOK /\ TypeOK'
  BY SizesAssumption DEF RingInv
<1>0. callback = "out"
  BY DEF PutSample, RingInv, LockHeld
<1>1. /\ bufR \in 0 .. BufLen - 1 /\ bufW \in 0 .. BufLen - 1 /\ ~Full
      /\ bufW' = (bufW + 1) % BufLen /\ UNCHANGED <<bufR, heard>>
  BY <1>0 DEF PutSample, TypeOK, audioVars
<1>2. PICK s \in Samples : buf' = [buf EXCEPT ![bufW] = s]
  BY DEF PutSample
<1>3. bufW' = (IF bufW + 1 = BufLen THEN 0 ELSE bufW + 1) /\ bufW' # bufR
  <2>1. bufW' # bufR
    BY <1>1 DEF Full
  <2>2. CASE bufW + 1 = BufLen
    BY <1>1, <2>1, <2>2, ModAbove
  <2>3. CASE bufW + 1 # BufLen
    <3>1. bufW + 1 \in 0 .. BufLen - 1
      BY <1>1, <2>3
    <3>. QED BY <1>1, <2>1, <2>3, <3>1, ModBelow
  <2>. QED BY <2>2, <2>3
<1>4. Count \in 0 .. BufLen - 2 /\ Count' = Count + 1 /\ Place(bufR, Count + 1) = bufW
  <2>1. Count = IF bufR <= bufW THEN bufW - bufR ELSE bufW + BufLen - bufR
    BY CountIs
  <2>2. Count' = IF bufR' <= bufW' THEN bufW' - bufR' ELSE bufW' + BufLen - bufR'
    BY <1>1, <1>3, RemainderIs DEF Count
  <2>3. Count \in 0 .. BufLen - 2 /\ Count' = Count + 1
    BY <1>1, <1>3, <2>1, <2>2
  <2>. QED BY <1>1, <2>1, <2>3 DEF Place
<1>5. ASSUME NEW i \in 1 .. Count + 1
      PROVE  buf'[(bufR' + i - 1) % BufLen] = IF i = Count + 1 THEN s ELSE buf[Place(bufR, i)]
  <2>1. i \in 1 .. BufLen - 1 /\ bufR' = bufR /\ bufR \in 0 .. BufLen
    BY <1>1, <1>4
  <2>2. (bufR' + i - 1) % BufLen = Place(bufR, i) /\ Place(bufR, i) \in 0 .. BufLen - 1
    BY <2>1, PlaceIs
  <2>3. CASE i = Count + 1
    BY <1>1, <1>2, <1>4, <2>2, <2>3 DEF TypeOK
  <2>4. CASE i # Count + 1
    <3>1. Place(bufR, i) # Place(bufR, Count + 1)
      BY <1>1, <1>4, <2>1, <2>4 DEF Place
    <3>. QED BY <1>2, <1>4, <2>2, <2>4, <3>1 DEF TypeOK
  <2>. QED BY <2>3, <2>4
<1>6. /\ Contents = [i \in 1 .. Count |-> buf[Place(bufR, i)]]
      /\ Contents \in Seq(Samples) /\ Len(Contents) = Count
  BY ContentsAre
<1>7. Contents' = Append(Contents, s)
  <2>1. Contents' = [i \in 1 .. Count + 1 |-> IF i = Count + 1 THEN s ELSE Contents[i]]
    BY <1>4, <1>5, <1>6 DEF Contents
  <2>. QED BY <2>1, <1>4, <1>6
<1>8. Len(Contents) < BufLen - 1
  BY <1>4, <1>6
<1>. QED BY <1>1, <1>7, <1>8 DEF Queue!Write, Contents

\* The end of a callback is a silence when there was nothing left.
LEMMA EndStarves ==
    ASSUME RingInv, RingInv', CallbackEnds
    PROVE  Queue!Starve \/ (Contents' = Contents /\ heard' = heard)
<1>. TypeOK
  BY DEF RingInv
<1>1. UNCHANGED <<buf, bufW, bufR>> /\ heard' = IF len > 0 THEN Silence ELSE heard
  BY DEF CallbackEnds, ring
<1>2. Contents' = Contents
  BY <1>1 DEF Contents, Count
<1>3. CASE len > 0
  <2>1. bufR = bufW
    BY <1>3 DEF CallbackEnds
  <2>2. Count = 0
    BY <2>1, CountIs, SizesAssumption DEF TypeOK
  <2>3. Contents = <<>>
    BY <2>2, ContentsAre
  <2>. QED BY <1>1, <1>2, <1>3, <2>3 DEF Queue!Starve, Contents
<1>. QED BY <1>1, <1>2, <1>3

\* The ring, with its two threads, is a bounded queue: no sample is overwritten
\* before it is heard, heard twice or out of order, and there is silence only when
\* none is left.  This is RingIsQueue without the fairness of the audio device.
THEOREM RingImplementsQueue == Spec => Queue!SafeSpec
<1>1. Init => Queue!Init
  <2> SUFFICES ASSUME Init PROVE Queue!Init
    OBVIOUS
  <2>1. TypeOK /\ bufR = bufW
    BY InitInv DEF IInv, Init
  <2>2. Contents = <<>>
    BY <2>1, CountIs, ContentsAre, SizesAssumption DEF TypeOK
  <2>. QED BY <2>2 DEF Init, Queue!Init, Contents
<1>2. RingInv /\ RingInv' /\ [Next]_vars => [Queue!Next]_(Queue!vars)
  <2> SUFFICES ASSUME RingInv, RingInv', [Next]_vars
               PROVE  Queue!Next \/ (Contents' = Contents /\ heard' = heard)
    BY DEF Queue!vars, Contents
  <2>1. CASE TakeSample \/ PutSample
    BY <2>1, TakeHears, PutWrites DEF Queue!Next
  <2>2. CASE WrapIndex \/ CallbackEnds
    BY <2>2, WrapStutters, EndStarves DEF Queue!Next
  <2>3. CASE UNCHANGED <<buf, bufW, bufR, heard>>
    BY <2>3 DEF Contents, Count
  <2>. QED BY <2>1, <2>2, <2>3 DEF Next, CallbackStep, WriteStep, CallbackBegins,
        ToggleFastForward, CompareEqual, CompareGreater, Subtract, BeginWrite, EndFrame,
        FindFull, WakeUp, EndWrite, ring, audioVars, vars
<1>. QED BY <1>1, <1>2, RingInvariance, PTL DEF Spec, Queue!SafeSpec
-----------------------------------------------------------------------------
(***************************************************************************)
(* The lock is let go of.                                                  *)
(***************************************************************************)
\* The steps that the thread with the audio lock has at most to go before it lets go of it
HeldFor ==
    CASE lock = "main" -> left + 1
      [] lock = "audio" -> 2 * len + (IF callback = "loop" THEN 1 ELSE 0)
      [] OTHER -> 0

\* Neither thread keeps the audio lock: each of its own steps brings the release nearer,
\* and no step of the other one puts it off.  So the main loop never holds up the audio
\* device for more than a batch, nor the callback the game for more than a request.
LockIsBrief ==
    [][lock # "free" =>
          /\ HeldFor \in Nat \ {0}
          /\ CallbackStep \/ WriteStep =>
                lock' = "free" \/ (lock' = lock /\ HeldFor' < HeldFor)
          /\ ~(CallbackStep \/ WriteStep) => lock' = lock /\ HeldFor' = HeldFor]_vars

\* For every size of the ring, the batches and the requests.
THEOREM LockComesBack == Spec => LockIsBrief
<1>. DEFINE Brief ==
        lock # "free" =>
          /\ HeldFor \in Nat \ {0}
          /\ CallbackStep \/ WriteStep =>
                lock' = "free" \/ (lock' = lock /\ HeldFor' < HeldFor)
          /\ ~(CallbackStep \/ WriteStep) => lock' = lock /\ HeldFor' = HeldFor
<1>1. ASSUME RingInv, lock # "free"
      PROVE  HeldFor \in Nat \ {0}
  <2>1. /\ lock \in {"main", "audio"} /\ left \in Nat /\ len \in Nat
        /\ callback \in {"loop", "wrap"} \/ lock = "main"
        /\ callback = "wrap" => len > 0
    BY <1>1, SizesAssumption DEF RingInv, TypeOK, LockHeld
  <2>2. CASE lock = "main"
    BY <2>1, <2>2 DEF HeldFor
  <2>3. CASE lock = "audio"
    BY <2>1, <2>3 DEF HeldFor
  <2>. QED BY <2>1, <2>2, <2>3
<1>2. ASSUME RingInv, CallbackStep
      PROVE  lock' = "free" \/ (lock' = lock /\ HeldFor' < HeldFor)
  <2>1. lock = "audio" /\ len \in Nat
    BY <1>2, SizesAssumption
       DEF RingInv, TypeOK, LockHeld, CallbackStep, TakeSample, WrapIndex, CallbackEnds
  <2>2. CASE TakeSample
    <3>1. lock' = lock /\ len' = len /\ callback = "loop" /\ callback' = "wrap"
      BY <2>2 DEF TakeSample
    <3>. QED BY <2>1, <3>1 DEF HeldFor
  <2>3. CASE WrapIndex
    <3>1. lock' = lock /\ len' = len - 1 /\ callback = "wrap" /\ callback' = "loop"
      BY <2>3 DEF WrapIndex
    <3>. QED BY <2>1, <3>1 DEF HeldFor
  <2>4. CASE CallbackEnds
    BY <2>4 DEF CallbackEnds, Release
  <2>. QED BY <1>2, <2>2, <2>3, <2>4 DEF CallbackStep
<1>3. ASSUME RingInv, WriteStep
      PROVE  lock' = "free" \/ (lock' = lock /\ HeldFor' < HeldFor)
  <2>1. lock = "main" /\ left \in Nat
    BY <1>3, SizesAssumption
       DEF RingInv, TypeOK, LockHeld, WriteStep, PutSample, FindFull, EndWrite
  <2>2. CASE PutSample
    <3>1. lock' = lock /\ left' = left - 1
      BY <2>2 DEF PutSample, Rest
    <3>. QED BY <2>1, <3>1 DEF HeldFor
  <2>3. CASE FindFull \/ EndWrite
    BY <2>3 DEF FindFull, EndWrite, Release
  <2>. QED BY <1>3, <2>2, <2>3 DEF WriteStep
<1>4. ASSUME RingInv, lock # "free", Next, ~(CallbackStep \/ WriteStep)
      PROVE  lock' = lock /\ HeldFor' = HeldFor
  <2>1. \/ ToggleFastForward \/ CompareEqual \/ CompareGreater \/ Subtract \/ EndFrame
    BY <1>4 DEF Next, CallbackBegins, BeginWrite, WakeUp, Acquire
  <2>2. UNCHANGED <<lock, callback, len, left>>
    BY <2>1 DEF ToggleFastForward, CompareEqual, CompareGreater, Subtract, EndFrame, audioVars
  <2>. QED BY <2>2 DEF HeldFor
<1>5. RingInv /\ [Next]_vars => [Brief]_vars
  BY <1>1, <1>2, <1>3, <1>4
<1>. QED BY <1>5, RingInvariance, PTL DEF Spec, LockIsBrief
=============================================================================
