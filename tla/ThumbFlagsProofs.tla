---------------------------- MODULE ThumbFlagsProofs ----------------------------
(***************************************************************************)
(* Proofs about ThumbFlags, for every program, every set of gates and      *)
(* every size of a block: the types, that no code reads a flag the         *)
(* recompiler did not generate (FlagsRight), and that every direct branch  *)
(* is linked to its own target (LinksRight).                               *)
(***************************************************************************)
EXTENDS ThumbFlags, FiniteSetTheorems, TLAPS

-----------------------------------------------------------------------------
\* Dead flags

\* No instruction of code c from p on, before e, needs the flag f before
\* another one has set it.
Dead(c, f, p, e) ==
    \A q \in p .. e - 1 :
        f \in Needs(c[q].op) => \E r \in p .. q - 1 : f \in Must(c[r].op)

\* The flag f is dead at p up to a place that no block which starts at p passes
\* without an instruction that sets it: a gate, the end of the memory, an exit.
DeadForGood(c, f, p) ==
    \E k \in p + 1 .. Length :
        /\ Dead(c, f, p, k)
        /\ k \in Gates \/ k = Length \/ ExitPoint(c[k - 1].op)

Stale == Flags \ (right \cup spoilt)

\* An exit needs every flag, and an instruction at most those it needs or reads.
LEMMA Tables ==
    ASSUME NEW op \in Operations
    PROVE  /\ ExitPoint(op) => Needs(op) = Flags
           /\ Read(op) \subseteq Needs(op)
           /\ Must(op) \subseteq Flags /\ Needs(op) \subseteq Flags
           /\ Status(op) \in FlagData
           /\ \A written \in Written(op) :
                 /\ written \subseteq Status(op).may
                 /\ op # "tst" => Must(op) \subseteq written
                 /\ op = "tst" => Must(op) \subseteq written \cup {"C", "V"}
BY DEF Operations, Arithmetic, ExitPoint, Needs, Read, Must, Flags, Status, FlagData,
       Written, ZN

\* A flag that is dead at an instruction that does not set it is not needed there
\* and is dead at the next one.
LEMMA DeadPassed ==
    ASSUME NEW c, NEW f, NEW p \in Int, NEW e \in Int, p < e, Dead(c, f, p, e)
    PROVE  /\ f \notin Needs(c[p].op)
           /\ f \notin Must(c[p].op) => Dead(c, f, p + 1, e)
<1>1. f \notin Needs(c[p].op)
  <2>1. p \in p .. e - 1 /\ p .. p - 1 = {}
    OBVIOUS
  <2>. QED BY <2>1 DEF Dead
<1>2. ASSUME f \notin Must(c[p].op), NEW q \in p + 1 .. e - 1, f \in Needs(c[q].op)
      PROVE  \E r \in p + 1 .. q - 1 : f \in Must(c[r].op)
  <2>1. PICK r \in p .. q - 1 : f \in Must(c[r].op)
    BY <1>2 DEF Dead
  <2>2. r # p
    BY <2>1, <1>2
  <2>. QED BY <2>1, <2>2
<1>. QED BY <1>1, <1>2 DEF Dead

\* A flag is dead at an instruction that does not need it, and that sets it or
\* at whose end it is dead.
LEMMA DeadBefore ==
    ASSUME NEW c, NEW f, NEW p \in Int, NEW e \in Int, p < e,
           f \notin Needs(c[p].op),
           f \in Must(c[p].op) \/ Dead(c, f, p + 1, e)
    PROVE  Dead(c, f, p, e)
<1> SUFFICES ASSUME NEW q \in p .. e - 1, f \in Needs(c[q].op)
             PROVE  \E r \in p .. q - 1 : f \in Must(c[r].op)
  BY DEF Dead
<1>1. q # p /\ q \in p + 1 .. e - 1
  OBVIOUS
<1>2. CASE f \in Must(c[p].op)
  BY <1>1, <1>2
<1>3. CASE Dead(c, f, p + 1, e)
  BY <1>1, <1>3 DEF Dead
<1>. QED BY <1>2, <1>3

LEMMA DeadAtEnd ==
    ASSUME NEW c, NEW f, NEW p \in Int
    PROVE  Dead(c, f, p, p)
BY DEF Dead

\* What is dead for good at the start of a block is dead in the block.
LEMMA DeadInBlock ==
    ASSUME NEW c \in [Positions -> Instructions], NEW f \in Flags,
           NEW p \in Positions, NEW e \in p .. Length,
           DeadForGood(c, f, p), \A g \in Gates : ~(p < g /\ g < e)
    PROVE  Dead(c, f, p, e)
<1>. Length \in Nat
  BY SizesAssumption
<1>1. PICK k \in p + 1 .. Length :
         Dead(c, f, p, k) /\ (k \in Gates \/ k = Length \/ ExitPoint(c[k - 1].op))
  BY DEF DeadForGood
<1>2. CASE e <= k
  BY <1>1, <1>2 DEF Dead, Positions
<1>3. CASE k < e
  <2>1. ExitPoint(c[k - 1].op)
    BY <1>1, <1>3 DEF Positions
  <2>2. k - 1 \in p .. k - 1 /\ k - 1 \in Positions
    BY DEF Positions
  <2>3. c[k - 1].op \in Operations
    BY <2>2 DEF Instructions
  <2>4. f \in Needs(c[k - 1].op)
    BY <2>1, <2>3, Tables
  <2>5. PICK r \in p .. k - 2 : f \in Must(c[r].op)
    <3>1. \E r \in p .. (k - 1) - 1 : f \in Must(c[r].op)
      BY <1>1, <2>2, <2>4 DEF Dead
    <3>. QED BY <3>1 DEF Positions
  <2>6. ASSUME NEW q \in p .. e - 1, f \in Needs(c[q].op)
        PROVE  \E s \in p .. q - 1 : f \in Must(c[s].op)
    <3>1. CASE q \in p .. k - 1
      BY <3>1, <2>6, <1>1 DEF Dead
    <3>2. CASE q >= k
      <4>1. r \in p .. q - 1
        BY <3>2, <2>5 DEF Positions
      <4>. QED BY <4>1, <2>5
    <3>. QED BY <3>1, <3>2 DEF Positions
  <2>. QED BY <2>6 DEF Dead
<1>. QED BY <1>2, <1>3 DEF Positions

-----------------------------------------------------------------------------
\* The inductive invariant

\* Where the block stands and what block_data holds of it.  Gates end a block
\* when they are reached.
ScanOK ==
    /\ phase # "run" => pc = start
    /\ phase = "scan" =>
          /\ position = end - start /\ position < MaxBlock /\ end < Length
          /\ \A g \in Gates : ~(start < g /\ g <= end)
    /\ phase # "scan" =>
          /\ start < end
          /\ \A g \in Gates : ~(start < g /\ g < end)
    /\ phase = "scanned" =>
          /\ position \in {end - start - 1, end - start}
          /\ end - start <= MaxBlock

\* The entries of block_data that the elimination has not reached.
StatusOK ==
    /\ phase # "run" => end - start <= MaxBlock
    /\ phase \in {"scan", "scanned"} =>
          \A p \in start .. end - 1 : flagData[p - start] = Status(code[p].op)
    /\ phase = "eliminate" =>
          /\ position <= end - start - 1
          /\ \A p \in start .. end - 1 :
                p - start <= position => flagData[p - start] = Status(code[p].op)

\* What a flag has to be in block_data once the elimination has passed p.
Kept(c, p, e, may) ==
    \A f \in Status(c[p].op).may : f \in may \/ Dead(c, f, p + 1, e)

EliminateOK ==
    /\ phase = "eliminate" =>
          \A f \in Flags : f \in needed \/ Dead(code, f, start + position + 1, end)
    /\ phase \in {"eliminate", "run"} =>
          \A p \in start .. end - 1 :
             (phase = "run" \/ p - start > position) =>
                Kept(code, p, end, flagData[p - start].may)

\* A flag that is neither right nor spoilt is dead.
StaleOK ==
    /\ phase # "run" => \A f \in Stale : DeadForGood(code, f, start)
    /\ phase = "run" => \A f \in Stale : Dead(code, f, pc, end)

IInv == TypeOK /\ ScanOK /\ StatusOK /\ EliminateOK /\ StaleOK

LEMMA CodeType ==
    ASSUME TypeOK, NEW p \in Positions
    PROVE  code[p] \in Instructions /\ code[p].op \in Operations /\ code[p].to \in Nat
BY ProgramsAssumption DEF TypeOK, Instructions

\* The start of a block keeps the invariant when the flags that are not right are
\* spoilt or dead for good.
LEMMA BeginInv ==
    ASSUME TypeOK, NEW p \in Positions, Begin(p),
           right' \subseteq Flags, spoilt' \subseteq Flags,
           \A f \in Flags \ (right' \cup spoilt') : DeadForGood(code, f, p)
    PROVE  IInv'
<1>. Length \in Nat /\ MaxBlock \in Nat \ {0}
  BY SizesAssumption
<1>. USE DEF Begin
<1>1. TypeOK'
  BY DEF TypeOK, Positions
<1>2. ScanOK' /\ StatusOK' /\ EliminateOK'
  BY SizesAssumption DEF ScanOK, StatusOK, EliminateOK, Positions
<1>3. StaleOK'
  BY DEF StaleOK, Stale
<1>. QED BY <1>1, <1>2, <1>3 DEF IInv

LEMMA EnterPosition ==
    ASSUME NEW p, Enter(p)
    PROVE  \E q \in Positions : (p \in Positions => q = p) /\ Begin(q)
BY DEF Enter

LEMMA InitInv ==
    ASSUME Init
    PROVE  IInv
<1>. Length \in Nat \ {0} /\ MaxBlock \in Nat \ {0}
  BY SizesAssumption
<1>1. TypeOK
  BY DEF Init, TypeOK, FlagData, Positions
<1>2. ScanOK /\ StatusOK /\ EliminateOK
  BY SizesAssumption DEF Init, ScanOK, StatusOK, EliminateOK, Positions
<1>3. StaleOK
  BY DEF Init, StaleOK, Stale
<1>. QED BY <1>1, <1>2, <1>3 DEF IInv

-----------------------------------------------------------------------------
\* Translation

LEMMA RecordedType ==
    ASSUME TypeOK, NEW p \in Positions
    PROVE  Recorded(p) \in Seq(Nat)
<1>. code[p].to \in Nat /\ Bios \in Nat
  BY CodeType, SizesAssumption DEF Bios
<1>. QED BY DEF Recorded

LEMMA ScanInv ==
    ASSUME IInv, ScanInstruction
    PROVE  IInv'
<1>. Length \in Nat \ {0} /\ MaxBlock \in Nat \ {0}
  BY SizesAssumption
<1>. TypeOK /\ ScanOK /\ StatusOK /\ EliminateOK /\ StaleOK
  BY DEF IInv
<1>1. /\ phase = "scan" /\ end \in Positions /\ position \in 0 .. MaxBlock - 1
      /\ position = end - start /\ start \in 0 .. end
  BY DEF ScanInstruction, ScanOK, TypeOK, Positions
<1>2. /\ end' = end + 1 /\ exits' = exits \o Recorded(end)
      /\ flagData' = [flagData EXCEPT ![position] = Status(code[end].op)]
      /\ position' \in {position, position + 1}
      /\ phase' \in {"scan", "scanned"}
      /\ UNCHANGED <<code, start, needed, pc, right, spoilt>>
      /\ phase' = "scan" => /\ position' = position + 1 /\ position + 1 # MaxBlock
                            /\ end + 1 # Length /\ end + 1 \notin Gates
  BY Zenon DEF ScanInstruction
<1>3. Status(code[end].op) \in FlagData
  BY <1>1, CodeType, Tables
<1>4. TypeOK'
  <2>1. exits' \in Seq(Nat)
    <3>1. Recorded(end) \in Seq(Nat) /\ exits \in Seq(Nat)
      BY <1>1, RecordedType DEF TypeOK
    <3>. QED BY <3>1, <1>2
  <2>2. flagData' \in [0 .. MaxBlock - 1 -> FlagData]
    BY <1>1, <1>2, <1>3 DEF TypeOK
  <2>. QED BY <1>1, <1>2, <2>1, <2>2 DEF TypeOK, Positions
<1>5. ScanOK'
  BY <1>1, <1>2, SizesAssumption DEF ScanOK, Positions
<1>6. StatusOK'
  <2>1. ASSUME NEW p \in start .. end
        PROVE  flagData'[p - start] = Status(code[p].op)
    <3>1. CASE p = end
      BY <3>1, <1>1, <1>2 DEF TypeOK
    <3>2. CASE p # end
      <4>1. p \in start .. end - 1 /\ p - start \in 0 .. MaxBlock - 1 /\ p - start # position
        BY <3>2, <1>1 DEF Positions
      <4>2. flagData[p - start] = Status(code[p].op)
        BY <4>1, <1>1 DEF StatusOK
      <4>. QED BY <4>1, <4>2, <1>2, <1>1 DEF TypeOK
    <3>. QED BY <3>1, <3>2
  <2>2. end' - 1 = end /\ end' - start' <= MaxBlock
    BY <1>1, <1>2 DEF Positions
  <2>. QED BY <2>1, <2>2, <1>2 DEF StatusOK
<1>7. EliminateOK'
  BY <1>2 DEF EliminateOK
<1>8. StaleOK'
  BY <1>1, <1>2 DEF StaleOK, Stale
<1>. QED BY <1>4, <1>5, <1>6, <1>7, <1>8 DEF IInv

LEMMA StartInv ==
    ASSUME IInv, StartElimination
    PROVE  IInv'
<1>. Length \in Nat \ {0} /\ MaxBlock \in Nat \ {0}
  BY SizesAssumption
<1>. TypeOK /\ ScanOK /\ StatusOK /\ EliminateOK /\ StaleOK
  BY DEF IInv
<1>1. /\ start \in Positions /\ end \in start + 1 .. Length /\ end - start <= MaxBlock
      /\ position \in {end - start - 1, end - start} /\ position \in 0 .. MaxBlock
  BY DEF StartElimination, ScanOK, TypeOK, Positions
<1>2. /\ phase = "scanned" /\ phase' = "eliminate" /\ position' = position - 1
      /\ UNCHANGED <<code, start, end, exits, flagData, pc, right, spoilt>>
  BY DEF StartElimination
<1>3. ASSUME position \in DOMAIN flagData
      PROVE  needed' = flagData[position].needs
  BY <1>3, Zenon DEF StartElimination
<1>4. TypeOK'
  <2>1. needed' \subseteq Flags
    <3>1. CASE position \in DOMAIN flagData
      BY <3>1, <1>3 DEF TypeOK, FlagData
    <3>2. CASE position \notin DOMAIN flagData
      BY <3>2 DEF StartElimination
    <3>. QED BY <3>1, <3>2
  <2>. QED BY <2>1, <1>1, <1>2 DEF TypeOK, Positions
<1>5. ScanOK' /\ StatusOK'
  BY <1>1, <1>2, SizesAssumption DEF ScanOK, StatusOK, Positions
<1>6. EliminateOK'
  <2>1. ASSUME NEW f \in Flags, f \notin needed'
        PROVE  Dead(code, f, start + position, end)
    <3>1. CASE position = end - start
      BY <3>1, <1>1, DeadAtEnd DEF Positions
    <3>2. CASE position = end - start - 1
      <4>1. position \in DOMAIN flagData /\ end - 1 \in start .. end - 1
            /\ end - 1 - start = position /\ start + position = end - 1 /\ (end - 1) + 1 = end
        BY <3>2, <1>1 DEF TypeOK, Positions
      <4>2. flagData[position] = Status(code[end - 1].op)
        BY <4>1, <1>2 DEF StatusOK
      <4>3. f \notin Needs(code[end - 1].op)
        BY <4>1, <4>2, <1>3, <2>1 DEF Status
      <4>4. Dead(code, f, end, end)
        BY <1>1, DeadAtEnd DEF Positions
      <4>5. end - 1 \in Int /\ end \in Int /\ end - 1 < end
        BY <1>1 DEF Positions
      <4>6. Dead(code, f, end - 1, end)
        BY <4>3, <4>4, <4>5, <4>1, DeadBefore
      <4>. QED BY <4>6, <4>1
    <3>. QED BY <3>1, <3>2, <1>1
  <2>2. start + position' + 1 = start + position
    BY <1>1, <1>2 DEF Positions
  <2>4. ASSUME NEW p \in start .. end - 1, p - start > position'
        PROVE  Kept(code, p, end, flagData[p - start].may)
    <3>1. p = end - 1 /\ p + 1 = end /\ end \in Int
      BY <2>4, <1>1, <1>2 DEF Positions
    <3>2. flagData[p - start] = Status(code[p].op)
      BY <1>2 DEF StatusOK
    <3>. QED BY <3>2 DEF Kept
  <2>. QED BY <2>1, <2>2, <2>4, <1>2 DEF EliminateOK
<1>7. StaleOK'
  BY <1>1, <1>2 DEF StaleOK, Stale
<1>. QED BY <1>4, <1>5, <1>6, <1>7 DEF IInv

LEMMA EliminateInv ==
    ASSUME IInv, Eliminate
    PROVE  IInv'
<1>. Length \in Nat \ {0} /\ MaxBlock \in Nat \ {0}
  BY SizesAssumption
<1>. TypeOK /\ ScanOK /\ StatusOK /\ EliminateOK /\ StaleOK
  BY DEF IInv
<1>. DEFINE p == start + position
            status == flagData[position]
<1>1. /\ start \in Positions /\ end \in start + 1 .. Length /\ end - start <= MaxBlock
      /\ position \in 0 .. end - start - 1
      /\ p \in start .. end - 1 /\ p \in Positions /\ p - start = position
  BY DEF Eliminate, ScanOK, StatusOK, TypeOK, Positions
<1>2. /\ phase = "eliminate" /\ phase' = "eliminate" /\ position' = position - 1
      /\ flagData' = [flagData EXCEPT ![position] =
                          [may |-> status.may \cap needed, must |-> {}, needs |-> {}]]
      /\ needed' = (needed \ status.must) \cup status.needs
      /\ UNCHANGED <<code, start, end, exits, pc, right, spoilt>>
  BY DEF Eliminate
<1>3. status = Status(code[p].op) /\ status \in FlagData
  <2>1. position \in 0 .. MaxBlock - 1
    BY <1>1 DEF Positions
  <2>2. \A q \in start .. end - 1 : q - start <= position => flagData[q - start] = Status(code[q].op)
    BY <1>2 DEF StatusOK
  <2>3. flagData[p - start] = Status(code[p].op)
    BY <2>2, <1>1, <2>1
  <2>. QED BY <2>1, <2>3, <1>1 DEF TypeOK
<1>4. TypeOK'
  <2>1. [may |-> status.may \cap needed, must |-> {}, needs |-> {}] \in FlagData
    BY <1>3 DEF FlagData
  <2>2. needed' \subseteq Flags
    BY <1>2, <1>3 DEF FlagData, TypeOK
  <2>3. flagData' \in [0 .. MaxBlock - 1 -> FlagData]
    BY <2>1, <1>2 DEF TypeOK
  <2>. QED BY <2>2, <2>3, <1>1, <1>2 DEF TypeOK, Positions
<1>5. ScanOK' /\ StatusOK'
  BY <1>1, <1>2 DEF ScanOK, StatusOK, TypeOK, Positions
<1>6. EliminateOK'
  <2>1. ASSUME NEW f \in Flags, f \notin needed'
        PROVE  Dead(code, f, p, end)
    <3>1. f \notin Needs(code[p].op) /\ (f \in Must(code[p].op) \/ f \notin needed)
      BY <2>1, <1>2, <1>3 DEF Status
    <3>2. f \in Must(code[p].op) \/ Dead(code, f, p + 1, end)
      BY <3>1, <1>1, <1>2 DEF EliminateOK
    <3>3. p \in Int /\ end \in Int /\ p < end
      BY <1>1 DEF Positions
    <3>. HIDE DEF p
    <3>. QED BY <3>1, <3>2, <3>3, DeadBefore
  <2>2. start + position' + 1 = p
    BY <1>1, <1>2 DEF Positions
  <2>3. ASSUME NEW q \in start .. end - 1, q - start > position'
        PROVE  Kept(code, q, end, flagData'[q - start].may)
    <3>1. CASE q = p
      <4>1. flagData'[q - start].may = status.may \cap needed
        BY <3>1, <1>1, <1>2 DEF TypeOK, Positions
      <4>2. ASSUME NEW f \in Status(code[p].op).may, f \notin status.may \cap needed
            PROVE  Dead(code, f, p + 1, end)
        <5>1. f \in Flags /\ f \notin needed
          BY <4>2, <1>3 DEF FlagData
        <5>. QED BY <5>1, <1>2, <1>1 DEF EliminateOK
      <4>. QED BY <4>1, <4>2, <3>1 DEF Kept
    <3>2. CASE q # p
      <4>1. q - start > position /\ q - start # position /\ q - start \in 0 .. MaxBlock - 1
        BY <3>2, <2>3, <1>1, <1>2 DEF Positions
      <4>2. flagData'[q - start] = flagData[q - start]
        BY <4>1, <1>2 DEF TypeOK
      <4>. QED BY <4>1, <4>2, <1>2 DEF EliminateOK
    <3>. QED BY <3>1, <3>2
  <2>. HIDE DEF p
  <2>. QED BY <2>1, <2>2, <2>3, <1>2 DEF EliminateOK
<1>7. StaleOK'
  BY <1>2 DEF StaleOK, Stale
<1>. QED BY <1>4, <1>5, <1>6, <1>7 DEF IInv

LEMMA RunInv ==
    ASSUME IInv, Run
    PROVE  IInv'
<1>. Length \in Nat \ {0} /\ MaxBlock \in Nat \ {0}
  BY SizesAssumption
<1>. TypeOK /\ ScanOK /\ StatusOK /\ EliminateOK /\ StaleOK
  BY DEF IInv
<1>1. /\ start \in Positions /\ end \in start + 1 .. Length /\ position = -1
      /\ phase = "eliminate" /\ phase' = "run"
      /\ UNCHANGED <<code, start, end, exits, position, flagData, needed, pc, right, spoilt>>
  BY DEF Run, block, ScanOK, TypeOK, Positions
<1>2. TypeOK' /\ ScanOK' /\ StatusOK'
  BY <1>1 DEF TypeOK, ScanOK, StatusOK
<1>3. EliminateOK'
  <2>1. ASSUME NEW p \in start .. end - 1
        PROVE  p - start > position
    BY <1>1 DEF Positions
  <2>. QED BY <2>1, <1>1 DEF EliminateOK
<1>4. StaleOK'
  <2>1. ASSUME NEW f \in Stale
        PROVE  Dead(code, f, start, end)
    <3>1. code \in [Positions -> Instructions] /\ f \in Flags /\ end \in start .. Length
      BY <1>1, ProgramsAssumption DEF TypeOK, Stale, Positions
    <3>2. DeadForGood(code, f, start) /\ \A g \in Gates : ~(start < g /\ g < end)
      BY <1>1 DEF StaleOK, ScanOK
    <3>. QED BY <3>1, <3>2, <1>1, DeadInBlock
  <2>2. pc' = start
    BY <1>1 DEF ScanOK
  <2>. QED BY <2>1, <2>2, <1>1 DEF StaleOK, Stale
<1>. QED BY <1>2, <1>3, <1>4 DEF IInv

-----------------------------------------------------------------------------
\* Execution

\* What is known of an instruction that is executed.
LEMMA AtInstruction ==
    ASSUME IInv, Running
    PROVE  /\ start \in Positions /\ end \in start + 1 .. Length /\ pc \in start .. end - 1
           /\ pc \in Positions /\ Op \in Operations /\ phase = "run"
           /\ \A f \in Stale : Dead(code, f, pc, end)
<1>. Length \in Nat \ {0}
  BY SizesAssumption
<1>1. TypeOK /\ ScanOK /\ StaleOK
  BY DEF IInv
<1>2. /\ start \in Positions /\ end \in start + 1 .. Length /\ pc \in start .. end - 1
      /\ pc \in Positions /\ phase = "run"
  BY <1>1 DEF Running, TypeOK, ScanOK, Positions
<1>3. Op \in Operations
  BY <1>1, <1>2, CodeType DEF Op
<1>. QED BY <1>1, <1>2, <1>3 DEF StaleOK

\* A step to another instruction of the block.
LEMMA StepInv ==
    ASSUME IInv, phase = "run", UNCHANGED block, phase' = "run",
           pc' \in start .. end, right' \subseteq Flags, spoilt' \subseteq Flags,
           \A f \in Flags \ (right' \cup spoilt') : Dead(code, f, pc', end)
    PROVE  IInv'
<1>1. TypeOK /\ ScanOK /\ StatusOK /\ EliminateOK
  BY DEF IInv
<1>. USE DEF block
<1>2. TypeOK' /\ ScanOK' /\ StatusOK' /\ EliminateOK'
  BY <1>1 DEF TypeOK, ScanOK, StatusOK, EliminateOK
<1>3. StaleOK'
  BY DEF StaleOK, Stale
<1>. QED BY <1>2, <1>3 DEF IInv

\* After an exit no flag is stale that is not spoilt.
LEMMA NoneStale ==
    ASSUME IInv, Running, Needs(Op) = Flags
    PROVE  Stale = {}
<1> SUFFICES ASSUME NEW f \in Stale
             PROVE  FALSE
  OBVIOUS
<1>1. pc \in Int /\ end \in Int /\ pc < end /\ Dead(code, f, pc, end)
  BY AtInstruction, SizesAssumption DEF Positions
<1>2. f \notin Needs(code[pc].op)
  BY <1>1, DeadPassed
<1>. QED BY <1>2 DEF Op, Stale

LEMMA ComputeInv ==
    ASSUME IInv, Compute
    PROVE  IInv'
<1>1. /\ Running /\ Op \in Arithmetic /\ pc' = pc + 1
      /\ UNCHANGED block /\ UNCHANGED phase
  BY DEF Compute
<1>2. /\ start \in Positions /\ end \in start + 1 .. Length /\ pc \in start .. end - 1
      /\ pc \in Positions /\ Op \in Operations /\ phase = "run"
      /\ \A f \in Stale : Dead(code, f, pc, end)
  BY <1>1, AtInstruction
<1>3. pc \in Int /\ end \in Int /\ pc < end /\ pc' \in start .. end
  BY <1>1, <1>2, SizesAssumption DEF Positions
<1>4. TypeOK /\ EliminateOK
  BY DEF IInv
<1>. DEFINE flagStatus == flagData[pc - start].may
<1>5. PICK written \in Written(Op) :
         /\ right' = (right \ written) \cup Generated(Op, written, flagStatus)
         /\ spoilt' = (IF Op = "tst" THEN spoilt \cup ({"C", "V"} \ right) ELSE spoilt)
                         \ Generated(Op, written, flagStatus)
  BY DEF Compute
<1>6. /\ written \subseteq Status(Op).may /\ Status(Op).may \subseteq Flags
      /\ Op # "tst" => Must(Op) \subseteq written
      /\ Op = "tst" => Must(Op) \subseteq written \cup {"C", "V"}
  BY <1>2, Tables DEF FlagData
<1>7. /\ written \cap flagStatus \subseteq Generated(Op, written, flagStatus)
      /\ Generated(Op, written, flagStatus) \subseteq Flags
  BY <1>6 DEF Generated, Flags
<1>8. Kept(code, pc, end, flagStatus)
  BY <1>2, <1>4 DEF EliminateOK
<1>. HIDE DEF flagStatus
<1>9. right' \subseteq Flags /\ spoilt' \subseteq Flags
  BY <1>4, <1>5, <1>7 DEF TypeOK, Flags
<1>10. ASSUME NEW f \in Flags \ (right' \cup spoilt')
       PROVE  Dead(code, f, pc + 1, end)
  <2>1. f \notin Generated(Op, written, flagStatus)
    BY <1>5, <1>10
  <2>2. CASE f \in written
    <3>1. f \notin flagStatus /\ f \in Status(Op).may
      BY <2>1, <2>2, <1>6, <1>7
    <3>. QED BY <3>1, <1>8 DEF Kept, Op
  <2>3. CASE f \notin written
    <3>1. f \in Stale /\ (Op = "tst" => f \notin {"C", "V"})
      BY <2>1, <2>3, <1>5, <1>10 DEF Stale
    <3>2. f \notin Must(Op) /\ Dead(code, f, pc, end)
      BY <3>1, <2>3, <1>2, <1>6
    <3>. QED BY <3>2, <1>3, DeadPassed DEF Op
  <2>. QED BY <2>2, <2>3
<1>. QED BY <1>1, <1>2, <1>3, <1>9, <1>10, StepInv

\* An instruction that leaves the flags alone, when the next one is in the block.
LEMMA PassInv ==
    ASSUME IInv, Running, Op \notin Arithmetic, pc' = pc + 1,
           UNCHANGED <<block, phase, right, spoilt>>
    PROVE  IInv'
<1>1. /\ start \in Positions /\ end \in start + 1 .. Length /\ pc \in start .. end - 1
      /\ pc \in Positions /\ Op \in Operations /\ phase = "run"
      /\ \A f \in Stale : Dead(code, f, pc, end)
  BY AtInstruction
<1>2. pc \in Int /\ end \in Int /\ pc < end /\ pc' \in start .. end
  BY <1>1, SizesAssumption DEF Positions
<1>3. Must(Op) = {}
  BY <1>1 DEF Must, Arithmetic
<1>4. ASSUME NEW f \in Flags \ (right' \cup spoilt')
      PROVE  Dead(code, f, pc + 1, end)
  <2>1. Dead(code, f, pc, end) /\ f \notin Must(code[pc].op)
    BY <1>1, <1>3 DEF Stale, Op
  <2>. QED BY <2>1, <1>2, DeadPassed
<1>5. right' \subseteq Flags /\ spoilt' \subseteq Flags
  BY DEF IInv, TypeOK
<1>. QED BY <1>1, <1>2, <1>4, <1>5, StepInv

\* A block that is entered with no stale flag, or with all of them spoilt.
LEMMA EnterInv ==
    ASSUME IInv, NEW p \in Positions, Begin(p), UNCHANGED right,
           spoilt' \subseteq Flags, Stale \subseteq spoilt', spoilt \subseteq spoilt'
    PROVE  IInv'
<1>1. TypeOK /\ right' \subseteq Flags
  BY DEF IInv, TypeOK
<1>2. Flags \ (right' \cup spoilt') = {}
  BY DEF Stale
<1>. QED BY <1>1, <1>2, BeginInv

LEMMA StoreInv ==
    ASSUME IInv, Store
    PROVE  IInv'
<1>1. Running /\ Op = "store" /\ Op \notin Arithmetic
  BY DEF Store, Arithmetic
<1>2. /\ start \in Positions /\ end \in start + 1 .. Length /\ pc \in start .. end - 1
      /\ pc \in Positions /\ Op \in Operations /\ phase = "run"
      /\ \A f \in Stale : Dead(code, f, pc, end)
  BY <1>1, AtInstruction
<1>3. CASE pc' = pc + 1 /\ UNCHANGED <<block, phase, right, spoilt>>
  BY <1>1, <1>3, PassInv
<1>4. CASE /\ Enter(pc + 1) /\ UNCHANGED right
           /\ IF pc + 1 = end \/ Open THEN Spoil(Flags) ELSE UNCHANGED spoilt
  <2>1. PICK p \in Positions : (pc + 1 \in Positions => p = pc + 1) /\ Begin(p)
    BY <1>4, EnterPosition
  <2>2. CASE pc + 1 = end \/ Open
    <3>1. /\ spoilt' \subseteq Flags /\ spoilt \subseteq spoilt' /\ Stale \subseteq spoilt'
      BY <2>2, <1>4 DEF Spoil, Stale, IInv, TypeOK
    <3>. QED BY <3>1, <2>1, <1>4, EnterInv
  <2>3. CASE ~(pc + 1 = end \/ Open)
    <3>1. pc + 1 \in Positions /\ p = pc + 1 /\ end \in p + 1 .. Length
          /\ pc \in Int /\ end \in Int /\ pc < end
      BY <2>1, <2>3, <1>2, SizesAssumption DEF Positions
    <3>2. end \in Gates \/ ExitPoint(code[end - 1].op)
      BY <2>3 DEF Open
    <3>3. Must(Op) = {}
      BY <1>1 DEF Must
    <3>4. ASSUME NEW f \in Flags \ (right' \cup spoilt')
          PROVE  DeadForGood(code, f, p)
      <4>1. Dead(code, f, pc, end) /\ f \notin Must(code[pc].op)
        BY <2>3, <1>4, <1>2, <3>3 DEF Stale, Op
      <4>2. Dead(code, f, pc + 1, end)
        BY <4>1, <3>1, DeadPassed
      <4>. QED BY <4>2, <3>1, <3>2 DEF DeadForGood
    <3>5. TypeOK /\ right' \subseteq Flags /\ spoilt' \subseteq Flags
      BY <2>3, <1>4 DEF IInv, TypeOK
    <3>. QED BY <3>4, <3>5, <2>1, BeginInv
  <2>. QED BY <2>2, <2>3
<1>. QED BY <1>3, <1>4 DEF Store

LEMMA BranchInv ==
    ASSUME IInv, Branch
    PROVE  IInv'
<1>1. Running /\ EmitsExit(pc) /\ UNCHANGED <<right, spoilt>>
  BY DEF Branch
<1>2. Needs(Op) = Flags
  BY <1>1 DEF EmitsExit, Op, Needs
<1>3. Stale = {}
  BY <1>1, <1>2, NoneStale
<1>4. right' \subseteq Flags /\ spoilt' \subseteq Flags
  BY <1>1 DEF IInv, TypeOK
<1>5. CASE Link(pc) \in start .. end - 1
  <2>1. phase = "run" /\ UNCHANGED <<block, phase>> /\ pc' = Link(pc)
    BY <1>5 DEF Branch, Running
  <2>2. start \in Positions /\ end \in start + 1 .. Length
    BY <1>1, AtInstruction
  <2>3. pc' \in start .. end
    BY <2>1, <2>2, <1>5, SizesAssumption DEF Positions
  <2>. QED BY <2>1, <2>3, <1>1, <1>3, <1>4, StepInv DEF Stale
<1>6. CASE Link(pc) \notin start .. end - 1
  <2>1. PICK p \in Positions : Begin(p)
    BY <1>6, EnterPosition DEF Branch
  <2>. QED BY <2>1, <1>1, <1>3, <1>4, EnterInv
<1>. QED BY <1>5, <1>6

LEMMA LeaveInv ==
    ASSUME IInv, Leave
    PROVE  IInv'
<1>1. PICK p \in Positions : Begin(p)
  BY DEF Leave
<1>2. Running /\ UNCHANGED right
      /\ Op \in {"leave", "addpc", "blhigh"}
      /\ Spoil(IF Op = "addpc" THEN Flags ELSE {})
  BY DEF Leave
<1>3. CASE Op = "addpc"
  <2>1. spoilt' \subseteq Flags /\ spoilt \subseteq spoilt' /\ Stale \subseteq spoilt'
    BY <1>2, <1>3 DEF Spoil, Stale, IInv, TypeOK
  <2>. QED BY <2>1, <1>1, <1>2, EnterInv
<1>4. CASE Op # "addpc"
  <2>1. Needs(Op) = Flags
    BY <1>2, <1>4 DEF Needs
  <2>2. Stale = {} /\ spoilt' = spoilt
    BY <2>1, <1>2, <1>4, NoneStale DEF Spoil
  <2>. QED BY <2>2, <1>1, <1>2, EnterInv DEF IInv, TypeOK
<1>. QED BY <1>3, <1>4

LEMMA EndInv ==
    ASSUME IInv, EndOfBlock
    PROVE  IInv'
<1>1. PICK p \in Positions : Begin(p)
  BY EnterPosition DEF EndOfBlock
<1>2. UNCHANGED right /\ Spoil(Flags)
  BY DEF EndOfBlock
<1>3. spoilt' \subseteq Flags /\ spoilt \subseteq spoilt' /\ Stale \subseteq spoilt'
  BY <1>2 DEF Spoil, Stale, IInv, TypeOK
<1>. QED BY <1>1, <1>2, <1>3, EnterInv

LEMMA NextInv ==
    ASSUME IInv, [Next]_vars
    PROVE  IInv'
<1>1. CASE Pass
  BY <1>1, PassInv DEF Pass, Arithmetic
<1>2. CASE NotTaken
  BY <1>2, PassInv DEF NotTaken, Arithmetic
<1>3. CASE UNCHANGED vars
  BY <1>3 DEF vars, IInv, TypeOK, ScanOK, StatusOK, EliminateOK, StaleOK, Stale
<1>. QED
  BY <1>1, <1>2, <1>3, ScanInv, StartInv, EliminateInv, RunInv, ComputeInv, StoreInv,
     BranchInv, LeaveInv, EndInv DEF Next

LEMMA Invariance == Spec => []IInv
<1>1. Init => IInv
  BY InitInv
<1>2. IInv /\ [Next]_vars => IInv'
  BY NextInv
<1>. QED BY <1>1, <1>2, PTL DEF Spec

\* Every variable keeps its type: no entry before or after those of block_data
\* is written, wherever a block ends.
THEOREM ThumbTypes == Spec => []TypeOK
<1>1. IInv => TypeOK
  BY DEF IInv
<1>. QED BY <1>1, Invariance, PTL

\* No code reads a flag that the recompiler did not generate, except the flags
\* spoilt by TST, by ADD pc, at a gate and at the end of a full block: the
\* elimination is right for every program, every jump and every interrupt.
THEOREM NoFlagMissed == Spec => []FlagsRight
<1>1. IInv => FlagsRight
  <2> SUFFICES ASSUME IInv, Running, NEW f \in Read(Op)
               PROVE  f \in right \cup spoilt
    BY DEF FlagsRight
  <2>1. /\ pc \in Int /\ end \in Int /\ pc < end /\ Op \in Operations
        /\ \A g \in Stale : Dead(code, g, pc, end)
    BY AtInstruction, SizesAssumption DEF Positions
  <2>2. f \in Needs(Op) /\ f \in Flags
    BY <2>1, Tables
  <2>3. ASSUME f \in Stale
        PROVE  FALSE
    <3>1. f \notin Needs(code[pc].op)
      BY <2>1, <2>3, DeadPassed
    <3>. QED BY <3>1, <2>2 DEF Op
  <2>. QED BY <2>2, <2>3 DEF Stale
<1>. QED BY <1>1, Invariance, PTL

-----------------------------------------------------------------------------
\* Exits

\* The exits consumed before e, if the scanner's view of the pairs is the
\* translation's, and the target of the exit at p.
Consumes(p) ==
    \/ code[p].op \in {"cond", "b", "swi"}
    \/ code[p].op = "blhigh" /\ PairScanned(p)
Consumed(e) == {q \in start .. e - 1 : Consumes(q)}
Target(p) == IF code[p].op = "swi" THEN Bios ELSE code[p].to
Regular(e) == \A q \in start .. e - 1 : code[q].op # "undefined"

\* Up to the first undefined instruction an exit is recorded for each one that
\* is consumed, in the same order.
ExitsOK ==
    /\ Regular(end) => Len(exits) = Cardinality(Consumed(end))
    /\ \A p \in start .. end - 1 :
          Consumes(p) /\ Regular(p) =>
              /\ 1 + Cardinality(Consumed(p)) \in 1 .. Len(exits)
              /\ exits[1 + Cardinality(Consumed(p))] = Target(p)

\* A high half that starts a block is the whole block: the translation finds
\* itself as the last instruction, and no exit is recorded for it.
HighOK ==
    start < end /\ code[start].op = "blhigh" => phase # "scan" /\ end = start + 1

LinksInv == TypeOK /\ ScanOK /\ ExitsOK /\ HighOK

LEMMA ConsumedFinite ==
    ASSUME NEW e \in Int, start \in Int
    PROVE  /\ IsFiniteSet(Consumed(e))
           /\ Cardinality(Consumed(e)) \in Nat
<1>1. IsFiniteSet(start .. e - 1)
  BY FS_Interval
<1>2. Consumed(e) \subseteq start .. e - 1
  BY DEF Consumed
<1>. QED BY <1>1, <1>2, FS_Subset, FS_CardinalityType

\* One more instruction adds the exit it consumes.
LEMMA ConsumedNext ==
    ASSUME start \in Int, NEW e \in Int, start <= e
    PROVE  Cardinality(Consumed(e + 1)) =
               Cardinality(Consumed(e)) + (IF Consumes(e) THEN 1 ELSE 0)
<1>1. e \notin Consumed(e) /\ IsFiniteSet(Consumed(e))
  BY ConsumedFinite DEF Consumed
<1>2. CASE Consumes(e)
  <2>1. Consumed(e + 1) = Consumed(e) \cup {e}
    BY <1>2 DEF Consumed
  <2>. QED BY <2>1, <1>1, <1>2, FS_AddElement
<1>3. CASE ~Consumes(e)
  <2>1. Consumed(e + 1) = Consumed(e)
    BY <1>3 DEF Consumed
  <2>. QED BY <2>1, <1>1, <1>3, FS_CardinalityType
<1>. QED BY <1>2, <1>3

\* What the scan records for an instruction it knows is what is consumed.
LEMMA RecordedIs ==
    ASSUME NEW p, code[p].op # "undefined"
    PROVE  Recorded(p) = IF Consumes(p) THEN <<Target(p)>> ELSE <<>>
BY DEF Recorded, Consumes, Target

LEMMA ScanLinks ==
    ASSUME LinksInv, ScanInstruction
    PROVE  ExitsOK' /\ HighOK'
<1>. Length \in Nat \ {0}
  BY SizesAssumption
<1>1. /\ phase = "scan" /\ end \in Positions /\ start \in 0 .. end /\ end \in Nat
      /\ exits \in Seq(Nat)
  BY DEF LinksInv, ScanInstruction, ScanOK, TypeOK, Positions
<1>2. /\ end' = end + 1 /\ exits' = exits \o Recorded(end)
      /\ UNCHANGED <<code, start>>
  BY DEF ScanInstruction
<1>3. /\ Recorded(end) \in Seq(Nat)
      /\ Len(Recorded(end)) \in Nat
      /\ Len(exits') = Len(exits) + Len(Recorded(end))
      /\ \A i \in 1 .. Len(exits) : exits'[i] = exits[i]
  BY <1>1, <1>2, RecordedType DEF LinksInv
<1>. DEFINE n == Cardinality(Consumed(end))
<1>4. n \in Nat /\ Len(exits) \in Nat
  BY <1>1, ConsumedFinite
<1>5. ASSUME NEW p \in start .. end
      PROVE  /\ Consumes(p)' = Consumes(p) /\ Target(p)' = Target(p)
             /\ Regular(p)' = Regular(p) /\ Consumed(p)' = Consumed(p)
  <2>1. \A q : Consumes(q)' = Consumes(q)
    BY <1>2 DEF Consumes, PairScanned
  <2>. QED BY <2>1, <1>2 DEF Target, Regular, Consumed
<1>6. /\ Regular(end)' => Regular(end) /\ code[end].op # "undefined"
      /\ Consumed(end)' = Consumed(end + 1)
  <2>1. \A q : Consumes(q)' = Consumes(q)
    BY <1>2 DEF Consumes, PairScanned
  <2>2. Consumed(end)' = Consumed(end + 1)
    BY <2>1, <1>2 DEF Consumed
  <2>. QED BY <2>2, <1>1, <1>2 DEF Regular
<1>7. ASSUME Regular(end)
      PROVE  Len(exits) = n
  BY <1>7 DEF LinksInv, ExitsOK
<1>8. ASSUME Regular(end)'
      PROVE  Len(exits') = Cardinality(Consumed(end)')
  <2>1. Len(exits) = n /\ Recorded(end) = IF Consumes(end) THEN <<Target(end)>> ELSE <<>>
    BY <1>6, <1>7, <1>8, RecordedIs
  <2>2. Cardinality(Consumed(end + 1)) = n + (IF Consumes(end) THEN 1 ELSE 0)
    BY <1>1, ConsumedNext
  <2>3. Len(Recorded(end)) = IF Consumes(end) THEN 1 ELSE 0
    BY <2>1
  <2>. QED BY <2>1, <2>2, <2>3, <1>3, <1>6
<1>9. ASSUME NEW p \in start .. end, Consumes(p), Regular(p)
      PROVE  /\ 1 + Cardinality(Consumed(p)) \in 1 .. Len(exits')
             /\ exits'[1 + Cardinality(Consumed(p))] = Target(p)
  <2>1. CASE p = end
    <3>1. code[end].op # "undefined" /\ Len(exits) = n
      BY <2>1, <1>7, <1>9 DEF Consumes
    <3>2. Recorded(end) = <<Target(end)>>
      BY <3>1, <2>1, <1>9, RecordedIs
    <3>3. Len(exits') = n + 1 /\ exits'[n + 1] = Target(end)
      BY <3>1, <3>2, <1>1, <1>2, <1>3
    <3>. QED BY <3>3, <2>1, <1>4
  <2>2. CASE p # end
    <3>1. p \in start .. end - 1
      BY <2>2, <1>1
    <3>2. /\ 1 + Cardinality(Consumed(p)) \in 1 .. Len(exits)
          /\ exits[1 + Cardinality(Consumed(p))] = Target(p)
      BY <3>1, <1>9 DEF LinksInv, ExitsOK
    <3>. QED BY <3>2, <1>3, <1>4
  <2>. QED BY <2>1, <2>2
<1>10. ExitsOK'
  <2>1. start' .. end' - 1 = start .. end
    BY <1>1, <1>2
  <2>2. ASSUME NEW p \in start .. end, Consumes(p)', Regular(p)'
        PROVE  /\ 1 + Cardinality(Consumed(p)') \in 1 .. Len(exits')
               /\ exits'[1 + Cardinality(Consumed(p)')] = Target(p)'
    BY <2>2, <1>5, <1>9
  <2>. QED BY <2>1, <2>2, <1>8 DEF ExitsOK
<1>11. HighOK'
  <2> SUFFICES ASSUME code[start].op = "blhigh"
               PROVE  start = end /\ phase' # "scan"
    BY <1>1, <1>2 DEF HighOK
  <2>1. start = end
    BY <1>1 DEF LinksInv, HighOK
  <2>2. Consumed(end) = {} /\ Regular(end) /\ ~Consumes(end)
    BY <2>1, <1>1 DEF Consumed, Regular, Consumes, PairScanned
  <2>3. Len(exits) = 0
    BY <2>2, <1>7, FS_EmptySet
  <2>4. exits = <<>> /\ Recorded(end) = <<>>
    BY <2>1, <2>2, <2>3, <1>1, RecordedIs
  <2>5. exits \o Recorded(end) = <<>> /\ Len(exits \o Recorded(end)) = 0
    BY <2>4
  <2>6. ExitPoint(code[end].op) /\ Unconditional(code[end].op)
    BY <2>1 DEF ExitPoint, Unconditional
  <2>7. ~ \E i \in 1 .. Len(exits \o Recorded(end)) - 1 : (exits \o Recorded(end))[i] = end + 1
    BY <2>5
  <2>. QED BY <2>1, <2>6, <2>7, Zenon DEF ScanInstruction
<1>. QED BY <1>10, <1>11

\* A block starts with no exit recorded and none consumed.
LEMMA BeginLinks ==
    ASSUME start \in Int, end = start, exits = <<>>
    PROVE  ExitsOK /\ HighOK
<1>1. Consumed(end) = {}
  BY DEF Consumed
<1>2. Cardinality(Consumed(end)) = 0 /\ Len(exits) = 0
  BY <1>1, FS_EmptySet
<1>. QED BY <1>2 DEF ExitsOK, HighOK

LEMMA NextLinks ==
    ASSUME LinksInv, IInv, [Next]_vars
    PROVE  LinksInv'
<1>1. TypeOK' /\ ScanOK'
  BY NextInv DEF IInv
<1>2. CASE ScanInstruction
  BY <1>1, <1>2, ScanLinks DEF LinksInv
<1>3. CASE UNCHANGED <<code, start, end, exits>> /\ (phase' = "scan" => phase = "scan")
  <2>1. \A q : Consumes(q)' = Consumes(q) /\ Target(q)' = Target(q)
    BY <1>3 DEF Consumes, PairScanned, Target
  <2>2. \A q : Regular(q)' = Regular(q) /\ Consumed(q)' = Consumed(q)
    BY <2>1, <1>3 DEF Regular, Consumed
  <2>3. ExitsOK' /\ HighOK'
    BY <2>1, <2>2, <1>3 DEF LinksInv, ExitsOK, HighOK
  <2>. QED BY <2>3, <1>1 DEF LinksInv
<1>4. CASE \E p \in Positions : Begin(p)
  <2>1. start' \in Int /\ end' = start' /\ exits' = <<>>
    BY <1>4, SizesAssumption DEF Begin, Positions
  <2>2. Consumed(end)' = {} /\ ~(start' < end')
    BY <2>1 DEF Consumed
  <2>3. Cardinality(Consumed(end)') = 0 /\ Len(exits') = 0
    BY <2>1, <2>2, FS_EmptySet
  <2>4. ExitsOK' /\ HighOK'
    BY <2>1, <2>2, <2>3 DEF ExitsOK, HighOK
  <2>. QED BY <2>4, <1>1 DEF LinksInv
<1>. QED
  BY <1>2, <1>3, <1>4, EnterPosition
     DEF Next, vars, block, StartElimination, Eliminate, Run, Compute, Pass, Store, Branch,
         NotTaken, Leave, EndOfBlock

\* In a block that runs, the pairs are seen as the scan saw them.
LEMMA PairsAgree ==
    ASSUME LinksInv, phase = "run", NEW p \in start .. end - 1
    PROVE  EmitsExit(p) = Consumes(p)
<1>1. start \in Int /\ end \in Int
  BY SizesAssumption DEF LinksInv, TypeOK, Positions
<1>2. CASE p > start
  BY <1>2 DEF EmitsExit, Consumes, PairTranslated, PairScanned
<1>3. CASE p = start
  <2>1. code[p].op = "blhigh" => end - 1 = start
    BY <1>1, <1>3 DEF LinksInv, HighOK
  <2>2. code[p].op = "blhigh" => ~PairTranslated(p) /\ ~PairScanned(p)
    BY <1>1, <1>3, <2>1 DEF PairTranslated, PairScanned
  <2>. QED BY <2>2 DEF EmitsExit, Consumes
<1>. QED BY <1>1, <1>2, <1>3

\* Every direct branch of a block is linked to its own target, whatever
\* exits the block has, in its middle and at its end, as long as no undefined
\* instruction precedes it: the lists of the scan and of the translation agree.
THEOREM BranchesLinked == Spec => []LinksRight
<1>1. Init => LinksInv
  <2> SUFFICES ASSUME Init
               PROVE  LinksInv
    OBVIOUS
  <2>1. start \in Int /\ end = start /\ exits = <<>>
    BY SizesAssumption DEF Init, Positions
  <2>. QED BY <2>1, BeginLinks, InitInv DEF LinksInv, IInv
<1>2. LinksInv /\ IInv /\ [Next]_vars => LinksInv'
  BY NextLinks
<1>3. LinksInv => LinksRight
  <2> SUFFICES ASSUME LinksInv, phase = "run", NEW p \in start .. end - 1, EmitsExit(p), Regular(p)
               PROVE  Link(p) = Target(p)
    BY DEF LinksRight, Regular, Target
  <2>1. \A q \in start .. p - 1 : q \in start .. end - 1
    BY SizesAssumption DEF LinksInv, TypeOK, Positions
  <2>2. {q \in start .. p - 1 : EmitsExit(q)} = Consumed(p)
    BY <2>1, PairsAgree DEF Consumed
  <2>3. Consumes(p)
    BY PairsAgree
  <2>. QED BY <2>2, <2>3 DEF Link, LinksInv, ExitsOK
<1>. QED BY <1>1, <1>2, <1>3, Invariance, PTL DEF Spec
================================================================================
