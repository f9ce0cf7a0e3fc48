----------------------- MODULE TranslationCacheProofs -----------------------
(***************************************************************************)
(* Proofs about the translation cache: for every memory, every program and *)
(* every size of the cache, its tables stay in type, the blocks in it are  *)
(* translations of what the memory holds and lie apart, tags and links     *)
(* lead to the blocks they name, no address is translated twice, so that   *)
(* nested translations end, a lookup flushes the cache twice only for code *)
(* that cannot fit, and every other step of it leaves less to do.          *)
(***************************************************************************)
EXTENDS TranslationCache, FiniteSetTheorems, SequenceTheorems, WellFoundedInduction, TLAPS

-----------------------------------------------------------------------------
(***************************************************************************)
(* The inductive invariant.                                                *)
(***************************************************************************)
\* The code runs while nothing is translated.  Every block has its tag.
CallsNest ==
    /\ Idle => stack = <<>>
    /\ tagTop <= translationPtr + FirstTag
    /\ \A p \in Live : p < translationPtr

\* A translation links branches of its own block, which is in the cache.
FramesCurrent ==
    \A i \in DOMAIN stack :
        /\ stack[i].block \in Live
        /\ \A a \in stack[i].exits :
              /\ a \in DOMAIN cache[stack[i].block].source
              /\ cache[stack[i].block].source[a] = memory[a]
              /\ memory[a].target \in Addresses

\* The mirror is not empty where translated code is.
Guarded ==
    \A p \in Live : \A a \in DOMAIN cache[p].source : mirror[a] # 0

\* A tag that no failed translation has left leads to its block, and a flush
\* clears it.
TagsKept ==
    \A a \in Addresses \ aborted :
        IsTag(mirror[a]) =>
            /\ mirror[a] < tagTop
            /\ BeginsAt(blockPtrs[mirror[a]], a)
            /\ codeMin # Unset /\ codeMin <= a
            /\ codeMax # Unset /\ a < codeMax

\* A tag that was left is met by a translation only in an empty cache.
AbortedApart ==
    /\ \A a \in aborted : IsTag(mirror[a])
    /\ stack = <<>> /\ ~Idle /\ pending \in aborted => Live = {}

\* A branch that is not linked is one that some translation has still to link.
LinksAwaited ==
    \A p \in Live : \A a \in DOMAIN cache[p].links :
        cache[p].links[a] = Unset =>
            \E i \in DOMAIN stack : stack[i].block = p /\ a \in stack[i].exits

LinksRight ==
    \A p \in Live : \A a \in DOMAIN cache[p].links :
        \/ cache[p].links[a] = Unset
        \/ cache[p].source[a].target \in aborted
        \/ BeginsAt(cache[p].links[a], cache[p].source[a].target)

CacheInv ==
    /\ TypeOK /\ CallsNest /\ FramesCurrent /\ Guarded /\ BlocksCurrent
    /\ TagsKept /\ AbortedApart /\ LinksAwaited /\ LinksRight
-----------------------------------------------------------------------------

\* A set of natural numbers has a smallest member.
LEMMA SmallestMember ==
    ASSUME NEW T, T \subseteq Nat, T # {}
    PROVE  \E x \in T : \A y \in T : x <= y
<1> DEFINE R == OpToRel(<, Nat)
<1>1. IsWellFoundedOn(R, Nat)
  BY NatLessThanWellFounded
<1>. HIDE DEF R
<1>2. \E x \in T : \A y \in T : ~(<<y, x>> \in R)
  BY <1>1, WFMin
<1>3. \A x, y \in Nat : y < x => <<y, x>> \in R
  BY DEF R, OpToRel
<1>4. PICK x \in T : \A y \in T : ~(<<y, x>> \in R)
  BY <1>2
<1>5. \A y \in T : x <= y
  <2> SUFFICES ASSUME NEW y \in T PROVE x <= y
    OBVIOUS
  <2>1. x \in Nat /\ y \in Nat
    OBVIOUS
  <2>2. ~(y < x)
    BY <1>3, <1>4, <2>1
  <2> QED
    BY <2>1, <2>2
<1> QED
  BY <1>5

\* 0 is not a tag.
LEMMA FirstTagIsNat == FirstTag \in Nat \ {0}
  BY ByteAssumption DEF FirstTag

\* scan_block ends: the last address ends every block.
LEMMA BlockEndLemma ==
    ASSUME NEW first \in Addresses
    PROVE  BlockEnd(first) \in first + 1 .. Last + 1
<1> DEFINE ends == {end \in first + 1 .. Last + 1 : EndsBlock(first, end - 1)}
<1>1. Last + 1 \in ends
  BY SizesAssumption DEF EndsBlock, Addresses
<1>2. ends \subseteq Nat /\ ends # {}
  BY <1>1, SizesAssumption DEF Addresses
<1>. HIDE DEF ends
<1>3. PICK x \in ends : \A y \in ends : x <= y
  BY <1>2, SmallestMember
<1>. USE DEF ends
<1>4. \A a \in first .. x - 2 : ~EndsBlock(first, a)
  <2> SUFFICES ASSUME NEW a \in first .. x - 2, EndsBlock(first, a)
               PROVE  FALSE
    OBVIOUS
  <2>1. a + 1 \in ends /\ a + 1 < x
    BY SizesAssumption DEF Addresses
  <2> QED
    BY <1>3, <2>1, SizesAssumption DEF Addresses
<1> QED
  BY <1>3, <1>4 DEF BlockEnd

\* A branch that leaves a block is in the block and leads into the memory.
LEMMA ExitTargets ==
    ASSUME TypeOK, NEW first \in Addresses, NEW a \in ExternalExits(first)
    PROVE  /\ a \in first .. BlockEnd(first) - 1
           /\ a \in Addresses
           /\ memory[a].target \in Addresses
<1>1. BlockEnd(first) \in first + 1 .. Last + 1
  BY BlockEndLemma
<1>2. /\ a \in first .. BlockEnd(first) - 1
      /\ memory[a].kind \in {"branch", "branch_if"}
  BY DEF ExternalExits, Branches
<1>3. a \in Addresses
  BY <1>1, <1>2, SizesAssumption DEF Addresses
<1>4. memory[a] \in Instruction
  BY <1>3 DEF TypeOK
<1>5. memory[a].target \in Targets
  BY <1>2, <1>4 DEF Instruction
<1> QED
  BY <1>2, <1>3, <1>5, CodeAssumption

\* A translation that fits keeps the tables in type.
LEMMA TranslateTypes ==
    ASSUME TypeOK, CallsNest, NEW first \in Addresses, TranslateBlock(first)
    PROVE  /\ TypeOK'
           /\ tagTop' <= translationPtr' + FirstTag
           /\ translationPtr < translationPtr'
<1> DEFINE end == BlockEnd(first)
<1>1. end \in first + 1 .. Last + 1 /\ end \in Nat /\ first \in Nat
  BY BlockEndLemma, SizesAssumption DEF Addresses
<1>2. /\ translationPtr \in 0 .. Capacity
      /\ FirstTag \in Nat \ {0} /\ tagTop \in Nat \ {0}
      /\ FirstTag <= tagTop /\ tagTop <= translationPtr + FirstTag
      /\ translationPtr + (end - first) <= Capacity
  BY SizesAssumption, FirstTagIsNat DEF TypeOK, CallsNest, TranslateBlock, Fits
<1>3. tagTop \in Tags
  BY <1>2, SizesAssumption DEF Tags
<1>. HIDE DEF end
<1>4. /\ translationPtr' = translationPtr + (end - first)
      /\ tagTop' = tagTop + 1
  BY DEF TranslateBlock, NextTag, end
<1>5. /\ translationPtr' \in 0 .. Capacity
      /\ tagTop' \in FirstTag .. FirstTag + Capacity + 1
      /\ tagTop' <= translationPtr' + FirstTag
      /\ translationPtr < translationPtr'
  BY <1>1, <1>2, <1>4, SizesAssumption
<1>6. mirror' \in [Addresses -> Tags \cup {0, Mark}]
  BY <1>3 DEF TypeOK, TranslateBlock, TaggedMirror
<1>7. blockPtrs' \in [Tags -> 0 .. Capacity]
  BY <1>2, <1>3 DEF TypeOK, TranslateBlock
<1>8. codeMin' \in Addresses \cup {Unset}
  BY DEF TypeOK, TranslateBlock, LowerMin
<1>9. codeMax' \in 1 .. Last + 1 \cup {Unset}
  BY <1>1, SizesAssumption DEF TypeOK, TranslateBlock, RaiseMax, end
<1>10. IsBlock(Translation(first))
  <2>1. first .. end - 1 \subseteq Addresses
    BY <1>1, SizesAssumption DEF Addresses
  <2>2. [a \in first .. end - 1 |-> memory[a]] \in [first .. end - 1 -> Instruction]
    BY <2>1 DEF TypeOK
  <2>3. [a \in ExternalExits(first) |-> Unset] \in
            [ExternalExits(first) -> 0 .. Capacity \cup {Unset}]
    OBVIOUS
  <2> QED
    BY <2>1, <2>2, <2>3 DEF IsBlock, Translation, end
<1>11. /\ DOMAIN cache' \subseteq 0 .. Capacity
       /\ \A p \in DOMAIN cache' : IsBlock(cache'[p])
  BY <1>2, <1>10 DEF TypeOK, TranslateBlock
<1>12. stack' \in Seq(Frame)
  <2>1. [block |-> translationPtr, exits |-> ExternalExits(first)] \in Frame
    BY <1>2, ExitTargets DEF Frame
  <2>2. stack \in Seq(Frame)
    BY DEF TypeOK
  <2>3. stack' = <<[block |-> translationPtr, exits |-> ExternalExits(first)]>> \o stack
    BY DEF TranslateBlock
  <2> QED
    BY <2>1, <2>2, <2>3
<1>13. /\ memory' \in [Addresses -> Instruction]
       /\ pending' \in Addresses \cup {Unset}
       /\ flushCount' \in Nat
       /\ unchecked' \subseteq Addresses
       /\ aborted' \subseteq Addresses
  BY DEF TypeOK, TranslateBlock
<1>14. TypeOK'
  BY <1>5, <1>6, <1>7, <1>8, <1>9, <1>11, <1>12, <1>13 DEF TypeOK, IsBlock
<1> QED
  BY <1>5, <1>14

\* A translation that begins is put on the stack.
LEMMA Pushed ==
    ASSUME NEW S, NEW s \in Seq(S), NEW f, NEW t, t = <<f>> \o s
    PROVE  /\ t # <<>> /\ 1 \in DOMAIN t
           /\ t[1] = f
           /\ \A i \in DOMAIN s : i + 1 \in DOMAIN t /\ t[i + 1] = s[i]
           /\ \A i \in DOMAIN t : i = 1 \/ (i - 1 \in DOMAIN s /\ t[i] = s[i - 1])
<1>1. s = [i \in 1 .. Len(s) |-> s[i]] /\ Len(s) \in Nat /\ DOMAIN s = 1 .. Len(s)
  OBVIOUS
<1>2. t = [i \in 1 .. Len(s) + 1 |-> IF i = 1 THEN f ELSE s[i - 1]]
  BY <1>1, SMTT(30)
<1>3. DOMAIN t = 1 .. Len(s) + 1 /\ 1 \in DOMAIN t
  BY <1>1, <1>2
<1>4. t # <<>>
  <2>1. DOMAIN <<>> = {}
    OBVIOUS
  <2> QED
    BY <1>3, <2>1
<1> QED
  BY <1>1, <1>2, <1>3, <1>4

\* What a translation that fits does to the cache, the mirror and the stack.
LEMMA TranslateChanges ==
    ASSUME CacheInv, NEW first \in Addresses, TranslateBlock(first)
    PROVE  /\ Live' = Live \cup {translationPtr} /\ translationPtr \notin Live
           /\ cache'[translationPtr] = Translation(first)
           /\ \A p \in Live : cache'[p] = cache[p]
           /\ \A a \in Addresses : mirror[a] # 0 => mirror'[a] # 0
           /\ \A a \in first .. BlockEnd(first) - 1 : mirror'[a] # 0
           /\ \A a \in Addresses : IsTag(mirror'[a]) =>
                 \/ a = first /\ mirror'[a] = tagTop
                 \/ a # first /\ mirror'[a] = mirror[a]
           /\ IsTag(mirror'[first])
           /\ stack' # <<>> /\ 1 \in DOMAIN stack'
           /\ stack'[1] = [block |-> translationPtr, exits |-> ExternalExits(first)]
           /\ \A i \in DOMAIN stack : i + 1 \in DOMAIN stack' /\ stack'[i + 1] = stack[i]
           /\ \A i \in DOMAIN stack' : i = 1 \/ (i - 1 \in DOMAIN stack /\ stack'[i] = stack[i - 1])
<1>1. /\ Live' = Live \cup {translationPtr}
      /\ cache'[translationPtr] = Translation(first)
      /\ \A p \in Live : p # translationPtr => cache'[p] = cache[p]
  BY DEF TranslateBlock, Live
<1>2. translationPtr \notin Live
  BY SizesAssumption DEF CacheInv, CallsNest, TypeOK
<1>3. first .. BlockEnd(first) - 1 \subseteq Addresses
  BY BlockEndLemma, SizesAssumption DEF Addresses
<1>4. tagTop \in Nat /\ tagTop # 0 /\ tagTop # Mark /\ Mark # 0
  BY SizesAssumption, NamesAssumption, FirstTagIsNat DEF CacheInv, TypeOK
<1>5. /\ \A a \in Addresses : mirror[a] # 0 => mirror'[a] # 0
      /\ \A a \in first .. BlockEnd(first) - 1 : mirror'[a] # 0
      /\ \A a \in Addresses : IsTag(mirror'[a]) =>
            \/ a = first /\ mirror'[a] = tagTop
            \/ a # first /\ mirror'[a] = mirror[a]
      /\ IsTag(mirror'[first])
  BY <1>3, <1>4 DEF TranslateBlock, TaggedMirror, IsTag
<1>6. stack \in Seq(Frame)
  BY DEF CacheInv, TypeOK
<1>7. /\ stack' # <<>> /\ 1 \in DOMAIN stack'
      /\ stack'[1] = [block |-> translationPtr, exits |-> ExternalExits(first)]
      /\ \A i \in DOMAIN stack : i + 1 \in DOMAIN stack' /\ stack'[i + 1] = stack[i]
      /\ \A i \in DOMAIN stack' : i = 1 \/ (i - 1 \in DOMAIN stack /\ stack'[i] = stack[i - 1])
  <2>1. stack' = <<[block |-> translationPtr, exits |-> ExternalExits(first)]>> \o stack
    BY DEF TranslateBlock
  <2> QED
    BY <1>6, <2>1, Pushed
<1> QED
  BY <1>1, <1>2, <1>5, <1>7

\* A translation that fits keeps the invariant.
LEMMA TranslateKeeps ==
    ASSUME CacheInv, ~Idle, NEW first \in Addresses, TranslateBlock(first),
           first \in aborted => Live = {}
    PROVE  CacheInv'
<1>. DEFINE here == translationPtr
            new == Translation(first)
<1>1. /\ TypeOK'
      /\ tagTop' <= translationPtr' + FirstTag
      /\ translationPtr < translationPtr'
  BY TranslateTypes DEF CacheInv
<1>2. /\ Live' = Live \cup {here} /\ here \notin Live
      /\ cache'[here] = new
      /\ \A p \in Live : cache'[p] = cache[p]
  BY TranslateChanges
<1>3. /\ new.first = first
      /\ new.source = [a \in first .. BlockEnd(first) - 1 |-> memory[a]]
      /\ new.links = [a \in ExternalExits(first) |-> Unset]
  BY DEF Translation
<1>4. /\ memory' = memory /\ pending' = pending /\ unchecked' = unchecked
      /\ aborted' = aborted \ {first}
      /\ blockPtrs' = [blockPtrs EXCEPT ![tagTop] = here]
      /\ tagTop' = tagTop + 1
      /\ codeMin' = LowerMin(first) /\ codeMax' = RaiseMax(BlockEnd(first))
  BY DEF TranslateBlock, NextTag
<1>. HIDE DEF new
<1>5. CallsNest'
  <2>1. ~Idle'
    BY <1>4 DEF Idle
  <2>2. \A p \in Live' : p < translationPtr'
    BY <1>1, <1>2, SizesAssumption DEF CacheInv, CallsNest, TypeOK, Live
  <2> QED
    BY <1>1, <2>1, <2>2 DEF CallsNest
<1>6. FramesCurrent'
  <2> SUFFICES ASSUME NEW i \in DOMAIN stack'
      PROVE /\ stack'[i].block \in Live'
            /\ \A a \in stack'[i].exits :
                  /\ a \in DOMAIN cache'[stack'[i].block].source
                  /\ cache'[stack'[i].block].source[a] = memory'[a]
                  /\ memory'[a].target \in Addresses
    BY DEF FramesCurrent
  <2>1. CASE i = 1
    <3>1. stack'[i].block = here /\ stack'[i].exits = ExternalExits(first)
      BY <2>1, TranslateChanges
    <3>2. \A a \in ExternalExits(first) :
             /\ a \in first .. BlockEnd(first) - 1
             /\ memory[a].target \in Addresses
      BY ExitTargets DEF CacheInv
    <3> QED
      BY <1>2, <1>3, <1>4, <3>1, <3>2
  <2>2. CASE i # 1
    <3>1. i - 1 \in DOMAIN stack /\ stack'[i] = stack[i - 1]
      BY <2>2, TranslateChanges
    <3> QED
      BY <1>2, <1>4, <3>1 DEF CacheInv, FramesCurrent
  <2> QED
    BY <2>1, <2>2
<1>7. Guarded'
  <2> SUFFICES ASSUME NEW p \in Live', NEW a \in DOMAIN cache'[p].source
               PROVE  mirror'[a] # 0
    BY DEF Guarded
  <2>1. CASE p = here
    <3>1. DOMAIN new.source = first .. BlockEnd(first) - 1
      BY <1>3
    <3>. HIDE DEF here, new
    <3> QED
      BY <1>2, <2>1, <3>1, TranslateChanges
  <2>2. CASE p # here
    <3>1. p \in Live /\ a \in DOMAIN cache[p].source
      BY <1>2, <2>2
    <3>2. mirror[a] # 0 /\ a \in Addresses
      BY <3>1 DEF CacheInv, Guarded, TypeOK, IsBlock, Live
    <3> QED
      BY <3>2, TranslateChanges
  <2> QED
    BY <2>1, <2>2
<1>8. BlocksCurrent'
  <2> SUFFICES ASSUME NEW p \in Live', NEW a \in DOMAIN cache'[p].source
      PROVE cache'[p].source[a] = memory'[a] \/ a \in unchecked'
    BY DEF BlocksCurrent
  <2>1. CASE p = here
    BY <1>2, <1>3, <1>4, <2>1
  <2>2. CASE p # here
    BY <1>2, <1>4, <2>2 DEF CacheInv, BlocksCurrent
  <2> QED
    BY <2>1, <2>2
<1>9. TagsKept'
  <2> SUFFICES ASSUME NEW a \in Addresses \ aborted', IsTag(mirror'[a])
      PROVE /\ mirror'[a] < tagTop'
            /\ BeginsAt(blockPtrs[mirror[a]], a)'
            /\ codeMin' # Unset /\ codeMin' <= a
            /\ codeMax' # Unset /\ a < codeMax'
    BY DEF TagsKept
  <2>1. BlockEnd(first) \in first + 1 .. Last + 1 /\ first \in Nat /\ a \in Nat
    BY BlockEndLemma, SizesAssumption DEF Addresses
  <2>2. /\ tagTop \in Nat /\ blockPtrs \in [Tags -> 0 .. Capacity] /\ tagTop \in Tags
        /\ codeMin \in Addresses \cup {Unset}
        /\ codeMax \in 1 .. Last + 1 \cup {Unset}
        /\ codeMin = Unset \/ codeMin \in Nat
        /\ codeMax = Unset \/ codeMax \in Nat
    BY SizesAssumption, FirstTagIsNat
       DEF CacheInv, TypeOK, Tags, CallsNest, TranslateBlock, Fits, Addresses
  <2>3. CASE a = first
    <3>1. mirror'[a] = tagTop
      BY <2>3, TranslateChanges
    <3>2. blockPtrs'[mirror'[a]] = here
      BY <1>4, <2>2, <3>1
    <3>3. BeginsAt(blockPtrs[mirror[a]], a)'
      BY <1>2, <1>3, <2>3, <3>2 DEF BeginsAt
    <3>4. /\ codeMin' # Unset /\ codeMin' <= a
          /\ codeMax' # Unset /\ a < codeMax'
      BY <1>4, <2>1, <2>2, <2>3, NamesAssumption DEF LowerMin, RaiseMax
    <3> QED
      BY <1>4, <2>2, <3>1, <3>3, <3>4
  <2>4. CASE a # first
    <3>1. mirror'[a] = mirror[a] /\ a \notin aborted
      BY <1>4, <2>4, TranslateChanges
    <3>2. /\ mirror[a] < tagTop
          /\ BeginsAt(blockPtrs[mirror[a]], a)
          /\ codeMin # Unset /\ codeMin <= a
          /\ codeMax # Unset /\ a < codeMax
      BY <3>1 DEF CacheInv, TagsKept
    <3>3. mirror[a] \in Tags /\ mirror[a] \in Nat
      BY <3>1, SizesAssumption, FirstTagIsNat DEF CacheInv, TypeOK, IsTag, Tags
    <3>4. blockPtrs'[mirror'[a]] = blockPtrs[mirror[a]]
      BY <1>4, <2>2, <3>1, <3>2, <3>3
    <3>5. BeginsAt(blockPtrs[mirror[a]], a)'
      BY <1>2, <3>2, <3>4 DEF BeginsAt
    <3>6. /\ codeMin' # Unset /\ codeMin' <= a
          /\ codeMax' # Unset /\ a < codeMax'
      BY <1>4, <2>1, <2>2, <3>2, NamesAssumption DEF LowerMin, RaiseMax
    <3> QED
      BY <1>4, <2>2, <3>1, <3>2, <3>3, <3>5, <3>6
  <2> QED
    BY <2>3, <2>4
<1>10. AbortedApart'
  <2>1. \A a \in aborted' : IsTag(mirror'[a])
    <3> SUFFICES ASSUME NEW a \in aborted' PROVE IsTag(mirror'[a])
      OBVIOUS
    <3>1. a \in aborted /\ a # first /\ a \in Addresses /\ IsTag(mirror[a])
      BY <1>4 DEF CacheInv, AbortedApart, TypeOK
    <3> QED
      BY <3>1 DEF TranslateBlock, TaggedMirror, IsTag
  <2>2. stack' # <<>>
    BY TranslateChanges
  <2> QED
    BY <2>1, <2>2 DEF AbortedApart
<1>11. LinksAwaited'
  <2> SUFFICES ASSUME NEW p \in Live', NEW a \in DOMAIN cache'[p].links,
                      cache'[p].links[a] = Unset
      PROVE \E i \in DOMAIN stack' : stack'[i].block = p /\ a \in stack'[i].exits
    BY DEF LinksAwaited
  <2>1. CASE p = here
    <3>1. 1 \in DOMAIN stack'
      BY TranslateChanges
    <3> QED
      BY <1>2, <1>3, <2>1, <3>1, TranslateChanges
  <2>2. CASE p # here
    <3>1. PICK i \in DOMAIN stack : stack[i].block = p /\ a \in stack[i].exits
      BY <1>2, <2>2 DEF CacheInv, LinksAwaited
    <3> QED
      BY <3>1, TranslateChanges
  <2> QED
    BY <2>1, <2>2
<1>12. LinksRight'
  <2> SUFFICES ASSUME NEW p \in Live', NEW a \in DOMAIN cache'[p].links
      PROVE \/ cache'[p].links[a] = Unset
            \/ cache'[p].source[a].target \in aborted'
            \/ BeginsAt(cache[p].links[a], cache[p].source[a].target)'
    BY DEF LinksRight
  <2>1. CASE p = here
    BY <1>2, <1>3, <2>1
  <2>2. CASE p # here
    <3>1. p \in Live /\ cache'[p] = cache[p]
      BY <1>2, <2>2
    <3>2. aborted' = aborted
      BY <1>4, <3>1
    <3> QED
      BY <1>2, <3>1, <3>2 DEF CacheInv, LinksRight, BeginsAt
  <2> QED
    BY <2>1, <2>2
<1> QED
  BY <1>1, <1>5, <1>6, <1>7, <1>8, <1>9, <1>10, <1>11, <1>12 DEF CacheInv

\* A flush that clears every tag but those it records keeps the invariant.
LEMMA FlushKeeps ==
    ASSUME TypeOK,
           NEW marks \in [Addresses -> Tags \cup {0, Mark}], NEW min,
           NEW left \in SUBSET Addresses,
           FlushRam(marks, min), stack' = <<>>, aborted' = TagsLeft(left),
           \A a \in Addresses \ left : IsTag(marks[a]) => a \in Swept(min),
           memory' \in [Addresses -> Instruction],
           blockPtrs' \in [Tags -> 0 .. Capacity],
           pending' \in Addresses \cup {Unset},
           flushCount' \in Nat
    PROVE  CacheInv'
<1>1. /\ mirror' = [a \in Addresses |-> IF a \in Swept(min) THEN 0 ELSE marks[a]]
      /\ tagTop' = FirstTag /\ translationPtr' = 0 /\ cache' = <<>>
      /\ codeMin' = Unset /\ codeMax' = Unset /\ unchecked' = {}
  BY DEF FlushRam, EmptyCache, TagsStartOver, Rewound
<1>2. DOMAIN cache' = {} /\ Live' = {}
  BY <1>1 DEF Live
<1>3. DOMAIN stack' = {} /\ stack' \in Seq(Frame)
  OBVIOUS
<1>4. TypeOK'
  <2>1. mirror' \in [Addresses -> Tags \cup {0, Mark}]
    BY <1>1
  <2>2. aborted' \subseteq Addresses
    BY DEF TagsLeft
  <2>3. tagTop' \in FirstTag .. FirstTag + Capacity + 1 /\ translationPtr' \in 0 .. Capacity
    BY <1>1, SizesAssumption, FirstTagIsNat
  <2> QED
    BY <1>1, <1>2, <1>3, <2>1, <2>2, <2>3 DEF TypeOK
<1>5. CallsNest' /\ FramesCurrent' /\ Guarded' /\ BlocksCurrent'
  <2>1. CallsNest'
    <3>1. tagTop' <= translationPtr' + FirstTag
      BY <1>1, FirstTagIsNat
    <3> QED
      BY <1>2, <3>1 DEF CallsNest
  <2> QED
    BY <1>2, <1>3, <2>1 DEF FramesCurrent, Guarded, BlocksCurrent
<1>6. TagsKept'
  <2> SUFFICES ASSUME NEW a \in Addresses \ aborted', IsTag(mirror'[a])
               PROVE  FALSE
    BY DEF TagsKept
  <2>1. mirror'[a] = marks[a] /\ a \notin Swept(min)
    BY <1>1 DEF IsTag
  <2>2. a \notin left
    BY DEF TagsLeft
  <2> QED
    BY <2>1, <2>2
<1>7. AbortedApart'
  BY <1>2 DEF AbortedApart, TagsLeft
<1>8. LinksAwaited' /\ LinksRight'
  BY <1>2 DEF LinksAwaited, LinksRight
<1> QED
  BY <1>4, <1>5, <1>6, <1>7, <1>8 DEF CacheInv

\* So does a translation that does not fit: only the tag it has just written can lie
\* outside of what the flush clears.
LEMMA OverflowKeeps ==
    ASSUME CacheInv, ~Idle, NEW first \in Addresses, Overflow(first)
    PROVE  CacheInv'
<1>. DEFINE marks == TaggedMirror(first)
            min == LowerMin(first)
            left == aborted \cup {first}
<1>1. tagTop \in Tags /\ tagTop \in Nat
  BY SizesAssumption, FirstTagIsNat DEF CacheInv, TypeOK, CallsNest, Tags
<1>2. marks \in [Addresses -> Tags \cup {0, Mark}]
  BY <1>1 DEF TaggedMirror, CacheInv, TypeOK
<1>3. left \subseteq Addresses
  BY DEF CacheInv, TypeOK
<1>4. \A a \in Addresses \ left : IsTag(marks[a]) => a \in Swept(min)
  <2> SUFFICES ASSUME NEW a \in Addresses \ left, IsTag(marks[a])
               PROVE  a \in Swept(min)
    OBVIOUS
  <2>1. IsTag(mirror[a]) /\ a \notin aborted
    BY DEF TaggedMirror, IsTag
  <2>2. /\ codeMin # Unset /\ codeMin <= a
        /\ codeMax # Unset /\ a < codeMax
    BY <2>1 DEF CacheInv, TagsKept
  <2>3. codeMin \in Nat /\ first \in Nat /\ a \in Nat
    BY <2>2, SizesAssumption DEF CacheInv, TypeOK, Addresses
  <2>4. min # Unset /\ min <= a
    BY <2>2, <2>3, NamesAssumption DEF LowerMin
  <2> QED
    BY <2>2, <2>4 DEF Swept
<1>5. /\ FlushRam(marks, min) /\ stack' = <<>> /\ aborted' = TagsLeft(left)
      /\ memory' = memory /\ pending' = pending /\ flushCount' = flushCount + 1
      /\ blockPtrs' = [blockPtrs EXCEPT ![tagTop] = translationPtr]
  BY DEF Overflow
<1>6. /\ memory' \in [Addresses -> Instruction]
      /\ blockPtrs' \in [Tags -> 0 .. Capacity]
      /\ pending' \in Addresses \cup {Unset}
      /\ flushCount' \in Nat
  BY <1>1, <1>5 DEF CacheInv, TypeOK
<1>7. TypeOK
  BY DEF CacheInv
<1>. HIDE DEF marks, min, left
<1> QED
  BY <1>2, <1>3, <1>4, <1>5, <1>6, <1>7, FlushKeeps

\* A lookup only notes the pc, and only of a block that is not there.
LEMMA LookupKeeps ==
    ASSUME CacheInv, NEW pc \in Addresses, LookupBlock(pc)
    PROVE  CacheInv'
<1>1. /\ UNCHANGED <<memory, mirror, tagTop, blockPtrs, translationPtr, cache, codeMin,
                      codeMax, stack, unchecked, aborted>>
      /\ flushCount' = 0
      /\ pending' = IF IsTag(mirror[pc]) THEN Unset ELSE pc
  BY DEF LookupBlock, tables, history
<1>2. stack = <<>>
  BY DEF CacheInv, CallsNest, LookupBlock
<1>3. TypeOK'
  BY <1>1 DEF CacheInv, TypeOK, IsBlock
<1>4. AbortedApart'
  BY <1>1 DEF CacheInv, AbortedApart, Idle
<1>5. CallsNest'
  BY <1>1, <1>2 DEF CacheInv, CallsNest, Live
<1>6. FramesCurrent' /\ Guarded' /\ BlocksCurrent'
  BY <1>1 DEF CacheInv, FramesCurrent, Guarded, BlocksCurrent, Live
<1>7. TagsKept' /\ LinksAwaited' /\ LinksRight'
  BY <1>1 DEF CacheInv, TagsKept, LinksAwaited, LinksRight, Live, BeginsAt
<1> QED
  BY <1>3, <1>4, <1>5, <1>6, <1>7 DEF CacheInv

\* A frame without one of its branches.
LEMMA FrameExits ==
    ASSUME NEW f \in Frame, NEW source
    PROVE  /\ [f EXCEPT !.exits = @ \ {source}]
                = [block |-> f.block, exits |-> f.exits \ {source}]
           /\ [block |-> f.block, exits |-> f.exits \ {source}] \in Frame
<1>1. PICK b \in 0 .. Capacity, e \in SUBSET Addresses : f = [block |-> b, exits |-> e]
  BY DEF Frame
<1>2. e \ {source} \in SUBSET Addresses
  OBVIOUS
<1> QED
  BY <1>1, <1>2 DEF Frame

\* A translation that ends is taken off the stack.
LEMMA Popped ==
    ASSUME NEW S, NEW s \in Seq(S), s # <<>>
    PROVE  /\ Tail(s) \in Seq(S) /\ Head(s) = s[1] /\ 1 \in DOMAIN s
           /\ Tail(s) = <<>> <=> Len(s) = 1
           /\ \A i \in DOMAIN Tail(s) : i + 1 \in DOMAIN s /\ Tail(s)[i] = s[i + 1]
           /\ \A i \in DOMAIN s : i = 1 \/ (i - 1 \in DOMAIN Tail(s) /\ Tail(s)[i - 1] = s[i])
<1>1. /\ Len(s) \in Nat \ {0} /\ DOMAIN s = 1 .. Len(s) /\ Head(s) = s[1]
      /\ Tail(s) \in Seq(S) /\ Len(Tail(s)) = Len(s) - 1
      /\ DOMAIN Tail(s) = 1 .. Len(s) - 1
  OBVIOUS
<1>2. \A i \in 1 .. Len(s) - 1 : Tail(s)[i] = s[i + 1]
  OBVIOUS
<1>3. \A t \in Seq(S) : t = <<>> <=> Len(t) = 0
  OBVIOUS
<1>4. Len(Tail(s)) = 0 <=> Len(s) = 1
  BY <1>1
<1>5. Tail(s) = <<>> <=> Len(Tail(s)) = 0
  <2>1. Tail(s) \in Seq(S)
    BY <1>1
  <2> QED
    BY <1>3, <2>1
<1>6. Tail(s) = <<>> <=> Len(s) = 1
  BY <1>4, <1>5
<1> QED
  BY <1>1, <1>2, <1>6

\* The innermost translation is replaced.
LEMMA Replaced ==
    ASSUME NEW S, NEW s \in Seq(S), 1 \in DOMAIN s, NEW f \in S
    PROVE  [s EXCEPT ![1] = f] \in Seq(S)
<1>1. 1 \in 1 .. Len(s)
  OBVIOUS
<1> QED
  BY <1>1, ExceptSeq

\* A link to a block that is there: to the block of the branch's target, unless a
\* failed translation has left the tag.
LEMMA LinkKeeps ==
    ASSUME CacheInv, stack # <<>>, NEW source \in Head(stack).exits,
           IsTag(mirror[memory[source].target]),
           cache' = Linked(source, blockPtrs[mirror[memory[source].target]]),
           stack' = [stack EXCEPT ![1].exits = ExitsLeft(@, source)],
           UNCHANGED <<memory, mirror, tagTop, blockPtrs, translationPtr,
                       codeMin, codeMax, pending, flushCount, history>>
    PROVE  CacheInv'
<1>. DEFINE own == Head(stack).block
            target == memory[source].target
            address == blockPtrs[mirror[target]]
<1>1. /\ stack \in Seq(Frame) /\ 1 \in DOMAIN stack /\ Head(stack) = stack[1]
      /\ stack[1] \in Frame
  BY DEF CacheInv, TypeOK
<1>2. /\ own \in Live /\ target \in Addresses
      /\ source \in DOMAIN cache[own].source /\ cache[own].source[source] = memory[source]
  BY <1>1 DEF CacheInv, FramesCurrent
<1>3. mirror[target] \in Tags /\ address \in 0 .. Capacity
  BY <1>2 DEF CacheInv, TypeOK, IsTag
<1>4. /\ stack' = [stack EXCEPT ![1] = [block |-> own, exits |-> stack[1].exits \ {source}]]
      /\ stack' \in Seq(Frame)
  <2>1. /\ [stack[1] EXCEPT !.exits = @ \ {source}]
               = [block |-> stack[1].block, exits |-> stack[1].exits \ {source}]
        /\ [block |-> stack[1].block, exits |-> stack[1].exits \ {source}] \in Frame
    BY <1>1, FrameExits
  <2>2. stack' = [stack EXCEPT ![1] = [stack[1] EXCEPT !.exits = @ \ {source}]]
    BY DEF ExitsLeft
  <2>3. stack' = [stack EXCEPT ![1] = [block |-> own, exits |-> stack[1].exits \ {source}]]
    BY <1>1, <2>1, <2>2
  <2>4. stack' \in Seq(Frame)
    <3>. DEFINE f == [block |-> own, exits |-> stack[1].exits \ {source}]
    <3>1. f \in Frame
      BY <1>1, <2>1
    <3>2. stack' = [stack EXCEPT ![1] = f]
      BY <2>3
    <3>. HIDE DEF f
    <3> QED
      BY <1>1, <3>1, <3>2, Replaced
  <2> QED
    BY <2>3, <2>4
<1>5. /\ DOMAIN stack' = DOMAIN stack
      /\ \A i \in DOMAIN stack :
            /\ stack'[i].block = stack[i].block
            /\ stack'[i].exits \subseteq stack[i].exits
            /\ stack[i].exits \subseteq stack'[i].exits \cup {source}
            /\ i # 1 => stack'[i].exits = stack[i].exits
  BY <1>1, <1>4
<1>6. /\ Live' = Live
      /\ \A p \in Live : p # own => cache'[p] = cache[p]
      /\ cache'[own] = [cache[own] EXCEPT !.links[source] = address]
  BY <1>2 DEF Linked, Live
<1>7. IsBlock(cache[own])
  BY <1>2 DEF CacheInv, TypeOK, Live
<1>8. /\ cache'[own].first = cache[own].first
      /\ cache'[own].source = cache[own].source
      /\ DOMAIN cache'[own].links = DOMAIN cache[own].links
      /\ \A a \in DOMAIN cache[own].links :
            cache'[own].links[a] = IF a = source THEN address ELSE cache[own].links[a]
      /\ IsBlock(cache'[own])
  <2>1. cache[own] = [first |-> cache[own].first, source |-> cache[own].source,
                      links |-> cache[own].links]
    BY <1>7 DEF IsBlock
  <2>2. cache'[own] = [first |-> cache[own].first, source |-> cache[own].source,
                       links |-> [cache[own].links EXCEPT ![source] = address]]
    BY <1>6, <2>1
  <2>3. [cache[own].links EXCEPT ![source] = address]
            \in [DOMAIN cache[own].links -> 0 .. Capacity \cup {Unset}]
    BY <1>3, <1>7 DEF IsBlock
  <2>4. /\ cache'[own].first = cache[own].first /\ cache'[own].source = cache[own].source
        /\ cache'[own].links = [cache[own].links EXCEPT ![source] = address]
    BY <2>2
  <2>5. /\ cache[own].links \in [DOMAIN cache[own].links -> 0 .. Capacity \cup {Unset}]
        /\ cache[own].source \in [DOMAIN cache[own].source -> Instruction]
        /\ cache[own].first \in Addresses /\ DOMAIN cache[own].source \subseteq Addresses
    BY <1>7 DEF IsBlock
  <2>6. /\ DOMAIN cache'[own].links = DOMAIN cache[own].links
        /\ \A a \in DOMAIN cache[own].links :
              cache'[own].links[a] = IF a = source THEN address ELSE cache[own].links[a]
    BY <2>4, <2>5
  <2>7. cache'[own].links \in [DOMAIN cache'[own].links -> 0 .. Capacity \cup {Unset}]
    BY <2>3, <2>4, <2>6
  <2>8. IsBlock(cache'[own])
    <3>. DEFINE f == cache[own].first
                s == cache[own].source
                l == cache'[own].links
    <3>1. cache'[own] = [first |-> f, source |-> s, links |-> l]
      BY <2>2
    <3>2. /\ f \in Addresses /\ s \in [DOMAIN s -> Instruction] /\ DOMAIN s \subseteq Addresses
          /\ l \in [DOMAIN l -> 0 .. Capacity \cup {Unset}]
      BY <2>5, <2>7
    <3>. HIDE DEF f, s, l
    <3>. QED BY <3>1, <3>2 DEF IsBlock
  <2> QED
    BY <2>4, <2>6, <2>8
<1>9. /\ UNCHANGED <<memory, mirror, tagTop, blockPtrs, translationPtr, codeMin, codeMax,
                      pending, flushCount, unchecked, aborted>>
      /\ stack' # <<>>
  BY <1>1, <1>5 DEF history
<1>10. \A p \in Live : /\ cache'[p].first = cache[p].first
                       /\ cache'[p].source = cache[p].source
                       /\ DOMAIN cache'[p].links = DOMAIN cache[p].links
                       /\ IsBlock(cache'[p])
  BY <1>6, <1>8 DEF CacheInv, TypeOK, Live
<1>11. TypeOK'
  BY <1>4, <1>6, <1>9, <1>10 DEF CacheInv, TypeOK, Live, IsBlock
<1>12. CallsNest'
  BY <1>6, <1>9 DEF CacheInv, CallsNest, Idle
<1>13. FramesCurrent'
  <2> SUFFICES ASSUME NEW i \in DOMAIN stack'
      PROVE /\ stack'[i].block \in Live'
            /\ \A a \in stack'[i].exits :
                  /\ a \in DOMAIN cache'[stack'[i].block].source
                  /\ cache'[stack'[i].block].source[a] = memory'[a]
                  /\ memory'[a].target \in Addresses
    BY DEF FramesCurrent
  <2>1. /\ i \in DOMAIN stack /\ stack'[i].block = stack[i].block
        /\ stack'[i].exits \subseteq stack[i].exits
    BY <1>5
  <2>2. /\ stack[i].block \in Live
        /\ \A a \in stack[i].exits :
              /\ a \in DOMAIN cache[stack[i].block].source
              /\ cache[stack[i].block].source[a] = memory[a]
              /\ memory[a].target \in Addresses
    BY <2>1 DEF CacheInv, FramesCurrent
  <2>3. cache'[stack[i].block].source = cache[stack[i].block].source
    BY <1>10, <2>2
  <2>4. ASSUME NEW a \in stack'[i].exits
        PROVE  /\ a \in DOMAIN cache'[stack'[i].block].source
               /\ cache'[stack'[i].block].source[a] = memory'[a]
               /\ memory'[a].target \in Addresses
    <3>1. a \in stack[i].exits
      BY <2>1
    <3>2. /\ a \in DOMAIN cache[stack[i].block].source
          /\ cache[stack[i].block].source[a] = memory[a]
          /\ memory[a].target \in Addresses
      BY <2>2, <3>1
    <3> QED
      BY <1>9, <2>1, <2>3, <3>2
  <2>5. stack'[i].block \in Live'
    BY <1>6, <2>1, <2>2
  <2> QED
    BY <2>4, <2>5
<1>14. Guarded' /\ BlocksCurrent'
  BY <1>6, <1>9, <1>10 DEF CacheInv, Guarded, BlocksCurrent
<1>15. \A p, a : BeginsAt(p, a)' <=> BeginsAt(p, a)
  BY <1>6, <1>10 DEF BeginsAt
<1>16. TagsKept'
  BY <1>9, <1>15 DEF CacheInv, TagsKept, BeginsAt
<1>17. AbortedApart'
  BY <1>9 DEF CacheInv, AbortedApart
<1>18. LinksAwaited'
  <2> SUFFICES ASSUME NEW p \in Live', NEW a \in DOMAIN cache'[p].links,
                      cache'[p].links[a] = Unset
      PROVE \E i \in DOMAIN stack' : stack'[i].block = p /\ a \in stack'[i].exits
    BY DEF LinksAwaited
  <2>0. p \in Live /\ a \in DOMAIN cache[p].links
    BY <1>6, <1>10
  <2>1. address # Unset
    BY <1>3, SizesAssumption, NamesAssumption
  <2>2. cache[p].links[a] = Unset /\ (p # own \/ a # source)
    BY <1>6, <1>8, <2>0, <2>1
  <2>3. PICK i \in DOMAIN stack : stack[i].block = p /\ a \in stack[i].exits
    BY <2>0, <2>2 DEF CacheInv, LinksAwaited
  <2>4. a \in stack'[i].exits
    <3>1. CASE i = 1
      <4>1. p = own
        BY <1>1, <2>3, <3>1
      <4> QED
        BY <1>5, <2>2, <2>3, <3>1, <4>1
    <3>2. CASE i # 1
      BY <1>5, <2>3, <3>2
    <3> QED
      BY <3>1, <3>2
  <2> QED
    BY <1>5, <2>3, <2>4
<1>19. LinksRight'
  <2> SUFFICES ASSUME NEW p \in Live', NEW a \in DOMAIN cache'[p].links
      PROVE \/ cache'[p].links[a] = Unset
            \/ cache'[p].source[a].target \in aborted'
            \/ BeginsAt(cache[p].links[a], cache[p].source[a].target)'
    BY DEF LinksRight
  <2>0. /\ p \in Live /\ a \in DOMAIN cache[p].links
        /\ cache'[p].source = cache[p].source /\ aborted' = aborted
    BY <1>6, <1>9, <1>10
  <2> SUFFICES \/ cache'[p].links[a] = Unset
               \/ cache[p].source[a].target \in aborted
               \/ BeginsAt(cache'[p].links[a], cache[p].source[a].target)
    BY <1>6, <1>10, <2>0 DEF BeginsAt
  <2>1. CASE p = own /\ a = source
    <3>1. cache[p].source[a].target = target /\ cache'[p].links[a] = address
      BY <1>2, <1>8, <2>0, <2>1
    <3>2. target \in aborted \/ BeginsAt(address, target)
      BY <1>2 DEF CacheInv, TagsKept
    <3> QED
      BY <3>1, <3>2
  <2>2. CASE ~(p = own /\ a = source)
    <3>1. cache'[p].links[a] = cache[p].links[a]
      BY <1>6, <1>8, <2>0, <2>2
    <3> QED
      BY <2>0, <3>1 DEF CacheInv, LinksRight
  <2> QED
    BY <2>1, <2>2
<1> QED
  BY <1>11, <1>12, <1>13, <1>14, <1>16, <1>17, <1>18, <1>19 DEF CacheInv

\* A translation that has linked all its branches returns.
LEMMA FinishKeeps ==
    ASSUME CacheInv, FinishBlock
    PROVE  CacheInv'
<1>1. /\ UNCHANGED <<memory, mirror, tagTop, blockPtrs, translationPtr, cache, codeMin,
                      codeMax, flushCount, unchecked, aborted>>
      /\ stack' = Tail(stack) /\ stack # <<>> /\ Head(stack).exits = {}
      /\ pending' = IF Len(stack) = 1 THEN Unset ELSE pending
  BY DEF FinishBlock, tables, history
<1>2. /\ stack \in Seq(Frame) /\ stack' \in Seq(Frame) /\ stack[1].exits = {}
      /\ Len(stack) # 1 => stack' # <<>>
      /\ Len(stack) = 1 => stack' = <<>>
      /\ \A i \in DOMAIN stack' : i + 1 \in DOMAIN stack /\ stack'[i] = stack[i + 1]
      /\ \A i \in DOMAIN stack : i = 1 \/ (i - 1 \in DOMAIN stack' /\ stack'[i - 1] = stack[i])
  BY <1>1, Popped DEF CacheInv, TypeOK
<1>3. TypeOK'
  BY <1>1, <1>2 DEF CacheInv, TypeOK, IsBlock
<1>4. CallsNest'
  <2>1. Idle' => stack' = <<>>
    BY <1>1, <1>2 DEF CacheInv, CallsNest, Idle
  <2> QED
    BY <1>1, <2>1 DEF CacheInv, CallsNest, Live
<1>5. FramesCurrent'
  BY <1>1, <1>2 DEF CacheInv, FramesCurrent, Live
<1>6. Guarded' /\ BlocksCurrent' /\ TagsKept' /\ LinksRight'
  BY <1>1 DEF CacheInv, Guarded, BlocksCurrent, TagsKept, LinksRight, Live, BeginsAt
<1>7. AbortedApart'
  BY <1>1, <1>2 DEF CacheInv, AbortedApart, Idle
<1>8. LinksAwaited'
  <2> SUFFICES ASSUME NEW p \in Live, NEW a \in DOMAIN cache[p].links,
                      cache[p].links[a] = Unset
      PROVE \E i \in DOMAIN stack' : stack'[i].block = p /\ a \in stack'[i].exits
    BY <1>1 DEF LinksAwaited, Live
  <2>1. PICK i \in DOMAIN stack : stack[i].block = p /\ a \in stack[i].exits
    BY DEF CacheInv, LinksAwaited
  <2>2. i # 1
    BY <1>2, <2>1
  <2> QED
    BY <1>2, <2>1, <2>2
<1> QED
  BY <1>3, <1>4, <1>5, <1>6, <1>7, <1>8 DEF CacheInv

\* A store that looks at the mirror: where the entry is empty there is no translated code,
\* where the store sees that it is not the cache is flushed, and where a byte store does not
\* see it the address is on record.
LEMMA StoreKeeps ==
    ASSUME CacheInv, Store
    PROVE  CacheInv'
<1>0. PICK patch \in Patches :
          \E seen \in Seen(patch[1]) :
              /\ memory' = [memory EXCEPT ![patch[1]] = patch[2]]
              /\ \/ /\ ~HitsCode(seen)
                    /\ unchecked' = IF seen = mirror[patch[1]] THEN unchecked
                                    ELSE unchecked \cup {patch[1]}
                    /\ UNCHANGED <<tables, aborted>>
                 \/ /\ HitsCode(seen)
                    /\ FlushRam(mirror, codeMin)
                    /\ aborted' = TagsLeft(aborted)
                    /\ UNCHANGED blockPtrs
  BY DEF Store
<1>1. PICK seen \in Seen(patch[1]) :
          /\ memory' = [memory EXCEPT ![patch[1]] = patch[2]]
          /\ \/ /\ ~HitsCode(seen)
                /\ unchecked' = IF seen = mirror[patch[1]] THEN unchecked
                                ELSE unchecked \cup {patch[1]}
                /\ UNCHANGED <<tables, aborted>>
             \/ /\ HitsCode(seen)
                /\ FlushRam(mirror, codeMin)
                /\ aborted' = TagsLeft(aborted)
                /\ UNCHANGED blockPtrs
  BY <1>0
<1>2. /\ UNCHANGED <<pending, stack, flushCount>> /\ Idle
  BY DEF Store
<1>3. patch[1] \in Addresses /\ patch[2] \in Instruction
  BY CodeAssumption
<1>4. /\ memory' \in [Addresses -> Instruction]
      /\ \A a \in Addresses : a # patch[1] => memory'[a] = memory[a]
  BY <1>1, <1>3 DEF CacheInv, TypeOK
<1>5. stack = <<>> /\ DOMAIN stack = {}
  <2>1. stack = <<>>
    BY <1>2 DEF CacheInv, CallsNest
  <2> QED
    BY <2>1
<1>6. CASE /\ ~HitsCode(seen)
           /\ unchecked' = IF seen = mirror[patch[1]] THEN unchecked
                           ELSE unchecked \cup {patch[1]}
           /\ UNCHANGED <<tables, aborted>>
  <2>1. mirror[patch[1]] = 0 \/ patch[1] \in unchecked'
    BY <1>6 DEF HitsCode
  <2>2. /\ UNCHANGED <<mirror, tagTop, blockPtrs, translationPtr, cache, codeMin, codeMax,
                       aborted, pending, stack, flushCount>>
        /\ unchecked \subseteq unchecked' /\ unchecked' \subseteq unchecked \cup {patch[1]}
    BY <1>2, <1>6 DEF tables
  <2>3. TypeOK'
    BY <1>3, <1>4, <2>2 DEF CacheInv, TypeOK, IsBlock
  <2>4. BlocksCurrent'
    <3> SUFFICES ASSUME NEW p \in Live', NEW a \in DOMAIN cache'[p].source,
                        a \notin unchecked'
        PROVE cache'[p].source[a] = memory'[a]
      BY DEF BlocksCurrent
    <3>1. p \in Live /\ a \in DOMAIN cache[p].source
      BY <2>2 DEF Live
    <3>2. a \in Addresses /\ mirror[a] # 0
      BY <3>1 DEF CacheInv, TypeOK, IsBlock, Guarded, Live
    <3>3. memory'[a] = memory[a]
      BY <1>4, <2>1, <3>2
    <3> QED
      BY <2>2, <3>1, <3>3 DEF CacheInv, BlocksCurrent
  <2>5. CallsNest' /\ AbortedApart' /\ FramesCurrent'
    BY <1>5, <2>2 DEF CacheInv, CallsNest, AbortedApart, FramesCurrent, Idle, Live
  <2>6. Guarded' /\ TagsKept' /\ LinksAwaited' /\ LinksRight'
    BY <2>2 DEF CacheInv, Guarded, TagsKept, LinksAwaited, LinksRight, Live, BeginsAt
  <2> QED
    BY <2>3, <2>4, <2>5, <2>6 DEF CacheInv
<1>7. CASE /\ FlushRam(mirror, codeMin)
           /\ aborted' = TagsLeft(aborted)
           /\ UNCHANGED blockPtrs
  <2>1. \A a \in Addresses \ aborted : IsTag(mirror[a]) => a \in Swept(codeMin)
    BY DEF CacheInv, TagsKept, Swept
  <2>2. /\ mirror \in [Addresses -> Tags \cup {0, Mark}] /\ aborted \in SUBSET Addresses
        /\ blockPtrs' \in [Tags -> 0 .. Capacity]
        /\ pending' \in Addresses \cup {Unset}
        /\ flushCount' \in Nat /\ stack' = <<>> /\ TypeOK
    BY <1>2, <1>5, <1>7 DEF CacheInv, TypeOK
  <2> QED
    BY <1>4, <1>7, <2>1, <2>2, FlushKeeps
<1> QED
  BY <1>1, <1>6, <1>7

\* A store that does not: the address is on record as written past the mirror.
LEMMA StoreUncheckedKeeps ==
    ASSUME CacheInv, StoreUnchecked
    PROVE  CacheInv'
<1>1. PICK patch \in Patches :
          /\ memory' = [memory EXCEPT ![patch[1]] = patch[2]]
          /\ unchecked' = unchecked \cup {patch[1]}
  BY DEF StoreUnchecked
<1>2. /\ UNCHANGED <<mirror, tagTop, blockPtrs, translationPtr, cache, codeMin, codeMax,
                      aborted, pending, stack, flushCount>>
      /\ Idle
  BY DEF StoreUnchecked, tables
<1>3. patch[1] \in Addresses /\ patch[2] \in Instruction
  BY CodeAssumption
<1>4. /\ memory' \in [Addresses -> Instruction]
      /\ unchecked' \subseteq Addresses
      /\ \A a \in Addresses : a # patch[1] => memory'[a] = memory[a]
  BY <1>1, <1>3 DEF CacheInv, TypeOK
<1>5. stack = <<>> /\ DOMAIN stack = {}
  <2>1. stack = <<>>
    BY <1>2 DEF CacheInv, CallsNest
  <2> QED
    BY <2>1
<1>6. TypeOK'
  BY <1>2, <1>4 DEF CacheInv, TypeOK, IsBlock
<1>7. BlocksCurrent'
  <2> SUFFICES ASSUME NEW p \in Live', NEW a \in DOMAIN cache'[p].source
      PROVE cache'[p].source[a] = memory'[a] \/ a \in unchecked'
    BY DEF BlocksCurrent
  <2>1. p \in Live /\ a \in DOMAIN cache[p].source /\ a \in Addresses
    BY <1>2 DEF CacheInv, TypeOK, IsBlock, Live
  <2>2. a = patch[1] \/ memory'[a] = memory[a]
    BY <1>4, <2>1
  <2> QED
    BY <1>1, <1>2, <2>1, <2>2 DEF CacheInv, BlocksCurrent
<1>8. CallsNest' /\ AbortedApart' /\ FramesCurrent'
  BY <1>2, <1>5 DEF CacheInv, CallsNest, AbortedApart, FramesCurrent, Idle, Live
<1>9. Guarded' /\ TagsKept' /\ LinksAwaited' /\ LinksRight'
  BY <1>2 DEF CacheInv, Guarded, TagsKept, LinksAwaited, LinksRight, Live, BeginsAt
<1> QED
  BY <1>6, <1>7, <1>8, <1>9 DEF CacheInv

\* init_caches is a flush that clears everything.
LEMMA InitCachesKeeps ==
    ASSUME CacheInv, InitCaches
    PROVE  CacheInv'
<1>. DEFINE marks == [a \in Addresses |-> 0]
<1>1. marks \in [Addresses -> Tags \cup {0, Mark}]
  OBVIOUS
<1>2. FlushRam(marks, 0)
  BY DEF InitCaches, FlushRam
<1>3. \A a \in Addresses : ~IsTag(marks[a])
  BY DEF IsTag
<1>4. aborted' = TagsLeft({})
  BY DEF InitCaches, TagsLeft
<1>5. /\ memory' \in [Addresses -> Instruction]
      /\ pending' \in Addresses \cup {Unset}
      /\ flushCount' \in Nat
      /\ blockPtrs' \in [Tags -> 0 .. Capacity]
  BY SizesAssumption DEF CacheInv, TypeOK, InitCaches, Tags
<1>6. stack' = <<>>
  BY DEF CacheInv, CallsNest, InitCaches
<1>7. TypeOK /\ {} \in SUBSET Addresses
  BY DEF CacheInv
<1>. HIDE DEF marks
<1> QED
  BY <1>1, <1>2, <1>3, <1>4, <1>5, <1>6, <1>7, FlushKeeps

\* The outermost translation, at first or again.
LEMMA TranslateActionKeeps ==
    ASSUME CacheInv, Translate
    PROVE  CacheInv'
<1>1. ~Idle /\ stack = <<>> /\ pending \in Addresses
  BY DEF Translate, Idle, CacheInv, TypeOK
<1>2. CASE TranslateBlock(pending)
  <2>1. pending \in aborted => Live = {}
    BY <1>1 DEF CacheInv, AbortedApart
  <2> QED
    BY <1>1, <1>2, <2>1, TranslateKeeps
<1>3. CASE Overflow(pending)
  BY <1>1, <1>3, OverflowKeeps
<1> QED
  BY <1>2, <1>3 DEF Translate

\* The innermost translation goes on with its next branch.
LEMMA LinkExitKeeps ==
    ASSUME CacheInv, LinkExit
    PROVE  CacheInv'
<1>. DEFINE target(source) == memory[source].target
<1>1. PICK source \in Head(stack).exits :
          \/ /\ IsTag(mirror[target(source)])
             /\ cache' = Linked(source, blockPtrs[mirror[target(source)]])
             /\ stack' = [stack EXCEPT ![1].exits = ExitsLeft(@, source)]
             /\ UNCHANGED <<memory, mirror, tagTop, blockPtrs, translationPtr,
                            codeMin, codeMax, pending, flushCount, history>>
          \/ /\ ~IsTag(mirror[target(source)])
             /\ TranslateBlock(target(source)) \/ Overflow(target(source))
  BY DEF LinkExit
<1>2. stack # <<>> /\ stack \in Seq(Frame)
  BY DEF LinkExit, CacheInv, TypeOK
<1>3. 1 \in DOMAIN stack /\ Head(stack) = stack[1]
  BY <1>2
<1>4. target(source) \in Addresses /\ ~Idle
  BY <1>2, <1>3 DEF CacheInv, FramesCurrent, CallsNest
<1>5. CASE IsTag(mirror[target(source)])
  BY <1>1, <1>2, <1>5, LinkKeeps
<1>6. CASE ~IsTag(mirror[target(source)])
  <2>1. target(source) \notin aborted
    BY <1>6 DEF CacheInv, AbortedApart
  <2>. HIDE DEF target
  <2> QED
    BY <1>1, <1>4, <1>6, <2>1, TranslateKeeps, OverflowKeeps
<1> QED
  BY <1>5, <1>6

\* The invariant holds of an empty cache.
LEMMA InvariantAtStart == Init => CacheInv
<1> SUFFICES ASSUME Init PROVE CacheInv
  OBVIOUS
<1>1. TypeOK
  BY SizesAssumption, CodeAssumption, FirstTagIsNat DEF Init, TypeOK, Tags
<1>2. CallsNest /\ FramesCurrent /\ Guarded /\ BlocksCurrent
  BY FirstTagIsNat DEF Init, CallsNest, FramesCurrent, Guarded, BlocksCurrent, Live
<1>3. TagsKept /\ AbortedApart /\ LinksAwaited /\ LinksRight
  BY DEF Init, TagsKept, AbortedApart, LinksAwaited, LinksRight, Live, IsTag
<1> QED
  BY <1>1, <1>2, <1>3 DEF CacheInv

\* Nothing happens.
LEMMA StutterKeeps ==
    ASSUME CacheInv, UNCHANGED vars
    PROVE  CacheInv'
<1>1. UNCHANGED <<memory, mirror, tagTop, blockPtrs, translationPtr, cache, codeMin,
                  codeMax, pending, stack, flushCount, unchecked, aborted>>
  BY DEF vars, tables, history
<1>2. TypeOK'
  BY <1>1 DEF CacheInv, TypeOK, IsBlock
<1>3. CallsNest' /\ FramesCurrent' /\ Guarded' /\ BlocksCurrent'
  BY <1>1 DEF CacheInv, CallsNest, FramesCurrent, Guarded, BlocksCurrent, Live, Idle
<1>4. TagsKept' /\ AbortedApart' /\ LinksAwaited' /\ LinksRight'
  BY <1>1 DEF CacheInv, TagsKept, AbortedApart, LinksAwaited, LinksRight, Live, Idle,
              BeginsAt
<1> QED
  BY <1>2, <1>3, <1>4 DEF CacheInv

\* Every step keeps the invariant.
LEMMA InvariantKept == CacheInv /\ [Next]_vars => CacheInv'
<1> SUFFICES ASSUME CacheInv, [Next]_vars
             PROVE  CacheInv'
  OBVIOUS
<1>1. CASE \E pc \in Addresses : LookupBlock(pc)
  BY <1>1, LookupKeeps
<1>2. CASE Translate
  BY <1>2, TranslateActionKeeps
<1>3. CASE LinkExit
  BY <1>3, LinkExitKeeps
<1>4. CASE FinishBlock
  BY <1>4, FinishKeeps
<1>5. CASE Store
  BY <1>5, StoreKeeps
<1>6. CASE StoreUnchecked
  BY <1>6, StoreUncheckedKeeps
<1>7. CASE InitCaches
  BY <1>7, InitCachesKeeps
<1>8. CASE UNCHANGED vars
  BY <1>8, StutterKeeps
<1> QED
  BY <1>1, <1>2, <1>3, <1>4, <1>5, <1>6, <1>7, <1>8 DEF Next, Recompile

\* The mirror guards all translated code, tags and links are right, and what is not linked
\* is on the stack.
THEOREM CacheInvHolds == Spec => []CacheInv
  BY InvariantAtStart, InvariantKept, PTL DEF Spec
-----------------------------------------------------------------------------
\* The tables of the translation cache stay in type: no more tags are given out than
\* ram_block_ptrs has entries, and nothing is translated beyond the cache.
THEOREM TypeCorrect == Spec => []TypeOK
<1>1. CacheInv => TypeOK
  BY DEF CacheInv
<1> QED
  BY <1>1, CacheInvHolds, PTL

\* No stale code is run, for any program and whatever the guest stores: a translated
\* block is the translation of what its addresses hold, but for addresses written by
\* stores that do not look at the mirror or by byte stores that met a tag whose low byte
\* is 0.
THEOREM CodeCurrent == Spec => []BlocksCurrent
<1>1. CacheInv => BlocksCurrent
  BY DEF CacheInv
<1> QED
  BY <1>1, CacheInvHolds, PTL

\* A tag and a link lead to the translation of the address they stand for, through
\* every flush in the middle of a nested translation, except where a translation that
\* did not fit has left its tag; code never runs with a branch that is not linked.
THEOREM LinksLive == Spec => []TagsLive
<1>1. CacheInv => TagsLive
  <2> SUFFICES ASSUME CacheInv PROVE TagsLive
    OBVIOUS
  <2>1. \A a \in Addresses \ aborted :
            IsTag(mirror[a]) => BeginsAt(blockPtrs[mirror[a]], a)
    BY DEF CacheInv, TagsKept
  <2>2. ASSUME NEW p \in Live, NEW a \in DOMAIN cache[p].links
        PROVE  \/ cache[p].links[a] = Unset /\ ~Idle
               \/ cache[p].source[a].target \in aborted
               \/ BeginsAt(cache[p].links[a], cache[p].source[a].target)
    <3>1. CASE cache[p].links[a] = Unset
      <4>1. PICK i \in DOMAIN stack : stack[i].block = p
        BY <3>1 DEF CacheInv, LinksAwaited
      <4>2. stack # <<>>
        BY <4>1
      <4>3. ~Idle
        BY <4>2 DEF CacheInv, CallsNest
      <4> QED
        BY <3>1, <4>3
    <3>2. CASE cache[p].links[a] # Unset
      BY <3>2 DEF CacheInv, LinksRight
    <3> QED
      BY <3>1, <3>2
  <2> QED
    BY <2>1, <2>2 DEF TagsLive
<1> QED
  BY <1>1, CacheInvHolds, PTL
-----------------------------------------------------------------------------
(***************************************************************************)
(* How often and how deep: between two flushes an address is translated    *)
(* once, and translate_block nests at most once for every address.         *)
(***************************************************************************)
\* No two translations in the cache are of the same address.
EachBlockOnce == \A p, q \in Live : cache[p].first = cache[q].first => p = q

\* A translation in the cache keeps the tag that leads to it.
ItsTagStands == \A p \in Live : cache[p].first \in Addresses /\ IsTag(mirror[cache[p].first])

\* A nested translation is put behind the one that waits for it.
CallsAdvance ==
    \A i, j \in DOMAIN stack : i < j => stack[j].block < stack[i].block

\* The outermost translation is not of a block that is there.
NotThereYet == stack = <<>> /\ ~Idle => Live = {} \/ ~IsTag(mirror[pending])

OnceInv == EachBlockOnce /\ ItsTagStands /\ CallsAdvance /\ NotThereYet

\* The translations of block_lookup_address that are under way
RecursionBounded == Len(stack) <= Last + 1

\* A translation that fits adds its own address, which had no tag.
LEMMA TranslateOnce ==
    ASSUME CacheInv, OnceInv, NEW first \in Addresses, TranslateBlock(first),
           Live = {} \/ ~IsTag(mirror[first])
    PROVE  OnceInv'
<1>. DEFINE here == translationPtr
<1>1. /\ Live' = Live \cup {here} /\ here \notin Live
      /\ cache'[here] = Translation(first)
      /\ \A p \in Live : cache'[p] = cache[p]
      /\ IsTag(mirror'[first])
      /\ stack' # <<>> /\ stack'[1] = [block |-> here, exits |-> ExternalExits(first)]
      /\ \A i \in DOMAIN stack' : i = 1 \/ (i - 1 \in DOMAIN stack /\ stack'[i] = stack[i - 1])
  BY TranslateChanges
<1>2. cache'[here].first = first
  BY <1>1 DEF Translation
<1>3. \A p \in Live : cache'[p].first = cache[p].first /\ cache[p].first # first
  BY <1>1 DEF OnceInv, ItsTagStands
<1>4. \A a \in Addresses : IsTag(mirror[a]) => IsTag(mirror'[a])
  <2>1. first .. BlockEnd(first) - 1 \subseteq Addresses
    BY BlockEndLemma, SizesAssumption DEF Addresses
  <2>2. mirror' = TaggedMirror(first) /\ mirror \in [Addresses -> Tags \cup {0, Mark}]
    BY DEF TranslateBlock, CacheInv, TypeOK
  <2>3. ASSUME NEW a \in Addresses, IsTag(mirror[a])
        PROVE  IsTag(mirror'[a])
    <3>1. CASE a = first
      BY <1>1, <3>1
    <3>2. CASE a # first
      BY <2>2, <2>3, <3>2 DEF TaggedMirror, IsTag
    <3> QED
      BY <3>1, <3>2
  <2> QED
    BY <2>3
<1>5. EachBlockOnce'
  <2> SUFFICES ASSUME NEW p \in Live', NEW q \in Live', cache'[p].first = cache'[q].first
               PROVE  p = q
    BY DEF EachBlockOnce
  <2> QED
    BY <1>1, <1>2, <1>3 DEF OnceInv, EachBlockOnce
<1>6. ItsTagStands'
  BY <1>1, <1>2, <1>3, <1>4 DEF OnceInv, ItsTagStands
<1>7. CallsAdvance'
  <2> SUFFICES ASSUME NEW i \in DOMAIN stack', NEW j \in DOMAIN stack', i < j
               PROVE  stack'[j].block < stack'[i].block
    BY DEF CallsAdvance
  <2>1. stack' \in Seq(Frame)
    BY TranslateTypes DEF TypeOK, CacheInv
  <2>2. i \in Nat /\ j \in Nat /\ i >= 1 /\ j # 1
    BY <2>1
  <2>3. j - 1 \in DOMAIN stack /\ stack'[j] = stack[j - 1]
    BY <1>1, <2>2
  <2>4. CASE i = 1
    <3>1. stack[j - 1].block \in Live
      BY <2>3 DEF CacheInv, FramesCurrent
    <3>2. stack[j - 1].block < here
      BY <3>1 DEF CacheInv, CallsNest
    <3> QED
      BY <1>1, <2>3, <2>4, <3>2
  <2>5. CASE i # 1
    <3>1. i - 1 \in DOMAIN stack /\ stack'[i] = stack[i - 1]
      BY <1>1, <2>5
    <3>2. i - 1 < j - 1
      BY <2>2
    <3> QED
      BY <2>3, <3>1, <3>2 DEF OnceInv, CallsAdvance
  <2> QED
    BY <2>4, <2>5
<1>8. NotThereYet'
  BY <1>1 DEF NotThereYet
<1> QED
  BY <1>5, <1>6, <1>7, <1>8 DEF OnceInv

\* A flush leaves nothing of it.
LEMMA FlushOnce ==
    ASSUME EmptyCache, stack' = <<>>
    PROVE  OnceInv'
<1>1. Live' = {}
  BY DEF EmptyCache, Live
<1>2. DOMAIN stack' = {}
  OBVIOUS
<1> QED
  BY <1>1, <1>2 DEF OnceInv, EachBlockOnce, ItsTagStands, CallsAdvance, NotThereYet

\* A link is a field of its block.
LEMMA LinkOnce ==
    ASSUME CacheInv, OnceInv, stack # <<>>, NEW source, NEW address,
           cache' = Linked(source, address),
           stack' = [stack EXCEPT ![1].exits = ExitsLeft(@, source)],
           mirror' = mirror
    PROVE  OnceInv'
<1>. DEFINE own == Head(stack).block
<1>1. /\ stack \in Seq(Frame) /\ 1 \in DOMAIN stack /\ Head(stack) = stack[1]
      /\ stack[1] \in Frame
  BY DEF CacheInv, TypeOK
<1>2. own \in Live
  BY <1>1 DEF CacheInv, FramesCurrent
<1>3. /\ DOMAIN stack' = DOMAIN stack
      /\ \A i \in DOMAIN stack : stack'[i].block = stack[i].block
  <2>1. stack' = [stack EXCEPT ![1] = [stack[1] EXCEPT !.exits = ExitsLeft(stack[1].exits, source)]]
    OBVIOUS
  <2>2. [stack[1] EXCEPT !.exits = ExitsLeft(stack[1].exits, source)].block = stack[1].block
    BY <1>1 DEF Frame
  <2> QED
    BY <1>1, <2>1, <2>2
<1>4. Live' = Live /\ \A p \in Live : cache'[p].first = cache[p].first
  <2>1. /\ Live' = Live
        /\ \A p \in Live : p # own => cache'[p] = cache[p]
        /\ cache'[own] = [cache[own] EXCEPT !.links[source] = address]
    BY <1>2 DEF Linked, Live
  <2>2. IsBlock(cache[own])
    BY <1>2 DEF CacheInv, TypeOK, Live
  <2>3. cache[own] = [first |-> cache[own].first, source |-> cache[own].source,
                      links |-> cache[own].links]
    BY <2>2 DEF IsBlock
  <2>4. cache'[own].first = cache[own].first
    BY <2>1, <2>3
  <2> QED
    BY <2>1, <2>4
<1>5. stack' # <<>>
  <2>1. DOMAIN <<>> = {}
    OBVIOUS
  <2> QED
    BY <1>1, <1>3, <2>1
<1>6. CallsAdvance'
  BY <1>3 DEF OnceInv, CallsAdvance
<1>7. EachBlockOnce' /\ ItsTagStands'
  BY <1>4 DEF OnceInv, EachBlockOnce, ItsTagStands
<1> QED
  BY <1>5, <1>6, <1>7 DEF OnceInv, NotThereYet

\* The innermost translation links its next branch.
LEMMA LinkExitOnce ==
    ASSUME CacheInv, OnceInv, LinkExit
    PROVE  OnceInv'
<1>1. PICK source \in Head(stack).exits :
          \/ /\ IsTag(mirror[memory[source].target])
             /\ cache' = Linked(source, blockPtrs[mirror[memory[source].target]])
             /\ stack' = [stack EXCEPT ![1].exits = ExitsLeft(@, source)]
             /\ mirror' = mirror
          \/ /\ ~IsTag(mirror[memory[source].target])
             /\ \/ TranslateBlock(memory[source].target)
                \/ Overflow(memory[source].target)
  BY DEF LinkExit
<1>2. stack # <<>> /\ stack \in Seq(Frame)
  BY DEF LinkExit, CacheInv, TypeOK
<1>3. 1 \in DOMAIN stack /\ Head(stack) = stack[1]
  BY <1>2
<1>4. memory[source].target \in Addresses
  BY <1>3 DEF CacheInv, FramesCurrent
<1>5. CASE cache' = Linked(source, blockPtrs[mirror[memory[source].target]])
           /\ stack' = [stack EXCEPT ![1].exits = ExitsLeft(@, source)]
           /\ mirror' = mirror
  BY <1>2, <1>5, LinkOnce
<1>6. CASE ~IsTag(mirror[memory[source].target]) /\ TranslateBlock(memory[source].target)
  BY <1>4, <1>6, TranslateOnce
<1>7. CASE Overflow(memory[source].target)
  BY <1>7, FlushOnce DEF Overflow, FlushRam
<1> QED
  BY <1>1, <1>5, <1>6, <1>7

\* Every step keeps it.
LEMMA OnceKept == CacheInv /\ OnceInv /\ [Next]_vars => OnceInv'
<1> SUFFICES ASSUME CacheInv, OnceInv, [Next]_vars
             PROVE  OnceInv'
  OBVIOUS
<1>1. ASSUME UNCHANGED <<mirror, cache>>, stack' = stack,
             NotThereYet'
      PROVE  OnceInv'
  BY <1>1 DEF OnceInv, EachBlockOnce, ItsTagStands, CallsAdvance, Live
<1>2. ASSUME NEW pc \in Addresses, LookupBlock(pc)
      PROVE  OnceInv'
  <2>1. /\ UNCHANGED <<mirror, cache>> /\ stack' = stack
        /\ pending' = IF IsTag(mirror[pc]) THEN Unset ELSE pc
    BY <1>2 DEF LookupBlock, tables
  <2>2. NotThereYet'
    BY <2>1 DEF NotThereYet, Idle
  <2> QED
    BY <1>1, <2>1, <2>2
<1>3. CASE Translate
  <2>1. ~Idle /\ stack = <<>> /\ pending \in Addresses
    BY <1>3 DEF Translate, Idle, CacheInv, TypeOK
  <2>2. Live = {} \/ ~IsTag(mirror[pending])
    BY <2>1 DEF OnceInv, NotThereYet
  <2>3. CASE TranslateBlock(pending)
    BY <2>1, <2>2, <2>3, TranslateOnce
  <2>4. CASE Overflow(pending)
    BY <2>4, FlushOnce DEF Overflow, FlushRam
  <2> QED
    BY <1>3, <2>3, <2>4 DEF Translate
<1>4. CASE LinkExit
  BY <1>4, LinkExitOnce
<1>5. CASE FinishBlock
  <2>1. /\ UNCHANGED <<mirror, cache>> /\ stack' = Tail(stack) /\ stack # <<>>
        /\ pending' = IF Len(stack) = 1 THEN Unset ELSE pending
    BY <1>5 DEF FinishBlock, tables
  <2>2. /\ stack \in Seq(Frame) /\ Tail(stack) \in Seq(Frame)
        /\ Tail(stack) = <<>> <=> Len(stack) = 1
        /\ \A i \in DOMAIN Tail(stack) : i + 1 \in DOMAIN stack /\ Tail(stack)[i] = stack[i + 1]
    BY <2>1, Popped DEF CacheInv, TypeOK
  <2>3. CallsAdvance'
    <3> SUFFICES ASSUME NEW i \in DOMAIN stack', NEW j \in DOMAIN stack', i < j
                 PROVE  stack'[j].block < stack'[i].block
      BY DEF CallsAdvance
    <3>1. i + 1 \in DOMAIN stack /\ j + 1 \in DOMAIN stack
          /\ stack'[i] = stack[i + 1] /\ stack'[j] = stack[j + 1]
      BY <2>1, <2>2
    <3>2. i \in Nat /\ j \in Nat
      BY <2>1, <2>2
    <3>3. i + 1 < j + 1
      BY <3>2
    <3> QED
      BY <3>1, <3>3 DEF OnceInv, CallsAdvance
  <2>4. NotThereYet'
    BY <2>1, <2>2 DEF NotThereYet, Idle
  <2>5. EachBlockOnce' /\ ItsTagStands'
    BY <2>1 DEF OnceInv, EachBlockOnce, ItsTagStands, Live
  <2> QED
    BY <2>3, <2>4, <2>5 DEF OnceInv
<1>6. ASSUME Idle, stack' = stack, pending' = pending, EmptyCache
      PROVE  OnceInv'
  BY <1>6, FlushOnce DEF CacheInv, CallsNest
<1>7. CASE Store
  <2>1. Idle /\ stack' = stack /\ pending' = pending
    BY <1>7 DEF Store
  <2>2. UNCHANGED <<mirror, cache>> \/ EmptyCache
    BY <1>7 DEF Store, FlushRam, tables
  <2>3. NotThereYet'
    BY <2>1 DEF NotThereYet, Idle
  <2> QED
    BY <1>1, <1>6, <2>1, <2>2, <2>3
<1>8. CASE StoreUnchecked
  <2>1. /\ Idle /\ UNCHANGED <<mirror, cache>> /\ stack' = stack /\ pending' = pending
    BY <1>8 DEF StoreUnchecked, tables
  <2>2. NotThereYet'
    BY <2>1 DEF NotThereYet, Idle
  <2> QED
    BY <1>1, <2>1, <2>2
<1>9. CASE InitCaches
  BY <1>6, <1>9 DEF InitCaches
<1>10. CASE UNCHANGED vars
  <2>1. /\ UNCHANGED <<mirror, cache>> /\ stack' = stack /\ pending' = pending
    BY <1>10 DEF vars, tables
  <2>2. NotThereYet'
    BY <2>1 DEF NotThereYet, Idle, OnceInv, Live
  <2> QED
    BY <1>1, <2>1, <2>2
<1> QED
  BY <1>2, <1>3, <1>4, <1>5, <1>7, <1>8, <1>9, <1>10 DEF Next, Recompile

\* It holds of every state.
LEMMA OnceHolds == Spec => [](CacheInv /\ OnceInv)
<1>1. Init => OnceInv
  BY DEF Init, OnceInv, EachBlockOnce, ItsTagStands, CallsAdvance, NotThereYet, Idle, Live
<1> QED
  BY <1>1, CacheInvHolds, OnceKept, PTL DEF Spec

\* No address is translated twice between two flushes, however translations nest, fail and
\* start again: the cache never spends room on a second copy of a block.
THEOREM TranslatedOnce == Spec => []EachBlockOnce
<1>1. OnceInv => EachBlockOnce
  BY DEF OnceInv
<1> QED
  BY <1>1, OnceHolds, PTL

\* translate_block and block_lookup_address call each other once for every address at most,
\* whatever the code branches to: a loop of branches ends the recursion.
THEOREM RecursionEnds == Spec => []RecursionBounded
<1>1. CacheInv /\ OnceInv => RecursionBounded
  <2> SUFFICES ASSUME CacheInv, OnceInv PROVE RecursionBounded
    OBVIOUS
  <2>1. stack \in Seq(Frame)
    BY DEF CacheInv, TypeOK
  <2>2. DOMAIN stack = 1 .. Len(stack) /\ Len(stack) \in Nat
    BY <2>1
  <2>. DEFINE addressOf == [i \in 1 .. Len(stack) |-> cache[stack[i].block].first]
  <2>3. \A i \in 1 .. Len(stack) : stack[i].block \in Live /\ stack[i].block \in Nat
    <3>1. \A p \in Live : p \in Nat
      BY SizesAssumption DEF CacheInv, TypeOK, Live
    <3> QED
      BY <2>2, <3>1 DEF CacheInv, FramesCurrent
  <2>4. addressOf \in [1 .. Len(stack) -> Addresses]
    BY <2>3 DEF OnceInv, ItsTagStands
  <2>5. ASSUME NEW i \in 1 .. Len(stack), NEW j \in 1 .. Len(stack), addressOf[i] = addressOf[j]
        PROVE  i = j
    <3>1. stack[i].block = stack[j].block
      BY <2>3, <2>5 DEF OnceInv, EachBlockOnce
    <3>2. ~(i < j) /\ ~(j < i)
      BY <2>2, <2>3, <3>1 DEF OnceInv, CallsAdvance
    <3> QED
      BY <3>2
  <2>. HIDE DEF addressOf
  <2>6. addressOf \in Injection(1 .. Len(stack), Addresses)
    BY <2>4, <2>5 DEF Injection, IsInjective
  <2>7. IsFiniteSet(Addresses) /\ Cardinality(Addresses) = Last + 1
    <3>1. /\ IsFiniteSet(0 .. Last)
          /\ Cardinality(0 .. Last) = IF 0 > Last THEN 0 ELSE Last - 0 + 1
      BY SizesAssumption, FS_Interval
    <3> QED
      BY <3>1, SizesAssumption DEF Addresses
  <2>8. Cardinality(1 .. Len(stack)) = Len(stack)
    <3>1. Cardinality(1 .. Len(stack)) = IF 1 > Len(stack) THEN 0 ELSE Len(stack) - 1 + 1
      BY <2>2, FS_Interval
    <3> QED
      BY <2>2, <3>1
  <2>9. Cardinality(1 .. Len(stack)) <= Cardinality(Addresses)
    BY <2>6, <2>7, FS_Injection
  <2> QED
    BY <2>7, <2>8, <2>9 DEF RecursionBounded
<1> QED
  BY <1>1, OnceHolds, PTL
-----------------------------------------------------------------------------
(***************************************************************************)
(* The room of the cache: translations lie apart, and a flush that comes   *)
(* after another one in the same lookup means that what the lookup reaches *)
(* does not fit.                                                           *)
(***************************************************************************)
Size(p) == Cardinality(DOMAIN cache[p].source)

\* No translation lies over another one, or over the room that is left.
BlocksApart ==
    \A p \in Live :
        /\ p + Size(p) <= translationPtr
        /\ \A q \in Live : p < q => p + Size(p) <= q

\* The blocks that are in the cache
Started == {cache[p].first : p \in Live}

\* Once the cache was flushed, a lookup has filled it with blocks that it must reach, and
\* the branches it has still to link lead to such blocks.
Reached ==
    flushCount > 0 /\ ~Idle =>
        /\ translationPtr = Cardinality(Code(Started))
        /\ \A starts \in SUBSET Addresses :
              pending \in starts /\ Closed(starts) =>
                  /\ Started \subseteq starts
                  /\ \A i \in DOMAIN stack : \A a \in stack[i].exits : memory[a].target \in starts

RoomInv == BlocksApart /\ Reached /\ OneFlush

\* A block that the lookup comes to and that is not in the cache
IsNext(first) ==
    /\ first \in Addresses \ Started
    /\ flushCount > 0 =>
          \A starts \in SUBSET Addresses : pending \in starts /\ Closed(starts) => first \in starts

\* A block is as long as its instructions are many.
LEMMA BlockSize ==
    ASSUME NEW first \in Addresses
    PROVE  /\ IsFiniteSet(first .. BlockEnd(first) - 1)
           /\ Cardinality(first .. BlockEnd(first) - 1) = BlockEnd(first) - first
           /\ BlockEnd(first) - first \in Nat \ {0}
<1>1. BlockEnd(first) \in Int /\ first \in Int /\ first <= BlockEnd(first) - 1
  BY BlockEndLemma, SizesAssumption DEF Addresses
<1>2. BlockEnd(first) - 1 \in Int
  BY <1>1
<1>3. /\ IsFiniteSet(first .. BlockEnd(first) - 1)
      /\ Cardinality(first .. BlockEnd(first) - 1)
           = IF first > BlockEnd(first) - 1 THEN 0 ELSE BlockEnd(first) - 1 - first + 1
  BY <1>1, <1>2, FS_Interval
<1>. QED BY <1>1, <1>3

LEMMA AddressesFinite == IsFiniteSet(Addresses) /\ Cardinality(Addresses) = Last + 1
<1>1. /\ IsFiniteSet(0 .. Last)
      /\ Cardinality(0 .. Last) = IF 0 > Last THEN 0 ELSE Last - 0 + 1
  BY SizesAssumption, FS_Interval
<1>. QED BY <1>1, SizesAssumption DEF Addresses

\* The translation of one block
LEMMA CodeOfOne ==
    ASSUME NEW first \in Addresses
    PROVE  IsFiniteSet(Code({first})) /\ Cardinality(Code({first})) = BlockEnd(first) - first
<1>. DEFINE body == first .. BlockEnd(first) - 1
            pair == [a \in body |-> <<first, a>>]
<1>1. body \subseteq Addresses
  BY BlockEndLemma, SizesAssumption DEF Addresses
<1>3. \A x : x \in Code({first}) <=> \E a \in body : x = <<first, a>>
  BY <1>1 DEF Code
<1>. HIDE DEF body
<1>4. pair \in [body -> Code({first})]
  BY <1>3
<1>5. \A a, b \in body : pair[a] = pair[b] => a = b
  OBVIOUS
<1>6. \A x \in Code({first}) : \E a \in body : pair[a] = x
  BY <1>3
<1>. HIDE DEF pair
<1>7. pair \in Bijection(body, Code({first}))
  BY <1>4, <1>5, <1>6 DEF Bijection, Injection, Surjection, IsInjective
<1>8. ExistsBijection(body, Code({first}))
  BY <1>7 DEF ExistsBijection
<1>9. /\ IsFiniteSet(body) /\ Cardinality(body) = BlockEnd(first) - first
  BY BlockSize DEF body
<1>. QED BY <1>8, <1>9, FS_Bijection

\* The translations of any blocks are finite, and one more adds its own length.
LEMMA CodeGrows ==
    ASSUME NEW starts \in SUBSET Addresses
    PROVE  /\ IsFiniteSet(Code(starts))
           /\ \A first \in Addresses \ starts :
                 Cardinality(Code(starts \cup {first}))
                   = Cardinality(Code(starts)) + (BlockEnd(first) - first)
           /\ \A more \in SUBSET Addresses : starts \subseteq more =>
                 Cardinality(Code(starts)) <= Cardinality(Code(more))
<1>1. IsFiniteSet(Addresses \X Addresses)
  BY AddressesFinite, FS_Product
<1>2. ASSUME NEW more \in SUBSET Addresses
      PROVE  IsFiniteSet(Code(more))
  <2>1. Code(more) \in SUBSET (Addresses \X Addresses)
    BY DEF Code
  <2>. QED BY <1>1, <2>1, FS_Subset
<1>3. ASSUME NEW first \in Addresses \ starts
      PROVE  Cardinality(Code(starts \cup {first}))
               = Cardinality(Code(starts)) + (BlockEnd(first) - first)
  <2>1. Code(starts \cup {first}) = Code(starts) \cup Code({first})
    BY DEF Code
  <2>2. Code(starts) \cap Code({first}) = {}
    BY DEF Code
  <2>3. IsFiniteSet(Code({first})) /\ Cardinality(Code({first})) = BlockEnd(first) - first
    BY CodeOfOne
  <2>4. Cardinality(Code(starts) \cup Code({first}))
          = Cardinality(Code(starts)) + Cardinality(Code({first})) - Cardinality({})
    BY <1>2, <2>2, <2>3, FS_Union
  <2>5. Cardinality(Code(starts)) \in Nat /\ BlockEnd(first) - first \in Nat
    BY <1>2, FS_CardinalityType, BlockSize
  <2>6. Cardinality({}) = 0
    BY FS_EmptySet
  <2>. DEFINE old == Cardinality(Code(starts))
              new == Cardinality(Code({first}))
              length == BlockEnd(first) - first
  <2>7. /\ Cardinality(Code(starts) \cup Code({first})) = old + new - 0
        /\ old \in Nat /\ new = length /\ length \in Nat
    BY <2>3, <2>4, <2>5, <2>6
  <2>. HIDE DEF old, new, length
  <2>8. Cardinality(Code(starts) \cup Code({first})) = old + length
    BY <2>7
  <2>. QED BY <2>1, <2>8 DEF old, length
<1>4. ASSUME NEW more \in SUBSET Addresses, starts \subseteq more
      PROVE  Cardinality(Code(starts)) <= Cardinality(Code(more))
  <2>1. Code(starts) \in SUBSET Code(more)
    BY <1>4 DEF Code
  <2>. QED BY <1>2, <2>1, FS_Subset
<1>. QED BY <1>2, <1>3, <1>4

\* What is scanned does not change while the memory does not.
LEMMA SameMemory ==
    ASSUME memory' = memory
    PROVE  /\ \A first : BlockEnd(first)' = BlockEnd(first)
           /\ \A starts : (Closed(starts)' <=> Closed(starts)) /\ Code(starts)' = Code(starts)
<1>1. ASSUME NEW first
      PROVE  BlockEnd(first)' = BlockEnd(first)
  BY DEF BlockEnd, EndsBlock, JoinsAfter, Branches
<1>2. ASSUME NEW first
      PROVE  ExternalExits(first)' = ExternalExits(first)
  BY <1>1 DEF ExternalExits, Branches
<1>3. ASSUME NEW starts
      PROVE  (Closed(starts)' <=> Closed(starts)) /\ Code(starts)' = Code(starts)
  BY <1>1, <1>2 DEF Closed, Code
<1>. QED BY <1>1, <1>3

LEMMA SizeIsNat ==
    ASSUME CacheInv, NEW p \in Live
    PROVE  Size(p) \in Nat /\ p \in Nat /\ p < translationPtr /\ translationPtr \in Nat
<1>1. p \in 0 .. Capacity /\ DOMAIN cache[p].source \subseteq Addresses
  BY DEF CacheInv, TypeOK, Live, IsBlock
<1>2. Size(p) \in Nat
  <2>1. DOMAIN cache[p].source \in SUBSET Addresses
    BY <1>1
  <2>2. IsFiniteSet(DOMAIN cache[p].source)
    BY <2>1, AddressesFinite, FS_Subset
  <2>. QED BY <2>2, FS_CardinalityType DEF Size
<1>. QED BY <1>1, <1>2, SizesAssumption DEF CacheInv, CallsNest, TypeOK

\* A translation that fits lies behind the others, and is of a block that is reached.
LEMMA TranslateRoom ==
    ASSUME CacheInv, RoomInv, ~Idle, NEW first, IsNext(first), TranslateBlock(first)
    PROVE  RoomInv'
<1>. DEFINE here == translationPtr
            length == BlockEnd(first) - first
<1>0. first \in Addresses /\ first \notin Started /\ Started \subseteq Addresses
  <2>1. \A p \in Live : cache[p].first \in Addresses
    BY DEF CacheInv, TypeOK, IsBlock, Live
  <2>. QED BY <2>1 DEF IsNext, Started
<1>1. /\ Live' = Live \cup {here} /\ here \notin Live
      /\ cache'[here] = Translation(first)
      /\ \A p \in Live : cache'[p] = cache[p]
      /\ stack'[1] = [block |-> here, exits |-> ExternalExits(first)]
      /\ \A i \in DOMAIN stack' : i = 1 \/ (i - 1 \in DOMAIN stack /\ stack'[i] = stack[i - 1])
  BY <1>0, TranslateChanges
<1>2. /\ memory' = memory /\ pending' = pending /\ flushCount' = flushCount
      /\ translationPtr' = here + length
  BY DEF TranslateBlock
<1>3. /\ cache'[here].first = first
      /\ DOMAIN cache'[here].source = first .. BlockEnd(first) - 1
  BY <1>1 DEF Translation
<1>4. length \in Nat \ {0} /\ here \in Nat
  BY <1>0, BlockSize, SizesAssumption DEF CacheInv, TypeOK
<1>5. /\ \A p : p = here => Size(p)' = length
      /\ \A p \in Live : Size(p)' = Size(p)
  <2>1. Cardinality(DOMAIN cache'[here].source) = length
    BY <1>0, <1>3, BlockSize
  <2>2. \A p \in Live : Cardinality(DOMAIN cache'[p].source) = Cardinality(DOMAIN cache[p].source)
    BY <1>1
  <2>. QED BY <2>1, <2>2 DEF Size
<1>6. Started' = Started \cup {first}
  BY <1>1, <1>3 DEF Started
<1>7. BlocksApart'
  <2>1. ASSUME NEW p \in Live
        PROVE  /\ p + Size(p)' <= translationPtr'
               /\ p < here /\ p + Size(p)' <= here
               /\ \A q \in Live : p < q => p + Size(p)' <= q
    BY <1>2, <1>4, <1>5, SizeIsNat DEF RoomInv, BlocksApart
  <2>2. \A p : p = here => p + Size(p)' <= translationPtr'
    BY <1>2, <1>4, <1>5
  <2>3. \A q \in Live : ~(here < q)
    BY <1>4, SizeIsNat
  <2>4. ~(here < here)
    BY <1>4
  <2>5. SUFFICES ASSUME NEW p \in Live'
                 PROVE  /\ p + Size(p)' <= translationPtr'
                        /\ \A q \in Live' : p < q => p + Size(p)' <= q
    BY DEF BlocksApart
  <2>6. CASE p \in Live
    BY <1>1, <2>1, <2>6
  <2>7. CASE p = here
    BY <1>1, <2>2, <2>3, <2>4, <2>7
  <2>. QED BY <1>1, <2>5, <2>6, <2>7
<1>8. Reached'
  <2> SUFFICES ASSUME flushCount > 0
               PROVE  /\ translationPtr' = Cardinality(Code(Started)')
                      /\ \A starts \in SUBSET Addresses :
                            pending \in starts /\ Closed(starts) =>
                                /\ Started' \subseteq starts
                                /\ \A i \in DOMAIN stack' : \A a \in stack'[i].exits :
                                      memory[a].target \in starts
    BY <1>2, SameMemory DEF Reached
  <2>1. translationPtr' = Cardinality(Code(Started)')
    <3>1. Code(Started)' = Code(Started \cup {first})
      BY <1>2, <1>6, SameMemory DEF Code
    <3>2. Cardinality(Code(Started \cup {first})) = Cardinality(Code(Started)) + length
      BY <1>0, CodeGrows
    <3>3. translationPtr = Cardinality(Code(Started))
      BY DEF RoomInv, Reached
    <3>. QED BY <1>2, <3>1, <3>2, <3>3
  <2>2. ASSUME NEW starts \in SUBSET Addresses, pending \in starts, Closed(starts)
        PROVE  /\ Started' \subseteq starts
               /\ \A i \in DOMAIN stack' : \A a \in stack'[i].exits : memory[a].target \in starts
    <3>1. /\ Started \subseteq starts
          /\ \A i \in DOMAIN stack : \A a \in stack[i].exits : memory[a].target \in starts
      BY <2>2 DEF RoomInv, Reached
    <3>2. first \in starts
      BY <2>2 DEF IsNext
    <3>3. \A a \in ExternalExits(first) : memory[a].target \in starts
      BY <2>2, <3>2 DEF Closed
    <3>4. \A a \in stack'[1].exits : memory[a].target \in starts
      BY <1>1, <3>3
    <3>. QED BY <1>1, <1>6, <3>1, <3>2, <3>4
  <2>. QED BY <2>1, <2>2
<1>9. OneFlush'
  BY <1>2, SameMemory DEF RoomInv, OneFlush, FitsEmptyCache, Idle
<1>. QED BY <1>7, <1>8, <1>9 DEF RoomInv

\* A block that does not fit beside those that were translated since the last flush: together
\* they are more than the cache can hold.
LEMMA OverflowRoom ==
    ASSUME CacheInv, RoomInv, ~Idle, NEW first, IsNext(first), Overflow(first)
    PROVE  RoomInv'
<1>0. first \in Addresses /\ first \notin Started /\ Started \subseteq Addresses
  <2>1. \A p \in Live : cache[p].first \in Addresses
    BY DEF CacheInv, TypeOK, IsBlock, Live
  <2>. QED BY <2>1 DEF IsNext, Started
<1>1. /\ Live' = {} /\ Started' = {} /\ translationPtr' = 0
      /\ stack' = <<>> /\ DOMAIN stack' = {}
      /\ memory' = memory /\ pending' = pending /\ flushCount' = flushCount + 1
  BY DEF Overflow, FlushRam, EmptyCache, Rewound, Live, Started
<1>2. BlocksApart'
  BY <1>1 DEF BlocksApart
<1>3. Reached'
  <2>1. Code(Started)' = {}
    BY <1>1 DEF Code
  <2>. QED BY <1>1, <2>1, FS_EmptySet DEF Reached
<1>4. ASSUME NEW starts \in SUBSET Addresses, pending \in starts, Closed(starts), flushCount > 0
      PROVE  Capacity < Cardinality(Code(starts))
  <2>1. Started \subseteq starts /\ first \in starts
    BY <1>4 DEF RoomInv, Reached, IsNext
  <2>2. Cardinality(Code(Started \cup {first}))
          = Cardinality(Code(Started)) + (BlockEnd(first) - first)
    BY <1>0, CodeGrows
  <2>3. Cardinality(Code(Started)) = translationPtr
    BY <1>4 DEF RoomInv, Reached
  <2>4. Cardinality(Code(Started \cup {first})) <= Cardinality(Code(starts))
    <3>1. Started \cup {first} \in SUBSET Addresses /\ Started \cup {first} \subseteq starts
      BY <1>0, <2>1
    <3>. QED BY <3>1, CodeGrows
  <2>5. ~(translationPtr + (BlockEnd(first) - first) <= Capacity)
    BY DEF Overflow, Fits
  <2>6. /\ translationPtr \in Nat /\ Capacity \in Nat
        /\ BlockEnd(first) - first \in Nat
        /\ Cardinality(Code(starts)) \in Nat
    <3>1. IsFiniteSet(Code(starts))
      BY CodeGrows
    <3>. QED BY <1>0, <3>1, FS_CardinalityType, BlockSize, SizesAssumption DEF CacheInv, TypeOK
  <2>. QED BY <2>2, <2>3, <2>4, <2>5, <2>6
<1>5. OneFlush'
  <2> SUFFICES ASSUME FitsEmptyCache(pending)'
               PROVE  flushCount' <= 1
    BY DEF OneFlush
  <2>1. PICK starts \in SUBSET Addresses :
            pending \in starts /\ Closed(starts) /\ Cardinality(Code(starts)) <= Capacity
    BY <1>1, SameMemory DEF FitsEmptyCache
  <2>2. flushCount \in Nat /\ Capacity \in Nat /\ Cardinality(Code(starts)) \in Nat
    <3>1. IsFiniteSet(Code(starts))
      BY CodeGrows
    <3>. QED BY <3>1, FS_CardinalityType, SizesAssumption DEF CacheInv, TypeOK
  <2>3. ~(flushCount > 0)
    BY <1>4, <2>1, <2>2
  <2>. QED BY <1>1, <2>2, <2>3
<1>. QED BY <1>2, <1>3, <1>5 DEF RoomInv

\* The block that is translated next is not there yet, and is reached.
LEMMA NextBlock ==
    ASSUME CacheInv, OnceInv, RoomInv
    PROVE  /\ Translate => ~Idle /\ IsNext(pending)
           /\ stack # <<>> =>
                 \A source \in Head(stack).exits :
                    ~IsTag(mirror[memory[source].target]) =>
                        ~Idle /\ IsNext(memory[source].target)
<1>1. \A first \in Addresses : ~IsTag(mirror[first]) => first \notin Started
  BY DEF OnceInv, ItsTagStands, Started
<1>2. ASSUME Translate
      PROVE  ~Idle /\ IsNext(pending)
  <2>1. ~Idle /\ stack = <<>> /\ pending \in Addresses
    BY <1>2 DEF Translate, Idle, CacheInv, TypeOK
  <2>2. Live = {} \/ ~IsTag(mirror[pending])
    BY <2>1 DEF OnceInv, NotThereYet
  <2>3. pending \notin Started
    BY <1>1, <2>1, <2>2 DEF Started
  <2>. QED BY <2>1, <2>3 DEF IsNext
<1>3. ASSUME stack # <<>>, NEW source \in Head(stack).exits,
             ~IsTag(mirror[memory[source].target])
      PROVE  ~Idle /\ IsNext(memory[source].target)
  <2>1. stack \in Seq(Frame) /\ 1 \in DOMAIN stack /\ Head(stack) = stack[1]
    BY <1>3 DEF CacheInv, TypeOK
  <2>2. memory[source].target \in Addresses
    BY <2>1 DEF CacheInv, FramesCurrent
  <2>3. ~Idle
    BY <1>3 DEF CacheInv, CallsNest
  <2>4. flushCount > 0 =>
          \A starts \in SUBSET Addresses :
              pending \in starts /\ Closed(starts) => memory[source].target \in starts
    BY <2>1, <2>3 DEF RoomInv, Reached
  <2>. QED BY <1>1, <1>3, <2>2, <2>3, <2>4 DEF IsNext
<1>. QED BY <1>2, <1>3

\* A link changes a field of its block that says nothing about its place or length.
LEMMA LinkedFields ==
    ASSUME CacheInv, stack # <<>>, NEW source, NEW address,
           cache' = Linked(source, address),
           stack' = [stack EXCEPT ![1].exits = ExitsLeft(@, source)]
    PROVE  /\ Live' = Live
           /\ \A p \in Live : cache'[p].first = cache[p].first /\ cache'[p].source = cache[p].source
           /\ DOMAIN stack' = DOMAIN stack
           /\ stack'[1] = [block |-> stack[1].block, exits |-> stack[1].exits \ {source}]
           /\ \A i \in DOMAIN stack : i # 1 => stack'[i] = stack[i]
<1>. DEFINE own == Head(stack).block
<1>1. /\ stack \in Seq(Frame) /\ 1 \in DOMAIN stack /\ Head(stack) = stack[1]
      /\ stack[1] \in Frame
  BY DEF CacheInv, TypeOK
<1>2. own \in Live
  BY <1>1 DEF CacheInv, FramesCurrent
<1>3. /\ Live' = Live
      /\ \A p \in Live : p # own => cache'[p] = cache[p]
      /\ cache'[own] = [cache[own] EXCEPT !.links[source] = address]
  BY <1>2 DEF Linked, Live
<1>4. IsBlock(cache[own])
  BY <1>2 DEF CacheInv, TypeOK, Live
<1>5. cache[own] = [first |-> cache[own].first, source |-> cache[own].source,
                    links |-> cache[own].links]
  BY <1>4 DEF IsBlock
<1>6. cache'[own].first = cache[own].first /\ cache'[own].source = cache[own].source
  BY <1>3, <1>5
<1>7. /\ [stack[1] EXCEPT !.exits = @ \ {source}]
           = [block |-> stack[1].block, exits |-> stack[1].exits \ {source}]
  BY <1>1, FrameExits
<1>8. stack' = [stack EXCEPT ![1] = [stack[1] EXCEPT !.exits = @ \ {source}]]
  BY DEF ExitsLeft
<1>. QED BY <1>1, <1>3, <1>6, <1>7, <1>8

\* A link takes no room and leaves fewer branches.
LEMMA LinkRoom ==
    ASSUME CacheInv, RoomInv, stack # <<>>, NEW source, NEW address,
           cache' = Linked(source, address),
           stack' = [stack EXCEPT ![1].exits = ExitsLeft(@, source)],
           UNCHANGED <<memory, translationPtr, pending, flushCount>>
    PROVE  RoomInv'
<1>1. /\ Live' = Live
      /\ \A p \in Live : cache'[p].first = cache[p].first /\ cache'[p].source = cache[p].source
      /\ DOMAIN stack' = DOMAIN stack
      /\ stack'[1] = [block |-> stack[1].block, exits |-> stack[1].exits \ {source}]
      /\ \A i \in DOMAIN stack : i # 1 => stack'[i] = stack[i]
  BY LinkedFields
<1>2. Started' = Started /\ \A p \in Live : Size(p)' = Size(p)
  BY <1>1 DEF Started, Size
<1>3. \A i \in DOMAIN stack : \A a \in stack'[i].exits : a \in stack[i].exits
  BY <1>1
<1>4. BlocksApart'
  BY <1>1, <1>2 DEF RoomInv, BlocksApart
<1>5. Code(Started)' = Code(Started)
  BY <1>2, SameMemory DEF Code
<1>6. Reached'
  BY <1>1, <1>2, <1>3, <1>5, SameMemory DEF RoomInv, Reached, Idle
<1>7. OneFlush'
  BY SameMemory DEF RoomInv, OneFlush, FitsEmptyCache, Idle
<1>. QED BY <1>4, <1>6, <1>7 DEF RoomInv

LEMMA LinkExitRoom ==
    ASSUME CacheInv, OnceInv, RoomInv, LinkExit
    PROVE  RoomInv'
<1>1. PICK source \in Head(stack).exits :
          \/ /\ IsTag(mirror[memory[source].target])
             /\ cache' = Linked(source, blockPtrs[mirror[memory[source].target]])
             /\ stack' = [stack EXCEPT ![1].exits = ExitsLeft(@, source)]
             /\ UNCHANGED <<memory, translationPtr, pending, flushCount>>
          \/ /\ ~IsTag(mirror[memory[source].target])
             /\ \/ TranslateBlock(memory[source].target)
                \/ Overflow(memory[source].target)
  BY DEF LinkExit
<1>2. stack # <<>>
  BY DEF LinkExit
<1>3. CASE cache' = Linked(source, blockPtrs[mirror[memory[source].target]])
           /\ stack' = [stack EXCEPT ![1].exits = ExitsLeft(@, source)]
           /\ UNCHANGED <<memory, translationPtr, pending, flushCount>>
  BY <1>2, <1>3, LinkRoom
<1>4. CASE ~IsTag(mirror[memory[source].target])
  <2>1. ~Idle /\ IsNext(memory[source].target)
    BY <1>2, <1>4, NextBlock
  <2>. DEFINE target == memory[source].target
  <2>. HIDE DEF target
  <2>2. CASE TranslateBlock(target)
    BY <2>1, <2>2, TranslateRoom DEF target
  <2>3. CASE Overflow(target)
    BY <2>1, <2>3, OverflowRoom DEF target
  <2>. QED BY <1>1, <1>3, <1>4, <2>2, <2>3 DEF target
<1>. QED BY <1>1, <1>3, <1>4

\* Every step keeps the account.
LEMMA RoomKept == CacheInv /\ OnceInv /\ RoomInv /\ [Next]_vars => RoomInv'
<1> SUFFICES ASSUME CacheInv, OnceInv, RoomInv, [Next]_vars
             PROVE  RoomInv'
  OBVIOUS
<1>1. ASSUME UNCHANGED <<cache, translationPtr>>
      PROVE  BlocksApart'
  BY <1>1 DEF RoomInv, BlocksApart, Live, Size
<1>2. ASSUME EmptyCache
      PROVE  BlocksApart'
  BY <1>2 DEF BlocksApart, EmptyCache, Live
<1>3. ASSUME Idle'
      PROVE  Reached' /\ OneFlush'
  BY <1>3 DEF Reached, OneFlush
<1>4. ASSUME NEW pc \in Addresses, LookupBlock(pc)
      PROVE  RoomInv'
  <2>1. UNCHANGED <<cache, translationPtr>> /\ flushCount' = 0
    BY <1>4 DEF LookupBlock, tables
  <2>. QED BY <1>1, <2>1 DEF RoomInv, Reached, OneFlush
<1>5. CASE Translate
  <2>1. ~Idle /\ IsNext(pending)
    BY <1>5, NextBlock
  <2>. QED BY <1>5, <2>1, TranslateRoom, OverflowRoom DEF Translate
<1>6. CASE LinkExit
  BY <1>6, LinkExitRoom
<1>7. CASE FinishBlock
  <2>1. /\ UNCHANGED <<cache, translationPtr, memory, flushCount>>
        /\ stack' = Tail(stack) /\ stack # <<>>
        /\ pending' = Unset \/ pending' = pending
    BY <1>7 DEF FinishBlock, tables
  <2>2. \A i \in DOMAIN Tail(stack) : i + 1 \in DOMAIN stack /\ Tail(stack)[i] = stack[i + 1]
    BY <2>1, Popped DEF CacheInv, TypeOK
  <2>3. CASE pending' = Unset
    BY <1>1, <1>3, <2>1, <2>3 DEF RoomInv, Idle
  <2>4. CASE pending' = pending
    <3>1. Started' = Started /\ Code(Started)' = Code(Started)
      BY <2>1, SameMemory DEF Started, Live, Code
    <3>2. \A i \in DOMAIN stack' : \A a \in stack'[i].exits :
              \E j \in DOMAIN stack : a \in stack[j].exits
      BY <2>1, <2>2
    <3>3. Reached'
      BY <2>1, <2>4, <3>1, <3>2, SameMemory DEF RoomInv, Reached, Idle
    <3>4. OneFlush'
      BY <2>1, <2>4, SameMemory DEF RoomInv, OneFlush, FitsEmptyCache, Idle
    <3>. QED BY <1>1, <2>1, <3>3, <3>4 DEF RoomInv
  <2>. QED BY <2>1, <2>3, <2>4
<1>8. ASSUME Idle, pending' = pending, UNCHANGED <<cache, translationPtr>> \/ EmptyCache
      PROVE  RoomInv'
  BY <1>1, <1>2, <1>3, <1>8 DEF RoomInv, Idle
<1>9. CASE Store
  BY <1>8, <1>9 DEF Store, FlushRam, tables
<1>10. CASE StoreUnchecked
  BY <1>8, <1>10 DEF StoreUnchecked, tables
<1>11. CASE InitCaches
  BY <1>8, <1>11 DEF InitCaches
<1>12. CASE UNCHANGED vars
  <2>1. UNCHANGED <<cache, translationPtr, memory, flushCount, stack, pending>>
    BY <1>12 DEF vars, tables
  <2>2. Started' = Started /\ Code(Started)' = Code(Started)
    BY <2>1, SameMemory DEF Started, Live, Code
  <2>3. Reached'
    BY <2>1, <2>2, SameMemory DEF RoomInv, Reached, Idle
  <2>4. OneFlush'
    BY <2>1, SameMemory DEF RoomInv, OneFlush, FitsEmptyCache, Idle
  <2>. QED BY <1>1, <2>1, <2>3, <2>4 DEF RoomInv
<1>. QED
  BY <1>4, <1>5, <1>6, <1>7, <1>9, <1>10, <1>11, <1>12 DEF Next, Recompile

\* It holds of every state.
LEMMA RoomHolds == Spec => [](CacheInv /\ OnceInv /\ RoomInv)
<1>1. Init => RoomInv
  BY DEF Init, RoomInv, BlocksApart, Reached, OneFlush, Idle, Live
<1>. QED BY <1>1, OnceHolds, RoomKept, PTL DEF Spec

\* Translated code is not overwritten by what is translated after it, nor by that of a
\* translation that fails: whatever order blocks are translated in, they lie side by side.
THEOREM TranslationsApart == Spec => []BlocksApart
<1>1. RoomInv => BlocksApart
  BY DEF RoomInv
<1>. QED BY <1>1, RoomHolds, PTL

\* For every memory, every size of the cache and whatever the cache held before: a lookup
\* flushes it twice only when the code that it reaches is more than the cache can hold.
THEOREM SecondFlushIsNeeded == Spec => []OneFlush
<1>1. RoomInv => OneFlush
  BY DEF RoomInv
<1>. QED BY <1>1, RoomHolds, PTL
-----------------------------------------------------------------------------
(***************************************************************************)
(* The recursion comes to its end: what a lookup has still to do is a      *)
(* number, and every step of it but a flush lowers that number.            *)
(***************************************************************************)
\* The branches that are still to be linked, by the depth of their translation
ToLink ==
    {i \in (1 .. Len(stack)) \X Addresses : i[2] \in stack[Len(stack) + 1 - i[1]].exits}

\* A block that is not in the cache stands for its own translation, one branch at each of
\* its instructions, and its return.
WorkOf(blocks, frames, branches) == (Last + 3) * blocks + frames + branches

Work == WorkOf(Cardinality(Addresses \ Started), Len(stack), Cardinality(ToLink))

\* translate_block_builder goes on to its end or flushes the cache: no two blocks wait for
\* each other's translation, and none is translated again and again.
LookupAdvances == [][Recompile => Work \in Nat /\ (flushCount' > flushCount \/ Work' < Work)]_vars

LEMMA ToLinkFinite ==
    ASSUME CacheInv
    PROVE  /\ stack \in Seq(Frame) /\ Len(stack) \in Nat
           /\ IsFiniteSet(ToLink) /\ Cardinality(ToLink) \in Nat
<1>1. stack \in Seq(Frame) /\ Len(stack) \in Nat
  BY DEF CacheInv, TypeOK
<1>2. IsFiniteSet((1 .. Len(stack)) \X Addresses)
  <2>1. IsFiniteSet(1 .. Len(stack))
    BY <1>1, FS_Interval
  <2>. QED BY <2>1, AddressesFinite, FS_Product
<1>3. ToLink \in SUBSET ((1 .. Len(stack)) \X Addresses)
  BY DEF ToLink
<1>. QED BY <1>1, <1>2, <1>3, FS_Subset, FS_CardinalityType

LEMMA BlocksLeftFinite ==
    IsFiniteSet(Addresses \ Started) /\ Cardinality(Addresses \ Started) \in Nat
<1>1. Addresses \ Started \in SUBSET Addresses
  OBVIOUS
<1>. QED BY <1>1, AddressesFinite, FS_Subset, FS_CardinalityType

LEMMA WorkIsNat == ASSUME CacheInv PROVE Work \in Nat
<1>. DEFINE blocks == Cardinality(Addresses \ Started)
            branches == Cardinality(ToLink)
<1>1. blocks \in Nat /\ Len(stack) \in Nat /\ branches \in Nat /\ Last \in Nat
  BY ToLinkFinite, BlocksLeftFinite, SizesAssumption
<1>. HIDE DEF blocks, branches
<1>2. (Last + 3) * blocks \in Nat
  BY <1>1
<1>3. Work = (Last + 3) * blocks + Len(stack) + branches
  BY DEF Work, WorkOf, blocks, branches
<1>. QED BY <1>1, <1>2, <1>3

\* One block less outweighs one more translation and as many branches as it can have.
LEMMA BlockOutweighs ==
    ASSUME NEW blocks \in Nat \ {0}, NEW frames \in Nat, NEW branches \in Nat,
           NEW new \in 0 .. Last + 1
    PROVE  WorkOf(blocks - 1, frames + 1, branches + new) < WorkOf(blocks, frames, branches)
<1>1. (Last + 3) * (blocks - 1) = (Last + 3) * blocks - (Last + 3) /\ (Last + 3) * blocks \in Nat
  BY SizesAssumption
<1>. DEFINE all == (Last + 3) * blocks
            fewer == (Last + 3) * (blocks - 1)
<1>2. fewer = all - (Last + 3) /\ all \in Nat /\ Last \in Nat
  BY <1>1, SizesAssumption
<1>. HIDE DEF all, fewer
<1>3. fewer + (frames + 1) + (branches + new) < all + frames + branches
  BY <1>2
<1>. QED BY <1>3 DEF WorkOf, all, fewer

\* Of two lookups that lack the same blocks, the one with fewer translations and branches
\* has less to do.
LEMMA LessWork ==
    ASSUME NEW blocks \in Nat, NEW frames \in Nat, NEW branches \in Nat,
           NEW frames2 \in Nat, NEW branches2 \in Nat, frames2 + branches2 < frames + branches
    PROVE  WorkOf(blocks, frames2, branches2) < WorkOf(blocks, frames, branches)
<1>. DEFINE all == (Last + 3) * blocks
<1>1. all \in Nat
  BY SizesAssumption
<1>. HIDE DEF all
<1>2. all + frames2 + branches2 < all + frames + branches
  BY <1>1
<1>. QED BY <1>2 DEF WorkOf, all

LEMMA TranslateAdvances ==
    ASSUME CacheInv, NEW first, IsNext(first), TranslateBlock(first)
    PROVE  Work' < Work
<1>. DEFINE exits == ExternalExits(first)
            depth == Len(stack) + 1
            frame == [block |-> translationPtr, exits |-> exits]
<1>0. first \in Addresses /\ first \notin Started
  BY DEF IsNext
<1>1. exits \in SUBSET Addresses
  <2>1. first .. BlockEnd(first) - 1 \subseteq Addresses
    BY <1>0, BlockEndLemma, SizesAssumption DEF Addresses
  <2>. QED BY <2>1 DEF ExternalExits, Branches
<1>2. /\ Live' = Live \cup {translationPtr}
      /\ cache'[translationPtr] = Translation(first)
      /\ \A p \in Live : cache'[p] = cache[p]
  BY <1>0, TranslateChanges
<1>3. Addresses \ Started' = (Addresses \ Started) \ {first}
  BY <1>2 DEF Started, Translation
<1>4. /\ Cardinality(Addresses \ Started') = Cardinality(Addresses \ Started) - 1
      /\ Cardinality(Addresses \ Started) \in Nat \ {0}
  <2>1. Cardinality(Addresses \ Started') = Cardinality(Addresses \ Started) - 1
    BY <1>0, <1>3, BlocksLeftFinite, FS_RemoveElement
  <2>2. Cardinality(Addresses \ Started) # 0
    BY <1>0, BlocksLeftFinite, FS_EmptySet
  <2>. QED BY <2>1, <2>2, BlocksLeftFinite
<1>5. /\ Len(stack') = depth
      /\ stack'[1] = frame
      /\ \A i \in 1 .. Len(stack) : stack'[i + 1] = stack[i]
  <2>1. stack' = <<frame>> \o stack
    BY DEF TranslateBlock
  <2>2. stack \in Seq(Frame)
    BY ToLinkFinite
  <2>. HIDE DEF frame
  <2>. QED BY <2>1, <2>2
<1>6. ToLink' = ToLink \cup ({depth} \X exits)
  <2>1. \A i \in 1 .. Len(stack) :
            stack'[depth + 1 - i] = stack[Len(stack) + 1 - i]
    BY <1>5, ToLinkFinite
  <2>2. stack'[depth + 1 - depth].exits = exits
    <3>1. depth + 1 - depth = 1
      BY ToLinkFinite
    <3>. QED BY <1>5, <3>1
  <2>3. 1 .. depth = (1 .. Len(stack)) \cup {depth}
    BY ToLinkFinite
  <2>4. ToLink' = {i \in (1 .. depth) \X Addresses : i[2] \in stack'[depth + 1 - i[1]].exits}
    BY <1>5 DEF ToLink
  <2>. HIDE DEF depth, exits
  <2>. QED BY <1>1, <2>1, <2>2, <2>3, <2>4 DEF ToLink
<1>7. /\ ToLink \cap ({depth} \X exits) = {}
  BY ToLinkFinite DEF ToLink
<1>8. IsFiniteSet({depth} \X exits) /\ Cardinality({depth} \X exits) \in 0 .. Last + 1
  <2>1. IsFiniteSet(exits) /\ Cardinality(exits) \in Nat /\ Cardinality(exits) <= Last + 1
    BY <1>1, AddressesFinite, FS_Subset, FS_CardinalityType
  <2>2. IsFiniteSet({depth}) /\ Cardinality({depth}) = 1
    BY FS_Singleton
  <2>3. /\ IsFiniteSet({depth} \X exits)
        /\ Cardinality({depth} \X exits) = Cardinality({depth}) * Cardinality(exits)
    BY <2>1, <2>2, FS_Product
  <2>. QED BY <2>1, <2>2, <2>3, SizesAssumption
<1>. DEFINE blocks == Cardinality(Addresses \ Started)
            branches == Cardinality(ToLink)
            new == Cardinality({depth} \X exits)
<1>9. Cardinality(ToLink') = branches + new
  <2>1. Cardinality(ToLink \cup ({depth} \X exits)) = branches + new - Cardinality({})
    BY <1>7, <1>8, ToLinkFinite, FS_Union
  <2>2. Cardinality({}) = 0
    BY FS_EmptySet
  <2>3. branches \in Nat /\ new \in Nat
    BY <1>8, ToLinkFinite, SizesAssumption
  <2>. HIDE DEF branches, new
  <2>4. branches + new - Cardinality({}) = branches + new
    BY <2>2, <2>3
  <2>. QED BY <1>6, <2>1, <2>4
<1>10. Work' = WorkOf(blocks - 1, Len(stack) + 1, branches + new)
  BY <1>4, <1>5, <1>9 DEF Work, WorkOf
<1>11. blocks \in Nat \ {0} /\ Len(stack) \in Nat /\ branches \in Nat /\ new \in 0 .. Last + 1
  BY <1>4, <1>8, ToLinkFinite
<1>12. Work = WorkOf(blocks, Len(stack), branches)
  BY DEF Work
<1>. HIDE DEF blocks, branches, new
<1>. QED BY <1>10, <1>11, <1>12, BlockOutweighs

LEMMA LinkAdvances ==
    ASSUME CacheInv, stack # <<>>, NEW source \in Head(stack).exits, NEW address,
           cache' = Linked(source, address),
           stack' = [stack EXCEPT ![1].exits = ExitsLeft(@, source)]
    PROVE  Work' < Work
<1>1. /\ Live' = Live
      /\ \A p \in Live : cache'[p].first = cache[p].first
      /\ stack'[1] = [block |-> stack[1].block, exits |-> stack[1].exits \ {source}]
      /\ \A i \in DOMAIN stack : i # 1 => stack'[i] = stack[i]
  BY LinkedFields
<1>2. Started' = Started
  BY <1>1 DEF Started
<1>3. /\ Len(stack) \in Nat \ {0} /\ DOMAIN stack = 1 .. Len(stack) /\ Len(stack') = Len(stack)
      /\ Head(stack) = stack[1]
  BY ToLinkFinite
<1>4. source \in Addresses /\ source \in stack[1].exits
  <2>1. stack[1] \in Frame
    BY <1>3, ToLinkFinite
  <2>. QED BY <1>3, <2>1 DEF Frame
<1>. DEFINE depth == Len(stack)
<1>5. ToLink' = ToLink \ {<<depth, source>>} /\ <<depth, source>> \in ToLink
  <2>1. ToLink' = {i \in (1 .. depth) \X Addresses : i[2] \in stack'[depth + 1 - i[1]].exits}
    BY <1>3 DEF ToLink
  <2>2. ASSUME NEW d \in 1 .. depth, d # depth
        PROVE  stack'[depth + 1 - d] = stack[depth + 1 - d]
    <3>1. depth + 1 - d \in DOMAIN stack /\ depth + 1 - d # 1
      BY <1>3, <2>2
    <3>. QED BY <1>1, <3>1
  <2>3. depth + 1 - depth = 1 /\ depth \in 1 .. depth
    BY <1>3
  <2>4. stack'[1].exits = stack[1].exits \ {source}
    BY <1>1
  <2>5. \A i \in (1 .. depth) \X Addresses :
            i \in ToLink' <=> i[2] \in stack'[depth + 1 - i[1]].exits
    BY <2>1
  <2>6. \A i \in (1 .. depth) \X Addresses :
            i \in ToLink <=> i[2] \in stack[depth + 1 - i[1]].exits
    BY DEF ToLink
  <2>7. ToLink' \subseteq (1 .. depth) \X Addresses /\ ToLink \subseteq (1 .. depth) \X Addresses
    BY <2>1 DEF ToLink
  <2>. HIDE DEF depth
  <2>8. ASSUME NEW i \in (1 .. depth) \X Addresses
        PROVE  i \in ToLink' <=> i \in ToLink /\ i # <<depth, source>>
    <3>1. CASE i[1] = depth
      BY <2>3, <2>4, <2>5, <2>6, <3>1
    <3>2. CASE i[1] # depth
      <4>1. i[1] \in 1 .. depth
        OBVIOUS
      <4>2. stack'[depth + 1 - i[1]] = stack[depth + 1 - i[1]]
        BY <2>2, <3>2, <4>1
      <4>3. i # <<depth, source>>
        BY <3>2
      <4>. QED BY <2>5, <2>6, <4>2, <4>3
    <3>. QED BY <3>1, <3>2
  <2>9. <<depth, source>> \in (1 .. depth) \X Addresses
    BY <1>4, <2>3
  <2>10. <<depth, source>> \in ToLink
    BY <1>4, <2>3, <2>6, <2>9
  <2>. QED BY <2>7, <2>8, <2>10
<1>. DEFINE blocks == Cardinality(Addresses \ Started)
            branches == Cardinality(ToLink)
<1>6. Cardinality(ToLink') = branches - 1 /\ branches \in Nat \ {0}
  <2>1. Cardinality(ToLink') = branches - 1
    BY <1>5, ToLinkFinite, FS_RemoveElement
  <2>2. Cardinality(ToLink) # 0
    BY <1>5, ToLinkFinite, FS_EmptySet
  <2>. QED BY <2>1, <2>2, ToLinkFinite
<1>7. Work' = WorkOf(blocks, Len(stack), branches - 1)
  BY <1>2, <1>3, <1>6 DEF Work, WorkOf
<1>8. Work = WorkOf(blocks, Len(stack), branches)
  BY DEF Work
<1>9. blocks \in Nat
  BY BlocksLeftFinite
<1>. HIDE DEF blocks, branches
<1>. QED BY <1>3, <1>6, <1>7, <1>8, <1>9, LessWork

LEMMA FinishAdvances ==
    ASSUME CacheInv, FinishBlock
    PROVE  Work' < Work
<1>. DEFINE depth == Len(stack)
<1>1. /\ stack # <<>> /\ Head(stack).exits = {} /\ stack' = Tail(stack) /\ cache' = cache
  BY DEF FinishBlock, tables
<1>2. Started' = Started
  BY <1>1 DEF Started, Live
<1>3. /\ depth \in Nat \ {0} /\ Len(stack') = depth - 1
      /\ \A i \in 1 .. depth - 1 : stack'[i] = stack[i + 1]
      /\ Head(stack) = stack[1]
  BY <1>1, ToLinkFinite
<1>4. ToLink' = ToLink
  <2>1. ToLink' = {i \in (1 .. depth - 1) \X Addresses : i[2] \in stack'[depth - i[1]].exits}
    BY <1>3 DEF ToLink
  <2>2. \A d \in 1 .. depth - 1 : stack'[depth - d] = stack[depth + 1 - d]
    BY <1>3
  <2>3. depth + 1 - depth = 1 /\ 1 .. depth = (1 .. depth - 1) \cup {depth}
    BY <1>3
  <2>4. \A i \in (1 .. depth) \X Addresses :
          i[2] \in stack[depth + 1 - i[1]].exits => i \in (1 .. depth - 1) \X Addresses
    BY <1>1, <1>3, <2>3
  <2>5. \A i \in (1 .. depth - 1) \X Addresses :
          /\ i \in (1 .. depth) \X Addresses
          /\ stack'[depth - i[1]] = stack[depth + 1 - i[1]]
    BY <2>2, <2>3
  <2>6. ToLink = {i \in (1 .. depth) \X Addresses : i[2] \in stack[depth + 1 - i[1]].exits}
    BY DEF ToLink
  <2>. HIDE DEF depth
  <2>. QED BY <2>1, <2>4, <2>5, <2>6
<1>. DEFINE blocks == Cardinality(Addresses \ Started)
            branches == Cardinality(ToLink)
<1>5. Work' = WorkOf(blocks, depth - 1, branches) /\ Work = WorkOf(blocks, depth, branches)
  BY <1>2, <1>3, <1>4 DEF Work, WorkOf
<1>6. blocks \in Nat /\ branches \in Nat
  BY BlocksLeftFinite, ToLinkFinite
<1>. HIDE DEF blocks, branches
<1>. QED BY <1>3, <1>5, <1>6, LessWork

\* Whatever the memory holds, a lookup translates, links or returns, each of which leaves it
\* less to do, until it flushes the cache or is done.
THEOREM LookupsAdvance == Spec => LookupAdvances
<1>1. ASSUME CacheInv, OnceInv, RoomInv, Recompile
      PROVE  Work \in Nat /\ (flushCount' > flushCount \/ Work' < Work)
  <2>1. Work \in Nat
    BY <1>1, WorkIsNat
  <2>2. ASSUME NEW first, Overflow(first)
        PROVE  flushCount' > flushCount
    BY <1>1, <2>2 DEF Overflow, CacheInv, TypeOK
  <2>3. CASE Translate
    <3>1. IsNext(pending)
      BY <1>1, <2>3, NextBlock
    <3>. QED BY <1>1, <2>1, <2>2, <2>3, <3>1, TranslateAdvances DEF Translate
  <2>4. CASE LinkExit
    <3>1. PICK source \in Head(stack).exits :
              \/ /\ cache' = Linked(source, blockPtrs[mirror[memory[source].target]])
                 /\ stack' = [stack EXCEPT ![1].exits = ExitsLeft(@, source)]
              \/ /\ ~IsTag(mirror[memory[source].target])
                 /\ \/ TranslateBlock(memory[source].target)
                    \/ Overflow(memory[source].target)
      BY <2>4 DEF LinkExit
    <3>2. stack # <<>>
      BY <2>4 DEF LinkExit
    <3>3. CASE /\ cache' = Linked(source, blockPtrs[mirror[memory[source].target]])
               /\ stack' = [stack EXCEPT ![1].exits = ExitsLeft(@, source)]
      BY <1>1, <2>1, <3>2, <3>3, LinkAdvances
    <3>4. CASE ~IsTag(mirror[memory[source].target])
      <4>1. IsNext(memory[source].target)
        BY <1>1, <3>2, <3>4, NextBlock
      <4>. DEFINE target == memory[source].target
      <4>. HIDE DEF target
      <4>2. TranslateBlock(target) => Work' < Work
        BY <1>1, <4>1, TranslateAdvances DEF target
      <4>3. Overflow(target) => flushCount' > flushCount
        BY <2>2
      <4>. QED BY <2>1, <3>1, <3>3, <3>4, <4>2, <4>3 DEF target
    <3>. QED BY <3>1, <3>3, <3>4
  <2>5. CASE FinishBlock
    BY <1>1, <2>1, <2>5, FinishAdvances
  <2>. QED BY <1>1, <2>3, <2>4, <2>5 DEF Recompile
<1>2. CacheInv /\ OnceInv /\ RoomInv /\ [Next]_vars =>
        [Recompile => Work \in Nat /\ (flushCount' > flushCount \/ Work' < Work)]_vars
  BY <1>1
<1>. QED BY <1>2, RoomHolds, PTL DEF Spec, LookupAdvances
=============================================================================
