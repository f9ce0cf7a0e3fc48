--------------------------- MODULE TranslationCache ---------------------------
(***************************************************************************)
(* The translation cache of the dynamic recompiler (cpu_threaded.c) for    *)
(* code in RAM.  block_lookup_address translates the block at a pc and,    *)
(* recursively, the blocks it branches to.  A mirror of the RAM remembers  *)
(* what has been translated: at the start of a block its tag, an index     *)
(* into ram_block_ptrs, and a mark at every other instruction.  A store    *)
(* that sees the mirror of its address not empty flushes the cache; a byte *)
(* store sees one byte of it only.  A translation that does not fit        *)
(* flushes the cache too, and the outermost one starts again.              *)
(*                                                                         *)
(* One memory stands for IWRAM, and for EWRAM but for its end: scan_block  *)
(* stops at 0x3007FF0 but not at 0x203FFF0, for it compares with           *)
(* 0x203FFFF0 (cpu_threaded.c:2996), and what a block that runs past the   *)
(* end of EWRAM does to code_max is left out.  One instruction stands for  *)
(* an address, one unit of the cache for a translated instruction.  The    *)
(* last 16 bytes of the memory hold no code and are left out; so are       *)
(* translation gates, which end a block early, and exits to the BIOS,      *)
(* whose blocks are in a cache of their own.                               *)
(***************************************************************************)
EXTENDS Integers, Sequences, FiniteSets

CONSTANTS
    Last,         \* the last address that may hold code
    Capacity,     \* instructions the cache holds
    MaxBlock,     \* MAX_BLOCK_SIZE, 8192 instructions
    MaxExits,     \* MAX_EXITS, 256 branches
    ByteValues,   \* 256: an entry of the mirror has two bytes
    Targets,      \* targets of direct branches
    Programs,     \* what the memory may hold at first
    Patches,      \* <<address, instruction>> pairs the guest stores
    Mark,         \* 0xFFFF in the mirror
    Unset         \* 0xFFFFFFFF, and a pc that is not there

Addresses == 0 .. Last
Instruction ==
    [kind: {"op", "return"}, target: {Unset}]
      \cup [kind: {"branch", "branch_if"}, target: Targets]

ASSUME SizesAssumption == Last \in Nat /\ Capacity \in Nat /\ Capacity > Last
ASSUME BlockAssumption == MaxBlock \in Nat \ {0} /\ MaxExits \in Nat \ {0}
ASSUME ByteAssumption == ByteValues \in Nat \ {0, 1}
ASSUME CodeAssumption ==
    /\ Targets \subseteq Addresses
    /\ Programs \subseteq [Addresses -> Instruction]
    /\ Patches \subseteq Addresses \X Instruction
ASSUME NamesAssumption == Mark \notin Nat /\ Unset \notin Nat

VARIABLES
    memory,         \* the code in RAM
    mirror,         \* 0, a tag or Mark
    tagTop,         \* ram_block_tag_top
    blockPtrs,      \* ram_block_ptrs
    translationPtr, \* ram_translation_ptr
    cache,          \* the blocks translated since the last flush, by their address in it
    codeMin, codeMax, \* iwram_code_min, iwram_code_max
    pending,        \* the pc of the outermost lookup, Unset when there is none
    stack,          \* the translations under way: their block and the branches
                    \* they have still to link
    flushCount,     \* translation_flush_count
    unchecked,      \* addresses written since the last flush by a store that did not
                    \* look at the mirror or saw a byte of it that is 0 (history)
    aborted         \* the tags left in the mirror of blocks that did not fit (history)

tables == <<mirror, tagTop, blockPtrs, translationPtr, cache, codeMin, codeMax>>
history == <<unchecked, aborted>>
vars == <<memory, tables, pending, stack, flushCount, history>>
-----------------------------------------------------------------------------
(***************************************************************************)
(* scan_block                                                              *)
(***************************************************************************)
Branches(first, last) ==
    {a \in first .. last : memory[a].kind \in {"branch", "branch_if"}}

\* A branch of the block, other than the latest one, leads to the next instruction.
JoinsAfter(first, last) ==
    \E a, b \in Branches(first, last) : a < b /\ memory[a].target = last + 1

EndsBlock(first, a) ==
    \/ memory[a].kind \in {"branch", "return"} /\ ~JoinsAfter(first, a)
    \/ memory[a].kind # "op" /\ Cardinality(Branches(first, a)) = MaxExits
    \/ a + 1 - first = MaxBlock
    \/ a = Last

\* block_end_pc, the address after the block
BlockEnd(first) ==
    CHOOSE end \in first + 1 .. Last + 1 :
        /\ EndsBlock(first, end - 1)
        /\ \A a \in first .. end - 2 : ~EndsBlock(first, a)

\* The branches that leave the block
ExternalExits(first) ==
    {a \in Branches(first, BlockEnd(first) - 1) :
        memory[a].target \notin first .. BlockEnd(first) - 1}
-----------------------------------------------------------------------------
IsTag(entry) == entry \notin {0, Mark}

\* 0x0101, and one tag for every block there is room for
FirstTag == ByteValues + 1
Tags == FirstTag .. FirstTag + Capacity

\* fill_tag and smc_write
TaggedMirror(first) ==
    [a \in Addresses |->
        IF a = first THEN tagTop
        ELSE IF a \in first .. BlockEnd(first) - 1 /\ mirror[a] = 0 THEN Mark
        ELSE mirror[a]]

LowerMin(first) == IF codeMin = Unset \/ first < codeMin THEN first ELSE codeMin
RaiseMax(end) == IF codeMax = Unset \/ end > codeMax THEN end ELSE codeMax

\* The part of the mirror a flush clears.  When no translation has been finished
\* code_max is still 0xFFFFFFFF and stands for the end of the memory.
Swept(min) ==
    IF min = Unset THEN {}
    ELSE {a \in Addresses : min <= a /\ (codeMax = Unset \/ a < codeMax)}

\* Mutant: the cache is not rewound.
NotRewound == translationPtr

Rewound == 0

\* Mutant: the tags are not started over.
TagsGoOn == tagTop

TagsStartOver == FirstTag

\* What flush_translation_cache_ram does besides clearing the mirror.
EmptyCache ==
    /\ tagTop' = TagsStartOver
    /\ translationPtr' = Rewound
    /\ cache' = <<>>
    /\ codeMin' = Unset /\ codeMax' = Unset
    /\ unchecked' = {}

FlushRam(marks, min) ==
    /\ mirror' = [a \in Addresses |-> IF a \in Swept(min) THEN 0 ELSE marks[a]]
    /\ EmptyCache

TagsLeft(addresses) == {a \in addresses : IsTag(mirror'[a])}
-----------------------------------------------------------------------------
(***************************************************************************)
(* The lookup of a block.                                                  *)
(***************************************************************************)
Idle == pending = Unset

\* block_lookup_address from the code that runs: the block is there, or has to
\* be translated.
LookupBlock(pc) ==
    /\ Idle
    /\ flushCount' = 0
    /\ pending' = IF IsTag(mirror[pc]) THEN Unset ELSE pc
    /\ UNCHANGED <<memory, tables, stack, history>>

Fits(first) == translationPtr + (BlockEnd(first) - first) <= Capacity

\* Mutant: two blocks get the same tag.
SameTag == tagTop

NextTag == tagTop + 1

Translation(first) ==
    [first |-> first,
     source |-> [a \in first .. BlockEnd(first) - 1 |-> memory[a]],
     links |-> [a \in ExternalExits(first) |-> Unset]]

\* translate_block up to the links.
TranslateBlock(first) ==
    LET here == translationPtr
        end == BlockEnd(first)
    IN
    /\ Fits(first)
    /\ mirror' = TaggedMirror(first)
    /\ blockPtrs' = [blockPtrs EXCEPT ![tagTop] = here]
    /\ tagTop' = NextTag
    /\ codeMin' = LowerMin(first)
    /\ codeMax' = RaiseMax(end)
    /\ translationPtr' = here + (end - first)
    /\ cache' = [p \in DOMAIN cache \cup {here} |->
           IF p = here THEN Translation(first) ELSE cache[p]]
    /\ stack' = <<[block |-> here, exits |-> ExternalExits(first)]>> \o stack
    /\ aborted' = aborted \ {first}
    /\ UNCHANGED <<memory, pending, flushCount, unchecked>>

\* The block does not fit: the cache is flushed, every translation under way fails,
\* and the outermost one is done again.  code_max does not know the block yet.
Overflow(first) ==
    /\ ~Fits(first)
    /\ blockPtrs' = [blockPtrs EXCEPT ![tagTop] = translationPtr]
    /\ FlushRam(TaggedMirror(first), LowerMin(first))
    /\ aborted' = TagsLeft(aborted \cup {first})
    /\ flushCount' = flushCount + 1
    /\ stack' = <<>>
    /\ UNCHANGED <<memory, pending>>

\* The outermost translation, at first or again
Translate ==
    /\ ~Idle /\ stack = <<>>
    /\ TranslateBlock(pending) \/ Overflow(pending)

\* The address of a block is patched into the branch at "source".
Linked(source, address) ==
    [cache EXCEPT ![Head(stack).block].links[source] = address]

\* Mutant: a branch that has been linked is not crossed off.
AllLeft(exits, source) == exits

\* The branches that come after the one at "source"
ExitsLeft(exits, source) == exits \ {source}

\* The innermost translation links its next branch: to a block that is there, or
\* to one that is translated first.
LinkExit ==
    /\ stack # <<>>
    /\ \E source \in Head(stack).exits :
          LET target == memory[source].target
          IN
          /\ \A other \in Head(stack).exits : source <= other
          /\ \/ /\ IsTag(mirror[target])
                /\ cache' = Linked(source, blockPtrs[mirror[target]])
                /\ stack' = [stack EXCEPT ![1].exits = ExitsLeft(@, source)]
                /\ UNCHANGED <<memory, mirror, tagTop, blockPtrs, translationPtr,
                               codeMin, codeMax, pending, flushCount, history>>
             \/ /\ ~IsTag(mirror[target])
                /\ TranslateBlock(target) \/ Overflow(target)

\* A translation has linked all its branches and returns the block.
FinishBlock ==
    /\ stack # <<>> /\ Head(stack).exits = {}
    /\ stack' = Tail(stack)
    /\ pending' = IF Len(stack) = 1 THEN Unset ELSE pending
    /\ UNCHANGED <<memory, tables, flushCount, history>>

Recompile == Translate \/ LinkExit \/ FinishBlock
-----------------------------------------------------------------------------
(***************************************************************************)
(* What the code that runs does to the memory.                             *)
(***************************************************************************)
\* Mutant: only the start of a block is looked for.
HitsTag(seen) == IsTag(seen)

\* The first byte of an entry.  The mark has no byte that is 0.
LowByte(entry) == IF entry = Mark THEN Mark ELSE entry % ByteValues

\* What a store may see of the mirror of an address: the whole entry, or one byte of it.
\* The second byte of a tag is never 0 and tells as much as the entry.
Seen(a) == {mirror[a], LowByte(mirror[a])}

HitsCode(seen) == seen # 0

\* A store that looks at the mirror: one by an instruction, the last one of a
\* block transfer, or an immediate DMA without an interrupt.  A byte store may find
\* the byte it looks at 0 in an entry that is not empty.
Store ==
    /\ Idle
    /\ \E patch \in Patches : \E seen \in Seen(patch[1]) :
          LET a == patch[1] IN
          /\ memory' = [memory EXCEPT ![a] = patch[2]]
          /\ \/ /\ ~HitsCode(seen)
                /\ unchecked' = IF seen = mirror[a] THEN unchecked ELSE unchecked \cup {a}
                /\ UNCHANGED <<tables, aborted>>
             \/ /\ HitsCode(seen)
                /\ FlushRam(mirror, codeMin)
                /\ aborted' = TagsLeft(aborted)
                /\ UNCHANGED blockPtrs
    /\ UNCHANGED <<pending, stack, flushCount>>

\* A store whose look at the mirror is not made or is lost: the first words of a
\* block transfer, a DMA with an interrupt (dma_transfer returns one alert only),
\* a DMA that update_gba or sound_timer started.
StoreUnchecked ==
    /\ Idle
    /\ \E patch \in Patches :
          /\ memory' = [memory EXCEPT ![patch[1]] = patch[2]]
          /\ unchecked' = unchecked \cup {patch[1]}
    /\ UNCHANGED <<tables, pending, stack, flushCount, aborted>>

\* init_caches: a reset, a savestate, a cheat's hook.
InitCaches ==
    /\ Idle
    /\ mirror' = [a \in Addresses |-> 0]
    /\ blockPtrs' = [t \in Tags |-> 0]
    /\ EmptyCache
    /\ aborted' = {}
    /\ UNCHANGED <<memory, pending, stack, flushCount>>

Init ==
    /\ memory \in Programs
    /\ mirror = [a \in Addresses |-> 0]
    /\ tagTop = FirstTag
    /\ blockPtrs = [t \in Tags |-> 0]
    /\ translationPtr = 0
    /\ cache = <<>>
    /\ codeMin = Unset /\ codeMax = Unset
    /\ pending = Unset
    /\ stack = <<>>
    /\ flushCount = 0
    /\ unchecked = {}
    /\ aborted = {}

Next ==
    \/ \E pc \in Addresses : LookupBlock(pc)
    \/ Recompile
    \/ Store \/ StoreUnchecked \/ InitCaches

Spec == Init /\ [][Next]_vars

\* The recompiler is a function call: it goes on.
FairSpec == Spec /\ WF_vars(Recompile)
-----------------------------------------------------------------------------
IsBlock(b) ==
    /\ b \in [first: Addresses,
              source: [DOMAIN b.source -> Instruction],
              links: [DOMAIN b.links -> 0 .. Capacity \cup {Unset}]]
    /\ DOMAIN b.source \subseteq Addresses

Frame == [block: 0 .. Capacity, exits: SUBSET Addresses]

TypeOK ==
    /\ memory \in [Addresses -> Instruction]
    /\ mirror \in [Addresses -> Tags \cup {0, Mark}]
    /\ tagTop \in FirstTag .. FirstTag + Capacity + 1
    /\ blockPtrs \in [Tags -> 0 .. Capacity]
    /\ translationPtr \in 0 .. Capacity
    /\ DOMAIN cache \subseteq 0 .. Capacity
    /\ \A p \in DOMAIN cache : IsBlock(cache[p])
    /\ codeMin \in Addresses \cup {Unset}
    /\ codeMax \in 1 .. Last + 1 \cup {Unset}
    /\ pending \in Addresses \cup {Unset}
    /\ stack \in Seq(Frame)
    /\ flushCount \in Nat
    /\ unchecked \subseteq Addresses
    /\ aborted \subseteq Addresses

Live == DOMAIN cache

\* No stale code is run: a translated block is the translation of what its addresses
\* hold now, but for addresses written by stores that do not look at the mirror, and
\* by byte stores that meet a tag whose low byte is 0.
BlocksCurrent ==
    \A p \in Live : \A a \in DOMAIN cache[p].source :
        cache[p].source[a] = memory[a] \/ a \in unchecked

\* A tag leads to the translation of its own address, and so does every link of a
\* block, except where a translation that did not fit has left its tag.  When the
\* code may run, no branch is left without its link.
BeginsAt(p, a) == p \in Live /\ cache[p].first = a

TagsLive ==
    /\ \A a \in Addresses \ aborted :
          IsTag(mirror[a]) => BeginsAt(blockPtrs[mirror[a]], a)
    /\ \A p \in Live : \A a \in DOMAIN cache[p].links :
          \/ cache[p].links[a] = Unset /\ ~Idle
          \/ cache[p].source[a].target \in aborted
          \/ BeginsAt(cache[p].links[a], cache[p].source[a].target)

\* The translations of the blocks at "starts", instruction by instruction
Code(starts) ==
    {i \in starts \X Addresses : i[2] \in i[1] .. BlockEnd(i[1]) - 1}

\* No block at "starts" branches to one that is not.
Closed(starts) ==
    \A first \in starts : \A source \in ExternalExits(first) : memory[source].target \in starts

\* The code that is reached from pc fits an empty cache.
FitsEmptyCache(pc) ==
    \E starts \in SUBSET Addresses :
        pc \in starts /\ Closed(starts) /\ Cardinality(Code(starts)) <= Capacity

\* cpu_threaded.c: "we allow for one translation cache flush".  No lookup needs another
\* one, unless the code it reaches does not fit at all: a flush gives back the whole
\* cache, and no room of it is spent twice.
OneFlush == ~Idle /\ FitsEmptyCache(pending) => flushCount <= 1

\* A lookup of code that fits ends.
LookupEnds == ~Idle /\ FitsEmptyCache(pending) ~> Idle
=============================================================================
