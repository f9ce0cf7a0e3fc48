------------------------- MODULE MCTranslationCache -------------------------
(* Programs for TLC. *)
EXTENDS TranslationCache

op == [kind |-> "op", target |-> Unset]
return == [kind |-> "return", target |-> Unset]
to(kind, target) == [kind |-> kind, target |-> target]

\* Code that jumps ahead and loops back.  What the guest patches into it makes blocks
\* that run on, join, close a loop, or have as many branches as a block may have.
Loop == {<<to("branch_if", 3), op, op, to("branch_if", 0), return>>}
AtZero(program) == [a \in Addresses |-> program[a + 1]]
LoopAndCall == {AtZero(p) : p \in Loop}
Middle == {<<1, to("branch_if", 3)>>, <<2, op>>, <<2, to("branch", 0)>>}
=============================================================================
