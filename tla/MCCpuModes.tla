----------------------------- MODULE MCCpuModes -----------------------------
(* CpuModes with interchangeable register contents. *)
EXTENDS CpuModes, TLC

\* A guest of system and IRQ mode, which may unmask interrupts inside a handler.
SystemPsrs == {[mode |-> "system", mask |-> mask] : mask \in BOOLEAN}
HandlerPsrs == SystemPsrs \cup {[mode |-> "irq", mask |-> FALSE]}
Unmasked == {[mode |-> "system", mask |-> FALSE]}

ValueSymmetry == Permutations(Values)
=============================================================================
