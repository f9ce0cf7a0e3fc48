-------------------------- MODULE BankedRegisters --------------------------
(***************************************************************************)
(* What the register banks of the CPU promise the guest: every processor   *)
(* mode has a stack pointer and a link register of its own, the registers  *)
(* below them are common to all modes, and changing the mode changes none  *)
(* of them.  An exception taken from another mode leaves its return        *)
(* address in the link register of the mode it is taken into.              *)
(***************************************************************************)
CONSTANTS Modes, Values

VARIABLES
    mode,  \* the current mode
    sp,    \* sp[m]: the stack pointer of mode m
    lr,    \* lr[m]: its link register
    common \* the registers that are not banked, as one

vars == <<mode, sp, lr, common>>

Init ==
    /\ mode \in Modes
    /\ sp \in [Modes -> Values]
    /\ lr \in [Modes -> Values]
    /\ common \in Values

WriteSp == /\ sp' \in {[sp EXCEPT ![mode] = v] : v \in Values}
           /\ UNCHANGED <<mode, lr, common>>

WriteLr == /\ lr' \in {[lr EXCEPT ![mode] = v] : v \in Values}
           /\ UNCHANGED <<mode, sp, common>>

WriteCommon == /\ common' \in Values
               /\ UNCHANGED <<mode, sp, lr>>

Switch ==
    /\ mode' \in Modes
    /\ UNCHANGED <<sp, lr, common>>

Exception ==
    /\ mode' \in Modes \ {mode}
    /\ lr' \in {[lr EXCEPT ![mode'] = v] : v \in Values}
    /\ UNCHANGED <<sp, common>>

Next == WriteSp \/ WriteLr \/ WriteCommon \/ Switch \/ Exception

Spec == Init /\ [][Next]_vars
=============================================================================
