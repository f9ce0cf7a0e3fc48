----------------------------- MODULE AudioQueue -----------------------------
(***************************************************************************)
(* What the frontend's sound buffer promises: a bounded queue between the  *)
(* emulator and the audio device.  Samples are heard once, in the order in *)
(* which they were written, and there is silence only when none is left.   *)
(***************************************************************************)
EXTENDS Integers, Sequences

CONSTANTS
    Samples,  \* sample values
    Silence,  \* what the device plays when there is no sample
    Capacity  \* samples the buffer can hold

VARIABLES
    queue, \* the samples written and not yet heard
    heard  \* what the device was given last

vars == <<queue, heard>>

Init == queue = <<>> /\ heard = Silence

Write ==
    /\ Len(queue) < Capacity
    /\ \E s \in Samples : queue' = Append(queue, s)
    /\ UNCHANGED heard

Hear ==
    /\ queue # <<>>
    /\ heard' = Head(queue)
    /\ queue' = Tail(queue)

Starve ==
    /\ queue = <<>>
    /\ heard' = Silence
    /\ UNCHANGED queue

Next == Write \/ Hear \/ Starve

SafeSpec == Init /\ [][Next]_vars

\* Every sample is heard in the end.
Spec == SafeSpec /\ WF_vars(Hear)
=============================================================================
