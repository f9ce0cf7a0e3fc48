------------------------------ MODULE AudioRing ------------------------------
(***************************************************************************)
(* The sound buffer of the SDL frontend: a ring that the main loop fills   *)
(* after every frame (plat_sound_write) and that SDL's audio thread        *)
(* empties (plat_sound_callback).  Both do so under SDL's audio lock, but  *)
(* plat_sound_capacity, from which synchronize decides whether to skip a   *)
(* frame, reads the two indices without it, while the callback may be      *)
(* moving one.  The main loop also toggles fast forward, which decides     *)
(* whether samples are written and whether a writer waits for room.        *)
(*                                                                         *)
(* The callback is modelled sample by sample, with the value buf_r has     *)
(* between "buf_r++" and "buf_r %= BUF_LEN"; the reads of                  *)
(* plat_sound_capacity one by one.  A build that keeps an index in a       *)
(* register sees a subset of these interleavings.                          *)
(***************************************************************************)
EXTENDS Integers

CONSTANTS
    BufLen,  \* BUF_LEN
    Batch,   \* samples of one plat_sound_write, 512
    Request, \* samples of one callback
    Samples, \* sample values
    Silence  \* the zeros of an underrun

ASSUME SizesAssumption ==
    BufLen \in Nat \ {0, 1} /\ Batch \in Nat \ {0} /\ Request \in Nat \ {0}
ASSUME SilenceAssumption == Silence \notin Samples

VARIABLES
    buf, bufW, bufR, \* the ring and its indices
    lock,       \* who holds the audio lock: "free", "main" or "audio"
    callback,   \* where plat_sound_callback is
    len,        \* samples it has still to store
    heard,      \* the sample the callback stored last
    main,       \* where the main loop is
    left,       \* samples plat_sound_write has still to store
    buffered,   \* what plat_sound_capacity computed last
    fastForward, limitFrames, processAudio, \* the settings ...
    limitWas, audioWas \* ... and those toggle_fast_forward has put aside

ring == <<buf, bufW, bufR>>
settings == <<fastForward, limitFrames, processAudio, limitWas, audioWas>>
audioVars == <<callback, len, heard>>
vars == <<ring, lock, audioVars, main, left, buffered, settings>>

Acquire(who) == lock = "free" /\ lock' = who
Release == lock' = "free"
-----------------------------------------------------------------------------
(***************************************************************************)
(* The audio thread.                                                       *)
(***************************************************************************)
CallbackBegins ==
    /\ callback = "out"
    /\ Acquire("audio")
    /\ callback' = "loop" /\ len' = Request
    /\ UNCHANGED <<ring, heard, main, left, buffered, settings>>

TakeSample ==
    /\ callback = "loop" /\ len > 0
    /\ bufR # bufW
    /\ heard' = buf[bufR]
    /\ bufR' = bufR + 1
    /\ callback' = "wrap"
    /\ UNCHANGED <<buf, bufW, lock, len, main, left, buffered, settings>>

\* Mutant: the index is wrapped one step late.
WrapLate(index) == IF index > BufLen THEN 0 ELSE index

Wrapped(index) == index % BufLen

WrapIndex ==
    /\ callback = "wrap"
    /\ bufR' = Wrapped(bufR)
    /\ callback' = "loop" /\ len' = len - 1
    /\ UNCHANGED <<buf, bufW, lock, heard, main, left, buffered, settings>>

CallbackEnds ==
    /\ callback = "loop" /\ (len = 0 \/ bufR = bufW)
    /\ heard' = IF len > 0 THEN Silence ELSE heard
    /\ callback' = "out" /\ len' = 0
    /\ Release
    /\ UNCHANGED <<ring, main, left, buffered, settings>>
-----------------------------------------------------------------------------
(***************************************************************************)
(* The main loop: update_input, synchronize, a frame, render_audio.        *)
(***************************************************************************)
\* Mutant: fast forward leaves the sound on.
SoundOn == processAudio

SoundOff == FALSE

\* toggle_fast_forward, from update_input
ToggleFastForward ==
    /\ main = "input"
    /\ fastForward' = ~fastForward
    /\ IF fastForward'
         THEN /\ limitWas' = limitFrames /\ audioWas' = processAudio
              /\ limitFrames' = FALSE /\ processAudio' = SoundOff
         ELSE /\ limitFrames' = limitWas /\ processAudio' = audioWas
              /\ UNCHANGED <<limitWas, audioWas>>
    /\ UNCHANGED <<ring, lock, audioVars, main, left, buffered>>

\* plat_sound_capacity: buf_w # buf_r, buf_w > buf_r, and the difference
CompareEqual ==
    /\ main = "input"
    /\ IF bufW = bufR THEN main' = "frame" /\ buffered' = 0
                      ELSE main' = "compare" /\ UNCHANGED buffered
    /\ UNCHANGED <<ring, lock, audioVars, left, settings>>

CompareGreater ==
    /\ main = "compare"
    /\ main' = IF bufW > bufR THEN "above" ELSE "below"
    /\ UNCHANGED <<ring, lock, audioVars, left, buffered, settings>>

\* Mutant: the wrap of the indices is forgotten.
NoWrap(w, r) == w - r

AroundEnd(w, r) == w + BufLen - r

Subtract ==
    /\ main \in {"above", "below"}
    /\ buffered' = IF main = "above" THEN bufW - bufR ELSE AroundEnd(bufW, bufR)
    /\ main' = "frame"
    /\ UNCHANGED <<ring, lock, audioVars, left, settings>>

\* render_audio: as many batches as the frame has filled
BeginWrite ==
    /\ main \in {"frame", "rendered"} /\ processAudio
    /\ Acquire("main")
    /\ main' = "write" /\ left' = Batch
    /\ UNCHANGED <<ring, audioVars, buffered, settings>>

EndFrame ==
    /\ main \in {"frame", "rendered"}
    /\ main' = "input"
    /\ UNCHANGED <<ring, lock, audioVars, left, buffered, settings>>

\* Mutant: the index is compared before it is wrapped.
FullUnwrapped == bufW + 1 = bufR

Full == (bufW + 1) % BufLen = bufR

\* Mutant: the samples written are not counted.
RestKept == left

Rest == left - 1

PutSample ==
    /\ main = "write" /\ left > 0 /\ ~Full
    /\ \E s \in Samples : buf' = [buf EXCEPT ![bufW] = s]
    /\ bufW' = (bufW + 1) % BufLen
    /\ left' = Rest
    /\ UNCHANGED <<bufR, lock, audioVars, main, buffered, settings>>

\* There is no room: the writer sleeps for a while, or drops the rest.
FindFull ==
    /\ main = "write" /\ left > 0 /\ Full
    /\ Release
    /\ main' = IF limitFrames THEN "sleep" ELSE "rendered"
    /\ UNCHANGED <<ring, audioVars, left, buffered, settings>>

WakeUp ==
    /\ main = "sleep"
    /\ Acquire("main")
    /\ main' = "write"
    /\ UNCHANGED <<ring, audioVars, left, buffered, settings>>

EndWrite ==
    /\ main = "write" /\ left = 0
    /\ Release
    /\ main' = "rendered"
    /\ UNCHANGED <<ring, audioVars, left, buffered, settings>>

Init ==
    /\ \E s \in Samples : buf = [i \in 0 .. BufLen - 1 |-> s]
    /\ bufW = 0 /\ bufR = 0
    /\ lock = "free"
    /\ callback = "out" /\ len = 0
    /\ heard = Silence
    /\ main = "input" /\ left = 0 /\ buffered = 0
    /\ fastForward = FALSE /\ limitFrames = TRUE /\ processAudio = TRUE
    /\ limitWas = FALSE /\ audioWas = FALSE

CallbackStep == TakeSample \/ WrapIndex \/ CallbackEnds
WriteStep == PutSample \/ FindFull \/ EndWrite

Next ==
    \/ CallbackBegins \/ CallbackStep
    \/ ToggleFastForward \/ CompareEqual \/ CompareGreater \/ Subtract
    \/ BeginWrite \/ EndFrame \/ WriteStep \/ WakeUp

(***************************************************************************)
(* A thread that may run runs.  The audio device asks for samples at its   *)
(* own pace, leaving the lock free for most of the time, and the writer    *)
(* lets go of it after every batch: each gets the lock in the end.  The    *)
(* main loop owes nothing more; the game may never play a sample.          *)
(***************************************************************************)
Fairness ==
    /\ SF_vars(CallbackBegins) /\ WF_vars(CallbackStep)
    /\ SF_vars(WakeUp) /\ WF_vars(WriteStep)

Spec == Init /\ [][Next]_vars
FairSpec == Spec /\ Fairness
-----------------------------------------------------------------------------
TypeOK ==
    /\ buf \in [0 .. BufLen - 1 -> Samples]
    /\ bufW \in 0 .. BufLen - 1
    /\ bufR \in 0 .. BufLen
    /\ bufR = BufLen => callback = "wrap"
    /\ lock \in {"free", "main", "audio"}
    /\ callback \in {"out", "loop", "wrap"}
    /\ len \in 0 .. Request
    /\ callback = "wrap" => len > 0
    /\ heard \in Samples \cup {Silence}
    /\ main \in {"input", "compare", "above", "below", "frame", "write", "sleep",
                "rendered"}
    /\ left \in 0 .. Batch
    /\ buffered \in Int
    /\ fastForward \in BOOLEAN /\ limitFrames \in BOOLEAN /\ processAudio \in BOOLEAN
    /\ limitWas \in BOOLEAN /\ audioWas \in BOOLEAN

\* The samples in the ring, around its end
Count == (bufW + BufLen - bufR) % BufLen

\* The ring is a queue of BufLen - 1 samples, with two indices that two threads
\* move and nothing else: no sample is overwritten before it is heard, heard twice
\* or out of order, and silence is heard only when no sample is left.
Queue == INSTANCE AudioQueue
    WITH Capacity <- BufLen - 1,
         queue <- [i \in 1 .. Count |-> buf[(bufR + i - 1) % BufLen]]

RingIsQueue == Queue!Spec

\* plat_sound_capacity may read indices that never stood side by side, but it errs
\* to one side only: it never finds fewer samples than there are, so synchronize
\* skips no frame because of the race.
NeverUnderstated == main = "frame" => Count <= buffered

\* Fast forward stops the sound together with the frame limit, and restores them
\* together: no write is ever cut short for want of room.
NothingDropped == [][main = "write" /\ main' = "rendered" => left = 0]_vars

\* plat_sound_write returns: a writer that waits for room gets it.
WritesEnd == main \in {"write", "sleep"} ~> main = "rendered"
=============================================================================
