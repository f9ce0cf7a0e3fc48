----------------------------- MODULE MCDirectSound -----------------------------
EXTENDS DirectSound

Program(type, address, again, samples) ==
    [type |-> type, address |-> address, again |-> again, length |-> samples]

\* Sound for the FIFO, with and without repeat, and for no FIFO; transfers that fill the
\* FIFO without being linked to it, and one that may find a link left behind.
MCPrograms ==
    {Program("special", "A", TRUE, 1), Program("special", "A", FALSE, 1),
     Program("special", "memory", TRUE, 1),
     Program("vblank", "memory", FALSE, 1), Program("immediately", "A", TRUE, 2)}
=============================================================================
