------------------------------ MODULE MCCartridge ------------------------------
EXTENDS Cartridge

\* A block of either chip, and the last one of the large chip.
MCBlocks == {5, 1023}
MCData == {[i \in 1 .. BlockBits |-> IF i = BlockBits THEN 1 ELSE 0]}
MCTimes == {<<118, 0, 2, 3, 23, 59, 50>>}
\* Before the first line is read, in the middle of a transaction.
MCSavePoints == {24}
=============================================================================
