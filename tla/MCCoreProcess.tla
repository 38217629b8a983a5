--------------------------- MODULE MCCoreProcess ---------------------------
\* A small instance of CoreProcess.
EXTENDS CoreProcess

CONSTANTS c1, c2, core, hand

TwoChains   == {c1, c2}
CoreAndHand == {core, hand}

\* A retry waits more than no tick, the second more than one: the order of the
\* code's 60 and 300 seconds, and the smallest that tells the two apart.
Backoffs == [n \in 0..2 |-> IF n = 2 THEN 1 ELSE 0]
=============================================================================
