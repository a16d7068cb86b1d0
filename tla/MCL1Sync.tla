------------------------------ MODULE MCL1Sync ------------------------------
EXTENDS L1Sync

\* Blocks of the two tasks overlap in frames 3 to 6 of the cycle.
MCTrigger == [t \in Tasks |-> IF t = "ccch" THEN {0, 4} ELSE {3}]
=============================================================================
