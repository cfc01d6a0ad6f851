------------------------------ MODULE MCFields ------------------------------
EXTENDS Fields, TLC

CONSTANTS t1, t2

\* Three priorities on two options: the last two share one.
MCOption == [p \in 0..2 |-> IF p = 0 THEN "high" ELSE "low"]
=============================================================================
