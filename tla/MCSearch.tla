------------------------------ MODULE MCSearch ------------------------------
EXTENDS Search

CONSTANTS t1, t2, x, y, f, g, p1, p2

\* The two models cut the second text differently.
MCSegments == [m \in {f, g} |-> [c \in {x, y} |-> IF m = f /\ c = y THEN 2 ELSE 1]]
MCPinned == [p \in {p1, p2} |-> IF p = p1 THEN f ELSE g]
=============================================================================
