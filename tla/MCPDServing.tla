----------------------------- MODULE MCPDServing -----------------------------
(* Instances of PDServing for TLC.                                         *)
EXTENDS PDServing

CONSTANTS r1, r2

Two == {r1, r2}
One == {r1}

(* r1 takes two chunks, r2 one.                                            *)
Chunks21 == [r \in Two |-> IF r = r1 THEN 2 ELSE 1]
Chunks2  == [r \in One |-> 2]
==============================================================================
