------------------------- MODULE MCConnectionLimits -------------------------
(* Instantiates ConnectionLimits for TLC: i1..i3 run in the API process, w1..w3 in *)
(* workers; the second branch has one execution of each kind.                      *)
EXTENDS ConnectionLimits

CONSTANTS i1, i2, i3, w1, w2, w3, b1, b2

MCBranchOf == [e \in Executions |-> IF e \in {i3, w3} THEN b2 ELSE b1]
=============================================================================
