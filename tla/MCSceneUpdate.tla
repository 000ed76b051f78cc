--------------------------- MODULE MCSceneUpdate ---------------------------
(* Instantiates SceneUpdate for TLC: two executions, each with a content of its own, *)
(* on a cashier whose two rows show the same scene when it is delivered.            *)
EXTENDS SceneUpdate, TLC

CONSTANTS x1, x2, cA, cB, f1

MCPayloadOf == [x \in Executions |-> IF x = x2 THEN cB ELSE cA]
MCFactory == [r \in Rows |-> f1]

\* Exchanging the executions together with their contents changes nothing.
Exchange == {[v \in {x1, x2, cA, cB} |->
                CASE v = x1 -> x2 [] v = x2 -> x1 [] v = cA -> cB [] v = cB -> cA]}
=============================================================================
