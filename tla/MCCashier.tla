------------------------------ MODULE MCCashier ------------------------------
(***************************************************************************)
(* What is done at one cashier, for TLC: the scene updates of the control  *)
(* center, and the scripts that operators run on FARCARDS.INI and on       *)
(* GuestScreen.  The modules share no state: "focus" says which one a      *)
(* behaviour is about, and the others stay as they begin.                  *)
(***************************************************************************)
EXTENDS MCSceneUpdate, FarcardsConfig, CashierUpkeep

VARIABLE focus

MCInit ==
  /\ focus \in {"scenes", "farcards", "upkeep"}
  /\ Init /\ FarcardsInit /\ UpkeepInit
  /\ focus # "farcards" => ini = Target /\ farcards = {}
  /\ IF focus = "upkeep" THEN version = "new" <=> runtime
                         ELSE ~loggedOn /\ version = "new" /\ runtime

MCNext ==
  \/ focus = "scenes" /\ Next /\ UNCHANGED <<focus, farcardsVars, upkeepVars>>
  \/ focus = "farcards" /\ FarcardsNext /\ UNCHANGED <<focus, vars, upkeepVars>>
  \/ focus = "upkeep" /\ UpkeepNext /\ UNCHANGED <<focus, vars, farcardsVars>>

MCSpec == MCInit /\ [][MCNext]_<<focus, vars, farcardsVars, upkeepVars>>

\* The scene in gs.db is followed while nobody is at the desk, and the desk while none is published:
\* no step reads both.  Where a property has an exception for good, one script is looked at.
Looked ==
  /\ ~spoilt
  /\ published > 0 => ~loggedOn
  /\ excused => \E v \in Visits : \A w \in Visits \ {v} : visits[w] = Away

Alike == Exchange \cup Permutations(Sweeps) \cup Permutations(Visits)
=============================================================================
