-------------------------------- MODULE MCFleet --------------------------------
(* Instances of Fleet for TLC: one node and its agent. *)
EXTENDS Fleet

MCTasks1 == {1}
MCTasks2 == {1, 2}
MCNodeOf == [t \in Tasks |-> CHOOSE n \in Nodes : TRUE]

================================================================================
