---------------------------- MODULE MCControlPlane ----------------------------
(***************************************************************************)
(* Small instances of ControlPlane for TLC.                                *)
(***************************************************************************)
EXTENDS ControlPlane, TLC

CONSTANTS n1, a1, a2

\* One node, two tasks of which the second is reviewed: the smallest instance in
\* which a claim, a review and a cancel of different tasks compete for a node.
OneNode == {n1}
TwoTasks == {1, 2}
OnNode1 == [t \in TwoTasks |-> n1]

OneTask == {1}
OneOnNode1 == [t \in OneTask |-> n1]
ReviewOnly == {1}

OneAdmin == {a1}
TwoAdmins == {a1, a2}

\* The agent posts one event, "running"; the endpoint accepts seven.
AgentEvents == {"running"}

AdminSymmetry == Permutations(TwoAdmins)

================================================================================
