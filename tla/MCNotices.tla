------------------------------- MODULE MCNotices -------------------------------
(* Two tasks of one node, both reviewed: one rolls back the expiry of the other. *)
EXTENDS Notices

CONSTANTS n1, a1

OneNode == {n1}
TwoTasks == {1, 2}
OnNode1 == [t \in TwoTasks |-> n1]
OneAdmin == {a1}

================================================================================
