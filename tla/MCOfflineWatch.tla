----------------------------- MODULE MCOfflineWatch -----------------------------
(* Two nodes whose events and one other fill a queue of two. *)
EXTENDS OfflineWatch

CONSTANTS n1, n2

TwoNodes == {n1, n2}

================================================================================
