----------------------------- MODULE DispatchLedger -----------------------------
(***************************************************************************)
(* What the control plane promises about handing out tasks, with no status *)
(* column, no scanner and no interleaving: a ledger of the tasks given to  *)
(* their nodes and of those dispatched, that is claimed or running, now.   *)
(* Work that has ended is not dispatched again.  The one way back is of a  *)
(* task cancelled while a report of its node, already accepted, waits to   *)
(* be written.  ControlPlane implements it.                                *)
(***************************************************************************)

CONSTANTS Nodes, Tasks, NodeOf

VARIABLES dispatched,  \* the tasks their nodes are to be working on
          given,       \* the tasks ever given to their nodes
          withdrawn    \* the tasks cancelled while a report on their progress is in hand

ledger == <<dispatched, given, withdrawn>>

Free(n) == \A t \in dispatched : NodeOf[t] # n

Init == dispatched = {} /\ given = {} /\ withdrawn = {}

\* A task is given once, and only to a node with nothing else to do.
Give(t) ==
    /\ t \notin given
    /\ Free(NodeOf[t])
    /\ dispatched' = dispatched \cup {t}
    /\ given' = given \cup {t}
    /\ UNCHANGED withdrawn

\* Results, timeouts, losses and cancels end work, of several tasks at once.
End(tasks) ==
    /\ dispatched' = dispatched \ tasks
    /\ UNCHANGED <<given, withdrawn>>

\* A cancel comes between the acceptance of a report and its writing ...
Withdraw(t) ==
    /\ t \in dispatched
    /\ dispatched' = dispatched \ {t}
    /\ withdrawn' = withdrawn \cup {t}
    /\ UNCHANGED given

\* ... which takes that cancel back, once.
Resume(t) ==
    /\ t \in withdrawn
    /\ Free(NodeOf[t])
    /\ dispatched' = dispatched \cup {t}
    /\ withdrawn' = withdrawn \ {t}
    /\ UNCHANGED given

Next ==
    \/ \E t \in Tasks : Give(t) \/ Withdraw(t) \/ Resume(t)
    \/ \E tasks \in SUBSET dispatched : End(tasks)

Spec == Init /\ [][Next]_ledger

================================================================================
