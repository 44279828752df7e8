--------------------------- MODULE ControlPlaneProofs ---------------------------
(***************************************************************************)
(* Proofs about ControlPlane, for any sets of nodes, tasks and admins.     *)
(*                                                                         *)
(* The inductive invariant is IndInv.  ReadsStayGood is what makes it      *)
(* inductive: AtMostOneDispatched and ReviewGate are lost by the UPDATEs   *)
(* that do not repeat their test unless the row each is about to write is  *)
(* still of the kind its handler read.                                     *)
(***************************************************************************)
EXTENDS ControlPlane, TLAPS

IndInv == TypeOK /\ ReadsStayGood /\ AtMostOneDispatched /\ ReviewGate

\* Initially no task exists, so every part of the invariant holds.
LEMMA InitIndInv == Init => IndInv
<1> SUFFICES ASSUME Init PROVE IndInv
    OBVIOUS
<1> USE ConstantsAssumption DEF Init
<1>1. TypeOK
  BY DEF TypeOK, Requests, Handlers, Scans, Idle, NoScan, NoReq, Statuses, NoStatus, EventNames, Dispatched
<1>2. ReadsStayGood
  BY DEF ReadsStayGood, KnownOnNode, GivenWasClaimed, ActiveIsGiven, RequestNamesTask,
         CancelPastReview, ScanOfGiven, EventOfGiven, EventAlone,
         Given, Idle, NoScan, NoReq, NoStatus, ActiveStatuses
<1>3. AtMostOneDispatched
  BY DEF AtMostOneDispatched, Dispatched, NoStatus
<1>4. ReviewGate
  BY DEF ReviewGate, PastReview, PastReviewStatuses, NoStatus, ActiveStatuses, FinishedStatuses
<1>5. QED
  BY <1>1, <1>2, <1>3, <1>4 DEF IndInv

\* Every action keeps every variable in its type.  The task of an admin request or
\* of a posted event is a task, which TypeOK alone does not say.
LEMMA StepTypeOK == TypeOK /\ ReadsStayGood /\ [Next]_vars => TypeOK'
<1> SUFFICES ASSUME TypeOK, ReadsStayGood, [Next]_vars PROVE TypeOK'
    OBVIOUS
<1> USE ConstantsAssumption DEF Statuses, NoStatus, ActiveStatuses, TerminalStatuses,
                                FinishedStatuses, RefusedStatuses, Dispatched, EventNames
<1>1. ASSUME NEW t \in Tasks, Create(t) PROVE TypeOK'
  BY <1>1 DEF TypeOK, Create, FirstReview, Insert, reviewVars, runVars, cancelVars, nodeVars, loopVars
<1>2. ASSUME NEW n \in Nodes, NEW reported \in Tasks \cup {NoTask}, Heartbeat(n, reported)
      PROVE  TypeOK'
  <2>1. CASE ClaimNext(n)
    BY <1>2, <2>1 DEF TypeOK, Heartbeat, ClaimNext, Pending, reviewVars, runVars, cancelVars, loopVars
  <2>2. CASE reported \in known[n] /\ SyncReported(reported)
    BY <1>2, <2>2 DEF TypeOK, Heartbeat, SyncReported, reviewVars, runVars, cancelVars, loopVars
  <2>3. QED
    BY <1>2, <2>1, <2>2 DEF Heartbeat
<1>3. ASSUME NEW t \in Tasks, NEW event \in Events, EventRead(t, event) PROVE TypeOK'
  BY <1>3 DEF TypeOK, Handlers, EventRead, reviewVars, runVars, cancelVars, nodeVars
<1>4. CASE EventWrite
  BY <1>4 DEF TypeOK, Handlers, EventWrite, StartedOn, ReadsStayGood, EventOfGiven, Given, Idle, reviewVars, cancelVars, nodeVars
<1>5. ASSUME NEW t \in Tasks, NEW final_status \in FinishedStatuses, Result(t, final_status)
      PROVE  TypeOK'
  BY <1>5 DEF TypeOK, Result, reviewVars, cancelVars, nodeVars, loopVars
<1>6. CASE LostRead
  BY <1>6 DEF TypeOK, Job, LostRead, Unacknowledged, Idle, NoScan, Handlers, Scans, reviewVars, runVars, cancelVars, nodeVars
<1>7. CASE LostWrite
  BY <1>7 DEF TypeOK, LostWrite, Outcome, Idle, NoScan, Handlers, Scans, reviewVars, runVars, cancelVars, nodeVars
<1>8. CASE ExpireRead
  BY <1>8 DEF TypeOK, Job, ExpireRead, Idle, NoScan, Handlers, Scans, reviewVars, runVars, cancelVars, nodeVars
<1>9. CASE ExpireCheck
  BY <1>9 DEF TypeOK, ExpireCheck, Idle, NoScan, Handlers, Scans, reviewVars, runVars, cancelVars, nodeVars
<1>10. CASE ExpireWrite
  BY <1>10 DEF TypeOK, ExpireWrite, Idle, NoScan, Handlers, Scans, reviewVars, runVars, cancelVars, nodeVars
<1>11. ASSUME NEW a \in Admins, NEW t \in Tasks,
              CancelRead(a, t) \/ ApproveRead(a, t) \/ RejectRead(a, t) \/ EscalateRead(a, t)
       PROVE  TypeOK'
  <2>1. \A op \in {"cancel", "approve", "reject", "escalate"} : Request(a, op, t) => TypeOK'
    BY DEF TypeOK, Requests, Request, reviewVars, runVars, cancelVars, nodeVars, loopVars
  <2>2. QED
    BY <1>11, <2>1 DEF CancelRead, ApproveRead, RejectRead, EscalateRead
<1>12. ASSUME NEW a \in Admins, AdminWrites(a) PROVE TypeOK'
  <2>1. req[a].task \in Tasks
    BY <1>12 DEF TypeOK, AdminWrites, CancelWrite, ApproveWrite, RejectWrite, EscalateWrite,
                     ReadsStayGood, RequestNamesTask
  <2>2. Answer(a) => req' \in [Admins -> Requests]
    BY DEF TypeOK, Requests, Answer, NoReq
  <2>3. CASE CancelWrite(a)
    <3>1. status' \in [Tasks -> Statuses]
      BY <2>1, <2>3 DEF TypeOK, CancelWrite
    <3>2. cancels' \in [Tasks -> Nat]
      <4>1. cancels[req[a].task] \in Nat
        BY <2>1 DEF TypeOK
      <4>2. cancels' = [cancels EXCEPT ![req[a].task] = cancels[req[a].task] + 1]
        BY <2>3 DEF CancelWrite
      <4>3. cancels[req[a].task] + 1 \in Nat
        BY <4>1
      <4>4. QED
        BY <4>2, <4>3 DEF TypeOK
    <3>3. QED
      BY <2>1, <2>2, <2>3, <3>1, <3>2
      DEF TypeOK, CancelWrite, reviewVars, runVars, nodeVars, loopVars
  <2>4. CASE ApproveWrite(a)
    BY <2>1, <2>2, <2>4 DEF TypeOK, ApproveWrite, Decide, runVars, cancelVars, nodeVars, loopVars
  <2>5. CASE RejectWrite(a)
    BY <2>1, <2>2, <2>5 DEF TypeOK, RejectWrite, Decide, runVars, cancelVars, nodeVars, loopVars
  <2>6. CASE EscalateWrite(a)
    BY <2>1, <2>2, <2>6 DEF TypeOK, EscalateWrite, Escalated, runVars, cancelVars, nodeVars, loopVars
  <2>7. QED
    BY <1>12, <2>3, <2>4, <2>5, <2>6 DEF AdminWrites
<1>13. CASE Time
  <2>1. ASSUME NEW t \in Tasks, ReviewAges(t) PROVE TypeOK'
    BY <2>1 DEF TypeOK, ReviewAges, runVars, cancelVars, nodeVars, loopVars
  <2>2. ASSUME NEW t \in Tasks, RunOverruns(t) \/ CancelAckLapses(t) PROVE TypeOK'
    BY <2>2 DEF TypeOK, RunOverruns, CancelAckLapses, reviewVars, runVars, cancelVars, nodeVars, loopVars
  <2>3. ASSUME NEW n \in Nodes, NodeGoesQuiet(n) PROVE TypeOK'
    BY <2>3 DEF TypeOK, NodeGoesQuiet, reviewVars, runVars, cancelVars, loopVars
  <2>4. QED
    BY <1>13, <2>1, <2>2, <2>3 DEF Time
<1>14. CASE UNCHANGED vars
  BY <1>14 DEF TypeOK, vars, reviewVars, runVars, cancelVars, nodeVars, loopVars
<1>15. QED
  BY <1>1, <1>2, <1>3, <1>4, <1>5, <1>6, <1>7, <1>8, <1>9, <1>10, <1>11, <1>12, <1>13, <1>14
  DEF Next, NodeCalls, Scanner, AdminCalls

--------------------------------------------------------------------------------
(* Every way the status of a task changes in one step. *)

OthersKeep(t) == \A u \in Tasks \ {t} : status'[u] = status[u]

Created(t) ==
    /\ status[t] = NoStatus
    /\ status'[t] \in {"pending", "reviewing"}
    /\ t \in Reviewed /\ status'[t] = "pending" => "ai_approve" \in verdicts'[t]

Claimed(t) ==
    /\ ActiveOn(NodeOf[t]) = {}
    /\ status[t] = "pending"
    /\ status'[t] = "claimed"
    /\ t \in Given'
    /\ OthersKeep(t)

EventPosted(t) ==
    /\ handler.op = "event"
    /\ t = handler.task
    /\ status'[t] = handler.event
    /\ OthersKeep(t)

Decided(t) ==
    \/ /\ status[t] = "reviewing"
       /\ status'[t] \in RefusedStatuses
    \/ /\ status[t] = "reviewing"
       /\ status'[t] = "pending"
       /\ "approve" \in verdicts'[t]

Ended(t) == t \in Given /\ status'[t] \in FinishedStatuses \cup {"cancel_requested"}

Cancelled(t) == PastReview(t) /\ status'[t] = "cancelled"

Moved(t) ==
    \/ status'[t] = status[t]
    \/ Created(t) \/ Claimed(t) \/ EventPosted(t) \/ Decided(t) \/ Ended(t) \/ Cancelled(t)

\* A cancel is of a task past review, and requests the end of one its node has.
LEMMA CancelMoves ==
    ASSUME TypeOK, ReadsStayGood, NEW a \in Admins, CancelWrite(a), NEW t \in Tasks
    PROVE  Moved(t)
<1>1. CASE t = req[a].task /\ req[a].saw = "pending"
  BY <1>1 DEF CancelWrite, TypeOK, ReadsStayGood, CancelPastReview, Moved, Cancelled
<1>2. CASE t = req[a].task /\ req[a].saw # "pending"
  BY <1>2 DEF CancelWrite, TypeOK, ReadsStayGood, CancelPastReview, Moved, Ended
<1>3. CASE t # req[a].task
  BY <1>3 DEF CancelWrite, TypeOK, Moved
<1>4. QED
  BY <1>1, <1>2, <1>3

\* Every step changes the status of a task in one of these ways or not at all.
LEMMA StatusMoves ==
    ASSUME TypeOK, ReadsStayGood, [Next]_vars, NEW t \in Tasks
    PROVE  Moved(t)
<1> USE ConstantsAssumption
<1>1. ASSUME NEW u \in Tasks, Create(u) PROVE Moved(t)
  BY <1>1 DEF Create, FirstReview, Insert, TypeOK, Moved, Created
<1>2. ASSUME NEW n \in Nodes, NEW reported \in Tasks \cup {NoTask}, Heartbeat(n, reported)
      PROVE  Moved(t)
  <2>1. CASE ClaimNext(n)
    BY <1>2, <2>1 DEF ClaimNext, Pending, Given, TypeOK, Moved, Claimed, OthersKeep
  <2>2. CASE reported \in known[n] /\ SyncReported(reported)
    BY <2>2 DEF SyncReported, TypeOK, ReadsStayGood, KnownOnNode, GivenWasClaimed, Given,
                ActiveStatuses, FinishedStatuses, Moved
  <2>3. QED
    BY <1>2, <2>1, <2>2 DEF Heartbeat
<1>3. CASE EventWrite
  BY <1>3 DEF EventWrite, TypeOK, Moved, EventPosted, OthersKeep
<1>4. ASSUME NEW u \in Tasks, NEW final_status \in FinishedStatuses, Result(u, final_status)
      PROVE  Moved(t)
  BY <1>4 DEF Result, TypeOK, Given, Moved, Ended
<1>5. CASE LostWrite
  BY <1>5 DEF LostWrite, Outcome, TypeOK, ReadsStayGood, ScanOfGiven, FinishedStatuses, Moved, Ended
<1>6. CASE ExpireWrite
  BY <1>6 DEF ExpireWrite, TypeOK, RefusedStatuses, Moved, Decided
<1>7. ASSUME NEW a \in Admins, AdminWrites(a) PROVE Moved(t)
  <2>1. CASE CancelWrite(a)
    BY <2>1, CancelMoves
  <2>2. CASE ApproveWrite(a)
    BY <2>2 DEF ApproveWrite, Decide, TypeOK, ReadsStayGood, RequestNamesTask, Moved, Decided
  <2>3. CASE RejectWrite(a)
    BY <2>3 DEF RejectWrite, Decide, TypeOK, ReadsStayGood, RequestNamesTask, RefusedStatuses,
                Moved, Decided
  <2>4. CASE EscalateWrite(a)
    BY <2>4 DEF EscalateWrite, Moved
  <2>5. QED
    BY <1>7, <2>1, <2>2, <2>3, <2>4 DEF AdminWrites
<1>8. ASSUME UNCHANGED status PROVE Moved(t)
  BY <1>8 DEF Moved
<1>9. ASSUME Next, status' # status
      PROVE  \/ \E u \in Tasks : Create(u)
             \/ \E n \in Nodes, reported \in Tasks \cup {NoTask} : Heartbeat(n, reported)
             \/ EventWrite
             \/ \E u \in Tasks, final_status \in FinishedStatuses : Result(u, final_status)
             \/ LostWrite
             \/ ExpireWrite
             \/ \E a \in Admins : AdminWrites(a)
  BY <1>9 DEF Next, NodeCalls, EventRead, Scanner, LostRead, ExpireRead, ExpireCheck, AdminCalls,
              CancelRead, ApproveRead, RejectRead, EscalateRead, Request,
              Time, ReviewAges, RunOverruns, CancelAckLapses, NodeGoesQuiet
<1>10. QED
  BY <1>1, <1>2, <1>3, <1>4, <1>5, <1>6, <1>7, <1>8, <1>9 DEF vars

\* Only a heartbeat that claims changes what a node knows.
LEMMA KnownMoves ==
    ASSUME [Next]_vars
    PROVE  \/ UNCHANGED known
           \/ \E n \in Nodes : \E t \in Pending(n) :
                /\ status' = [status EXCEPT ![t] = "claimed"]
                /\ known' = [known EXCEPT ![n] = @ \cup {t}]
<1>1. ASSUME NEW n \in Nodes, NEW reported \in Tasks \cup {NoTask}, Heartbeat(n, reported)
      PROVE  \/ UNCHANGED known
             \/ \E t \in Pending(n) : /\ status' = [status EXCEPT ![t] = "claimed"]
                                      /\ known' = [known EXCEPT ![n] = @ \cup {t}]
  BY <1>1 DEF Heartbeat, ClaimNext, SyncReported
<1>2. ASSUME Next, known' # known
      PROVE  \E n \in Nodes, reported \in Tasks \cup {NoTask} : Heartbeat(n, reported)
  BY <1>2 DEF Next, NodeCalls, EventRead, EventWrite, Result, Scanner, LostRead, LostWrite,
              ExpireRead, ExpireCheck, ExpireWrite, AdminCalls, Create, CancelRead, ApproveRead,
              RejectRead, EscalateRead, Request, AdminWrites, CancelWrite, ApproveWrite,
              RejectWrite, EscalateWrite, Time, ReviewAges, RunOverruns, CancelAckLapses,
              NodeGoesQuiet, nodeVars
<1>3. QED
  BY <1>1, <1>2 DEF vars, nodeVars

\* A task newly given is claimed; nothing is taken back.
LEMMA GivenMoves ==
    ASSUME TypeOK, [Next]_vars
    PROVE  Given \subseteq Given' /\ \A t \in Given' \ Given : status'[t] = "claimed"
<1>1. CASE UNCHANGED known
  BY <1>1 DEF Given
<1>2. ASSUME NEW n \in Nodes, NEW u \in Pending(n),
             status' = [status EXCEPT ![u] = "claimed"],
             known' = [known EXCEPT ![n] = @ \cup {u}]
      PROVE  Given \subseteq Given' /\ \A t \in Given' \ Given : status'[t] = "claimed"
  BY <1>2, ConstantsAssumption DEF Given, TypeOK, Pending
<1>3. QED
  BY <1>1, <1>2, KnownMoves

\* Once past review, or given, a task stays so.
LEMMA PastReviewStays ==
    ASSUME TypeOK, ReadsStayGood, [Next]_vars, NEW t \in Tasks, PastReview(t)
    PROVE  status'[t] \in PastReviewStatuses
BY StatusMoves
DEF Moved, Created, Claimed, EventPosted, Decided, Ended, Cancelled, PastReview,
    PastReviewStatuses, TypeOK, Handlers, EventNames, Dispatched, NoStatus, ActiveStatuses, FinishedStatuses

\* A task some reply named was claimed, and no handler takes it back to review or queue.
LEMMA GivenStaysClaimed == TypeOK /\ ReadsStayGood /\ [Next]_vars => GivenWasClaimed'
<1> SUFFICES ASSUME TypeOK, ReadsStayGood, [Next]_vars, NEW t \in Given'
             PROVE  status'[t] \in ActiveStatuses \cup FinishedStatuses
    BY DEF GivenWasClaimed
<1>1. CASE t \notin Given
  BY <1>1, GivenMoves DEF ActiveStatuses
<1>2. CASE t \in Given
  <2>1. t \in Tasks /\ status[t] \in ActiveStatuses \cup FinishedStatuses
    BY <1>2 DEF Given, ReadsStayGood, GivenWasClaimed
  <2>2. QED
    BY <2>1, StatusMoves
    DEF Moved, Created, Claimed, EventPosted, Decided, Ended, Cancelled, TypeOK, Handlers,
        EventNames, Dispatched, NoStatus, ActiveStatuses, FinishedStatuses
<1>3. QED
  BY <1>1, <1>2

\* Only a task its node was told of is claimed, running or cancel_requested: a cancel
\* that makes it so read it as one.
LEMMA ActiveStaysGiven == TypeOK /\ ReadsStayGood /\ [Next]_vars => ActiveIsGiven'
<1> SUFFICES ASSUME TypeOK, ReadsStayGood, [Next]_vars,
                    NEW t \in Tasks, status'[t] \in ActiveStatuses
             PROVE  t \in Given'
    BY DEF ActiveIsGiven
<1>1. Given \subseteq Given'
  BY GivenMoves
<1>2. CASE status'[t] = status[t]
  BY <1>1, <1>2 DEF ReadsStayGood, ActiveIsGiven
<1>3. CASE Created(t) \/ Decided(t) \/ Cancelled(t)
  BY <1>3 DEF Created, Decided, Cancelled, ActiveStatuses, RefusedStatuses
<1>4. CASE Claimed(t)
  BY <1>4 DEF Claimed
<1>5. CASE EventPosted(t)
  BY <1>1, <1>5 DEF EventPosted, ReadsStayGood, EventOfGiven
<1>6. CASE Ended(t)
  BY <1>1, <1>6 DEF Ended
<1>7. QED
  BY <1>2, <1>3, <1>4, <1>5, <1>6, StatusMoves DEF Moved

\* claim_next_task_for_node gives a node none but its own tasks.
LEMMA KnownStaysOnNode == TypeOK /\ ReadsStayGood /\ [Next]_vars => KnownOnNode'
BY KnownMoves DEF Pending, TypeOK, ReadsStayGood, KnownOnNode

\* An admin thread keeps its request, ends it, or begins one about a task as it is.
LEMMA RequestMoves ==
    ASSUME TypeOK, [Next]_vars, NEW a \in Admins
    PROVE  \/ req'[a] = req[a]
           \/ req'[a] = NoReq
           \/ \E t \in Tasks, op \in {"cancel", "approve", "reject", "escalate"} :
                /\ req'[a] = [op |-> op, task |-> t, saw |-> status[t]]
                /\ op = "cancel" => status[t] \in {"pending"} \cup ActiveStatuses
                /\ UNCHANGED status
<1> DEFINE Begun(t, op) ==
        /\ req'[a] = [op |-> op, task |-> t, saw |-> status[t]]
        /\ op = "cancel" => status[t] \in {"pending"} \cup ActiveStatuses
        /\ UNCHANGED status
           Goal == \/ req'[a] = req[a]
                   \/ req'[a] = NoReq
                   \/ \E t \in Tasks, op \in {"cancel", "approve", "reject", "escalate"} :
                        Begun(t, op)
<1>1. ASSUME NEW b \in Admins, NEW t \in Tasks, CancelRead(b, t) PROVE Goal
  <2>1. req'[a] = req[a] \/ Begun(t, "cancel")
    BY <1>1 DEF CancelRead, Request, TypeOK
  <2>2. QED
    BY <2>1
<1>2. ASSUME NEW b \in Admins, NEW t \in Tasks, NEW op \in {"approve", "reject", "escalate"},
             Request(b, op, t)
      PROVE  Goal
  <2>1. req'[a] = req[a] \/ Begun(t, op)
    BY <1>2 DEF Request, TypeOK
  <2>2. QED
    BY <2>1
<1>3. ASSUME NEW b \in Admins, Answer(b) PROVE Goal
  BY <1>3 DEF Answer, TypeOK
<1>4. ASSUME Next, req' # req
      PROVE  \/ \E b \in Admins, t \in Tasks : CancelRead(b, t)
             \/ \E b \in Admins, t \in Tasks, op \in {"approve", "reject", "escalate"} :
                  Request(b, op, t)
             \/ \E b \in Admins : Answer(b)
  BY <1>4 DEF Next, NodeCalls, Heartbeat, EventRead, EventWrite, Result, Scanner, LostRead,
              LostWrite, ExpireRead, ExpireCheck, ExpireWrite, AdminCalls, Create, ApproveRead,
              RejectRead, EscalateRead, AdminWrites, CancelWrite, ApproveWrite,
              RejectWrite, EscalateWrite, Time, ReviewAges, RunOverruns, CancelAckLapses,
              NodeGoesQuiet
<1>5. Goal
  BY <1>1, <1>2, <1>3, <1>4 DEF vars
<1>6. QED
  BY <1>5

\* An admin request in flight is for a task of the table.
LEMMA RequestStaysOfTask == TypeOK /\ ReadsStayGood /\ [Next]_vars => RequestNamesTask'
<1> SUFFICES ASSUME TypeOK, ReadsStayGood, [Next]_vars, NEW a \in Admins, req'[a].op # "none"
             PROVE  req'[a].task \in Tasks
    BY DEF RequestNamesTask
<1>1. CASE req'[a] = req[a]
  BY <1>1 DEF ReadsStayGood, RequestNamesTask
<1>2. CASE \E t \in Tasks, op \in {"cancel", "approve", "reject", "escalate"} :
              req'[a] = [op |-> op, task |-> t, saw |-> status[t]]
  BY <1>2
<1>3. QED
  BY <1>1, <1>2, RequestMoves DEF NoReq

\* The task of a pending cancel stays past review, and with its node if it was there.
LEMMA CancelStaysPastReview ==
    TypeOK /\ ReadsStayGood /\ [Next]_vars => CancelPastReview'
<1> SUFFICES ASSUME TypeOK, ReadsStayGood, [Next]_vars, NEW a \in Admins, req'[a].op = "cancel"
             PROVE  /\ status'[req'[a].task] \in PastReviewStatuses
                    /\ req'[a].saw # "pending" => req'[a].task \in Given'
    BY DEF CancelPastReview, PastReview
<1>1. Given \subseteq Given'
  BY GivenMoves
<1>2. CASE req'[a] = req[a]
  <2>1. PICK t \in Tasks : t = req[a].task
    BY <1>2 DEF ReadsStayGood, RequestNamesTask
  <2>2. PastReview(t) /\ (req[a].saw # "pending" => t \in Given)
    BY <1>2, <2>1 DEF ReadsStayGood, CancelPastReview, PastReview
  <2>3. status'[t] \in PastReviewStatuses
    BY <2>2, PastReviewStays
  <2>4. QED
    BY <1>1, <1>2, <2>1, <2>2, <2>3
<1>3. ASSUME NEW t \in Tasks, NEW op, req'[a] = [op |-> op, task |-> t, saw |-> status[t]],
             op = "cancel" => status[t] \in {"pending"} \cup ActiveStatuses,
             UNCHANGED status
      PROVE  /\ status'[req'[a].task] \in PastReviewStatuses
             /\ req'[a].saw # "pending" => req'[a].task \in Given'
  <2>1. /\ req'[a].task = t
        /\ req'[a].saw = status[t]
        /\ op = "cancel"
    BY <1>3
  <2>2. QED
    BY <1>1, <1>3, <2>1 DEF ReadsStayGood, ActiveIsGiven, PastReviewStatuses
<1>4. req'[a] # NoReq
  BY DEF NoReq
<1>5. QED
  BY <1>2, <1>3, <1>4, RequestMoves

\* What the event loop is in the middle of changes by its own steps only.
LEMMA LoopMoves ==
    ASSUME [Next]_vars
    PROVE  \/ UNCHANGED <<handler, scan>>
           \/ \E t \in Tasks, event \in Events : EventRead(t, event)
           \/ LostRead
           \/ EventWrite
           \/ ExpireRead \/ ExpireCheck \/ ExpireWrite \/ LostWrite
BY DEF Next, NodeCalls, Heartbeat, Result, Scanner, AdminCalls, Create, CancelRead, ApproveRead,
       RejectRead, EscalateRead, Request, AdminWrites, CancelWrite, ApproveWrite,
       RejectWrite, EscalateWrite, Time, ReviewAges, RunOverruns, CancelAckLapses,
       NodeGoesQuiet, loopVars, vars

\* The rows the lost scan lists as active are of tasks their nodes were told of.
LEMMA ScanStaysOfGiven == TypeOK /\ ReadsStayGood /\ [Next]_vars => ScanOfGiven'
<1> SUFFICES ASSUME TypeOK, ReadsStayGood, [Next]_vars PROVE ScanOfGiven'
    OBVIOUS
<1>1. Given \subseteq Given'
  BY GivenMoves
<1>2. CASE UNCHANGED scan
  BY <1>1, <1>2 DEF ReadsStayGood, ScanOfGiven
<1>3. CASE LostRead
  <2>1. \A t \in scan'.late \cup scan'.gone \cup scan'.asked :
            t \in Tasks /\ status[t] \in ActiveStatuses
    BY <1>3 DEF LostRead, Unacknowledged, TypeOK, Dispatched, ActiveStatuses
  <2>2. QED
    BY <1>1, <2>1 DEF ReadsStayGood, ActiveIsGiven, ScanOfGiven
<1>4. CASE ExpireRead \/ ExpireCheck \/ ExpireWrite \/ LostWrite
  <2>1. scan' = scan \/ scan'.late \cup scan'.gone \cup scan'.asked = {}
    BY <1>4 DEF ExpireRead, ExpireCheck, ExpireWrite, LostWrite, NoScan
  <2>2. QED
    BY <1>2, <2>1 DEF ScanOfGiven
<1>5. QED
  BY <1>2, <1>3, <1>4, LoopMoves DEF EventRead, EventWrite

\* A node posts events only of tasks it was told of.
LEMMA EventStaysOfGiven == TypeOK /\ ReadsStayGood /\ [Next]_vars => EventOfGiven'
<1> SUFFICES ASSUME TypeOK, ReadsStayGood, [Next]_vars, handler'.op = "event"
             PROVE  handler'.task \in Given'
    BY DEF EventOfGiven
<1>1. Given \subseteq Given'
  BY GivenMoves
<1>2. CASE UNCHANGED handler
  BY <1>1, <1>2 DEF ReadsStayGood, EventOfGiven
<1>3. ASSUME NEW t \in Tasks, NEW event \in Events, EventRead(t, event)
      PROVE  handler'.task \in Given'
  BY <1>1, <1>3 DEF EventRead, Given
<1>4. ~(LostRead \/ EventWrite \/ ExpireRead \/ ExpireCheck \/ ExpireWrite \/ LostWrite)
  BY DEF LostRead, EventWrite, ExpireRead, ExpireCheck, ExpireWrite, LostWrite, Idle, Job
<1>5. QED
  BY <1>2, <1>3, <1>4, LoopMoves

\* While an event is between its read and its write, only admins write the table,
\* and no admin dispatches a task.
LEMMA AdminsDispatchNothing ==
    ASSUME TypeOK, ReadsStayGood, [Next]_vars, handler.op = "event", UNCHANGED handler,
           NEW t \in Tasks, status'[t] \in Dispatched
    PROVE  status[t] \in Dispatched
<1>1. ASSUME NEW a \in Admins, AdminWrites(a) PROVE status[t] \in Dispatched
  <2>1. req[a].task \in Tasks
    BY <1>1 DEF AdminWrites, CancelWrite, ApproveWrite, RejectWrite, EscalateWrite,
                ReadsStayGood, RequestNamesTask
  <2>2. CASE CancelWrite(a)
    BY <2>1, <2>2 DEF CancelWrite, TypeOK, Dispatched
  <2>3. CASE ApproveWrite(a) \/ RejectWrite(a)
    BY <2>1, <2>3 DEF ApproveWrite, RejectWrite, Decide, TypeOK, Dispatched
  <2>4. CASE EscalateWrite(a)
    BY <2>4 DEF EscalateWrite
  <2>5. QED
    BY <1>1, <2>2, <2>3, <2>4 DEF AdminWrites
<1>2. ASSUME Next, ~ \E a \in Admins : AdminWrites(a) PROVE UNCHANGED status
  BY <1>2 DEF Next, NodeCalls, Heartbeat, EventRead, EventWrite, Result, Scanner, LostRead,
              LostWrite, ExpireRead, ExpireCheck, ExpireWrite, AdminCalls, Create, CancelRead,
              ApproveRead, RejectRead, EscalateRead, Request, Time, ReviewAges, RunOverruns,
              CancelAckLapses, NodeGoesQuiet, Idle
<1>3. QED
  BY <1>1, <1>2 DEF vars

\* While a running event is between its read and its write, nothing else becomes
\* dispatched on its node: only a heartbeat could, and the event loop is busy.
LEMMA EventStaysAlone == IndInv /\ [Next]_vars => EventAlone'
<1> SUFFICES ASSUME TypeOK, ReadsStayGood, AtMostOneDispatched, [Next]_vars,
                    handler'.op = "event", handler'.event \in Dispatched,
                    NEW u \in Tasks, u # handler'.task, NodeOf[u] = NodeOf[handler'.task]
             PROVE  status'[u] \notin Dispatched
    BY DEF EventAlone, IndInv
<1>1. CASE UNCHANGED handler
  BY <1>1, AdminsDispatchNothing DEF ReadsStayGood, EventAlone
<1>2. ASSUME NEW t \in Tasks, NEW event \in Events, EventRead(t, event)
      PROVE  status'[u] \notin Dispatched
  <2>1. handler'.task = t /\ handler'.event = event /\ UNCHANGED status
    BY <1>2 DEF EventRead
  <2>2. status[t] \in Dispatched
    BY <1>2, <2>1 DEF EventRead, AllowedFrom, Dispatched
  <2>3. QED
    BY <2>1, <2>2 DEF AtMostOneDispatched
<1>3. ~(LostRead \/ EventWrite \/ ExpireRead \/ ExpireCheck \/ ExpireWrite \/ LostWrite)
  BY DEF LostRead, EventWrite, ExpireRead, ExpireCheck, ExpireWrite, LostWrite, Idle, Job
<1>4. QED
  BY <1>1, <1>2, <1>3, LoopMoves

\* A step dispatches at most one task, on a node with none dispatched.
LEMMA StepAtMostOneDispatched == IndInv /\ [Next]_vars => AtMostOneDispatched'
<1> SUFFICES ASSUME TypeOK, ReadsStayGood, AtMostOneDispatched, [Next]_vars,
                    NEW t \in Tasks, NEW u \in Tasks, NodeOf[t] = NodeOf[u],
                    status'[t] \in Dispatched, status'[u] \in Dispatched, t # u
             PROVE  FALSE
    BY DEF AtMostOneDispatched, IndInv
<1>1. ASSUME NEW v \in {t, u} PROVE status'[v] = status[v] \/ Claimed(v) \/ EventPosted(v)
  BY <1>1, StatusMoves
  DEF Moved, Created, Decided, Ended, Cancelled, Dispatched, RefusedStatuses, FinishedStatuses
<1>2. ASSUME NEW v \in {t, u}, NEW w \in {t, u}, v # w, Claimed(v) PROVE FALSE
  BY <1>2 DEF Claimed, OthersKeep, ActiveOn, ActiveStatuses, Dispatched
<1>3. ASSUME NEW v \in {t, u}, NEW w \in {t, u}, v # w, EventPosted(v) PROVE FALSE
  BY <1>3 DEF EventPosted, OthersKeep, ReadsStayGood, EventAlone
<1>4. QED
  BY <1>1, <1>2, <1>3 DEF AtMostOneDispatched

\* Decisions are added to task_reviews and never removed.
LEMMA VerdictsGrow ==
    ASSUME TypeOK, ReadsStayGood, [Next]_vars, NEW t \in Tasks, status[t] # NoStatus
    PROVE  verdicts[t] \subseteq verdicts'[t]
<1>1. ASSUME NEW u \in Tasks, Create(u) PROVE verdicts'[t] = verdicts[t]
  BY <1>1 DEF Create, FirstReview, Insert, TypeOK
<1>2. ASSUME NEW a \in Admins, ApproveWrite(a) \/ RejectWrite(a)
      PROVE  verdicts[t] \subseteq verdicts'[t]
  <2>1. PICK decision : verdicts' = [verdicts EXCEPT ![req[a].task] = @ \cup {decision}]
    BY <1>2 DEF ApproveWrite, RejectWrite
  <2>2. QED
    BY <2>1 DEF TypeOK
<1>3. ASSUME Next, verdicts' # verdicts
      PROVE  \/ \E u \in Tasks : Create(u)
             \/ \E a \in Admins : ApproveWrite(a) \/ RejectWrite(a)
  BY <1>3 DEF Next, NodeCalls, Heartbeat, EventRead, EventWrite, Result, Scanner, LostRead,
              LostWrite, ExpireRead, ExpireCheck, ExpireWrite, AdminCalls, CancelRead,
              ApproveRead, RejectRead, EscalateRead, Request, AdminWrites, CancelWrite,
              EscalateWrite, Time, ReviewAges, RunOverruns, CancelAckLapses, NodeGoesQuiet,
              reviewVars
<1>4. QED
  BY <1>1, <1>2, <1>3 DEF vars, reviewVars

\* A task comes past review by an approval only.
LEMMA StepReviewGate == IndInv /\ [Next]_vars => ReviewGate'
<1> SUFFICES ASSUME TypeOK, ReadsStayGood, ReviewGate, [Next]_vars,
                    NEW t \in Reviewed, status'[t] \in PastReviewStatuses
             PROVE  verdicts'[t] \cap {"ai_approve", "approve"} # {}
    BY DEF ReviewGate, PastReview, IndInv
<1>0. t \in Tasks
  BY ConstantsAssumption
<1>1. CASE PastReview(t)
  <2>1. verdicts[t] \subseteq verdicts'[t]
    BY <1>0, <1>1, VerdictsGrow
    DEF PastReview, PastReviewStatuses, ActiveStatuses, FinishedStatuses, NoStatus
  <2>2. QED
    BY <1>1, <2>1 DEF ReviewGate
<1>2. CASE ~ PastReview(t)
  <2>1. t \notin Given
    BY <1>2 DEF ReadsStayGood, GivenWasClaimed, PastReview, PastReviewStatuses
  <2>2. status'[t] # status[t] /\ status[t] # "pending"
    BY <1>2 DEF PastReview, PastReviewStatuses
  <2>3. ~ EventPosted(t)
    BY <2>1 DEF EventPosted, ReadsStayGood, EventOfGiven
  <2>4. Created(t) \/ Decided(t)
    BY <1>0, <1>2, <2>1, <2>2, <2>3, StatusMoves DEF Moved, Claimed, Ended, Cancelled
  <2>5. status'[t] = "pending"
    BY <2>4 DEF Created, Decided, PastReviewStatuses, ActiveStatuses, FinishedStatuses,
                RefusedStatuses
  <2>6. QED
    BY <2>4, <2>5 DEF Created, Decided, RefusedStatuses
<1>3. QED
  BY <1>1, <1>2

\* Every step keeps the inductive invariant.
LEMMA StepIndInv == IndInv /\ [Next]_vars => IndInv'
BY StepTypeOK, KnownStaysOnNode, GivenStaysClaimed, ActiveStaysGiven, RequestStaysOfTask,
   CancelStaysPastReview, ScanStaysOfGiven, EventStaysOfGiven, EventStaysAlone,
   StepAtMostOneDispatched, StepReviewGate
DEF IndInv, ReadsStayGood

\* The inductive invariant holds in every reachable state.
LEMMA IndInvHolds == Spec => []IndInv
BY InitIndInv, StepIndInv, PTL DEF Spec

--------------------------------------------------------------------------------
(* The theorems. *)

\* Every variable keeps its type: no handler writes a status, a stage or a decision
\* that the columns do not know.
THEOREM TypeCorrect == Spec => []TypeOK
BY IndInvHolds, PTL DEF IndInv

\* The unguarded UPDATEs of cancel_task, task_events and the scanner write rows that
\* are still of the kind that was read.
THEOREM ReadsStayGoodHolds == Spec => []ReadsStayGood
BY IndInvHolds, PTL DEF IndInv

\* "Single task at a time per node": no interleaving of node calls, scans and admin
\* requests gives a node two claimed or running tasks.
THEOREM AtMostOneDispatchedHolds == Spec => []AtMostOneDispatched
BY IndInvHolds, PTL DEF IndInv

\* No L2 task is queued, claimed or run without an approval in task_reviews.
THEOREM ReviewGateHolds == Spec => []ReviewGate
BY IndInvHolds, PTL DEF IndInv

\* A rejected or expired task is never brought back.
THEOREM RefusalStandsHolds == Spec => RefusalStands
<1>1. ASSUME IndInv, [Next]_vars, NEW t \in Tasks, status[t] \in RefusedStatuses
      PROVE  status'[t] = status[t]
  <2>1. ~ PastReview(t) /\ t \notin Given
    BY <1>1 DEF IndInv, ReadsStayGood, GivenWasClaimed, PastReview, PastReviewStatuses,
                ActiveStatuses, FinishedStatuses, RefusedStatuses
  <2>2. ~ EventPosted(t)
    BY <1>1, <2>1 DEF EventPosted, IndInv, ReadsStayGood, EventOfGiven
  <2>3. QED
    BY <1>1, <2>1, <2>2, StatusMoves
    DEF IndInv, Moved, Created, Claimed, Decided, Ended, Cancelled, NoStatus, RefusedStatuses
<1>2. IndInv /\ [Next]_vars =>
        [\A t \in Tasks : status[t] \in RefusedStatuses => status'[t] = status[t]]_vars
  BY <1>1
<1>3. QED
  BY <1>2, IndInvHolds, PTL DEF Spec, RefusalStands

--------------------------------------------------------------------------------
(* The end of a task is revised by a cancel or after one. *)

Reopenable == ActiveStatuses \cup {"cancelled"}

\* What a handler has listed or is about to write was active when it read it, and
\* at most cancelled since.
InFlight ==
    /\ handler.op = "event" => status[handler.task] \in Reopenable
    /\ handler.op = "lost" =>
         \A t \in scan.late \cup scan.gone \cup scan.asked : status[t] \in Reopenable

\* While the event loop is between the two, only admins write, and they leave an active
\* task active, or cancel it.
LEMMA AdminsOnlyCancel ==
    ASSUME TypeOK, ReadsStayGood, [Next]_vars, handler.op \in {"event", "lost"},
           UNCHANGED handler, NEW t \in Tasks, status[t] \in Reopenable
    PROVE  status'[t] \in Reopenable
<1>1. ASSUME NEW a \in Admins, AdminWrites(a) PROVE status'[t] \in Reopenable
  <2>1. CASE CancelWrite(a)
    BY <2>1 DEF CancelWrite, TypeOK, Reopenable, ActiveStatuses
  <2>2. CASE ApproveWrite(a) \/ RejectWrite(a)
    BY <2>2 DEF ApproveWrite, RejectWrite, Decide, TypeOK, Reopenable, ActiveStatuses
  <2>3. CASE EscalateWrite(a)
    BY <2>3 DEF EscalateWrite
  <2>4. QED
    BY <1>1, <2>1, <2>2, <2>3 DEF AdminWrites
<1>2. ASSUME Next, ~ \E a \in Admins : AdminWrites(a) PROVE UNCHANGED status
  BY <1>2 DEF Next, NodeCalls, Heartbeat, EventRead, EventWrite, Result, Scanner, LostRead,
              LostWrite, ExpireRead, ExpireCheck, ExpireWrite, AdminCalls, Create, CancelRead,
              ApproveRead, RejectRead, EscalateRead, Request, Time, ReviewAges, RunOverruns,
              CancelAckLapses, NodeGoesQuiet, Idle
<1>3. QED
  BY <1>1, <1>2 DEF vars

LEMMA StepInFlight == IndInv /\ InFlight /\ [Next]_vars => InFlight'
<1> SUFFICES ASSUME TypeOK, ReadsStayGood, InFlight, [Next]_vars PROVE InFlight'
    BY DEF IndInv
<1>1. CASE UNCHANGED <<handler, scan>>
  <2>1. /\ handler.op = "event" => handler.task \in Tasks
        /\ scan.late \cup scan.gone \cup scan.asked \subseteq Tasks
    BY DEF ReadsStayGood, EventOfGiven, ScanOfGiven, Given
  <2>2. QED
    BY <1>1, <2>1, AdminsOnlyCancel DEF InFlight
<1>2. ASSUME NEW t \in Tasks, NEW event \in Events, EventRead(t, event) PROVE InFlight'
  BY <1>2 DEF EventRead, AllowedFrom, InFlight, Reopenable, ActiveStatuses
<1>3. CASE LostRead
  BY <1>3 DEF LostRead, Unacknowledged, Job, InFlight, Reopenable, ActiveStatuses, Dispatched,
              TypeOK
<1>4. CASE EventWrite \/ ExpireRead \/ ExpireCheck \/ ExpireWrite \/ LostWrite
  <2>1. handler'.op \notin {"event", "lost"}
    BY <1>4 DEF EventWrite, ExpireRead, ExpireCheck, ExpireWrite, LostWrite, Idle, Job
  <2>2. QED
    BY <2>1 DEF InFlight
<1>5. QED
  BY <1>1, <1>2, <1>3, <1>4, LoopMoves

\* A late event, a repeated result or a scan over a stale list revises the end of a task
\* only if a cancel wrote that end; any other revision is a cancel.
THEOREM OnlyCancelReopensHolds == Spec => OnlyCancelReopens
<1> DEFINE ByCancel(t) ==
             \E a \in Admins : req[a].op = "cancel" /\ req[a].task = t /\ req'[a] = NoReq
           ByHandler(t) == status[t] = "cancelled" /\ handler.op \in {"event", "lost"}
<1>1. ASSUME IndInv, InFlight, [Next]_vars, NEW t \in Tasks, status[t] \in TerminalStatuses,
             status'[t] # status[t]
      PROVE  ByCancel(t) \/ ByHandler(t)
  <2> USE <1>1 DEF IndInv
  <2>1. status[t] \notin ActiveStatuses \cup {NoStatus, "pending", "reviewing"}
    BY DEF TerminalStatuses, FinishedStatuses, RefusedStatuses, ActiveStatuses, NoStatus
  <2>2. ASSUME NEW a \in Admins, AdminWrites(a) PROVE ByCancel(t)
    <3>1. CASE CancelWrite(a)
      BY <3>1 DEF CancelWrite, Answer, TypeOK
    <3>2. CASE ApproveWrite(a) \/ RejectWrite(a)
      BY <2>1, <3>2 DEF ApproveWrite, RejectWrite, Decide, TypeOK
    <3>3. CASE EscalateWrite(a)
      BY <3>3 DEF EscalateWrite
    <3>4. QED
      BY <2>2, <3>1, <3>2, <3>3 DEF AdminWrites
  <2>3. CASE EventWrite
    <3>1. t = handler.task
      BY <2>3 DEF EventWrite, TypeOK
    <3>2. QED
      BY <2>1, <2>3, <3>1 DEF EventWrite, InFlight, Reopenable
  <2>4. CASE LostWrite
    <3>1. t \in scan.late \cup scan.gone \cup scan.asked
      BY <2>4 DEF LostWrite, Outcome
    <3>2. QED
      BY <2>1, <2>4, <3>1 DEF LostWrite, InFlight, Reopenable
  <2>5. CASE ExpireWrite
    BY <2>1, <2>5 DEF ExpireWrite
  <2>6. CASE NodeCalls \/ AdminCalls
    <3>1. ASSUME NEW n \in Nodes, NEW reported \in Tasks \cup {NoTask}, Heartbeat(n, reported)
          PROVE  FALSE
      BY <2>1, <3>1 DEF Heartbeat, ClaimNext, SyncReported, Pending, TypeOK
    <3>2. ASSUME NEW u \in Tasks, NEW final_status \in FinishedStatuses, Result(u, final_status)
          PROVE  FALSE
      BY <2>1, <3>2 DEF Result, TypeOK
    <3>3. ASSUME NEW u \in Tasks, Create(u) PROVE FALSE
      BY <2>1, <3>3 DEF Create, FirstReview, Insert, TypeOK
    <3>4. QED
      BY <2>6, <3>1, <3>2, <3>3
      DEF NodeCalls, AdminCalls, EventRead, CancelRead, ApproveRead, RejectRead, EscalateRead,
          Request
  <2>7. CASE UNCHANGED status
    BY <2>7
  <2>8. QED
    BY <2>2, <2>3, <2>4, <2>5, <2>6, <2>7
    DEF Next, Scanner, LostRead, ExpireRead, ExpireCheck, Time, ReviewAges, RunOverruns,
        CancelAckLapses, NodeGoesQuiet, vars
<1>2. IndInv /\ InFlight /\ [Next]_vars =>
        [\A t \in Tasks :
          /\ status[t] \in TerminalStatuses
          /\ status'[t] # status[t]
          => \/ \E a \in Admins : req[a].op = "cancel" /\ req[a].task = t /\ req'[a] = NoReq
             \/ status[t] = "cancelled" /\ handler.op \in {"event", "lost"}]_vars
  BY <1>1
<1>3. Init => InFlight
  BY DEF Init, InFlight, Idle
<1>4. QED
  BY <1>2, <1>3, StepInFlight, IndInvHolds, PTL DEF Spec, OnlyCancelReopens

--------------------------------------------------------------------------------
(* ControlPlane implements DispatchLedger. *)

D == {t \in Tasks : status[t] \in Dispatched}

\* The steps of the ledger, by their names.
LEMMA LedgerTaskStep ==
    ASSUME NEW t \in Tasks, Ledger!Give(t) \/ Ledger!Withdraw(t) \/ Ledger!Resume(t)
    PROVE  Ledger!Next
BY DEF Ledger!Next

LEMMA LedgerEndStep ==
    ASSUME NEW tasks \in SUBSET D, Ledger!End(tasks)
    PROVE  Ledger!Next
BY DEF Ledger!Next, D

\* A task cancelled under an accepted report was active when the event was read.
LEMMA WithdrawnIsActive ==
    ASSUME InFlight, handler.op = "event", handler.event \in Dispatched,
           handler.task \in Tasks, handler.task \notin D
    PROVE  Withdrawn = {handler.task}
BY DEF InFlight, Reopenable, ActiveStatuses, Withdrawn, D, Dispatched

\* The write of an event resumes its task, ends it, or changes nothing the ledger sees.
LEMMA EventWriteSteps ==
    ASSUME IndInv, InFlight, [Next]_vars, EventWrite
    PROVE  [Ledger!Next]_(Ledger!ledger)
<1>t. PICK t \in Tasks : t = handler.task
  BY DEF IndInv, ReadsStayGood, EventOfGiven, Given, EventWrite
<1>0. /\ handler.op = "event" /\ t \in Given
      /\ D' = IF handler.event \in Dispatched THEN D \cup {t} ELSE D \ {t}
      /\ Given' = Given
      /\ Withdrawn' = {}
  BY <1>t DEF IndInv, TypeOK, ReadsStayGood, EventOfGiven, EventWrite, Given, D, Withdrawn, Idle,
              nodeVars
<1>1. CASE handler.event \in Dispatched /\ t \in D
  <2>1. Withdrawn = {}
    BY <1>t, <1>1 DEF D, Withdrawn, Dispatched
  <2>2. QED
    BY <1>0, <1>1, <2>1 DEF D, Ledger!ledger
<1>2. CASE handler.event \in Dispatched /\ t \notin D
  <2>1. Withdrawn = {t}
    BY <1>t, <1>0, <1>2, WithdrawnIsActive
  <2>2. \A u \in D : NodeOf[u] # NodeOf[t]
    BY <1>t, <1>0, <1>2 DEF IndInv, ReadsStayGood, EventAlone, D
  <2>3. Ledger!Resume(t)
    BY <1>0, <1>2, <2>1, <2>2 DEF D, Ledger!Resume, Ledger!Free
  <2>4. QED
    BY <2>3, LedgerTaskStep
<1>3. CASE handler.event \notin Dispatched
  <2>1. Withdrawn = {}
    BY <1>3 DEF Withdrawn
  <2>2. PICK tasks \in SUBSET D : D' = D \ tasks
    <3>1. D \cap {t} \in SUBSET D /\ D' = D \ (D \cap {t})
      BY <1>0, <1>3
    <3>2. QED
      BY <3>1
  <2>3. Ledger!End(tasks)
    BY <1>0, <2>1, <2>2 DEF D, Ledger!End
  <2>4. QED
    BY <2>3, LedgerEndStep
<1>4. QED
  BY <1>1, <1>2, <1>3

\* A step that dispatches no task gives none.
LEMMA OtherStep ==
    ASSUME IndInv, [Next]_vars, D' \subseteq D
    PROVE  Given' = Given
<1>1. \A u \in Given' \ Given : u \in D'
  BY GivenMoves DEF IndInv, Given, D, Dispatched
<1>2. D \subseteq Given
  BY DEF D, IndInv, ReadsStayGood, ActiveIsGiven, Dispatched, ActiveStatuses
<1>3. QED
  BY <1>1, <1>2, GivenMoves DEF IndInv

\* A cancel withdraws the task from under an accepted report, ends its work, or comes
\* after that.
LEMMA CancelWriteSteps ==
    ASSUME IndInv, InFlight, [Next]_vars, NEW a \in Admins, CancelWrite(a)
    PROVE  Ledger!Next
<1>t. PICK t \in Tasks : t = req[a].task
  BY DEF IndInv, ReadsStayGood, RequestNamesTask, CancelWrite
<1> DEFINE InHand == handler.op = "event" /\ handler.task = t /\ handler.event \in Dispatched
<1>0. /\ D' = D \ {t}
      /\ handler' = handler
      /\ status'[t] \in {"cancelled", "cancel_requested"}
      /\ \A u \in Tasks \ {t} : status'[u] = status[u]
  BY <1>t DEF IndInv, TypeOK, CancelWrite, D, Dispatched, loopVars
<1>1. Given' = Given
  BY <1>0, OtherStep
<1>2. CASE InHand /\ t \in D
  <2>1. Withdrawn = {} /\ Withdrawn' = {t}
    BY <1>0, <1>2 DEF Withdrawn, D, Dispatched
  <2>2. Ledger!Withdraw(t)
    BY <1>0, <1>1, <1>2, <2>1 DEF D, Ledger!Withdraw
  <2>3. QED
    BY <2>2, LedgerTaskStep
<1>3. CASE ~ (InHand /\ t \in D)
  <2>1. Withdrawn' = Withdrawn
    <3>1. CASE InHand
      BY <1>0, <1>3, <3>1, WithdrawnIsActive DEF Withdrawn
    <3>2. CASE ~InHand
      BY <1>0, <3>2 DEF Withdrawn
    <3>3. QED
      BY <3>1, <3>2
  <2>2. PICK tasks \in SUBSET D : D' = D \ tasks
    <3>1. D \cap {t} \in SUBSET D /\ D' = D \ (D \cap {t})
      BY <1>0
    <3>2. QED
      BY <3>1
  <2>3. Ledger!End(tasks)
    BY <1>1, <2>1, <2>2 DEF D, Ledger!End
  <2>4. QED
    BY <2>3, LedgerEndStep
<1>4. QED
  BY <1>2, <1>3

\* While an event is in hand only admins write, and only a cancel touches a task that is
\* past review.
LEMMA OnlyCancelsTouch ==
    ASSUME IndInv, [Next]_vars, handler.op = "event", ~EventWrite,
           \A a \in Admins : ~CancelWrite(a)
    PROVE  /\ handler' = handler
           /\ \A t \in Tasks : status'[t] = status[t] \/ status[t] = "reviewing"
<1>1. handler' = handler
  BY LoopMoves DEF EventRead, LostRead, ExpireRead, ExpireCheck, ExpireWrite, LostWrite, Idle
<1>2. ASSUME NEW a \in Admins, AdminWrites(a), NEW t \in Tasks
      PROVE  status'[t] = status[t] \/ status[t] = "reviewing"
  BY <1>2 DEF AdminWrites, ApproveWrite, RejectWrite, EscalateWrite, Decide, IndInv, TypeOK
<1>3. ASSUME Next, ~ \E a \in Admins : AdminWrites(a) PROVE UNCHANGED status
  BY <1>3 DEF Next, NodeCalls, Heartbeat, EventRead, Result, Scanner, LostRead,
              LostWrite, ExpireRead, ExpireCheck, ExpireWrite, AdminCalls, Create, CancelRead,
              ApproveRead, RejectRead, EscalateRead, Request, Time, ReviewAges, RunOverruns,
              CancelAckLapses, NodeGoesQuiet, Idle
<1>4. QED
  BY <1>1, <1>2, <1>3 DEF vars

\* Any other step withdraws nothing, and an event is accepted only of a task that is
\* claimed or running.
LEMMA WithdrawnStays ==
    ASSUME IndInv, [Next]_vars, ~EventWrite, \A a \in Admins : ~CancelWrite(a)
    PROVE  Withdrawn' = Withdrawn
<1>1. CASE handler.op = "event"
  <2>1. /\ handler' = handler
        /\ \A t \in Tasks : status'[t] = status[t] \/ status[t] = "reviewing"
    BY <1>1, OnlyCancelsTouch
  <2>2. ASSUME NEW t \in Tasks, status[t] = "reviewing" PROVE t # handler.task
    BY <1>1, <2>2 DEF IndInv, ReadsStayGood, EventOfGiven, GivenWasClaimed, ActiveStatuses,
                      FinishedStatuses
  <2>3. QED
    BY <2>1, <2>2 DEF Withdrawn
<1>2. CASE handler.op # "event"
  <2>1. ASSUME NEW t \in Tasks, NEW event \in Events, EventRead(t, event) PROVE Withdrawn' = {}
    BY <2>1 DEF EventRead, AllowedFrom, Withdrawn, Dispatched, ActiveStatuses
  <2>2. ASSUME \A t \in Tasks, event \in Events : ~EventRead(t, event)
        PROVE  handler'.op # "event"
    BY <1>2, <2>2, LoopMoves
    DEF LostRead, ExpireRead, ExpireCheck, ExpireWrite, LostWrite, Idle, Job
  <2>3. QED
    BY <1>2, <2>1, <2>2 DEF Withdrawn
<1>3. QED
  BY <1>1, <1>2

\* Any other step that dispatches a task gives it.
LEMMA DispatchingStep ==
    ASSUME IndInv, [Next]_vars, ~EventWrite, \A a \in Admins : ~CancelWrite(a),
           NEW t \in Tasks, t \notin D, t \in D'
    PROVE  Ledger!Give(t)
<1>1. Claimed(t)
  <2>1. Claimed(t) \/ EventPosted(t)
    BY StatusMoves
    DEF IndInv, Moved, Created, Decided, Ended, Cancelled, D, Dispatched, RefusedStatuses,
        FinishedStatuses
  <2>2. ~EventPosted(t)
    BY OnlyCancelsTouch, AdminsDispatchNothing DEF EventPosted, IndInv, D
  <2>3. QED
    BY <2>1, <2>2
<1>2. D' = D \cup {t}
  BY <1>1 DEF Claimed, OthersKeep, D
<1>3. \A u \in Given' \ Given : u = t
  BY <1>1, GivenMoves
  DEF IndInv, Given, Claimed, OthersKeep, ReadsStayGood, ActiveIsGiven, ActiveStatuses
<1>4. t \notin Given
  BY <1>1 DEF Claimed, IndInv, ReadsStayGood, GivenWasClaimed, ActiveStatuses, FinishedStatuses
<1>5. \A u \in D : NodeOf[u] # NodeOf[t]
  BY <1>1 DEF Claimed, ActiveOn, ActiveStatuses, D, Dispatched
<1>6. Given' = Given \cup {t}
  BY <1>1, <1>3, GivenMoves DEF Claimed, IndInv
<1>7. QED
  BY <1>2, <1>4, <1>5, <1>6, WithdrawnStays DEF Ledger!Give, Ledger!Free, D

\* A node is given each task once and one at a time, and ended work stays ended unless a
\* cancel came under an accepted event: what the handlers, the scanner and the admins do
\* to the status column amounts to the ledger's four steps.
THEOREM ImplementsLedger == Spec => LedgerSpec
<1>1. Init => Ledger!Init /\ InFlight
  <2> SUFFICES ASSUME Init PROVE Ledger!Init /\ InFlight
      OBVIOUS
  <2>1. {t \in Tasks : status[t] \in Dispatched} = {} /\ Given = {}
    BY ConstantsAssumption DEF Init, Given, NoStatus, Dispatched
  <2>2. Withdrawn = {} /\ InFlight
    BY DEF Init, Withdrawn, Idle, InFlight
  <2>3. QED
    BY <2>1, <2>2 DEF Ledger!Init
<1>2. IndInv /\ InFlight /\ [Next]_vars => [Ledger!Next]_(Ledger!ledger)
  <2> SUFFICES ASSUME IndInv, InFlight, [Next]_vars PROVE [Ledger!Next]_(Ledger!ledger)
      OBVIOUS
  <2>1. CASE EventWrite
    BY <2>1, EventWriteSteps
  <2>2. ASSUME NEW a \in Admins, CancelWrite(a) PROVE Ledger!Next
    BY <2>2, CancelWriteSteps
  <2>3. CASE ~EventWrite /\ (\A a \in Admins : ~CancelWrite(a)) /\ D' \subseteq D
    <3>1. Given' = Given /\ Withdrawn' = Withdrawn
      BY <2>3, OtherStep, WithdrawnStays
    <3>2. PICK tasks \in SUBSET D : D' = D \ tasks
      <4>1. D \ D' \in SUBSET D /\ D' = D \ (D \ D')
        BY <2>3
      <4>2. QED
        BY <4>1
    <3>3. Ledger!End(tasks)
      BY <3>1, <3>2 DEF Ledger!End, D
    <3>4. QED
      BY <3>3, LedgerEndStep
  <2>4. CASE ~EventWrite /\ (\A a \in Admins : ~CancelWrite(a)) /\ \E t \in D' : t \notin D
    <3>1. PICK t \in Tasks : t \notin D /\ t \in D'
      BY <2>4 DEF D
    <3>2. QED
      BY <2>4, <3>1, DispatchingStep, LedgerTaskStep
  <2>5. QED
    BY <2>1, <2>2, <2>3, <2>4
<1>3. QED
  BY <1>1, <1>2, IndInvHolds, StepInFlight, PTL DEF Spec, LedgerSpec, Ledger!Spec

================================================================================
