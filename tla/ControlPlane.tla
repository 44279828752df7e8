------------------------------ MODULE ControlPlane ------------------------------
(***************************************************************************)
(* The task table of the GPUFleet control plane and every handler and      *)
(* background job that moves a task from one status to another.            *)
(*                                                                         *)
(* Two kinds of actors write the table.                                    *)
(*  - The event loop runs the node API handlers, create_task and the       *)
(*    scanner.  Their bodies do not await once they hold a connection, so  *)
(*    they never interleave with one another: `handler' names the one that *)
(*    is between its SELECT and its UPDATE, and is Idle otherwise.         *)
(*  - Admin requests (cancel and the review decisions) are plain `def'     *)
(*    handlers: each runs in a thread of its own, concurrently with the    *)
(*    event loop.                                                          *)
(* sqlite3 opens a transaction at the first write, so a SELECT that comes  *)
(* before it is not isolated from it.  Each handler is therefore a read    *)
(* step, which decides, and a write step, which changes the rows whatever  *)
(* they have become.  Where the UPDATE repeats the test in its WHERE       *)
(* clause (claim, final result), or BEGIN IMMEDIATE comes first (heartbeat)*)
(* one step is exact.                                                      *)
(*                                                                         *)
(* Simplifications.  Time is not counted: a deadline is a flag that        *)
(* becomes true once it has passed.  A task number is its place in the     *)
(* claim order (created_at, id).  Nodes are enabled and are not deleted.   *)
(*                                                                         *)
(* A definition named X_WithBug is the definition X with one plausible bug *)
(* put in.  No action uses it: substituted for X, it makes TLC violate the *)
(* property named in its comment.                                          *)
(***************************************************************************)
EXTENDS Naturals

CONSTANTS Nodes,       \* registered nodes
          Tasks,       \* task numbers, in claim order
          NodeOf,      \* the node each task is submitted to
          Reviewed,    \* the tasks of a type in TASK_TYPE_LEVEL_L2
          Admins,      \* threads that run admin requests
          Events,      \* the events nodes post to /task-events
          NoTask,      \* the null task id
          MaxCancels   \* no cancel of a task is begun once this many were made

NoStatus == "absent"
ActiveStatuses == {"claimed", "running", "cancel_requested"}
FinishedStatuses == {"succeeded", "failed", "timeout", "cancelled", "lost"}
RefusedStatuses == {"rejected", "review_expired"}
TerminalStatuses == FinishedStatuses \cup RefusedStatuses
Statuses == {NoStatus, "reviewing", "pending"} \cup ActiveStatuses \cup TerminalStatuses

\* The two statuses in which a node is meant to be working on the task.
Dispatched == {"claimed", "running"}

EventNames == Dispatched \cup FinishedStatuses

ASSUME ConstantsAssumption ==
    /\ Tasks \subseteq Nat
    /\ NodeOf \in [Tasks -> Nodes]
    /\ Reviewed \subseteq Tasks
    /\ Events \subseteq EventNames
    /\ NoTask \notin Tasks
    /\ MaxCancels \in Nat

VARIABLES
    status,     \* status[t]: the status column
    stage,      \* stage[t]: review_stage, 0 for NULL
    reviewAge,  \* reviewAge[t]: 0 fresh, 1 past the approval cooldown, 2 past the expiry
    verdicts,   \* verdicts[t]: the decisions recorded in task_reviews
    started,    \* the tasks with a started_at
    locked,     \* the tasks with a result_locked_at
    overrun,    \* the running tasks whose timeout_sec has passed
    cancels,    \* cancels[t]: the number of cancel_task audit rows
    ackLate,    \* the tasks whose latest cancel is older than CANCEL_ACK_TIMEOUT_SEC
    quiet,      \* the nodes not heard of for three heartbeat intervals
    known,      \* known[n]: the tasks some heartbeat reply named to node n
    req,        \* req[a]: the admin request thread a has read for and not yet written
    handler,    \* what the event loop is in the middle of
    scan        \* the rows the running scanner job has listed

reviewVars == <<stage, reviewAge, verdicts>>
runVars == <<started, locked, overrun>>
cancelVars == <<cancels, ackLate>>
nodeVars == <<quiet, known>>
loopVars == <<handler, scan>>
vars == <<status, reviewVars, runVars, cancelVars, nodeVars, loopVars, req>>

NoReq == [op |-> "none", task |-> NoTask, saw |-> NoStatus]

\* What the event loop does: it runs other code, or is in a handler or job.
Idle == [op |-> "idle", task |-> NoTask, event |-> "claimed"]
Job(op) == [op |-> op, task |-> NoTask, event |-> "claimed"]

\* The rows a job has listed and not yet written, by what is to become of them.
NoScan == [late |-> {}, gone |-> {}, asked |-> {}, listed |-> {}]

Requests == [op: {"none", "cancel", "approve", "reject", "escalate"},
             task: Tasks \cup {NoTask}, saw: Statuses]
Handlers == [op: {"idle", "event", "lost", "expire", "expire_checked"},
             task: Tasks \cup {NoTask}, event: EventNames]
Scans == [late: SUBSET Tasks, gone: SUBSET Tasks, asked: SUBSET Tasks, listed: SUBSET Tasks]

TypeOK ==
    /\ status \in [Tasks -> Statuses]
    /\ stage \in [Tasks -> {0, 1, 3}]
    /\ reviewAge \in [Tasks -> 0..2]
    /\ verdicts \in [Tasks -> SUBSET {"ai_approve", "ai_reject", "ai_unsure", "approve", "reject"}]
    /\ started \subseteq Tasks
    /\ locked \subseteq Tasks
    /\ overrun \subseteq Tasks
    /\ cancels \in [Tasks -> Nat]
    /\ ackLate \subseteq Tasks
    /\ quiet \subseteq Nodes
    /\ known \in [Nodes -> SUBSET Tasks]
    /\ req \in [Admins -> Requests]
    /\ handler \in Handlers
    /\ scan \in Scans

Init ==
    /\ status = [t \in Tasks |-> NoStatus]
    /\ stage = [t \in Tasks |-> 0]
    /\ reviewAge = [t \in Tasks |-> 0]
    /\ verdicts = [t \in Tasks |-> {}]
    /\ started = {}
    /\ locked = {}
    /\ overrun = {}
    /\ cancels = [t \in Tasks |-> 0]
    /\ ackLate = {}
    /\ quiet = {}
    /\ known = [n \in Nodes |-> {}]
    /\ req = [a \in Admins |-> NoReq]
    /\ handler = Idle
    /\ scan = NoScan

--------------------------------------------------------------------------------
(* Submission: create_task, once the reviewer has answered. *)

Insert(t, initial_status, review_stage, decision) ==
    /\ status' = [status EXCEPT ![t] = initial_status]
    /\ stage' = [stage EXCEPT ![t] = review_stage]
    /\ verdicts' = [verdicts EXCEPT ![t] = decision]

\* Breaks ReviewGate: only a rejection keeps the task back.
FirstReview_UnsurePasses(t) ==
    \/ Insert(t, "pending", 1, {"ai_approve"})
    \/ Insert(t, "reviewing", 1, {"ai_reject"})
    \/ Insert(t, "pending", 3, {"ai_unsure"})

\* The model reviewer approves, rejects (the task stays in stage 1), or is unsure
\* or not configured (human review).
FirstReview(t) ==
    \/ Insert(t, "pending", 1, {"ai_approve"})
    \/ Insert(t, "reviewing", 1, {"ai_reject"})
    \/ Insert(t, "reviewing", 3, {"ai_unsure"})

\* Only the L2 types are reviewed.
Create(t) ==
    /\ handler = Idle
    /\ status[t] = NoStatus
    /\ \/ t \notin Reviewed /\ Insert(t, "pending", 0, {})
       \/ t \in Reviewed /\ FirstReview(t)
    /\ UNCHANGED <<reviewAge, runVars, cancelVars, nodeVars, loopVars, req>>

--------------------------------------------------------------------------------
(* The node API. *)

Pending(n) == {t \in Tasks : NodeOf[t] = n /\ status[t] = "pending"}
ActiveOn(n) == {t \in Tasks : NodeOf[t] = n /\ status[t] \in ActiveStatuses}

\* Breaks AtMostOneDispatched: the NOT EXISTS test of the claim is dropped.
ClaimNext_BusyToo(n) ==
    \/ \E t \in Pending(n) :
         /\ \A u \in Pending(n) : t <= u
         /\ status' = [status EXCEPT ![t] = "claimed"]
         /\ known' = [known EXCEPT ![n] = @ \cup {t}]
    \/ Pending(n) = {} /\ UNCHANGED <<status, known>>

\* claim_next_task_for_node: the oldest pending task, if nothing is active.
ClaimNext(n) ==
    \/ /\ ActiveOn(n) = {}
       /\ \E t \in Pending(n) :
            /\ \A u \in Pending(n) : t <= u
            /\ status' = [status EXCEPT ![t] = "claimed"]
            /\ known' = [known EXCEPT ![n] = @ \cup {t}]
    \/ /\ ActiveOn(n) # {} \/ Pending(n) = {}
       /\ UNCHANGED <<status, known>>

\* sync_reported_active_task: a reported row is left as it is, terminal or not,
\* unless it is pending.
SyncReported(reported) ==
    /\ status' = IF status[reported] = "pending"
                 THEN [status EXCEPT ![reported] = "claimed"] ELSE status
    /\ UNCHANGED known

\* A heartbeat of node n that reports the task in its current_task.json.  A node
\* knows only the tasks a reply named; the reply itself may be lost.
Heartbeat(n, reported) ==
    /\ handler = Idle
    /\ quiet' = quiet \ {n}
    /\ \/ reported = NoTask /\ ClaimNext(n)
       \/ reported \in known[n] /\ SyncReported(reported)
    /\ UNCHANGED <<reviewVars, runVars, cancelVars, loopVars, req>>

\* Breaks OnlyCancelReopens and LedgerSpec: the table of transitions is not consulted.
AllowedFrom_Anything(event) == Statuses

\* TASK_EVENT_TRANSITIONS: the statuses from which an event is accepted.
AllowedFrom(event) ==
    IF event = "claimed" THEN {"claimed"}
    ELSE IF event = "running" THEN {"claimed", "running"}
    ELSE ActiveStatuses

\* task_events -> transition_task: the status is read and tested ...
EventRead(t, event) ==
    /\ handler = Idle
    /\ t \in known[NodeOf[t]]
    /\ status[t] \in AllowedFrom(event)
    /\ handler' = [op |-> "event", task |-> t, event |-> event]
    /\ UNCHANGED <<status, reviewVars, runVars, cancelVars, nodeVars, scan, req>>

\* Breaks RunningEnds: started_at is left to the final result.
StartedOn_ResultOnly(event) == started

\* transition_task sets started_at at the first running event.
StartedOn(event) == IF event = "running" THEN started \cup {handler.task} ELSE started

\* ... and written with no test of what it has become.
EventWrite ==
    /\ handler.op = "event"
    /\ status' = [status EXCEPT ![handler.task] = handler.event]
    /\ started' = StartedOn(handler.event)
    /\ handler' = Idle
    /\ UNCHANGED <<reviewVars, locked, overrun, cancelVars, nodeVars, scan, req>>

\* task_result -> finalize_task_result: one guarded UPDATE.  A result that does
\* not match it is answered as a duplicate, or 409, and changes nothing.
Result(t, final_status) ==
    /\ handler = Idle
    /\ t \in known[NodeOf[t]]
    /\ status[t] \in ActiveStatuses
    /\ t \notin locked
    /\ status' = [status EXCEPT ![t] = final_status]
    /\ started' = started \cup {t}
    /\ locked' = locked \cup {t}
    /\ UNCHANGED <<reviewVars, overrun, cancelVars, nodeVars, loopVars, req>>

--------------------------------------------------------------------------------
(* The scanner: one job after the other, each in one connection. *)

\* Breaks CancelSettles: the answering node is trusted to finish the cancel.
Unacknowledged_QuietOnly ==
    {t \in ackLate : status[t] = "cancel_requested" /\ NodeOf[t] \in quiet}

\* The cancels that no final result has answered in CANCEL_ACK_TIMEOUT_SEC.
Unacknowledged == {t \in ackLate : status[t] = "cancel_requested"}

\* _mark_lost_tasks lists the active rows with their node's last_seen_at and
\* judges them by the clock it read on entry.  A claimed task's node always has a
\* last_seen_at: the heartbeat that claims sets it.
LostRead ==
    LET late == {t \in started \cap overrun : status[t] = "running"}
        gone == {t \in Tasks \ late : status[t] \in Dispatched /\ NodeOf[t] \in quiet}
        asked == Unacknowledged
    IN  /\ handler = Idle
        /\ late \cup gone \cup asked # {}
        /\ handler' = Job("lost")
        /\ scan' = [late |-> late, gone |-> gone, asked |-> asked, listed |-> {}]
        /\ UNCHANGED <<status, reviewVars, runVars, cancelVars, nodeVars, req>>

\* Breaks LedgerSpec: the task of a quiet node goes back to the queue.
Outcome_Requeue(t, missed) ==
    IF t \in scan.late THEN "timeout"
    ELSE IF t \in scan.gone THEN "pending"
    ELSE IF t \in (scan.asked \cap ackLate) \cup missed THEN "lost"
    ELSE status[t]

\* What the scan makes of a task, having missed the latest cancel of some.
Outcome(t, missed) ==
    IF t \in scan.late THEN "timeout"
    ELSE IF t \in scan.gone \cup (scan.asked \cap ackLate) \cup missed THEN "lost"
    ELSE status[t]

\* The listed rows are then written by background_timeout and background_lost,
\* with no test of their status.  The latest cancel is looked up row by row; only
\* the first row's lookup can miss a cancel made since, the write lock is held
\* from then on.
LostWrite ==
    /\ handler.op = "lost"
    /\ \E missed \in SUBSET (scan.asked \ ackLate) :
         /\ \A t, u \in missed : t = u
         /\ status' = [t \in Tasks |-> Outcome(t, missed)]
    /\ handler' = Idle
    /\ scan' = NoScan
    /\ UNCHANGED <<reviewVars, runVars, cancelVars, nodeVars, req>>

\* _expire_reviewing_tasks lists the reviews of more than 30 minutes ...
ExpireRead ==
    LET listed == {t \in Tasks : status[t] = "reviewing" /\ reviewAge[t] = 2}
    IN  /\ handler = Idle
        /\ listed # {}
        /\ handler' = Job("expire")
        /\ scan' = [late |-> {}, gone |-> {}, asked |-> {}, listed |-> listed]
        /\ UNCHANGED <<status, reviewVars, runVars, cancelVars, nodeVars, req>>

\* ... re-reads the first: if it has been decided, TaskStateError ends the job ...
ExpireCheck ==
    /\ handler.op = "expire"
    /\ \E first \in scan.listed :
         \/ /\ status[first] = "reviewing"
            /\ handler' = [op |-> "expire_checked", task |-> first, event |-> "claimed"]
            /\ UNCHANGED scan
         \/ /\ status[first] # "reviewing"
            /\ handler' = Idle
            /\ scan' = NoScan
    /\ UNCHANGED <<status, reviewVars, runVars, cancelVars, nodeVars, req>>

\* ... and writes.  The UPDATE tests the status again; from it on the job holds
\* the write lock, and a later row that was decided rolls the whole job back.
ExpireWrite ==
    /\ handler.op = "expire_checked"
    /\ \/ /\ \A t \in scan.listed \ {handler.task} : status[t] = "reviewing"
          /\ status' = [t \in Tasks |->
                IF t \in scan.listed /\ status[t] = "reviewing" THEN "review_expired"
                ELSE status[t]]
       \/ /\ \E t \in scan.listed \ {handler.task} : status[t] # "reviewing"
          /\ UNCHANGED status
    /\ handler' = Idle
    /\ scan' = NoScan
    /\ UNCHANGED <<reviewVars, runVars, cancelVars, nodeVars, req>>

--------------------------------------------------------------------------------
(* Admin requests: the read, in one thread, and later its write. *)

Request(a, op, t) ==
    /\ req[a] = NoReq
    /\ req' = [req EXCEPT ![a] = [op |-> op, task |-> t, saw |-> status[t]]]
    /\ UNCHANGED <<status, reviewVars, runVars, cancelVars, nodeVars, loopVars>>

Answer(a) == req' = [req EXCEPT ![a] = NoReq]

\* Breaks ReadsStayGood: only terminal tasks are refused, as the message says.
CancelRead_OrReviewing(a, t) ==
    /\ status[t] \notin {NoStatus} \cup TerminalStatuses
    /\ cancels[t] < MaxCancels
    /\ Request(a, "cancel", t)

CancelRead(a, t) ==
    /\ status[t] \in {"pending"} \cup ActiveStatuses
    /\ cancels[t] < MaxCancels
    /\ Request(a, "cancel", t)

\* What is written depends on the status read, not on the status now.
CancelWrite(a) ==
    LET t == req[a].task
    IN  /\ req[a].op = "cancel"
        /\ status' = [status EXCEPT ![t] =
                        IF req[a].saw = "pending" THEN "cancelled" ELSE "cancel_requested"]
        /\ cancels' = [cancels EXCEPT ![t] = @ + 1]
        /\ ackLate' = ackLate \ {t}
        /\ Answer(a)
        /\ UNCHANGED <<reviewVars, runVars, nodeVars, loopVars>>

ApproveRead(a, t) ==
    /\ status[t] = "reviewing"
    /\ stage[t] = 3
    /\ reviewAge[t] >= 1
    /\ Request(a, "approve", t)

\* Breaks RefusalStands: the UPDATE relies on the status read before.
Decide_Blindly(t, decided) == status' = [status EXCEPT ![t] = decided]

\* review_approve and review_reject test the status again in the UPDATE; the
\* decision is recorded in task_reviews whether or not a row matched.
Decide(t, decided) ==
    status' = IF status[t] = "reviewing"
              THEN [status EXCEPT ![t] = decided] ELSE status

ApproveWrite(a) ==
    LET t == req[a].task
    IN  /\ req[a].op = "approve"
        /\ Decide(t, "pending")
        /\ verdicts' = [verdicts EXCEPT ![t] = @ \cup {"approve"}]
        /\ Answer(a)
        /\ UNCHANGED <<stage, reviewAge, runVars, cancelVars, nodeVars, loopVars>>

RejectRead(a, t) ==
    /\ status[t] = "reviewing"
    /\ Request(a, "reject", t)

RejectWrite(a) ==
    LET t == req[a].task
    IN  /\ req[a].op = "reject"
        /\ Decide(t, "rejected")
        /\ verdicts' = [verdicts EXCEPT ![t] = @ \cup {"reject"}]
        /\ Answer(a)
        /\ UNCHANGED <<stage, reviewAge, runVars, cancelVars, nodeVars, loopVars>>

\* Breaks ReviewSettles: a review in stage 3 can be escalated again.
EscalateRead_AnyStage(a, t) == status[t] = "reviewing" /\ Request(a, "escalate", t)

EscalateRead(a, t) ==
    /\ status[t] = "reviewing"
    /\ stage[t] # 3
    /\ Request(a, "escalate", t)

\* Breaks TypeOK: the task moves up one stage, to one that does not exist.
Escalated_ByOne(t) == stage[t] + 1

Escalated(t) == 3

\* review_escalate restarts the review clock, again whatever the row has become.
EscalateWrite(a) ==
    LET t == req[a].task
    IN  /\ req[a].op = "escalate"
        /\ stage' = [stage EXCEPT ![t] = Escalated(t)]
        /\ reviewAge' = [reviewAge EXCEPT ![t] = 0]
        /\ Answer(a)
        /\ UNCHANGED <<status, verdicts, runVars, cancelVars, nodeVars, loopVars>>

--------------------------------------------------------------------------------
(* Time. *)

ReviewAges(t) ==
    /\ status[t] = "reviewing"
    /\ reviewAge[t] < 2
    /\ reviewAge' = [reviewAge EXCEPT ![t] = @ + 1]
    /\ UNCHANGED <<status, stage, verdicts, runVars, cancelVars, nodeVars, loopVars, req>>

RunOverruns(t) ==
    /\ status[t] = "running"
    /\ t \in started \ overrun
    /\ overrun' = overrun \cup {t}
    /\ UNCHANGED <<status, reviewVars, started, locked, cancelVars, nodeVars, loopVars, req>>

CancelAckLapses(t) ==
    /\ status[t] = "cancel_requested"
    /\ t \notin ackLate
    /\ ackLate' = ackLate \cup {t}
    /\ UNCHANGED <<status, reviewVars, runVars, cancels, nodeVars, loopVars, req>>

NodeGoesQuiet(n) ==
    /\ n \notin quiet
    /\ quiet' = quiet \cup {n}
    /\ UNCHANGED <<status, reviewVars, runVars, cancelVars, known, loopVars, req>>

--------------------------------------------------------------------------------
NodeCalls ==
    \/ \E n \in Nodes, reported \in Tasks \cup {NoTask} : Heartbeat(n, reported)
    \/ \E t \in Tasks, event \in Events : EventRead(t, event)
    \/ \E t \in Tasks, final_status \in FinishedStatuses : Result(t, final_status)

Scanner == LostRead \/ LostWrite \/ ExpireRead \/ ExpireCheck \/ ExpireWrite

AdminCalls ==
    \/ \E t \in Tasks : Create(t)
    \/ \E a \in Admins, t \in Tasks :
         CancelRead(a, t) \/ ApproveRead(a, t) \/ RejectRead(a, t) \/ EscalateRead(a, t)

AdminWrites(a) == CancelWrite(a) \/ ApproveWrite(a) \/ RejectWrite(a) \/ EscalateWrite(a)

Time ==
    \/ \E t \in Tasks : ReviewAges(t) \/ RunOverruns(t) \/ CancelAckLapses(t)
    \/ \E n \in Nodes : NodeGoesQuiet(n)

Next ==
    \/ NodeCalls
    \/ EventWrite
    \/ Scanner
    \/ AdminCalls
    \/ \E a \in Admins : AdminWrites(a)
    \/ Time

Spec == Init /\ [][Next]_vars

\* A handler that has begun ends.  The scanner is woken every SCAN_INTERVAL_SEC
\* and the event loop gives every ready callback its turn, so its reads are
\* strongly fair.  Clocks advance.  Nothing obliges a node or an admin to call.
Fairness ==
    /\ WF_vars(EventWrite)
    /\ SF_vars(LostRead) /\ WF_vars(LostWrite)
    /\ SF_vars(ExpireRead) /\ WF_vars(ExpireCheck) /\ WF_vars(ExpireWrite)
    /\ \A a \in Admins : WF_vars(AdminWrites(a))
    /\ \A t \in Tasks : WF_vars(ReviewAges(t) \/ RunOverruns(t) \/ CancelAckLapses(t))

FairSpec == Spec /\ Fairness

--------------------------------------------------------------------------------
(* What the table promises. *)

\* README, "Single task at a time per node in phase 1": whatever the admin threads
\* and the event loop interleave, no node has two tasks claimed or running.
AtMostOneDispatched ==
    \A t, u \in Tasks :
        /\ NodeOf[t] = NodeOf[u]
        /\ status[t] \in Dispatched
        /\ status[u] \in Dispatched
        => t = u

\* The tasks some reply named to their node.
Given == {t \in Tasks : t \in known[NodeOf[t]]}

PastReviewStatuses == {"pending"} \cup ActiveStatuses \cup FinishedStatuses
PastReview(t) == status[t] \in PastReviewStatuses

\* Code of an L2 type leaves review only with an approval on record, by the model
\* reviewer or by an admin, even when decisions, expiry and escalation race.
ReviewGate ==
    \A t \in Reviewed : PastReview(t) => verdicts[t] \cap {"ai_approve", "approve"} # {}

KnownOnNode == \A n \in Nodes : \A t \in known[n] : NodeOf[t] = n
GivenWasClaimed == \A t \in Given : status[t] \in ActiveStatuses \cup FinishedStatuses
ActiveIsGiven == \A t \in Tasks : status[t] \in ActiveStatuses => t \in Given
RequestNamesTask == \A a \in Admins : req[a].op # "none" => req[a].task \in Tasks
CancelPastReview ==
    \A a \in Admins : req[a].op = "cancel" =>
        PastReview(req[a].task) /\ (req[a].saw # "pending" => req[a].task \in Given)
ScanOfGiven == scan.late \cup scan.gone \cup scan.asked \subseteq Given
EventOfGiven == handler.op = "event" => handler.task \in Given
EventAlone ==
    handler.op = "event" /\ handler.event \in Dispatched =>
        \A u \in Tasks \ {handler.task} :
            NodeOf[u] = NodeOf[handler.task] => status[u] \notin Dispatched

\* What a handler read remains good enough for the write that follows, although
\* nothing locks the row in between: a node knows exactly the tasks of its own that
\* were claimed; cancels are of tasks that passed review, and end as cancel_requested
\* only if the node has the task; the scan and the event concern tasks the node has;
\* and an event about to set claimed or running finds no other task on the node.
ReadsStayGood ==
    /\ KnownOnNode
    /\ GivenWasClaimed
    /\ ActiveIsGiven
    /\ RequestNamesTask
    /\ CancelPastReview
    /\ ScanOfGiven
    /\ EventOfGiven
    /\ EventAlone

\* A refusal stands: no handler that read the task before it was rejected or
\* expired brings it back.
RefusalStands ==
    [][\A t \in Tasks : status[t] \in RefusedStatuses => status'[t] = status[t]]_vars

\* The end of a task is revised in two ways only, both races with cancel_task: a
\* cancel that read the row before it ended overwrites the end, or a handler that
\* read the row before a direct cancel overwrites that.  No late event, repeated
\* result or scan over a stale list reopens a task otherwise.
OnlyCancelReopens ==
    [][\A t \in Tasks :
        /\ status[t] \in TerminalStatuses
        /\ status'[t] # status[t]
        => \/ \E a \in Admins : req[a].op = "cancel" /\ req[a].task = t /\ req'[a] = NoReq
           \/ status[t] = "cancelled" /\ handler.op \in {"event", "lost"}]_vars

\* A cancel came between an accepted `claimed' or `running' event and its UPDATE, which
\* does not test the status again and will undo it.
Withdrawn ==
    {t \in Tasks : /\ handler.op = "event"
                   /\ handler.task = t
                   /\ handler.event \in Dispatched
                   /\ status[t] \in {"cancelled", "cancel_requested"}}

\* A node is given one task at a time and each task once.  Work that has ended, by a
\* result, a timeout, a loss or a cancel, is not handed out again, not even when a stale
\* cancel overwrites its end; only the write of an event accepted before the cancel
\* resumes a task, and once (DispatchLedger).
Ledger == INSTANCE DispatchLedger WITH
    dispatched <- {t \in Tasks : status[t] \in Dispatched},
    given <- Given,
    withdrawn <- Withdrawn

LedgerSpec == Ledger!Spec

\* A task with an accepted final result (result_locked_at set) keeps the status
\* that result gave it.
LockedResultStands ==
    [][\A t \in Tasks : t \in locked => status'[t] = status[t]]_vars

\* A requested cancel ends the task even if the node never answers: the scanner
\* gives up on it after CANCEL_ACK_TIMEOUT_SEC.
CancelSettles ==
    \A t \in Tasks : status[t] = "cancel_requested" ~> status[t] \in TerminalStatuses

\* A running task ends: the control plane enforces timeout_sec by itself.
RunningEnds ==
    \A t \in Tasks : status[t] = "running" ~> status[t] \in TerminalStatuses

\* A review is decided or expires, although one decided task rolls back the expiry
\* of all the others listed with it.
ReviewSettles ==
    \A t \in Tasks : status[t] = "reviewing" ~> status[t] # "reviewing"

================================================================================
