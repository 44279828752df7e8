----------------------------- MODULE NoticesProofs -----------------------------
(***************************************************************************)
(* Proofs about Notices, for any sets of nodes, tasks and admins.          *)
(*                                                                         *)
(* The task table under alerts is the task table of ControlPlane, so that  *)
(* its inductive invariant IndInv is at hand.  What it adds is that no     *)
(* write of another handler moves a task into review or out of it: the     *)
(* alert and the status change in the same step or not at all.             *)
(***************************************************************************)
EXTENDS Notices, ControlPlaneProofs

NoticeInv ==
    /\ IndInv
    /\ NoticesTypeOK
    /\ ReviewAnnounced
    /\ NoStaleAlert

--------------------------------------------------------------------------------
(* The table does not notice its alerts. *)

\* Every step of the composition is a step of the table.
LEMMA NoticesStepsAreTableSteps == [NoticesNext]_noticeVars => [Next]_vars
<1> SUFFICES ASSUME [NoticesNext]_noticeVars PROVE [Next]_vars
    OBVIOUS
<1>1. ASSUME NEW t \in Tasks, CreateAlerted(t) PROVE Next
  BY <1>1 DEF CreateAlerted, Next, AdminCalls
<1>2. ASSUME NEW t \in Tasks, MarkRead(t) PROVE UNCHANGED vars
  BY <1>2 DEF MarkRead
<1>3. ASSUME NEW a \in Admins, AdminAlerted(a) PROVE Next
  BY <1>3 DEF AdminAlerted, EscalateAlerted, DecideAlerted, Next, AdminWrites
<1>4. CASE ExpireAlerted
  BY <1>4 DEF ExpireAlerted, Next, Scanner
<1>5. CASE Unannounced
  BY <1>5 DEF Unannounced, Next, Scanner, AdminCalls, AdminWrites
<1>6. CASE UNCHANGED noticeVars
  BY <1>6 DEF noticeVars
<1>7. QED
  BY <1>1, <1>2, <1>3, <1>4, <1>5, <1>6 DEF NoticesNext

\* So the theorems of ControlPlaneProofs hold of the table under alerts.
LEMMA TableOfNotices == NoticesSpec => Spec
<1>1. NoticesInit => Init
  BY DEF NoticesInit
<1>2. QED
  BY <1>1, NoticesStepsAreTableSteps, PTL DEF NoticesSpec, Spec

--------------------------------------------------------------------------------
(* Reviews begin and end only where alerts are made and settled. *)

\* A cancel is of a task past review, whatever else has been done to it meanwhile.
LEMMA CancelLeavesReviews ==
    ASSUME IndInv, NEW a \in Admins, CancelWrite(a), NEW t \in Tasks
    PROVE  status'[t] = "reviewing" <=> status[t] = "reviewing"
<1>1. /\ status \in [Tasks -> Statuses]
      /\ PastReview(req[a].task)
  BY DEF CancelWrite, IndInv, TypeOK, ReadsStayGood, CancelPastReview
<1>2. status[req[a].task] # "reviewing"
  BY <1>1 DEF PastReview, PastReviewStatuses, ActiveStatuses, FinishedStatuses
<1>3. CASE t = req[a].task
  BY <1>1, <1>2, <1>3 DEF CancelWrite
<1>4. CASE t # req[a].task
  BY <1>1, <1>4 DEF CancelWrite
<1>5. QED
  BY <1>3, <1>4

\* No node call, event, scan for lost tasks or clock takes a task into or out of review.
LEMMA UnannouncedLeavesReviews ==
    ASSUME IndInv, Unannounced, NEW t \in Tasks
    PROVE  status'[t] = "reviewing" <=> status[t] = "reviewing"
<1> DEFINE Same == status'[t] = "reviewing" <=> status[t] = "reviewing"
<1> USE ConstantsAssumption
<1>1. ASSUME NEW n \in Nodes, NEW reported \in Tasks \cup {NoTask}, Heartbeat(n, reported)
      PROVE  Same
  <2>1. CASE ClaimNext(n)
    BY <2>1 DEF ClaimNext, Pending, IndInv, TypeOK
  <2>2. CASE SyncReported(reported)
    BY <2>2 DEF SyncReported, IndInv, TypeOK
  <2>3. QED
    BY <1>1, <2>1, <2>2 DEF Heartbeat
<1>2. CASE EventWrite
  <2>1. /\ handler.task \in Given
        /\ status \in [Tasks -> Statuses]
        /\ handler.event \in EventNames
    BY <1>2 DEF EventWrite, IndInv, TypeOK, Handlers, ReadsStayGood, EventOfGiven
  <2>2. status[handler.task] # "reviewing" /\ handler.event # "reviewing"
    BY <2>1 DEF IndInv, ReadsStayGood, GivenWasClaimed, ActiveStatuses, FinishedStatuses,
                EventNames, Dispatched
  <2>3. QED
    BY <1>2, <2>1, <2>2 DEF EventWrite
<1>3. ASSUME NEW u \in Tasks, NEW final_status \in FinishedStatuses, Result(u, final_status)
      PROVE  Same
  BY <1>3 DEF Result, IndInv, TypeOK, ActiveStatuses, FinishedStatuses
<1>4. CASE LostWrite
  <2>1. PICK missed \in SUBSET (scan.asked \ ackLate) :
          status' = [u \in Tasks |-> Outcome(u, missed)]
    BY <1>4 DEF LostWrite
  <2>2. t \in scan.late \cup scan.gone \cup scan.asked => status[t] # "reviewing"
    BY DEF IndInv, ReadsStayGood, ScanOfGiven, GivenWasClaimed, ActiveStatuses, FinishedStatuses
  <2>3. QED
    BY <2>1, <2>2 DEF Outcome
<1>5. CASE UNCHANGED status
  BY <1>5
<1>6. ASSUME NEW a \in Admins, CancelWrite(a) PROVE Same
  BY <1>6, CancelLeavesReviews
<1>7. QED
  BY <1>1, <1>2, <1>3, <1>4, <1>5, <1>6
  DEF Unannounced, NodeCalls, EventRead, LostRead, ExpireRead, ExpireCheck, CancelRead,
      ApproveRead, RejectRead, EscalateRead, Request, Time, ReviewAges, RunOverruns,
      CancelAckLapses, NodeGoesQuiet

--------------------------------------------------------------------------------
(* The invariant. *)

\* No task, no review and no alert at first.
LEMMA NoticesInitInv == NoticesInit => NoticeInv
<1> SUFFICES ASSUME NoticesInit PROVE NoticeInv
    OBVIOUS
<1>1. IndInv
  BY InitIndInv DEF NoticesInit
<1>2. NoticesTypeOK
  BY DEF NoticesInit, NoticesTypeOK
<1>3. ReviewAnnounced /\ NoStaleAlert
  BY DEF NoticesInit, Init, NoStatus, ReviewAnnounced, NoStaleAlert
<1>4. QED
  BY <1>1, <1>2, <1>3 DEF NoticeInv

\* If a step leaves the reviews and the alerts as they are, so it does the invariant.
LEMMA QuietStepKeeps ==
    ASSUME NoticeInv, UNCHANGED alertVars,
           \A t \in Tasks : status'[t] = "reviewing" <=> status[t] = "reviewing"
    PROVE  NoticesTypeOK' /\ ReviewAnnounced' /\ NoStaleAlert'
BY DEF NoticeInv, NoticesTypeOK, ReviewAnnounced, NoStaleAlert, alertVars

\* Every step that makes, settles or reads an alert, and every other step, keeps it.
LEMMA NoticesStepInv == NoticeInv /\ [NoticesNext]_noticeVars => NoticeInv'
<1> SUFFICES ASSUME NoticeInv, [NoticesNext]_noticeVars PROVE NoticeInv'
    OBVIOUS
<1> DEFINE Alerts == NoticesTypeOK /\ ReviewAnnounced /\ NoStaleAlert
<1>a. IndInv'
  BY NoticesStepsAreTableSteps, StepIndInv DEF NoticeInv
<1>b. /\ status \in [Tasks -> Statuses]
      /\ unread \in [Tasks -> Nat] /\ read \subseteq Tasks /\ stray \subseteq Tasks
  BY DEF NoticeInv, IndInv, TypeOK, NoticesTypeOK
<1>1. ASSUME NEW t \in Tasks, CreateAlerted(t) PROVE Alerts'
  <2>1. /\ \A u \in Tasks \ {t} : status'[u] = status[u] /\ unread'[u] = unread[u]
        /\ unread'[t] = IF AlertFor(t) THEN 1 ELSE 0
        /\ unread' \in [Tasks -> Nat]
        /\ UNCHANGED <<read, stray>>
    BY <1>1, <1>b DEF CreateAlerted, Create, FirstReview, Insert
  <2>2. QED
    BY <2>1, <1>b DEF NoticeInv, AlertFor, NoticesTypeOK, ReviewAnnounced, NoStaleAlert
<1>2. ASSUME NEW t \in Tasks, MarkRead(t) PROVE Alerts'
  <2>1. /\ UNCHANGED <<status, stray>>
        /\ read' = read \cup {t}
        /\ unread' \in [Tasks -> Nat]
        /\ unread[t] > 0 /\ \A u \in Tasks \ {t} : unread'[u] = unread[u]
    BY <1>2, <1>b DEF MarkRead, vars
  <2>2. QED
    BY <2>1, <1>b DEF NoticeInv, NoticesTypeOK, ReviewAnnounced, NoStaleAlert
<1>3. ASSUME NEW a \in Admins, EscalateAlerted(a) PROVE Alerts'
  <2> DEFINE t == req[a].task
  <2>1. t \in Tasks
    BY <1>3 DEF EscalateAlerted, EscalateWrite, NoticeInv, IndInv, ReadsStayGood,
                RequestNamesTask
  <2>2. /\ UNCHANGED <<status, read>>
        /\ unread' = [unread EXCEPT ![t] = @ + 1]
        /\ stray' = IF status[t] = "reviewing" THEN stray ELSE stray \cup {t}
    BY <1>3 DEF EscalateAlerted, EscalateWrite
  <2> HIDE DEF t
  <2>3. /\ unread' \in [Tasks -> Nat] /\ unread'[t] > 0
        /\ \A u \in Tasks \ {t} : unread'[u] = unread[u]
    BY <2>1, <2>2, <1>b
  <2>4. QED
    BY <2>1, <2>2, <2>3, <1>b DEF NoticeInv, NoticesTypeOK, ReviewAnnounced, NoStaleAlert
<1>4. ASSUME NEW a \in Admins, DecideAlerted(a) PROVE Alerts'
  <2> DEFINE t == req[a].task
  <2>1. t \in Tasks
    BY <1>4 DEF DecideAlerted, ApproveWrite, RejectWrite, NoticeInv, IndInv, ReadsStayGood,
                RequestNamesTask
  <2>2. /\ status'[t] # "reviewing"
        /\ \A u \in Tasks \ {t} : status'[u] = status[u]
    BY <1>4, <2>1, <1>b DEF DecideAlerted, ApproveWrite, RejectWrite, Decide
  <2>3. /\ unread' = [u \in Tasks |-> IF u \in {t} THEN 0 ELSE unread[u]]
        /\ UNCHANGED <<read, stray>>
    BY <1>4 DEF DecideAlerted, Settled
  <2> HIDE DEF t
  <2>4. QED
    BY <2>1, <2>2, <2>3, <1>b DEF NoticeInv, NoticesTypeOK, ReviewAnnounced, NoStaleAlert
<1>5. ASSUME ExpireAlerted PROVE Alerts'
  <2>1. scan.listed \subseteq Tasks
    BY DEF NoticeInv, IndInv, TypeOK, Scans
  <2>2. CASE \A u \in scan.listed \ {handler.task} : status[u] = "reviewing"
    <3>1. /\ unread' = [u \in Tasks |-> IF u \in scan.listed THEN 0 ELSE unread[u]]
          /\ UNCHANGED <<read, stray>>
          /\ status' = [u \in Tasks |->
                IF u \in scan.listed /\ status[u] = "reviewing" THEN "review_expired"
                ELSE status[u]]
      BY <1>5, <2>2 DEF ExpireAlerted, ExpireWrite, Settled
    <3>2. /\ unread' \in [Tasks -> Nat]
          /\ \A u \in scan.listed : unread'[u] = 0 /\ status'[u] # "reviewing"
          /\ \A u \in Tasks \ scan.listed : unread'[u] = unread[u] /\ status'[u] = status[u]
      BY <2>1, <3>1, <1>b
    <3>3. QED
      BY <3>1, <3>2, <1>b DEF NoticeInv, NoticesTypeOK, ReviewAnnounced, NoStaleAlert
  <2>3. CASE ~ \A u \in scan.listed \ {handler.task} : status[u] = "reviewing"
    <3>1. UNCHANGED alertVars /\ UNCHANGED status
      BY <1>5, <2>3 DEF ExpireAlerted, ExpireWrite, alertVars
    <3>2. QED
      BY <3>1, QuietStepKeeps
  <2>4. QED
    BY <2>2, <2>3
<1>6. ASSUME Unannounced PROVE Alerts'
  <2>1. UNCHANGED alertVars
    BY <1>6 DEF Unannounced
  <2>2. \A t \in Tasks : status'[t] = "reviewing" <=> status[t] = "reviewing"
    BY <1>6, UnannouncedLeavesReviews DEF NoticeInv
  <2>3. QED
    BY <2>1, <2>2, QuietStepKeeps
<1>7. ASSUME UNCHANGED noticeVars PROVE Alerts'
  <2>1. UNCHANGED alertVars /\ UNCHANGED status
    BY <1>7 DEF noticeVars, vars
  <2>2. QED
    BY <2>1, QuietStepKeeps
<1>8. Alerts'
  BY <1>1, <1>2, <1>3, <1>4, <1>5, <1>6, <1>7 DEF NoticesNext, AdminAlerted
<1>9. QED
  BY <1>a, <1>8 DEF NoticeInv

\* The invariant holds in every reachable state of the composition.
LEMMA NoticeInvHolds == NoticesSpec => []NoticeInv
BY NoticesInitInv, NoticesStepInv, PTL DEF NoticesSpec

--------------------------------------------------------------------------------
(* The theorems. *)

\* A decision, an expiry or an escalation that also writes alerts does to the table what
\* it does in ControlPlane, so that the table implements its ledger here as well.
THEOREM NoticesKeepLedger == NoticesSpec => Spec /\ LedgerSpec
BY TableOfNotices, ImplementsLedger

\* Under alerts the table still gives a node one task at a time, and no L2 task
\* passes review without an approval.
THEOREM TableUnderNotices == NoticesSpec => [](AtMostOneDispatched /\ ReviewGate)
BY NoticeInvHolds, PTL DEF NoticeInv, IndInv

\* Alerts are counted and never below zero: an alert is marked only while it is unread.
THEOREM NoticesTypeCorrect == NoticesSpec => []NoticesTypeOK
BY NoticeInvHolds, PTL DEF NoticeInv

\* A task under review has an unread alert, or somebody has read one of its alerts:
\* no decision, expiry or rollback that loses its race silences a review that goes on.
THEOREM ReviewAnnouncedHolds == NoticesSpec => []ReviewAnnounced
BY NoticeInvHolds, PTL DEF NoticeInv

\* An unread alert is of a task that waits for a decision, or of one escalated by a
\* request that had read it while it still did.
THEOREM NoStaleAlertHolds == NoticesSpec => []NoStaleAlert
BY NoticeInvHolds, PTL DEF NoticeInv

================================================================================
