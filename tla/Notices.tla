-------------------------------- MODULE Notices --------------------------------
(***************************************************************************)
(* The alerts that tell administrators of a review, on top of the task     *)
(* table: create_task and escalate_review insert an unread alert, the      *)
(* decisions mark a task's unread alerts as actioned, the expiry marks     *)
(* them as expired, and administrators mark single alerts as read.  Each   *)
(* of them is in the transaction of the step of ControlPlane it belongs    *)
(* to.  An alert that is not unread is not looked at any more, so that     *)
(* counting the unread ones is enough.                                     *)
(***************************************************************************)
EXTENDS ControlPlane, FiniteSets

VARIABLES
    unread,  \* unread[t]: the unread rows of alert_messages about t
    read,    \* the tasks of which an administrator has read an alert
    stray    \* the tasks escalated after they had been decided or had expired

alertVars == <<unread, read, stray>>
noticeVars == <<vars, alertVars>>

NoticesTypeOK ==
    /\ unread \in [Tasks -> Nat]
    /\ read \subseteq Tasks
    /\ stray \subseteq Tasks

NoticesInit ==
    /\ Init
    /\ unread = [t \in Tasks |-> 0]
    /\ read = {}
    /\ stray = {}

--------------------------------------------------------------------------------
\* Breaks ReviewAnnounced: a task the model rejects makes no alert.
AlertFor_HumanOnly(t) == status'[t] = "reviewing" /\ stage'[t] = 3

\* create_review_alert: every task that starts in review.
AlertFor(t) == status'[t] = "reviewing"

CreateAlerted(t) ==
    /\ Create(t)
    /\ unread' = [unread EXCEPT ![t] = IF AlertFor(t) THEN 1 ELSE 0]
    /\ UNCHANGED <<read, stray>>

\* escalate_review adds an alert, whatever the row has become.
EscalateAlerted(a) ==
    LET t == req[a].task
    IN  /\ EscalateWrite(a)
        /\ unread' = [unread EXCEPT ![t] = @ + 1]
        /\ stray' = IF status[t] = "reviewing" THEN stray ELSE stray \cup {t}
        /\ UNCHANGED read

\* Breaks NoStaleAlert: the alerts of a task are left to be read.
Settled_Kept(tasks) == unread

\* mark_task_alerts_actioned, and the same UPDATE to `expired'.
Settled(tasks) == [t \in Tasks |-> IF t \in tasks THEN 0 ELSE unread[t]]

DecideAlerted(a) ==
    /\ ApproveWrite(a) \/ RejectWrite(a)
    /\ unread' = Settled({req[a].task})
    /\ UNCHANGED <<read, stray>>

\* The alerts of all the listed tasks expire, or none if the job is rolled back.
ExpireAlerted ==
    /\ ExpireWrite
    /\ unread' = IF \A t \in scan.listed \ {handler.task} : status[t] = "reviewing"
                 THEN Settled(scan.listed) ELSE unread
    /\ UNCHANGED <<read, stray>>

\* mark_read, of an alert that is still unread.
MarkRead(t) ==
    /\ unread[t] > 0
    /\ unread' = [unread EXCEPT ![t] = @ - 1]
    /\ read' = read \cup {t}
    /\ UNCHANGED <<vars, stray>>

\* The steps of ControlPlane that alerts have no part in.
Unannounced ==
    /\ \/ NodeCalls \/ EventWrite
       \/ LostRead \/ LostWrite \/ ExpireRead \/ ExpireCheck
       \/ \E a \in Admins, t \in Tasks :
            CancelRead(a, t) \/ ApproveRead(a, t) \/ RejectRead(a, t) \/ EscalateRead(a, t)
       \/ \E a \in Admins : CancelWrite(a)
       \/ Time
    /\ UNCHANGED alertVars

AdminAlerted(a) == EscalateAlerted(a) \/ DecideAlerted(a)

NoticesNext ==
    \/ \E t \in Tasks : CreateAlerted(t) \/ MarkRead(t)
    \/ \E a \in Admins : AdminAlerted(a)
    \/ ExpireAlerted
    \/ Unannounced

NoticesSpec == NoticesInit /\ [][NoticesNext]_noticeVars

\* As in ControlPlane: handlers end, the scanner is woken, clocks advance.
NoticesFairSpec ==
    /\ NoticesSpec
    /\ WF_noticeVars(EventWrite /\ UNCHANGED alertVars)
    /\ SF_noticeVars(LostRead /\ UNCHANGED alertVars)
    /\ WF_noticeVars(LostWrite /\ UNCHANGED alertVars)
    /\ SF_noticeVars(ExpireRead /\ UNCHANGED alertVars)
    /\ WF_noticeVars(ExpireCheck /\ UNCHANGED alertVars)
    /\ WF_noticeVars(ExpireAlerted)
    /\ \A a \in Admins : WF_noticeVars(AdminAlerted(a))
    /\ \A a \in Admins : WF_noticeVars(CancelWrite(a) /\ UNCHANGED alertVars)
    /\ \A t \in Tasks :
         WF_noticeVars((ReviewAges(t) \/ RunOverruns(t) \/ CancelAckLapses(t))
                       /\ UNCHANGED alertVars)

--------------------------------------------------------------------------------
\* A task under review is announced: an alert of it is unread, or somebody has read
\* one.  No decision or expiry that fails takes the alert with it.
ReviewAnnounced ==
    \A t \in Tasks : status[t] = "reviewing" => unread[t] > 0 \/ t \in read

\* An unread alert is of a task that still waits, unless the task was escalated by a
\* request that had read it before it was decided or had expired.
NoStaleAlert ==
    \A t \in Tasks : unread[t] > 0 => status[t] = "reviewing" \/ t \in stray

================================================================================
