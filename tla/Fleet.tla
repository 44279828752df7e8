--------------------------------- MODULE Fleet ---------------------------------
(***************************************************************************)
(* The control plane of ControlPlane together with its node agents: the    *)
(* agent's heartbeat loop, the task process it supervises, the state it    *)
(* keeps in current_task.json, its crashes, restarts and shutdowns, and an *)
(* HTTP client whose requests are executed and whose replies may be lost.  *)
(*                                                                         *)
(* Every request is a step of both sides: the server part is an action of  *)
(* ControlPlane.  A reply that is lost leaves the server changed and makes *)
(* the agent retry (post_signed_json) or give up, which ends the cycle of  *)
(* the loop.  The log and artifact uploads appear as requests that succeed *)
(* or fail; what they carry is not modelled here.                          *)
(***************************************************************************)
EXTENDS ControlPlane

CONSTANT MaxStops   \* bound on the crashes and shutdowns of each agent

\* The agent posts one of the events, running.
ASSUME FleetAssumption == MaxStops \in Nat /\ "running" \in Events

VARIABLES
    pc,      \* pc[n]: where node n's agent is in run_loop, or "down"
    box,     \* box[n]: what the agent holds in memory of the current cycle
    file,    \* file[n]: current_task.json
    handle,  \* handle[n]: the task in ACTIVE_PROCESSES
    procs,   \* procs[n]: the tasks with a live process on node n
    exit,    \* exit[t]: how t's process ended, "none" before
    ran,     \* the tasks a process was started for
    orphans, \* the live processes an agent left behind when it died
    stops    \* stops[n]: crashes and shutdowns so far

agentVars == <<pc, box, file, handle, stops>>
procVars == <<procs, exit, ran, orphans>>
fleetVars == <<vars, agentVars, procVars>>

NoBox == [task |-> NoTask, cancel |-> FALSE, outcome |-> "lost", closing |-> FALSE]
NoFile == [task |-> NoTask, cancel |-> FALSE, timed |-> FALSE]

Places == {"down", "beat", "recover", "sync", "kill", "poll", "timed",
           "report", "clear", "start", "post", "spawn", "record"}

FleetTypeOK ==
    /\ TypeOK
    /\ pc \in [Nodes -> Places]
    /\ box \in [Nodes -> [task: Tasks \cup {NoTask}, cancel: BOOLEAN,
                          outcome: FinishedStatuses, closing: BOOLEAN]]
    /\ file \in [Nodes -> [task: Tasks \cup {NoTask}, cancel: BOOLEAN, timed: BOOLEAN]]
    /\ handle \in [Nodes -> Tasks \cup {NoTask}]
    /\ procs \in [Nodes -> SUBSET Tasks]
    /\ exit \in [Tasks -> {"none", "ok", "bad", "killed"}]
    /\ ran \subseteq Tasks
    /\ orphans \subseteq Tasks
    /\ stops \in [Nodes -> 0..MaxStops]

FleetInit ==
    /\ Init
    /\ pc = [n \in Nodes |-> "beat"]
    /\ box = [n \in Nodes |-> NoBox]
    /\ file = [n \in Nodes |-> NoFile]
    /\ handle = [n \in Nodes |-> NoTask]
    /\ procs = [n \in Nodes |-> {}]
    /\ exit = [t \in Tasks |-> "none"]
    /\ ran = {}
    /\ orphans = {}
    /\ stops = [n \in Nodes |-> 0]

--------------------------------------------------------------------------------
Goto(n, place) == pc' = [pc EXCEPT ![n] = place]

\* Done, or an exception: the loop sleeps and begins a new cycle; a shutdown just ends.
CycleEnds(n) == Goto(n, IF box[n].closing THEN "down" ELSE "beat")

\* The server executed the request; the reply arrives, or it is lost and the agent
\* tries again or, after MAX_RETRIES, gives up.
Answered(n, next) == Goto(n, next) \/ UNCHANGED pc \/ CycleEnds(n)

Alive(n, t) == t \in procs[n]

\* Processes end by themselves ...
Ends(n, t, how) ==
    /\ procs' = [procs EXCEPT ![n] = @ \ {t}]
    /\ exit' = IF Alive(n, t) THEN [exit EXCEPT ![t] = how] ELSE exit
    /\ orphans' = orphans \ {t}
    /\ UNCHANGED ran

ProcessEnds(n, t) ==
    /\ Alive(n, t)
    /\ \E how \in {"ok", "bad"} : Ends(n, t, how)
    /\ UNCHANGED <<vars, agentVars>>

\* send_heartbeat, reporting the task in current_task.json.  The reply brings the
\* task just claimed and tells to cancel the one reported.
Beat(n) ==
    LET mine == file[n].task
        claimed == {t \in Tasks : status[t] = "pending" /\ status'[t] = "claimed"}
    IN  /\ pc[n] = "beat"
        /\ Heartbeat(n, mine)
        /\ \/ /\ box' = [box EXCEPT ![n] = [NoBox EXCEPT
                   !.task = IF mine = NoTask /\ claimed # {} THEN CHOOSE t \in claimed : TRUE
                            ELSE NoTask,
                   !.cancel = mine # NoTask /\ status'[mine] = "cancel_requested"]]
              /\ Goto(n, "recover")
           \/ UNCHANGED <<pc, box>>
        /\ UNCHANGED <<file, handle, stops, procVars>>

Report(n, outcome) ==
    /\ box' = [box EXCEPT ![n].outcome = outcome]
    /\ Goto(n, "report")

\* recover_orphaned_task: the file names a task this agent did not start.
Unattended(n) == file[n].task # NoTask /\ handle[n] # file[n].task

\* Breaks OutcomeIsReal: the status saved before the restart is trusted.
RecoveredOutcome_Trusting(n) ==
    IF file[n].cancel THEN "cancelled" ELSE IF file[n].timed THEN "timeout" ELSE "failed"

RecoveredOutcome(n) ==
    IF Alive(n, file[n].task) THEN "lost"
    ELSE IF file[n].cancel THEN "cancelled"
    ELSE IF file[n].timed THEN "timeout" ELSE "failed"

RecoverOk(n) ==
    /\ pc[n] = "recover"
    /\ \/ Unattended(n) /\ Report(n, RecoveredOutcome(n))
       \/ ~Unattended(n) /\ Goto(n, "sync") /\ UNCHANGED box
    /\ UNCHANGED <<vars, file, handle, stops, procVars>>

\* The final log upload fails; the cycle goes on with nothing to do.
RecoverFails(n) ==
    /\ pc[n] = "recover"
    /\ Unattended(n)
    /\ Goto(n, "beat")
    /\ UNCHANGED <<vars, box, file, handle, stops, procVars>>

\* sync_active_task saves the cancel before it kills, and does both once.
Sync(n) ==
    /\ pc[n] = "sync"
    /\ \/ /\ file[n].task = NoTask
          /\ Goto(n, "start")
          /\ UNCHANGED file
       \/ /\ file[n].task # NoTask
          /\ box[n].cancel /\ ~file[n].cancel
          /\ file' = [file EXCEPT ![n].cancel = TRUE]
          /\ Goto(n, "kill")
       \/ /\ file[n].task # NoTask
          /\ ~box[n].cancel \/ file[n].cancel
          /\ Goto(n, "poll")
          /\ UNCHANGED file
    /\ UNCHANGED <<vars, box, handle, stops, procVars>>

Kill(n) ==
    /\ pc[n] = "kill"
    /\ Ends(n, file[n].task, "killed")
    /\ Goto(n, "poll")
    /\ UNCHANGED <<vars, box, file, handle, stops>>

\* Breaks FleetTypeOK: the exit code is reported as the final status.
ExitOutcome_Verbatim(n) ==
    IF file[n].cancel THEN "cancelled"
    ELSE IF file[n].timed THEN "timeout" ELSE exit[file[n].task]

ExitOutcome(n) ==
    IF file[n].cancel THEN "cancelled"
    ELSE IF file[n].timed THEN "timeout"
    ELSE IF exit[file[n].task] = "ok" THEN "succeeded" ELSE "failed"

PollEnded(n) ==
    /\ pc[n] = "poll"
    /\ ~Alive(n, file[n].task)
    /\ Report(n, ExitOutcome(n))
    /\ UNCHANGED <<vars, file, handle, stops, procVars>>

\* The process still runs, or an upload fails: next cycle.
PollAgain(n) ==
    /\ pc[n] = "poll"
    /\ Goto(n, "beat")
    /\ UNCHANGED <<vars, box, file, handle, stops, procVars>>

\* timeout_sec has passed on the agent's clock: kill, and only then save it.
PollOverrun(n) ==
    /\ pc[n] = "poll"
    /\ Alive(n, file[n].task)
    /\ Ends(n, file[n].task, "killed")
    /\ Goto(n, "timed")
    /\ UNCHANGED <<vars, box, file, handle, stops>>

MarkTimed(n) ==
    /\ pc[n] = "timed"
    /\ file' = [file EXCEPT ![n].timed = TRUE]
    /\ Report(n, IF file[n].cancel THEN "cancelled" ELSE "timeout")
    /\ UNCHANGED <<vars, handle, stops, procVars>>

\* finalize_background_task posts the final result.  It is accepted ...
ResultAccepted(n) ==
    /\ pc[n] = "report"
    /\ Result(file[n].task, box[n].outcome)
    /\ Answered(n, "clear")
    /\ UNCHANGED <<box, file, handle, stops, procVars>>

\* Breaks NodeFrees: a result for an ended task is refused (409).
ResultDuplicate_Refused(n) ==
    /\ pc[n] = "report"
    /\ handler = Idle
    /\ status[file[n].task] \in TerminalStatuses
    /\ CycleEnds(n)
    /\ UNCHANGED <<vars, box, file, handle, stops, procVars>>

\* ... or the task has ended already, and the answer says duplicate ...
ResultDuplicate(n) ==
    /\ pc[n] = "report"
    /\ handler = Idle
    /\ status[file[n].task] \in TerminalStatuses
    /\ Goto(n, "clear") \/ CycleEnds(n)
    /\ UNCHANGED <<vars, box, file, handle, stops, procVars>>

\* ... or no answer comes before the agent gives up: the request was refused (409),
\* never arrived, or was not sent since an upload before it failed.
FinalizeFails(n) ==
    /\ pc[n] \in {"report", "clear"}
    /\ CycleEnds(n)
    /\ UNCHANGED <<vars, box, file, handle, stops, procVars>>

\* The summary artifact is uploaded, and only then the task is forgotten.
Clear(n) ==
    /\ pc[n] = "clear"
    /\ file' = [file EXCEPT ![n] = NoFile]
    /\ handle' = [handle EXCEPT ![n] = NoTask]
    /\ CycleEnds(n)
    /\ UNCHANGED <<vars, box, stops, procVars>>

--------------------------------------------------------------------------------
(* start_background_task, for the task the heartbeat reply brought. *)

\* The running event: transition_task reads the row.
StartPost(n) ==
    /\ pc[n] = "start"
    /\ box[n].task # NoTask
    /\ EventRead(box[n].task, "running")
    /\ Goto(n, "post")
    /\ UNCHANGED <<box, file, handle, stops, procVars>>

\* Nothing to start; or it cannot be: build_command knows no such type, the event
\* is refused (409) or does not get through, Popen fails.  The task is dropped.
StartNothing(n) ==
    /\ pc[n] \in {"start", "spawn"}
    /\ Goto(n, "beat")
    /\ UNCHANGED <<vars, box, file, handle, stops, procVars>>

\* The event has been written; its answer may be lost, and the event repeated.
Posted(n) ==
    /\ pc[n] = "post"
    /\ ~(handler.op = "event" /\ handler.task = box[n].task)
    /\ \E place \in {"spawn", "start", "beat"} : Goto(n, place)
    /\ UNCHANGED <<vars, box, file, handle, stops, procVars>>

Spawn(n) ==
    LET t == box[n].task
    IN  /\ pc[n] = "spawn"
        /\ procs' = [procs EXCEPT ![n] = @ \cup {t}]
        /\ ran' = ran \cup {t}
        /\ handle' = [handle EXCEPT ![n] = t]
        /\ Goto(n, "record")
        /\ UNCHANGED <<vars, box, file, stops, exit, orphans>>

\* set_current_task, after the process has begun.
Record(n) ==
    /\ pc[n] = "record"
    /\ file' = [file EXCEPT ![n] = [NoFile EXCEPT !.task = box[n].task]]
    /\ Goto(n, "beat")
    /\ UNCHANGED <<vars, box, handle, stops, procVars>>

--------------------------------------------------------------------------------
(* The agent stops and starts. *)

Stops(n) ==
    /\ stops[n] < MaxStops
    /\ stops' = [stops EXCEPT ![n] = @ + 1]
    /\ handle' = [handle EXCEPT ![n] = NoTask]

\* The agent dies anywhere: its processes, which have sessions of their own, go on.
AgentDies(n) ==
    /\ pc[n] # "down"
    /\ Stops(n)
    /\ Goto(n, "down")
    /\ box' = [box EXCEPT ![n] = NoBox]
    /\ orphans' = orphans \cup procs[n]
    /\ UNCHANGED <<vars, file, procs, exit, ran>>

\* The machine reboots, and everything on it dies.
Reboot(n) ==
    /\ Stops(n)
    /\ Goto(n, "down")
    /\ box' = [box EXCEPT ![n] = NoBox]
    /\ procs' = [procs EXCEPT ![n] = {}]
    /\ exit' = [t \in Tasks |-> IF Alive(n, t) THEN "killed" ELSE exit[t]]
    /\ orphans' = orphans \ procs[n]
    /\ UNCHANGED <<vars, file, ran>>

\* The agent is told to stop, which it notices between cycles: it terminates the
\* process it started, saves that, and finalizes the task by recover_orphaned_task.
Shutdown(n) ==
    LET t == file[n].task
    IN  /\ pc[n] = "beat"
        /\ Stops(n)
        /\ IF handle[n] = NoTask THEN UNCHANGED procVars ELSE Ends(n, handle[n], "killed")
        /\ \/ t = NoTask /\ Goto(n, "down") /\ UNCHANGED <<box, file>>
           \/ /\ t # NoTask
              /\ file' = [file EXCEPT ![n].cancel = TRUE]
              /\ box' = [box EXCEPT ![n] = [NoBox EXCEPT
                     !.outcome = IF t \in procs'[n] THEN "lost" ELSE "cancelled",
                     !.closing = TRUE]]
              /\ Goto(n, "report")
        /\ UNCHANGED vars

Restart(n) ==
    /\ pc[n] = "down"
    /\ Goto(n, "beat")
    /\ box' = [box EXCEPT ![n] = NoBox]
    /\ UNCHANGED <<vars, file, handle, stops, procVars>>

--------------------------------------------------------------------------------
Agent(n) ==
    \/ Beat(n) \/ RecoverOk(n) \/ RecoverFails(n)
    \/ Sync(n) \/ Kill(n) \/ PollEnded(n) \/ PollAgain(n) \/ PollOverrun(n) \/ MarkTimed(n)
    \/ ResultAccepted(n) \/ ResultDuplicate(n) \/ FinalizeFails(n) \/ Clear(n)
    \/ StartPost(n) \/ StartNothing(n) \/ Posted(n) \/ Spawn(n) \/ Record(n)

Faults(n) == AgentDies(n) \/ Reboot(n) \/ Shutdown(n)

\* The control plane's own steps.
Server ==
    /\ \/ EventWrite \/ Scanner \/ AdminCalls \/ Time
       \/ \E a \in Admins : AdminWrites(a)
    /\ UNCHANGED <<agentVars, procVars>>

FleetNext ==
    \/ Server
    \/ \E n \in Nodes : Agent(n) \/ Faults(n) \/ Restart(n)
    \/ \E n \in Nodes, t \in Tasks : ProcessEnds(n, t)

FleetSpec == FleetInit /\ [][FleetNext]_fleetVars

\* What comes before the posting of a result: the poll or the recovery finds the
\* process over, or past its deadline, and the uploads succeed.
Concludes(n) == PollEnded(n) \/ PollOverrun(n) \/ (RecoverOk(n) /\ Unattended(n))

\* An agent that is up goes on, and a supervisor (systemd, the task scheduler)
\* starts it again.  A request made again and again is in the end executed and
\* answered; a process that goes on running has its deadline passed.
AgentFairness(n) ==
    /\ WF_fleetVars(Restart(n))
    /\ WF_fleetVars(\/ RecoverOk(n) \/ Sync(n) \/ Kill(n) \/ PollAgain(n) \/ MarkTimed(n)
                    \/ FinalizeFails(n) \/ StartNothing(n) \/ Posted(n) \/ Record(n))
    /\ SF_fleetVars(Beat(n) /\ pc'[n] = "recover")
    /\ SF_fleetVars(Concludes(n))
    /\ SF_fleetVars((ResultAccepted(n) \/ ResultDuplicate(n)) /\ pc'[n] = "clear")
    /\ SF_fleetVars(Clear(n))

\* Of the control plane's fairness only what ends a cancel and a begun handler.
FairFleetSpec ==
    /\ FleetSpec
    /\ WF_vars(EventWrite) /\ SF_vars(LostRead) /\ WF_vars(LostWrite)
    /\ \A t \in Tasks : WF_vars(CancelAckLapses(t))
    /\ \A a \in Admins : WF_vars(CancelWrite(a))
    /\ \A n \in Nodes : AgentFairness(n)

--------------------------------------------------------------------------------
(* What the fleet promises. *)

Live == UNION {procs[n] : n \in Nodes}

\* A task's process is started at most once, whatever is lost, repeated, crashed or
\* restarted between the claim, the running event and current_task.json.
LaunchOnce ==
    [][\A t \in Tasks : t \notin Live /\ t \in Live' => t \notin ran]_fleetVars

\* An accepted final result is about a process that is over, unless it says lost,
\* and it says succeeded only of a process that exited with 0.
OutcomeIsReal ==
    [][\A t \in locked' \ locked :
        /\ status'[t] # "lost" => t \notin Live'
        /\ status'[t] = "succeeded" => exit'[t] = "ok"]_fleetVars

\* The table and the machine agree: while the agent of a node supervises a process,
\* no other task of the node is claimed or running in the table.
OneAtATime ==
    \A n \in Nodes : \A t \in procs[n] \ orphans : \A u \in Tasks \ {t} :
        NodeOf[u] = n => status[u] \notin Dispatched

\* A node gets rid of its task: after every loss, crash, timeout and refused result
\* it finalizes the task in current_task.json and can be given another.
NodeFrees ==
    \A n \in Nodes, t \in Tasks : file[n].task = t ~> file[n].task # t

\* README, "state recovery after node restart or temporary disconnect": a claimed
\* task is started or given up.
ClaimedMovesOn == \A t \in Tasks : status[t] = "claimed" ~> status[t] # "claimed"

================================================================================
