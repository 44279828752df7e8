------------------------------ MODULE FleetProofs ------------------------------
(***************************************************************************)
(* Proofs about Fleet, for any nodes, tasks, admins and number of crashes. *)
(*                                                                         *)
(* Every step of the fleet is a step of the task table, so that the        *)
(* theorems of ControlPlaneProofs hold of it.  That takes FleetInv, which  *)
(* ties the agent's memory, its file and its processes to what the table   *)
(* knows the node to have been given.                                      *)
(***************************************************************************)
EXTENDS Fleet, ControlPlaneProofs

\* What an agent holds, has saved or runs was given to its node.
Owned(n) ==
    /\ procs[n] \subseteq known[n]
    /\ \A t \in {box[n].task, file[n].task, handle[n]} \ {NoTask} : t \in known[n]

\* Where the agent needs a task it has one.
HasTask(n) ==
    /\ pc[n] \in {"kill", "poll", "timed", "report"} => file[n].task # NoTask
    /\ pc[n] \in {"post", "spawn", "record"} => box[n].task # NoTask

\* A task on its way to be started has not been started before.
Fresh(n) == pc[n] \in {"recover", "sync", "start", "post", "spawn"} => box[n].task \notin ran

\* The processes an agent started and supervises.
Supervised(n) == procs[n] \ orphans

\* A supervised process is the one of the handle, and is in the file or about to be;
\* the agent neither ends its task nor starts another one while it lives.
Attended(n) ==
    \A t \in Supervised(n) :
        /\ handle[n] = t
        /\ \/ pc[n] = "record" /\ box[n].task = t
           \/ pc[n] \in {"beat", "recover", "sync", "kill", "poll"} /\ file[n].task = t

\* What is about to be reported has happened.
Truthful(n) ==
    /\ pc[n] = "timed" => file[n].task \notin procs[n]
    /\ pc[n] = "report" =>
         /\ box[n].outcome # "lost" => file[n].task \notin procs[n]
         /\ box[n].outcome = "succeeded" => exit[file[n].task] = "ok"

AgentInv(n) == Owned(n) /\ HasTask(n) /\ Fresh(n) /\ Attended(n) /\ Truthful(n)

\* The task an agent is starting.
Starting(n) == IF pc[n] \in {"post", "spawn", "record"} THEN {box[n].task} ELSE {}

\* Nothing else is dispatched, or about to be, on a node that starts or runs a task.
Alone(n) ==
    \A t \in Supervised(n) \cup Starting(n) :
        /\ \A u \in Tasks \ {t} : NodeOf[u] = n => status[u] \notin Dispatched
        /\ handler.op = "event" /\ NodeOf[handler.task] = n => handler.task = t

FleetInv ==
    /\ IndInv
    /\ FleetTypeOK
    /\ ran \subseteq Given
    /\ \A n \in Nodes : AgentInv(n) /\ Alone(n)

\* At first no agent has a task and no process lives.
LEMMA InitFleetInv == FleetInit => FleetInv
<1> SUFFICES ASSUME FleetInit PROVE FleetInv
    OBVIOUS
<1> USE ConstantsAssumption, FleetAssumption
<1>1. IndInv
  BY InitIndInv DEF FleetInit
<1>2. FleetTypeOK
  BY <1>1 DEF FleetInit, FleetTypeOK, IndInv, Places, NoBox, NoFile, FinishedStatuses
<1>3. ASSUME NEW n \in Nodes PROVE AgentInv(n) /\ Alone(n)
  BY <1>3 DEF FleetInit, AgentInv, Owned, HasTask, Fresh, Attended, Supervised, Truthful,
              Alone, Starting, NoBox, NoFile
<1>4. QED
  BY <1>1, <1>2, <1>3 DEF FleetInit, FleetInv

--------------------------------------------------------------------------------
(* Every step of the fleet is one of the table, or none. *)

AgentStep(n) ==
    Agent(n) \/ Faults(n) \/ Restart(n) \/ \E t \in Tasks : ProcessEnds(n, t)

\* Of the agent's steps only three kinds of request reach the table.
LEMMA AgentCalls ==
    ASSUME NEW n \in Nodes, AgentStep(n)
    PROVE  Beat(n) \/ ResultAccepted(n) \/ StartPost(n) \/ UNCHANGED vars
BY DEF AgentStep, Agent, Faults, Restart, ProcessEnds, RecoverOk, RecoverFails, Sync, Kill,
       PollEnded, PollAgain, PollOverrun, MarkTimed, ResultDuplicate, FinalizeFails, Clear,
       StartNothing, Posted, Spawn, Record, AgentDies, Reboot, Shutdown

LEMMA AgentStepsAreTableSteps ==
    ASSUME FleetInv, NEW n \in Nodes, AgentStep(n)
    PROVE  [Next]_vars
<1> USE ConstantsAssumption, FleetAssumption
<1>1. CASE Beat(n)
  <2>1. file[n].task \in Tasks \cup {NoTask}
    BY DEF FleetInv, FleetTypeOK
  <2>2. Heartbeat(n, file[n].task)
    BY <1>1 DEF Beat
  <2>3. QED
    BY <2>1, <2>2 DEF Next, NodeCalls
<1>2. CASE ResultAccepted(n)
  <2>1. file[n].task \in Tasks /\ box[n].outcome \in FinishedStatuses
    BY <1>2 DEF ResultAccepted, FleetInv, FleetTypeOK, AgentInv, HasTask
  <2>2. Result(file[n].task, box[n].outcome)
    BY <1>2 DEF ResultAccepted
  <2>3. QED
    BY <2>1, <2>2 DEF Next, NodeCalls
<1>3. CASE StartPost(n)
  <2>1. box[n].task \in Tasks
    BY <1>3 DEF StartPost, FleetInv, FleetTypeOK
  <2>2. EventRead(box[n].task, "running")
    BY <1>3 DEF StartPost
  <2>3. QED
    BY <2>1, <2>2 DEF Next, NodeCalls
<1>4. QED
  BY <1>1, <1>2, <1>3, AgentCalls

LEMMA FleetStepsAreTableSteps ==
    ASSUME FleetInv, [FleetNext]_fleetVars
    PROVE  [Next]_vars
<1>1. CASE Server
  BY <1>1 DEF Server, Next
<1>2. ASSUME NEW n \in Nodes, AgentStep(n) PROVE [Next]_vars
  BY <1>2, AgentStepsAreTableSteps
<1>3. CASE UNCHANGED fleetVars
  BY <1>3 DEF fleetVars
<1>4. QED
  BY <1>1, <1>2, <1>3 DEF FleetNext, AgentStep

\* What a node knows it does not forget.
LEMMA KnownGrows ==
    ASSUME TypeOK, [Next]_vars, NEW n \in Nodes
    PROVE  known[n] \subseteq known'[n]
BY KnownMoves DEF TypeOK

--------------------------------------------------------------------------------
(* Agents keep to themselves. *)

Boxes == [task: Tasks \cup {NoTask}, cancel: BOOLEAN, outcome: FinishedStatuses, closing: BOOLEAN]
Files == [task: Tasks \cup {NoTask}, cancel: BOOLEAN, timed: BOOLEAN]

\* Where an agent goes on.
LEMMA PlacesStay ==
    ASSUME FleetInv, NEW n \in Nodes, AgentStep(n)
    PROVE  pc' \in [Nodes -> Places]
<1>1. pc \in [Nodes -> Places]
  BY DEF FleetInv, FleetTypeOK
<1>2. pc' = pc \/ \E place \in Places : pc' = [pc EXCEPT ![n] = place]
  BY DEF AgentStep, Agent, Faults, Restart, ProcessEnds, Beat, RecoverOk, RecoverFails, Report,
         Sync, Kill, PollEnded, PollAgain, PollOverrun, MarkTimed, ResultAccepted, Answered,
         ResultDuplicate, FinalizeFails, Clear, StartPost, StartNothing, Posted, Spawn, Record,
         AgentDies, Reboot, Shutdown, agentVars, Goto, CycleEnds, Places
<1>3. QED
  BY <1>1, <1>2

\* What an agent holds of a cycle.
LEMMA BoxesStay ==
    ASSUME FleetInv, NEW n \in Nodes, AgentStep(n)
    PROVE  box' \in [Nodes -> Boxes]
<1>1. box \in [Nodes -> Boxes]
  BY DEF FleetInv, FleetTypeOK, Boxes
<1>2. {"lost", "cancelled", "timeout", "failed", "succeeded"} \subseteq FinishedStatuses
  BY DEF FinishedStatuses
<1>3. CASE Beat(n)
  <2> DEFINE claimed == {t \in Tasks : status[t] = "pending" /\ status'[t] = "claimed"}
             task == IF file[n].task = NoTask /\ claimed # {} THEN CHOOSE t \in claimed : TRUE
                     ELSE NoTask
             cancel == file[n].task # NoTask /\ status'[file[n].task] = "cancel_requested"
  <2>1. task \in Tasks \cup {NoTask} /\ cancel \in BOOLEAN
    OBVIOUS
  <2>2. box' = box \/ box' = [box EXCEPT ![n] = [NoBox EXCEPT !.task = task, !.cancel = cancel]]
    BY <1>3 DEF Beat
  <2> HIDE DEF task, cancel
  <2>3. [NoBox EXCEPT !.task = task, !.cancel = cancel] \in Boxes
    BY <2>1, <1>2 DEF NoBox, Boxes
  <2>4. QED
    BY <2>2, <2>3, <1>1
<1>4. CASE \E outcome \in FinishedStatuses : box' = [box EXCEPT ![n].outcome = outcome]
  BY <1>1, <1>4 DEF Boxes
<1>5. CASE RecoverOk(n) \/ PollEnded(n) \/ MarkTimed(n)
  <2>1. RecoveredOutcome(n) \in FinishedStatuses /\ ExitOutcome(n) \in FinishedStatuses
    BY <1>2 DEF RecoveredOutcome, ExitOutcome
  <2>2. box' = box \/ \E outcome \in FinishedStatuses : box' = [box EXCEPT ![n].outcome = outcome]
    BY <1>2, <1>5, <2>1 DEF RecoverOk, PollEnded, MarkTimed, Report
  <2>3. QED
    BY <2>2, <1>1, <1>4
<1>6. CASE AgentDies(n) \/ Reboot(n) \/ Restart(n)
  <2>1. NoBox \in Boxes
    BY <1>2 DEF NoBox, Boxes
  <2>2. box' = [box EXCEPT ![n] = NoBox]
    BY <1>6 DEF AgentDies, Reboot, Restart
  <2>3. QED
    BY <2>1, <2>2, <1>1
<1>7. CASE Shutdown(n)
  <2>1. box' = box \/ \E outcome \in {"lost", "cancelled"} :
          box' = [box EXCEPT ![n] = [NoBox EXCEPT !.outcome = outcome, !.closing = TRUE]]
    BY <1>7 DEF Shutdown
  <2>2. \A outcome \in {"lost", "cancelled"} :
          [NoBox EXCEPT !.outcome = outcome, !.closing = TRUE] \in Boxes
    BY <1>2 DEF NoBox, Boxes
  <2>3. QED
    BY <2>1, <2>2, <1>1
<1>8. CASE UNCHANGED box
  BY <1>1, <1>8
<1>9. QED
  BY <1>3, <1>5, <1>6, <1>7, <1>8
  DEF AgentStep, Agent, Faults, ProcessEnds, RecoverFails, Sync, Kill, PollAgain, PollOverrun,
      ResultAccepted, ResultDuplicate, FinalizeFails, Clear, StartPost, StartNothing, Posted,
      Spawn, Record, agentVars

\* What set_current_task, the marks in it, and clear_current_task leave.
LEMMA FilesStay ==
    ASSUME FleetInv, NEW n \in Nodes, AgentStep(n)
    PROVE  file' \in [Nodes -> Files]
<1>1. /\ file \in [Nodes -> Files]
      /\ box[n].task \in Tasks \cup {NoTask}
  BY DEF FleetInv, FleetTypeOK, Files
<1>2. CASE Sync(n) \/ MarkTimed(n) \/ Shutdown(n)
  <2>1. \/ UNCHANGED file
        \/ file' = [file EXCEPT ![n].cancel = TRUE]
        \/ file' = [file EXCEPT ![n].timed = TRUE]
    BY <1>2 DEF Sync, MarkTimed, Shutdown
  <2>2. QED
    BY <1>1, <2>1 DEF Files
<1>3. CASE Clear(n) \/ Record(n)
  <2>1. NoFile \in Files /\ [NoFile EXCEPT !.task = box[n].task] \in Files
    BY <1>1 DEF NoFile, Files
  <2>2. \/ file' = [file EXCEPT ![n] = NoFile]
        \/ file' = [file EXCEPT ![n] = [NoFile EXCEPT !.task = box[n].task]]
    BY <1>3 DEF Clear, Record
  <2>3. QED
    BY <1>1, <2>1, <2>2
<1>4. CASE UNCHANGED file
  BY <1>1, <1>4
<1>5. QED
  BY <1>2, <1>3, <1>4
  DEF AgentStep, Agent, Faults, Restart, ProcessEnds, Beat, RecoverOk, RecoverFails, Kill,
      PollEnded, PollAgain, PollOverrun, ResultAccepted, ResultDuplicate, FinalizeFails,
      StartPost, StartNothing, Posted, Spawn, AgentDies, Reboot, agentVars

\* Processes, their ends and the agents' handles.
LEMMA ProcessesStay ==
    ASSUME FleetInv, NEW n \in Nodes, AgentStep(n)
    PROVE  /\ handle' \in [Nodes -> Tasks \cup {NoTask}]
           /\ procs' \in [Nodes -> SUBSET Tasks]
           /\ exit' \in [Tasks -> {"none", "ok", "bad", "killed"}]
           /\ ran' \subseteq Tasks
           /\ orphans' \subseteq Tasks
           /\ stops' \in [Nodes -> 0..MaxStops]
<1> USE FleetAssumption
<1>1. /\ FleetTypeOK
      /\ pc[n] = "spawn" => box[n].task \in Tasks
  BY DEF FleetInv, FleetTypeOK, AgentInv, HasTask
<1>2. ASSUME NEW t, NEW how \in {"ok", "bad", "killed"}, Ends(n, t, how)
      PROVE  /\ procs' \in [Nodes -> SUBSET Tasks]
             /\ exit' \in [Tasks -> {"none", "ok", "bad", "killed"}]
             /\ ran' \subseteq Tasks
             /\ orphans' \subseteq Tasks
  BY <1>1, <1>2 DEF Ends, Alive, FleetTypeOK
<1>3. CASE Kill(n) \/ PollOverrun(n) \/ \E t \in Tasks : ProcessEnds(n, t)
  <2>1. \E t, how : how \in {"ok", "bad", "killed"} /\ Ends(n, t, how)
    BY <1>3 DEF Kill, PollOverrun, ProcessEnds
  <2>2. UNCHANGED <<handle, stops>>
    BY <1>3 DEF Kill, PollOverrun, ProcessEnds, agentVars
  <2>3. QED
    BY <2>1, <2>2, <1>1, <1>2 DEF FleetTypeOK
<1>4. CASE Shutdown(n)
  <2>1. UNCHANGED procVars \/ Ends(n, handle[n], "killed")
    BY <1>4 DEF Shutdown
  <2>2. /\ handle' \in [Nodes -> Tasks \cup {NoTask}]
        /\ stops' \in [Nodes -> 0..MaxStops]
    BY <1>4, <1>1 DEF Shutdown, Stops, FleetTypeOK
  <2>3. QED
    BY <2>1, <2>2, <1>1, <1>2 DEF FleetTypeOK, procVars
<1>5. CASE AgentDies(n) \/ Reboot(n)
  <2>1. stops' \in [Nodes -> 0..MaxStops]
    BY <1>5, <1>1 DEF AgentDies, Reboot, Stops, FleetTypeOK
  <2>2. QED
    BY <1>5, <1>1, <2>1 DEF AgentDies, Reboot, Stops, Alive, FleetTypeOK
<1>6. CASE Clear(n)
  BY <1>6, <1>1 DEF Clear, FleetTypeOK, procVars
<1>7. CASE Spawn(n)
  BY <1>7, <1>1 DEF Spawn, FleetTypeOK
<1>8. CASE UNCHANGED <<handle, stops, procVars>>
  BY <1>8, <1>1 DEF FleetTypeOK, procVars
<1>9. QED
  BY <1>3, <1>4, <1>5, <1>6, <1>7, <1>8
  DEF AgentStep, Agent, Faults, Restart, Beat, RecoverOk, RecoverFails, Sync, PollEnded,
      PollAgain, MarkTimed, ResultAccepted, ResultDuplicate, FinalizeFails, StartPost,
      StartNothing, Posted, Record

\* Every variable of the agents keeps its type.
LEMMA AgentStepType ==
    ASSUME FleetInv, TypeOK', NEW n \in Nodes, AgentStep(n)
    PROVE  FleetTypeOK'
BY PlacesStay, BoxesStay, FilesStay, ProcessesStay DEF FleetTypeOK, Boxes, Files

\* Nothing that belongs to another node changes.
Local(n) ==
    /\ \A m \in Nodes \ {n} : /\ pc'[m] = pc[m] /\ box'[m] = box[m] /\ file'[m] = file[m]
                              /\ handle'[m] = handle[m] /\ procs'[m] = procs[m]
    /\ \A t \in Tasks : NodeOf[t] # n => /\ exit'[t] = exit[t]
                                         /\ t \in orphans' <=> t \in orphans
                                         /\ t \in ran' <=> t \in ran

LEMMA AgentsAreLocal ==
    ASSUME FleetInv, NEW n \in Nodes, AgentStep(n)
    PROVE  Local(n)
<1> USE ConstantsAssumption DEF Goto, CycleEnds
<1>t. /\ FleetTypeOK /\ HasTask(n)
      /\ \A t \in procs[n] \cup {box[n].task, file[n].task, handle[n]} :
           t = NoTask \/ (t \in Tasks /\ NodeOf[t] = n)
  BY DEF FleetInv, FleetTypeOK, AgentInv, Owned, IndInv, ReadsStayGood, KnownOnNode, TypeOK
<1> DEFINE Agents == \A m \in Nodes \ {n} : /\ pc'[m] = pc[m] /\ box'[m] = box[m]
                                            /\ file'[m] = file[m] /\ handle'[m] = handle[m]
           Procs == \A m \in Nodes \ {n} : procs'[m] = procs[m]
           Fates == \A t \in Tasks : NodeOf[t] # n => /\ exit'[t] = exit[t]
                                                      /\ t \in orphans' <=> t \in orphans
                                                      /\ t \in ran' <=> t \in ran
<1>1. Agents
  BY <1>t
  DEF AgentStep, Agent, Faults, Restart, ProcessEnds, Beat, RecoverOk, RecoverFails, Report,
      Sync, Kill, PollEnded, PollAgain, PollOverrun, MarkTimed, ResultAccepted, Answered,
      ResultDuplicate, FinalizeFails, Clear, StartPost, StartNothing, Posted, Spawn, Record,
      AgentDies, Reboot, Shutdown, Stops, FleetTypeOK, agentVars
<1>2. ASSUME NEW t \in Tasks, NEW how \in {"ok", "bad", "killed"}, Ends(n, t, how), NodeOf[t] = n
      PROVE  Procs /\ Fates
  BY <1>2, <1>t DEF Ends, FleetTypeOK
<1>3. CASE UNCHANGED procVars
  BY <1>1, <1>3 DEF procVars, Local
<1>4. CASE Kill(n) \/ PollOverrun(n) \/ Shutdown(n) \/ \E t \in Tasks : ProcessEnds(n, t)
  <2>1. \/ UNCHANGED procVars
        \/ \E t \in Tasks, how \in {"ok", "bad", "killed"} : Ends(n, t, how) /\ NodeOf[t] = n
    BY <1>4, <1>t DEF Kill, PollOverrun, Shutdown, ProcessEnds, HasTask, Alive
  <2>2. QED
    BY <2>1, <1>1, <1>2, <1>3 DEF Local
<1>5. CASE Spawn(n) \/ AgentDies(n)
  BY <1>1, <1>5, <1>t DEF Spawn, AgentDies, FleetTypeOK, Local, HasTask
<1>6. CASE Reboot(n)
  BY <1>1, <1>6, <1>t DEF Reboot, Alive, FleetTypeOK, Local
<1>7. QED
  BY <1>1, <1>3, <1>4, <1>5, <1>6
  DEF AgentStep, Agent, Faults, Restart, Beat, RecoverOk, RecoverFails, Sync, PollEnded,
      PollAgain, MarkTimed, ResultAccepted, ResultDuplicate, FinalizeFails, Clear, StartPost,
      StartNothing, Posted, Record, Local

--------------------------------------------------------------------------------
(* What an agent is at holds on. *)

\* ... while others act, and whatever the control plane does.
LEMMA OthersKeepAgentInv ==
    ASSUME FleetInv, [Next]_vars, FleetTypeOK', NEW n \in Nodes, NEW m \in Nodes \ {n}, Local(n)
    PROVE  AgentInv(m)'
<1>1. /\ AgentInv(m)
      /\ procs[m] \subseteq known[m] /\ known[m] \subseteq known'[m]
      /\ \A t \in known[m] : t \in Tasks /\ NodeOf[t] = m
  BY KnownGrows
  DEF FleetInv, AgentInv, Owned, IndInv, ReadsStayGood, KnownOnNode, TypeOK
<1>2. /\ pc'[m] = pc[m] /\ box'[m] = box[m] /\ file'[m] = file[m]
      /\ handle'[m] = handle[m] /\ procs'[m] = procs[m]
  BY DEF Local
<1>3. \A t \in Tasks : NodeOf[t] = m => /\ exit'[t] = exit[t]
                                        /\ t \in orphans' <=> t \in orphans
                                        /\ t \in ran' <=> t \in ran
  BY DEF Local
<1>4. Owned(m)' /\ HasTask(m)'
  BY <1>1, <1>2 DEF AgentInv, Owned, HasTask
<1>5. Fresh(m)'
  <2>1. CASE box[m].task = NoTask
    <3>1. NoTask \notin ran'
      BY ConstantsAssumption DEF FleetTypeOK
    <3>2. QED
      BY <2>1, <3>1, <1>2 DEF Fresh
  <2>2. CASE box[m].task # NoTask
    BY <2>2, <1>1, <1>2, <1>3 DEF AgentInv, Owned, Fresh
  <2>3. QED
    BY <2>1, <2>2
<1>6. Attended(m)'
  BY <1>1, <1>2, <1>3 DEF AgentInv, Attended, Supervised
<1>7. Truthful(m)'
  BY <1>1, <1>2, <1>3 DEF AgentInv, Owned, HasTask, Truthful
<1>8. QED
  BY <1>4, <1>5, <1>6, <1>7 DEF AgentInv

\* ... while the table changes under it.
LEMMA ServerKeepsAgentInv ==
    ASSUME FleetInv, [Next]_vars, UNCHANGED <<agentVars, procVars>>, NEW n \in Nodes
    PROVE  AgentInv(n)'
<1>1. known[n] \subseteq known'[n]
  BY KnownGrows DEF FleetInv, IndInv
<1>2. AgentInv(n)
  BY DEF FleetInv
<1>3. QED
  BY <1>1, <1>2
  DEF AgentInv, Owned, HasTask, Fresh, Attended, Supervised, Truthful, agentVars, procVars

\* The task a heartbeat brings was pending, so neither it nor a process of it was given before.
LEMMA BeatBringsFresh ==
    ASSUME FleetInv, NEW n \in Nodes, Beat(n), box'[n].task # NoTask, ~ UNCHANGED <<pc, box>>
    PROVE  box'[n].task \in known'[n] /\ box'[n].task \notin ran
<1> USE ConstantsAssumption
<1> DEFINE claimed == {t \in Tasks : status[t] = "pending" /\ status'[t] = "claimed"}
<1>1. /\ box \in [Nodes -> Boxes]
      /\ status \in [Tasks -> Statuses] /\ known \in [Nodes -> SUBSET Tasks]
      /\ file[n].task = NoTask \/ file[n].task \in Tasks
  BY DEF FleetInv, FleetTypeOK, TypeOK, Boxes
<1>2. file[n].task = NoTask /\ box'[n].task \in claimed
  <2> DEFINE task == IF file[n].task = NoTask /\ claimed # {} THEN CHOOSE t \in claimed : TRUE
                     ELSE NoTask
             cancel == file[n].task # NoTask /\ status'[file[n].task] = "cancel_requested"
  <2>1. box' = [box EXCEPT ![n] = [NoBox EXCEPT !.task = task, !.cancel = cancel]]
    BY DEF Beat
  <2>2. task # NoTask => file[n].task = NoTask /\ task \in claimed
    OBVIOUS
  <2> HIDE DEF task, cancel, claimed
  <2>3. box'[n].task = task
    BY <1>1, <2>1 DEF NoBox
  <2>4. QED
    BY <2>2, <2>3
<1>3. ClaimNext(n)
  BY <1>1, <1>2 DEF Beat, Heartbeat
<1>4. PICK t \in Pending(n) : /\ status' = [status EXCEPT ![t] = "claimed"]
                              /\ known' = [known EXCEPT ![n] = @ \cup {t}]
  BY <1>2, <1>3 DEF ClaimNext
<1>5. box'[n].task = t
  BY <1>1, <1>2, <1>4
<1>6. t \notin Given
  BY <1>4 DEF FleetInv, IndInv, ReadsStayGood, GivenWasClaimed, Pending, ActiveStatuses,
              FinishedStatuses
<1>7. QED
  BY <1>1, <1>4, <1>5, <1>6 DEF FleetInv

\* Nothing but Popen makes a process.
LEMMA OnlySpawnStarts ==
    ASSUME FleetInv, NEW n \in Nodes, AgentStep(n)
    PROVE  procs'[n] \subseteq procs[n] \/ (Spawn(n) /\ procs'[n] = procs[n] \cup {box[n].task})
BY DEF FleetInv, FleetTypeOK, AgentStep, Agent, Faults, Restart, ProcessEnds, Beat, RecoverOk,
       RecoverFails, Sync, Kill, PollEnded, PollAgain, PollOverrun, MarkTimed, ResultAccepted,
       ResultDuplicate, FinalizeFails, Clear, StartPost, StartNothing, Posted, Spawn, Record,
       AgentDies, Reboot, Shutdown, Ends, procVars

\* What an agent may come to hold, save or run.
LEMMA OwnedStays ==
    ASSUME FleetInv, [Next]_vars, NEW n \in Nodes, AgentStep(n)
    PROVE  Owned(n)'
<1> USE ConstantsAssumption
<1>1. /\ FleetTypeOK
      /\ Owned(n) /\ HasTask(n)
      /\ known[n] \subseteq known'[n]
  BY KnownGrows DEF FleetInv, AgentInv, IndInv
<1>2. box \in [Nodes -> Boxes] /\ file \in [Nodes -> Files]
  BY <1>1 DEF FleetTypeOK, Boxes, Files
<1>3. box'[n].task \in known'[n] \cup {NoTask}
  <2>1. CASE Beat(n)
    <3>1. CASE UNCHANGED <<pc, box>>
      BY <3>1, <1>1 DEF Owned
    <3>2. CASE ~ UNCHANGED <<pc, box>>
      BY <2>1, <3>2, BeatBringsFresh
    <3>3. QED
      BY <3>1, <3>2
  <2>2. CASE UNCHANGED box
    BY <2>2, <1>1 DEF Owned
  <2>3. CASE RecoverOk(n) \/ PollEnded(n) \/ MarkTimed(n)
    <3>1. box' = box \/ \E outcome : box' = [box EXCEPT ![n].outcome = outcome]
      BY <2>3 DEF RecoverOk, PollEnded, MarkTimed, Report
    <3>2. box'[n].task = box[n].task
      BY <3>1, <1>2 DEF Boxes
    <3>3. QED
      BY <3>2, <1>1 DEF Owned
  <2>4. CASE AgentDies(n) \/ Reboot(n) \/ Restart(n) \/ Shutdown(n)
    <3>1. \/ box' = box
          \/ box' = [box EXCEPT ![n] = NoBox]
          \/ \E outcome : box' = [box EXCEPT ![n] =
                                    [NoBox EXCEPT !.outcome = outcome, !.closing = TRUE]]
      BY <2>4 DEF AgentDies, Reboot, Restart, Shutdown
    <3>2. CASE \E outcome : box' = [box EXCEPT ![n] =
                                   [NoBox EXCEPT !.outcome = outcome, !.closing = TRUE]]
      <4>1. PICK outcome : box' = [box EXCEPT ![n] =
                                     [NoBox EXCEPT !.outcome = outcome, !.closing = TRUE]]
        BY <3>2
      <4>2. box'[n] = [NoBox EXCEPT !.outcome = outcome, !.closing = TRUE]
        BY <4>1, <1>2
      <4>3. QED
        BY <4>2 DEF NoBox
    <3>3. CASE box' = box \/ box' = [box EXCEPT ![n] = NoBox]
      BY <3>3, <1>1, <1>2 DEF NoBox, Owned
    <3>4. QED
      BY <3>1, <3>2, <3>3
  <2>5. QED
    BY <2>1, <2>2, <2>3, <2>4
    DEF AgentStep, Agent, Faults, ProcessEnds, RecoverFails, Sync, Kill, PollAgain, PollOverrun,
        ResultAccepted, ResultDuplicate, FinalizeFails, Clear, StartPost, StartNothing, Posted,
        Spawn, Record, agentVars
<1>4. file'[n].task \in {file[n].task, NoTask, box[n].task}
  <2>1. CASE Clear(n) \/ Record(n)
    BY <2>1, <1>2 DEF Clear, Record, NoFile
  <2>2. CASE Sync(n) \/ MarkTimed(n) \/ Shutdown(n)
    BY <2>2, <1>2 DEF Sync, MarkTimed, Shutdown, Files
  <2>3. CASE UNCHANGED file
    BY <2>3
  <2>4. QED
    BY <2>1, <2>2, <2>3
    DEF AgentStep, Agent, Faults, Restart, ProcessEnds, Beat, RecoverOk, RecoverFails, Kill,
        PollEnded, PollAgain, PollOverrun, ResultAccepted, ResultDuplicate, FinalizeFails,
        StartPost, StartNothing, Posted, Spawn, AgentDies, Reboot, agentVars
<1>5. handle'[n] \in {handle[n], NoTask, box[n].task}
  BY <1>1
  DEF FleetTypeOK, AgentStep, Agent, Faults, Restart, ProcessEnds, Beat, RecoverOk, RecoverFails,
      Sync, Kill, PollEnded, PollAgain, PollOverrun, MarkTimed, ResultAccepted, ResultDuplicate,
      FinalizeFails, Clear, StartPost, StartNothing, Posted, Spawn, Record, AgentDies, Reboot,
      Shutdown, Stops, agentVars
<1>6. procs'[n] \subseteq procs[n] \/ (Spawn(n) /\ procs'[n] = procs[n] \cup {box[n].task})
  BY OnlySpawnStarts
<1>7. Spawn(n) => box[n].task # NoTask
  BY <1>1 DEF Spawn, HasTask
<1>8. QED
  BY <1>1, <1>3, <1>4, <1>5, <1>6, <1>7 DEF Owned

\* The agent acts on the task it has, starts one that was never started, and reports
\* what it has seen of its process.
LEMMA OwnStepKeeps ==
    ASSUME FleetInv, [Next]_vars, FleetTypeOK', NEW n \in Nodes, AgentStep(n)
    PROVE  HasTask(n)' /\ Fresh(n)' /\ Attended(n)' /\ Truthful(n)'
<1> USE ConstantsAssumption DEF Goto, CycleEnds
<1> DEFINE Keeps == HasTask(n)' /\ Fresh(n)' /\ Attended(n)' /\ Truthful(n)'
<1>1. /\ FleetTypeOK
      /\ HasTask(n) /\ Fresh(n) /\ Attended(n) /\ Truthful(n)
      /\ NoTask \notin ran /\ NoTask \notin procs[n] /\ ran \subseteq Given
  BY DEF FleetInv, AgentInv, FleetTypeOK
<1>2. /\ pc \in [Nodes -> Places]
      /\ box \in [Nodes -> Boxes] /\ file \in [Nodes -> Files]
      /\ procs \in [Nodes -> SUBSET Tasks] /\ handle \in [Nodes -> Tasks \cup {NoTask}]
      /\ exit \in [Tasks -> {"none", "ok", "bad", "killed"}]
  BY <1>1 DEF FleetTypeOK, Boxes, Files
<1>3. CASE Beat(n)
  <2>1. UNCHANGED <<file, handle, procs, exit, ran, orphans>>
    BY <1>3 DEF Beat, procVars
  <2>2. CASE UNCHANGED <<pc, box>>
    BY <2>1, <2>2, <1>1 DEF HasTask, Fresh, Attended, Supervised, Truthful
  <2>3. CASE ~ UNCHANGED <<pc, box>>
    <3>1. pc[n] = "beat" /\ pc'[n] = "recover"
      BY <2>3, <1>2, <1>3 DEF Beat
    <3>2. box'[n].task \notin ran
      <4>1. CASE box'[n].task = NoTask
        BY <4>1, <1>1
      <4>2. CASE box'[n].task # NoTask
        BY <4>2, <2>3, <1>3, BeatBringsFresh
      <4>3. QED
        BY <4>1, <4>2
    <3>3. QED
      BY <3>1, <3>2, <2>1, <1>1 DEF HasTask, Fresh, Attended, Supervised, Truthful
  <2>4. QED
    BY <2>2, <2>3
<1>4. CASE RecoverOk(n)
  <2>1. CASE Unattended(n)
    <3>1. /\ pc' = [pc EXCEPT ![n] = "report"]
          /\ box' = [box EXCEPT ![n].outcome = RecoveredOutcome(n)]
          /\ UNCHANGED <<file, handle, procs, exit, ran, orphans>>
          /\ pc[n] = "recover"
      BY <1>4, <2>1 DEF RecoverOk, Report, procVars
    <3>2. pc'[n] = "report" /\ box'[n].task = box[n].task /\ box'[n].outcome = RecoveredOutcome(n)
      BY <3>1, <1>2 DEF Boxes
    <3>3. Supervised(n) = {}
      BY <3>1, <2>1, <1>1 DEF Attended, Unattended
    <3>4. Supervised(n)' = {}
      BY <3>1, <3>3 DEF Supervised
    <3>5. /\ RecoveredOutcome(n) # "lost" => file[n].task \notin procs[n]
          /\ RecoveredOutcome(n) # "succeeded"
      BY DEF RecoveredOutcome, Alive
    <3>6. QED
      BY <3>1, <3>2, <3>4, <3>5, <2>1 DEF HasTask, Fresh, Attended, Truthful, Unattended
  <2>2. CASE ~ Unattended(n)
    <3>1. /\ pc[n] = "recover" /\ pc'[n] = "sync"
          /\ UNCHANGED <<box, file, handle, procs, exit, ran, orphans>>
      BY <1>2, <1>4, <2>2 DEF RecoverOk, procVars
    <3>2. QED
      BY <3>1, <1>1 DEF HasTask, Fresh, Attended, Supervised, Truthful
  <2>3. QED
    BY <2>1, <2>2
<1>5. CASE Sync(n)
  <2>1. /\ pc[n] = "sync"
        /\ UNCHANGED <<box, handle, procs, exit, ran, orphans>>
        /\ file'[n].task = file[n].task
        /\ \/ file[n].task = NoTask /\ pc'[n] = "start"
           \/ file[n].task # NoTask /\ pc'[n] \in {"kill", "poll"}
    BY <1>2, <1>5 DEF Sync, Files, procVars
  <2>2. QED
    BY <2>1, <1>1 DEF HasTask, Fresh, Attended, Supervised, Truthful
<1>6. CASE Kill(n) \/ PollOverrun(n)
  <2>1. /\ UNCHANGED <<box, file, handle, ran>>
        /\ procs'[n] = procs[n] \ {file[n].task}
        /\ orphans' = orphans \ {file[n].task}
        /\ \/ pc[n] = "kill" /\ pc'[n] = "poll"
           \/ pc[n] = "poll" /\ pc'[n] = "timed"
    BY <1>2, <1>6 DEF Kill, PollOverrun, Ends
  <2>2. \A t \in Supervised(n) : t = file[n].task
    BY <2>1, <1>1 DEF Attended
  <2>3. Supervised(n)' = {}
    BY <2>1, <2>2 DEF Supervised
  <2>4. QED
    BY <2>1, <2>3, <1>1 DEF HasTask, Fresh, Attended, Truthful
<1>7. CASE PollEnded(n) \/ MarkTimed(n)
  <2>1. \E outcome \in FinishedStatuses :
          /\ box' = [box EXCEPT ![n].outcome = outcome]
          /\ outcome = "succeeded" => PollEnded(n) /\ exit[file[n].task] = "ok"
    BY <1>7 DEF PollEnded, MarkTimed, Report, ExitOutcome, FinishedStatuses
  <2>2. /\ box'[n].task = box[n].task
        /\ box'[n].outcome = "succeeded" => exit[file[n].task] = "ok"
    BY <2>1, <1>2 DEF Boxes
  <2>3. /\ UNCHANGED <<handle, procs, exit, ran, orphans>>
        /\ pc[n] \in {"poll", "timed"} /\ pc'[n] = "report"
        /\ file'[n].task = file[n].task
        /\ pc[n] = "poll" => file[n].task \notin procs[n]
    BY <1>2, <1>7 DEF PollEnded, MarkTimed, Report, Files, Alive, procVars
  <2>4. file[n].task # NoTask /\ file[n].task \notin procs[n]
    BY <2>3, <1>1 DEF HasTask, Truthful
  <2>5. Supervised(n)' = {}
    BY <2>3, <2>4, <1>1 DEF Attended, Supervised
  <2>6. QED
    BY <2>2, <2>3, <2>4, <2>5 DEF HasTask, Fresh, Attended, Truthful
<1>8. CASE RecoverFails(n) \/ PollAgain(n) \/ StartNothing(n)
  <2>1. /\ pc[n] \in {"recover", "poll", "start", "spawn"} /\ pc'[n] = "beat"
        /\ UNCHANGED <<box, file, handle, procs, exit, ran, orphans>>
    BY <1>2, <1>8 DEF RecoverFails, PollAgain, StartNothing, procVars
  <2>2. QED
    BY <2>1, <1>1 DEF HasTask, Fresh, Attended, Supervised, Truthful
<1>9. CASE ResultAccepted(n) \/ ResultDuplicate(n) \/ FinalizeFails(n)
  <2>1. /\ pc[n] \in {"report", "clear"}
        /\ pc'[n] \in {"clear", "down", "beat"} \/ pc'[n] = pc[n]
        /\ UNCHANGED <<box, file, handle, procs, exit, ran, orphans>>
    BY <1>2, <1>9 DEF ResultAccepted, Answered, ResultDuplicate, FinalizeFails, procVars
  <2>2. QED
    BY <2>1, <1>1 DEF HasTask, Fresh, Attended, Supervised, Truthful
<1>10. CASE Clear(n)
  <2>1. /\ pc[n] = "clear" /\ pc'[n] \in {"down", "beat"}
        /\ UNCHANGED <<procs, orphans>>
    BY <1>2, <1>10 DEF Clear, procVars
  <2>2. QED
    BY <2>1, <1>1 DEF HasTask, Fresh, Attended, Supervised, Truthful
<1>11. CASE StartPost(n) \/ Posted(n)
  <2>1. /\ pc[n] \in {"start", "post"} /\ pc'[n] \in {"post", "spawn", "start", "beat"}
        /\ pc'[n] \in {"post", "spawn"} => box[n].task # NoTask
        /\ UNCHANGED <<box, file, handle, procs, exit, ran, orphans>>
    BY <1>1, <1>2, <1>11 DEF StartPost, Posted, HasTask, procVars
  <2>2. QED
    BY <2>1, <1>1 DEF HasTask, Fresh, Attended, Supervised, Truthful
<1>12. CASE Spawn(n)
  <2>1. /\ pc[n] = "spawn" /\ pc'[n] = "record"
        /\ UNCHANGED <<box, file, orphans>>
        /\ procs'[n] = procs[n] \cup {box[n].task}
        /\ handle'[n] = box[n].task
    BY <1>2, <1>12 DEF Spawn
  <2>2. QED
    BY <2>1, <1>1 DEF HasTask, Fresh, Attended, Supervised, Truthful
<1>13. CASE Record(n)
  <2>1. /\ pc[n] = "record" /\ pc'[n] = "beat"
        /\ UNCHANGED <<box, handle, procs, orphans>>
        /\ file'[n].task = box[n].task
    BY <1>2, <1>13 DEF Record, NoFile, procVars
  <2>2. QED
    BY <2>1, <1>1 DEF HasTask, Fresh, Attended, Supervised, Truthful
<1>14. CASE AgentDies(n) \/ Reboot(n)
  <2>1. pc'[n] = "down" /\ Supervised(n)' = {}
    BY <1>2, <1>14 DEF AgentDies, Reboot, Supervised
  <2>2. QED
    BY <2>1 DEF HasTask, Fresh, Attended, Truthful
<1>15. CASE Restart(n)
  <2>1. /\ pc[n] = "down" /\ pc'[n] = "beat"
        /\ UNCHANGED <<procs, orphans>>
    BY <1>2, <1>15 DEF Restart, procVars
  <2>2. QED
    BY <2>1, <1>1 DEF HasTask, Fresh, Attended, Supervised, Truthful
<1>16. CASE Shutdown(n)
  <2>1. Supervised(n)' = {}
    <3>1. CASE handle[n] = NoTask
      BY <3>1, <1>1, <1>2, <1>16 DEF Shutdown, Attended, Supervised, procVars
    <3>2. CASE handle[n] # NoTask
      <4>1. /\ procs'[n] = procs[n] \ {handle[n]}
            /\ orphans' = orphans \ {handle[n]}
        BY <3>2, <1>2, <1>16 DEF Shutdown, Ends
      <4>2. QED
        BY <4>1, <1>1 DEF Attended, Supervised
    <3>3. QED
      BY <3>1, <3>2
  <2>2. \/ pc'[n] = "down"
        \/ /\ pc'[n] = "report"
           /\ file'[n].task # NoTask
           /\ box'[n].outcome = IF file'[n].task \in procs'[n] THEN "lost" ELSE "cancelled"
    <3>1. CASE file[n].task = NoTask
      BY <3>1, <1>2, <1>16 DEF Shutdown
    <3>2. CASE file[n].task # NoTask
      <4> DEFINE outcome == IF file[n].task \in procs'[n] THEN "lost" ELSE "cancelled"
      <4>1. /\ file' = [file EXCEPT ![n].cancel = TRUE]
            /\ pc' = [pc EXCEPT ![n] = "report"]
            /\ box' = [box EXCEPT ![n] = [NoBox EXCEPT !.outcome = outcome, !.closing = TRUE]]
        BY <3>2, <1>16 DEF Shutdown
      <4> HIDE DEF outcome
      <4>2. box'[n] = [NoBox EXCEPT !.outcome = outcome, !.closing = TRUE]
        BY <4>1, <1>2
      <4>3. box'[n].outcome = outcome
        BY <4>2 DEF NoBox
      <4>4. file'[n].task = file[n].task /\ pc'[n] = "report"
        BY <4>1, <1>2 DEF Files
      <4>5. QED
        BY <3>2, <4>3, <4>4 DEF outcome
    <3>3. QED
      BY <3>1, <3>2
  <2>3. QED
    BY <2>1, <2>2 DEF HasTask, Fresh, Attended, Truthful
<1>17. CASE \E t \in Tasks : ProcessEnds(n, t)
  <2>1. PICK t \in Tasks : ProcessEnds(n, t)
    BY <1>17
  <2>2. /\ UNCHANGED <<pc, box, file, handle, ran>>
        /\ t \in procs[n]
        /\ procs'[n] = procs[n] \ {t} /\ orphans' = orphans \ {t}
        /\ \A u \in Tasks \ {t} : exit'[u] = exit[u]
    BY <1>2, <2>1 DEF ProcessEnds, Ends, Alive, agentVars
  <2>3. Supervised(n)' \subseteq Supervised(n)
    BY <2>2 DEF Supervised
  <2>4. Attended(n)' /\ HasTask(n)' /\ Fresh(n)'
    BY <2>2, <2>3, <1>1 DEF HasTask, Fresh, Attended
  <2>5. Truthful(n)'
    <3>1. pc[n] = "report" => file[n].task \in Tasks
      BY <1>1, <1>2 DEF HasTask, Files
    <3>2. CASE t = file[n].task
      BY <3>1, <3>2, <2>2, <1>1 DEF Truthful
    <3>3. CASE t # file[n].task
      BY <3>1, <3>3, <2>2, <1>1 DEF Truthful
    <3>4. QED
      BY <3>2, <3>3
  <2>6. QED
    BY <2>4, <2>5
<1>18. QED
  BY <1>3, <1>4, <1>5, <1>6, <1>7, <1>8, <1>9, <1>10, <1>11, <1>12, <1>13, <1>14, <1>15, <1>16,
     <1>17
  DEF AgentStep, Agent, Faults

--------------------------------------------------------------------------------
(* No other task is dispatched on a node that starts or runs one. *)

AloneWith(n, t) ==
    /\ \A u \in Tasks \ {t} : NodeOf[u] = n => status[u] \notin Dispatched
    /\ handler.op = "event" /\ NodeOf[handler.task] = n => handler.task = t

\* Unless the step gives the node a task, or begins an event of another one, none appears.
LEMMA AloneStays ==
    ASSUME IndInv, [Next]_vars, NEW n \in Nodes, NEW t \in Tasks, AloneWith(n, t),
           known'[n] = known[n],
           handler'.op = "event" /\ NodeOf[handler'.task] = n => handler'.task = t
    PROVE  AloneWith(n, t)'
<1> SUFFICES ASSUME NEW u \in Tasks \ {t}, NodeOf[u] = n, status'[u] \in Dispatched
             PROVE  FALSE
    BY DEF AloneWith
<1>1. status'[u] = status[u] \/ Claimed(u) \/ EventPosted(u)
  BY StatusMoves
  DEF IndInv, Moved, Created, Decided, Ended, Cancelled, Dispatched, RefusedStatuses,
      FinishedStatuses
<1>2. ~ Claimed(u)
  <2>1. ASSUME Claimed(u) PROVE u \in known'[n] /\ u \notin known[n]
    BY <2>1 DEF Claimed, Given, IndInv, ReadsStayGood, GivenWasClaimed, ActiveStatuses,
                FinishedStatuses
  <2>2. QED
    BY <2>1
<1>3. ~ EventPosted(u)
  BY DEF EventPosted, AloneWith
<1>4. QED
  BY <1>1, <1>2, <1>3 DEF AloneWith

\* The control plane by itself gives no node a task and begins no event.
LEMMA ServerGivesNothing ==
    ASSUME Server
    PROVE  UNCHANGED known /\ (handler' = handler \/ handler'.op # "event")
BY DEF Server, EventWrite, Scanner, LostRead, LostWrite, ExpireRead, ExpireCheck, ExpireWrite,
       AdminCalls, Create, CancelRead, ApproveRead, RejectRead, EscalateRead, Request,
       AdminWrites, CancelWrite, ApproveWrite, RejectWrite, EscalateWrite, Time, ReviewAges,
       RunOverruns, CancelAckLapses, NodeGoesQuiet, nodeVars, loopVars, Idle, Job

LEMMA ServerKeepsAlone ==
    ASSUME FleetInv, Server, NEW n \in Nodes
    PROVE  Alone(n)'
<1>1. [Next]_vars
  BY DEF Server, Next
<1>2. Supervised(n)' = Supervised(n) /\ Starting(n)' = Starting(n)
  BY DEF Server, agentVars, procVars, Supervised, Starting
<1>3. ASSUME NEW t \in Supervised(n) \cup Starting(n) PROVE AloneWith(n, t)'
  <2>1. AloneWith(n, t) /\ t \in Tasks
    BY <1>3 DEF FleetInv, FleetTypeOK, AgentInv, HasTask, Alone, AloneWith, Supervised, Starting
  <2>2. QED
    BY <1>1, <2>1, AloneStays, ServerGivesNothing DEF FleetInv, AloneWith
<1>4. QED
  BY <1>2, <1>3 DEF Alone, AloneWith

\* An agent takes up a task by posting that it runs.
LEMMA AgentTakesUp ==
    ASSUME FleetInv, NEW n \in Nodes, AgentStep(n)
    PROVE  \/ StartPost(n)
           \/ Supervised(n)' \cup Starting(n)' \subseteq Supervised(n) \cup Starting(n)
<1> USE DEF Goto, CycleEnds
<1>1. /\ pc \in [Nodes -> Places] /\ box \in [Nodes -> Boxes]
      /\ procs \in [Nodes -> SUBSET Tasks]
  BY DEF FleetInv, FleetTypeOK, Boxes
<1>2. Supervised(n)' \subseteq Supervised(n) \/ Spawn(n)
  <2>1. \/ UNCHANGED <<procs, orphans>>
        \/ \E t : procs' = [procs EXCEPT ![n] = @ \ {t}] /\ orphans' = orphans \ {t}
        \/ UNCHANGED procs /\ orphans \subseteq orphans'
        \/ procs' = [procs EXCEPT ![n] = {}]
        \/ Spawn(n)
    BY DEF AgentStep, Agent, Faults, Restart, ProcessEnds, Beat, RecoverOk, RecoverFails, Sync,
           Kill, PollEnded, PollAgain, PollOverrun, MarkTimed, ResultAccepted, ResultDuplicate,
           FinalizeFails, Clear, StartPost, StartNothing, Posted, Record, AgentDies, Reboot,
           Shutdown, Ends, procVars
  <2>2. QED
    BY <1>1, <2>1 DEF Supervised
<1>3. Starting(n)' \subseteq Starting(n) \/ StartPost(n)
  <2>1. \/ UNCHANGED <<pc, box>>
        \/ pc'[n] \notin {"post", "spawn", "record"}
        \/ UNCHANGED box /\ pc[n] \in {"post", "spawn"}
        \/ StartPost(n)
    BY <1>1
    DEF AgentStep, Agent, Faults, Restart, ProcessEnds, Beat, RecoverOk, RecoverFails, Report,
        Sync, Kill, PollEnded, PollAgain, PollOverrun, MarkTimed, ResultAccepted, Answered,
        ResultDuplicate, FinalizeFails, Clear, StartNothing, Posted, Spawn, Record, AgentDies,
        Reboot, Shutdown, agentVars
  <2>2. QED
    BY <2>1 DEF Starting
<1>4. Spawn(n) => Supervised(n)' \subseteq Supervised(n) \cup Starting(n)
  BY <1>1 DEF Spawn, Supervised, Starting
<1>5. QED
  BY <1>2, <1>3, <1>4

\* Only a heartbeat with nothing to report gets a task, and only StartPost begins an event.
LEMMA AgentGivesNothing ==
    ASSUME FleetInv, NEW n \in Nodes, AgentStep(n), NEW m \in Nodes,
           m # n \/ (~ StartPost(n) /\ (Beat(n) => file[n].task # NoTask))
    PROVE  /\ known'[m] = known[m]
           /\ handler'.op = "event" /\ NodeOf[handler'.task] = m => handler' = handler
<1>1. known \in [Nodes -> SUBSET Tasks]
  BY DEF FleetInv, IndInv, TypeOK
<1>2. CASE Beat(n)
  BY <1>1, <1>2, ConstantsAssumption
  DEF Beat, Heartbeat, ClaimNext, SyncReported, loopVars
<1>3. CASE ResultAccepted(n)
  BY <1>3 DEF ResultAccepted, Result, nodeVars, loopVars
<1>4. CASE StartPost(n)
  <2>1. NodeOf[box[n].task] = n
    BY <1>4 DEF StartPost, FleetInv, AgentInv, Owned, IndInv, ReadsStayGood, KnownOnNode
  <2>2. UNCHANGED known /\ handler'.task = box[n].task
    BY <1>4 DEF StartPost, EventRead, nodeVars
  <2>3. QED
    BY <1>4, <2>1, <2>2
<1>5. CASE UNCHANGED vars
  BY <1>5 DEF vars, nodeVars, loopVars
<1>6. QED
  BY <1>2, <1>3, <1>4, <1>5, AgentCalls

LEMMA AgentKeepsAlone ==
    ASSUME FleetInv, NEW n \in Nodes, AgentStep(n), NEW m \in Nodes
    PROVE  Alone(m)'
<1>1. [Next]_vars
  BY AgentStepsAreTableSteps
<1>2. ASSUME NEW t \in Supervised(m) \cup Starting(m), m # n \/ ~ StartPost(n)
      PROVE  AloneWith(m, t)'
  <2>1. AloneWith(m, t) /\ t \in Tasks
    BY <1>2 DEF FleetInv, FleetTypeOK, AgentInv, HasTask, Alone, AloneWith, Supervised, Starting
  <2>2. m = n /\ Beat(n) => file[n].task # NoTask
    BY <1>2, <2>1, ConstantsAssumption DEF FleetInv, AgentInv, Attended, Beat, Starting
  <2>3. QED
    BY <1>1, <1>2, <2>1, <2>2, AgentGivesNothing, AloneStays DEF FleetInv, AloneWith
<1>3. CASE m # n
  <2>1. Supervised(m)' = Supervised(m) /\ Starting(m)' = Starting(m)
    <3>1. \A t \in procs[m] : t \in Tasks /\ NodeOf[t] # n
      BY <1>3 DEF FleetInv, AgentInv, Owned, IndInv, TypeOK, ReadsStayGood, KnownOnNode
    <3>2. QED
      BY <1>3, <3>1, AgentsAreLocal DEF Local, Supervised, Starting
  <2>2. QED
    BY <1>2, <1>3, <2>1 DEF Alone, AloneWith
<1>4. CASE m = n /\ ~ StartPost(n)
  BY <1>2, <1>4, AgentTakesUp DEF Alone, AloneWith
<1>5. CASE m = n /\ StartPost(n)
  <2>1. /\ pc[n] = "start" /\ pc' = [pc EXCEPT ![n] = "post"]
        /\ UNCHANGED <<box, procs, orphans, status>>
        /\ handler'.task = box[n].task
        /\ status[box[n].task] \in Dispatched
        /\ box[n].task \in Tasks
    BY <1>5
    DEF StartPost, Goto, EventRead, AllowedFrom, Dispatched, procVars, FleetInv, FleetTypeOK
  <2>2. Supervised(n)' = {}
    BY <2>1 DEF FleetInv, AgentInv, Attended, Supervised
  <2>3. Starting(n)' = {box[n].task}
    BY <2>1 DEF Starting, FleetInv, FleetTypeOK
  <2>4. NodeOf[box[n].task] = n
    BY <2>1, ConstantsAssumption
    DEF FleetInv, AgentInv, Owned, IndInv, ReadsStayGood, KnownOnNode
  <2>5. \A u \in Tasks \ {box[n].task} : NodeOf[u] = n => status'[u] \notin Dispatched
    BY <2>1, <2>4 DEF FleetInv, IndInv, AtMostOneDispatched
  <2>6. QED
    BY <1>5, <2>1, <2>2, <2>3, <2>5 DEF Alone
<1>6. QED
  BY <1>3, <1>4, <1>5

--------------------------------------------------------------------------------
(* The invariant. *)

LEMMA StepFleetInv == FleetInv /\ [FleetNext]_fleetVars => FleetInv'
<1> SUFFICES ASSUME FleetInv, [FleetNext]_fleetVars PROVE FleetInv'
    OBVIOUS
<1>1. [Next]_vars
  BY FleetStepsAreTableSteps
<1>2. IndInv' /\ TypeOK'
  BY <1>1, StepIndInv DEF FleetInv, IndInv
<1>3. Given \subseteq Given'
  BY <1>1, GivenMoves DEF FleetInv, IndInv
<1>4. CASE Server
  <2>1. FleetTypeOK' /\ ran' \subseteq Given'
    BY <1>2, <1>3, <1>4 DEF Server, FleetInv, FleetTypeOK, agentVars, procVars
  <2>2. QED
    BY <1>1, <1>2, <1>4, <2>1, ServerKeepsAgentInv, ServerKeepsAlone DEF Server, FleetInv
<1>5. ASSUME NEW n \in Nodes, AgentStep(n) PROVE FleetInv'
  <2>1. FleetTypeOK'
    BY <1>2, <1>5, AgentStepType
  <2>2. ran' \subseteq Given'
    <3>1. CASE Spawn(n)
      <4>1. box[n].task \in known[n] /\ NodeOf[box[n].task] = n /\ box[n].task \in Tasks
        BY <3>1, ConstantsAssumption
        DEF Spawn, FleetInv, AgentInv, HasTask, Owned, FleetTypeOK, IndInv, ReadsStayGood,
            KnownOnNode
      <4>2. QED
        BY <1>3, <3>1, <4>1 DEF Spawn, FleetInv, Given
    <3>2. CASE ~ Spawn(n)
      <4>1. UNCHANGED ran
        BY <1>5, <3>2
        DEF AgentStep, Agent, Faults, Restart, ProcessEnds, Beat, RecoverOk, RecoverFails, Sync,
            Kill, PollEnded, PollAgain, PollOverrun, MarkTimed, ResultAccepted,
            ResultDuplicate, FinalizeFails, Clear, StartPost, StartNothing, Posted, Record,
            AgentDies, Reboot, Shutdown, Ends, procVars
      <4>2. QED
        BY <1>3, <4>1 DEF FleetInv
    <3>3. QED
      BY <3>1, <3>2
  <2>3. ASSUME NEW m \in Nodes PROVE AgentInv(m)'
    <3>1. CASE m = n
      BY <1>1, <1>5, <2>1, <3>1, OwnedStays, OwnStepKeeps DEF AgentInv
    <3>2. CASE m # n
      BY <1>1, <1>5, <2>1, <3>2, AgentsAreLocal, OthersKeepAgentInv
    <3>3. QED
      BY <3>1, <3>2
  <2>4. \A m \in Nodes : Alone(m)'
    BY <1>5, AgentKeepsAlone
  <2>5. QED
    BY <1>2, <2>1, <2>2, <2>3, <2>4 DEF FleetInv
<1>6. CASE UNCHANGED fleetVars
  <2>1. UNCHANGED <<agentVars, procVars>> /\ UNCHANGED <<handler, known, status>>
    BY <1>6 DEF fleetVars, vars, nodeVars, loopVars
  <2>2. FleetTypeOK' /\ ran' \subseteq Given'
    BY <1>2, <1>3, <2>1 DEF FleetInv, FleetTypeOK, agentVars, procVars
  <2>3. ASSUME NEW n \in Nodes PROVE Alone(n)'
    BY <2>1 DEF FleetInv, Alone, Supervised, Starting, agentVars, procVars
  <2>4. QED
    BY <1>1, <1>2, <2>1, <2>2, <2>3, ServerKeepsAgentInv DEF FleetInv
<1>7. QED
  BY <1>4, <1>5, <1>6 DEF FleetNext, AgentStep

LEMMA FleetInvHolds == FleetSpec => []FleetInv
BY InitFleetInv, StepFleetInv, PTL DEF FleetSpec

--------------------------------------------------------------------------------
(* The theorems. *)

\* A fleet of agents, crashing and restarting, uses the node API as ControlPlane has it:
\* it reports only tasks it was given, posts events and results of such tasks only, so
\* that all that ControlPlaneProofs proves of the table holds with these agents.
THEOREM FleetKeepsTable == FleetSpec => Spec
<1>1. FleetInit => Init
  BY DEF FleetInit
<1>2. FleetInv /\ [FleetNext]_fleetVars => [Next]_vars
  BY FleetStepsAreTableSteps
<1>3. QED
  BY <1>1, <1>2, FleetInvHolds, PTL DEF FleetSpec, Spec

\* So the fleet hands out tasks as the ledger has it: each is given once, one at a time to
\* a node, and ended work comes back only by a report accepted before a cancel, whatever
\* the agents remember, repeat or lose.
THEOREM FleetKeepsLedger == FleetSpec => LedgerSpec
BY FleetKeepsTable, ImplementsLedger

\* Agents, files and processes keep their types: no outcome, place or task slips into a
\* field that cannot hold it.
THEOREM FleetTypeCorrect == FleetSpec => []FleetTypeOK
BY FleetInvHolds, PTL DEF FleetInv

\* While an agent supervises a process, no other task of its node is claimed or running,
\* whatever replies are lost, results refused and agents restarted.
THEOREM OneAtATimeHolds == FleetSpec => []OneAtATime
<1>1. FleetInv => OneAtATime
  BY DEF FleetInv, Alone, Supervised, OneAtATime
<1>2. QED
  BY <1>1, FleetInvHolds, PTL

\* No task's process is started twice: what the heartbeat brings was never given before,
\* and an agent that dies between claim and Popen does not get it again.
THEOREM LaunchOnceHolds == FleetSpec => LaunchOnce
<1>1. ASSUME FleetInv, [FleetNext]_fleetVars, NEW t \in Tasks, t \notin Live, t \in Live'
      PROVE  t \notin ran
  <2>1. PICK n \in Nodes : t \in procs'[n] /\ t \notin procs[n]
    BY <1>1 DEF Live
  <2>2. CASE AgentStep(n)
    <3>1. Spawn(n) /\ t = box[n].task
      BY <1>1, <2>1, <2>2, OnlySpawnStarts
    <3>2. QED
      BY <1>1, <3>1 DEF Spawn, FleetInv, AgentInv, Fresh
  <2>3. ASSUME NEW m \in Nodes \ {n}, AgentStep(m) PROVE FALSE
    BY <1>1, <2>1, <2>3, AgentsAreLocal DEF Local
  <2>4. CASE UNCHANGED procs
    BY <2>1, <2>4
  <2>5. QED
    BY <1>1, <2>2, <2>3, <2>4 DEF FleetNext, AgentStep, Server, procVars, fleetVars
<1>2. FleetInv /\ [FleetNext]_fleetVars =>
        [\A t \in Tasks : t \notin Live /\ t \in Live' => t \notin ran]_fleetVars
  BY <1>1
<1>3. QED
  BY <1>2, FleetInvHolds, PTL DEF FleetSpec, LaunchOnce

\* A result the table accepts is of a process that has ended, unless it is lost, and it
\* is succeeded only if the process exited with 0.
THEOREM OutcomeIsRealHolds == FleetSpec => OutcomeIsReal
<1>1. ASSUME FleetInv, [FleetNext]_fleetVars, NEW t \in locked' \ locked
      PROVE  /\ status'[t] # "lost" => t \notin Live'
             /\ status'[t] = "succeeded" => exit'[t] = "ok"
  <2>1. PICK n \in Nodes : ResultAccepted(n)
    <3>1. Server => UNCHANGED locked
      BY DEF Server, EventWrite, Scanner, LostRead, LostWrite, ExpireRead, ExpireCheck,
             ExpireWrite, AdminCalls, Create, CancelRead, ApproveRead, RejectRead, EscalateRead,
             Request, AdminWrites, CancelWrite, ApproveWrite, RejectWrite, EscalateWrite, Time,
             ReviewAges, RunOverruns, CancelAckLapses, NodeGoesQuiet, runVars
    <3>2. ASSUME NEW n \in Nodes, Beat(n) \/ StartPost(n) \/ UNCHANGED vars
          PROVE  UNCHANGED locked
      BY <3>2 DEF Beat, Heartbeat, StartPost, EventRead, vars, runVars
    <3>3. QED
      BY <1>1, <3>1, <3>2, AgentCalls DEF FleetNext, AgentStep, fleetVars, vars, runVars
  <2>2. /\ pc[n] = "report" /\ t = file[n].task /\ t \in Tasks /\ t \in known[n]
        /\ status'[t] = box[n].outcome
        /\ UNCHANGED procVars
    BY <1>1, <2>1, ConstantsAssumption
    DEF ResultAccepted, Result, FleetInv, FleetTypeOK, AgentInv, HasTask, Owned, IndInv, TypeOK
  <2>3. ASSUME NEW m \in Nodes, t \in procs[m] PROVE m = n
    BY <1>1, <2>2, <2>3 DEF FleetInv, AgentInv, Owned, IndInv, ReadsStayGood, KnownOnNode
  <2>4. QED
    BY <1>1, <2>2, <2>3 DEF FleetInv, AgentInv, Truthful, Live, procVars
<1>2. FleetInv /\ [FleetNext]_fleetVars =>
        [\A t \in locked' \ locked :
            /\ status'[t] # "lost" => t \notin Live'
            /\ status'[t] = "succeeded" => exit'[t] = "ok"]_fleetVars
  BY <1>1
<1>3. QED
  BY <1>2, FleetInvHolds, PTL DEF FleetSpec, OutcomeIsReal

================================================================================
