------------------------------ MODULE OfflineWatch ------------------------------
(***************************************************************************)
(* How an outage of a node comes to be known outside: at every tick the    *)
(* scanner compares the nodes that are offline now with those that were    *)
(* at the tick before (_offline_node_cache), and emits node.offline and    *)
(* node.online through the webhook emitter.  The first tick after a start  *)
(* only fills the cache.                                                   *)
(*                                                                         *)
(* A tick does not await: it is one step.  Of the nodes table only what    *)
(* makes a node offline is kept.  A tick that fails changes nothing.       *)
(* The settings are read when the control plane starts; the events that    *)
(* webhook_events does not list never reach the queue.                     *)
(***************************************************************************)
EXTENDS Webhook, FiniteSets, SequencesExt

CONSTANT MaxSteps   \* bound on what happens outside: changes of nodes, other events,
                    \* shutdowns and crashes

ASSUME WatchAssumption == IsFiniteSet(Nodes) /\ MaxSteps \in Nat

VARIABLES
    enabled,    \* the nodes with a row that has is_enabled = 1
    seen,       \* seen[n]: last_seen_at is "never", "recent", or "old" (30 seconds)
    cache,      \* _offline_node_cache
    firstTick,  \* _scanner_first_tick
    steps       \* what has happened outside so far

nodeVars == <<enabled, seen>>
scanVars == <<cache, firstTick>>
watchVars == <<hookVars, nodeVars, scanVars, steps>>

WatchTypeOK ==
    /\ WebhookTypeOK
    /\ enabled \subseteq Nodes
    /\ seen \in [Nodes -> {"never", "recent", "old"}]
    /\ cache \subseteq Nodes
    /\ firstTick \in BOOLEAN
    /\ steps \in 0..MaxSteps

\* The control plane starts with the nodes its database has.
WatchInit ==
    /\ WebhookInit
    /\ enabled \in SUBSET Nodes
    /\ seen \in [Nodes -> {"never", "recent", "old"}]
    /\ cache = {}
    /\ firstTick = TRUE
    /\ steps = 0

--------------------------------------------------------------------------------
Outside == steps < MaxSteps /\ steps' = steps + 1

\* A node is enabled or disabled by an admin, or deleted, which also forgets when it
\* was seen.
SetEnabled(n) ==
    /\ Outside
    /\ phase = "up"
    /\ \/ n \in enabled /\ enabled' = enabled \ {n} /\ seen' \in {seen, [seen EXCEPT ![n] = "never"]}
       \/ n \notin enabled /\ enabled' = enabled \cup {n} /\ UNCHANGED seen
    /\ UNCHANGED <<hookVars, scanVars>>

Heartbeat(n) ==
    /\ Outside
    /\ phase = "up"
    /\ n \in enabled /\ seen[n] # "recent"
    /\ seen' = [seen EXCEPT ![n] = "recent"]
    /\ UNCHANGED <<hookVars, enabled, scanVars>>

\* No heartbeat for 30 seconds, the control plane being up or not.
FallsSilent(n) ==
    /\ Outside
    /\ seen[n] = "recent"
    /\ seen' = [seen EXCEPT ![n] = "old"]
    /\ UNCHANGED <<hookVars, enabled, scanVars>>

\* A listed event about a task, a review or a login.
EmitOther ==
    /\ Outside
    /\ phase = "up"
    /\ Enqueue(<<[node |-> NoNode, offline |-> FALSE]>>)
    /\ UNCHANGED <<listed, phase, flight, attempts, receiverVars, nodeVars, scanVars>>

--------------------------------------------------------------------------------
(* The scanner: _refresh_status_gauges. *)

Offline == {n \in enabled : seen[n] = "old"}

\* Breaks CacheIsTold: only nodes that are online have recovered.
Recovered_Heard == {n \in cache \ Offline : n \in enabled /\ seen[n] = "recent"}

\* Also the nodes that have been disabled or deleted in the meantime.
Recovered == cache \ Offline

\* One event for each node of a set, in the order the loop takes them.
EventsOf(nodes, offline) ==
    LET order == SetToSeq(nodes)
    IN  [i \in DOMAIN order |-> [node |-> order[i], offline |-> offline]]

\* The listed events of a tick: node.offline of the nodes that are offline now and were
\* not before, then node.online of those that no longer are.
News ==
    EventsOf(Listed("node.offline", Offline \ cache), TRUE)
        \o EventsOf(Listed("node.online", Recovered), FALSE)

\* The first tick keeps the outages it finds to itself.
Tick ==
    /\ phase = "up"
    /\ \/ ~firstTick /\ Enqueue(News)
       \/ /\ firstTick
          /\ stale' = stale \cup Listed("node.offline", Offline)
          /\ UNCHANGED <<queue, unfinished, emitted>>
    /\ cache' = Offline
    /\ firstTick' = FALSE
    /\ UNCHANGED <<listed, phase, flight, attempts, receiverVars, nodeVars, steps>>

--------------------------------------------------------------------------------
(* The control plane stops and starts. *)

Stop ==
    /\ Outside
    /\ Close \/ Crash
    /\ UNCHANGED <<nodeVars, scanVars>>

\* A new process knows nothing of what was announced before, and may be set to emit
\* other events.
Start ==
    /\ phase = "down"
    /\ phase' = "up"
    /\ listed' \in SUBSET NodeKinds
    /\ cache' = {}
    /\ firstTick' = TRUE
    /\ stale' = stale \cup told
    /\ UNCHANGED <<queueVars, receiverVars, nodeVars, steps>>

Next ==
    \/ \E n \in Nodes : SetEnabled(n) \/ Heartbeat(n) \/ FallsSilent(n)
    \/ EmitOther
    \/ Tick
    \/ (Worker \/ Shutdown) /\ UNCHANGED <<nodeVars, scanVars, steps>>
    \/ Stop \/ Start

Spec == WatchInit /\ [][Next]_watchVars

\* The scanner ticks every SCAN_INTERVAL_SEC; the worker goes on, each of its posts
\* ends within webhook_timeout_sec; nothing obliges the receiver to accept one.
FairSpec ==
    /\ Spec
    /\ WF_watchVars(Tick)
    /\ WF_watchVars(Worker /\ UNCHANGED <<nodeVars, scanVars, steps>>)

--------------------------------------------------------------------------------
\* The events about a node, and what the last of them tells.
About(events, n) == {i \in DOMAIN events : events[i].node = n}

LastOffline(events, n) ==
    \E i \in About(events, n) : events[i].offline /\ \A j \in About(events, n) : j <= i

\* The state of a node as it will be known outside when all that is pending has been
\* delivered.
Announced(n) == IF About(Pending, n) = {} THEN n \in told ELSE LastOffline(Pending, n)

\* What was announced of a node, or is about to be, is what the scanner takes for
\* announced, so that the difference of the next tick is right: with node.offline in
\* webhook_events every node of the cache has been announced, with node.online every
\* node that has been announced is still in the cache, and with both the two agree.
\* Except when the latest news of the node was pushed out, given up or cut off, or the
\* control plane has been restarted.  By default neither event is listed; a list with
\* node.offline alone leaves a node announced that has recovered.
CacheIsTold ==
    \A n \in Nodes \ stale :
        /\ "node.offline" \in listed /\ n \in cache => Announced(n)
        /\ "node.online" \in listed /\ Announced(n) => n \in cache

\* With node.offline in webhook_events, a node that stays offline is announced, unless
\* the news is lost: every tick makes up for what the ticks before did not see.
OutageTold ==
    \A n \in Nodes :
        "node.offline" \in listed /\ n \in Offline
            ~> n \in told \/ n \notin Offline \/ n \in stale \/ phase # "up"

================================================================================
