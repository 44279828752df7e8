-------------------------------- MODULE Webhook --------------------------------
(***************************************************************************)
(* The webhook emitter of the control plane: a bounded queue that emit     *)
(* fills without waiting, one worker that posts the events one by one,     *)
(* tries each a few times and then gives it up, and the shutdown, which    *)
(* waits for the queue and in the end drops what is left.                  *)
(*                                                                         *)
(* The receiver may handle an event and its answer be lost: the worker     *)
(* cannot tell that from an event that never arrived.  A post whose answer *)
(* did not come in time is taken to reach the receiver at once or never,   *)
(* not after a later one.  Emitters in other threads are not told apart:   *)
(* each operation on the queue is atomic.  Signature, payload and metrics  *)
(* are left out, an event tells which node is offline or online, or        *)
(* something else.                                                         *)
(***************************************************************************)
EXTENDS Naturals, Sequences

CONSTANTS Nodes,
          NoNode,       \* what an event that is not about a node names
          Capacity,     \* _QUEUE_CAPACITY
          MaxAttempts   \* the first attempt and _RETRY_DELAYS_SEC

ASSUME WebhookAssumption ==
    /\ NoNode \notin Nodes
    /\ Capacity \in Nat \ {0}
    /\ MaxAttempts \in Nat \ {0}

\* The events about nodes.
NodeKinds == {"node.offline", "node.online"}

VARIABLES
    listed,      \* the events about nodes that webhook_events has; none of them by
                 \* default, and without a webhook_url
    phase,       \* the emitter: "up", "draining", "grace" (more time), "down"
    queue,       \* asyncio.Queue
    flight,      \* the events the worker has taken: none or one
    attempts,    \* attempts made for it
    unfinished,  \* _unfinished_tasks of the queue, what join waits for
    emitted,     \* the number of events emitted
    newest,      \* the highest number the receiver has seen
    told,        \* the nodes that are offline as far as the receiver has been told
    stale        \* the nodes of which the latest news was lost

queueVars == <<queue, flight, attempts, unfinished, emitted>>
receiverVars == <<newest, told>>
hookVars == <<listed, phase, queueVars, receiverVars, stale>>

Event == [node: Nodes \cup {NoNode}, offline: BOOLEAN, no: Nat]

WebhookTypeOK ==
    /\ listed \subseteq NodeKinds
    /\ phase \in {"up", "draining", "grace", "down"}
    /\ queue \in Seq(Event) /\ Len(queue) <= Capacity
    /\ flight \in Seq(Event) /\ Len(flight) <= 1
    /\ attempts \in 0..(MaxAttempts - 1)
    /\ unfinished \in Nat
    /\ emitted \in Nat
    /\ newest \in Nat
    /\ told \subseteq Nodes
    /\ stale \subseteq Nodes

WebhookInit ==
    /\ listed \in SUBSET NodeKinds
    /\ phase = "up"
    /\ queue = <<>>
    /\ flight = <<>>
    /\ attempts = 0
    /\ unfinished = 0
    /\ emitted = 0
    /\ newest = 0
    /\ told = {}
    /\ stale = {}

--------------------------------------------------------------------------------
(* emit. *)

\* An event that is not listed is silently forgotten.
Listed(kind, nodes) == IF kind \in listed THEN nodes ELSE {}

\* The news of nodes, numbered from the first free number.
Numbered(news) ==
    [i \in DOMAIN news |-> [node |-> news[i].node, offline |-> news[i].offline,
                            no |-> emitted + i]]

\* The nodes some of the events are about.
Concerned(events) == {events[i].node : i \in DOMAIN events} \cap Nodes

Excess(events) == IF Len(events) > Capacity THEN Len(events) - Capacity ELSE 0

\* Breaks CacheIsTold: a full queue turns the new events away.
Enqueue_DropsNewest(news) ==
    LET all == queue \o Numbered(news)
        kept == SubSeq(all, 1, Len(all) - Excess(all))
    IN  /\ queue' = kept
        /\ unfinished' = unfinished + Len(kept) - Len(queue)
        /\ emitted' = emitted + Len(news)
        /\ stale' = stale \ Concerned(news)

\* Breaks JoinIsExact: task_done is not called for an event that was pushed out.
Enqueue_Unaccounted(news) ==
    LET all == queue \o Numbered(news)
        kept == SubSeq(all, Excess(all) + 1, Len(all))
    IN  /\ queue' = kept
        /\ unfinished' = unfinished + Len(news)
        /\ emitted' = emitted + Len(news)
        /\ stale' = (stale \cup (Concerned(queue) \ Concerned(kept))) \ Concerned(news)

\* Events are appended, and push the oldest ones out of a full queue.  What is lost
\* is the latest news of a node if no other event of it remains.
Enqueue(news) ==
    LET all == queue \o Numbered(news)
        kept == SubSeq(all, Excess(all) + 1, Len(all))
    IN  /\ queue' = kept
        /\ unfinished' = unfinished + Len(news) - Excess(all)
        /\ emitted' = emitted + Len(news)
        /\ stale' = (stale \cup (Concerned(all) \ Concerned(kept)))
                        \ (Concerned(news) \cap Concerned(kept))

--------------------------------------------------------------------------------
(* _run_worker and _deliver. *)

Working == phase # "down"

Take ==
    /\ Working
    /\ flight = <<>> /\ queue # <<>>
    /\ flight' = <<Head(queue)>>
    /\ queue' = Tail(queue)
    /\ attempts' = 0
    /\ UNCHANGED <<listed, phase, unfinished, emitted, receiverVars, stale>>

\* What the receiver makes of an event, again if it had it already.
Told(event) ==
    IF event.node \notin Nodes THEN told
    ELSE IF event.offline THEN told \cup {event.node} ELSE told \ {event.node}

\* task_done, at the end of the loop's body however that ends.
Done ==
    /\ flight' = <<>>
    /\ attempts' = 0
    /\ unfinished' = unfinished - 1

Reaches ==
    /\ Working /\ flight # <<>>
    /\ newest' = flight[1].no
    /\ told' = Told(flight[1])

Delivered ==
    /\ Reaches
    /\ Done
    /\ UNCHANGED <<listed, phase, queue, emitted, stale>>

\* Breaks EmissionOrder: an event that failed waits behind the others.
Retried_Last ==
    /\ attempts + 1 < MaxAttempts
    /\ flight' = <<>>
    /\ queue' = queue \o flight
    /\ attempts' = 0
    /\ UNCHANGED <<unfinished, stale>>

\* Breaks OutageTold: an event is tried until the receiver accepts it.
Retried_Forever ==
    /\ attempts' = (attempts + 1) % MaxAttempts
    /\ UNCHANGED <<queue, flight, unfinished, stale>>

\* The worker keeps the event, and tries again after the delay ...
Retried ==
    /\ attempts + 1 < MaxAttempts
    /\ attempts' = attempts + 1
    /\ UNCHANGED <<queue, flight, unfinished, stale>>

\* ... or gives it up, after the last attempt or at once on an unexpected error.
GivenUp ==
    /\ Done
    /\ stale' = stale \cup (Concerned(flight) \ Concerned(queue))
    /\ UNCHANGED queue

\* The post fails, or the answer is lost or an error.
Attempt ==
    /\ Working /\ flight # <<>>
    /\ UNCHANGED receiverVars \/ Reaches
    /\ Retried \/ GivenUp
    /\ UNCHANGED <<listed, phase, emitted>>

Worker == Take \/ Delivered \/ Attempt

--------------------------------------------------------------------------------
(* aclose, and the end of the process. *)

\* lifespan has cancelled the scanner and withdrawn the emitter.
Close ==
    /\ phase = "up"
    /\ phase' = "draining"
    /\ UNCHANGED <<listed, queueVars, receiverVars, stale>>

\* drain has timed out: one more timeout for what is under way.
DrainTimesOut ==
    /\ phase = "draining" /\ unfinished > 0
    /\ phase' = "grace"
    /\ UNCHANGED <<listed, queueVars, receiverVars, stale>>

\* The worker is gone, with what it had and what it had not taken yet.
Dropped ==
    /\ phase' = "down"
    /\ queue' = <<>>
    /\ flight' = <<>>
    /\ attempts' = 0
    /\ unfinished' = 0
    /\ stale' = stale \cup Concerned(flight \o queue)
    /\ UNCHANGED <<listed, emitted, receiverVars>>

\* Breaks ClosedIsDelivered: an event the worker has taken is not waited for.
Joined_QueueOnly == queue = <<>>

\* join has returned.
Joined == unfinished = 0

Drained ==
    /\ phase \in {"draining", "grace"}
    /\ Joined
    /\ Dropped

GraceTimesOut == phase = "grace" /\ unfinished > 0 /\ Dropped

Crash == Working /\ Dropped

Shutdown == DrainTimesOut \/ Drained \/ GraceTimesOut

--------------------------------------------------------------------------------
Pending == flight \o queue

\* The receiver sees events in the order of their emission, and one that is repeated
\* before any that follows it, whatever is retried, pushed out or given up.
EmissionOrder ==
    /\ \A i, j \in DOMAIN Pending : i < j => Pending[i].no < Pending[j].no
    /\ \A i \in DOMAIN queue : queue[i].no > newest
    /\ \A i \in DOMAIN flight : flight[i].no >= newest

\* join counts exactly what is queued or in the worker's hands: the shutdown neither
\* returns early nor waits for events that are gone.
JoinIsExact == unfinished = Len(queue) + Len(flight)

\* A shutdown in which nothing times out loses no news.
ClosedIsDelivered == [][Drained => stale' = stale]_hookVars

================================================================================
