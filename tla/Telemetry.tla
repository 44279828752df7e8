------------------------------- MODULE Telemetry -------------------------------
(***************************************************************************)
(* What one node tells about itself: the sampler thread and its ring       *)
(* buffer, the cached fingerprint and the thread that collects it again,   *)
(* the heartbeat that carries both through the retries and the circuit     *)
(* breaker of the HTTP client, and, in the control plane, the rows of      *)
(* node_status_snapshots with their trimming, and the in-memory request    *)
(* for a new fingerprint.                                                  *)
(*                                                                         *)
(* A tick of the clock is a second, with at most one sample.  Samples      *)
(* carry the node's clock, which is Skew ahead, with a fraction; the base  *)
(* row of a heartbeat carries the whole seconds of the control plane's,    *)
(* so that a sample of the same second sorts after it.  A fingerprint is   *)
(* the version of the machine's profile it was collected from.  The order  *)
(* of `rows' is that of their ids.  The run loop posts from one thread.    *)
(***************************************************************************)
EXTENDS Naturals, Sequences, FiniteSets, SequencesExt

CONSTANTS Capacity,   \* sample_buffer_size
          Keep,       \* max_status_history_per_node
          MaxRetries, \* MAX_RETRIES
          Threshold,  \* circuit_breaker_failure_threshold
          Skew,       \* the node's clock less the control plane's
          MaxClock,   \* bound on the clock
          MaxProfile, \* bound on the changes of the machine
          MaxEvents   \* bound on ticks, changes and faults (outages, restarts, lost
                      \* replies and other failures) together

ASSUME TelemetryAssumption ==
    /\ {Capacity, Keep, MaxRetries, Threshold} \subseteq Nat \ {0}
    /\ {Skew, MaxClock, MaxProfile, MaxEvents} \subseteq Nat

VARIABLES
    clock,      \* the control plane's clock
    ring,       \* the ring buffer: the times of the samples in it
    profile,    \* what the machine is now
    cache,      \* _cache of the fingerprint
    dirty,      \* _dirty_event
    collecting, \* what the refresh worker is collecting, or NoFp
    hb,         \* the heartbeat under way: phase, attempt, body, and the reply's flag
    breaker,    \* _CIRCUIT_BREAKER: its state, its failures, is open_until to come
    rows,       \* node_status_snapshots of the node
    pending,    \* the node is in pending_fingerprint_refresh
    reachable,  \* does the control plane answer
    faults,     \* failures so far
    retried,    \* samples stored by a request whose reply was lost, so posted again
    marked,     \* the profile when mark_dirty was last called for a collection not given up
    forgotten   \* the last request for a fingerprint was lost: a reply, a restart, a failure

clockVars == <<clock, profile>>
fpVars == <<cache, dirty, collecting, marked>>
serverVars == <<rows, pending>>
netVars == <<reachable, faults>>
ghostVars == <<retried, forgotten>>
vars == <<clockVars, ring, fpVars, hb, breaker, serverVars, netVars, ghostVars>>

Times == 0..(MaxClock + Skew)
NoFp == MaxProfile + 1

Idle == [phase |-> "idle", attempt |-> 1, samples |-> <<>>, fp |-> 0, refresh |-> FALSE]
Closed == [state |-> "closed", failures |-> 0, cooling |-> FALSE]

Rows == [kind: {"base", "sample"}, at: Times, fp: 0..MaxProfile]
BaseRow(now, fp) == [kind |-> "base", at |-> now, fp |-> fp]
SampleRow(t) == [kind |-> "sample", at |-> t, fp |-> 0]

TypeOK ==
    /\ clock \in 0..MaxClock
    /\ ring \in Seq(Times) /\ Len(ring) <= Capacity
    /\ profile \in 0..MaxProfile
    /\ cache \in 0..MaxProfile
    /\ dirty \in BOOLEAN
    /\ collecting \in 0..NoFp
    /\ hb \in [phase: {"idle", "built", "stored", "answered", "working"},
               attempt: 1..MaxRetries, samples: Seq(Times), fp: 0..MaxProfile,
               refresh: BOOLEAN]
    /\ breaker \in [state: {"closed", "open", "half_open"},
                    failures: 0..Threshold, cooling: BOOLEAN]
    /\ rows \in Seq(Rows)
    /\ pending \in BOOLEAN
    /\ reachable \in BOOLEAN
    /\ faults \in 0..MaxEvents
    /\ retried \in SUBSET Times
    /\ marked \in 0..MaxProfile
    /\ forgotten \in BOOLEAN

Init ==
    /\ clock = 0
    /\ ring = <<>>
    /\ profile = 0
    /\ cache = 0
    /\ dirty = FALSE
    /\ collecting = NoFp
    /\ hb = Idle
    /\ breaker = Closed
    /\ rows = <<>>
    /\ pending = FALSE
    /\ reachable = TRUE
    /\ faults = 0
    /\ retried = {}
    /\ marked = 0
    /\ forgotten = FALSE

--------------------------------------------------------------------------------
(* The machine, its network and its failures. *)

Budget == clock + profile + faults < MaxEvents

Fault ==
    /\ Budget
    /\ faults' = faults + 1

Change ==
    /\ profile < MaxProfile
    /\ Budget
    /\ profile' = profile + 1
    /\ UNCHANGED <<clock, ring, fpVars, hb, breaker, serverVars, netVars, ghostVars>>

GoDown ==
    /\ reachable
    /\ Fault
    /\ reachable' = FALSE
    /\ UNCHANGED <<clockVars, ring, fpVars, hb, breaker, serverVars, ghostVars>>

ComeUp ==
    /\ ~reachable
    /\ reachable' = TRUE
    /\ UNCHANGED <<clockVars, ring, fpVars, hb, breaker, serverVars, faults, ghostVars>>

--------------------------------------------------------------------------------
(* The clock, and the sampler thread: a full deque loses its oldest element. *)

\* Breaks TypeOK: a deque without maxlen.
PushedUnbounded(s, t) == Append(s, t)

Pushed(s, t) == IF Len(s) < Capacity THEN Append(s, t) ELSE Append(Tail(s), t)

NextSecond ==
    /\ clock < MaxClock
    /\ Budget
    /\ clock' = clock + 1

\* The next period of the sampler.
Sample ==
    /\ NextSecond
    /\ ring' = Pushed(ring, clock' + Skew)
    /\ UNCHANGED <<profile, fpVars, hb, breaker, serverVars, netVars, ghostVars>>

\* A period without a sample: it raised, or the machine was busy.
Tick ==
    /\ NextSecond
    /\ UNCHANGED <<profile, ring, fpVars, hb, breaker, serverVars, netVars, ghostVars>>

--------------------------------------------------------------------------------
(* The refresh worker: the event is cleared before the collection starts. *)

StartCollecting ==
    /\ dirty
    /\ collecting = NoFp
    /\ dirty' = FALSE
    /\ collecting' = profile
    /\ UNCHANGED <<clockVars, ring, cache, marked, hb, breaker, serverVars, netVars,
                   ghostVars>>

\* Breaks NoMarkLost: the event cleared when the collection ends.
FinishCollectingAndClear ==
    /\ collecting # NoFp
    /\ cache' = collecting
    /\ collecting' = NoFp
    /\ dirty' = FALSE
    /\ UNCHANGED <<clockVars, ring, marked, hb, breaker, serverVars, netVars, ghostVars>>

FinishCollecting ==
    /\ collecting # NoFp
    /\ cache' = collecting
    /\ collecting' = NoFp
    /\ UNCHANGED <<clockVars, ring, dirty, marked, hb, breaker, serverVars, netVars,
                   ghostVars>>

\* collect_full_fingerprint raises: logged, and the mark is gone.
FailCollecting ==
    /\ collecting # NoFp
    /\ Fault
    /\ collecting' = NoFp
    /\ marked' = 0
    /\ forgotten' = TRUE
    /\ UNCHANGED <<clockVars, ring, cache, dirty, hb, breaker, serverVars,
                   reachable, retried>>

--------------------------------------------------------------------------------
(* The circuit breaker. *)

Refuses(b) == b.state = "open" /\ b.cooling

Allowed(b) == IF b.state = "open" THEN [b EXCEPT !.state = "half_open"] ELSE b

\* Breaks BreakerCloses: the counter is reset, the state is not.
OnSuccessCounted(b) == [b EXCEPT !.failures = 0]

OnSuccess(b) == Closed

Opened(b) == [state |-> "open", failures |-> Threshold, cooling |-> TRUE]

OnTransientFailure(b) ==
    IF b.state = "half_open" \/ b.failures + 1 >= Threshold
    THEN Opened(b)
    ELSE [b EXCEPT !.failures = @ + 1]

OnNonTransientFailure(b) ==
    [b EXCEPT !.state = IF @ = "half_open" THEN "closed" ELSE @, !.failures = 0]

\* open_until passes.
CoolDown ==
    /\ breaker.cooling
    /\ breaker' = [breaker EXCEPT !.cooling = FALSE]
    /\ UNCHANGED <<clockVars, ring, fpVars, hb, serverVars, netVars, ghostVars>>

--------------------------------------------------------------------------------
(* The rows of the history. *)

\* ORDER BY reported_at DESC, id DESC
Newer(s, i, j) ==
    \/ s[i].at > s[j].at
    \/ s[i].at = s[j].at /\ s[i].kind = "sample" /\ s[j].kind = "base"
    \/ s[i].at = s[j].at /\ s[i].kind = s[j].kind /\ i > j

\* The rows that fewer than Keep are newer than, in the order of their ids.
Trimmed(s) ==
    LET kept == {i \in DOMAIN s : Cardinality({j \in DOMAIN s : Newer(s, j, i)}) < Keep}
        at == CHOOSE f \in [1..Cardinality(kept) -> kept] :
                \A k, l \in DOMAIN f : k < l => f[k] < f[l]
    IN [k \in DOMAIN at |-> s[at[k]]]

\* Breaks LatestStatusKept: the samples in place of the base row.
SnapshotRowsOfSamples(now, body) ==
    IF body.samples = <<>>
    THEN <<BaseRow(now, body.fp)>>
    ELSE [i \in DOMAIN body.samples |-> SampleRow(body.samples[i])]

\* Times of samples differ in their fractions, so none is skipped as seen already.
SnapshotRows(now, body) ==
    <<BaseRow(now, body.fp)>> \o [i \in DOMAIN body.samples |-> SampleRow(body.samples[i])]

\* get_latest_status: the newest base row, of which there may be none (404).
LatestStatus ==
    LET bases == {i \in DOMAIN rows : rows[i].kind = "base"}
    IN {rows[i] : i \in {i \in bases : \A j \in bases : ~Newer(rows, j, i)}}

--------------------------------------------------------------------------------
(* The heartbeat. *)

\* Breaks StoredTwiceOnlyIfRetried: the ring is read and not cleared.
BuildFromCopy ==
    /\ hb.phase = "idle"
    /\ IF Refuses(breaker)
       THEN UNCHANGED <<hb, breaker>>
       ELSE /\ hb' = [Idle EXCEPT !.phase = "built", !.samples = ring, !.fp = cache]
            /\ breaker' = Allowed(breaker)
    /\ UNCHANGED <<clockVars, ring, fpVars, serverVars, netVars, ghostVars>>

\* The payload drains the ring before the breaker is asked.
Build ==
    /\ hb.phase = "idle"
    /\ ring' = <<>>
    /\ IF Refuses(breaker)
       THEN UNCHANGED <<hb, breaker>>
       ELSE /\ hb' = [Idle EXCEPT !.phase = "built", !.samples = ring, !.fp = cache]
            /\ breaker' = Allowed(breaker)
    /\ UNCHANGED <<clockVars, fpVars, serverVars, netVars, ghostVars>>

\* The transaction of the handler.
Store ==
    /\ hb.phase = "built"
    /\ reachable
    /\ rows' = rows \o SnapshotRows(clock, hb)
    /\ hb' = [hb EXCEPT !.phase = "stored"]
    /\ UNCHANGED <<clockVars, ring, fpVars, breaker, pending, netVars, ghostVars>>

\* Breaks RefreshArrives: the flag is taken off and not passed on.
AnswerWithoutFlag ==
    /\ hb.phase = "stored"
    /\ rows' = Trimmed(rows)
    /\ pending' = FALSE
    /\ hb' = [hb EXCEPT !.phase = "answered"]
    /\ UNCHANGED <<clockVars, ring, fpVars, breaker, netVars, ghostVars>>

\* trim_node_status_history, the flag, and the reply.
Answer ==
    /\ hb.phase = "stored"
    /\ rows' = Trimmed(rows)
    /\ pending' = FALSE
    /\ hb' = [hb EXCEPT !.phase = "answered", !.refresh = pending]
    /\ UNCHANGED <<clockVars, ring, fpVars, breaker, netVars, ghostVars>>

\* The reply arrives; run_loop marks the fingerprint and goes on with its cycle.
Receive ==
    /\ hb.phase = "answered"
    /\ breaker' = OnSuccess(breaker)
    /\ dirty' = (dirty \/ hb.refresh)
    /\ marked' = IF hb.refresh THEN profile ELSE marked
    /\ hb' = [Idle EXCEPT !.phase = "working"]
    /\ UNCHANGED <<clockVars, ring, cache, collecting, serverVars, netVars, ghostVars>>

\* One attempt has failed: the same body again, or the failure of the call.
AttemptFails ==
    IF hb.attempt < MaxRetries
    THEN /\ hb' = [hb EXCEPT !.phase = "built", !.attempt = @ + 1, !.refresh = FALSE]
         /\ UNCHANGED breaker
    ELSE /\ hb' = Idle
         /\ breaker' = OnTransientFailure(breaker)

Unreachable ==
    /\ hb.phase = "built"
    /\ ~reachable
    /\ AttemptFails
    /\ UNCHANGED <<clockVars, ring, fpVars, serverVars, netVars, ghostVars>>

LoseReply ==
    /\ hb.phase = "answered"
    /\ Fault
    /\ AttemptFails
    /\ retried' = retried \cup ToSet(hb.samples)
    /\ forgotten' = (forgotten \/ hb.refresh)
    /\ UNCHANGED <<clockVars, ring, fpVars, serverVars, reachable>>

\* A status that is not retried: the timestamp is not newer, the node is disabled.
Reject ==
    /\ hb.phase = "built"
    /\ reachable
    /\ Fault
    /\ hb' = Idle
    /\ breaker' = OnNonTransientFailure(breaker)
    /\ UNCHANGED <<clockVars, ring, fpVars, serverVars, reachable, ghostVars>>

--------------------------------------------------------------------------------
(* The other posts of the cycle, which share the breaker. *)

Post ==
    /\ hb.phase = "working"
    /\ ~Refuses(breaker)
    /\ \/ /\ reachable
          /\ breaker' = OnSuccess(Allowed(breaker))
          /\ UNCHANGED faults
       \/ /\ ~reachable
          /\ breaker' = OnTransientFailure(Allowed(breaker))
          /\ UNCHANGED faults
       \/ /\ reachable
          /\ Fault
          /\ breaker' = OnNonTransientFailure(Allowed(breaker))
    /\ UNCHANGED <<clockVars, ring, fpVars, hb, serverVars, reachable, ghostVars>>

EndCycle ==
    /\ hb.phase = "working"
    /\ hb' = Idle
    /\ UNCHANGED <<clockVars, ring, fpVars, breaker, serverVars, netVars, ghostVars>>

--------------------------------------------------------------------------------
(* The administrator, and restarts. *)

\* queue_fingerprint_refresh
Ask ==
    /\ ~pending
    /\ pending' = TRUE
    /\ forgotten' = FALSE
    /\ UNCHANGED <<clockVars, ring, fpVars, hb, breaker, rows, netVars, retried>>

\* The set is lost, and a handler that has committed does not answer.
ServerRestart ==
    /\ Fault
    /\ pending' = FALSE
    /\ forgotten' = (forgotten \/ pending)
    /\ IF hb.phase = "stored"
       THEN AttemptFails /\ retried' = retried \cup ToSet(hb.samples)
       ELSE UNCHANGED <<hb, breaker, retried>>
    /\ UNCHANGED <<clockVars, ring, fpVars, rows, reachable>>

\* The new process collects the fingerprint before its first heartbeat.
AgentRestart ==
    /\ Fault
    /\ hb.phase # "stored"
    /\ ring' = <<>>
    /\ cache' = profile
    /\ dirty' = FALSE
    /\ collecting' = NoFp
    /\ hb' = Idle
    /\ breaker' = Closed
    /\ UNCHANGED <<clockVars, marked, serverVars, reachable, ghostVars>>

--------------------------------------------------------------------------------
Next ==
    \/ Change \/ GoDown \/ ComeUp
    \/ Sample \/ Tick
    \/ StartCollecting \/ FinishCollecting \/ FailCollecting
    \/ CoolDown
    \/ Build \/ Store \/ Answer \/ Receive
    \/ Unreachable \/ LoseReply \/ Reject
    \/ Post \/ EndCycle
    \/ Ask \/ ServerRestart \/ AgentRestart

Spec == Init /\ [][Next]_vars

\* The threads of the agent go on, an outage and an open circuit end.
FairSpec ==
    /\ Spec
    /\ WF_vars(ComeUp)
    /\ WF_vars(CoolDown)
    /\ WF_vars(StartCollecting)
    /\ WF_vars(FinishCollecting)
    /\ WF_vars(Build)
    /\ WF_vars(Store)
    /\ WF_vars(Answer)
    /\ WF_vars(Receive)
    /\ WF_vars(Unreachable)
    /\ WF_vars(EndCycle)

--------------------------------------------------------------------------------
(* Once a node has reported there is a latest status to show: trimming keeps the *)
(* newest rows, and the samples of a heartbeat are no newer than its base row.   *)
LatestStatusKept == rows # <<>> => LatestStatus # {}

(* A sample is in the history twice only if it was posted again after a reply to *)
(* the heartbeat that stored it had been lost.                                   *)
StoredTwiceOnlyIfRetried ==
    \A i, j \in DOMAIN rows :
        /\ i # j
        /\ rows[i].kind = "sample" /\ rows[j].kind = "sample"
        /\ rows[i].at = rows[j].at
        => rows[i].at \in retried

(* A call of mark_dirty, also one during a collection, is followed by a          *)
(* collection that starts after it, unless that one fails.                       *)
NoMarkLost ==
    \/ dirty
    \/ cache >= marked
    \/ collecting # NoFp /\ collecting >= marked

(* A fingerprint an administrator asks for comes, unless the request is lost     *)
(* with a reply, a restart of the control plane or a failed collection.          *)
RefreshArrives ==
    \A v \in 0..MaxProfile :
        pending /\ profile = v ~> forgotten \/ \E r \in LatestStatus : r.fp >= v

(* The circuit closes again and again: no failure opens it for good.             *)
BreakerCloses == []<>(breaker.state = "closed")
================================================================================
