# GPUFleet in TLA+

GPUFleet is a control plane (FastAPI over one SQLite file) and agents on GPU
nodes.  Nodes poll: an agent posts signed heartbeats, the reply may bring a task
or an order to cancel, and the agent posts the task's events, log chunks and
final result.  Admins submit tasks, cancel them and decide reviews over HTTP; a
background scanner gives up on silent nodes, overdue tasks and old reviews.

This directory holds TLA+ models of that code, TLC configurations that check
them on small instances, and proofs checked by TLAPS.  Paths below are relative
to `src/`; `node_agent/...` stands for `node_agent/src/gpufleet_node_agent/...`.

    tlasany M.tla                              # parse
    tlc -workers 2 -config MCFleet_launch.cfg MCFleet   # one run
    tlapm ControlPlaneProofs.tla               # proofs

## 1. Inventory

| Component | State | Operations | Correct when | Modules |
|---|---|---|---|---|
| Task table (`app/services/task_state.py`, `app/task_utils.py`, `app/db.py`) | `tasks.status`, review stage and times, `started_at`, `result_locked_at` | `transition_task`, `finalize_task_result`, `claim_next_task_for_node`, `sync_reported_active_task` | one task at a time on a node; no way round the review; ends are final; every cancel and run ends | `ControlPlane`, `DispatchLedger` |
| Node API (`app/services/node_runtime_service.py`) | `nodes.last_seen_at`, `last_request_ts`, `nonces`, `task_logs`, stored logs and artifacts | heartbeat, task-events, task-result, task-log-chunk, artifact-upload, `authenticate_node` | no request takes effect twice or out of order; logs stored exactly | `ControlPlane`, `RequestAuth`, `NodeRegistry`, `TaskFiles`, `Telemetry` |
| Admin task API and review (`app/services/admin_tasks_service.py`, `app/review.py`) | the table, `task_reviews` | create, cancel, approve, reject, escalate | decisions that race agree on one outcome | `ControlPlane` |
| Alerts (`app/review.py`, `app/routers/admin_alerts.py`) | `alert_messages` | made by create and escalate, settled by decisions and the expiry, read | who has to decide is told, and not about what is settled | `Notices` |
| Scanner (`app/background.py`) | lists of rows, offline cache | lost and timed out tasks, expiry of reviews, retention, nonce pruning, offline detection | what it decides on old reads is still right when written | `ControlPlane`, `Notices`, `TaskFiles`, `OfflineWatch` |
| Node registration (`app/services/admin_nodes_service.py`) | `nodes`, its key and onboarding token | create, onboard, renew, edit, enable, delete | the token shown is the secret in force; a disabled node stays so | `NodeRegistry` |
| Agent (`node_agent/cli.py`, `runner/dispatcher.py`, `runner/executor.py`, `state.py`) | `current_task.json`, `ACTIVE_PROCESSES`, the task's process | `run_loop`, `start_background_task`, `sync_active_task`, `recover_orphaned_task`, `finalize_background_task`, shutdown | a task is run once, its outcome told truly, the node freed | `Fleet` |
| Log upload (`runner/log_pump.py`) | `log_offsets.json` | incremental and final upload | the copy is exact and complete | `LogStream` |
| Artifacts and retention (`runner/artifact.py`, `app/background.py`) | `artifacts`, files, archives | upload, `_prune_old_task_logs`, `_prune_old_artifacts` | kept while it must be, gone afterwards | `TaskFiles` |
| HTTP client (`node_agent/api_client.py`) | circuit breaker | `post_signed_json` | retries repeat safely, the circuit closes | `Telemetry` |
| Sampler, fingerprint, status history (`node_agent/sampler.py`, `fingerprint.py`, `app/db.py`) | ring buffer, dirty event, cache, `node_status_snapshots` | sample, drain, refresh, trim, `get_latest_status` | no sample twice, the latest status is found, a refresh arrives | `Telemetry` |
| Webhooks (`app/webhook.py`) | bounded queue, worker | `emit`, delivery with retries, drain, shutdown | events in order, delivered or accounted for | `Webhook`, `OfflineWatch` |

The rest (native tasks and command construction, Modal support, sessions,
dashboards, metrics, console, migrations) is listed in `PROJECT.json` with the
reason it has no model.

**How they interact.**  Components share the SQLite file.  The node handlers,
`create_task` and the scanner run on the event loop and do not await while they
change the table, so they exclude one another.  The other admin handlers are plain
`def`: FastAPI runs each in a thread.  `sqlite3` begins a transaction only at the
first write, so what a handler read before is not protected: a thread may write
between the `SELECT` and the `UPDATE` of the event loop, and the other way round.
Between the machines there are only requests of the agent; each may be lost,
executed with its reply lost, retried or delayed.

**What is hard.**  Those read–write gaps; the claim that is committed before its
reply is sent; the crash of an agent whose process goes on; the retry of a result
for a task that has ended meanwhile; log chunks repeated with other boundaries;
files changed before the transaction of their rows ends; timestamps of whole seconds
against a strict order, and of two clocks in one history; what is kept in memory only
(the asked fingerprints, the offline cache, the queue of events) across restarts.
`PROJECT.json` lists every hazard with its line and the properties that watch it.

## 2. Modules

`ControlPlane` — the table.  One variable per column or set of columns; a handler
whose `UPDATE` does not repeat its test is two actions, read and write
(`EventRead`/`EventWrite`, `CancelRead`/`CancelWrite`, `LostRead`/`LostWrite`,
...).  `handler` says which event-loop handler is between the two, `req[a]` what
admin thread `a` has read.  A claim and a final result are one action, because
there the `UPDATE` itself tests the row; a heartbeat is one because it begins with
`BEGIN IMMEDIATE`.  The seven events of the endpoint are all accepted
(`EventNames`), the agent sends one (`running`).  `LostWrite` and `ExpireWrite`
write all the listed rows at once, since from the first `UPDATE` the job holds the
write lock.

`DispatchLedger` — the abstract specification, with four steps: a task is given to its
node once, and only when the node is free (`Give`); work ends (`End`); a cancel may fall
between the acceptance of a report and its writing (`Withdraw`), and then that write,
and nothing else, resumes the task, once (`Resume`).  `ControlPlane` implements it under
the mapping `dispatched` = claimed or running tasks, `given` = tasks named to their
nodes, `withdrawn` = tasks whose `claimed` or `running` event has been read, and not yet
written, and whose row a cancel has changed in between (`Withdrawn`).  A task that ended by
a result, a timeout, a loss or an ordinary cancel is never dispatched again, which
`AtMostOneDispatched` does not say.

`Notices` — extends `ControlPlane` with the alerts.  Each alert is in the transaction
of a step of the table, so each action is one of `ControlPlane` and what it does to
`unread`; an escalation makes its alert whatever the row has become (`stray`).

`Fleet` — extends `ControlPlane` with the agents.  `pc[n]` follows `run_loop`,
`file[n]` is `current_task.json`, `handle[n]` is `ACTIVE_PROCESSES`, `procs[n]` the
processes that live.  Every request is a step of both sides, whose reply may be
lost (`Answered`).  `AgentDies`, `Reboot`, `Shutdown` and `Restart` may come between any
two steps the code separates (shutdown: between cycles, where the code looks).

`RequestAuth` — `build_headers` and `authenticate_node` over a network that repeats,
delays and reorders, clocks that jump, and `prune_expired_nonces`; one secret, one
step.  `NodeRegistry` extends it with the rows of `nodes`: secrets that are renewed
and installed by hand, keys in the old encryption (v1), nodes that are edited,
disabled, deleted and created again.  There `authenticate_node` is two steps,
the `SELECT` with the test of the signature (`SelectNode`) and the transaction
(`AcceptRequest`, `RefuseRequest`), and `update_node` is two (`UpdateRead`,
`UpdateWrite`), because they write what they read.

`LogStream` — one stream of one task: `upload_incremental_logs` with its saved
offsets, `task_log_chunk` with overlap, gap, quota and a commit that may fail
after the file was appended to, the rotation of a full file into archives (`AppendNews`),
and the retention, which deletes the file the row names and the row but no archive
(`DeleteFile`).  `TaskFiles` extends it
with the files behind the rows, the artifact that `finalize_background_task` uploads
after the result, and both retention jobs; `old` stands for the retention period.

`Telemetry` — one node's reports: the sampler's ring, the fingerprint with its worker,
the heartbeat that drains the ring and is retried with the same body (`hb`), the
breaker it shares with the other posts of the cycle (`Post`), the stored rows with
`trim_node_status_history` (`Trimmed`), and the fingerprint requests kept in memory
(`pending`).  Each side may restart.

`Webhook` — `emit`, the worker and `aclose` over a queue that loses its oldest element
when full; `stale` collects the nodes whose latest news was lost, and so what the
properties cannot promise.  `listed` is what `webhook_events` has of `node.offline` and
`node.online`: any of the four subsets, read when the process starts; by default it is
empty (`config.py:75`), and `emit` forgets what is not listed (`Listed`).  `OfflineWatch`
extends it with the source of that news, the comparison of `_refresh_status_gauges` with
`_offline_node_cache`, and with the restart of the control plane.

`ControlPlaneProofs`, `NoticesProofs`, `FleetProofs`, `RequestAuthProofs`,
`NodeRegistryProofs`, `TaskFilesProofs`, `TelemetryProofs`, `OfflineWatchProofs` — the
theorems.  `MC*` — instances.

A definition `X_WithBug` (or `XWithBug`) next to `X` is `X` with one plausible bug;
nothing uses it.  Substituted for `X`, it makes TLC violate the property its comment
names, which shows that the property is sensitive to that line of the code.

### Simplifications

- In the table, time is a set of flags (`overrun`, `ackLate`, `quiet`, `reviewAge`)
  that become true when a deadline has passed; `RequestAuth` and `Telemetry` count
  seconds.
- In the models of the table nodes are enabled and not deleted, and authentication
  succeeds: that is the subject of `NodeRegistry`.  There a secret, the key derived
  from it and its token are one number, and ciphers and signatures are right.
- A task is one process, killing it succeeds, and process ids are not reused.
  State files are saved whole and the agent's disk does not fill up.
- In `Fleet` an upload succeeds or fails; what it carries is the subject of
  `LogStream` and `TaskFiles`.  A character is uploaded whole and is one byte, so that a
  rotated file has exactly `StreamMax` characters; the preview is left out.
- The control plane crashes in `Telemetry` and `OfflineWatch`, which hold what it keeps
  in memory, and between a file and its commit in `LogStream` and `TaskFiles`.
  Elsewhere a crash between two steps leaves what a handler that never writes leaves.
- The tick of the scanner that detects outages, and each operation on the queue of
  events, is one step.  Events about tasks carry no node and no content, and are listed.
  A webhook post that timed out has reached the receiver by then or never does: one that
  arrives after a later event would break the order, whatever the emitter does.
- In `Telemetry` a sample is its time, at most one a second, and a fingerprint the
  version of the machine it was collected from.

## 3. Runs

| Run | Instance | Result |
|---|---|---|
| `table_dispatch` | 1 node, 2 tasks, 2 admin threads, all 7 events, 1 cancel per task | `AtMostOneDispatched`, `OnlyCancelReopens`, `LedgerSpec` hold (1.25 million states) |
| `table_single` | 1 reviewed task, 2 admins, 2 cancels, fairness | `TypeOK`, `ReviewGate`, `ReadsStayGood`, `RefusalStands`, `CancelSettles`, `RunningEnds` hold |
| `notices_settle` | 2 reviewed tasks, 1 admin, no cancel, fairness | `ReviewAnnounced`, `NoStaleAlert`, `ReviewSettles` hold |
| `table_locked_result` | 1 task | `LockedResultStands` is **violated** |
| `fleet_launch` | 1 node, 2 tasks, 2 crashes | `FleetTypeOK`, `OneAtATime`, `LaunchOnce` hold |
| `fleet_frees` | 1 task, 1 cancel, 1 crash, fairness | `OutcomeIsReal`, `NodeFrees` hold |
| `fleet_claimed` | 1 task, no crash, fairness | `ClaimedMovesOn` is **violated** |
| `registry_secrets` | 1 node, 1 editing admin, 2 secrets, 2 requests, clocks to 3, skew 1, nonces expire at once | `AcceptedInOrder`, `LockoutBounded`, `FreshSecondIsAccepted`, `OnceEver`, `TokenIsKey`, `DisableUndoneByStaleEditOnly` hold |
| `files_kept` | 5 characters, chunks of 2, stored files rotated at 3, 1 failed commit, 1 death of the agent, fairness | `StoredExactly`, `AckedIsStored`, `CompleteWhenForgotten`, `ArtifactKept`, `ForgottenUnlessRefused`, `RetentionFrees` hold |
| `telemetry_reports` | ring of 2, history of 3, 2 attempts, circuit opens at 2 failures, 3 outside events, right clock, fairness | `TypeOK`, `LatestStatusKept`, `StoredTwiceOnlyIfRetried`, `NoMarkLost`, `RefreshArrives`, `BreakerCloses` hold |
| `telemetry_latest` | the same, node's clock 2 seconds ahead | `LatestStatusKept` is **violated** |
| `watch_told` | 2 nodes, queue of 2, 2 attempts, any list of node events, 3 outside events, fairness | `EmissionOrder`, `JoinIsExact`, `CacheIsTold`, `ClosedIsDelivered`, `OutageTold` hold |

The three violations are disagreements between the code and what its documents,
messages or tests say:

1. *A locked result is overwritten.*  `cancel_task` reads `running`; the result is
   accepted and locked; the cancel's `UPDATE ... WHERE task_id = ?` makes the task
   `cancel_requested`, later `lost` (`task_state.py:116`).  The same gap in the other
   direction undoes a cancel: the `running` event reads `claimed`, the cancel is
   answered, and the event writes `running` over it (`task_state.py:91`).
2. *A claimed task is stuck.*  The reply of the claiming heartbeat is lost; the node
   heartbeats on with no task, so it is neither quiet nor free.
3. *The latest status is lost.*  The trimming ranks all rows of a node by `reported_at`
   (`db.py:392`), base rows with the control plane's clock and samples with the node's.
   A clock that is ahead, within the skew the authentication allows, makes the samples
   of one heartbeat push out every base row, and `get_latest_status`, which looks for
   base rows only, answers 404.

What else the code does that a reader may not expect is stated as an exception inside
a property that holds, and the property fails without it:

- two requests in one second: the second is refused with 409, which is not retried
  (`FreshSecondIsAccepted`);
- a request authenticated against a row that is deleted and created again before the
  transaction that follows moves the new row (`OnceEver`);
- a v1 key read before the secret is renewed is written back over the new one
  (`TokenIsKey`);
- an `update_node` that had read the node enabled enables it again
  (`DisableUndoneByStaleEditOnly`);
- an escalation that comes after the decision leaves an alert nobody settles
  (`NoStaleAlert`);
- a truncated stream refuses the empty final chunk with 507, and a stream the
  retention deleted answers every later chunk with a gap: the task is never finalized
  on the node (`ForgottenUnlessRefused`);
- archives of a rotated log are never deleted (`RetentionFrees`), so that a node that
  clears its offsets, dies before it clears its task and uploads the log again after the
  retention has the archived part stored twice (`StoredExactly`);
- a request for a fingerprint is lost with the reply that carries it, or a restart
  (`RefreshArrives`);
- the first tick after a restart announces nothing, and nodes disabled while offline
  are announced online (`OutageTold`, `CacheIsTold`);
- with `node.offline` in `webhook_events` and `node.online` not, as in the tests of the
  emitter (`tests/test_webhook.py:32`), a node that has recovered stays announced as
  offline; with neither, the default, nothing is announced (`CacheIsTold`, `OutageTold`).

**Bounds.**  Two tasks on one node are the least in which tasks compete for a
node, and nodes share nothing but the scanner's list, so one node is enough in the
table runs; the proofs hold for any number.  Two admin threads
are the least in which two admins race.  `MaxCancels` bounds repeated cancels, which
restart the acknowledgement timeout; two show that the restart is harmless.  In
`notices_settle` two reviewed tasks let one roll back the expiry of the other; a
cancel is of a task past its review and touches no alert (`CancelLeavesReviews`, proved).
In `Fleet`, two crashes let the second hit the recovery from the first; two tasks let the
node be given another meanwhile.  The two dimensions are split in two runs to stay small.

In `registry_secrets` two secrets are an old and a new one, and two requests an earlier
and a later one, which may be repeated without limit; clocks to 3 with a skew of 1
leave room for a request that is too early, too late and in between, and `Ttl = 0`
forgets nonces as early as possible.  Five characters in chunks of two overlap in every
way that a chunk of the same or of another upload can, and `StreamMax = 3` rotates the file once
in an upload, inside a chunk, and again when the text is sent a second time.  `Capacity`, `Keep` and
`Threshold` of 2 and 3 make rings, histories, queues and counters full after a few
steps; `MaxEvents` bounds what the outside does to a node (seconds, changes,
failures) and `MaxSteps` what it does to the fleet (changes of nodes, other events, stops),
while the code's own steps are not bounded.  The nodes start in any state, so three steps
are enough for an outage, a recovery and a crash in any order, and for three events in a
queue of two; two nodes let the news of one push out that of the other.

`OneAtATime` leaves out the processes of agents that died: the table may well give the
node another task while such a process lives on, which the code accepts
(`recovery_note`: "reattach not supported in MVP").  `OutcomeIsReal` allows `lost` of
a live process for the same reason.

**Fairness.**  A handler that has begun ends: it does not await.  The scanner is woken
every 60 s for ever and the event loop serves every ready callback, but whether
there is something to list may come and go, hence strong fairness of its reads
(`LostRead`, `ExpireRead`).  Clocks advance.  Nothing obliges a node or an admin to call, and
`FairSpec` of `ControlPlane` and `NoticesFairSpec` assume neither.  In `Fleet` the agent's
loop goes on and a supervisor restarts it; a request that is repeated for ever is sometimes
executed and answered (strong fairness), and a process that goes on running is in the end
finished or past its deadline.  `fleet_claimed` fails even under that.  `FilesFairSpec`
says the same of chunks and of the artifact, and that the retention jobs run again and
again; nothing is assumed of the quota beyond what a stored chunk needs.  In
`Telemetry` the agent's threads and loop go on, an outage ends and an open circuit
cools down; how often the faults happen is bounded, not assumed to stop.  In `OfflineWatch` the
scanner ticks and the worker goes on; the receiver need not ever accept an event,
nor the shutdown come.

## 4. Proofs

The theorems hold for any sets of nodes, tasks and threads and any values of the other
constants, from the `ASSUME` of each module alone.  Each module proves one inductive
invariant; a property that is not inductive by itself is carried by what the others say.

**`ControlPlaneProofs`.**  `AtMostOneDispatched` and `ReviewGate` are not inductive:
an `UPDATE` without a test preserves them only if the row is still of the
kind its handler read.  `ReadsStayGood` says that, in eight parts: the event in flight
names a task the node has, and finds no other task of the node claimed or
running (`EventAlone`); the scanner's list and every pending cancel are of tasks
that passed review and, unless read as pending, were given to their node; what a node
knows, its table rows agree with.  The inductive invariant is

    IndInv == TypeOK /\ ReadsStayGood /\ AtMostOneDispatched /\ ReviewGate

The proof classifies what a step can do to one row (`StatusMoves`: created, claimed,
posted, ended, cancelled, decided) and derives each part from that.  From `IndInv` follow
`TypeCorrect`, `ReadsStayGoodHolds`, `AtMostOneDispatchedHolds`, `ReviewGateHolds`,
and the action property `RefusalStandsHolds`.  `OnlyCancelReopensHolds` and
`ImplementsLedger`, that every step of the table is a step of `DispatchLedger` or a stutter,
need one part more, `InFlight`: the tasks an event or a scan is about to write were active
when they were read, and since then at most cancelled, for only admins write while the
event loop is busy.  So the write of a `claimed` or `running` event finds the task
dispatched or withdrawn, and only in the second case does it give anything back.

**`NoticesProofs`.**  Every step with alerts is a step of the table
(`NoticesStepsAreTableSteps`), so the theorems above carry over (`NoticesKeepLedger`,
`TableUnderNotices`).
`NoticeInv` is `IndInv` with the types and the two properties of alerts; `IndInv` is needed
because a step that knows nothing of alerts may neither begin nor end a review
(`UnannouncedLeavesReviews`), which is so only while events, scans and cancels are of
tasks past review.

**`FleetProofs`.**  Every step of the fleet is a step of the table or a stutter
(`FleetKeepsTable`), which is so because an agent reports, posts and concludes only
tasks its node was given (`Owned`).  `FleetInv` joins the table to the machine:
a task on its way to `Popen` was never started (`Fresh`, for it was pending, and what
ran was given); a supervised process is the one of the handle, is in
`current_task.json` or about to be, and the agent does nothing that ends its task
before it ends the process (`Attended`); what it is about to report has happened (`Truthful`);
and nothing else of the node is dispatched, or about to be by an event, while the agent
starts or supervises a task (`Alone`).  The last is what the table alone cannot say:
a task may be lost or timed out in the table while its process goes on, and the
node then gets no other only because its agent goes on reporting the old one.  An agent
disturbs no other (`AgentsAreLocal`), so each part is proved for the node that moves and for
the control plane's steps.  From it: `OneAtATimeHolds`, `LaunchOnceHolds`,
`OutcomeIsRealHolds`, `FleetTypeCorrect`.  Through the table the fleet also implements
`DispatchLedger` (`FleetKeepsLedger`).

**`RequestAuthProofs`** proves `AcceptedInOrderHolds`, `LockoutBoundedHolds` and `FreshSecondHolds`.
The invariant `OrderInv` says above all that no accepted timestamp exceeds
`last_request_ts` (`LastIsBound`); the nonce table plays no part in the order, so a nonce
lifetime (120 s) shorter than the window in which copies are within the skew (600 s)
does no harm.

**`NodeRegistryProofs`.**  Deletion takes `last_request_ts` and the nonces away, so
`LastIsBound` does not span the life of a name.  `RegistryInv` therefore orders secrets by
their generation: a row is authenticated with keys no older than itself (`KeysAreYoung`,
`AuthIsSigned`), and a request of the history which the present row has not accepted itself
was signed with an older one (`HistoryIsOld`); what it has accepted is in order.  From it:
`RegistryKeepsOrder` (the properties of `RequestAuth`), `OnceEverHolds`, `TokenIsKeyHolds`,
`DisableUndoneHolds`, `RegistryTypeCorrect`.

**`TaskFilesProofs`.**  `FilesInv` adds to the properties that nothing is ahead of the
file of the process (`Behind`) and that the final upload of a process that has ended takes
all it wrote (`FinalIsWhole`), and that the file is empty while the row does
not name it (`UnnamedIsEmpty`).  What is kept, archives and file together, grows by the news of a chunk
wherever the file is cut (`KeptGrows`), so that what an earlier upload has left in archives
stays in front of the text.  From it: `StoredExactlyHolds`, `AckedIsStoredHolds`,
`CompleteWhenForgottenHolds`, `ArtifactKeptHolds` and `FilesTypeCorrect`, for any text, chunk
size, size of the rotated file, number of failed commits and of deaths.

**`OfflineWatchProofs`.**  `WatchInv` says of the numbers that they ascend from the receiver's
newest over the worker's event through the queue (`InOrder`), below those not given yet
(`NumbersAreOld`), so that a new event is the highest.  From it:
`EmissionOrderHolds`, `JoinIsExactHolds`, `ClosedIsDeliveredHolds`, `WatchTypeCorrect`.
`CacheInv` carries `CacheIsTold`: with it go that the first tick of a process finds
no cache and that a stopped emitter has nothing pending.  The proof follows the last
event of each node through what the emitter does to the queue: an append hides the earlier
events of its nodes (`AboutConcat`), a push out of the front leaves the last one
unless there is no other (`AboutSuffix`, `DroppedTells`), and a tick appends exactly one
event for each node whose state differs from the cache and is listed (`NewsAbout`), in
whatever order the nodes are taken; what is not listed is claimed by neither half of
`CacheIsTold`.  From it: `CacheIsToldHolds`.

**`TelemetryProofs`.**  A collection under way is of a machine no older than the cached one
(`CollectsNewer`), so its end loses no mark: `NoMarkLostHolds`.  `HistoryInv` counts: a
sample is in the ring or in one heartbeat until it is stored, its time is used once
(`SamplesAreNew`), and the history has at most one copy of it for each attempt that stored
it, and none or one unless an attempt lost its reply after the commit (`CopiesAreCounted`).  From it:
`StoredTwiceOnlyIfRetriedHolds`.  `BaseIsNewest` says that, with no skew, some base row is as
new as any row.  The rows that trimming ranks above the newest base row are then the copies of
one sample, at most `MaxRetries`, so that it survives if `MaxRetries < Keep`
(`TrimmedKeepsBase`): `LatestStatusKeptHolds`.  Both hypotheses are needed.  With skew,
`telemetry_latest` shows the violation; with `Keep = MaxRetries = 2` and no skew TLC finds that
two copies of a sample of the base row's own second push it out.  The defaults are 3
attempts and 200 rows.  Trimming is a selection by rank, so the lemmas below are about finite
sets of numbers: an ascending numbering exists and is a bijection (`AscendingExists`,
`AscendingIsExact`), a set of rows has a newest (`NewestExists`), and those that
are left have different ranks below `Keep` (`TrimmedIsBounded`), whence `HistoryBounded`: an
answered heartbeat leaves `Keep` rows at most.  `TypeCorrect` is part of the invariant.

Only model-checked: everything about liveness (`CancelSettles`, `RunningEnds`, `ReviewSettles`,
`NodeFrees`, `ForgottenUnlessRefused`, `RetentionFrees`,
`RefreshArrives`, `BreakerCloses`, `OutageTold`), which with fairness and `ENABLED` is
beyond the prover.  Every invariant and every other action property of a passing run is
the subject of a theorem.

## 5. Not modelled

- *Torn state files and full disks of the agent* (`state.py:16`, `dispatcher.py:74`): saving
  is one step that succeeds.
- *Process groups* (`cli.py:48`): a task is one process.
- *Characters cut in the middle* (`log_pump.py:80`): `LogStream` counts whole characters.
- *Events of transactions that are rolled back* (`background.py:209`): the emitter is not
  composed with the table, which would multiply the states of both.
- *Snapshots deleted for their age* (`background.py:74`):
  `Telemetry` trims by number only.
- *Webhook posts that arrive after their timeout*: see the simplifications.
- *Power loss* that takes the last commits of the database with it (`db.py:36`).
- *`create_task` between its reads and its insert* (`admin_tasks_service.py:373`): nothing
  later depends on the flags it read.
- Native tasks and execution backends, admin sessions, dashboards and metrics, migrations,
  the console and deployment material: data transformations, queries and I/O without a
  protocol of several steps.

What could be proved next: abstract specifications of the emitter (a bounded queue that
loses from the front) and of the log copy (text that grows, is cut once, or is deleted), and
that `Webhook` and `LogStream` implement them.
