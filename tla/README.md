# Verification of jellyrin

Jellyrin is a media server in Rust that speaks the Jellyfin API. Most of its
own logic is request handling over a PostgreSQL catalogue. What is hard to test
is the part that is shared between concurrent requests and background tasks
inside one process: FFmpeg capacity, transcode disk space, live streams and
tuners, recordings, HLS transcodes, SyncPlay groups, and the locks that
serialise work per key. This directory
holds TLA+ models of those parts, TLC runs that check them on small instances,
and TLAPS proofs for every size of instance.

`api` is `crates/jellyrin-api/src/lib.rs`, `transcode` is
`crates/jellyrin-transcode/src/lib.rs`, `server` is
`crates/jellyrin-server/src/main.rs`; numbers are lines of those files.
`PROJECT.json` maps every definition to the lines it models.

## 1. Inventory

### Parts that are modelled

| Component | State | Operations | What is hard | What makes it correct |
|---|---|---|---|---|
| Weak keyed lock registry (api 1289-1352, used at 42036-42065 and 45977-46018) | map key -> weak lock, one overflow lock, prune counter | `lock_for`, `prune_dead`; lock, unlock, drop of an Arc by callers | entries die whenever the last Arc goes; capacity; strangers share the overflow lock | callers of one key always meet at one lock; the map is bounded; waiters are served |
| FFmpeg/FFprobe admission (api 574-1008, transcode 583-892) | a semaphore per kind of job, one for all, two bounded wait queues, counters | `try_acquire`, `acquire`, queueing, time-out, cancellation, drop of a permit | two semaphores per request; a permit granted at the moment of a time-out; failed half-way tries | permits are conserved, limits respected, nobody waits for ever |
| Transcode disk quota (transcode 120-533) | measured usage, reservations, exceeded flag, watch signal, monitor flag | `reserve`, `snapshot`, refresh, drop of a reservation, the monitor | the state lock is released between the blocks of a refresh; drops take no gate; ids wrap; scans fail | headroom is promised once; a breach reaches every writer and stays; every writer is watched |
| Live stream sharing and tuner leases (api 1032-1133, 25405-25490, 28285-28640) | registry of handles with reference counts and generations, lease counts, producer tasks | join, open, connect, fail, leave, spawned drops, producer exit, own upstreams, shutdown sweep | the registry's lock is released while connecting; drops run in spawned tasks; handles of a key follow each other | counts count what exists; tuner limits; no handle without somebody behind it |
| Live TV timers and recordings (api 1060-1211, 4728-4867, 5022-5217, 30022-30668) | the `livetv` document, files, STARTING and active registry, shutdown flag | start of a due timer, a recording task from reservation to Completed, edits of the document, sweeps, exit, reconciliation | the document is read and written as a whole; crashes between file and entry; shutdown racing a start | no recording escapes the shutdown, registries name live tasks, one writer per file |
| VOD HLS transcode jobs (api 876-912, 5716-5772, 41202-41466, 42036-42460, 45939-46460, 53873-53927; `postgres_sessions.rs` 231-552) | a row, a directory, a stop sender and a last-access entry per play session | start with reuse, claim and superseding, the FFmpeg task with its fallback, stop requests, segment generation after a seek, idle watchdog, retention sweep, startup reconciliation | four pieces of state, each written in a step of its own; a stop that meets the natural end, a seek or another stop; starts and stops whose client disconnects half-way; crashes | a running task can be stopped, one transcode per key and per device, rows that say active have somebody to settle them, stopped and abandoned transcodes end |
| SyncPlay groups (api 18831-19598, `user_configuration.rs` 108-129) | groups with participants, owner and command number behind one lock | new, join, leave, ping, command, list, stale removal, logout | messages are computed under the lock and sent after it; requests authenticated before a logout run after it; stale members go only when somebody else asks | one group per session, an owner who is present, commands that can be put in order, descriptions that converge, no dead members |

### How they interact

A transcode asks the keyed locks for its dedupe and device lock, reserves disk
headroom, queues for FFmpeg capacity and then runs until it ends, is stopped,
idles out or the quota's watch signal fires. Live HLS jobs, recordings and
direct live responses all take tuner leases; direct responses share upstreams
through the stream registry, the others open their own. The scheduler and API
requests start recordings from the `livetv` document, which the recording
tasks write back as well. At shutdown one flag is published and then each
registry is swept. The modules do not share variables: the code connects the
parts only by calls that either succeed or fail, and each module takes both
outcomes of its neighbours as a choice (a job that stops, a lease that is
refused, a source that does not open).

### Parts that are not modelled

| Component | Why |
|---|---|
| Live HLS sessions (api 42985-43260) | only the tuner lease is modelled; the session registry and its bounded admission are next in the plan |
| FFmpeg process control (transcode 1207-1925) | mostly operating system; `HlsJobs` takes kill and exit as steps |
| Authentication failure registry (`auth_handlers.rs` 198-320) | in the plan |
| Runtime shutdown's drain loop (api 4739-4765, 4877-5010) and the server's signals | the sweeps of streams and recordings are modelled, the deadline loop over all registries is not |
| External plugin hosts (api 13270-) | later candidate, a keyed slot with a process behind it |
| Catalogue scan, publication, queries | large SQL; the scan's lease and generation protocol is a later candidate |
| Sessions, devices, quick connect, API keys, users, provider secrets, plugin packages | single transactions; the atomicity is PostgreSQL's |
| Plugin RPC/SDK/hosts, Xtream, tuner and guide parsing, DLNA, metadata providers | parsing, formatting and remote services |
| Redis cache, file watcher, task rows | fail-open or advisory: losing an event costs time, not correctness |
| Routes, DTOs, compatibility, migration tool, telemetry | pure data or one-off sequential code |

## 2. Plan

1. `KeyedLocks`, `KeyedMutex`: the registry and its abstract specification. Done, proved.
2. `FfmpegAdmission`: capacity. Done, proved.
3. `DiskQuota`: done, proved.
4. `LiveStreams`: done, proved.
5. `Recordings`: done, proved.
6. `HlsJobs`: VOD jobs done, proved; live sessions to follow.
7. `SyncPlay`: done, proved.
8. `AuthFailures`: the bounded registry with expiry and pruning.
9. `Shutdown`: the drain loop with late registrations and its deadline.

`KeyedMutex` is the abstract specification that exists; one for the stream
registry (a set of subscribers per channel) and one for capacity (a multiset
of running jobs under two limits) are worth stating, and their refinement worth
proving from the inductive invariants there are. Runs of a component are merged
where one instance answers several questions.

"Proved" means every invariant and every action property a passing run of the
component checks; section 5 says how, and what stays with TLC.

## 3. Modules and their correspondence to the code

**`KeyedLocks`.** `lock_for` runs under the registry's own mutex, so a call is
one action, `LockFor`, whose four outcomes (`Reuse`, `JoinOverflow`,
`StartOverflow`, `Register`) are the branches of the function. A caller keeps its
`Arc` from then until `DropRef`; an entry's weak reference is live iff some
caller refers to its lock. `Acquire`, `Abandon` and `Unlock` are the async
mutex as the callers use it. `KeyedMutex` is the promise: one mutex per key.
The locks of `KeyedLocks` are a constant set of identities, large enough that
a fresh one can always be found.

**`FfmpegAdmission`.** Every semaphore operation is a step. A returned permit
goes to a waiter if there is one (`Return`), and the waiter owns it from that
moment although its task has not run: this is where a time-out or a
cancellation meets a grant. `TryLane`/`TryTotal`/`UndoTry` are the two halves of
`try_acquire`; `QueueFull` is the second try that jobs, and not probes, get.
`DropTotal`, `DropLane` and `DropSlot` follow the order in which the fields and
locals are dropped. The wait-time histogram is left out.

**`DiskQuota`.** The gate is held from `TakeGate` to the end of a refresh or an
admission; `Record`, `ReadExceeded`/`RecordFailure` and `Send` are separate
because the state lock is released between them, and `Release` may come
anywhere. The walk over the tree is one step that sees the disk at some moment,
or fails. Sizes are small numbers and only compared and added; ids wrap at
`IdSpace`.

**`LiveStreams`.** Each critical section of the registry is one action. `Open`
inserts the handle before the connection is made; `Connected`, `ConnectFailed`
and `OpenerVanishes` are the three ways that can end. The spawned task of a
guard's drop is the request's `dropping` state. A lease count is the number of
guards; removing a handle from the registry drops the guard in it. The shared
HTTP path and the legacy HDHomeRun path have the same control and are the same
actions. `abandoned` is a history variable. The terminal clearing of the lease
map at the very end of the process is left out.

**`Recordings`.** The `livetv` document is one value; reading and writing it are
separate steps of each actor, with a private `snapshot` between. A task's `pc`
follows `record_channel_to_file`; every early return is an action that takes
back the reservation or the handle. Replacing or removing a handle cancels its
task, as the code does by dropping the sender. `Exit` is a crash or the end of
the process at any point, `Reconcile` the next start. A request that is refused
changes nothing and has no action. The database does not fail here; a crash
inside reconciliation repeats it and adds no state, because it removes files
before it writes the document. `Cleanup` removes the file and the handle in one
step (api 30646-30648); what another task of the timer could see in between is a
missing file under a handle that is there, which no property tells apart. A
request whose client disconnects only fails to take its remaining steps, which
every actor of this module may do: between the reservation and the spawn of its
task there is no await (api 30110-30165).

**`HlsJobs`.** A start request is identified with the play session id it draws.
Every await between two pieces of shared state is a step boundary: a stop, for
instance, takes the sender (`TakeSender`), marks the row (`MarkStopping`) and
sends (`SendStop`), or finds no sender, marks the row stopped and removes the
files; stop requests, superseding starts and seeks share these steps and differ
in where they go next (`AfterSend`, `AfterClean`). A task runs `Acquire`,
`MarkRunning`, an end of its process, a possible second command (`RetryMark`,
`RetryDir`), `Record`, `Unregister` and `CleanUp`. A seek re-reads its row under
the generation lock and decides by it (`ReadRow`, `Decide`). FFmpeg may write for
ever. Ages are flags: a last access is fresh or old, a terminal row may be swept
at any time. An access entry of a session without a task has no reader and is not
kept. Capacity and quota are their own modules; here a permit comes or is
refused, and the quota fires, at will. The locks are held by whoever is inside
their section (that they exclude is what `KeyedLocks` shows).

A start and a stop run inside the future of their HTTP request, which is dropped
at an await when the client disconnects; `Vanish` is that, at any point. The
locks are free again, a sender it has taken is dropped with it (which resolves
the receiver, so the task stops), and what it has written stays: a row it has
claimed, and after `Register` a sender without a task, because two awaits lie
between the registration and `tokio::spawn` (`Launch`, api 42107-42111). A
database write in flight has happened by then or never does. A generation after
a seek runs in a task of its own, detached for this reason (api 45981-45984), and
does not vanish. Two variables are histories. `overtaken`: the session was asked
to stop when neither its sender was registered nor its task spawned, which the
code does not notice. `stranded`: the row was left behind by a start that
vanished after its claim, or by a generation that gave up (`GiveUp`), and nobody
has written it since.

**`SyncPlay`.** A handler is a list of sections (`Script`), each atomic because
it runs under the one lock; the messages a section computes are sent one by one
before the next section (`Send`), interleaved with everybody else's. The token is
checked once, in `Authenticate`. `Prune` is the common part of detaching a session
and of removing stale ones: owners are passed on, empty groups go. A group that is
created under an id in use replaces the old one, as `HashMap::insert` does. What a
client sees of a group is `Json`; the `view` of a session is what it received last,
by web socket or as the response. Whether a participant is stale is a flag set by
time and cleared by its requests. The histories are `born` and `since` in a group
and `got`. Delivery ends at the hand-over to the broadcast channel (api
66059-66069): a session without a connected web socket gets nothing, and one that
lags more than 256 events behind loses some (api 66164) without being told. The
messages of a section follow it without an await, so a client that disconnects
does not lose those of a section its request has taken; that such a request never
takes the sections it still waits for is left out.

Operators marked "Mutant" are wrong variants of the definition that follows
them. No specification uses them; they record which mistakes in the code the
properties are able to see.

## 4. Runs

| Run | Instance | Shows |
|---|---|---|
| `keyed_locks` | 3 callers, 3 keys, 2 slots, prune every 3 | exclusion per key, bound, sharing only in overflow, refinement of `KeyedMutex`, every waiter gets its key or gives up |
| `admission` | remux-only mode: an encode, two remuxes, a probe, one permit in total, one place per queue, a lane configured 0 | permits conserved, limits, who waits has reason to and a place in the queue, everybody is admitted or refused, time-outs or not |
| `disk_quota` | 2 writers and the monitor, quota 2, headroom 1, 3 ids | accounting, monitor, breach reported and final, a full disk stops its writers |
| `live_streams` | 2 requests, 2 channels, 2 hosts (one tuner / unlimited), 3 handles | counts, tuner limits, no handle without a producer, stale guards do nothing, unused handles go |
| `live_streams_orphan` | the same, 2 handles | **finding** |
| `recordings` | 1 timer, 2 tasks, 2 starters | shutdown barrier, reservations and handles have tasks, one writer per file |
| `recordings_lost_update` | 1 timer, 1 task, 2 starters | **finding** |
| `recordings_restart_blocked` | 1 timer, 2 tasks, 1 starter | **finding** |
| `hls_jobs` | 2 starts, a stop, 2 seeks, a sweep, a crash, in seven combinations | tasks stay stoppable, one transcode per key and device, active rows have an owner or were left by a dropped start or a generation that gave up, abandoned and stopped transcodes end |
| `hls_seek_outlives_stop` | a start, a seek, a stop | **finding** |
| `hls_row_stays_stopping` | a start, a seek, a stop | **finding** |
| `syncplay` | 3 sessions of 2 users, 2 group ids, clients that ping and two further requests, in seven combinations | one group per session, owners present, commands accounted for and ordered by their numbers, descriptions converge, dead members leave |

### Findings

Each is a run that ends in a violation; `PROJECT.json` quotes the comment or
test it contradicts.

1. `NoOrphanedHandle` (api 28433): a client that disconnects while its request
   opens the upstream leaves a handle with one reference too many; it stays,
   with its tuner lease, until shutdown, and later viewers of the channel join
   a stream that nobody feeds.
2. `CompletedStays` (api 30601): an edit of the document that was read before a
   recording completed writes InProgress back; the next start deletes the file.
3. `RestartNotBlocked` (api 30352): a crash between the creation of the file and
   its InProgress entry leaves a file that blocks every further attempt.
4. `StopReachesProcess` (api 46182): the FFmpeg that generates segments after a
   seek listens to no stop sender; a stop request is answered, the row says
   stopped and the directory is gone while it runs on, up to its own time-out.
5. `StoppingRowsOwned` (api 53913): a stop request that takes the sender of a
   session whose task ends before the write of `stopping`, or whose task was never
   spawned because the client of its start disconnected after the registration
   (api 42101-42111, the run's trace), leaves the row at `stopping`; startup
   reconciles only starting and running rows, the sweep only terminal ones.

Four smaller disagreements have no run of their own. A start that is dropped
between its claim (api 41334) and its spawn (42111), or a generation that gives
up at its permit (46182), leaves a `starting` row that nobody works on and that
later starts of the key reuse (42067-42088), until a seek, a stop, a superseding
start or a restart settles it; `docs/transcode-optimization-plan.md` 637-641
tells why the generation was detached from its request for this, the start was
not. A release between the
cache check of a quota refresh and the admission that relies on it goes
unnoticed, although transcode 410 speaks of the next admission observing the
files left behind. The exceeded flag is read under the state lock and sent
without it (transcode 422), so the reset by the last release can be overwritten
and the next writer told to stop at once. Recordings and live HLS jobs lease the
shared identity of a channel but open an upstream each (api 30293, 49570), so
that a host with one tuner can be asked for two.

The passing runs are stated so that they hold in spite of these: a handle whose
opener vanished is tracked by `abandoned`, a row left behind by `stranded`, and
`StopIsFinal` speaks of signals that the books support. `ActiveRowsOwned` thus says
that the two ways above are the only ones to an active row without an owner.

### Bounds, and why they are enough

* Keys exceed slots by one and callers equal keys: the map is full, overflows,
  drains and is pruned, and two callers meet at a key or at the overflow lock
  while a third disturbs them.
* One permit in total and one place per queue is the tightest instance in which
  a lane, the aggregate and a queue can each be the one that is used up; two
  requests of one lane and two of others cover a waiter behind each.
* Two writers are the smallest number for which a release leaves another behind;
  three ids make the counter wrap onto an id in use. The run has no observer: an
  observer only refreshes, which the monitor and the writers do as well. (With
  one the instance has a million states and passes in four minutes.)
* Two requests and three generations give a handle, its successor and the one
  after that, with guards of both older ones outstanding; one channel on two
  hosts makes a lease under each.
* Two tasks of one timer, two starters and unlimited crashes and restarts: the
  rival start, the replaced handle and the interrupted save all occur. A task
  is used once, which bounds the number of attempts.
* HLS: the combinations are the meetings of two requests on one session, each
  with the sessions it could disturb: two starts that supersede each other with
  a stop, two seeks, a seek with a stop, with the sweep and with a fallback, two
  starts with a crash and a sweep. Three requests that all act on one session
  add orders, not new pairs of steps. One sweep and one crash suffice because
  each leaves a state another one starts from. Every start and every stop may
  lose its client at any await.
* SyncPlay: two members are enough for messages to cross, the third session is
  the second login of a user on one device. Combinations start from groups that
  earlier requests have left. Pings repeat for ever; the other requests happen
  once, which bounds the command numbers (the code's saturate at 2^64).

Symmetry is used only in runs without liveness properties, over interchangeable
requests, writers, tasks and encodes.

### Fairness

* `KeyedLocks`: whoever holds a lock goes on and unlocks; tokio's mutex is
  first-in first-out, hence strong fairness of acquiring.
* `FfmpegAdmission`: tasks run, a process ends (it has a deadline or is stopped),
  and a semaphore serves waiters in order, hence strong fairness of being
  handed a permit. Nothing is assumed of time-outs.
* `DiskQuota`: the monitor's timer fires, the gate is first-in first-out, whoever
  has the gate goes on, a job that is told to stop stops. Nothing is assumed of
  writes, clean-up or releases.
* `LiveStreams`: spawned tasks run and a connection attempt ends (it has a
  time-out). Nothing makes a client leave or a source end.
* `Recordings` has no liveness property.
* `HlsJobs`: a task goes on when it can, the watchdogs fire, a killed FFmpeg dies
  and a queued job is admitted or refused (the latter is `EveryoneServed` of
  `FfmpegAdmission`). Nothing is assumed of FFmpeg's own end or of clients.
* `SyncPlay`: the lock is first-in first-out, so a request that has started goes
  on; time passes. `ViewsConverge` and `AbandonedMemberLeaves` also need a client
  that keeps pinging: stale participants are removed by requests only, without
  any the code changes nothing.

Deadlock is checked in every run but those of `HlsJobs`, where all requests may
have been answered.

## 5. Proofs

All hold for all sets and numbers the assumptions allow. For every module the
inductive invariant was checked by TLC on the run's instance (or a larger one)
before it was proved.

**`KeyedLocks_proofs`.** Assumes that callers, keys and locks are as the module's
`ASSUME` says. The inductive invariant `IInv` adds to
the type invariant that a caller holds an Arc and a key exactly while it is not
idle, that a keyed lock somebody refers to is the one its key is registered to
and a key in the overflow has no entry, that no two keys share an allocation,
and that a lock has one guard at a time.
`KeyExclusion` alone is not inductive: a step that registers a key could give a
second lock to a key somebody holds through the overflow; the invariant rules
that out because `OverflowBusy` is tested first. From it follow
`SpecKeyExclusion`, `SpecSharing`, `SpecRegistryBounded` and, step by step,
`SpecImplementsKeyedMutex`.

**`FfmpegAdmission_proofs`.** `PermitsConserved` needs to know what a request
owns at each of its program points (a request in a wait list of the lane holds
no lane, one in `undo_try` holds the lane only, one that runs holds both); this
is `IInv`. Every action then changes one counter and one set of holders by one
element, or hands an element from one request to another, and the sum stays.
`CapsRespected` follows because a running request is a holder of both
semaphores, `LanesOpen` because a limit is at least one. `WaitersJustified` rests
on a second invariant, `WInv`, on top of the first: a request has a place in its
queue from `EnterQueue` until it is admitted or has unwound, places are conserved
as permits are, and a semaphore with waiters has no permit in its counter. The
last is kept because a permit that comes back goes to a waiter if there is one,
and because a request starts to wait only in the step in which it finds none.

**`DiskQuota_proofs`.** Assumes finitely many writers and more ids than writers
(the code has 2^64). `IInv` adds to the properties that the gate is held exactly
by whoever is inside a refresh (`GateHeld`), that only writers are admitted, that
a missing root is resolved before a measurement is recorded, and that a breach on
the books is signalled or about to be whether or not there are writers, with
nothing underway that would take it back (`BreachOnBooks`). Without `GateHeld`
nothing is inductive: two refreshes inside each other could send signals in the
wrong order. `BreachReported` alone is not inductive either, because it says nothing of
a book without writers, and the next admission makes one. That an id is free
when the counter has wrapped onto ids in use is a pigeonhole argument over
cardinalities (`SomeIdFree`). `SpecStopIsFinal` is an action property and uses
the same invariant: a send inside a refresh carries the breach that is on the
books, and a reset happens only in the release of the last writer.

**`LiveStreams_proofs`.** Assumes finitely many requests and channels; hosts and
tuner counts are arbitrary. `IInv` adds that a generation is drawn once (`Fresh`),
that there is one handle per generation and per key, that a guard names the key
of its handle, that a handle has one opener, and that somebody is behind a handle.
`Refcounts` is not inductive alone: a guard of a handle that is gone would be
counted with a handle that came later, if generations could repeat, and a drop
under the wrong key would subtract from a stranger. The counts are sums of cardinalities; each
action moves one request from one state to another, and a lemma says by how much
that changes each count. `TunersRespected` also needs that a slot in use is one
somebody holds a lease of (`LeasesCounted`) and that the slots in use are finite.
`SpecStaleGuardsAreNoOps` is an action property: it follows from `KeysMatch` and
the comparison of generations in each drop.

**`Recordings_proofs`.** Assumes that tasks are finite in number and distinct
from starters. `IInv` has three parts. `Typed` adds the program points. `Registries`
adds that whoever works for a timer knows which, that a process that has not
started runs nothing and that only a shutdown aborts tasks; `ShutdownBarrier` and
`RegistriesHaveTasks` are inductive with these. `FilesOwned` says that from the creation of
a file until its size has been looked at a task is the only one of its timer and
the file exists. `OneWriterPerFile` alone is not inductive, although two tasks of
one timer may be active at a time: what keeps the second from creating the file
is that the first one's file is there, and this has to be known while the first
still relies on it; the file is removed by its owner or before anything runs.

**`HlsJobs_proofs`.** Assumes that sessions, seeks and stop requests are distinct
and that there is a session at all (`SomeSession`). `Stoppable`
needs only to know where a session's start is when there is a sender, a task or
somebody who has the sender (`Places`), and that a start between registration and
spawn can be reached as its task could be (`Registered`). `ActiveRowsOwned` is
inductive with these: whoever leaves a row has written a status that is not
active, or leaves it in `stranded`. `NoDuplicateTranscode` is the hard one. Call a session
*intact* when nobody has asked it to stop and it has not ended (`Intact`). The
argument is that the row of an intact session is active (`IntactActive`), so that
the unique index over active rows keeps a second one of its key out. For that,
everybody who is about to write another status has to know that the session
is not intact: whoever found no sender and will mark the row stopped
(`MarkersKnow`), a seek that has decided to generate (`SeekersKnow`). For devices there is no index; there a start
lists the other sessions of its device after its own claim, and until it spawns
every intact rival is on its list or the one it is dealing with (`DeviceListed`),
so that of two intact rivals one has still to deal with the other (`DeviceTaken`). A
session that is asked to stop before its sender is registered is set aside
(`overtaken`), as in the property: the code does not notice it.

**`SyncPlay_proofs`.** The first inductive invariant is `Consistent(groups)` (each
group has a participant whose user is its owner, and no session is in two
groups) together with the fact that requests name sessions and groups there are.
`OwnerPresent` is not inductive alone: that a join keeps the groups disjoint
rests on the session having left every other group in the same critical section
(`LeavingRemoves`), and that the owner is there after a leave rests on the
first participant of those that remain; that there is a first one, however many
remain, is `FirstIn`, by the well-foundedness of the participants' order. A
session that makes room for another has the same user, so an insertion never
takes an owner away (`InsertShape`). `SpecOneGroupPerSession` and
`SpecOwnerPresent` follow.

`NumbersRestoreOrder` has a second invariant, `NInv`, about what commands have
told a session or are about to tell it (`Sent`). Number and group determine a
command across all sessions (`Determined`), no command is ahead of its group
(`Bounded`), a participant misses none since it came in (`Received`). Groups that
follow each other under one id start again at 1, so the group has to be told
apart by the request that created it; that a request creates a group only once,
and that none bears the name of a request which has still to do so, are
`Courses`, `BornOnce` and `Undrawn`. The handlers are then of three kinds: groups
go on or end, a group is created, a group gets a command (`StepEffect`), and the
invariant is shown for each kind. A command's number is above all that are about
for its group, which is `Bounded` before the step.
Assumed, besides the typing of users, ranks and requests: the groups at the start
are consistent, were created by different requests that are over, and their
participants have missed nothing (`CastsTyped`; the program starts with none);
a request that creates a group is not repeated under the same name.

**Only model-checked.** The liveness properties (`WaiterServed`, `EveryoneServed`,
`FullDiskStopsWriters`, `UnusedHandleRemoved`, `AbandonedTranscodeEnds`,
`StopObeyed`, `ViewsConverge`, `AbandonedMemberLeaves`): the provers do not handle
fairness. And the five findings, which are counterexamples.

## 6. Running

    tlc -workers 2 -config MCKeyedLocks.cfg MCKeyedLocks
    tlapm KeyedLocks_proofs.tla

The longest runs (`hls_jobs`, `live_streams`, `syncplay`) take about two minutes.
