------------------------------ MODULE HlsJobs ------------------------------
(***************************************************************************)
(* VOD HLS transcodes: the start of a play session, its continuous FFmpeg  *)
(* task, stop requests and superseding starts, on-demand segment           *)
(* generation after a seek, the idle watchdog, the retention sweep and the *)
(* reconciliation after a restart.  They share a database row, a           *)
(* directory, a one-shot stop sender and a last-access entry per play      *)
(* session; every await between two of those is a step boundary here.      *)
(*                                                                         *)
(* A start request is identified with the play session id it draws.        *)
(* FFmpeg capacity and the disk quota are modules of their own; here a     *)
(* permit is granted or refused, and the quota may be exceeded, at will.   *)
(* The keyed locks are held by whoever is inside the section they guard.   *)
(* A start and a stop request run in the request's own future, which is    *)
(* dropped when the client disconnects; the generation after a seek runs   *)
(* in a task of its own.                                                   *)
(***************************************************************************)
EXTENDS Naturals, FiniteSets

CONSTANTS
    Sessions,    \* play session ids, one per start request
    Seekers,     \* segment requests that miss and generate
    Stoppers,    \* DELETE ActiveEncodings requests
    Casts        \* which requests arrive, what the starts want, the bounds on
                 \* sweeps and crashes

ASSUME ActorsDisjoint ==
    Sessions \cap Seekers = {} /\ Sessions \cap Stoppers = {} /\ Seekers \cap Stoppers = {}
ASSUME SomeSession == Sessions # {}
ASSUME CastsTyped == \A c \in Casts : c.crashes \in Nat /\ c.sweeps \in Nat

Actors == Sessions \cup Seekers \cup Stoppers

Active == {"starting", "running"}
Terminal == {"stopped", "failed", "completed"}
Statuses == Active \cup Terminal \cup {"none", "stopping"}

VARIABLES
    want,        \* what a start asks for: dedupe key, device, a plan with a fallback
    status,      \* the session's row in transcode_sessions
    dir,         \* its directory: absent, bare, or full (media playlist present)
    access,      \* TRANSCODE_LAST_ACCESS: none, fresh or old
    sender,      \* sessions whose stop sender is in TRANSCODE_STOPS
    told,        \* sessions whose stop sender was used or dropped: the receiver resolves
    task,        \* where the continuous task is
    attempt,     \* first or second command of a task or of a generation
    outcome,     \* the status a task or a generation is about to record
    pc,          \* where a start, a segment request or a stop request is
    target,      \* the session a request acts on
    snap,        \* the status a request has read
    todo,        \* sessions a start still has to supersede
    overtaken,   \* history: asked to stop before its sender was registered
    stranded,    \* history: row left by a dropped start, or by a generation that
                 \* gave up, and not written since
    sweep,       \* terminal sessions the retention sweep has listed
    sweeps,      \* listings that may still happen
    up,          \* requests are served: the startup reconciliation is over
    crashes      \* that may still happen

row == <<status, overtaken, stranded>>
reg == <<access, sender, told>>
job == <<task, attempt, outcome>>
req == <<pc, target, snap, todo>>
sys == <<sweep, sweeps, up, crashes>>
vars == <<want, row, dir, reg, job, req, sys>>

TaskLabels == {"none", "queued", "spawned", "writing", "killing", "retry", "redo",
               "ended", "unregister", "clean", "done"}
Labels == {"absent", "idle", "check", "create", "claim", "conflict", "list", "next", "spawn",
           "launch", "queued", "read", "decide", "take", "mark_stopping", "send", "await",
           "mark_stopped", "clean", "publish", "prepare", "permit", "writing",
           "redo", "scrap", "record", "vanished", "done"}

(* The type invariant.                                                     *)
TypeOK ==
    /\ want \in {c.want : c \in Casts}
    /\ status \in [Sessions -> Statuses]
    /\ dir \in [Sessions -> {"absent", "bare", "full"}]
    /\ access \in [Sessions -> {"none", "fresh", "old"}]
    /\ sender \subseteq Sessions /\ told \subseteq Sessions
    /\ overtaken \subseteq Sessions /\ stranded \subseteq Sessions /\ sweep \subseteq Sessions
    /\ task \in [Sessions -> TaskLabels]
    /\ attempt \in [Sessions \cup Seekers -> 1..2]
    /\ outcome \in [Sessions \cup Seekers -> Terminal \cup {"none"}]
    /\ pc \in [Actors -> Labels]
    /\ target \in [Actors -> Sessions]
    /\ snap \in [Actors -> Statuses]
    /\ todo \in [Sessions -> SUBSET Sessions]
    /\ up \in BOOLEAN /\ crashes \in Nat /\ sweeps \in Nat
    \* A sender leaves the registry before its receiver can resolve.
    /\ sender \cap told = {}

Init ==
    /\ \E c \in Casts :
        /\ want = c.want
        /\ crashes = c.crashes /\ sweeps = c.sweeps
        /\ pc = [x \in Actors |-> IF x \in c.requests THEN "idle" ELSE "absent"]
    /\ status = [s \in Sessions |-> "none"]
    /\ dir = [s \in Sessions |-> "absent"]
    /\ access = [s \in Sessions |-> "none"]
    /\ sender = {} /\ told = {} /\ overtaken = {} /\ stranded = {} /\ sweep = {}
    /\ task = [s \in Sessions |-> "none"]
    /\ attempt = [x \in Sessions \cup Seekers |-> 1]
    /\ outcome = [x \in Sessions \cup Seekers |-> "none"]
    /\ target = [x \in Actors |-> CHOOSE s \in Sessions : TRUE]
    /\ snap = [x \in Actors |-> "none"]
    /\ todo = [s \in Sessions |-> {}]
    /\ up = TRUE

-----------------------------------------------------------------------------
(* Shared state: rows, directories, locks.                                 *)

(* The partial unique index on dedupe_key: at most one starting or running *)
(* row per key.                                                            *)
IndexFree(s) ==
    \A t \in Sessions \ {s} : want[t].key = want[s].key => status[t] \notin Active

(* UPDATE ... SET status: the row exists, the index may refuse.            *)
SetStatus(s, st) ==
    /\ status' = [status EXCEPT ![s] = st]
    /\ stranded' = stranded \ {s}
Writable(s, st) == status[s] # "none" /\ (st \in Active => IndexFree(s))
TrySetStatus(s, st) ==
    IF Writable(s, st) THEN SetStatus(s, st) ELSE UNCHANGED <<status, stranded>>

SetDir(s, d) == dir' = [dir EXCEPT ![s] = d]
MakeDir(s) == SetDir(s, IF dir[s] = "absent" THEN "bare" ELSE dir[s])

(* Only the task of a session reads its last access, and its spawn writes  *)
(* it first: an entry without a task is not tracked.                       *)
TouchSession(s) ==
    access' = [access EXCEPT ![s] = IF task[s] \in {"none", "clean", "done"} THEN "none" ELSE "fresh"]

Goto(x, label) == pc' = [pc EXCEPT ![x] = label]
GotoTask(s, label) == task' = [task EXCEPT ![s] = label]

(* The guards of transcode_dedupe_lock and transcode_device_lock.          *)
Starting(s) == pc[s] \notin {"absent", "idle", "vanished", "done"}
LocksFree(s) ==
    \A t \in Sessions \ {s} :
        Starting(t) => want[t].key # want[s].key /\ want[t].device # want[s].device

(* A start between its claim of the row and the spawn of its task.         *)
Claimed(s) == Starting(s) /\ pc[s] \notin {"check", "create", "claim", "conflict"}

(* hls_on_demand_generation_lock is held from its grant to the end.        *)
Generating(q) == pc[q] \notin {"absent", "idle", "queued", "done"}
GenerationActive(s) == \E q \in Seekers : Generating(q) /\ target[q] = s

-----------------------------------------------------------------------------
(* The stop protocol, shared by stop requests, superseding starts and      *)
(* seeks: take the sender; with it mark the row and send, without it mark  *)
(* the row stopped and remove the files.                                   *)

Holds(x, s) == pc[x] \in {"mark_stopping", "send"} /\ target[x] = s

(* Where a request goes when it has sent, or cleaned.                      *)
AfterSend(x) ==
    IF x \in Seekers THEN "await" ELSE IF x \in Sessions THEN "next" ELSE "done"
AfterClean(x) ==
    IF x \in Seekers THEN "publish" ELSE IF x \in Sessions THEN "next" ELSE "done"

(* Mutant: the sender is looked up, not removed.                           *)
PeekSender(x) ==
    /\ pc[x] = "take"
    /\ Goto(x, IF target[x] \in sender THEN "mark_stopping" ELSE "mark_stopped")
    /\ UNCHANGED <<want, row, dir, reg, job, target, snap, todo, sys>>

TakeSender(x) ==
    /\ pc[x] = "take"
    /\ sender' = sender \ {target[x]}
    /\ Goto(x, IF target[x] \in sender THEN "mark_stopping"
               ELSE IF x \in Stoppers /\ snap[x] \in Terminal THEN "clean"
               ELSE "mark_stopped")
    /\ snap' = [snap EXCEPT ![x] = "none"]
    /\ overtaken' = IF target[x] \notin sender /\ task[target[x]] = "none"
                    THEN overtaken \cup {target[x]} ELSE overtaken
    /\ UNCHANGED <<want, status, stranded, dir, access, told, job, target, todo, sys>>

MarkStopping(x) ==
    /\ pc[x] = "mark_stopping"
    /\ SetStatus(target[x], "stopping")
    /\ Goto(x, "send")
    /\ UNCHANGED <<want, overtaken, dir, reg, job, target, snap, todo, sys>>

SendStop(x) ==
    /\ pc[x] = "send"
    /\ told' = told \cup {target[x]}
    /\ Goto(x, AfterSend(x))
    /\ UNCHANGED <<want, row, dir, access, sender, job, target, snap, todo, sys>>

MarkStopped(x) ==
    /\ pc[x] = "mark_stopped"
    /\ SetStatus(target[x], "stopped")
    /\ Goto(x, "clean")
    /\ UNCHANGED <<want, overtaken, dir, reg, job, target, snap, todo, sys>>

CleanFiles(x) ==
    /\ pc[x] = "clean"
    /\ SetDir(target[x], "absent")
    /\ Goto(x, AfterClean(x))
    /\ UNCHANGED <<want, row, reg, job, target, snap, todo, sys>>

(* stop_active_encoding reads the row, then runs the stop protocol.        *)
StopRequest(r, s) ==
    /\ pc[r] = "idle"
    /\ status[s] # "none"
    /\ target' = [target EXCEPT ![r] = s]
    /\ snap' = [snap EXCEPT ![r] = status[s]]
    /\ Goto(r, "take")
    /\ UNCHANGED <<want, row, dir, reg, job, todo, sys>>

StopProtocol(x) ==
    TakeSender(x) \/ MarkStopping(x) \/ SendStop(x) \/ MarkStopped(x) \/ CleanFiles(x)

-----------------------------------------------------------------------------
(* Starting a play session.                                                *)

Begin(s) ==
    /\ pc[s] = "idle"
    /\ LocksFree(s)
    /\ Goto(s, "check")
    /\ UNCHANGED <<want, row, dir, reg, job, target, snap, todo, sys>>

(* reusable_hls_transcode_session                                          *)
Reusable(t) == status[t] \in Active \/ (status[t] = "completed" /\ dir[t] = "full")

Reuse(s) ==
    /\ pc[s] = "check"
    /\ Goto(s, IF \E t \in Sessions : want[t].key = want[s].key /\ Reusable(t)
               THEN "done" ELSE "create")
    /\ UNCHANGED <<want, row, dir, reg, job, target, snap, todo, sys>>

(* The disk reservation may be refused, the directory not be created.      *)
Create(s) ==
    /\ pc[s] = "create"
    /\ \/ SetDir(s, "bare") /\ Goto(s, "claim")
       \/ Goto(s, "done") /\ UNCHANGED dir
    /\ UNCHANGED <<want, row, reg, job, target, snap, todo, sys>>

(* claim_transcode_session: INSERT ... ON CONFLICT DO NOTHING.  Before it, *)
(* registering the relay of a remote input may fail; the directory stays.  *)
Claim(s) ==
    /\ pc[s] = "claim"
    /\ \/ IndexFree(s) /\ SetStatus(s, "starting") /\ Goto(s, "list")
       \/ ~IndexFree(s) /\ Goto(s, "conflict") /\ UNCHANGED <<status, stranded>>
       \/ Goto(s, "done") /\ UNCHANGED <<status, stranded>>
    /\ UNCHANGED <<want, overtaken, dir, reg, job, target, snap, todo, sys>>

(* The row in the way is returned if it is still active, else it is an     *)
(* error, and the directory stays.                                         *)
Conflict(s) ==
    /\ pc[s] = "conflict"
    /\ IF IndexFree(s) THEN UNCHANGED dir ELSE SetDir(s, "absent")
    /\ Goto(s, "done")
    /\ UNCHANGED <<want, row, reg, job, target, snap, todo, sys>>

(* Mutant: only sessions whose FFmpeg runs are superseded.                 *)
SupersededRunning(s) ==
    {t \in Sessions \ {s} : want[t].device = want[s].device /\ status[t] = "running"}

(* stop_superseded_device_transcode_sessions                               *)
Superseded(s) ==
    {t \in Sessions \ {s} : want[t].device = want[s].device /\ status[t] \in Active}

List(s) ==
    /\ pc[s] = "list"
    /\ todo' = [todo EXCEPT ![s] = Superseded(s)]
    /\ Goto(s, "next")
    /\ UNCHANGED <<want, row, dir, reg, job, target, snap, sys>>

NextSuperseded(s) ==
    /\ pc[s] = "next"
    /\ \/ /\ todo[s] = {}
          /\ Goto(s, "spawn")
          /\ UNCHANGED <<target, todo>>
       \/ \E t \in todo[s] :
            /\ target' = [target EXCEPT ![s] = t]
            /\ todo' = [todo EXCEPT ![s] = @ \ {t}]
            /\ Goto(s, "take")
    /\ UNCHANGED <<want, row, dir, reg, job, snap, sys>>

(* Mutant: the stop sender is not registered.                              *)
RegisterNobody(s) ==
    /\ pc[s] = "spawn"
    /\ Goto(s, "launch")
    /\ UNCHANGED <<want, row, dir, reg, job, target, snap, todo, sys>>

(* spawn_hls_transcode_task: the sender is registered, then, after two     *)
(* more awaits, the task spawned.                                          *)
Register(s) ==
    /\ pc[s] = "spawn"
    /\ sender' = sender \cup {s}
    /\ Goto(s, "launch")
    /\ UNCHANGED <<want, row, dir, access, told, job, target, snap, todo, sys>>

Launch(s) ==
    /\ pc[s] = "launch"
    /\ access' = [access EXCEPT ![s] = "fresh"]
    /\ GotoTask(s, "queued")
    /\ Goto(s, "done")
    /\ UNCHANGED <<want, row, dir, sender, told, attempt, outcome, target, snap, todo, sys>>

Start(s) ==
    \/ Begin(s) \/ Reuse(s) \/ Create(s) \/ Claim(s) \/ Conflict(s)
    \/ List(s) \/ NextSuperseded(s) \/ Register(s) \/ Launch(s)

(* The client disconnects and the future of its start or stop request is   *)
(* dropped at an await: the locks are free, a sender it holds is dropped   *)
(* with it and resolves the receiver, and a row it has claimed stays.  A   *)
(* database write that was in flight has happened or it has not.           *)
Vanish(x) ==
    /\ x \in Sessions \cup Stoppers
    /\ pc[x] \notin {"absent", "idle", "vanished", "done"}
    /\ told' = IF pc[x] \in {"mark_stopping", "send"} THEN told \cup {target[x]} ELSE told
    /\ stranded' = IF x \in Sessions /\ Claimed(x) THEN stranded \cup {x} ELSE stranded
    /\ Goto(x, "vanished")
    /\ snap' = [snap EXCEPT ![x] = "none"]
    /\ todo' = [s \in Sessions |-> IF s = x THEN {} ELSE todo[s]]
    /\ UNCHANGED <<want, status, overtaken, dir, access, sender, job, target, sys>>

-----------------------------------------------------------------------------
(* The continuous task.                                                    *)

Process(s) == task[s] \in {"spawned", "writing", "killing"}
Live(s) == task[s] \notin {"none", "done"}

End(s, st) ==
    /\ outcome' = [outcome EXCEPT ![s] = st]
    /\ attempt' = [attempt EXCEPT ![s] = 1]
    /\ GotoTask(s, "ended")

(* Mutants: the watchdog, or the stop receiver, is not polled.             *)
StopDueWhenTold(s) == s \in told
StopDueWhenIdle(s) == access[s] # "fresh"

(* What ends an attempt from outside: a stop, or wait_for_transcode_idle.  *)
StopDue(s) == s \in told \/ access[s] # "fresh"

(* The permit is granted and FFmpeg started, or one of the two fails.      *)
Acquire(s) ==
    /\ task[s] = "queued"
    /\ \/ GotoTask(s, "spawned") /\ UNCHANGED <<attempt, outcome>>
       \/ End(s, "failed")
    /\ UNCHANGED <<want, row, dir, reg, req, sys>>

StopQueued(s) ==
    /\ task[s] = "queued"
    /\ StopDue(s)
    /\ End(s, "stopped")
    /\ UNCHANGED <<want, row, dir, reg, req, sys>>

(* The upsert's error is ignored.                                          *)
MarkRunning(s) ==
    /\ task[s] = "spawned"
    /\ TrySetStatus(s, "running")
    /\ GotoTask(s, "writing")
    /\ UNCHANGED <<want, overtaken, dir, reg, attempt, outcome, req, sys>>

StopWriting(s) ==
    /\ task[s] = "writing"
    /\ StopDue(s)
    /\ GotoTask(s, "killing")
    /\ UNCHANGED <<want, row, dir, reg, attempt, outcome, req, sys>>

(* disk_reservation.wait_until_exceeded, in both selects                   *)
QuotaStop(s) ==
    /\ \/ task[s] = "queued" /\ End(s, "stopped")
       \/ task[s] = "writing" /\ GotoTask(s, "killing") /\ UNCHANGED <<attempt, outcome>>
    /\ UNCHANGED <<want, row, dir, reg, req, sys>>

Killed(s) ==
    /\ task[s] = "killing"
    /\ End(s, "stopped")
    /\ UNCHANGED <<want, row, dir, reg, req, sys>>

(* FFmpeg ends by itself.  Its output counts only if the first segment is  *)
(* still in the directory; a remux without it may be retried once.         *)
ExitWell(s) ==
    /\ task[s] = "writing"
    /\ dir[s] # "absent"
    /\ SetDir(s, "full")
    /\ End(s, "completed")
    /\ UNCHANGED <<want, row, reg, req, sys>>

ExitBadly(s) ==
    /\ task[s] = "writing"
    /\ \/ End(s, "failed")
       \/ attempt[s] = 1 /\ want[s].fallback /\ GotoTask(s, "retry") /\ UNCHANGED <<attempt, outcome>>
    /\ UNCHANGED <<want, row, dir, reg, req, sys>>

RetryMark(s) ==
    /\ task[s] = "retry"
    /\ TrySetStatus(s, "starting")
    /\ GotoTask(s, "redo")
    /\ UNCHANGED <<want, overtaken, dir, reg, attempt, outcome, req, sys>>

RetryDir(s) ==
    /\ task[s] = "redo"
    /\ \/ /\ SetDir(s, "bare")
          /\ attempt' = [attempt EXCEPT ![s] = 2]
          /\ GotoTask(s, "queued")
          /\ UNCHANGED outcome
       \/ SetDir(s, "absent") /\ End(s, "failed")
    /\ UNCHANGED <<want, row, reg, req, sys>>

(* Mutant: a stopped task relies on the one that stopped it.               *)
RecordUnlessStopped(s) ==
    /\ task[s] = "ended"
    /\ IF outcome[s] = "stopped" THEN UNCHANGED <<status, stranded>> ELSE SetStatus(s, outcome[s])
    /\ GotoTask(s, "unregister")
    /\ UNCHANGED <<want, overtaken, dir, reg, attempt, outcome, req, sys>>

Record(s) ==
    /\ task[s] = "ended"
    /\ SetStatus(s, outcome[s])
    /\ GotoTask(s, "unregister")
    /\ UNCHANGED <<want, overtaken, dir, reg, attempt, outcome, req, sys>>

Unregister(s) ==
    /\ task[s] = "unregister"
    /\ sender' = sender \ {s}
    /\ access' = [access EXCEPT ![s] = "none"]
    /\ GotoTask(s, IF outcome[s] = "completed" THEN "done" ELSE "clean")
    /\ outcome' = [outcome EXCEPT ![s] = "none"]
    /\ UNCHANGED <<want, row, dir, told, attempt, req, sys>>

CleanUp(s) ==
    /\ task[s] = "clean"
    /\ SetDir(s, "absent")
    /\ GotoTask(s, "done")
    /\ UNCHANGED <<want, row, reg, attempt, outcome, req, sys>>

Exit(s) == ExitWell(s) \/ ExitBadly(s) \/ QuotaStop(s)

(* The steps the task takes by itself, whatever FFmpeg does.               *)
TaskStep(s) ==
    \/ Acquire(s) \/ StopQueued(s) \/ MarkRunning(s) \/ StopWriting(s) \/ Killed(s)
    \/ RetryMark(s) \/ RetryDir(s) \/ Record(s) \/ Unregister(s) \/ CleanUp(s)

-----------------------------------------------------------------------------
(* Requests for playlists and segments, and generation after a seek.       *)

(* active_hls_transcode_session_for                                        *)
Servable(s) == status[s] \in Active \cup {"completed"} \/ GenerationActive(s)

(* A playlist, or a segment that exists.                                   *)
Touch(s) ==
    /\ Servable(s)
    /\ TouchSession(s)
    /\ UNCHANGED <<want, row, dir, sender, told, job, req, sys>>

(* Time passes: the last access gets older than the idle time-out.         *)
Age(s) ==
    /\ access[s] = "fresh"
    /\ access' = [access EXCEPT ![s] = "old"]
    /\ UNCHANGED <<want, row, dir, sender, told, job, req, sys>>

SeekRequest(q, s) ==
    /\ pc[q] = "idle"
    /\ Servable(s)
    /\ TouchSession(s)
    /\ target' = [target EXCEPT ![q] = s]
    /\ Goto(q, "queued")
    /\ UNCHANGED <<want, row, dir, sender, told, job, snap, todo, sys>>

EnterGeneration(q) ==
    /\ pc[q] = "queued"
    /\ ~GenerationActive(target[q])
    /\ Goto(q, "read")
    /\ UNCHANGED <<want, row, dir, reg, job, target, snap, todo, sys>>

ReadRow(q) ==
    /\ pc[q] = "read"
    /\ snap' = [snap EXCEPT ![q] = status[target[q]]]
    /\ Goto(q, "decide")
    /\ UNCHANGED <<want, row, dir, reg, job, target, todo, sys>>

(* The segment turned up, cannot exist, or has to be generated: at once    *)
(* when it is far ahead, else after a wait, still from the row read before.*)
Decide(q) ==
    /\ pc[q] = "decide"
    /\ \/ Goto(q, IF snap[q] \in Active THEN "take" ELSE "publish")
       \/ Goto(q, "done")
    /\ snap' = [snap EXCEPT ![q] = "none"]
    /\ UNCHANGED <<want, row, dir, reg, job, target, todo, sys>>

(* stop_continuous_hls_for_seek polls row and directory for ten seconds.   *)
Await(q) ==
    /\ pc[q] = "await"
    /\ \/ /\ status[target[q]] \in Terminal
          /\ dir[target[q]] = "absent"
          /\ Goto(q, "publish")
       \/ Goto(q, "done")
    /\ UNCHANGED <<want, row, dir, reg, job, target, snap, todo, sys>>

Publish(q) ==
    /\ pc[q] = "publish"
    /\ IF Writable(target[q], "starting")
       THEN SetStatus(target[q], "starting") /\ Goto(q, "prepare")
       ELSE Goto(q, "done") /\ UNCHANGED <<status, stranded>>
    /\ UNCHANGED <<want, overtaken, dir, reg, job, target, snap, todo, sys>>

GenerationEnds(q, st, label) ==
    /\ outcome' = [outcome EXCEPT ![q] = st]
    /\ Goto(q, label)
    /\ attempt' = [attempt EXCEPT ![q] = 1]
    /\ UNCHANGED task

(* The disk reservation, then the directory; either may fail.              *)
Prepare(q) ==
    /\ pc[q] = "prepare"
    /\ \/ MakeDir(target[q]) /\ Goto(q, "permit") /\ UNCHANGED job
       \/ GenerationEnds(q, "failed", "record") /\ UNCHANGED dir
    /\ UNCHANGED <<want, row, reg, target, snap, todo, sys>>

(* The generation returns and leaves the row as it is.                     *)
GiveUp(q) ==
    /\ stranded' = stranded \cup {target[q]}
    /\ Goto(q, "done")

(* A refused permit or a failed spawn returns at once and leaves the row;  *)
(* so does an exceeded quota, after it has removed the directory.          *)
Permit(q) ==
    /\ pc[q] = "permit"
    /\ \/ Goto(q, "writing") /\ UNCHANGED <<job, stranded>>
       \/ GiveUp(q) /\ UNCHANGED job
       \/ GenerationEnds(q, "none", "scrap") /\ UNCHANGED stranded
    /\ UNCHANGED <<want, status, overtaken, dir, reg, target, snap, todo, sys>>

(* The process of a generation listens to the quota and to its own         *)
(* time-out, not to a stop sender.                                         *)
Generate(q) ==
    /\ pc[q] = "writing"
    /\ \/ dir[target[q]] # "absent" /\ GenerationEnds(q, "completed", "record")
       \/ \E st \in {"failed", "stopped"} : GenerationEnds(q, st, "scrap")
       \/ attempt[q] = 1 /\ want[target[q]].fallback /\ Goto(q, "redo") /\ UNCHANGED job
    /\ UNCHANGED <<want, row, dir, reg, target, snap, todo, sys>>

GenerateAgain(q) ==
    /\ pc[q] = "redo"
    /\ \/ SetDir(target[q], "bare") /\ Goto(q, "permit") /\ UNCHANGED stranded
       \/ SetDir(target[q], "absent") /\ GiveUp(q)
    /\ attempt' = [attempt EXCEPT ![q] = 2]
    /\ UNCHANGED <<want, status, overtaken, reg, task, outcome, target, snap, todo, sys>>

Scrap(q) ==
    /\ pc[q] = "scrap"
    /\ SetDir(target[q], "absent")
    /\ IF outcome[q] = "none" THEN GiveUp(q) ELSE Goto(q, "record") /\ UNCHANGED stranded
    /\ UNCHANGED <<want, status, overtaken, reg, job, target, snap, todo, sys>>

RecordGeneration(q) ==
    /\ pc[q] = "record"
    /\ SetStatus(target[q], outcome[q])
    /\ outcome' = [outcome EXCEPT ![q] = "none"]
    /\ Goto(q, "done")
    /\ UNCHANGED <<want, overtaken, dir, reg, task, attempt, target, snap, todo, sys>>

Seek(q) ==
    \/ \E s \in Sessions : SeekRequest(q, s)
    \/ EnterGeneration(q) \/ ReadRow(q) \/ Decide(q) \/ Await(q) \/ Publish(q)
    \/ Prepare(q) \/ Permit(q) \/ Generate(q) \/ GenerateAgain(q) \/ Scrap(q)
    \/ RecordGeneration(q)

-----------------------------------------------------------------------------
(* The retention sweep, and restarts.  Ages are not modelled: any terminal *)
(* row may be old enough.                                                  *)

SweepList(listed) ==
    /\ sweep = {} /\ sweeps > 0
    /\ sweeps' = sweeps - 1
    /\ listed # {}
    /\ listed \subseteq {s \in Sessions : status[s] \in Terminal /\ dir[s] # "absent"}
    /\ sweep' = listed
    /\ UNCHANGED <<want, row, dir, reg, job, req, up, crashes>>

SweepClean(s) ==
    /\ s \in sweep
    /\ sweep' = sweep \ {s}
    /\ SetDir(s, "absent")
    /\ UNCHANGED <<want, row, reg, job, req, sweeps, up, crashes>>

(* A directory no row names, once its start is long over.                  *)
SweepOrphan(s) ==
    /\ status[s] = "none" /\ pc[s] \in {"vanished", "done"} /\ dir[s] # "absent"
    /\ SetDir(s, "absent")
    /\ UNCHANGED <<want, row, reg, job, req, sys>>

(* Rows and directories survive, everything else is gone.                  *)
Crash ==
    /\ crashes > 0
    /\ crashes' = crashes - 1
    /\ up' = FALSE
    /\ access' = [s \in Sessions |-> "none"]
    /\ sender' = {} /\ told' = {} /\ sweep' = {}
    /\ task' = [s \in Sessions |-> "none"]
    /\ pc' = [x \in Actors |-> IF pc[x] \in {"absent", "idle"} THEN pc[x] ELSE "done"]
    /\ attempt' = [x \in Sessions \cup Seekers |-> 1]
    /\ outcome' = [x \in Sessions \cup Seekers |-> "none"]
    /\ snap' = [x \in Actors |-> "none"]
    /\ todo' = [s \in Sessions |-> {}]
    /\ UNCHANGED <<want, row, dir, target, sweeps>>

(* reconcile_transcode_sessions_on_startup, before anything is served      *)
Reconcile(s) ==
    /\ ~up
    /\ status[s] \in Active
    /\ SetStatus(s, "stopped")
    /\ SetDir(s, "absent")
    /\ UNCHANGED <<want, overtaken, reg, job, req, sys>>

Serve ==
    /\ ~up
    /\ \A s \in Sessions : status[s] \notin Active
    /\ up' = TRUE
    /\ UNCHANGED <<want, row, dir, reg, job, req, sweep, sweeps, crashes>>

Next ==
    \/ /\ up
       /\ \/ \E s \in Sessions : Start(s) \/ TaskStep(s) \/ Exit(s) \/ Touch(s) \/ Age(s)
          \/ \E x \in Actors : StopProtocol(x) \/ Vanish(x)
          \/ \E r \in Stoppers, s \in Sessions : StopRequest(r, s)
          \/ \E q \in Seekers : Seek(q)
          \/ \E listed \in SUBSET Sessions : SweepList(listed)
          \/ \E s \in Sessions : SweepClean(s) \/ SweepOrphan(s)
          \/ Crash
    \/ \E s \in Sessions : Reconcile(s)
    \/ Serve

Spec == Init /\ [][Next]_vars

(* The runtime polls tasks that are ready, the watchdogs fire, FFmpeg dies *)
(* when it is killed and a queued job is admitted or refused (see          *)
(* FfmpegAdmission).  FFmpeg itself may run for ever, clients may do       *)
(* nothing.                                                                *)
Fairness ==
    /\ \A s \in Sessions :
        /\ WF_vars(up /\ TaskStep(s))
        /\ WF_vars(up /\ Age(s))
        /\ WF_vars(Reconcile(s))
    /\ WF_vars(Serve)

FairSpec == Spec /\ Fairness

-----------------------------------------------------------------------------
(* Properties.                                                             *)

(* Somebody who writes the session's row before leaving it: its start from *)
(* the claim on, its task, a generation, or the startup reconciliation.    *)
Keeper(s) ==
    \/ Claimed(s)
    \/ task[s] \notin {"none", "unregister", "clean", "done"}
    \/ \E q \in Seekers :
            target[q] = s /\ pc[q] \in {"prepare", "permit", "writing", "redo", "scrap", "record"}
    \/ ~up

(* Somebody is still going to write it: a keeper, or a request that stops  *)
(* the session or is about to generate.                                    *)
Owned(s) ==
    \/ Keeper(s)
    \/ \E x \in Actors :
            target[x] = s /\ pc[x] \in {"take", "mark_stopping", "mark_stopped", "publish"}

(* A session's stop sender can be reached as long as its task can run: it  *)
(* is registered, in the hands of a request that is about to send, or its  *)
(* receiver has resolved (spawn, take, unregister by play session id).     *)
Stoppable ==
    \A s \in Sessions :
        Live(s) /\ s \notin told /\ task[s] # "clean" =>
            s \in sender \/ \E x \in Actors : Holds(x, s)

(* One stream per device, one transcode per key: two tasks that nobody is  *)
(* stopping never serve the same key or the same device, apart from a      *)
(* session that was asked to stop before its task was registered.          *)
Wanted(s) ==
    /\ Live(s) /\ task[s] \notin {"ended", "unregister", "clean"}
    /\ s \notin told /\ ~ \E x \in Actors : Holds(x, s)

NoDuplicateTranscode ==
    \A s, t \in Sessions :
        s # t /\ Wanted(s) /\ Wanted(t) /\ s \notin overtaken /\ t \notin overtaken =>
            want[s].key # want[t].key /\ want[s].device # want[t].device

(* A row that says starting or running has somebody who settles it; the    *)
(* only rows without are those a dropped start request, or a generation    *)
(* that gave up at its permit, has left and nobody has written since.      *)
ActiveRowsOwned ==
    \A s \in Sessions : status[s] \in Active => Keeper(s) \/ s \in stranded

(* Startup and watchdog can reclaim every session nobody works on, because *)
(* its row is terminal.                                                    *)
StoppingRowsOwned == \A s \in Sessions : status[s] = "stopping" => Owned(s)

(* A stop request that has been answered leaves no FFmpeg of the session   *)
(* running: Stoppable for the generation after a seek (a stop that         *)
(* overtakes the start of its session set aside).                          *)
StopReachesProcess ==
    \A r \in Stoppers, q \in Seekers :
        pc[r] = "done" /\ target[q] = target[r] /\ target[r] \notin overtaken =>
            pc[q] # "writing"

(* A transcode whose client stops asking ends, even if FFmpeg never does.  *)
AbandonedTranscodeEnds ==
    \A s \in Sessions :
        <>[](access[s] # "fresh") => <>[](task[s] \in {"none", "done"})

(* A task that is told to stop ends, whatever the client does.             *)
StopObeyed == \A s \in Sessions : s \in told ~> task[s] \in {"none", "done"}
=============================================================================
