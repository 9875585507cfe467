----------------------------- MODULE Recordings -----------------------------
(***************************************************************************)
(* Live TV recordings of jellyrin-api: how a due timer becomes a recording *)
(* task, the task's way through the STARTING and the active registry, its  *)
(* file and its entry of the "livetv" configuration, the shutdown's sweep, *)
(* a crash at any point and the reconciliation at the next start.          *)
(*                                                                         *)
(* The "livetv" configuration is one document that everybody reads, edits  *)
(* and writes back as a whole; reading and writing are separate steps.     *)
(* The database itself does not fail here, a file or a stream may.         *)
(***************************************************************************)
EXTENDS Integers, FiniteSets

CONSTANTS
    Timers,     \* timers; a timer's recording always has the same path
    Tasks,      \* recording tasks, each started at most once: a bound
    Starters,   \* the scheduler and API requests
    None

ASSUME RecordingsAssumption ==
    /\ IsFiniteSet(Tasks)
    /\ None \notin Timers \union Tasks
    /\ Tasks \intersect Starters = {}

VARIABLES
    config,     \* the "livetv" document: timers and recordings
    file,       \* the recording file of each timer
    window,     \* whether a timer's recording window is still open
    phase,      \* of the process: "boot", "up", "stopping", "swept"
    starting,   \* LIVE_TV_RECORDING_STARTING: task that holds the reservation
    active,     \* LIVE_TV_RECORDING_REGISTRY: task that owns the cancel handle
    pc,         \* where each task and each starter is
    timer,      \* the timer each of them works for
    snapshot,   \* the document each of them has read
    completed   \* history: tasks that wrote their recording as Completed

vars == <<config, file, window, phase, starting, active, pc, timer, snapshot, completed>>
disk == <<config, file, window>>
registries == <<starting, active>>

Actors == Tasks \union Starters
Documents == [timers : [Timers -> {"none", "new", "done"}],
              recordings : [Tasks -> {"none", "InProgress", "Completed"}]]
Empty == [timers |-> [t \in Timers |-> "none"],
          recordings |-> [k \in Tasks |-> "none"]]

(* A task on its way to the active registry, with its handle in it, and    *)
(* winding up.                                                             *)
Starting == {"reserved", "launched"}
Recording == {"promoted", "aborted", "creating", "created", "loaded", "copying", "ended"}
WindingUp == {"finishing", "completing", "discarding", "clearing", "removing"}

TypeOK ==
    /\ config \in Documents
    /\ file \in [Timers -> {"none", "empty", "data"}]
    /\ window \in [Timers -> {"open", "closed"}]
    /\ phase \in {"boot", "up", "stopping", "swept"}
    /\ starting \in [Timers -> Tasks \union {None}]
    /\ active \in [Timers -> Tasks \union {None}]
    /\ \A k \in Tasks : pc[k] \in Starting \union Recording \union WindingUp \union {"unused", "gone"}
    /\ \A s \in Starters : pc[s] \in {"idle", "checking", "reserving", "editing"}
    /\ timer \in [Actors -> Timers \union {None}]
    /\ snapshot \in [Actors -> Documents]
    /\ completed \subseteq Tasks

Init ==
    /\ config = Empty
    /\ file = [t \in Timers |-> "none"]
    /\ window = [t \in Timers |-> "open"]
    /\ phase = "up"
    /\ starting = [t \in Timers |-> None]
    /\ active = [t \in Timers |-> None]
    /\ pc = [a \in Actors |-> IF a \in Tasks THEN "unused" ELSE "idle"]
    /\ timer = [a \in Actors |-> None]
    /\ snapshot = [a \in Actors |-> Empty]
    /\ completed = {}

-----------------------------------------------------------------------------
Goto(a, label) == pc' = [pc EXCEPT ![a] = label]

Running == phase \in {"up", "stopping", "swept"}
ShutdownStarted == phase \in {"stopping", "swept"}

(* Whoever has finished with a document forgets it.                        *)
Write(a, document) ==
    /\ config' = document
    /\ snapshot' = [snapshot EXCEPT ![a] = Empty]

Read(a) == snapshot' = [snapshot EXCEPT ![a] = config]

(* The guard of task k is dropped: its reservation goes if it is its own.  *)
WithoutGuard(k) ==
    [t \in Timers |-> IF starting[t] = k THEN None ELSE starting[t]]

(* A timer of the document is due, or was just stored by this request, and *)
(* the timer is not recorded yet.                                          *)
Due(s, t) ==
    /\ phase \in {"up", "stopping"}
    /\ pc[s] = "idle"
    /\ config.timers[t] = "new"
    /\ window[t] = "open"
    /\ active[t] = None
    /\ timer' = [timer EXCEPT ![s] = t]
    /\ Goto(s, "checking")
    /\ UNCHANGED <<disk, phase, registries, snapshot, completed>>

(* maybe_spawn_live_tv_recording asks once more, after its look-ups ...    *)
CheckActive(s) ==
    /\ pc[s] = "checking"
    /\ IF active[timer[s]] = None
       THEN Goto(s, "reserving") /\ UNCHANGED timer
       ELSE Goto(s, "idle") /\ timer' = [timer EXCEPT ![s] = None]
    /\ UNCHANGED <<disk, phase, registries, snapshot, completed>>

(* ... and reserves the start.                                             *)
Reserve(s, k) ==
    LET t == timer[s] IN
    /\ pc[s] = "reserving"
    /\ pc[k] = "unused"
    /\ ~ShutdownStarted
    /\ starting[t] = None
    /\ starting' = [starting EXCEPT ![t] = k]
    /\ pc' = [pc EXCEPT ![s] = "idle", ![k] = "reserved"]
    /\ timer' = [timer EXCEPT ![s] = None, ![k] = t]
    /\ UNCHANGED <<disk, phase, active, snapshot, completed>>

NotReserved(s) ==
    /\ pc[s] = "reserving"
    /\ ShutdownStarted \/ starting[timer[s]] # None
    /\ Goto(s, "idle")
    /\ timer' = [timer EXCEPT ![s] = None]
    /\ UNCHANGED <<disk, phase, registries, snapshot, completed>>

(* spawn_live_tv_recording launches the task once it is retained, and      *)
(* aborts it otherwise.                                                    *)
Launch(k) ==
    /\ pc[k] = "reserved"
    /\ IF starting[timer[k]] = k /\ ~ShutdownStarted
       THEN Goto(k, "launched") /\ UNCHANGED starting
       ELSE Goto(k, "gone") /\ starting' = WithoutGuard(k)
    /\ UNCHANGED <<disk, phase, active, timer, snapshot, completed>>

(* The window is over, the source cannot be opened or no tuner is free, or *)
(* the sweep's abort reaches the task.                                     *)
GiveUp(k) ==
    /\ pc[k] = "launched"
    /\ Goto(k, "gone")
    /\ starting' = WithoutGuard(k)
    /\ UNCHANGED <<disk, phase, active, timer, snapshot, completed>>

(* Mutant: the shutdown is looked at before the lock is taken only. *)
PromoteLate(k) == TRUE

(* The terminal flag and the reservation, looked at under the lock.        *)
MayPromote(k) == ~ShutdownStarted /\ starting[timer[k]] = k

(* STARTING becomes active: the handle is inserted, replacing any other.   *)
Promote(k) ==
    /\ pc[k] = "launched"
    /\ IF MayPromote(k)
       THEN /\ active' = [active EXCEPT ![timer[k]] = k]
            /\ Goto(k, "promoted")
            /\ UNCHANGED starting
       ELSE /\ Goto(k, "gone")
            /\ starting' = WithoutGuard(k)
            /\ UNCHANGED active
    /\ UNCHANGED <<disk, phase, timer, snapshot, completed>>

(* Mutant: the guard forgets to remove its reservation. *)
LeakGuard(k) ==
    /\ pc[k] = "promoted"
    /\ Goto(k, "creating")
    /\ UNCHANGED <<disk, phase, registries, timer, snapshot, completed>>

DropGuard(k) ==
    /\ pc[k] = "promoted"
    /\ Goto(k, "creating")
    /\ starting' = WithoutGuard(k)
    /\ UNCHANGED <<disk, phase, active, timer, snapshot, completed>>

-----------------------------------------------------------------------------
(* A task is cancelled once its handle is no longer in the registry.       *)
Cancelled(k) == active[timer[k]] # k

(* registry.remove(&timer_id), whoever's handle that is.                   *)
Unregistered(k) == [active EXCEPT ![timer[k]] = None]

(* Mutant: an existing file is overwritten. *)
AnyFile(k) == TRUE

(* create_new: fail if the file exists.                                    *)
MayCreate(k) == file[timer[k]] = "none"

Create(k) ==
    /\ pc[k] = "creating"
    /\ ~Cancelled(k)
    /\ MayCreate(k)
    /\ file' = [file EXCEPT ![timer[k]] = "empty"]
    /\ Goto(k, "created")
    /\ UNCHANGED <<config, window, phase, registries, timer, snapshot, completed>>

(* Cancelled, or the directory or the file cannot be created.              *)
CreateFails(k) ==
    /\ pc[k] = "creating"
    /\ Goto(k, "gone")
    /\ active' = Unregistered(k)
    /\ UNCHANGED <<disk, phase, starting, timer, snapshot, completed>>

LoadConfig(k) ==
    /\ pc[k] = "created"
    /\ ~Cancelled(k)
    /\ Read(k)
    /\ Goto(k, "loaded")
    /\ UNCHANGED <<disk, phase, registries, timer, completed>>

PersistInProgress(k) ==
    /\ pc[k] = "loaded"
    /\ ~Cancelled(k)
    /\ Write(k, [snapshot[k] EXCEPT !.recordings[k] = "InProgress"])
    /\ Goto(k, "copying")
    /\ UNCHANGED <<file, window, phase, registries, timer, completed>>

(* cleanup_failed_recording: cancelled, or the stream cannot be opened.    *)
(* The file and the handle go in one step.                                 *)
Cleanup(k) ==
    /\ \/ pc[k] \in {"created", "loaded"} /\ Cancelled(k)
       \/ pc[k] = "copying" /\ file[timer[k]] = "empty"
    /\ file' = [file EXCEPT ![timer[k]] = "none"]
    /\ active' = Unregistered(k)
    /\ snapshot' = [snapshot EXCEPT ![k] = Empty]
    /\ Goto(k, "clearing")
    /\ UNCHANGED <<config, window, phase, starting, timer, completed>>

CopyBytes(k) ==
    /\ pc[k] = "copying"
    /\ file' = [file EXCEPT ![timer[k]] = "data"]
    /\ UNCHANGED <<config, window, phase, registries, pc, timer, snapshot, completed>>

(* The window ends, the task is cancelled, the stream or a write fails.    *)
StopCopying(k) ==
    /\ pc[k] = "copying"
    /\ Goto(k, "ended")
    /\ UNCHANGED <<disk, phase, registries, timer, snapshot, completed>>

Unregister(k) ==
    /\ pc[k] = "ended"
    /\ active' = Unregistered(k)
    /\ Goto(k, "finishing")
    /\ UNCHANGED <<disk, phase, starting, timer, snapshot, completed>>

(* A file with bytes in it is kept, an empty one removed.                  *)
FinishLoad(k) ==
    /\ pc[k] = "finishing"
    /\ IF file[timer[k]] = "data"
       THEN Goto(k, "completing") /\ UNCHANGED file
       ELSE Goto(k, "discarding") /\ file' = [file EXCEPT ![timer[k]] = "none"]
    /\ Read(k)
    /\ UNCHANGED <<config, window, phase, registries, timer, completed>>

(* The recording, if the document has it, and the timer become Completed.  *)
SaveCompleted(k) ==
    LET doc == snapshot[k]
        t == timer[k] IN
    /\ pc[k] = "completing"
    /\ Write(k, [doc EXCEPT
         !.recordings[k] = IF @ = "none" THEN @ ELSE "Completed",
         !.timers[t] = IF @ = "none" THEN @ ELSE "done"])
    /\ completed' = completed \union {k}
    /\ Goto(k, "gone")
    /\ UNCHANGED <<file, window, phase, registries, timer>>

SaveDiscarded(k) ==
    /\ pc[k] = "discarding"
    /\ Write(k, [snapshot[k] EXCEPT !.recordings[k] = "none", !.timers[timer[k]] = "none"])
    /\ Goto(k, "gone")
    /\ UNCHANGED <<file, window, phase, registries, timer, completed>>

ClearLoad(k) ==
    /\ pc[k] = "clearing"
    /\ Read(k)
    /\ Goto(k, "removing")
    /\ UNCHANGED <<disk, phase, registries, timer, completed>>

ClearSave(k) ==
    /\ pc[k] = "removing"
    /\ Write(k, [snapshot[k] EXCEPT !.recordings[k] = "none"])
    /\ Goto(k, "gone")
    /\ UNCHANGED <<file, window, phase, registries, timer, completed>>

-----------------------------------------------------------------------------
(* A starter edits the document: an API request stores or deletes a timer  *)
(* or changes a tuner host or listing provider, which are not modelled;    *)
(* the scheduler drops the timers whose window is over.                    *)
EditLoad(s) ==
    /\ phase \in {"up", "stopping"}
    /\ pc[s] = "idle"
    /\ Read(s)
    /\ Goto(s, "editing")
    /\ UNCHANGED <<disk, phase, registries, timer, completed>>

Pruned(doc) ==
    [doc EXCEPT !.timers = [t \in Timers |->
        IF @[t] = "new" /\ window[t] = "closed" THEN "none" ELSE @[t]]]

Edits(doc) ==
    {doc, Pruned(doc)} \union
    {[doc EXCEPT !.timers[t] = status] : t \in Timers, status \in {"none", "new"}}

(* An edit that turns out to change nothing is not written.                *)
EditSave(s) ==
    /\ pc[s] = "editing"
    /\ \E doc \in Edits(snapshot[s]) \union {config} : Write(s, doc)
    /\ Goto(s, "idle")
    /\ UNCHANGED <<file, window, phase, registries, timer, completed>>

WindowEnds(t) ==
    /\ window[t] = "open"
    /\ window' = [window EXCEPT ![t] = "closed"]
    /\ UNCHANGED <<config, file, phase, registries, pc, timer, snapshot, completed>>

(* signal_runtime_shutdown publishes the flag before any sweep ...         *)
BeginShutdown ==
    /\ phase = "up"
    /\ phase' = "stopping"
    /\ UNCHANGED <<disk, registries, pc, timer, snapshot, completed>>

(* ... which first drains STARTING and aborts the tasks it retains (when   *)
(* the time for the shutdown is up, without waiting for them to end) ...   *)
SweepStarting ==
    /\ phase = "stopping"
    /\ \E t \in Timers : starting[t] # None
    /\ pc' = [a \in Actors |->
                IF pc[a] = "promoted" /\ starting[timer[a]] = a THEN "aborted" ELSE pc[a]]
    /\ starting' = [t \in Timers |-> None]
    /\ UNCHANGED <<disk, phase, active, timer, snapshot, completed>>

(* An aborted task gets no further than the creation of the directory; it  *)
(* may still see its cancellation there.                                   *)
Abort(k) ==
    /\ pc[k] = "aborted"
    /\ Goto(k, "gone")
    /\ active' \in {active, Unregistered(k)}
    /\ UNCHANGED <<disk, phase, starting, timer, snapshot, completed>>

(* ... and then drains the active registry, cancelling every recording.    *)
SweepActive ==
    /\ phase = "stopping"
    /\ \A t \in Timers : starting[t] = None
    /\ active' = [t \in Timers |-> None]
    /\ phase' = "swept"
    /\ UNCHANGED <<disk, starting, pc, timer, snapshot, completed>>

(* Mutant: the scheduler is not started again. *)
NoScheduler(a) == IF pc[a] = "unused" THEN "unused" ELSE "gone"

(* The process ends, by a crash or after its shutdown; tasks are lost      *)
(* wherever they are.                                                      *)
Stopped(a) ==
    IF a \in Starters THEN "idle" ELSE IF pc[a] = "unused" THEN "unused" ELSE "gone"

Exit ==
    /\ Running
    /\ phase' = "boot"
    /\ starting' = [t \in Timers |-> None]
    /\ active' = [t \in Timers |-> None]
    /\ pc' = [a \in Actors |-> Stopped(a)]
    /\ snapshot' = [a \in Actors |-> Empty]
    /\ UNCHANGED <<disk, timer, completed>>

(* reconcile_live_tv_recordings_on_startup: stale recordings lose their    *)
(* file, then their entry; expired timers go.                              *)
Stale == {k \in Tasks : config.recordings[k] = "InProgress"}

Reconcile ==
    /\ phase = "boot"
    /\ file' = [t \in Timers |-> IF \E k \in Stale : timer[k] = t THEN "none" ELSE file[t]]
    /\ config' = Pruned([config EXCEPT !.recordings =
                           [k \in Tasks |-> IF k \in Stale THEN "none" ELSE @[k]]])
    /\ phase' = "up"
    /\ UNCHANGED <<window, registries, pc, timer, snapshot, completed>>

TaskStep(k) ==
    \/ Launch(k) \/ GiveUp(k) \/ Promote(k) \/ DropGuard(k) \/ Abort(k)
    \/ Create(k) \/ CreateFails(k) \/ LoadConfig(k) \/ PersistInProgress(k)
    \/ CopyBytes(k) \/ StopCopying(k) \/ Cleanup(k) \/ Unregister(k)
    \/ FinishLoad(k) \/ SaveCompleted(k) \/ SaveDiscarded(k)
    \/ ClearLoad(k) \/ ClearSave(k)

Next ==
    \/ \E k \in Tasks : TaskStep(k)
    \/ \E s \in Starters :
         \/ \E t \in Timers : Due(s, t)
         \/ \E k \in Tasks : Reserve(s, k)
         \/ CheckActive(s) \/ NotReserved(s) \/ EditLoad(s) \/ EditSave(s)
    \/ \E t \in Timers : WindowEnds(t)
    \/ BeginShutdown \/ SweepStarting \/ SweepActive \/ Exit \/ Reconcile

Spec == Init /\ [][Next]_vars

-----------------------------------------------------------------------------
(* "an insertion either precedes (and is observed by) the sweep or is      *)
(* rejected": after the sweep no recording is left that nobody can cancel, *)
(* and none appears any more.                                              *)
ShutdownBarrier ==
    phase = "swept" => \A t \in Timers : active[t] = None /\ starting[t] = None

(* A reservation belongs to a task that is on its way; a leaked one would  *)
(* keep its timer from ever being recorded again.                          *)
ReservationsHaveTasks ==
    \A t \in Timers : starting[t] # None =>
        pc[starting[t]] \in Starting \union {"promoted"} /\ timer[starting[t]] = t

(* Reservations belong to tasks on their way, handles to tasks that are    *)
(* recording, be there two tasks for a timer or failures at any point;     *)
(* only a task the shutdown aborted leaves a handle, for the sweep that    *)
(* follows.                                                                *)
RegistriesHaveTasks ==
    /\ ReservationsHaveTasks
    /\ \A t \in Timers : active[t] # None =>
        /\ pc[active[t]] \in Recording \/ phase = "stopping"
        /\ timer[active[t]] = t

(* Two tasks of a timer never write the same file, although two of them    *)
(* can be active at a time: one that starts while another is being         *)
(* promoted replaces its handle.                                           *)
OneWriterPerFile ==
    \A k, j \in Tasks :
        /\ pc[k] \in {"created", "loaded", "copying", "ended"}
        /\ pc[j] \in {"created", "loaded", "copying", "ended"}
        /\ timer[k] = timer[j]
        => k = j

(* "Completed with real bytes: update recording to Completed": a recording *)
(* that was saved so is not taken back by anybody's later save.            *)
CompletedStays ==
    \A k \in completed : config.recordings[k] # "InProgress"

(* "stale file should not block restarted recording": a file that would    *)
(* make the creation of a timer's recording fail belongs to a task or to a *)
(* recording of the document.                                              *)
RestartNotBlocked ==
    \A t \in Timers :
        phase = "up" /\ config.timers[t] = "new" /\ file[t] # "none" =>
            \E k \in Tasks : timer[k] = t /\
                (pc[k] \in Recording \union WindingUp \/ config.recordings[k] # "none")
=============================================================================
