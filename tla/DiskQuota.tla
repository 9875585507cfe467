------------------------------ MODULE DiskQuota ------------------------------
(***************************************************************************)
(* TranscodeDiskQuota of jellyrin-transcode: admission of transcode        *)
(* writers against a disk quota, and the shared monitor that stops them    *)
(* when the quota is reached.                                              *)
(*                                                                         *)
(* Two locks matter.  The async admission_gate is held across a whole      *)
(* refresh, so there is at most one refresh at a time.  The inner state    *)
(* lock is held only for short blocks, so a reservation may be dropped     *)
(* between any two steps of a refresh, and it takes no gate to do so.      *)
(***************************************************************************)
EXTENDS Integers, FiniteSets

CONSTANTS
    Writers,            \* transcodes that reserve, write and release
    Observers,          \* callers of snapshot and refresh_snapshot
    Monitor,            \* the background task
    NoActor, NoUsage, Missing, Failed,
    ConfiguredQuota,    \* quota_bytes as configured
    ConfiguredHeadroom, \* reservation_bytes as configured
    IdSpace,            \* number of reservation ids, 2^64 in the code
    MaxDisk             \* bound: units of data ever on disk

Max(a, b) == IF a > b THEN a ELSE b
Min(a, b) == IF a < b THEN a ELSE b

Quota == Max(ConfiguredQuota, 1)
Headroom == Min(Max(ConfiguredHeadroom, 1), Quota)

Actors == Writers \union Observers \union {Monitor}

ASSUME QuotaAssumption ==
    /\ IsFiniteSet(Writers)
    /\ Monitor \notin Writers \union Observers
    /\ Writers \intersect Observers = {}
    /\ NoActor \notin Actors
    /\ ConfiguredQuota \in Nat /\ ConfiguredHeadroom \in Nat
    /\ IdSpace \in Nat /\ IdSpace > Cardinality(Writers)
    /\ MaxDisk \in Nat
    /\ {NoUsage, Missing, Failed} \intersect Nat = {}
    /\ Missing # Failed

VARIABLES
    disk,           \* what the transcode root holds, or Missing
    usage,          \* usage_bytes: last recorded measurement
    lastScan,       \* "none", "fresh" (younger than scan_interval) or "old"
    reservations,   \* ids in the reservations map
    reserved,       \* reserved_bytes
    nextId,         \* next_reservation_id
    exceeded,       \* quota_exceeded
    monitorRunning, \* monitor_running
    signal,         \* value in the usage_tx watch channel
    gate,           \* owner of admission_gate
    pc,             \* what each actor is doing
    force,          \* the refresh under way is forced
    found,          \* measurement of the refresh under way
    toSend,         \* signal the refresh under way is about to send
    idOf            \* reservation id of each active writer

vars == <<disk, usage, lastScan, reservations, reserved, nextId, exceeded,
          monitorRunning, signal, gate, pc, force, found, toSend, idOf>>
store == <<usage, lastScan, reservations, reserved, nextId, exceeded, monitorRunning>>
refresh == <<force, found, toSend>>

Ids == 0..(IdSpace - 1)
RefreshSteps == {"check", "measure", "resolve", "record", "read", "send", "admit"}

TypeOK ==
    /\ disk \in 0..MaxDisk \union {Missing}
    /\ usage \in 0..MaxDisk \union {NoUsage}
    /\ lastScan \in {"none", "fresh", "old"}
    /\ reservations \subseteq Ids
    /\ reserved \in Nat
    /\ nextId \in Ids
    /\ exceeded \in BOOLEAN
    /\ monitorRunning \in BOOLEAN
    /\ signal \in BOOLEAN
    /\ gate \in Actors \union {NoActor}
    /\ pc \in [Actors -> {"idle", "gate", "active", "off"} \union RefreshSteps]
    /\ force \in BOOLEAN
    /\ found \in 0..MaxDisk \union {Missing, Failed}
    /\ toSend \in BOOLEAN
    /\ idOf \in [Writers -> Ids]

Init ==
    /\ disk = Missing
    /\ usage = NoUsage
    /\ lastScan = "none"
    /\ reservations = {}
    /\ reserved = 0
    /\ nextId = 0
    /\ exceeded = FALSE
    /\ monitorRunning = FALSE
    /\ signal = FALSE
    /\ gate = NoActor
    /\ pc = [a \in Actors |-> IF a = Monitor THEN "off" ELSE "idle"]
    /\ force = FALSE
    /\ found = 0
    /\ toSend = FALSE
    /\ idOf = [w \in Writers |-> 0]

-----------------------------------------------------------------------------
Goto(a, label) == pc' = [pc EXCEPT ![a] = label]

(* Actor a drops the guard of the gate.                                    *)
LeaveGate(a, label) == gate' = NoActor /\ Goto(a, label)

(* reserve, snapshot, refresh_snapshot or a pass of the monitor begins.    *)
AskGate(a) ==
    /\ a # Monitor
    /\ pc[a] = "idle"
    /\ Goto(a, "gate")
    /\ UNCHANGED <<disk, store, signal, gate, refresh, idOf>>

(* Only the monitor and refresh_snapshot force a scan.                     *)
TakeGate(a) ==
    /\ pc[a] = "gate"
    /\ gate = NoActor
    /\ gate' = a
    /\ Goto(a, "check")
    /\ force' \in IF a = Monitor THEN {TRUE} ELSE
                  IF a \in Writers THEN {FALSE} ELSE BOOLEAN
    /\ UNCHANGED <<disk, store, signal, found, toSend, idOf>>

(* refresh_transcode_disk_usage_locked: a cached measurement is used if it *)
(* is young enough.                                                        *)
Cached == ~force /\ usage # NoUsage /\ lastScan = "fresh"

UseCache(a) ==
    /\ pc[a] = "check"
    /\ Cached
    /\ IF a \in Writers THEN Goto(a, "admit") /\ UNCHANGED gate
                        ELSE LeaveGate(a, "idle")
    /\ UNCHANGED <<disk, store, signal, refresh, idOf>>

StartScan(a) ==
    /\ pc[a] = "check"
    /\ ~Cached
    /\ Goto(a, "measure")
    /\ UNCHANGED <<disk, store, signal, gate, refresh, idOf>>

(* The walk over the tree: what it finds is the disk at some moment, or an *)
(* error.                                                                  *)
Measure(a) ==
    /\ pc[a] = "measure"
    /\ found' \in {disk, Failed}
    /\ Goto(a, IF found' = Missing THEN "resolve" ELSE "record")
    /\ UNCHANGED <<disk, store, signal, gate, force, toSend, idOf>>

(* No root: an empty one if nobody writes, a failure otherwise.            *)
Resolve(a) ==
    /\ pc[a] = "resolve"
    /\ found' = IF reservations = {} THEN 0 ELSE Failed
    /\ Goto(a, "record")
    /\ UNCHANGED <<disk, store, signal, gate, force, toSend, idOf>>

(* Mutant: a quick clean-up takes a reported breach back. *)
NotSticky ==
    exceeded' = (found >= Quota)

(* A breach stays reported until every writer has released.                *)
NoteUsage ==
    exceeded' = IF reservations = {} THEN found >= Quota
                                     ELSE exceeded \/ found >= Quota

Record(a) ==
    /\ pc[a] = "record"
    /\ found # Failed
    /\ usage' = found
    /\ lastScan' = "fresh"
    /\ NoteUsage
    /\ Goto(a, "read")
    /\ UNCHANGED <<disk, reservations, reserved, nextId, monitorRunning, signal,
                   gate, refresh, idOf>>

(* Mutant: a failed scan returns its error without signalling. *)
FailSilently(a) ==
    /\ pc[a] = "record"
    /\ found = Failed
    /\ lastScan' = "none"
    /\ exceeded' = (exceeded \/ reservations # {})
    /\ LeaveGate(a, "idle")
    /\ UNCHANGED <<disk, usage, reservations, reserved, nextId, monitorRunning,
                   signal, refresh, idOf>>

(* Losing sight of the disk stops the writers there are.                   *)
RecordFailure(a) ==
    /\ pc[a] = "record"
    /\ found = Failed
    /\ lastScan' = "none"
    /\ exceeded' = (exceeded \/ reservations # {})
    /\ toSend' = exceeded'
    /\ Goto(a, "send")
    /\ UNCHANGED <<disk, usage, reservations, reserved, nextId, monitorRunning,
                   signal, gate, force, found, idOf>>

ReadExceeded(a) ==
    /\ pc[a] = "read"
    /\ toSend' = exceeded
    /\ Goto(a, "send")
    /\ UNCHANGED <<disk, store, signal, gate, force, found, idOf>>

(* The signal goes out without the state lock.  An error ends a reserve.   *)
Send(a) ==
    /\ pc[a] = "send"
    /\ signal' = toSend
    /\ IF a \in Writers /\ found # Failed
       THEN Goto(a, "admit") /\ UNCHANGED gate
       ELSE LeaveGate(a, "idle")
    /\ UNCHANGED <<disk, store, refresh, idOf>>

(* The waiting future is dropped at one of its awaits.                     *)
Cancel(a) ==
    /\ a # Monitor
    /\ pc[a] \in {"gate", "measure"}
    /\ IF gate = a THEN LeaveGate(a, "idle") ELSE Goto(a, "idle") /\ UNCHANGED gate
    /\ UNCHANGED <<disk, store, signal, refresh, idOf>>

-----------------------------------------------------------------------------
Measured == IF usage = NoUsage THEN 0 ELSE usage

Fits == Measured + reserved + Headroom <= Quota

(* Mutant: the counter wraps onto an id that is still in use. *)
WrapBlindly == nextId

(* Ids wrap around; one that is still in use is skipped.                   *)
FreeId == CHOOSE i \in Ids :
    /\ i \notin reservations
    /\ \A j \in Ids : (j - nextId) % IdSpace < (i - nextId) % IdSpace => j \in reservations

(* Mutant: the counter does not wrap. *)
NoWrap(i) == i + 1

IdAfter(i) == (i + 1) % IdSpace

Refuse(w) ==
    /\ w \in Writers
    /\ pc[w] = "admit"
    /\ ~Fits
    /\ LeaveGate(w, "idle")
    /\ UNCHANGED <<disk, store, signal, refresh, idOf>>

(* Mutant: the first writer does not start the monitor. *)
AdmitUnwatched(w) ==
    /\ w \in Writers
    /\ pc[w] = "admit"
    /\ Fits
    /\ idOf' = [idOf EXCEPT ![w] = FreeId]
    /\ reservations' = reservations \union {FreeId}
    /\ reserved' = reserved + Headroom
    /\ nextId' = IdAfter(FreeId)
    /\ monitorRunning' = TRUE
    /\ pc' = [pc EXCEPT ![w] = "active"]
    /\ gate' = NoActor
    /\ UNCHANGED <<disk, usage, lastScan, exceeded, signal, refresh>>

Admit(w) ==
    /\ w \in Writers
    /\ pc[w] = "admit"
    /\ Fits
    /\ idOf' = [idOf EXCEPT ![w] = FreeId]
    /\ reservations' = reservations \union {FreeId}
    /\ reserved' = reserved + Headroom
    /\ nextId' = IdAfter(FreeId)
    /\ monitorRunning' = TRUE
    /\ pc' = [pc EXCEPT ![w] = "active",
                        ![Monitor] = IF monitorRunning THEN @ ELSE "idle"]
    /\ gate' = NoActor
    /\ UNCHANGED <<disk, usage, lastScan, exceeded, signal, refresh>>

(* Drop of TranscodeDiskReservation, in one block of the state lock.       *)
Release(w) ==
    /\ w \in Writers
    /\ pc[w] = "active"
    /\ reservations' = reservations \ {idOf[w]}
    /\ reserved' = Max(reserved - Headroom, 0)
    /\ lastScan' = "none"
    /\ exceeded' = IF reservations' = {} THEN FALSE ELSE exceeded
    /\ signal' = IF reservations' = {} THEN FALSE ELSE signal
    /\ Goto(w, "idle")
    /\ UNCHANGED <<disk, usage, nextId, monitorRunning, gate, refresh, idOf>>

(* wait_until_exceeded returns: the job is stopped and gives its headroom  *)
(* back.                                                                   *)
StopOnQuota(w) == signal /\ Release(w)

(* The monitor wakes up, by its timer or by a release.                     *)
Wake ==
    /\ pc[Monitor] = "idle"
    /\ IF reservations = {}
       THEN monitorRunning' = FALSE /\ Goto(Monitor, "off")
       ELSE UNCHANGED monitorRunning /\ Goto(Monitor, "gate")
    /\ UNCHANGED <<disk, usage, lastScan, reservations, reserved, nextId, exceeded,
                   signal, gate, refresh, idOf>>

-----------------------------------------------------------------------------
(* The world: writers write, files are cleaned up, the root may vanish,    *)
(* and measurements grow old.                                              *)
Occupied == IF disk = Missing THEN 0 ELSE disk

Write(w) ==
    /\ w \in Writers
    /\ pc[w] = "active"
    /\ Occupied < MaxDisk
    /\ disk' = Occupied + 1
    /\ UNCHANGED <<store, signal, gate, pc, refresh, idOf>>

CleanUp ==
    /\ disk # Missing
    /\ disk' \in {Missing} \union {d \in 0..MaxDisk : d < disk}
    /\ UNCHANGED <<store, signal, gate, pc, refresh, idOf>>

Age ==
    /\ lastScan = "fresh"
    /\ lastScan' = "old"
    /\ UNCHANGED <<disk, usage, reservations, reserved, nextId, exceeded,
                   monitorRunning, signal, gate, pc, refresh, idOf>>

RefreshStep(a) ==
    \/ TakeGate(a) \/ UseCache(a) \/ StartScan(a) \/ Measure(a) \/ Resolve(a)
    \/ Record(a) \/ RecordFailure(a) \/ ReadExceeded(a) \/ Send(a)

Next ==
    \/ \E a \in Actors : AskGate(a) \/ RefreshStep(a) \/ Cancel(a)
    \/ \E w \in Writers : Admit(w) \/ Refuse(w) \/ Release(w) \/ Write(w)
    \/ Wake \/ CleanUp \/ Age

Spec == Init /\ [][Next]_vars

(* The monitor's timer fires, the gate is first-come first-served, whoever *)
(* has it goes on, and a job that is told to stop stops.                   *)
FairSpec ==
    /\ Spec
    /\ WF_vars(Wake)
    /\ SF_vars(TakeGate(Monitor))
    /\ \A a \in Actors : WF_vars(RefreshStep(a))
    /\ \A w \in Writers : WF_vars(Admit(w) \/ Refuse(w)) /\ WF_vars(StopOnQuota(w))

-----------------------------------------------------------------------------
Active == {w \in Writers : pc[w] = "active"}

(* Headroom is never promised twice: the books agree with the writers that *)
(* are active, whatever the order of admissions, releases and id reuse,    *)
(* and the sum of the promises stays within the quota.                     *)
Accounting ==
    /\ reservations = {idOf[w] : w \in Active}
    /\ \A v, w \in Active : idOf[v] = idOf[w] => v = w
    /\ reserved = Headroom * Cardinality(Active)
    /\ reserved <= Quota

(* There is a monitor whenever there is a writer, and never a second one.  *)
Watched ==
    /\ monitorRunning <=> pc[Monitor] # "off"
    /\ Active # {} => monitorRunning

(* A breach on the books reaches the writers: it is in the signal, or the  *)
(* refresh that found it is about to send it.                              *)
BreachReported ==
    Active # {} /\ exceeded => signal \/ \E a \in Actors : pc[a] \in {"read", "send"}

(* While a writer is active a breach stays on the books, and once it is    *)
(* signalled it stays so, be the disk cleaned up or other writers released *)
(* meanwhile: a slow watcher of the signal cannot miss it.                 *)
StopIsFinal ==
    [][\A w \in Writers :
         pc[w] = "active" /\ pc'[w] = "active" /\ exceeded =>
             exceeded' /\ (signal => signal')]_vars

(* A writer on a full disk is stopped, unless space is freed.              *)
FullDiskStopsWriters ==
    \A w \in Writers :
        pc[w] = "active" /\ Occupied >= Quota ~> pc[w] # "active" \/ Occupied < Quota
=============================================================================
