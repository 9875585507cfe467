--------------------------- MODULE FfmpegAdmission ---------------------------
(***************************************************************************)
(* Admission of FFmpeg and FFprobe processes: TranscodeCoordinator of      *)
(* jellyrin-transcode (one semaphore per kind of job and one for all jobs) *)
(* and the two bounded wait queues in front of it, for jobs                *)
(* (acquire_ffmpeg_capacity_with_queue) and probes                         *)
(* (acquire_probe_with_queue).                                             *)
(*                                                                         *)
(* Each semaphore operation is a step of its own.  tokio's semaphore hands *)
(* a returned permit to a waiter, if there is one, and increments its      *)
(* counter otherwise; the waiter holds the permit from then on, although   *)
(* its task runs later.  The order in which waiters are served is left     *)
(* open here and comes back as a fairness assumption.                      *)
(***************************************************************************)
EXTENDS Integers, FiniteSets

CONSTANTS
    Jobs,       \* requests for a process
    KindOf,     \* [Jobs -> Kinds]
    Limits,     \* configured TranscodeLimits: [Sems -> Nat]
    QueueLimit, \* configured wait-queue sizes: [Queues -> Nat]
    Mode        \* JELLYRIN_FFMPEG_MODE

Kinds == {"VideoEncode", "AudioEncode", "Remux", "Auxiliary", "Probe"}
Total == "total"
Sems == Kinds \union {Total}
Queues == {"jobs", "probes"}

ASSUME AdmissionAssumption ==
    /\ IsFiniteSet(Jobs)
    /\ KindOf \in [Jobs -> Kinds]
    /\ Limits \in [Sems -> Nat]
    /\ QueueLimit \in [Queues -> Nat]
    /\ Mode \in {"Enabled", "RemuxOnly", "Disabled"}

VARIABLES
    avail,      \* permits in each semaphore's counter
    slots,      \* permits left in each wait queue
    held,       \* what each request owns: "lane", "total", "slot"
    pc,         \* where each request is
    retried,    \* the second try after finding the wait queue full
    result,     \* what the request was told
    metrics     \* AdmissionMetrics

vars == <<avail, slots, held, pc, retried, result, metrics>>

Counters == {"immediate", "queued", "rejected", "timed_out"}

TypeOK ==
    /\ avail \in [Sems -> Nat]
    /\ slots \in [Queues -> Nat]
    /\ held \in [Jobs -> SUBSET {"lane", "total", "slot"}]
    /\ pc \in [Jobs -> {"new", "try_lane", "try_total", "undo_try", "try_slot",
                        "lane", "lane_wait", "total", "total_wait", "admitted",
                        "running", "unwind", "done"}]
    /\ retried \in [Jobs -> BOOLEAN]
    /\ result \in [Jobs -> {"none", "blocked", "immediate", "queued", "rejected",
                            "timed_out", "cancelled"}]
    /\ metrics \in [Counters -> Nat]

(* Mutant: a limit of zero is taken as it is configured. *)
AsConfigured(s) == Limits[s]

Cap(s) == IF Limits[s] > 1 THEN Limits[s] ELSE 1

Init ==
    /\ avail = [s \in Sems |-> Cap(s)]
    /\ slots = QueueLimit
    /\ held = [j \in Jobs |-> {}]
    /\ pc = [j \in Jobs |-> "new"]
    /\ retried = [j \in Jobs |-> FALSE]
    /\ result = [j \in Jobs |-> "none"]
    /\ metrics = [m \in Counters |-> 0]

-----------------------------------------------------------------------------
Lane(j) == KindOf[j]

QueueOf(j) == IF KindOf[j] = "Probe" THEN "probes" ELSE "jobs"

Goto(j, label) == pc' = [pc EXCEPT ![j] = label]

Take(s, j, what) ==
    /\ avail' = [avail EXCEPT ![s] = @ - 1]
    /\ held' = [held EXCEPT ![j] = @ \union {what}]

(* The requests in the wait list of semaphore s.                           *)
Waiters(s) ==
    IF s = Total THEN {j \in Jobs : pc[j] = "total_wait"}
                 ELSE {j \in Jobs : pc[j] = "lane_wait" /\ Lane(j) = s}

(* Request j drops a permit of s and moves to label.  A waiter of s        *)
(* receives the permit and is past its await.                              *)
Return(s, j, what, label) ==
    LET heldAfter == [held EXCEPT ![j] = @ \ {what}]
        pcAfter == [pc EXCEPT ![j] = label]
    IN  \/ /\ Waiters(s) = {}
           /\ avail' = [avail EXCEPT ![s] = @ + 1]
           /\ held' = heldAfter
           /\ pc' = pcAfter
        \/ \E w \in Waiters(s) :
           /\ held' = [heldAfter EXCEPT ![w] = @ \union {what}]
           /\ pc' = [pcAfter EXCEPT ![w] = IF s = Total THEN "admitted" ELSE "total"]
           /\ UNCHANGED avail

(* Probes keep no admission metrics.                                       *)
Count(j, m) ==
    metrics' = IF QueueOf(j) = "jobs" THEN [metrics EXCEPT ![m] = @ + 1] ELSE metrics

Answer(j, r) == result' = [result EXCEPT ![j] = r]

-----------------------------------------------------------------------------
(* ffmpeg_job_allowed_for_mode; probes are not subject to it.              *)
Allowed(j) ==
    \/ QueueOf(j) = "probes"
    \/ Mode = "Enabled"
    \/ Mode = "RemuxOnly" /\ KindOf[j] = "Remux"

Block(j) ==
    /\ pc[j] = "new"
    /\ ~Allowed(j)
    /\ Goto(j, "done")
    /\ Answer(j, "blocked")
    /\ UNCHANGED <<avail, slots, held, retried, metrics>>

Begin(j) ==
    /\ pc[j] = "new"
    /\ Allowed(j)
    /\ Goto(j, "try_lane")
    /\ UNCHANGED <<avail, slots, held, retried, result, metrics>>

(* Mutant: the lane is taken without looking at its counter. *)
TryLaneBlindly(j) ==
    /\ pc[j] = "try_lane"
    /\ Take(Lane(j), j, "lane")
    /\ Goto(j, "try_total")
    /\ UNCHANGED <<slots, retried, result, metrics>>

(* try_acquire: no permit of either semaphore is waited for.               *)
TryLane(j) ==
    /\ pc[j] = "try_lane"
    /\ avail[Lane(j)] > 0
    /\ Take(Lane(j), j, "lane")
    /\ Goto(j, "try_total")
    /\ UNCHANGED <<slots, retried, result, metrics>>

(* Mutant: the fast path takes the lane permit only. *)
TryLaneOnly(j) ==
    /\ pc[j] = "try_total"
    /\ Goto(j, "running")
    /\ Answer(j, "immediate")
    /\ Count(j, "immediate")
    /\ UNCHANGED <<avail, slots, held, retried>>

TryTotal(j) ==
    /\ pc[j] = "try_total"
    /\ avail[Total] > 0
    /\ Take(Total, j, "total")
    /\ Goto(j, "running")
    /\ Answer(j, "immediate")
    /\ Count(j, "immediate")
    /\ UNCHANGED <<slots, retried>>

(* A full wait queue is answered with one more try_acquire, then refused.  *)
AfterFailedTry(j) == IF retried[j] THEN "done" ELSE "try_slot"

RefuseIfRetried(j) ==
    IF retried[j] THEN Answer(j, "rejected") /\ Count(j, "rejected")
                  ELSE UNCHANGED <<result, metrics>>

TryLaneFails(j) ==
    /\ pc[j] = "try_lane"
    /\ avail[Lane(j)] = 0
    /\ Goto(j, AfterFailedTry(j))
    /\ RefuseIfRetried(j)
    /\ UNCHANGED <<avail, slots, held, retried>>

TryTotalFails(j) ==
    /\ pc[j] = "try_total"
    /\ avail[Total] = 0
    /\ Goto(j, "undo_try")
    /\ UNCHANGED <<avail, slots, held, retried, result, metrics>>

(* Mutant: the lane permit of a failed try_acquire is forgotten. *)
KeepLane(j) ==
    /\ pc[j] = "undo_try"
    /\ held' = [held EXCEPT ![j] = {}]
    /\ Goto(j, AfterFailedTry(j))
    /\ RefuseIfRetried(j)
    /\ UNCHANGED <<avail, slots, retried>>

UndoTry(j) ==
    /\ pc[j] = "undo_try"
    /\ Return(Lane(j), j, "lane", AfterFailedTry(j))
    /\ RefuseIfRetried(j)
    /\ UNCHANGED <<slots, retried>>

EnterQueue(j) ==
    /\ pc[j] = "try_slot"
    /\ slots[QueueOf(j)] > 0
    /\ slots' = [slots EXCEPT ![QueueOf(j)] = @ - 1]
    /\ held' = [held EXCEPT ![j] = @ \union {"slot"}]
    /\ Goto(j, "lane")
    /\ UNCHANGED <<avail, retried, result, metrics>>

(* Only jobs retry; a probe is refused at once.                            *)
QueueFull(j) ==
    /\ pc[j] = "try_slot"
    /\ slots[QueueOf(j)] = 0
    /\ IF QueueOf(j) = "jobs"
       THEN /\ Goto(j, "try_lane")
            /\ retried' = [retried EXCEPT ![j] = TRUE]
            /\ UNCHANGED result
       ELSE /\ Goto(j, "done")
            /\ Answer(j, "rejected")
            /\ UNCHANGED retried
    /\ UNCHANGED <<avail, slots, held, metrics>>

(* Mutant: acquire joins the wait list without looking at the counter. *)
WaitBlindly(j) ==
    /\ pc[j] = "lane"
    /\ Goto(j, "lane_wait")
    /\ UNCHANGED <<avail, slots, held, retried, result, metrics>>

(* acquire: the lane first, then the aggregate.                            *)
AcquireLane(j) ==
    /\ pc[j] = "lane"
    /\ IF avail[Lane(j)] > 0
       THEN Take(Lane(j), j, "lane") /\ Goto(j, "total")
       ELSE Goto(j, "lane_wait") /\ UNCHANGED <<avail, held>>
    /\ UNCHANGED <<slots, retried, result, metrics>>

AcquireTotal(j) ==
    /\ pc[j] = "total"
    /\ IF avail[Total] > 0
       THEN Take(Total, j, "total") /\ Goto(j, "admitted")
       ELSE Goto(j, "total_wait") /\ UNCHANGED <<avail, held>>
    /\ UNCHANGED <<slots, retried, result, metrics>>

(* The queued request has its permit: it leaves the wait queue.            *)
Admit(j) ==
    /\ pc[j] = "admitted"
    /\ slots' = [slots EXCEPT ![QueueOf(j)] = @ + 1]
    /\ held' = [held EXCEPT ![j] = @ \ {"slot"}]
    /\ Goto(j, "running")
    /\ Answer(j, "queued")
    /\ Count(j, "queued")
    /\ UNCHANGED <<avail, retried>>

(* tokio::time::timeout polls the acquisition before the deadline, so only *)
(* a request that is still in a wait list times out.                       *)
TimeOut(j) ==
    /\ pc[j] \in {"lane_wait", "total_wait"}
    /\ Goto(j, "unwind")
    /\ Answer(j, "timed_out")
    /\ Count(j, "timed_out")
    /\ UNCHANGED <<avail, slots, held, retried>>

(* The request's future is dropped at an await, granted or not.            *)
Cancel(j) ==
    /\ pc[j] \in {"lane_wait", "total", "total_wait", "admitted"}
    /\ Goto(j, "unwind")
    /\ Answer(j, "cancelled")
    /\ UNCHANGED <<avail, slots, held, retried, metrics>>

(* The process has ended or was stopped: TranscodeJobPermit is dropped.    *)
Finish(j) ==
    /\ pc[j] = "running"
    /\ Goto(j, "unwind")
    /\ UNCHANGED <<avail, slots, held, retried, result, metrics>>

(* Drop order: the aggregate permit, the lane permit, the queue slot.      *)
DropTotal(j) ==
    /\ pc[j] = "unwind"
    /\ "total" \in held[j]
    /\ Return(Total, j, "total", "unwind")
    /\ UNCHANGED <<slots, retried, result, metrics>>

DropLane(j) ==
    /\ pc[j] = "unwind"
    /\ "total" \notin held[j]
    /\ "lane" \in held[j]
    /\ Return(Lane(j), j, "lane", "unwind")
    /\ UNCHANGED <<slots, retried, result, metrics>>

DropSlot(j) ==
    /\ pc[j] = "unwind"
    /\ held[j] = {"slot"}
    /\ slots' = [slots EXCEPT ![QueueOf(j)] = @ + 1]
    /\ held' = [held EXCEPT ![j] = {}]
    /\ Goto(j, "done")
    /\ UNCHANGED <<avail, retried, result, metrics>>

Unwound(j) ==
    /\ pc[j] = "unwind"
    /\ held[j] = {}
    /\ Goto(j, "done")
    /\ UNCHANGED <<avail, slots, held, retried, result, metrics>>

Admission(j) ==
    \/ Block(j) \/ Begin(j)
    \/ TryLane(j) \/ TryLaneFails(j) \/ TryTotal(j) \/ TryTotalFails(j) \/ UndoTry(j)
    \/ EnterQueue(j) \/ QueueFull(j)
    \/ AcquireLane(j) \/ AcquireTotal(j) \/ Admit(j)

Release(j) ==
    Finish(j) \/ DropTotal(j) \/ DropLane(j) \/ DropSlot(j) \/ Unwound(j)

(* Every request has been served: nothing is left to do.                   *)
Quiet == (\A j \in Jobs : pc[j] = "done") /\ UNCHANGED vars

Next ==
    \/ \E j \in Jobs : Admission(j) \/ TimeOut(j) \/ Cancel(j) \/ Release(j)
    \/ Quiet

Spec == Init /\ [][Next]_vars

(* A waiter of a semaphore is handed a permit.                             *)
HandedOver(j) ==
    /\ Next
    /\ \/ pc[j] = "lane_wait" /\ pc'[j] = "total"
       \/ pc[j] = "total_wait" /\ pc'[j] = "admitted"

(* Tasks run, processes end (they are stopped at their deadline), and the  *)
(* semaphores serve their waiters in order of arrival.  Nothing is assumed *)
(* of time-outs.                                                           *)
FairSpec ==
    /\ Spec
    /\ \A j \in Jobs :
        WF_vars(Admission(j)) /\ WF_vars(Release(j)) /\ SF_vars(HandedOver(j))

-----------------------------------------------------------------------------
Holders(s) ==
    IF s = Total THEN {j \in Jobs : "total" \in held[j]}
                 ELSE {j \in Jobs : "lane" \in held[j] /\ Lane(j) = s}

(* Permits are neither lost nor made up, whichever of grant, time-out,     *)
(* cancellation and failed try comes first: what is not in the counter is  *)
(* owned by a request.                                                     *)
PermitsConserved == \A s \in Sems : avail[s] + Cardinality(Holders(s)) = Cap(s)

Running == {j \in Jobs : pc[j] = "running"}

(* No more processes run than the limits allow, per kind and in total.     *)
CapsRespected ==
    /\ Cardinality(Running) <= Cap(Total)
    /\ \A k \in Kinds : Cardinality({j \in Running : KindOf[j] = k}) <= Cap(k)

(* A zero limit in the configuration does not shut a lane for good: there  *)
(* is always a permit for a lane nobody uses.                              *)
LanesOpen == \A k \in Kinds : Holders(k) = {} => avail[k] > 0

(* Who waits has reason to: what it waits for is used up.  It waits with a *)
(* place in its bounded queue (the wait lists of the semaphores have no    *)
(* bound), which it leaves to others when it runs.  "Waiting for the lane  *)
(* first also prevents a queued job in a saturated lane from reserving     *)
(* otherwise usable aggregate capacity": the aggregate is held only        *)
(* together with the lane.                                                 *)
NoLostPermit == \A s \in Sems : Waiters(s) # {} => avail[s] = 0
QueuesBounded ==
    \A q \in Queues : Cardinality({j \in Jobs : QueueOf(j) = q /\ "slot" \in held[j]}) <= QueueLimit[q]
WaitersJustified ==
    /\ NoLostPermit
    /\ QueuesBounded
    /\ \A s \in Sems : \A j \in Waiters(s) : "slot" \in held[j]
    /\ \A j \in Running : "slot" \notin held[j]
    /\ \A j \in Jobs : "total" \in held[j] => "lane" \in held[j] /\ pc[j] # "lane_wait"

(* Nobody waits for ever, even if time-outs never fire: permits are taken  *)
(* in one order, so the lanes and the aggregate cannot deadlock.           *)
EveryoneServed == \A j \in Jobs : <>(pc[j] = "done")
=============================================================================
