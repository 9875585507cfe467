----------------------------- MODULE KeyedLocks -----------------------------
(***************************************************************************)
(* WeakKeyedLockRegistry of jellyrin-api: a bounded map from keys to weak  *)
(* references to async mutexes.  It serialises HLS start-up per transcode  *)
(* key and per device, on-demand segment writers per play session,         *)
(* trickplay tile builders per tile and media probes per item.             *)
(*                                                                         *)
(* The registry itself sits behind a mutex, so lock_for is one step.       *)
(* Between that step and the lock.lock().await that follows, and between   *)
(* the drop of the guard and the drop of the Arc, other callers run.       *)
(***************************************************************************)
EXTENDS Naturals, FiniteSets

CONSTANTS
    Callers,        \* tasks that use the registry
    Keys,           \* dedupe keys, devices, sessions, tiles, items
    Locks,          \* allocations of Arc<Mutex<()>> for keyed locks
    Overflow,       \* the registry's own shared lock
    NoKey, NoLock,  \* absent values
    MaxEntries,     \* KEYED_LOCK_REGISTRY_MAX_ENTRIES
    PruneInterval   \* KEYED_LOCK_PRUNE_INTERVAL

ASSUME LocksAssumption ==
    /\ IsFiniteSet(Keys) /\ NoKey \notin Keys
    /\ Overflow \notin Locks /\ NoLock \notin Locks /\ NoLock # Overflow
    /\ MaxEntries \in Nat \ {0}
    /\ PruneInterval \in Nat \ {0}

VARIABLES
    entries,    \* [Keys -> Weak lock or NoLock], the HashMap
    ops,        \* operations_since_prune
    pc,         \* where each caller is between lock_for and the drop of its Arc
    key,        \* the key each caller asked for
    ref         \* the Arc each caller keeps alive

vars == <<entries, ops, pc, key, ref>>

TypeOK ==
    /\ entries \in [Keys -> Locks \union {NoLock}]
    /\ ops \in 0..(PruneInterval - 1)
    /\ pc \in [Callers -> {"idle", "ready", "holding", "released"}]
    /\ key \in [Callers -> Keys \union {NoKey}]
    /\ ref \in [Callers -> Locks \union {Overflow, NoLock}]

Init ==
    /\ entries = [k \in Keys |-> NoLock]
    /\ ops = 0
    /\ pc = [c \in Callers |-> "idle"]
    /\ key = [c \in Callers |-> NoKey]
    /\ ref = [c \in Callers |-> NoLock]

-----------------------------------------------------------------------------
(* A Weak upgrades exactly while some caller still owns the Arc.           *)
Referenced(l) == \E c \in Callers : ref[c] = l

Live(k) == entries[k] # NoLock /\ Referenced(entries[k])

Registered(es) == {k \in Keys : es[k] # NoLock}

(* Mutant: lock_for does not ask whether the overflow lock is in use. *)
IgnoringOverflowBorrowers == FALSE

OverflowBusy == Referenced(Overflow)

(* Mutant: capacity off by one. *)
OneTooMany(es) == Cardinality(Registered(es)) > MaxEntries

Full(es) == Cardinality(Registered(es)) >= MaxEntries

(* Mutant: pruning also drops entries that are in use. *)
RetainNothing(es) == [k \in Keys |-> NoLock]

PruneDead(es) ==
    [k \in Keys |-> IF es[k] # NoLock /\ Referenced(es[k]) THEN es[k] ELSE NoLock]

Removed(k) == [entries EXCEPT ![k] = NoLock]

NeedsPrune(es) == ops + 1 >= PruneInterval \/ Full(es)

(* The map after the removal of k's dead entry and the pruning, if due.    *)
Kept(k) == IF NeedsPrune(Removed(k)) THEN PruneDead(Removed(k)) ELSE Removed(k)

(* Mutant: prune_dead forgets the counter. *)
NeverReset(k) == ops + 1

OpsAfter(k) == IF NeedsPrune(Removed(k)) THEN 0 ELSE ops + 1

Take(c, k, l) ==
    /\ pc' = [pc EXCEPT ![c] = "ready"]
    /\ key' = [key EXCEPT ![c] = k]
    /\ ref' = [ref EXCEPT ![c] = l]

(* Mutant: the lookup ignores the key. *)
ReuseAnyLive(c, k) ==
    /\ pc[c] = "idle"
    /\ Live(k)
    /\ \E j \in Keys : Live(j) /\ Take(c, k, entries[j])
    /\ UNCHANGED <<entries, ops>>

(* lock_for, the entry is alive: every caller gets the same Arc.           *)
Reuse(c, k) ==
    /\ pc[c] = "idle"
    /\ Live(k)
    /\ Take(c, k, entries[k])
    /\ UNCHANGED <<entries, ops>>

(* lock_for, an overflow borrower exists: unregistered keys join it.       *)
JoinOverflow(c, k) ==
    /\ pc[c] = "idle"
    /\ ~Live(k)
    /\ OverflowBusy
    /\ entries' = Removed(k)
    /\ Take(c, k, Overflow)
    /\ UNCHANGED ops

(* lock_for, the map is full of live entries.                              *)
StartOverflow(c, k) ==
    /\ pc[c] = "idle"
    /\ ~Live(k)
    /\ ~OverflowBusy
    /\ Full(Kept(k))
    /\ entries' = Kept(k)
    /\ ops' = OpsAfter(k)
    /\ Take(c, k, Overflow)

(* lock_for, a new lock.  An allocation is reused neither while an Arc nor *)
(* while a Weak of it is left.                                             *)
Register(c, k) ==
    /\ pc[c] = "idle"
    /\ ~Live(k)
    /\ ~OverflowBusy
    /\ ~Full(Kept(k))
    /\ ops' = OpsAfter(k)
    /\ \E l \in Locks :
        /\ ~Referenced(l)
        /\ \A j \in Keys : Kept(k)[j] # l
        /\ entries' = [Kept(k) EXCEPT ![k] = l]
        /\ Take(c, k, l)

Free(l) == \A c \in Callers : ~(ref[c] = l /\ pc[c] = "holding")

(* lock.lock().await returns, or try_lock succeeds.                        *)
Acquire(c) ==
    /\ pc[c] = "ready"
    /\ Free(ref[c])
    /\ pc' = [pc EXCEPT ![c] = "holding"]
    /\ UNCHANGED <<entries, ops, key, ref>>

(* The waiting request is dropped, or try_lock fails.                      *)
Abandon(c) ==
    /\ pc[c] = "ready"
    /\ pc' = [pc EXCEPT ![c] = "released"]
    /\ UNCHANGED <<entries, ops, key, ref>>

(* Mutant: the guard is leaked past the end of its task. *)
GuardOutlivesTask(c) == pc[c] = "holding" /\ UNCHANGED vars

(* The guard goes first, the Arc after it.                                 *)
Unlock(c) ==
    /\ pc[c] = "holding"
    /\ pc' = [pc EXCEPT ![c] = "released"]
    /\ UNCHANGED <<entries, ops, key, ref>>

DropRef(c) ==
    /\ pc[c] = "released"
    /\ pc' = [pc EXCEPT ![c] = "idle"]
    /\ key' = [key EXCEPT ![c] = NoKey]
    /\ ref' = [ref EXCEPT ![c] = NoLock]
    /\ UNCHANGED <<entries, ops>>

LockFor(c, k) ==
    Reuse(c, k) \/ JoinOverflow(c, k) \/ StartOverflow(c, k) \/ Register(c, k)

Next ==
    \E c \in Callers :
        \/ \E k \in Keys : LockFor(c, k)
        \/ Acquire(c) \/ Abandon(c) \/ Unlock(c) \/ DropRef(c)

Spec == Init /\ [][Next]_vars

(* Critical sections end (every one of them is bounded by time-outs), and  *)
(* tokio's mutex is first-come first-served: nobody is overtaken for ever. *)
FairSpec ==
    /\ Spec
    /\ \A c \in Callers :
        SF_vars(Acquire(c)) /\ WF_vars(Unlock(c)) /\ WF_vars(DropRef(c))

-----------------------------------------------------------------------------
(* Callers with the same key hold the same Arc, whatever was pruned,       *)
(* removed or diverted to the overflow lock between their two lock_for     *)
(* calls.                                                                  *)
SameKeySameLock ==
    \A c, d \in Callers :
        key[c] # NoKey /\ key[c] = key[d] => ref[c] = ref[d]

(* At most one task is in the critical section of a key.                   *)
KeyExclusion ==
    \A c, d \in Callers :
        pc[c] = "holding" /\ pc[d] = "holding" /\ key[c] = key[d] => c = d

(* The map never holds more than MaxEntries entries, dead ones included.   *)
RegistryBounded == Cardinality(Registered(entries)) <= MaxEntries

(* Unrelated keys are only ever serialised through the overflow lock.      *)
SharingOnlyInOverflow ==
    \A c, d \in Callers :
        ref[c] = ref[d] /\ ref[c] # NoLock /\ key[c] # key[d] => ref[c] = Overflow

(* A task waiting for a key gets it, or gives up.                          *)
WaiterServed == \A c \in Callers : pc[c] = "ready" ~> pc[c] # "ready"

Mutex == INSTANCE KeyedMutex WITH
    owns <- [c \in Callers |-> IF pc[c] = "holding" THEN key[c] ELSE NoKey]

(* The registry implements one mutex per key.                              *)
ImplementsKeyedMutex == Mutex!Spec
=============================================================================
