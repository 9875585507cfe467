----------------------------- MODULE LiveStreams -----------------------------
(***************************************************************************)
(* The sharing of live TV upstreams in jellyrin-api: one registered handle *)
(* per stream key, a reference count that spawned tasks bring down, a      *)
(* producer task per handle, and the tuner leases that keep the number of  *)
(* upstreams within each tuner host's TunerCount.                          *)
(*                                                                         *)
(* Every critical section of the registry is one action.  Between them a   *)
(* client may go away, a connection may fail, a producer may end and the   *)
(* server may shut down.                                                   *)
(***************************************************************************)
EXTENDS Integers, FiniteSets

CONSTANTS
    Requests,       \* client requests; a request's slot is used again
    Keys,           \* stream keys: the URLs of shared channels
    Hosts,          \* tuner hosts
    HostsOf,        \* the hosts through which each key is asked for
    TunerCount,     \* simultaneous streams of each host, 0 for no limit
    MaxProducers,   \* LIVE_TV_MAX_DISTINCT_PRODUCERS
    MaxGeneration   \* bound: handles ever inserted

ASSUME StreamsAssumption ==
    /\ IsFiniteSet(Requests) /\ IsFiniteSet(Keys)
    /\ Requests \intersect Keys = {}
    /\ HostsOf \in [Keys -> SUBSET Hosts]
    /\ TunerCount \in [Hosts -> Nat]
    /\ MaxProducers \in Nat /\ MaxGeneration \in Nat

VARIABLES
    registry,   \* LIVE_STREAM_REGISTRY: set of handles
    leases,     \* LIVE_TUNER_LEASES: reference count of each lease key
    generation, \* LIVE_STREAM_GENERATION: next generation
    request,    \* what each request holds
    producers,  \* the producer tasks, each with its open upstream
    stopping,   \* RUNTIME_SHUTDOWN_STARTED
    abandoned   \* history: generations whose opener went away

vars == <<registry, leases, generation, request, producers, stopping, abandoned>>

Generations == 1..MaxGeneration

(* Identity of a tuner slot: shared upstreams use their key, an unshared   *)
(* one an identity of its own.                                             *)
LeaseKeys == Hosts \X (Keys \union Requests)

Handle == [key : Keys, generation : Generations, refcount : Nat \ {0}, lease : LeaseKeys]

(* A producer runs until it leaves its loop; lease tells whose tuner its   *)
(* upstream occupies.                                                      *)
Producer == [generation : Generations, lease : LeaseKeys, at : {"running", "leaving"}]

(* A request holds its lease from the first critical section until it is   *)
(* over; a "dropping" one is the task spawned by LiveStreamRefGuard::drop. *)
Idle == [at |-> "idle"]
Sharing == [at : {"connecting", "streaming", "dropping"},
            key : Keys, generation : Generations, lease : LeaseKeys]
Own == [at : {"own"}, lease : LeaseKeys]

TypeOK ==
    /\ registry \subseteq Handle
    /\ leases \in [LeaseKeys -> Nat]
    /\ generation \in 1..(MaxGeneration + 1)
    /\ request \in [Requests -> {Idle} \union Sharing \union Own]
    /\ producers \subseteq Producer
    /\ stopping \in BOOLEAN
    /\ abandoned \subseteq Generations

Init ==
    /\ registry = {}
    /\ leases = [k \in LeaseKeys |-> 0]
    /\ generation = 1
    /\ request = [r \in Requests |-> Idle]
    /\ producers = {}
    /\ stopping = FALSE
    /\ abandoned = {}

-----------------------------------------------------------------------------
Become(r, state) == request' = [request EXCEPT ![r] = state]

Current(g) == {h \in registry : h.generation = g}

Registered(k) == {h \in registry : h.key = k}

Held == {l \in LeaseKeys : leases[l] > 0}

HeldOn(host) == {l \in Held : l[1] = host}

(* The slots that count against the tuners of a host.                      *)
Busy(host) == HeldOn(host)

(* ensure_live_tuner_lease_capacity *)
LeaseFits(k) ==
    \/ k \in Held
    \/ /\ Cardinality(Held) < MaxProducers
       /\ TunerCount[k[1]] = 0 \/ Cardinality(Busy(k[1])) < TunerCount[k[1]]

Acquired(n, k) == [leases EXCEPT ![k] = @ + n]

(* The guards of the handles in hs, and n of key k, are dropped.           *)
Released(n, k, hs) ==
    [l \in LeaseKeys |-> leases[l] - Cardinality({h \in hs : h.lease = l})
                                   - (IF l = k THEN n ELSE 0)]

(* Phase 1 with a handle in the registry: subscribe to its producer.       *)
Join(r, k, host) ==
    /\ request[r] = Idle
    /\ LeaseFits(<<host, k>>)
    /\ \E h \in Registered(k) :
         /\ registry' = (registry \ {h}) \union {[h EXCEPT !.refcount = @ + 1]}
         /\ Become(r, [at |-> "streaming", key |-> k, generation |-> h.generation,
                       lease |-> <<host, k>>])
    /\ leases' = Acquired(1, <<host, k>>)
    /\ UNCHANGED <<generation, producers, stopping, abandoned>>

(* Mutant: the handle is not given a lease of its own. *)
OpenOnOneLease(r, k, host) ==
    /\ request[r] = Idle
    /\ generation <= MaxGeneration
    /\ Registered(k) = {}
    /\ Cardinality(registry) < MaxProducers
    /\ LeaseFits(<<host, k>>)
    /\ registry' = registry \union
         {[key |-> k, generation |-> generation, refcount |-> 1, lease |-> <<host, k>>]}
    /\ leases' = Acquired(1, <<host, k>>)
    /\ generation' = generation + 1
    /\ Become(r, [at |-> "connecting", key |-> k, generation |-> generation,
                  lease |-> <<host, k>>])
    /\ UNCHANGED <<producers, stopping, abandoned>>

(* Phase 1 without one: the handle is inserted before the connection is    *)
(* opened, with a lease of its own beside the consumer's.                  *)
Open(r, k, host) ==
    /\ request[r] = Idle
    /\ generation <= MaxGeneration
    /\ Registered(k) = {}
    /\ Cardinality(registry) < MaxProducers
    /\ LeaseFits(<<host, k>>)
    /\ registry' = registry \union
         {[key |-> k, generation |-> generation, refcount |-> 1, lease |-> <<host, k>>]}
    /\ leases' = Acquired(2, <<host, k>>)
    /\ generation' = generation + 1
    /\ Become(r, [at |-> "connecting", key |-> k, generation |-> generation,
                  lease |-> <<host, k>>])
    /\ UNCHANGED <<producers, stopping, abandoned>>

(* Phase 3: connected, the producer task starts.                           *)
Connected(r) ==
    /\ request[r].at = "connecting"
    /\ producers' = producers \union
         {[generation |-> request[r].generation, lease |-> request[r].lease, at |-> "running"]}
    /\ Become(r, [request[r] EXCEPT !.at = "streaming"])
    /\ UNCHANGED <<registry, leases, generation, stopping, abandoned>>

(* Phase 2 fails: the pre-inserted handle is removed again.                *)
ConnectFailed(r) ==
    LET own == Current(request[r].generation) IN
    /\ request[r].at = "connecting"
    /\ registry' = registry \ own
    /\ leases' = Released(1, request[r].lease, own)
    /\ Become(r, Idle)
    /\ UNCHANGED <<generation, producers, stopping, abandoned>>

(* The client goes away during Phase 2 and the request's future is         *)
(* dropped: its lease goes with it, but there is no LiveStreamRefGuard yet *)
(* to give the reference back.                                             *)
OpenerVanishes(r) ==
    /\ request[r].at = "connecting"
    /\ leases' = Released(1, request[r].lease, {})
    /\ abandoned' = abandoned \union {request[r].generation}
    /\ Become(r, Idle)
    /\ UNCHANGED <<registry, generation, producers, stopping>>

(* A consumer's response ends, because the client leaves or the producer   *)
(* closed the channel: the lease is released at once, the reference by a   *)
(* task that first has to get the registry's lock.                         *)
Leave(r) ==
    /\ request[r].at = "streaming"
    /\ leases' = Released(1, request[r].lease, {})
    /\ Become(r, [request[r] EXCEPT !.at = "dropping"])
    /\ UNCHANGED <<registry, generation, producers, stopping, abandoned>>

(* Mutant: the task looks the handle up by its key alone. *)
HandleByKey(r) == Registered(request[r].key)

(* The handle a guard was issued from, if it is still the current one.     *)
HandleOf(r) == {h \in Registered(request[r].key) : h.generation = request[r].generation}

(* Mutant: the handle stays when its last reference is gone. *)
KeepAtZero(r) ==
    /\ request[r].at = "dropping"
    /\ registry' = (registry \ HandleOf(r)) \union
                   {[h EXCEPT !.refcount = @ - 1] : h \in HandleOf(r)}
    /\ Become(r, Idle)
    /\ UNCHANGED <<leases, generation, producers, stopping, abandoned>>

(* Mutant: the task is never spawned. *)
KeepReference(r) ==
    /\ request[r].at = "dropping"
    /\ Become(r, Idle)
    /\ UNCHANGED <<registry, leases, generation, producers, stopping, abandoned>>

(* The spawned task of LiveStreamRefGuard::drop.  The last reference       *)
(* removes the handle, which cancels the producer and frees the tuner.     *)
DropReference(r) ==
    LET last == {h \in HandleOf(r) : h.refcount = 1} IN
    /\ request[r].at = "dropping"
    /\ registry' = (registry \ HandleOf(r)) \union
                   {[h EXCEPT !.refcount = @ - 1] : h \in HandleOf(r) \ last}
    /\ leases' = Released(0, request[r].lease, last)
    /\ Become(r, Idle)
    /\ UNCHANGED <<generation, producers, stopping, abandoned>>

-----------------------------------------------------------------------------
(* Producer p leaves its loop.                                             *)
Stop(p) ==
    /\ p.at = "running"
    /\ producers' = (producers \ {p}) \union {[p EXCEPT !.at = "leaving"]}
    /\ UNCHANGED <<registry, leases, generation, request, stopping, abandoned>>

(* It sees that its cancel sender is gone with the handle ...              *)
Cancelled(p) == Current(p.generation) = {} /\ Stop(p)

(* ... or the source ends, or a chunk finds no receiver.                   *)
SourceEnds(p) == Stop(p)

(* Mutant: the producer ends without looking at the registry. *)
ExitOnly(p) ==
    /\ p.at = "leaving"
    /\ producers' = producers \ {p}
    /\ UNCHANGED <<registry, leases, generation, request, stopping, abandoned>>

(* It removes its handle if that is still its own, and its upstream is     *)
(* closed with the task.                                                   *)
ProducerExit(p) ==
    /\ p.at = "leaving"
    /\ producers' = producers \ {p}
    /\ registry' = registry \ Current(p.generation)
    /\ leases' = Released(0, p.lease, Current(p.generation))
    /\ UNCHANGED <<generation, request, stopping, abandoned>>

(* A response of an opaque provider, a recording or a live HLS job opens   *)
(* an upstream of its own.  The first has a slot of its own for it, whose  *)
(* identity is the request's; the others take a lease of the channel's.    *)
OpenOwn(r, l) ==
    /\ request[r] = Idle
    /\ LeaseFits(l)
    /\ leases' = Acquired(1, l)
    /\ Become(r, [at |-> "own", lease |-> l])
    /\ UNCHANGED <<registry, generation, producers, stopping, abandoned>>

CloseOwn(r) ==
    /\ request[r].at = "own"
    /\ leases' = Released(1, request[r].lease, {})
    /\ Become(r, Idle)
    /\ UNCHANGED <<registry, generation, producers, stopping, abandoned>>

(* The shutdown begins, and each of its sweeps takes every handle there    *)
(* is.  Requests that are under way go on.                                 *)
Drain ==
    /\ ~stopping \/ registry # {}
    /\ stopping' = TRUE
    /\ registry' = {}
    /\ leases' = [l \in LeaseKeys |->
                    leases[l] - Cardinality({h \in registry : h.lease = l})]
    /\ UNCHANGED <<generation, request, producers, abandoned>>

Next ==
    \/ \E r \in Requests, k \in Keys : \E host \in HostsOf[k] :
         Join(r, k, host) \/ Open(r, k, host) \/ OpenOwn(r, <<host, k>>)
    \/ \E r \in Requests, host \in Hosts : OpenOwn(r, <<host, r>>)
    \/ \E r \in Requests :
         \/ Connected(r) \/ ConnectFailed(r) \/ OpenerVanishes(r)
         \/ Leave(r) \/ DropReference(r) \/ CloseOwn(r)
    \/ \E p \in producers : SourceEnds(p) \/ ProducerExit(p)
    \/ Drain

Spec == Init /\ [][Next]_vars

(* Tasks are scheduled, and the connection attempt has a timeout.          *)
(* Nothing makes a client leave or a source end.                           *)
FairSpec ==
    /\ Spec
    /\ \A r \in Requests : WF_vars(Connected(r) \/ ConnectFailed(r)) /\ WF_vars(DropReference(r))
    /\ \A g \in Generations :
         /\ WF_vars(\E p \in producers : p.generation = g /\ Cancelled(p))
         /\ WF_vars(\E p \in producers : p.generation = g /\ ProducerExit(p))

-----------------------------------------------------------------------------
At(step, g) == {r \in Requests : request[r].at = step /\ request[r].generation = g}

(* The reference count of a handle is the number of those who will give a  *)
(* reference back: its opener, its consumers and the tasks that are on     *)
(* their way, whatever has become of earlier and later handles of the key. *)
(* An opener that went away is never subtracted.                           *)
Refcounts ==
    \A h \in registry :
        LET g == h.generation IN
        h.refcount = Cardinality(At("connecting", g)) + Cardinality(At("streaming", g))
                   + Cardinality(At("dropping", g)) + (IF g \in abandoned THEN 1 ELSE 0)

(* A lease counts exactly the guards that exist, so a tuner slot is        *)
(* neither leaked nor given away under a stream that uses it.              *)
LeasesCounted ==
    \A l \in LeaseKeys :
        leases[l] = Cardinality({h \in registry : h.lease = l})
                  + Cardinality({r \in Requests : request[r].at \in
                        {"connecting", "streaming", "own"} /\ request[r].lease = l})

(* TunerCount bounds the channels each host serves, shared and unshared    *)
(* together, and the global cap bounds all of them; the slots counted are  *)
(* the slots in use.                                                       *)
TunersRespected ==
    /\ LeasesCounted
    /\ Cardinality(Held) <= MaxProducers
    /\ \A host \in Hosts :
         TunerCount[host] # 0 => Cardinality(HeldOn(host)) <= TunerCount[host]

(* One handle per key, and somebody behind it: an opener that is           *)
(* connecting or a producer.  Otherwise its subscribers would wait for     *)
(* ever, for the handle itself keeps the channel open.                     *)
Backed ==
    \A h \in registry :
        /\ Registered(h.key) = {h}
        /\ \/ At("connecting", h.generation) # {}
           \/ \E p \in producers : p.generation = h.generation
           \/ h.generation \in abandoned

(* A handle loses a reference, or its place, only by a step of its own     *)
(* generation (or in the shutdown's sweep): the guards, openers and        *)
(* producers of an earlier handle of the key leave its successor alone.    *)
StaleGuardsAreNoOps ==
    [][\A h \in registry :
         \/ \E i \in registry' : i.generation = h.generation /\ i.refcount >= h.refcount
         \/ \E r \in Requests : /\ request[r] # request'[r]
                               /\ request[r].at \in {"connecting", "streaming", "dropping"}
                               /\ request[r].generation = h.generation
         \/ \E p \in producers \ producers' : p.generation = h.generation
         \/ registry' = {} /\ UNCHANGED <<request, producers>>]_vars

(* A handle nobody uses goes away, and with it its producer and its tuner. *)
UnusedHandleRemoved ==
    \A g \in Generations :
        (Current(g) # {} /\ At("connecting", g) \union At("streaming", g) = {} /\ g \notin abandoned)
          ~> (Current(g) = {} \/ At("streaming", g) # {})

(* "When refcount drops to 0 the producer task is cancelled and the handle *)
(* is removed": a handle is in the registry only for somebody's sake.      *)
NoOrphanedHandle ==
    \A h \in registry : \E r \in Requests :
        request[r].at \in {"connecting", "streaming", "dropping"} /\ request[r].generation = h.generation

=============================================================================
