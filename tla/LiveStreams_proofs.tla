------------------------- MODULE LiveStreams_proofs -------------------------
(***************************************************************************)
(* Proofs about LiveStreams for any number of requests, channels and tuner *)
(* hosts: reference counts and leases count exactly those that hold them,  *)
(* tuners are never oversubscribed, a handle has somebody behind it, and   *)
(* guards of an earlier handle leave its successor alone.                  *)
(***************************************************************************)
EXTENDS LiveStreams, FiniteSetTheorems, TLAPS

-----------------------------------------------------------------------------
(* The strengthening.                                                      *)

Shares == {"connecting", "streaming", "dropping"}
Guarding == {"connecting", "streaming", "own"}
States == {Idle} \union Sharing \union Own

(* A generation is drawn once.                                             *)
Fresh ==
    /\ \A h \in registry : h.generation < generation
    /\ \A r \in Requests : request[r].at \in Shares => request[r].generation < generation
    /\ \A g \in abandoned : g < generation

(* One handle per generation and per key.                                  *)
OneHandle ==
    \A h, i \in registry : h.generation = i.generation \/ h.key = i.key => h = i

(* A guard's key is the key of its handle, whatever became of the handle.  *)
KeysMatch ==
    \A r \in Requests, h \in registry :
        request[r].at \in Shares /\ request[r].generation = h.generation => request[r].key = h.key

(* A handle has one opener, and one that has gone away opens no more.      *)
OneOpener ==
    \A r \in Requests :
        request[r].at = "connecting" =>
            /\ request[r].generation \notin abandoned
            /\ \A s \in Requests :
                 request[s].at = "connecting" /\ request[s].generation = request[r].generation => s = r

(* Somebody is behind every handle.                                        *)
Supported ==
    \A h \in registry :
        \/ \E r \in Requests : request[r].at = "connecting" /\ request[r].generation = h.generation
        \/ \E p \in producers : p.generation = h.generation
        \/ h.generation \in abandoned

(* The bounds on the slots in use, of which there are finitely many.       *)
TunersBound ==
    /\ IsFiniteSet(Held)
    /\ Cardinality(Held) <= MaxProducers
    /\ \A host \in Hosts :
         TunerCount[host] # 0 => Cardinality(HeldOn(host)) <= TunerCount[host]

IInv ==
    /\ TypeOK /\ Fresh /\ OneHandle /\ KeysMatch /\ OneOpener
    /\ Refcounts /\ LeasesCounted /\ TunersBound /\ Supported

(* The counts, as functions.                                               *)
HandleCount == [l \in LeaseKeys |-> Cardinality({h \in registry : h.lease = l})]
GuardCount ==
    [l \in LeaseKeys |-> Cardinality({r \in Requests : request[r].at \in Guarding /\ request[r].lease = l})]
RefCount ==
    [g \in Generations |-> Cardinality(At("connecting", g)) + Cardinality(At("streaming", g))
                         + Cardinality(At("dropping", g))]

(* What a request in state x contributes to them.                          *)
Guards(x, l) == IF x.at \in Guarding /\ x.lease = l THEN 1 ELSE 0
Refs(x, g) == IF x.at \in Shares /\ x.generation = g THEN 1 ELSE 0

(* Handle h gets another reference count and is i from now on.             *)
Replaces(h, i) ==
    /\ h \in registry /\ i \in Handle \ registry
    /\ i.key = h.key /\ i.generation = h.generation /\ i.lease = h.lease
    /\ registry' = (registry \ {h}) \union {i}

(* A consumer joins handle h, which is i from now on, and is in state v.   *)
Joins(r, l, h, i, v) ==
    /\ request[r] = Idle /\ LeaseFits(l) /\ l \in LeaseKeys
    /\ Replaces(h, i) /\ i.refcount = h.refcount + 1
    /\ v \in Sharing /\ v.at = "streaming" /\ v.lease = l
    /\ v.key = h.key /\ v.generation = h.generation
    /\ Become(r, v)
    /\ leases' = Acquired(1, l)
    /\ UNCHANGED <<generation, producers, stopping, abandoned>>

(* An opener inserts handle n and is in state v.                           *)
Opens(r, l, n, v) ==
    /\ request[r] = Idle /\ LeaseFits(l) /\ l \in LeaseKeys
    /\ n \in Handle \ registry /\ Registered(n.key) = {} /\ registry' = registry \union {n}
    /\ n.generation = generation /\ n.refcount = 1 /\ n.lease = l
    /\ v \in Sharing /\ v.at = "connecting" /\ v.lease = l
    /\ v.key = n.key /\ v.generation = generation
    /\ Become(r, v)
    /\ generation' = generation + 1
    /\ leases' = Acquired(2, l)
    /\ UNCHANGED <<producers, stopping, abandoned>>

(* A request with a handle or a guard goes on to state v.                  *)
Moves(r, step, v) ==
    /\ request[r].at = step /\ v \in Sharing /\ v.key = request[r].key
    /\ v.generation = request[r].generation /\ v.lease = request[r].lease
    /\ Become(r, v)

-----------------------------------------------------------------------------
(* Counting.                                                               *)

(* What is left of a finite set when a part of it is removed.              *)
LEMMA CardDifference ==
    ASSUME NEW S, IsFiniteSet(S), NEW T \in SUBSET S
    PROVE  /\ IsFiniteSet(S \ T) /\ IsFiniteSet(T)
           /\ Cardinality(S \ T) = Cardinality(S) - Cardinality(T)
<1>1. IsFiniteSet(S \ T) /\ IsFiniteSet(T)
  BY FS_Subset, S \ T \in SUBSET S
<1>2. (S \ T) \union T = S /\ (S \ T) \intersect T = {}
  OBVIOUS
<1>3. Cardinality((S \ T) \union T)
        = Cardinality(S \ T) + Cardinality(T) - Cardinality((S \ T) \intersect T)
  BY <1>1, FS_Union
<1>4. Cardinality(S \ T) \in Nat /\ Cardinality(T) \in Nat /\ Cardinality({}) = 0
  BY <1>1, FS_CardinalityType, FS_EmptySet
<1> QED
  BY <1>1, <1>2, <1>3, <1>4

(* Sets of requests are finite.                                            *)
LEMMA SubsetsOfRequests ==
    ASSUME NEW T \in SUBSET Requests
    PROVE  IsFiniteSet(T) /\ Cardinality(T) \in Nat
  BY StreamsAssumption, FS_Subset, FS_CardinalityType

(* Guards and references are counted by numbers.                           *)
LEMMA CountsTyped == GuardCount \in [LeaseKeys -> Nat] /\ RefCount \in [Generations -> Nat]
<1>1. ASSUME NEW l \in LeaseKeys
      PROVE  Cardinality({r \in Requests : request[r].at \in Guarding /\ request[r].lease = l}) \in Nat
  BY SubsetsOfRequests
<1>2. ASSUME NEW g \in Generations, NEW step
      PROVE  Cardinality(At(step, g)) \in Nat
  <2>1. At(step, g) \in SUBSET Requests
    BY DEF At
  <2> QED
    BY <2>1, SubsetsOfRequests
<1>3. GuardCount \in [LeaseKeys -> Nat]
  BY <1>1 DEF GuardCount
<1>4. RefCount \in [Generations -> Nat]
  BY <1>2 DEF RefCount
<1> QED
  BY <1>3, <1>4

(* There are as many handles as generations at most.                       *)
LEMMA RegistryFinite ==
    ASSUME registry \subseteq Handle, OneHandle
    PROVE  IsFiniteSet(registry)
<1> DEFINE f == [h \in registry |-> h.generation]
<1>1. f \in Injection(registry, Generations)
  <2>1. f \in [registry -> Generations]
    BY DEF Handle
  <2>2. \A h, i \in registry : f[h] = f[i] => h = i
    BY DEF OneHandle
  <2> HIDE DEF f
  <2> QED
    BY <2>1, <2>2 DEF Injection, IsInjective
<1>2. IsFiniteSet(Generations)
  BY StreamsAssumption, FS_Interval, 1 \in Int, MaxGeneration \in Int DEF Generations
<1> QED
  BY <1>1, <1>2, FS_Injection

(* A request that moves to state v takes its contribution with it.         *)
LEMMA GuardCountMove ==
    ASSUME request \in [Requests -> States], NEW r \in Requests, NEW v, Become(r, v), NEW l \in LeaseKeys
    PROVE  GuardCount'[l] = GuardCount[l] - Guards(request[r], l) + Guards(v, l)
<1>1. PICK S : S = {s \in Requests : request[s].at \in Guarding /\ request[s].lease = l}
  OBVIOUS
<1>2. PICK T : T = {s \in Requests : request'[s].at \in Guarding /\ request'[s].lease = l}
  OBVIOUS
<1>3. GuardCount[l] = Cardinality(S) /\ GuardCount'[l] = Cardinality(T)
  BY <1>1, <1>2 DEF GuardCount
<1>4. request' = [request EXCEPT ![r] = v]
  BY DEF Become
<1>5. T = IF Guards(v, l) = 1 THEN S \union {r} ELSE S \ {r}
  BY <1>1, <1>2, <1>4 DEF Guards
<1>6. r \in S <=> Guards(request[r], l) = 1
  BY <1>1 DEF Guards
<1>7. IsFiniteSet(S) /\ Cardinality(S) \in Nat
  BY <1>1, SubsetsOfRequests
<1>8. Cardinality(T) = Cardinality(S) - Guards(request[r], l) + Guards(v, l)
  <2>1. Guards(v, l) \in {0, 1} /\ Guards(request[r], l) \in {0, 1}
    BY DEF Guards
  <2>2. Cardinality(S \union {r}) = IF r \in S THEN Cardinality(S) ELSE Cardinality(S) + 1
    BY <1>7, FS_AddElement
  <2>3. Cardinality(S \ {r}) = IF r \in S THEN Cardinality(S) - 1 ELSE Cardinality(S)
    BY <1>7, FS_RemoveElement
  <2> HIDE DEF Guards
  <2> QED
    BY <1>5, <1>6, <1>7, <2>1, <2>2, <2>3
<1> QED
  BY <1>3, <1>8

(* The same for one of the steps that hold a reference ...                 *)
LEMMA AtMove ==
    ASSUME request \in [Requests -> States], NEW r \in Requests, NEW v, Become(r, v),
           NEW step, NEW g \in Generations
    PROVE  Cardinality(At(step, g)') = Cardinality(At(step, g))
             - (IF request[r].at = step /\ request[r].generation = g THEN 1 ELSE 0)
             + (IF v.at = step /\ v.generation = g THEN 1 ELSE 0)
<1>1. PICK S : S = At(step, g)
  OBVIOUS
<1>2. PICK T : T = At(step, g)'
  OBVIOUS
<1>3. request' = [request EXCEPT ![r] = v]
  BY DEF Become
<1>4. T = IF v.at = step /\ v.generation = g THEN S \union {r} ELSE S \ {r}
  BY <1>1, <1>2, <1>3 DEF At
<1>5. r \in S <=> request[r].at = step /\ request[r].generation = g
  BY <1>1 DEF At
<1>6. S \in SUBSET Requests
  BY <1>1 DEF At
<1>7. IsFiniteSet(S) /\ Cardinality(S) \in Nat
  BY <1>6, SubsetsOfRequests
<1>8. Cardinality(S \union {r}) = IF r \in S THEN Cardinality(S) ELSE Cardinality(S) + 1
  BY <1>7, FS_AddElement
<1>9. Cardinality(S \ {r}) = IF r \in S THEN Cardinality(S) - 1 ELSE Cardinality(S)
  BY <1>7, FS_RemoveElement
<1>10. Cardinality(T) = Cardinality(S)
             - (IF request[r].at = step /\ request[r].generation = g THEN 1 ELSE 0)
             + (IF v.at = step /\ v.generation = g THEN 1 ELSE 0)
  BY <1>4, <1>5, <1>7, <1>8, <1>9
<1> QED
  BY <1>1, <1>2, <1>10

(* ... and for the three of them together.                                 *)
LEMMA RefCountMove ==
    ASSUME request \in [Requests -> States], NEW r \in Requests, NEW v, Become(r, v),
           NEW g \in Generations
    PROVE  RefCount'[g] = RefCount[g] - Refs(request[r], g) + Refs(v, g)
<1> DEFINE Is(x, step) == IF x.at = step /\ x.generation = g THEN 1 ELSE 0
<1>1. \A step : Cardinality(At(step, g)') = Cardinality(At(step, g)) - Is(request[r], step) + Is(v, step)
  BY AtMove
<1>2. \A step : Cardinality(At(step, g)) \in Nat
  BY SubsetsOfRequests DEF At
<1>3. Refs(request[r], g) =
        Is(request[r], "connecting") + Is(request[r], "streaming") + Is(request[r], "dropping")
  BY DEF Refs, Shares
<1>4. Refs(v, g) = Is(v, "connecting") + Is(v, "streaming") + Is(v, "dropping")
  BY DEF Refs, Shares
<1>5. \A x, step : Is(x, step) \in {0, 1}
  OBVIOUS
<1>6. /\ RefCount[g] = Cardinality(At("connecting", g)) + Cardinality(At("streaming", g))
                     + Cardinality(At("dropping", g))
      /\ RefCount'[g] = Cardinality(At("connecting", g)') + Cardinality(At("streaming", g)')
                     + Cardinality(At("dropping", g)')
  BY DEF RefCount
<1> HIDE DEF Is
<1> QED
  BY <1>1, <1>2, <1>3, <1>4, <1>5, <1>6

(* The handles that count for a lease: one is inserted, ...                *)
LEMMA HandleInserted ==
    ASSUME IsFiniteSet(registry), NEW n, n \notin registry, registry' = registry \union {n},
           NEW l \in LeaseKeys
    PROVE  HandleCount'[l] = HandleCount[l] + (IF n.lease = l THEN 1 ELSE 0)
<1>1. PICK S : S = {h \in registry : h.lease = l}
  OBVIOUS
<1>2. IsFiniteSet(S) /\ Cardinality(S) \in Nat
  BY <1>1, FS_Subset, FS_CardinalityType
<1>3. {h \in registry' : h.lease = l} = IF n.lease = l THEN S \union {n} ELSE S
  BY <1>1
<1>4. Cardinality(S \union {n}) = Cardinality(S) + 1
  BY <1>1, <1>2, FS_AddElement
<1>5. HandleCount[l] = Cardinality(S)
  BY <1>1 DEF HandleCount
<1>6. HandleCount'[l] = Cardinality(IF n.lease = l THEN S \union {n} ELSE S)
  BY <1>3 DEF HandleCount
<1> QED
  BY <1>2, <1>4, <1>5, <1>6

(* ... some are removed, ...                                               *)
LEMMA HandlesRemoved ==
    ASSUME IsFiniteSet(registry), NEW hs \in SUBSET registry, registry' = registry \ hs,
           NEW l \in LeaseKeys
    PROVE  HandleCount'[l] = HandleCount[l] - Cardinality({h \in hs : h.lease = l})
<1>1. PICK S : S = {h \in registry : h.lease = l}
  OBVIOUS
<1>2. PICK T : T = {h \in hs : h.lease = l}
  OBVIOUS
<1>3. T \in SUBSET S /\ S \in SUBSET registry
  BY <1>1, <1>2
<1>4. IsFiniteSet(S)
  BY <1>3, FS_Subset
<1>5. {h \in registry' : h.lease = l} = S \ T
  BY <1>1, <1>2
<1>6. Cardinality(S \ T) = Cardinality(S) - Cardinality(T)
  BY <1>3, <1>4, CardDifference
<1>7. HandleCount[l] = Cardinality(S) /\ HandleCount'[l] = Cardinality(S \ T)
  BY <1>1, <1>5 DEF HandleCount
<1> QED
  BY <1>2, <1>6, <1>7

(* ... or one changes its reference count.                                 *)
LEMMA HandleReplaced ==
    ASSUME IsFiniteSet(registry), NEW h \in registry, NEW i, i \notin registry, i.lease = h.lease,
           registry' = (registry \ {h}) \union {i}, NEW l \in LeaseKeys
    PROVE  HandleCount'[l] = HandleCount[l]
<1>1. PICK S : S = {j \in registry : j.lease = l}
  OBVIOUS
<1>2. S \in SUBSET registry
  BY <1>1
<1>3. IsFiniteSet(S) /\ Cardinality(S) \in Nat
  BY <1>2, FS_Subset, FS_CardinalityType
<1>4. {j \in registry' : j.lease = l} = IF h.lease = l THEN (S \ {h}) \union {i} ELSE S
  BY <1>1
<1>5. Cardinality((S \ {h}) \union {i}) = Cardinality(S) \/ h.lease # l
  <2> SUFFICES ASSUME h.lease = l
               PROVE  Cardinality((S \ {h}) \union {i}) = Cardinality(S)
    OBVIOUS
  <2>1. h \in S /\ i \notin S
    BY <1>1
  <2>2. IsFiniteSet(S \ {h}) /\ Cardinality(S \ {h}) = Cardinality(S) - 1
    BY <1>3, <2>1, FS_RemoveElement
  <2>3. Cardinality((S \ {h}) \union {i}) = Cardinality(S \ {h}) + 1
    BY <2>1, <2>2, FS_AddElement
  <2> QED
    BY <1>3, <2>2, <2>3
<1>6. HandleCount[l] = Cardinality(S)
  BY <1>1 DEF HandleCount
<1>7. HandleCount'[l] = Cardinality(IF h.lease = l THEN (S \ {h}) \union {i} ELSE S)
  BY <1>4 DEF HandleCount
<1> QED
  BY <1>5, <1>6, <1>7

(* Handles count for leases with numbers.                                  *)
LEMMA HandleCountTyped ==
    ASSUME IsFiniteSet(registry)
    PROVE  HandleCount \in [LeaseKeys -> Nat]
<1>1. ASSUME NEW l \in LeaseKeys
      PROVE  Cardinality({h \in registry : h.lease = l}) \in Nat
  BY FS_Subset, FS_CardinalityType
<1> QED
  BY <1>1 DEF HandleCount

-----------------------------------------------------------------------------
(* The bounds on tuners.                                                   *)

(* Releasing leases frees slots.                                           *)
LEMMA SlotsFreed ==
    ASSUME TunersBound, Held' \subseteq Held
    PROVE  TunersBound'
<1>1. /\ IsFiniteSet(Held) /\ Cardinality(Held) <= MaxProducers
      /\ \A host \in Hosts : TunerCount[host] # 0 => Cardinality(HeldOn(host)) <= TunerCount[host]
  BY DEF TunersBound
<1>2. IsFiniteSet(Held') /\ Cardinality(Held') <= Cardinality(Held)
  BY <1>1, FS_Subset
<1>3. Cardinality(Held) \in Nat /\ Cardinality(Held') \in Nat
  BY <1>1, <1>2, FS_CardinalityType
<1>4. ASSUME NEW host \in Hosts, TunerCount[host] # 0
      PROVE  Cardinality(HeldOn(host)') <= TunerCount[host]
  <2>1. PICK S : S = HeldOn(host)
    OBVIOUS
  <2>2. PICK T : T = HeldOn(host)'
    OBVIOUS
  <2>3. T \in SUBSET S /\ S \in SUBSET Held
    BY <2>1, <2>2 DEF HeldOn
  <2>4. IsFiniteSet(S) /\ Cardinality(T) <= Cardinality(S)
    BY <1>1, <2>3, FS_Subset
  <2>5. Cardinality(S) \in Nat /\ Cardinality(T) \in Nat
    BY <2>3, <2>4, FS_Subset, FS_CardinalityType
  <2>6. Cardinality(S) <= TunerCount[host] /\ TunerCount[host] \in Nat
    BY <1>1, <1>4, <2>1, StreamsAssumption
  <2> QED
    BY <2>2, <2>4, <2>5, <2>6
<1>5. Cardinality(Held') <= MaxProducers
  BY <1>1, <1>2, <1>3, StreamsAssumption
<1> QED
  BY <1>2, <1>4, <1>5 DEF TunersBound

(* A lease that fits takes at most one slot more, on its own host, and     *)
(* only below the limits (ensure_live_tuner_lease_capacity).               *)
LEMMA SlotTaken ==
    ASSUME TunersBound, NEW k \in LeaseKeys, LeaseFits(k), Held' = Held \union {k}
    PROVE  TunersBound'
<1>1. CASE k \in Held
  BY <1>1, SlotsFreed
<1>2. CASE k \notin Held
  <2>1. /\ IsFiniteSet(Held)
        /\ \A host \in Hosts : TunerCount[host] # 0 => Cardinality(HeldOn(host)) <= TunerCount[host]
    BY DEF TunersBound
  <2>2. /\ Cardinality(Held) < MaxProducers
        /\ TunerCount[k[1]] = 0 \/ Cardinality(HeldOn(k[1])) < TunerCount[k[1]]
    BY <1>2 DEF LeaseFits, Busy
  <2>3. IsFiniteSet(Held') /\ Cardinality(Held') = Cardinality(Held) + 1
    BY <1>2, <2>1, FS_AddElement
  <2>4. Cardinality(Held') <= MaxProducers
    BY <2>1, <2>2, <2>3, FS_CardinalityType, StreamsAssumption
  <2>5. ASSUME NEW host \in Hosts, TunerCount[host] # 0
        PROVE  Cardinality(HeldOn(host)') <= TunerCount[host]
    <3>1. PICK S : S = HeldOn(host)
      OBVIOUS
    <3>2. PICK T : T = HeldOn(host)'
      OBVIOUS
    <3>3. T = IF k[1] = host THEN S \union {k} ELSE S
      BY <3>1, <3>2 DEF HeldOn
    <3>4. S \in SUBSET Held
      BY <3>1 DEF HeldOn
    <3>5. IsFiniteSet(S) /\ Cardinality(S) \in Nat
      BY <2>1, <3>4, FS_Subset, FS_CardinalityType
    <3>6. Cardinality(S \union {k}) = Cardinality(S) + 1
      BY <1>2, <3>4, <3>5, FS_AddElement
    <3>7. Cardinality(S) <= TunerCount[host] /\ TunerCount[host] \in Nat
      BY <2>1, <2>5, <3>1, StreamsAssumption
    <3>8. k[1] = host => Cardinality(S) < TunerCount[host]
      BY <2>2, <2>5, <3>1
    <3>9. Cardinality(T) <= TunerCount[host]
      BY <3>3, <3>5, <3>6, <3>7, <3>8
    <3> QED
      BY <3>2, <3>9
  <2> QED
    BY <2>3, <2>4, <2>5 DEF TunersBound
<1> QED
  BY <1>1, <1>2

-----------------------------------------------------------------------------
(* What the three steps that change a reference count do.                  *)

(* Handles are replaced by handles that are not registered.                *)
LEMMA Recounted ==
    ASSUME IInv, NEW h \in registry, NEW c \in Nat \ {0}, c # h.refcount
    PROVE  LET i == [h EXCEPT !.refcount = c] IN
           /\ i \in Handle \ registry /\ i.refcount = c
           /\ i.key = h.key /\ i.generation = h.generation /\ i.lease = h.lease
<1>1. h \in Handle
  BY DEF IInv, TypeOK
<1>2. PICK i : i = [h EXCEPT !.refcount = c]
  OBVIOUS
<1>3. /\ i \in Handle /\ i.refcount = c
      /\ i.key = h.key /\ i.generation = h.generation /\ i.lease = h.lease
  BY <1>1, <1>2 DEF Handle
<1>4. i \notin registry
  BY <1>3 DEF IInv, OneHandle
<1> QED
  BY <1>2, <1>3, <1>4

(* A consumer that joins takes a reference to the handle of its key.       *)
LEMMA JoinEffect ==
    ASSUME IInv, NEW r \in Requests, NEW k \in Keys, NEW host \in HostsOf[k], Join(r, k, host)
    PROVE  \E h, i, v : Joins(r, <<host, k>>, h, i, v)
<1>1. PICK h \in registry :
        /\ h.key = k
        /\ registry' = (registry \ {h}) \union {[h EXCEPT !.refcount = @ + 1]}
        /\ Become(r, [at |-> "streaming", key |-> k, generation |-> h.generation, lease |-> <<host, k>>])
  BY DEF Join, Registered
<1>2. h \in Handle /\ h.refcount \in Nat \ {0} /\ h.generation \in Generations
  BY DEF IInv, TypeOK, Handle
<1>3. PICK i : i = [h EXCEPT !.refcount = h.refcount + 1]
  OBVIOUS
<1>4. Replaces(h, i) /\ i.refcount = h.refcount + 1
  <2>1. h.refcount + 1 \in Nat \ {0} /\ h.refcount + 1 # h.refcount
    BY <1>2
  <2>2. /\ i \in Handle \ registry /\ i.refcount = h.refcount + 1
        /\ i.key = h.key /\ i.generation = h.generation /\ i.lease = h.lease
    BY <1>3, <2>1, Recounted
  <2> QED
    BY <1>1, <1>3, <2>2 DEF Replaces
<1>5. PICK v : v = [at |-> "streaming", key |-> k, generation |-> h.generation, lease |-> <<host, k>>]
  OBVIOUS
<1>6. <<host, k>> \in LeaseKeys
  BY StreamsAssumption DEF LeaseKeys
<1>7. v \in Sharing /\ v.at = "streaming" /\ v.key = k /\ v.generation = h.generation /\ v.lease = <<host, k>>
  BY <1>2, <1>5, <1>6 DEF Sharing
<1> QED
  BY <1>1, <1>4, <1>5, <1>6, <1>7 DEF Join, Joins

(* An opener inserts a handle of a generation nobody has used.             *)
LEMMA OpenEffect ==
    ASSUME IInv, NEW r \in Requests, NEW k \in Keys, NEW host \in HostsOf[k], Open(r, k, host)
    PROVE  \E n, v : Opens(r, <<host, k>>, n, v)
<1>1. PICK n : n = [key |-> k, generation |-> generation, refcount |-> 1, lease |-> <<host, k>>]
  OBVIOUS
<1>2. PICK v : v = [at |-> "connecting", key |-> k, generation |-> generation, lease |-> <<host, k>>]
  OBVIOUS
<1>3. <<host, k>> \in LeaseKeys /\ generation \in Generations
  BY StreamsAssumption DEF LeaseKeys, Open, IInv, TypeOK, Generations
<1>4. /\ n \in Handle
      /\ n.key = k /\ n.generation = generation /\ n.refcount = 1 /\ n.lease = <<host, k>>
  BY <1>1, <1>3 DEF Handle
<1>5. v \in Sharing /\ v.at = "connecting" /\ v.key = k /\ v.generation = generation /\ v.lease = <<host, k>>
  BY <1>2, <1>3 DEF Sharing
<1>6. n \notin registry
  BY <1>4 DEF Open, Registered
<1>7. registry' = registry \union {n} /\ Become(r, v)
  BY <1>1, <1>2 DEF Open
<1> QED
  BY <1>3, <1>4, <1>5, <1>6, <1>7 DEF Open, Opens

(* A guard that is dropped finds its handle gone, takes it away as the     *)
(* last one or leaves one reference less.                                  *)
LEMMA DropEffect ==
    ASSUME IInv, NEW r \in Requests, DropReference(r)
    PROVE  \/ /\ Current(request[r].generation) = {}
              /\ registry' = registry /\ leases' = Released(0, request[r].lease, {})
           \/ \E h \in Current(request[r].generation) :
                /\ h.refcount = 1 /\ registry' = registry \ {h}
                /\ leases' = Released(0, request[r].lease, {h})
           \/ \E h \in Current(request[r].generation) : \E i :
                /\ Replaces(h, i) /\ h.refcount = i.refcount + 1
                /\ leases' = Released(0, request[r].lease, {})
<1>1. PICK last : last = {h \in HandleOf(r) : h.refcount = 1}
  OBVIOUS
<1>2. /\ request[r].at = "dropping"
      /\ registry' = (registry \ HandleOf(r)) \union {[h EXCEPT !.refcount = @ - 1] : h \in HandleOf(r) \ last}
      /\ leases' = Released(0, request[r].lease, last)
  BY <1>1 DEF DropReference
<1>3. HandleOf(r) = Current(request[r].generation)
  BY <1>2 DEF HandleOf, Registered, Current, IInv, KeysMatch, Shares
<1>4. CASE HandleOf(r) = {}
  <2>1. last = {}
    BY <1>1, <1>4
  <2>2. registry' = registry /\ leases' = Released(0, request[r].lease, {})
    BY <1>2, <1>4, <2>1
  <2> QED
    BY <1>3, <1>4, <2>2
<1>5. CASE HandleOf(r) # {}
  <2>1. PICK h : h \in HandleOf(r)
    BY <1>5
  <2>2. h \in registry /\ h.generation = request[r].generation
    BY <2>1 DEF HandleOf, Registered
  <2>3. HandleOf(r) = {h}
    BY <2>1, <2>2 DEF HandleOf, Registered, IInv, OneHandle
  <2>4. h.refcount \in Nat \ {0}
    BY <2>2 DEF IInv, TypeOK, Handle
  <2>5. CASE h.refcount = 1
    <3>1. last = {h}
      BY <1>1, <2>3, <2>5
    <3>2. registry' = registry \ {h} /\ leases' = Released(0, request[r].lease, {h})
      BY <1>2, <2>3, <3>1
    <3> QED
      BY <1>3, <2>3, <2>5, <3>2
  <2>6. CASE h.refcount # 1
    <3>1. last = {}
      BY <1>1, <2>3, <2>6
    <3>2. PICK i : i = [h EXCEPT !.refcount = h.refcount - 1]
      OBVIOUS
    <3>3. registry' = (registry \ {h}) \union {i} /\ leases' = Released(0, request[r].lease, {})
      BY <1>2, <2>3, <3>1, <3>2
    <3>4. h.refcount - 1 \in Nat \ {0} /\ h.refcount - 1 # h.refcount
      BY <2>4, <2>6
    <3>5. /\ i \in Handle \ registry /\ i.refcount = h.refcount - 1
          /\ i.key = h.key /\ i.generation = h.generation /\ i.lease = h.lease
      BY <2>2, <3>2, <3>4, Recounted
    <3>6. Replaces(h, i) /\ h.refcount = i.refcount + 1
      BY <2>2, <2>4, <3>3, <3>5 DEF Replaces
    <3> QED
      BY <1>3, <2>3, <3>3, <3>6
  <2> QED
    BY <2>5, <2>6
<1> QED
  BY <1>4, <1>5

(* Connecting and leaving change where a request is, and nothing else      *)
(* about it.                                                               *)
LEMMA MoveEffect ==
    ASSUME request \in [Requests -> States], NEW r \in Requests, Connected(r) \/ Leave(r)
    PROVE  /\ Connected(r) => \E v : Moves(r, "connecting", v) /\ v.at = "streaming"
           /\ Leave(r) => \E v : Moves(r, "streaming", v) /\ v.at = "dropping"
<1>1. request[r] \in Sharing
  BY DEF Connected, Leave, States, Idle, Sharing, Own
<1>2. ASSUME NEW to \in {"streaming", "dropping"}
      PROVE  LET v == [request[r] EXCEPT !.at = to] IN
             /\ v \in Sharing /\ v.at = to /\ v.key = request[r].key
             /\ v.generation = request[r].generation /\ v.lease = request[r].lease
  BY <1>1 DEF Sharing
<1> QED
  BY <1>2 DEF Connected, Leave, Moves

(* Whoever is behind a handle stays there, and no handle is new.           *)
LEMMA SupportKept ==
    ASSUME Supported,
           \A j \in registry' : \E h \in registry : h.generation = j.generation,
           \A s \in Requests : request[s].at = "connecting" => request'[s] = request[s],
           \A p \in producers : \E q \in producers' : q.generation = p.generation,
           abandoned \subseteq abandoned'
    PROVE  Supported'
<1> SUFFICES ASSUME NEW j \in registry'
             PROVE  \/ \E r \in Requests : request'[r].at = "connecting" /\ request'[r].generation = j.generation
                    \/ \E p \in producers' : p.generation = j.generation
                    \/ j.generation \in abandoned'
  BY DEF Supported
<1>1. PICK h \in registry : h.generation = j.generation
  OBVIOUS
<1>2. CASE \E r \in Requests : request[r].at = "connecting" /\ request[r].generation = h.generation
  BY <1>1, <1>2
<1>3. CASE \E p \in producers : p.generation = h.generation
  BY <1>1, <1>3
<1>4. CASE h.generation \in abandoned
  BY <1>1, <1>4
<1> QED
  BY <1>2, <1>3, <1>4 DEF Supported

(* A handle stays only with its opener or its producer: the opener that    *)
(* gives up takes it away, the one that connects leaves a producer behind, *)
(* and a producer that ends removes its own.                               *)
LEMMA SupportedStep ==
    ASSUME IInv, [Next]_vars
    PROVE  Supported'
<1>0. request \in [Requests -> States] /\ Supported
  BY DEF IInv, TypeOK, States
<1>1. ASSUME NEW r \in Requests, NEW k \in Keys, NEW host \in HostsOf[k], Join(r, k, host)
      PROVE  Supported'
  <2>1. PICK h, i, v : Joins(r, <<host, k>>, h, i, v)
    BY <1>1, JoinEffect
  <2>2. \A j \in registry' : \E m \in registry : m.generation = j.generation
    BY <2>1 DEF Joins, Replaces
  <2>3. request[r].at # "connecting" /\ request' = [request EXCEPT ![r] = v]
    BY <2>1 DEF Joins, Idle, Become
  <2>4. UNCHANGED <<producers, abandoned>>
    BY <2>1 DEF Joins
  <2> QED
    BY <1>0, <2>2, <2>3, <2>4, SupportKept
<1>2. ASSUME NEW r \in Requests, NEW k \in Keys, NEW host \in HostsOf[k], Open(r, k, host)
      PROVE  Supported'
  <2>1. PICK n, v : Opens(r, <<host, k>>, n, v)
    BY <1>2, OpenEffect
  <2>2. registry' = registry \union {n} /\ UNCHANGED <<producers, abandoned>>
    BY <2>1 DEF Opens
  <2>3. request[r].at # "connecting" /\ request' = [request EXCEPT ![r] = v]
    BY <2>1 DEF Opens, Idle, Become
  <2>4. v.at = "connecting" /\ v.generation = n.generation
    BY <2>1 DEF Opens
  <2> QED
    BY <1>0, <2>2, <2>3, <2>4 DEF Supported
<1>3. ASSUME NEW r \in Requests, Connected(r)
      PROVE  Supported'
  <2>1. request' = [request EXCEPT ![r] = [request[r] EXCEPT !.at = "streaming"]]
    BY <1>3 DEF Connected, Become
  <2>2. PICK p : p = [generation |-> request[r].generation, lease |-> request[r].lease, at |-> "running"]
    OBVIOUS
  <2>3. p \in producers' /\ p.generation = request[r].generation
    BY <1>3, <2>2 DEF Connected
  <2>4. producers \subseteq producers' /\ UNCHANGED <<registry, abandoned>>
    BY <1>3 DEF Connected
  <2>5. \A s \in Requests \ {r} : request'[s] = request[s]
    BY <1>0, <2>1
  <2> QED
    BY <1>0, <2>3, <2>4, <2>5 DEF Supported
<1>4. ASSUME NEW r \in Requests, ConnectFailed(r)
      PROVE  Supported'
  BY <1>0, <1>4 DEF Supported, ConnectFailed, Become, Current
<1>5. ASSUME NEW r \in Requests, OpenerVanishes(r)
      PROVE  Supported'
  BY <1>0, <1>5 DEF Supported, OpenerVanishes, Become
<1>6. ASSUME NEW r \in Requests, DropReference(r)
      PROVE  Supported'
  <2>1. request[r].at # "connecting" /\ Become(r, Idle) /\ UNCHANGED <<producers, abandoned>>
    BY <1>6 DEF DropReference
  <2>2. \A s \in Requests : request[s].at = "connecting" => request'[s] = request[s]
    BY <1>0, <2>1 DEF Become
  <2>3. \A j \in registry' : \E h \in registry : h.generation = j.generation
    BY <1>6, DropEffect DEF Replaces
  <2> QED
    BY <1>0, <2>1, <2>2, <2>3, SupportKept
<1>7. CASE \/ \E r \in Requests, l \in LeaseKeys : OpenOwn(r, l)
           \/ \E r \in Requests : Leave(r) \/ CloseOwn(r)
  <2>1. \A s \in Requests : request[s].at = "connecting" => request'[s] = request[s]
    BY <1>0, <1>7 DEF OpenOwn, Leave, CloseOwn, Idle, Become
  <2>2. UNCHANGED <<registry, producers, abandoned>>
    BY <1>7 DEF OpenOwn, Leave, CloseOwn
  <2> QED
    BY <1>0, <2>1, <2>2, SupportKept
<1>8. ASSUME NEW p \in producers, SourceEnds(p)
      PROVE  Supported'
  <2>1. PICK q : q = [p EXCEPT !.at = "leaving"]
    OBVIOUS
  <2>2. p \in Producer
    BY DEF IInv, TypeOK
  <2>3. q.generation = p.generation /\ producers' = (producers \ {p}) \union {q}
    BY <1>8, <2>1, <2>2 DEF SourceEnds, Stop, Producer
  <2>4. UNCHANGED <<registry, request, abandoned>>
    BY <1>8 DEF SourceEnds, Stop
  <2> QED
    BY <1>0, <2>3, <2>4, SupportKept
<1>9. ASSUME NEW p \in producers, ProducerExit(p)
      PROVE  Supported'
  BY <1>0, <1>9 DEF Supported, ProducerExit, Current
<1>10. CASE Drain \/ UNCHANGED vars
  BY <1>0, <1>10 DEF Supported, Drain, vars
<1> QED
  BY <1>1, <1>2, <1>3, <1>4, <1>5, <1>6, <1>7, <1>8, <1>9, <1>10, StreamsAssumption DEF Next, LeaseKeys

(* Generations in use are below the next one to be drawn.                  *)
LEMMA FreshStep ==
    ASSUME IInv, [Next]_vars
    PROVE  Fresh'
<1>0. /\ request \in [Requests -> States]
      /\ registry \subseteq Handle
      /\ generation \in Nat
      /\ Fresh
  BY StreamsAssumption DEF IInv, TypeOK, States
<1>1. ASSUME NEW r \in Requests, NEW k \in Keys, NEW host \in HostsOf[k], Join(r, k, host)
      PROVE  Fresh'
  <2>1. PICK h, i, v : Joins(r, <<host, k>>, h, i, v)
    BY <1>1, JoinEffect
  <2> QED
    BY <1>0, <2>1 DEF Fresh, Shares, Joins, Replaces, Become
<1>2. ASSUME NEW r \in Requests, NEW k \in Keys, NEW host \in HostsOf[k], Open(r, k, host)
      PROVE  Fresh'
  <2>1. PICK n, v : Opens(r, <<host, k>>, n, v)
    BY <1>2, OpenEffect
  <2>2. /\ registry' = registry \union {n} /\ n.generation = generation
        /\ request' = [request EXCEPT ![r] = v] /\ v.generation = generation
        /\ generation' = generation + 1 /\ abandoned' = abandoned
    BY <2>1 DEF Opens, Become
  <2>3. \A h \in registry : h.generation \in Nat
    BY <1>0 DEF Handle, Generations
  <2>4. \A s \in Requests : request[s].at \in Shares => request[s].generation \in Nat
    BY <1>0 DEF States, Idle, Sharing, Own, Shares, Generations
  <2>5. abandoned \subseteq Nat
    BY DEF IInv, TypeOK, Generations
  <2>6. generation \in Nat
    BY DEF IInv, TypeOK
  <2>7. \A h \in registry' : h.generation < generation'
    BY <1>0, <2>2, <2>3, <2>6 DEF Fresh
  <2>8. \A s \in Requests : request'[s].at \in Shares => request'[s].generation < generation'
    BY <1>0, <2>2, <2>4, <2>6 DEF Fresh
  <2>9. \A g \in abandoned' : g < generation'
    BY <1>0, <2>2, <2>5, <2>6 DEF Fresh
  <2> QED
    BY <2>7, <2>8, <2>9 DEF Fresh
<1>3. ASSUME NEW r \in Requests, NEW l \in LeaseKeys, OpenOwn(r, l)
      PROVE  Fresh'
  BY <1>0, <1>3 DEF Fresh, Shares, States, Idle, Sharing, Own, OpenOwn,
     Become
<1>4. ASSUME NEW r \in Requests, Connected(r)
      PROVE  Fresh'
  BY <1>0, <1>4 DEF Fresh, Shares, States, Idle, Sharing, Own, Connected,
     Become
<1>5. ASSUME NEW r \in Requests, ConnectFailed(r)
      PROVE  Fresh'
  BY <1>0, <1>5 DEF Fresh, Shares, States, Idle, Sharing, Own,
     ConnectFailed, Become, Current
<1>6. ASSUME NEW r \in Requests, OpenerVanishes(r)
      PROVE  Fresh'
  BY <1>0, <1>6 DEF Fresh, Shares, States, Idle, Sharing, Own,
     OpenerVanishes, Become
<1>7. ASSUME NEW r \in Requests, Leave(r)
      PROVE  Fresh'
  BY <1>0, <1>7 DEF Fresh, Shares, States, Idle, Sharing, Own, Leave, Become
<1>8. ASSUME NEW r \in Requests, DropReference(r)
      PROVE  Fresh'
  <2>0. Become(r, Idle) /\ UNCHANGED <<generation, producers, stopping, abandoned>>
    BY <1>8 DEF DropReference
  <2>1. CASE registry' = registry
    BY <1>0, <1>8, <2>0, <2>1 DEF Fresh, Shares, States, Idle, Sharing, Own,
       Become
  <2>2. ASSUME NEW h \in Current(request[r].generation), registry' = registry \ {h}
        PROVE  Fresh'
    BY <1>0, <1>8, <2>0, <2>2 DEF Fresh, Shares, States, Idle, Sharing, Own,
       Become
  <2>3. ASSUME NEW h, NEW i, Replaces(h, i)
        PROVE  Fresh'
    BY <1>0, <1>8, <2>0, <2>3 DEF Fresh, Shares, States, Idle, Sharing, Own,
       Replaces, Become
  <2> QED
    BY <1>8, <2>1, <2>2, <2>3, DropEffect
<1>9. ASSUME NEW r \in Requests, CloseOwn(r)
      PROVE  Fresh'
  BY <1>0, <1>9 DEF Fresh, Shares, States, Idle, Sharing, Own, CloseOwn,
     Become
<1>10. ASSUME NEW p \in producers, SourceEnds(p)
      PROVE  Fresh'
  BY <1>0, <1>10 DEF Fresh, Shares, States, Idle, Sharing, Own, SourceEnds,
     Stop
<1>11. ASSUME NEW p \in producers, ProducerExit(p)
      PROVE  Fresh'
  BY <1>0, <1>11 DEF Fresh, Shares, States, Idle, Sharing, Own,
     ProducerExit, Current
<1>12. CASE Drain
  BY <1>0, <1>12 DEF Fresh, Shares, States, Idle, Sharing, Own, Drain
<1>13. CASE UNCHANGED vars
  BY <1>0, <1>13 DEF Fresh, Shares, States, Idle, Sharing, Own, vars
<1> QED
  BY <1>1, <1>2, <1>3, <1>4, <1>5, <1>6, <1>7, <1>8, <1>9, <1>10, <1>11,
     <1>12, <1>13, StreamsAssumption DEF Next, LeaseKeys

(* A handle is inserted only when its key has none, with a generation of   *)
(* its own.                                                                *)
LEMMA OneHandleStep ==
    ASSUME IInv, [Next]_vars
    PROVE  OneHandle'
<1>0. /\ registry \subseteq Handle
      /\ generation \in Nat
      /\ Fresh
      /\ OneHandle
  BY StreamsAssumption DEF IInv, TypeOK, States
<1>1. ASSUME NEW r \in Requests, NEW k \in Keys, NEW host \in HostsOf[k], Join(r, k, host)
      PROVE  OneHandle'
  <2>1. PICK h, i, v : Joins(r, <<host, k>>, h, i, v)
    BY <1>1, JoinEffect
  <2> QED
    BY <1>0, <2>1 DEF OneHandle, Fresh, Handle, Joins, Replaces, Become
<1>2. ASSUME NEW r \in Requests, NEW k \in Keys, NEW host \in HostsOf[k], Open(r, k, host)
      PROVE  OneHandle'
  <2>1. PICK n, v : Opens(r, <<host, k>>, n, v)
    BY <1>2, OpenEffect
  <2> QED
    BY <1>0, <2>1 DEF OneHandle, Fresh, Handle, Opens, Registered, Become
<1>3. ASSUME NEW r \in Requests, NEW l \in LeaseKeys, OpenOwn(r, l)
      PROVE  OneHandle'
  BY <1>0, <1>3 DEF OneHandle, Fresh, Handle, OpenOwn, Become
<1>4. ASSUME NEW r \in Requests, Connected(r)
      PROVE  OneHandle'
  BY <1>0, <1>4 DEF OneHandle, Fresh, Handle, Connected, Become
<1>5. ASSUME NEW r \in Requests, ConnectFailed(r)
      PROVE  OneHandle'
  BY <1>0, <1>5 DEF OneHandle, Fresh, Handle, ConnectFailed, Become, Current
<1>6. ASSUME NEW r \in Requests, OpenerVanishes(r)
      PROVE  OneHandle'
  BY <1>0, <1>6 DEF OneHandle, Fresh, Handle, OpenerVanishes, Become
<1>7. ASSUME NEW r \in Requests, Leave(r)
      PROVE  OneHandle'
  BY <1>0, <1>7 DEF OneHandle, Fresh, Handle, Leave, Become
<1>8. ASSUME NEW r \in Requests, DropReference(r)
      PROVE  OneHandle'
  <2>0. Become(r, Idle) /\ UNCHANGED <<generation, producers, stopping, abandoned>>
    BY <1>8 DEF DropReference
  <2>1. CASE registry' = registry
    BY <1>0, <1>8, <2>0, <2>1 DEF OneHandle, Fresh, Handle, Become
  <2>2. ASSUME NEW h \in Current(request[r].generation), registry' = registry \ {h}
        PROVE  OneHandle'
    BY <1>0, <1>8, <2>0, <2>2 DEF OneHandle, Fresh, Handle, Become
  <2>3. ASSUME NEW h, NEW i, Replaces(h, i)
        PROVE  OneHandle'
    BY <1>0, <1>8, <2>0, <2>3 DEF OneHandle, Fresh, Handle, Replaces, Become
  <2> QED
    BY <1>8, <2>1, <2>2, <2>3, DropEffect
<1>9. ASSUME NEW r \in Requests, CloseOwn(r)
      PROVE  OneHandle'
  BY <1>0, <1>9 DEF OneHandle, Fresh, Handle, CloseOwn, Become
<1>10. ASSUME NEW p \in producers, SourceEnds(p)
      PROVE  OneHandle'
  BY <1>0, <1>10 DEF OneHandle, Fresh, Handle, SourceEnds, Stop
<1>11. ASSUME NEW p \in producers, ProducerExit(p)
      PROVE  OneHandle'
  BY <1>0, <1>11 DEF OneHandle, Fresh, Handle, ProducerExit, Current
<1>12. CASE Drain
  BY <1>0, <1>12 DEF OneHandle, Fresh, Handle, Drain
<1>13. CASE UNCHANGED vars
  BY <1>0, <1>13 DEF OneHandle, Fresh, Handle, vars
<1> QED
  BY <1>1, <1>2, <1>3, <1>4, <1>5, <1>6, <1>7, <1>8, <1>9, <1>10, <1>11,
     <1>12, <1>13, StreamsAssumption DEF Next, LeaseKeys

(* A guard is made from the handle it belongs to.                          *)
LEMMA KeysMatchStep ==
    ASSUME IInv, [Next]_vars
    PROVE  KeysMatch'
<1>0. /\ request \in [Requests -> States]
      /\ registry \subseteq Handle
      /\ generation \in Nat
      /\ Fresh
      /\ OneHandle
      /\ KeysMatch
  BY StreamsAssumption DEF IInv, TypeOK, States
<1>1. ASSUME NEW r \in Requests, NEW k \in Keys, NEW host \in HostsOf[k], Join(r, k, host)
      PROVE  KeysMatch'
  <2>1. PICK h, i, v : Joins(r, <<host, k>>, h, i, v)
    BY <1>1, JoinEffect
  <2>2. /\ registry' = (registry \ {h}) \union {i} /\ h \in registry
        /\ i.key = h.key /\ i.generation = h.generation
        /\ request' = [request EXCEPT ![r] = v]
        /\ v.key = h.key /\ v.generation = h.generation
    BY <2>1 DEF Joins, Replaces, Become
  <2> QED
    BY <1>0, <2>2 DEF KeysMatch, OneHandle
<1>2. ASSUME NEW r \in Requests, NEW k \in Keys, NEW host \in HostsOf[k], Open(r, k, host)
      PROVE  KeysMatch'
  <2>1. PICK n, v : Opens(r, <<host, k>>, n, v)
    BY <1>2, OpenEffect
  <2> QED
    BY <1>0, <2>1 DEF KeysMatch, Fresh, Shares, Opens, Registered, Become
<1>3. ASSUME NEW r \in Requests, NEW l \in LeaseKeys, OpenOwn(r, l)
      PROVE  KeysMatch'
  BY <1>0, <1>3 DEF KeysMatch, Fresh, Shares, States, Idle, Sharing, Own,
     OpenOwn, Become
<1>4. ASSUME NEW r \in Requests, Connected(r)
      PROVE  KeysMatch'
  BY <1>0, <1>4 DEF KeysMatch, Fresh, Shares, States, Idle, Sharing, Own,
     Connected, Become
<1>5. ASSUME NEW r \in Requests, ConnectFailed(r)
      PROVE  KeysMatch'
  BY <1>0, <1>5 DEF KeysMatch, Fresh, Shares, States, Idle, Sharing, Own,
     ConnectFailed, Become, Current
<1>6. ASSUME NEW r \in Requests, OpenerVanishes(r)
      PROVE  KeysMatch'
  BY <1>0, <1>6 DEF KeysMatch, Fresh, Shares, States, Idle, Sharing, Own,
     OpenerVanishes, Become
<1>7. ASSUME NEW r \in Requests, Leave(r)
      PROVE  KeysMatch'
  BY <1>0, <1>7 DEF KeysMatch, Fresh, Shares, States, Idle, Sharing, Own,
     Leave, Become
<1>8. ASSUME NEW r \in Requests, DropReference(r)
      PROVE  KeysMatch'
  <2>0. Become(r, Idle) /\ UNCHANGED <<generation, producers, stopping, abandoned>>
    BY <1>8 DEF DropReference
  <2>1. CASE registry' = registry
    BY <1>0, <1>8, <2>0, <2>1 DEF KeysMatch, Fresh, Shares, States, Idle,
       Sharing, Own, Become
  <2>2. ASSUME NEW h \in Current(request[r].generation), registry' = registry \ {h}
        PROVE  KeysMatch'
    BY <1>0, <1>8, <2>0, <2>2 DEF KeysMatch, Fresh, Shares, States, Idle,
       Sharing, Own, Become
  <2>3. ASSUME NEW h, NEW i, Replaces(h, i)
        PROVE  KeysMatch'
    BY <1>0, <1>8, <2>0, <2>3 DEF KeysMatch, Fresh, Shares, States, Idle,
       Sharing, Own, Replaces, Become
  <2> QED
    BY <1>8, <2>1, <2>2, <2>3, DropEffect
<1>9. ASSUME NEW r \in Requests, CloseOwn(r)
      PROVE  KeysMatch'
  BY <1>0, <1>9 DEF KeysMatch, Fresh, Shares, States, Idle, Sharing, Own,
     CloseOwn, Become
<1>10. ASSUME NEW p \in producers, SourceEnds(p)
      PROVE  KeysMatch'
  BY <1>0, <1>10 DEF KeysMatch, Fresh, Shares, States, Idle, Sharing, Own,
     SourceEnds, Stop
<1>11. ASSUME NEW p \in producers, ProducerExit(p)
      PROVE  KeysMatch'
  BY <1>0, <1>11 DEF KeysMatch, Fresh, Shares, States, Idle, Sharing, Own,
     ProducerExit, Current
<1>12. CASE Drain
  BY <1>0, <1>12 DEF KeysMatch, Fresh, Shares, States, Idle, Sharing, Own,
     Drain
<1>13. CASE UNCHANGED vars
  BY <1>0, <1>13 DEF KeysMatch, Fresh, Shares, States, Idle, Sharing, Own,
     vars
<1> QED
  BY <1>1, <1>2, <1>3, <1>4, <1>5, <1>6, <1>7, <1>8, <1>9, <1>10, <1>11,
     <1>12, <1>13, StreamsAssumption DEF Next, LeaseKeys

(* A new generation has its opener, and no other.                          *)
LEMMA OneOpenerStep ==
    ASSUME IInv, [Next]_vars
    PROVE  OneOpener'
<1>0. /\ request \in [Requests -> States]
      /\ generation \in Nat
      /\ Fresh
      /\ OneOpener
  BY StreamsAssumption DEF IInv, TypeOK, States
<1>1. ASSUME NEW r \in Requests, NEW k \in Keys, NEW host \in HostsOf[k], Join(r, k, host)
      PROVE  OneOpener'
  <2>1. PICK h, i, v : Joins(r, <<host, k>>, h, i, v)
    BY <1>1, JoinEffect
  <2> QED
    BY <1>0, <2>1 DEF OneOpener, Fresh, Shares, Joins, Replaces, Become
<1>2. ASSUME NEW r \in Requests, NEW k \in Keys, NEW host \in HostsOf[k], Open(r, k, host)
      PROVE  OneOpener'
  <2>1. PICK n, v : Opens(r, <<host, k>>, n, v)
    BY <1>2, OpenEffect
  <2> QED
    BY <1>0, <2>1 DEF OneOpener, Fresh, Shares, Opens, Registered, Become
<1>3. ASSUME NEW r \in Requests, NEW l \in LeaseKeys, OpenOwn(r, l)
      PROVE  OneOpener'
  BY <1>0, <1>3 DEF OneOpener, Fresh, Shares, States, Idle, Sharing, Own,
     OpenOwn, Become
<1>4. ASSUME NEW r \in Requests, Connected(r)
      PROVE  OneOpener'
  BY <1>0, <1>4 DEF OneOpener, Fresh, Shares, States, Idle, Sharing, Own,
     Connected, Become
<1>5. ASSUME NEW r \in Requests, ConnectFailed(r)
      PROVE  OneOpener'
  BY <1>0, <1>5 DEF OneOpener, Fresh, Shares, States, Idle, Sharing, Own,
     ConnectFailed, Become, Current
<1>6. ASSUME NEW r \in Requests, OpenerVanishes(r)
      PROVE  OneOpener'
  BY <1>0, <1>6 DEF OneOpener, Fresh, Shares, States, Idle, Sharing, Own,
     OpenerVanishes, Become
<1>7. ASSUME NEW r \in Requests, Leave(r)
      PROVE  OneOpener'
  BY <1>0, <1>7 DEF OneOpener, Fresh, Shares, States, Idle, Sharing, Own,
     Leave, Become
<1>8. ASSUME NEW r \in Requests, DropReference(r)
      PROVE  OneOpener'
  <2>0. Become(r, Idle) /\ UNCHANGED <<generation, producers, stopping, abandoned>>
    BY <1>8 DEF DropReference
  <2>1. CASE registry' = registry
    BY <1>0, <1>8, <2>0, <2>1 DEF OneOpener, Fresh, Shares, States, Idle,
       Sharing, Own, Become
  <2>2. ASSUME NEW h \in Current(request[r].generation), registry' = registry \ {h}
        PROVE  OneOpener'
    BY <1>0, <1>8, <2>0, <2>2 DEF OneOpener, Fresh, Shares, States, Idle,
       Sharing, Own, Become
  <2>3. ASSUME NEW h, NEW i, Replaces(h, i)
        PROVE  OneOpener'
    BY <1>0, <1>8, <2>0, <2>3 DEF OneOpener, Fresh, Shares, States, Idle,
       Sharing, Own, Replaces, Become
  <2> QED
    BY <1>8, <2>1, <2>2, <2>3, DropEffect
<1>9. ASSUME NEW r \in Requests, CloseOwn(r)
      PROVE  OneOpener'
  BY <1>0, <1>9 DEF OneOpener, Fresh, Shares, States, Idle, Sharing, Own,
     CloseOwn, Become
<1>10. ASSUME NEW p \in producers, SourceEnds(p)
      PROVE  OneOpener'
  BY <1>0, <1>10 DEF OneOpener, Fresh, Shares, States, Idle, Sharing, Own,
     SourceEnds, Stop
<1>11. ASSUME NEW p \in producers, ProducerExit(p)
      PROVE  OneOpener'
  BY <1>0, <1>11 DEF OneOpener, Fresh, Shares, States, Idle, Sharing, Own,
     ProducerExit, Current
<1>12. CASE Drain
  BY <1>0, <1>12 DEF OneOpener, Fresh, Shares, States, Idle, Sharing, Own,
     Drain
<1>13. CASE UNCHANGED vars
  BY <1>0, <1>13 DEF OneOpener, Fresh, Shares, States, Idle, Sharing, Own,
     vars
<1> QED
  BY <1>1, <1>2, <1>3, <1>4, <1>5, <1>6, <1>7, <1>8, <1>9, <1>10, <1>11,
     <1>12, <1>13, StreamsAssumption DEF Next, LeaseKeys

(* A request goes from one of its states to another.                       *)
LEMMA RequestTypedStep ==
    ASSUME IInv, [Next]_vars
    PROVE  request' \in [Requests -> States]
<1>0. /\ request \in [Requests -> States]
  BY StreamsAssumption DEF IInv, TypeOK, States
<1>1. ASSUME NEW r \in Requests, NEW k \in Keys, NEW host \in HostsOf[k], Join(r, k, host)
      PROVE  request' \in [Requests -> States]
  <2>1. PICK h, i, v : Joins(r, <<host, k>>, h, i, v)
    BY <1>1, JoinEffect
  <2> QED
    BY <1>0, <2>1 DEF States, Idle, Own, Joins, Replaces, Become
<1>2. ASSUME NEW r \in Requests, NEW k \in Keys, NEW host \in HostsOf[k], Open(r, k, host)
      PROVE  request' \in [Requests -> States]
  <2>1. PICK n, v : Opens(r, <<host, k>>, n, v)
    BY <1>2, OpenEffect
  <2> QED
    BY <1>0, <2>1 DEF States, Idle, Own, Opens, Registered, Become
<1>3. ASSUME NEW r \in Requests, NEW l \in LeaseKeys, OpenOwn(r, l)
      PROVE  request' \in [Requests -> States]
  BY <1>0, <1>3 DEF States, Idle, Own, OpenOwn, Become
<1>4. ASSUME NEW r \in Requests, Connected(r)
      PROVE  request' \in [Requests -> States]
  <2>1. PICK v : Moves(r, "connecting", v) /\ v.at = "streaming"
    BY <1>0, <1>4, MoveEffect
  <2> QED
    BY <1>0, <1>4, <2>1 DEF States, Idle, Own, Moves, Connected, Become
<1>5. ASSUME NEW r \in Requests, ConnectFailed(r)
      PROVE  request' \in [Requests -> States]
  BY <1>0, <1>5 DEF States, Idle, Own, ConnectFailed, Become, Current
<1>6. ASSUME NEW r \in Requests, OpenerVanishes(r)
      PROVE  request' \in [Requests -> States]
  BY <1>0, <1>6 DEF States, Idle, Own, OpenerVanishes, Become
<1>7. ASSUME NEW r \in Requests, Leave(r)
      PROVE  request' \in [Requests -> States]
  <2>1. PICK v : Moves(r, "streaming", v) /\ v.at = "dropping"
    BY <1>0, <1>7, MoveEffect
  <2> QED
    BY <1>0, <1>7, <2>1 DEF States, Idle, Own, Moves, Leave, Become
<1>8. ASSUME NEW r \in Requests, DropReference(r)
      PROVE  request' \in [Requests -> States]
  <2>0. Become(r, Idle) /\ UNCHANGED <<generation, producers, stopping, abandoned>>
    BY <1>8 DEF DropReference
  <2>1. CASE registry' = registry
    BY <1>0, <1>8, <2>0, <2>1 DEF States, Idle, Own, Become
  <2>2. ASSUME NEW h \in Current(request[r].generation), registry' = registry \ {h}
        PROVE  request' \in [Requests -> States]
    BY <1>0, <1>8, <2>0, <2>2 DEF States, Idle, Own, Become
  <2>3. ASSUME NEW h, NEW i, Replaces(h, i)
        PROVE  request' \in [Requests -> States]
    BY <1>0, <1>8, <2>0, <2>3 DEF States, Idle, Own, Replaces, Become
  <2> QED
    BY <1>8, <2>1, <2>2, <2>3, DropEffect
<1>9. ASSUME NEW r \in Requests, CloseOwn(r)
      PROVE  request' \in [Requests -> States]
  BY <1>0, <1>9 DEF States, Idle, Own, CloseOwn, Become
<1>10. ASSUME NEW p \in producers, SourceEnds(p)
      PROVE  request' \in [Requests -> States]
  BY <1>0, <1>10 DEF States, Idle, Own, SourceEnds, Stop
<1>11. ASSUME NEW p \in producers, ProducerExit(p)
      PROVE  request' \in [Requests -> States]
  BY <1>0, <1>11 DEF States, Idle, Own, ProducerExit, Current
<1>12. CASE Drain
  BY <1>0, <1>12 DEF States, Idle, Own, Drain
<1>13. CASE UNCHANGED vars
  BY <1>0, <1>13 DEF States, Idle, Own, vars
<1> QED
  BY <1>1, <1>2, <1>3, <1>4, <1>5, <1>6, <1>7, <1>8, <1>9, <1>10, <1>11,
     <1>12, <1>13, StreamsAssumption DEF Next, LeaseKeys

(* Handles are replaced by handles.                                        *)
LEMMA RegistryTypedStep ==
    ASSUME IInv, [Next]_vars
    PROVE  registry' \subseteq Handle
<1>0. /\ registry \subseteq Handle
  BY StreamsAssumption DEF IInv, TypeOK, States
<1>1. ASSUME NEW r \in Requests, NEW k \in Keys, NEW host \in HostsOf[k], Join(r, k, host)
      PROVE  registry' \subseteq Handle
  <2>1. PICK h, i, v : Joins(r, <<host, k>>, h, i, v)
    BY <1>1, JoinEffect
  <2> QED
    BY <1>0, <2>1 DEF Become, Joins, Replaces
<1>2. ASSUME NEW r \in Requests, NEW k \in Keys, NEW host \in HostsOf[k], Open(r, k, host)
      PROVE  registry' \subseteq Handle
  <2>1. PICK n, v : Opens(r, <<host, k>>, n, v)
    BY <1>2, OpenEffect
  <2> QED
    BY <1>0, <2>1 DEF Become, Opens, Registered
<1>3. ASSUME NEW r \in Requests, NEW l \in LeaseKeys, OpenOwn(r, l)
      PROVE  registry' \subseteq Handle
  BY <1>0, <1>3 DEF Become, OpenOwn
<1>4. ASSUME NEW r \in Requests, Connected(r)
      PROVE  registry' \subseteq Handle
  BY <1>0, <1>4 DEF Become, Connected
<1>5. ASSUME NEW r \in Requests, ConnectFailed(r)
      PROVE  registry' \subseteq Handle
  BY <1>0, <1>5 DEF Become, ConnectFailed, Current
<1>6. ASSUME NEW r \in Requests, OpenerVanishes(r)
      PROVE  registry' \subseteq Handle
  BY <1>0, <1>6 DEF Become, OpenerVanishes
<1>7. ASSUME NEW r \in Requests, Leave(r)
      PROVE  registry' \subseteq Handle
  BY <1>0, <1>7 DEF Become, Leave
<1>8. ASSUME NEW r \in Requests, DropReference(r)
      PROVE  registry' \subseteq Handle
  <2>0. Become(r, Idle) /\ UNCHANGED <<generation, producers, stopping, abandoned>>
    BY <1>8 DEF DropReference
  <2>1. CASE registry' = registry
    BY <1>0, <1>8, <2>0, <2>1 DEF Become
  <2>2. ASSUME NEW h \in Current(request[r].generation), registry' = registry \ {h}
        PROVE  registry' \subseteq Handle
    BY <1>0, <1>8, <2>0, <2>2 DEF Become
  <2>3. ASSUME NEW h, NEW i, Replaces(h, i)
        PROVE  registry' \subseteq Handle
    BY <1>0, <1>8, <2>0, <2>3 DEF Become, Replaces
  <2> QED
    BY <1>8, <2>1, <2>2, <2>3, DropEffect
<1>9. ASSUME NEW r \in Requests, CloseOwn(r)
      PROVE  registry' \subseteq Handle
  BY <1>0, <1>9 DEF Become, CloseOwn
<1>10. ASSUME NEW p \in producers, SourceEnds(p)
      PROVE  registry' \subseteq Handle
  BY <1>0, <1>10 DEF Become, SourceEnds, Stop
<1>11. ASSUME NEW p \in producers, ProducerExit(p)
      PROVE  registry' \subseteq Handle
  BY <1>0, <1>11 DEF Become, ProducerExit, Current
<1>12. CASE Drain
  BY <1>0, <1>12 DEF Become, Drain
<1>13. CASE UNCHANGED vars
  BY <1>0, <1>13 DEF Become, vars
<1> QED
  BY <1>1, <1>2, <1>3, <1>4, <1>5, <1>6, <1>7, <1>8, <1>9, <1>10, <1>11,
     <1>12, <1>13, StreamsAssumption DEF Next, LeaseKeys

(* The other components have their types.                                  *)
LEMMA OthersTypedStep ==
    ASSUME IInv, [Next]_vars
    PROVE  /\ generation' \in 1..(MaxGeneration + 1) /\ abandoned' \subseteq Generations
           /\ producers' \subseteq Producer /\ stopping' \in BOOLEAN
<1>0. /\ TypeOK
      /\ request \in [Requests -> States]
  BY StreamsAssumption DEF IInv, TypeOK, States
<1>1. ASSUME NEW r \in Requests, NEW k \in Keys, NEW host \in HostsOf[k], Join(r, k, host)
      PROVE  /\ generation' \in 1..(MaxGeneration + 1) /\ abandoned' \subseteq Generations
           /\ producers' \subseteq Producer /\ stopping' \in BOOLEAN
  <2>1. PICK h, i, v : Joins(r, <<host, k>>, h, i, v)
    BY <1>1, JoinEffect
  <2> QED
    BY <1>0, <2>1, StreamsAssumption DEF TypeOK, Joins, Replaces, Become
<1>2. ASSUME NEW r \in Requests, NEW k \in Keys, NEW host \in HostsOf[k], Open(r, k, host)
      PROVE  /\ generation' \in 1..(MaxGeneration + 1) /\ abandoned' \subseteq Generations
           /\ producers' \subseteq Producer /\ stopping' \in BOOLEAN
  BY <1>0, <1>2, StreamsAssumption DEF TypeOK, Open
<1>3. ASSUME NEW r \in Requests, NEW l \in LeaseKeys, OpenOwn(r, l)
      PROVE  /\ generation' \in 1..(MaxGeneration + 1) /\ abandoned' \subseteq Generations
           /\ producers' \subseteq Producer /\ stopping' \in BOOLEAN
  BY <1>0, <1>3, StreamsAssumption DEF TypeOK, OpenOwn, Become
<1>4. ASSUME NEW r \in Requests, Connected(r)
      PROVE  /\ generation' \in 1..(MaxGeneration + 1) /\ abandoned' \subseteq Generations
           /\ producers' \subseteq Producer /\ stopping' \in BOOLEAN
  BY <1>0, <1>4, StreamsAssumption DEF TypeOK, Connected, Become, States,
     Idle, Sharing, Own, Producer
<1>5. ASSUME NEW r \in Requests, ConnectFailed(r)
      PROVE  /\ generation' \in 1..(MaxGeneration + 1) /\ abandoned' \subseteq Generations
           /\ producers' \subseteq Producer /\ stopping' \in BOOLEAN
  BY <1>0, <1>5, StreamsAssumption DEF TypeOK, ConnectFailed, Become,
     Current
<1>6. ASSUME NEW r \in Requests, OpenerVanishes(r)
      PROVE  /\ generation' \in 1..(MaxGeneration + 1) /\ abandoned' \subseteq Generations
           /\ producers' \subseteq Producer /\ stopping' \in BOOLEAN
  BY <1>0, <1>6, StreamsAssumption DEF TypeOK, OpenerVanishes, Become,
     States, Idle, Sharing, Own
<1>7. ASSUME NEW r \in Requests, Leave(r)
      PROVE  /\ generation' \in 1..(MaxGeneration + 1) /\ abandoned' \subseteq Generations
           /\ producers' \subseteq Producer /\ stopping' \in BOOLEAN
  BY <1>0, <1>7, StreamsAssumption DEF TypeOK, Leave, Become
<1>8. ASSUME NEW r \in Requests, DropReference(r)
      PROVE  /\ generation' \in 1..(MaxGeneration + 1) /\ abandoned' \subseteq Generations
           /\ producers' \subseteq Producer /\ stopping' \in BOOLEAN
  <2>0. Become(r, Idle) /\ UNCHANGED <<generation, producers, stopping, abandoned>>
    BY <1>8 DEF DropReference
  <2>1. CASE registry' = registry
    BY <1>0, <1>8, <2>0, <2>1, StreamsAssumption DEF TypeOK, Become
  <2>2. ASSUME NEW h \in Current(request[r].generation), registry' = registry \ {h}
        PROVE  /\ generation' \in 1..(MaxGeneration + 1) /\ abandoned' \subseteq Generations
           /\ producers' \subseteq Producer /\ stopping' \in BOOLEAN
    BY <1>0, <1>8, <2>0, <2>2, StreamsAssumption DEF TypeOK, Become
  <2>3. ASSUME NEW h, NEW i, Replaces(h, i)
        PROVE  /\ generation' \in 1..(MaxGeneration + 1) /\ abandoned' \subseteq Generations
           /\ producers' \subseteq Producer /\ stopping' \in BOOLEAN
    BY <1>0, <1>8, <2>0, <2>3, StreamsAssumption DEF TypeOK, Replaces,
       Become
  <2> QED
    BY <1>8, <2>1, <2>2, <2>3, DropEffect
<1>9. ASSUME NEW r \in Requests, CloseOwn(r)
      PROVE  /\ generation' \in 1..(MaxGeneration + 1) /\ abandoned' \subseteq Generations
           /\ producers' \subseteq Producer /\ stopping' \in BOOLEAN
  BY <1>0, <1>9, StreamsAssumption DEF TypeOK, CloseOwn, Become
<1>10. ASSUME NEW p \in producers, SourceEnds(p)
      PROVE  /\ generation' \in 1..(MaxGeneration + 1) /\ abandoned' \subseteq Generations
           /\ producers' \subseteq Producer /\ stopping' \in BOOLEAN
  BY <1>0, <1>10, StreamsAssumption DEF TypeOK, SourceEnds, Stop, Producer
<1>11. ASSUME NEW p \in producers, ProducerExit(p)
      PROVE  /\ generation' \in 1..(MaxGeneration + 1) /\ abandoned' \subseteq Generations
           /\ producers' \subseteq Producer /\ stopping' \in BOOLEAN
  BY <1>0, <1>11, StreamsAssumption DEF TypeOK, ProducerExit, Current
<1>12. CASE Drain
  BY <1>0, <1>12, StreamsAssumption DEF TypeOK, Drain
<1>13. CASE UNCHANGED vars
  BY <1>0, <1>13, StreamsAssumption DEF TypeOK, vars
<1> QED
  BY <1>1, <1>2, <1>3, <1>4, <1>5, <1>6, <1>7, <1>8, <1>9, <1>10, <1>11,
     <1>12, <1>13, StreamsAssumption DEF Next, LeaseKeys

-----------------------------------------------------------------------------
(* Reference counts and leases.                                            *)

(* A request that is idle, or has an upstream of its own, holds no         *)
(* reference; an idle one and a dropped guard hold no lease.               *)
LEMMA Contributions ==
    /\ \A g : Refs(Idle, g) = 0 /\ \A l : Guards(Idle, l) = 0
    /\ \A x, g : x.at = "own" => Refs(x, g) = 0
    /\ \A x, l : x.at = "dropping" => Guards(x, l) = 0
  BY DEF Refs, Guards, Idle, Shares, Guarding

(* Refcounts in terms of RefCount.                                         *)
LEMMA RefcountsForm ==
    ASSUME registry \subseteq Handle, Refcounts
    PROVE  \A h \in registry :
             /\ h.generation \in Generations
             /\ h.refcount = RefCount[h.generation] + (IF h.generation \in abandoned THEN 1 ELSE 0)
  BY DEF Refcounts, RefCount, Handle

(* The converse, for the state after a step.                               *)
LEMMA RefcountsFormNext ==
    ASSUME \A h \in registry' :
             /\ h.generation \in Generations
             /\ h.refcount = RefCount'[h.generation] + (IF h.generation \in abandoned' THEN 1 ELSE 0)
    PROVE  Refcounts'
  BY DEF Refcounts, RefCount

(* Nobody refers to a generation that has not been drawn.                  *)
LEMMA UndrawnUnused ==
    ASSUME IInv, generation \in Generations
    PROVE  RefCount[generation] = 0 /\ generation \notin abandoned
<1>1. \A step \in Shares : At(step, generation) = {}
  BY DEF IInv, TypeOK, Fresh, Shares, At, Generations
<1>2. generation \notin abandoned
  BY DEF IInv, TypeOK, Fresh
<1>3. \A step \in Shares : Cardinality(At(step, generation)) = 0
  BY <1>1, FS_EmptySet
<1> QED
  BY <1>2, <1>3 DEF RefCount, Shares

(* Each step changes the reference count of a handle as it changes the     *)
(* number of those that refer to it.                                       *)
LEMMA RefcountsStep ==
    ASSUME IInv, [Next]_vars
    PROVE  Refcounts'
<1>0. /\ request \in [Requests -> States] /\ registry \subseteq Handle
      /\ RefCount \in [Generations -> Nat]
      /\ OneHandle
  BY CountsTyped DEF IInv, TypeOK, States
<1>1. \A h \in registry :
        /\ h.generation \in Generations /\ h.refcount \in Nat \ {0}
        /\ h.refcount = RefCount[h.generation] + (IF h.generation \in abandoned THEN 1 ELSE 0)
  BY <1>0, RefcountsForm DEF IInv, Handle
<1>2. ASSUME NEW r \in Requests, NEW k \in Keys, NEW host \in HostsOf[k], Join(r, k, host)
      PROVE  Refcounts'
  <2>1. PICK h, i, v : Joins(r, <<host, k>>, h, i, v)
    BY <1>2, JoinEffect
  <2>2. /\ h \in registry /\ i.generation = h.generation /\ i.refcount = h.refcount + 1
        /\ registry' = (registry \ {h}) \union {i} /\ abandoned' = abandoned
    BY <2>1 DEF Joins, Replaces
  <2>3. ASSUME NEW g \in Generations
        PROVE  RefCount'[g] = RefCount[g] + (IF g = h.generation THEN 1 ELSE 0)
    <3>1. RefCount'[g] = RefCount[g] - Refs(request[r], g) + Refs(v, g)
      BY <1>0, <2>1, RefCountMove DEF Joins
    <3>2. Refs(request[r], g) = 0
      BY <2>1, Contributions DEF Joins
    <3>3. Refs(v, g) = IF g = h.generation THEN 1 ELSE 0
      BY <2>1 DEF Joins, Refs, Shares
    <3> QED
      BY <1>0, <3>1, <3>2, <3>3
  <2>4. \A j \in registry \ {h} : j.generation # h.generation
    BY <1>0, <2>2 DEF OneHandle
  <2> QED
    BY <1>0, <1>1, <2>2, <2>3, <2>4, RefcountsFormNext
<1>3. ASSUME NEW r \in Requests, NEW k \in Keys, NEW host \in HostsOf[k], Open(r, k, host)
      PROVE  Refcounts'
  <2>1. PICK n, v : Opens(r, <<host, k>>, n, v)
    BY <1>3, OpenEffect
  <2>2. /\ n.generation = generation /\ n.generation \in Generations /\ n.refcount = 1
        /\ registry' = registry \union {n} /\ abandoned' = abandoned
    BY <2>1 DEF Opens, Handle
  <2>3. ASSUME NEW g \in Generations
        PROVE  RefCount'[g] = RefCount[g] + (IF g = generation THEN 1 ELSE 0)
    <3>1. RefCount'[g] = RefCount[g] - Refs(request[r], g) + Refs(v, g)
      BY <1>0, <2>1, RefCountMove DEF Opens
    <3>2. Refs(request[r], g) = 0
      BY <2>1, Contributions DEF Opens
    <3>3. Refs(v, g) = IF g = generation THEN 1 ELSE 0
      BY <2>1 DEF Opens, Refs, Shares
    <3> QED
      BY <1>0, <3>1, <3>2, <3>3
  <2>4. RefCount[generation] = 0 /\ generation \notin abandoned
    BY <2>2, UndrawnUnused
  <2>5. \A j \in registry : j.generation # generation
    BY DEF IInv, TypeOK, Fresh, Handle, Generations
  <2> QED
    BY <1>0, <1>1, <2>2, <2>3, <2>4, <2>5, RefcountsFormNext
<1>4. ASSUME NEW r \in Requests, Connected(r) \/ Leave(r)
      PROVE  Refcounts'
  <2>1. PICK v : /\ Moves(r, "connecting", v) \/ Moves(r, "streaming", v)
                 /\ v.at \in {"streaming", "dropping"}
    BY <1>0, <1>4, MoveEffect
  <2>2. UNCHANGED <<registry, abandoned>>
    BY <1>4 DEF Connected, Leave
  <2>3. ASSUME NEW g \in Generations
        PROVE  RefCount'[g] = RefCount[g]
    <3>1. RefCount'[g] = RefCount[g] - Refs(request[r], g) + Refs(v, g)
      BY <1>0, <2>1, RefCountMove DEF Moves
    <3>2. Refs(request[r], g) = Refs(v, g) /\ Refs(v, g) \in Nat
      BY <2>1 DEF Moves, Refs, Shares
    <3> QED
      BY <1>0, <3>1, <3>2
  <2> QED
    BY <1>1, <2>2, <2>3, RefcountsFormNext
<1>5. ASSUME NEW r \in Requests, ConnectFailed(r)
      PROVE  Refcounts'
  <2>1. /\ request[r].at = "connecting" /\ Become(r, Idle) /\ abandoned' = abandoned
        /\ registry' = registry \ Current(request[r].generation)
    BY <1>5 DEF ConnectFailed
  <2>2. ASSUME NEW g \in Generations, g # request[r].generation
        PROVE  RefCount'[g] = RefCount[g]
    <3>1. RefCount'[g] = RefCount[g] - Refs(request[r], g) + Refs(Idle, g)
      BY <1>0, <2>1, RefCountMove
    <3>2. Refs(request[r], g) = 0 /\ Refs(Idle, g) = 0
      BY <2>2, Contributions DEF Refs
    <3> QED
      BY <1>0, <3>1, <3>2
  <2> QED
    BY <1>1, <2>1, <2>2, RefcountsFormNext DEF Current
<1>6. ASSUME NEW r \in Requests, OpenerVanishes(r)
      PROVE  Refcounts'
  <2>1. /\ request[r].at = "connecting" /\ Become(r, Idle) /\ registry' = registry
        /\ abandoned' = abandoned \union {request[r].generation}
    BY <1>6 DEF OpenerVanishes
  <2>2. ASSUME NEW g \in Generations
        PROVE  RefCount'[g] = RefCount[g] - (IF g = request[r].generation THEN 1 ELSE 0)
    <3>1. RefCount'[g] = RefCount[g] - Refs(request[r], g) + Refs(Idle, g)
      BY <1>0, <2>1, RefCountMove
    <3>2. Refs(request[r], g) = IF g = request[r].generation THEN 1 ELSE 0
      BY <2>1 DEF Refs, Shares
    <3>3. Refs(Idle, g) = 0
      BY Contributions
    <3> QED
      BY <1>0, <3>1, <3>2, <3>3
  <2>3. request[r].generation \notin abandoned
    BY <2>1 DEF IInv, OneOpener
  <2> QED
    BY <1>0, <1>1, <2>1, <2>2, <2>3, RefcountsFormNext
<1>7. ASSUME NEW r \in Requests, DropReference(r)
      PROVE  Refcounts'
  <2>1. request[r].at = "dropping" /\ Become(r, Idle) /\ abandoned' = abandoned
    BY <1>7 DEF DropReference
  <2>2. ASSUME NEW g \in Generations
        PROVE  RefCount'[g] = RefCount[g] - (IF g = request[r].generation THEN 1 ELSE 0)
    <3>1. RefCount'[g] = RefCount[g] - Refs(request[r], g) + Refs(Idle, g)
      BY <1>0, <2>1, RefCountMove
    <3>2. Refs(request[r], g) = IF g = request[r].generation THEN 1 ELSE 0
      BY <2>1 DEF Refs, Shares
    <3>3. Refs(Idle, g) = 0
      BY Contributions
    <3> QED
      BY <1>0, <3>1, <3>2, <3>3
  <2>3. CASE Current(request[r].generation) = {} /\ registry' = registry
    BY <1>0, <1>1, <2>1, <2>2, <2>3, RefcountsFormNext DEF Current
  <2>4. ASSUME NEW h \in Current(request[r].generation), registry' = registry \ {h}
        PROVE  Refcounts'
    <3>1. \A j \in registry' : j \in registry /\ j.generation # request[r].generation
      BY <1>0, <2>4 DEF Current, OneHandle
    <3> QED
      BY <1>0, <1>1, <2>1, <2>2, <3>1, RefcountsFormNext
  <2>5. ASSUME NEW h \in Current(request[r].generation), NEW i, Replaces(h, i), h.refcount = i.refcount + 1
        PROVE  Refcounts'
    <3>1. /\ h \in registry /\ h.generation = request[r].generation /\ i.generation = h.generation
          /\ registry' = (registry \ {h}) \union {i} /\ i.refcount \in Nat
      BY <2>5 DEF Current, Replaces, Handle
    <3>2. \A j \in registry \ {h} : j.generation # h.generation
      BY <1>0, <3>1 DEF OneHandle
    <3> QED
      BY <1>0, <1>1, <2>1, <2>2, <2>5, <3>1, <3>2, RefcountsFormNext
  <2> QED
    BY <1>7, <2>3, <2>4, <2>5, DropEffect
<1>8. ASSUME NEW r \in Requests,
             (\E l \in LeaseKeys : OpenOwn(r, l)) \/ CloseOwn(r)
      PROVE  Refcounts'
  <2>1. PICK v : Become(r, v) /\ (v = Idle \/ v.at = "own") /\ (request[r] = Idle \/ request[r].at = "own")
    BY <1>8 DEF OpenOwn, CloseOwn
  <2>2. UNCHANGED <<registry, abandoned>>
    BY <1>8 DEF OpenOwn, CloseOwn
  <2>3. ASSUME NEW g \in Generations
        PROVE  RefCount'[g] = RefCount[g]
    <3>1. RefCount'[g] = RefCount[g] - Refs(request[r], g) + Refs(v, g)
      BY <1>0, <2>1, RefCountMove
    <3>2. Refs(request[r], g) = 0 /\ Refs(v, g) = 0
      BY <2>1, Contributions
    <3> QED
      BY <1>0, <3>1, <3>2
  <2> QED
    BY <1>1, <2>2, <2>3, RefcountsFormNext
<1>9. CASE (\E p \in producers : SourceEnds(p) \/ ProducerExit(p)) \/ Drain \/ UNCHANGED vars
  <2>1. registry' \subseteq registry /\ UNCHANGED <<request, abandoned>>
    BY <1>9 DEF SourceEnds, Stop, ProducerExit, Drain, vars
  <2>2. RefCount' = RefCount
    BY <2>1 DEF RefCount, At
  <2> QED
    BY <1>1, <2>1, <2>2, RefcountsFormNext
<1> QED
  BY <1>2, <1>3, <1>4, <1>5, <1>6, <1>7, <1>8, <1>9, StreamsAssumption DEF Next, LeaseKeys

(* LeasesCounted in terms of the counts.                                   *)
LEMMA LeasesForm ==
    ASSUME LeasesCounted
    PROVE  \A l \in LeaseKeys : leases[l] = HandleCount[l] + GuardCount[l]
  BY DEF LeasesCounted, HandleCount, GuardCount, Guarding

(* The converse, for the state after a step.                               *)
LEMMA LeasesFormNext ==
    ASSUME \A l \in LeaseKeys : leases'[l] = HandleCount'[l] + GuardCount'[l]
    PROVE  LeasesCounted'
  BY DEF LeasesCounted, HandleCount, GuardCount, Guarding

(* Guards dropped without a handle.                                        *)
LEMMA ReleasedOnly ==
    ASSUME leases \in [LeaseKeys -> Nat], NEW n \in Nat, NEW k, NEW l \in LeaseKeys
    PROVE  Released(n, k, {})[l] = leases[l] - (IF l = k THEN n ELSE 0)
<1>1. {h \in {} : h.lease = l} = {}
  OBVIOUS
<1>2. Cardinality({h \in {} : h.lease = l}) = 0
  BY <1>1, FS_EmptySet
<1>3. Released(n, k, {})[l] = leases[l] - Cardinality({h \in {} : h.lease = l}) - (IF l = k THEN n ELSE 0)
  BY DEF Released
<1> QED
  BY <1>2, <1>3

(* Each step changes a lease's count as it changes the number of guards.   *)
LEMMA LeasesCountedStep ==
    ASSUME IInv, [Next]_vars
    PROVE  LeasesCounted'
<1> SUFFICES ASSUME NEW m \in LeaseKeys
             PROVE  leases'[m] = HandleCount'[m] + GuardCount'[m]
  BY LeasesFormNext
<1>0. /\ request \in [Requests -> States] /\ leases \in [LeaseKeys -> Nat]
      /\ IsFiniteSet(registry)
  BY RegistryFinite DEF IInv, TypeOK, States
<1>1. /\ leases[m] = HandleCount[m] + GuardCount[m]
      /\ HandleCount[m] \in Nat /\ GuardCount[m] \in Nat
  BY <1>0, LeasesForm, HandleCountTyped, CountsTyped DEF IInv
<1>2. UNCHANGED registry => HandleCount'[m] = HandleCount[m]
  BY DEF HandleCount
<1>3. UNCHANGED request => GuardCount'[m] = GuardCount[m]
  BY DEF GuardCount
<1>4. ASSUME NEW r \in Requests, NEW k \in Keys, NEW host \in HostsOf[k], Join(r, k, host)
      PROVE  leases'[m] = HandleCount'[m] + GuardCount'[m]
  <2>1. PICK l : l = <<host, k>>
    OBVIOUS
  <2>2. PICK h, i, v : Joins(r, l, h, i, v)
    BY <1>4, <2>1, JoinEffect
  <2>3. HandleCount'[m] = HandleCount[m]
    BY <1>0, <2>2, HandleReplaced DEF Joins, Replaces
  <2>4. GuardCount'[m] = GuardCount[m] - Guards(request[r], m) + Guards(v, m)
    BY <1>0, <2>2, GuardCountMove DEF Joins
  <2>5. Guards(request[r], m) = 0 /\ Guards(v, m) = IF l = m THEN 1 ELSE 0
    BY <2>2, Contributions DEF Joins, Guards, Guarding
  <2>6. leases'[m] = leases[m] + (IF l = m THEN 1 ELSE 0)
    BY <1>0, <2>2 DEF Joins, Acquired
  <2> QED
    BY <1>1, <2>3, <2>4, <2>5, <2>6
<1>5. ASSUME NEW r \in Requests, NEW k \in Keys, NEW host \in HostsOf[k], Open(r, k, host)
      PROVE  leases'[m] = HandleCount'[m] + GuardCount'[m]
  <2>1. PICK l : l = <<host, k>>
    OBVIOUS
  <2>2. PICK n, v : Opens(r, l, n, v)
    BY <1>5, <2>1, OpenEffect
  <2>3. HandleCount'[m] = HandleCount[m] + (IF l = m THEN 1 ELSE 0)
    BY <1>0, <2>2, HandleInserted DEF Opens
  <2>4. GuardCount'[m] = GuardCount[m] - Guards(request[r], m) + Guards(v, m)
    BY <1>0, <2>2, GuardCountMove DEF Opens
  <2>5. Guards(request[r], m) = 0 /\ Guards(v, m) = IF l = m THEN 1 ELSE 0
    BY <2>2, Contributions DEF Opens, Guards, Guarding
  <2>6. leases'[m] = leases[m] + (IF l = m THEN 2 ELSE 0)
    BY <1>0, <2>2 DEF Opens, Acquired
  <2> QED
    BY <1>1, <2>3, <2>4, <2>5, <2>6
<1>6. ASSUME NEW r \in Requests, NEW l \in LeaseKeys, OpenOwn(r, l)
      PROVE  leases'[m] = HandleCount'[m] + GuardCount'[m]
  <2>1. PICK v : v = [at |-> "own", lease |-> l]
    OBVIOUS
  <2>2. GuardCount'[m] = GuardCount[m] - Guards(request[r], m) + Guards(v, m)
    BY <1>0, <1>6, <2>1, GuardCountMove DEF OpenOwn
  <2>3. Guards(request[r], m) = 0 /\ Guards(v, m) = IF l = m THEN 1 ELSE 0
    BY <1>6, <2>1, Contributions DEF OpenOwn, Guards, Guarding
  <2>4. leases'[m] = leases[m] + (IF l = m THEN 1 ELSE 0)
    BY <1>0, <1>6 DEF OpenOwn, Acquired
  <2>5. HandleCount'[m] = HandleCount[m]
    BY <1>2, <1>6 DEF OpenOwn
  <2> QED
    BY <1>1, <2>2, <2>3, <2>4, <2>5
<1>7. ASSUME NEW r \in Requests, Connected(r)
      PROVE  leases'[m] = HandleCount'[m] + GuardCount'[m]
  <2>1. PICK v : Moves(r, "connecting", v) /\ v.at = "streaming"
    BY <1>0, <1>7, MoveEffect
  <2>2. GuardCount'[m] = GuardCount[m] - Guards(request[r], m) + Guards(v, m)
    BY <1>0, <2>1, GuardCountMove DEF Moves
  <2>3. Guards(request[r], m) = Guards(v, m) /\ Guards(v, m) \in Nat
    BY <2>1 DEF Moves, Guards, Guarding
  <2>4. leases' = leases /\ HandleCount'[m] = HandleCount[m]
    BY <1>2, <1>7 DEF Connected
  <2> QED
    BY <1>1, <2>2, <2>3, <2>4
<1>8. ASSUME NEW r \in Requests, ConnectFailed(r)
      PROVE  leases'[m] = HandleCount'[m] + GuardCount'[m]
  <2>1. PICK own : own = Current(request[r].generation)
    OBVIOUS
  <2>2. /\ request[r].at = "connecting" /\ Become(r, Idle)
        /\ registry' = registry \ own /\ leases' = Released(1, request[r].lease, own)
    BY <1>8, <2>1 DEF ConnectFailed
  <2>3. HandleCount'[m] = HandleCount[m] - Cardinality({h \in own : h.lease = m})
    BY <1>0, <2>1, <2>2, HandlesRemoved DEF Current
  <2>4. GuardCount'[m] = GuardCount[m] - Guards(request[r], m) + Guards(Idle, m)
    BY <1>0, <2>2, GuardCountMove
  <2>5. Guards(request[r], m) = (IF m = request[r].lease THEN 1 ELSE 0) /\ Guards(Idle, m) = 0
    BY <2>2, Contributions DEF Guards, Guarding
  <2>6. leases'[m] = leases[m] - Cardinality({h \in own : h.lease = m}) - (IF m = request[r].lease THEN 1 ELSE 0)
    BY <2>2 DEF Released
  <2>7. Cardinality({h \in own : h.lease = m}) \in Nat
    BY <1>0, <2>1, FS_Subset, FS_CardinalityType DEF Current
  <2> QED
    BY <1>1, <2>3, <2>4, <2>5, <2>6, <2>7
<1>9. ASSUME NEW r \in Requests, OpenerVanishes(r) \/ Leave(r) \/ CloseOwn(r)
      PROVE  leases'[m] = HandleCount'[m] + GuardCount'[m]
  <2>1. PICK v : Become(r, v) /\ (v = Idle \/ v.at = "dropping")
    <3>1. CASE Leave(r)
      BY <1>0, <3>1, MoveEffect DEF Moves
    <3> QED
      BY <1>9, <3>1 DEF OpenerVanishes, CloseOwn
  <2>2. request[r].at \in Guarding /\ leases' = Released(1, request[r].lease, {}) /\ UNCHANGED registry
    BY <1>9 DEF OpenerVanishes, Leave, CloseOwn, Guarding
  <2>3. GuardCount'[m] = GuardCount[m] - Guards(request[r], m) + Guards(v, m)
    BY <1>0, <2>1, GuardCountMove
  <2>4. Guards(request[r], m) = (IF m = request[r].lease THEN 1 ELSE 0) /\ Guards(v, m) = 0
    BY <2>1, <2>2, Contributions DEF Guards
  <2>5. leases'[m] = leases[m] - (IF m = request[r].lease THEN 1 ELSE 0)
    BY <1>0, <2>2, ReleasedOnly
  <2> QED
    BY <1>1, <1>2, <2>2, <2>3, <2>4, <2>5
<1>10. ASSUME NEW r \in Requests, DropReference(r)
      PROVE  leases'[m] = HandleCount'[m] + GuardCount'[m]
  <2>1. GuardCount'[m] = GuardCount[m]
    <3>1. GuardCount'[m] = GuardCount[m] - Guards(request[r], m) + Guards(Idle, m)
      BY <1>0, <1>10, GuardCountMove DEF DropReference
    <3>2. Guards(request[r], m) = 0 /\ Guards(Idle, m) = 0
      BY <1>10, Contributions DEF DropReference
    <3> QED
      BY <1>1, <3>1, <3>2
  <2>0. Released(0, request[r].lease, {})[m] = leases[m]
    <3>1. Released(0, request[r].lease, {})[m] = leases[m] - (IF m = request[r].lease THEN 0 ELSE 0)
      BY <1>0, ReleasedOnly
    <3> QED
      BY <1>0, <3>1
  <2>2. CASE registry' = registry /\ leases' = Released(0, request[r].lease, {})
    BY <1>1, <1>2, <2>0, <2>1, <2>2
  <2>3. ASSUME NEW h \in registry, registry' = registry \ {h}, leases' = Released(0, request[r].lease, {h})
        PROVE  leases'[m] = HandleCount'[m] + GuardCount'[m]
    <3>1. HandleCount'[m] = HandleCount[m] - Cardinality({j \in {h} : j.lease = m})
      BY <1>0, <2>3, HandlesRemoved
    <3>2. leases'[m] = leases[m] - Cardinality({j \in {h} : j.lease = m}) - 0
      BY <2>3 DEF Released
    <3>3. Cardinality({j \in {h} : j.lease = m}) \in Nat
      BY FS_Singleton, FS_Subset, FS_CardinalityType
    <3> QED
      BY <1>1, <2>1, <3>1, <3>2, <3>3
  <2>4. ASSUME NEW h, NEW i, Replaces(h, i), leases' = Released(0, request[r].lease, {})
        PROVE  leases'[m] = HandleCount'[m] + GuardCount'[m]
    <3>1. HandleCount'[m] = HandleCount[m]
      BY <1>0, <2>4, HandleReplaced DEF Replaces
    <3>2. leases'[m] = leases[m]
      BY <2>0, <2>4
    <3> QED
      BY <1>1, <2>1, <3>1, <3>2
  <2> QED
    BY <1>10, <2>2, <2>3, <2>4, DropEffect DEF Current
<1>11. ASSUME NEW p \in producers, ProducerExit(p)
      PROVE  leases'[m] = HandleCount'[m] + GuardCount'[m]
  <2>1. PICK own : own = Current(p.generation)
    OBVIOUS
  <2>2. registry' = registry \ own /\ leases' = Released(0, p.lease, own) /\ UNCHANGED request
    BY <1>11, <2>1 DEF ProducerExit
  <2>3. HandleCount'[m] = HandleCount[m] - Cardinality({h \in own : h.lease = m})
    BY <1>0, <2>1, <2>2, HandlesRemoved DEF Current
  <2>4. leases'[m] = leases[m] - Cardinality({h \in own : h.lease = m}) - 0
    BY <2>2 DEF Released
  <2>5. Cardinality({h \in own : h.lease = m}) \in Nat
    BY <1>0, <2>1, FS_Subset, FS_CardinalityType DEF Current
  <2> QED
    BY <1>1, <1>3, <2>2, <2>3, <2>4, <2>5
<1>12. CASE Drain
  <2>1. leases'[m] = leases[m] - HandleCount[m]
    BY <1>12 DEF Drain, HandleCount
  <2>2. HandleCount'[m] = HandleCount[m] - Cardinality({h \in registry : h.lease = m})
    BY <1>0, <1>12, HandlesRemoved, registry \ registry = {} DEF Drain
  <2>3. HandleCount'[m] = 0
    BY <1>1, <2>2 DEF HandleCount
  <2> QED
    BY <1>1, <1>3, <1>12, <2>1, <2>3 DEF Drain
<1>13. CASE (\E p \in producers : SourceEnds(p)) \/ UNCHANGED vars
  <2>1. UNCHANGED <<registry, request, leases>>
    BY <1>13 DEF SourceEnds, Stop, vars
  <2> QED
    BY <1>1, <1>2, <1>3, <2>1
<1> QED
  BY <1>4, <1>5, <1>6, <1>7, <1>8, <1>9, <1>10, <1>11, <1>12, <1>13, StreamsAssumption DEF Next, LeaseKeys

(* In every state, the state after a step included, leases are counted by  *)
(* numbers.                                                                *)
CountsAreNumbers ==
    registry \subseteq Handle /\ OneHandle =>
        GuardCount \in [LeaseKeys -> Nat] /\ HandleCount \in [LeaseKeys -> Nat]

(* Counting gives a number after a step too.                               *)
LEMMA CountsTypedNext == CountsAreNumbers'
<1>1. CountsAreNumbers
  BY CountsTyped, RegistryFinite, HandleCountTyped DEF CountsAreNumbers
<1> QED
  BY <1>1, PTL

(* The lease map goes on mapping every lease key to a number: no count     *)
(* goes below zero, because it counts guards.                              *)
LEMMA LeasesTypedStep ==
    ASSUME IInv, [Next]_vars
    PROVE  leases' \in [LeaseKeys -> Nat]
<1>1. leases \in [LeaseKeys -> Nat]
  BY DEF IInv, TypeOK
<1>2. leases' = [l \in LeaseKeys |-> leases'[l]]
  <2>1. ASSUME NEW n, NEW k, leases' = Acquired(n, k)
        PROVE  leases' = [l \in LeaseKeys |-> leases'[l]]
    BY <1>1, <2>1 DEF Acquired
  <2>2. ASSUME NEW n, NEW k, NEW hs, leases' = Released(n, k, hs)
        PROVE  leases' = [l \in LeaseKeys |-> leases'[l]]
    BY <2>2 DEF Released
  <2>3. CASE leases' = leases
    BY <1>1, <2>3
  <2>4. CASE Drain
    BY <2>4 DEF Drain
  <2>5. CASE \E r \in Requests : \E l : \/ OpenOwn(r, l)
                                        \/ \E k, host : Join(r, k, host) \/ Open(r, k, host)
    <3>1. \E n, k : leases' = Acquired(n, k)
      BY <2>5 DEF OpenOwn, Join, Open
    <3> QED
      BY <2>1, <3>1
  <2>6. CASE \/ \E r \in Requests : \/ ConnectFailed(r) \/ OpenerVanishes(r) \/ Leave(r)
                                    \/ DropReference(r) \/ CloseOwn(r)
             \/ \E p \in producers : ProducerExit(p)
    <3>1. \E n, k, hs : leases' = Released(n, k, hs)
      BY <2>6 DEF ConnectFailed, OpenerVanishes, Leave, DropReference, CloseOwn, ProducerExit
    <3> QED
      BY <2>2, <3>1
  <2>7. CASE \/ \E r \in Requests : Connected(r)
             \/ \E p \in producers : SourceEnds(p)
             \/ UNCHANGED vars
    BY <2>3, <2>7 DEF Connected, SourceEnds, Stop, vars
  <2> QED
    BY <2>4, <2>5, <2>6, <2>7 DEF Next
<1>3. GuardCount' \in [LeaseKeys -> Nat] /\ HandleCount' \in [LeaseKeys -> Nat]
  BY CountsTypedNext, RegistryTypedStep, OneHandleStep DEF CountsAreNumbers
<1>4. \A l \in LeaseKeys : leases'[l] = HandleCount'[l] + GuardCount'[l]
  BY LeasesCountedStep DEF LeasesCounted, HandleCount, GuardCount, Guarding
<1>5. \A l \in LeaseKeys : leases'[l] \in Nat
  BY <1>3, <1>4
<1> QED
  BY <1>2, <1>5

(* Dropping guards takes no slot.                                          *)
LEMMA ReleasedFrees ==
    ASSUME leases \in [LeaseKeys -> Nat], IsFiniteSet(registry), NEW hs \in SUBSET registry,
           NEW n \in Nat, NEW k, leases' = Released(n, k, hs)
    PROVE  Held' \subseteq Held
<1> SUFFICES ASSUME NEW l \in LeaseKeys, leases'[l] > 0
             PROVE  leases[l] > 0
  BY DEF Held
<1>1. PICK c : c = Cardinality({h \in hs : h.lease = l})
  OBVIOUS
<1>2. c \in Nat
  BY <1>1, FS_Subset, FS_CardinalityType
<1>3. leases'[l] = leases[l] - c - (IF l = k THEN n ELSE 0)
  BY <1>1 DEF Released
<1> QED
  BY <1>2, <1>3

(* Taking a lease takes its slot.                                          *)
LEMMA AcquiredTakes ==
    ASSUME leases \in [LeaseKeys -> Nat], NEW l \in LeaseKeys, NEW n \in Nat \ {0}, leases' = Acquired(n, l)
    PROVE  Held' = Held \union {l}
  BY DEF Held, Acquired

(* A slot is taken only where it fits.                                     *)
LEMMA TunersBoundStep ==
    ASSUME IInv, [Next]_vars
    PROVE  TunersBound'
<1>0. TunersBound /\ leases \in [LeaseKeys -> Nat] /\ IsFiniteSet(registry)
  BY RegistryFinite DEF IInv, TypeOK
<1>1. ASSUME NEW r \in Requests, NEW l \in LeaseKeys, LeaseFits(l), NEW n \in {1, 2}, leases' = Acquired(n, l)
      PROVE  TunersBound'
  <2>1. Held' = Held \union {l}
    BY <1>0, <1>1, AcquiredTakes
  <2> QED
    BY <1>0, <1>1, <2>1, SlotTaken
<1>2. ASSUME NEW hs \in SUBSET registry, NEW n \in Nat, NEW k, leases' = Released(n, k, hs)
      PROVE  TunersBound'
  <2>1. Held' \subseteq Held
    BY <1>0, <1>2, ReleasedFrees
  <2> QED
    BY <1>0, <2>1, SlotsFreed
<1>3. CASE UNCHANGED leases
  BY <1>0, <1>3, SlotsFreed DEF Held
<1>4. ASSUME NEW r \in Requests, NEW k \in Keys, NEW host \in HostsOf[k],
             Join(r, k, host) \/ Open(r, k, host) \/ OpenOwn(r, <<host, k>>)
      PROVE  TunersBound'
  <2>1. <<host, k>> \in LeaseKeys
    BY StreamsAssumption DEF LeaseKeys
  <2>2. LeaseFits(<<host, k>>) /\ \E n \in {1, 2} : leases' = Acquired(n, <<host, k>>)
    BY <1>4 DEF Join, Open, OpenOwn
  <2> QED
    BY <1>1, <2>1, <2>2
<1>5. ASSUME NEW r \in Requests, NEW host \in Hosts, OpenOwn(r, <<host, r>>)
      PROVE  TunersBound'
  <2>1. <<host, r>> \in LeaseKeys
    BY DEF LeaseKeys
  <2>2. LeaseFits(<<host, r>>) /\ leases' = Acquired(1, <<host, r>>)
    BY <1>5 DEF OpenOwn
  <2> QED
    BY <1>1, <2>1, <2>2
<1>6. ASSUME NEW r \in Requests, ConnectFailed(r)
      PROVE  TunersBound'
  BY <1>2, <1>6 DEF ConnectFailed, Current
<1>7. ASSUME NEW r \in Requests, OpenerVanishes(r) \/ Leave(r) \/ CloseOwn(r)
      PROVE  TunersBound'
  BY <1>2, <1>7 DEF OpenerVanishes, Leave, CloseOwn
<1>8. ASSUME NEW r \in Requests, DropReference(r)
      PROVE  TunersBound'
  BY <1>2, <1>8, DropEffect DEF Current
<1>9. ASSUME NEW p \in producers, ProducerExit(p)
      PROVE  TunersBound'
  BY <1>2, <1>9 DEF ProducerExit, Current
<1>10. CASE Drain
  <2>1. Held' \subseteq Held
    <3> SUFFICES ASSUME NEW l \in LeaseKeys, leases'[l] > 0
                 PROVE  leases[l] > 0
      BY DEF Held
    <3>1. leases'[l] = leases[l] - HandleCount[l]
      BY <1>10 DEF Drain, HandleCount
    <3>2. HandleCount[l] \in Nat
      BY <1>0, HandleCountTyped
    <3> QED
      BY <1>0, <3>1, <3>2
  <2> QED
    BY <1>0, <2>1, SlotsFreed
<1>11. CASE (\E r \in Requests : Connected(r)) \/ (\E p \in producers : SourceEnds(p)) \/ UNCHANGED vars
  <2>1. UNCHANGED leases
    BY <1>11 DEF Connected, SourceEnds, Stop, vars
  <2> QED
    BY <1>3, <2>1
<1> QED
  BY <1>4, <1>5, <1>6, <1>7, <1>8, <1>9, <1>10, <1>11 DEF Next

-----------------------------------------------------------------------------
(* The inductive invariant and what follows from it.                       *)

(* At the start nothing is registered and nothing is leased.               *)
LEMMA InitIInv == Init => IInv
<1> SUFFICES ASSUME Init
             PROVE  IInv
  OBVIOUS
<1>1. TypeOK
  <2>1. leases \in [LeaseKeys -> Nat]
    BY DEF Init
  <2>2. request \in [Requests -> {Idle} \union Sharing \union Own]
    BY DEF Init
  <2>3. generation \in 1..(MaxGeneration + 1)
    BY StreamsAssumption DEF Init
  <2>4. stopping \in BOOLEAN
    BY DEF Init
  <2>5. registry = {} /\ producers = {} /\ abandoned = {}
    BY DEF Init
  <2> QED
    BY <2>1, <2>2, <2>3, <2>4, <2>5 DEF TypeOK
<1>2. \A r \in Requests : request[r].at = "idle"
  BY DEF Init, Idle
<1>3. Fresh /\ OneHandle /\ KeysMatch /\ OneOpener /\ Supported /\ Refcounts
  BY <1>2 DEF Init, Fresh, Shares, OneHandle, KeysMatch, OneOpener, Supported, Refcounts
<1>4. LeasesCounted
  <2> SUFFICES ASSUME NEW l \in LeaseKeys
               PROVE  leases[l] = Cardinality({h \in registry : h.lease = l})
                        + Cardinality({r \in Requests : request[r].at \in
                              {"connecting", "streaming", "own"} /\ request[r].lease = l})
    BY DEF LeasesCounted
  <2>1. /\ {h \in registry : h.lease = l} = {}
        /\ {r \in Requests : request[r].at \in {"connecting", "streaming", "own"} /\ request[r].lease = l} = {}
    BY <1>2 DEF Init
  <2>2. leases[l] = 0
    BY DEF Init
  <2>3. /\ Cardinality({h \in registry : h.lease = l}) = 0
        /\ Cardinality({r \in Requests : request[r].at \in {"connecting", "streaming", "own"}
                                         /\ request[r].lease = l}) = 0
    BY <2>1, FS_EmptySet, Zenon
  <2> QED
    BY <2>2, <2>3
<1>5. TunersBound
  <2>1. Held = {}
    BY DEF Init, Held
  <2>2. \A host \in Hosts : HeldOn(host) = {}
    BY <2>1 DEF HeldOn
  <2>3. IsFiniteSet(Held) /\ Cardinality(Held) = 0
    BY <2>1, FS_EmptySet
  <2>4. \A host \in Hosts : Cardinality(HeldOn(host)) = 0
    BY <2>2, FS_EmptySet
  <2>5. \A host \in Hosts : TunerCount[host] \in Nat
    BY StreamsAssumption
  <2>6. MaxProducers \in Nat
    BY StreamsAssumption
  <2>7. \A host \in Hosts : Cardinality(HeldOn(host)) <= TunerCount[host]
    BY <2>4, <2>5
  <2>8. Cardinality(Held) <= MaxProducers
    BY <2>3, <2>6
  <2> QED
    BY <2>3, <2>7, <2>8 DEF TunersBound
<1> QED
  BY <1>1, <1>3, <1>4, <1>5 DEF IInv

(* Every step of a request, a producer and the shutdown preserves it.      *)
LEMMA NextIInv == IInv /\ [Next]_vars => IInv'
<1> SUFFICES ASSUME IInv, [Next]_vars
             PROVE  IInv'
  OBVIOUS
<1>1. TypeOK'
  BY RequestTypedStep, RegistryTypedStep, OthersTypedStep, LeasesTypedStep DEF TypeOK, States
<1>2. Fresh' /\ OneHandle' /\ KeysMatch' /\ OneOpener' /\ Supported'
  BY FreshStep, OneHandleStep, KeysMatchStep, OneOpenerStep, SupportedStep
<1>3. Refcounts' /\ LeasesCounted' /\ TunersBound'
  BY RefcountsStep, LeasesCountedStep, TunersBoundStep
<1> QED
  BY <1>1, <1>2, <1>3 DEF IInv

(* The strengthening holds in every reachable state.                       *)
THEOREM SpecIInv == Spec => []IInv
  BY InitIInv, NextIInv, PTL DEF Spec

(* Types: no reference count reaches zero in the registry, no lease count  *)
(* goes below it.                                                          *)
THEOREM SpecTypeOK == Spec => []TypeOK
<1>1. IInv => TypeOK
  BY DEF IInv
<1> QED
  BY <1>1, SpecIInv, PTL

(* A handle's reference count is the number of those who will give one     *)
(* back (LiveStreamRefGuard), plus one for an opener that went away.       *)
THEOREM SpecRefcounts == Spec => []Refcounts
<1>1. IInv => Refcounts
  BY DEF IInv
<1> QED
  BY <1>1, SpecIInv, PTL

(* Leases count the guards that exist, and their slots stay within the     *)
(* limit of every host and the global one                                  *)
(* (ensure_live_tuner_lease_capacity, Drop of the lease guard).            *)
THEOREM SpecTunersRespected == Spec => []TunersRespected
<1>1. IInv => TunersRespected
  BY DEF IInv, TunersBound, TunersRespected
<1> QED
  BY <1>1, SpecIInv, PTL

(* There is one handle per key and somebody behind it.                     *)
THEOREM SpecBacked == Spec => []Backed
<1>1. IInv => Backed
  <2> SUFFICES ASSUME IInv, NEW h \in registry
               PROVE  /\ Registered(h.key) = {h}
                      /\ \/ At("connecting", h.generation) # {}
                         \/ \E p \in producers : p.generation = h.generation
                         \/ h.generation \in abandoned
    BY DEF Backed
  <2>1. Registered(h.key) = {h}
    BY DEF IInv, OneHandle, Registered
  <2>2. (\E r \in Requests : request[r].at = "connecting" /\ request[r].generation = h.generation)
          => At("connecting", h.generation) # {}
    BY DEF At
  <2> QED
    BY <2>1, <2>2 DEF IInv, Supported
<1> QED
  BY <1>1, SpecIInv, PTL


-----------------------------------------------------------------------------
(* Stale guards.                                                           *)

(* What a step may do to handle h: keep it with at least its references,   *)
(* or take one, or the handle, in a step of h's own generation or in the   *)
(* sweep.                                                                  *)
Spared(h) == \E i \in registry' : i.generation = h.generation /\ i.refcount >= h.refcount

OwnStep(h) ==
    \/ \E r \in Requests : /\ request[r] # request'[r]
                            /\ request[r].at \in {"connecting", "streaming", "dropping"}
                            /\ request[r].generation = h.generation
    \/ \E p \in producers \ producers' : p.generation = h.generation
    \/ registry' = {} /\ UNCHANGED <<request, producers>>

(* A handle that stays as it is is spared.                                 *)
LEMMA StaysSpared ==
    ASSUME IInv, NEW h \in registry, h \in registry'
    PROVE  Spared(h)
<1>1. h.refcount \in Nat
  BY DEF IInv, TypeOK, Handle
<1> QED
  BY <1>1 DEF Spared

(* A request that goes idle changes its state.                             *)
LEMMA GivesUp ==
    ASSUME IInv, NEW r \in Requests, request[r].at \in Shares, Become(r, Idle),
           NEW h, request[r].generation = h.generation
    PROVE  OwnStep(h)
<1>1. request'[r] = Idle
  BY DEF IInv, TypeOK, Become
<1>2. request[r] # request'[r]
  BY <1>1 DEF Idle, Shares
<1> QED
  BY <1>2 DEF OwnStep, Shares

(* Every step spares a handle or is one of its own generation.             *)
LEMMA StaleGuardsStep ==
    ASSUME IInv, [Next]_vars, NEW h \in registry
    PROVE  Spared(h) \/ OwnStep(h)
<1>1. ASSUME NEW r \in Requests, NEW k \in Keys, NEW host \in HostsOf[k], Join(r, k, host)
      PROVE  Spared(h)
  <2>1. PICK j, i, v : Joins(r, <<host, k>>, j, i, v)
    BY <1>1, JoinEffect
  <2>2. /\ registry' = (registry \ {j}) \union {i} /\ j \in registry
        /\ i.generation = j.generation /\ i.refcount = j.refcount + 1
    BY <2>1 DEF Joins, Replaces
  <2>3. j.refcount \in Nat
    BY <2>2 DEF IInv, TypeOK, Handle
  <2>4. CASE h = j
    BY <2>2, <2>3, <2>4 DEF Spared
  <2>5. CASE h # j
    BY <2>2, <2>5, StaysSpared
  <2> QED
    BY <2>4, <2>5
<1>2. ASSUME NEW r \in Requests, NEW k \in Keys, NEW host \in HostsOf[k], Open(r, k, host)
      PROVE  Spared(h)
  BY <1>2, StaysSpared DEF Open
<1>3. ASSUME NEW r \in Requests, ConnectFailed(r)
      PROVE  Spared(h) \/ OwnStep(h)
  <2>1. CASE h.generation = request[r].generation
    BY <1>3, <2>1, GivesUp DEF ConnectFailed, Shares
  <2>2. CASE h.generation # request[r].generation
    BY <1>3, <2>2, StaysSpared DEF ConnectFailed, Current
  <2> QED
    BY <2>1, <2>2
<1>4. ASSUME NEW r \in Requests, DropReference(r)
      PROVE  Spared(h) \/ OwnStep(h)
  <2>1. CASE h.generation = request[r].generation
    BY <1>4, <2>1, GivesUp DEF DropReference, Shares
  <2>2. CASE h.generation # request[r].generation
    <3>1. h \in registry'
      BY <1>4, <2>2 DEF DropReference, HandleOf
    <3> QED
      BY <3>1, StaysSpared
  <2> QED
    BY <2>1, <2>2
<1>5. ASSUME NEW p \in producers, ProducerExit(p)
      PROVE  Spared(h) \/ OwnStep(h)
  <2>1. CASE h.generation = p.generation
    BY <1>5, <2>1 DEF ProducerExit, OwnStep
  <2>2. CASE h.generation # p.generation
    BY <1>5, <2>2, StaysSpared DEF ProducerExit, Current
  <2> QED
    BY <2>1, <2>2
<1>6. CASE Drain
  BY <1>6 DEF Drain, OwnStep
<1>7. CASE registry' = registry
  BY <1>7, StaysSpared
<1>8. ASSUME NEW r \in Requests,
             (\E l : OpenOwn(r, l)) \/ Connected(r) \/ OpenerVanishes(r) \/ Leave(r) \/ CloseOwn(r)
      PROVE  registry' = registry
  BY <1>8 DEF OpenOwn, Connected, OpenerVanishes, Leave, CloseOwn
<1>9. ASSUME (\E p \in producers : SourceEnds(p)) \/ UNCHANGED vars
      PROVE  registry' = registry
  BY <1>9 DEF SourceEnds, Stop, vars
<1> QED
  BY <1>1, <1>2, <1>3, <1>4, <1>5, <1>6, <1>7, <1>8, <1>9 DEF Next

(* StaleGuardsAreNoOps for every number of requests and generations: a     *)
(* late guard, opener or producer of an earlier handle of a key finds      *)
(* another generation in the registry and leaves it alone.                 *)
THEOREM SpecStaleGuardsAreNoOps == Spec => StaleGuardsAreNoOps
<1>1. IInv /\ [Next]_vars =>
        [\A h \in registry :
           \/ \E i \in registry' : i.generation = h.generation /\ i.refcount >= h.refcount
           \/ \E r \in Requests : /\ request[r] # request'[r]
                                 /\ request[r].at \in {"connecting", "streaming", "dropping"}
                                 /\ request[r].generation = h.generation
           \/ \E p \in producers \ producers' : p.generation = h.generation
           \/ registry' = {} /\ UNCHANGED <<request, producers>>]_vars
  BY StaleGuardsStep DEF Spared, OwnStep
<1> QED
  BY <1>1, SpecIInv, PTL DEF Spec, StaleGuardsAreNoOps
=============================================================================
