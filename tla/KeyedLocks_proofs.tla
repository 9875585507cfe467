-------------------------- MODULE KeyedLocks_proofs --------------------------
(***************************************************************************)
(* Proofs about KeyedLocks for any number of callers, keys and locks and   *)
(* any capacity and prune interval.                                        *)
(***************************************************************************)
EXTENDS KeyedLocks, FiniteSetTheorems, TLAPS

(* A caller holds an Arc and a key exactly while it is not idle.           *)
RefsMatchPc ==
    \A c \in Callers :
        /\ pc[c] = "idle" <=> ref[c] = NoLock
        /\ pc[c] = "idle" <=> key[c] = NoKey

(* A keyed lock somebody references is the one its key is registered to,   *)
(* and a key diverted to the overflow lock has no entry.                   *)
RefsMatchEntries ==
    \A c \in Callers :
        /\ ref[c] \in Locks => entries[key[c]] = ref[c]
        /\ ref[c] = Overflow => entries[key[c]] = NoLock

(* No two keys share an allocation.                                        *)
EntriesInjective ==
    \A j, k \in Keys : entries[j] # NoLock /\ entries[j] = entries[k] => j = k

(* The async mutex admits one guard at a time.                             *)
OneGuard ==
    \A c, d \in Callers :
        pc[c] = "holding" /\ pc[d] = "holding" /\ ref[c] = ref[d] => c = d

IInv ==
    /\ TypeOK
    /\ RefsMatchPc
    /\ RefsMatchEntries
    /\ EntriesInjective
    /\ OneGuard

-----------------------------------------------------------------------------
(* Pruning and removing k leaves an entry as it was or clears it, keeps    *)
(* every entry that is in use for another key, and keeps the type.         *)
LEMMA KeptFacts ==
    ASSUME TypeOK, NEW k \in Keys
    PROVE  /\ Kept(k) \in [Keys -> Locks \union {NoLock}]
           /\ Kept(k)[k] = NoLock
           /\ \A j \in Keys : Kept(k)[j] \in {entries[j], NoLock}
           /\ \A j \in Keys : j # k /\ Live(j) => Kept(k)[j] = entries[j]
           /\ OpsAfter(k) \in 0..(PruneInterval - 1)
<1>1. Removed(k) \in [Keys -> Locks \union {NoLock}]
  BY DEF TypeOK, Removed
<1>2. CASE NeedsPrune(Removed(k))
  <2>1. Kept(k) = PruneDead(Removed(k)) /\ OpsAfter(k) = 0
    BY <1>2 DEF Kept, OpsAfter
  <2>2. 0 \in 0..(PruneInterval - 1)
    BY LocksAssumption
  <2> QED
    BY <1>1, <2>1, <2>2 DEF TypeOK, PruneDead, Removed, Live
<1>3. CASE ~NeedsPrune(Removed(k))
  <2>1. Kept(k) = Removed(k) /\ OpsAfter(k) = ops + 1
    BY <1>3 DEF Kept, OpsAfter
  <2>2. ~(ops + 1 >= PruneInterval)
    BY <1>3 DEF NeedsPrune
  <2>3. ops + 1 \in 0..(PruneInterval - 1)
    BY <2>2, LocksAssumption DEF TypeOK
  <2> QED
    BY <1>1, <2>1, <2>3 DEF TypeOK, Removed
<1> QED
  BY <1>2, <1>3

(* At the start the registry is empty and nobody holds a lock.             *)
LEMMA InitIInv == Init => IInv
<1> SUFFICES ASSUME Init PROVE IInv
  OBVIOUS
<1>1. 0 \in 0..(PruneInterval - 1)
  BY LocksAssumption
<1> QED
  BY <1>1, LocksAssumption
     DEF Init, IInv, TypeOK, RefsMatchPc, RefsMatchEntries, EntriesInjective, OneGuard

(* lock_for finds a live entry and shares it.                              *)
LEMMA ReuseIInv ==
    ASSUME IInv, NEW c \in Callers, NEW k \in Keys, Reuse(c, k) PROVE IInv'
<1> USE DEF IInv, Reuse, Take, Live
<1>1. TypeOK'
  BY DEF TypeOK
<1>2. RefsMatchPc'
  BY LocksAssumption DEF TypeOK, RefsMatchPc
<1>3. RefsMatchEntries'
  BY LocksAssumption DEF TypeOK, RefsMatchEntries
<1>4. EntriesInjective'
  BY DEF TypeOK, EntriesInjective
<1>5. OneGuard'
  BY DEF TypeOK, OneGuard
<1> QED
  BY <1>1, <1>2, <1>3, <1>4, <1>5

(* lock_for joins the borrowers of the overflow lock.                      *)
LEMMA JoinOverflowIInv ==
    ASSUME IInv, NEW c \in Callers, NEW k \in Keys, JoinOverflow(c, k) PROVE IInv'
<1> USE DEF IInv, JoinOverflow, Take, Removed
<1>1. TypeOK'
  BY DEF TypeOK
<1>2. RefsMatchPc'
  BY LocksAssumption DEF TypeOK, RefsMatchPc
<1>3. RefsMatchEntries'
  <2>1. \A d \in Callers : ref[d] \in Locks => key[d] # k
    BY LocksAssumption DEF TypeOK, RefsMatchEntries, Live, Referenced
  <2> QED
    BY <2>1, LocksAssumption DEF TypeOK, RefsMatchEntries, RefsMatchPc
<1>4. EntriesInjective'
  BY DEF TypeOK, EntriesInjective
<1>5. OneGuard'
  BY DEF TypeOK, OneGuard
<1> QED
  BY <1>1, <1>2, <1>3, <1>4, <1>5

(* lock_for finds the registry full of live entries.                       *)
LEMMA StartOverflowIInv ==
    ASSUME IInv, NEW c \in Callers, NEW k \in Keys, StartOverflow(c, k) PROVE IInv'
<1> USE DEF IInv, StartOverflow, Take
<1>0. /\ Kept(k) \in [Keys -> Locks \union {NoLock}]
      /\ Kept(k)[k] = NoLock
      /\ \A j \in Keys : Kept(k)[j] \in {entries[j], NoLock}
      /\ \A j \in Keys : j # k /\ Live(j) => Kept(k)[j] = entries[j]
      /\ OpsAfter(k) \in 0..(PruneInterval - 1)
  BY KeptFacts
<1>1. TypeOK'
  BY <1>0 DEF TypeOK
<1>2. RefsMatchPc'
  BY LocksAssumption DEF TypeOK, RefsMatchPc
<1>3. RefsMatchEntries'
  <2> SUFFICES ASSUME NEW d \in Callers
               PROVE  /\ ref'[d] \in Locks => entries'[key'[d]] = ref'[d]
                      /\ ref'[d] = Overflow => entries'[key'[d]] = NoLock
    BY DEF RefsMatchEntries
  <2>1. CASE d = c
    BY <2>1, <1>0, LocksAssumption DEF TypeOK
  <2>2. CASE d # c
    <3>1. ref'[d] = ref[d] /\ key'[d] = key[d]
      BY <2>2 DEF TypeOK
    <3>2. ASSUME ref[d] \in Locks PROVE entries'[key[d]] = ref[d]
      <4>1. key[d] \in Keys /\ entries[key[d]] = ref[d]
        BY <3>2, LocksAssumption DEF TypeOK, RefsMatchEntries, RefsMatchPc
      <4>2. Live(key[d])
        BY <3>2, <4>1, LocksAssumption DEF Live, Referenced
      <4> QED
        BY <4>1, <4>2, <1>0
    <3>3. ASSUME ref[d] = Overflow PROVE FALSE
      BY <3>3 DEF OverflowBusy, Referenced
    <3> QED
      BY <3>1, <3>2, <3>3
  <2> QED
    BY <2>1, <2>2
<1>4. EntriesInjective'
  BY <1>0 DEF TypeOK, EntriesInjective
<1>5. OneGuard'
  BY DEF TypeOK, OneGuard
<1> QED
  BY <1>1, <1>2, <1>3, <1>4, <1>5

(* lock_for inserts a new lock.                                            *)
LEMMA RegisterIInv ==
    ASSUME IInv, NEW c \in Callers, NEW k \in Keys, Register(c, k) PROVE IInv'
<1> USE DEF IInv, Take
<1>0. /\ Kept(k) \in [Keys -> Locks \union {NoLock}]
      /\ \A j \in Keys : Kept(k)[j] \in {entries[j], NoLock}
      /\ \A j \in Keys : j # k /\ Live(j) => Kept(k)[j] = entries[j]
      /\ OpsAfter(k) \in 0..(PruneInterval - 1)
  BY KeptFacts
<1>a. PICK l \in Locks :
        /\ ~Referenced(l)
        /\ \A j \in Keys : Kept(k)[j] # l
        /\ entries' = [Kept(k) EXCEPT ![k] = l]
        /\ Take(c, k, l)
  BY DEF Register
<1>b. pc[c] = "idle" /\ ~Live(k) /\ ~OverflowBusy /\ ops' = OpsAfter(k)
  BY DEF Register
<1>1. TypeOK'
  BY <1>0, <1>a, <1>b DEF TypeOK
<1>2. RefsMatchPc'
  BY <1>a, LocksAssumption DEF TypeOK, RefsMatchPc
<1>3. RefsMatchEntries'
  <2> SUFFICES ASSUME NEW d \in Callers
               PROVE  /\ ref'[d] \in Locks => entries'[key'[d]] = ref'[d]
                      /\ ref'[d] = Overflow => entries'[key'[d]] = NoLock
    BY DEF RefsMatchEntries
  <2>1. CASE d = c
    BY <2>1, <1>0, <1>a, LocksAssumption DEF TypeOK
  <2>2. CASE d # c
    <3>1. ref'[d] = ref[d] /\ key'[d] = key[d]
      BY <2>2, <1>a DEF TypeOK
    <3>2. ASSUME ref[d] \in Locks PROVE entries'[key[d]] = ref[d]
      <4>1. key[d] \in Keys /\ entries[key[d]] = ref[d]
        BY <3>2, LocksAssumption DEF TypeOK, RefsMatchEntries, RefsMatchPc
      <4>2. Live(key[d])
        BY <3>2, <4>1, LocksAssumption DEF Live, Referenced
      <4> QED
        BY <4>1, <4>2, <1>0, <1>a, <1>b
    <3>3. ASSUME ref[d] = Overflow PROVE FALSE
      BY <3>3, <1>b DEF OverflowBusy, Referenced
    <3> QED
      BY <3>1, <3>2, <3>3
  <2> QED
    BY <2>1, <2>2
<1>4. EntriesInjective'
  BY <1>0, <1>a DEF TypeOK, EntriesInjective
<1>5. OneGuard'
  BY <1>a DEF TypeOK, OneGuard
<1> QED
  BY <1>1, <1>2, <1>3, <1>4, <1>5

(* The steps of a caller that already has its Arc.                         *)
LEMMA CallerIInv ==
    ASSUME IInv, NEW c \in Callers,
           Acquire(c) \/ Abandon(c) \/ Unlock(c) \/ DropRef(c)
    PROVE  IInv'
<1> USE DEF IInv
<1>1. CASE Acquire(c)
  BY <1>1 DEF Acquire, Free, TypeOK, RefsMatchPc, RefsMatchEntries, EntriesInjective, OneGuard
<1>2. CASE Abandon(c)
  BY <1>2 DEF Abandon, TypeOK, RefsMatchPc, RefsMatchEntries, EntriesInjective, OneGuard
<1>3. CASE Unlock(c)
  BY <1>3 DEF Unlock, TypeOK, RefsMatchPc, RefsMatchEntries, EntriesInjective, OneGuard
<1>4. CASE DropRef(c)
  BY <1>4, LocksAssumption
     DEF DropRef, TypeOK, RefsMatchPc, RefsMatchEntries, EntriesInjective, OneGuard
<1> QED
  BY <1>1, <1>2, <1>3, <1>4

(* The registry's inductive invariant holds in every behaviour.            *)
THEOREM SpecIInv == Spec => []IInv
<1>1. IInv /\ [Next]_vars => IInv'
  <2> SUFFICES ASSUME IInv, [Next]_vars PROVE IInv'
    OBVIOUS
  <2>1. CASE Next
    <3>1. PICK c \in Callers :
            \/ \E k \in Keys : LockFor(c, k)
            \/ Acquire(c) \/ Abandon(c) \/ Unlock(c) \/ DropRef(c)
      BY <2>1 DEF Next
    <3>2. ASSUME NEW k \in Keys, LockFor(c, k) PROVE IInv'
      BY <3>2, ReuseIInv, JoinOverflowIInv, StartOverflowIInv, RegisterIInv DEF LockFor
    <3> QED
      BY <3>1, <3>2, CallerIInv
  <2>2. CASE UNCHANGED vars
    BY <2>2 DEF vars, IInv, TypeOK, RefsMatchPc, RefsMatchEntries, EntriesInjective, OneGuard
  <2> QED
    BY <2>1, <2>2
<1> QED
  BY InitIInv, <1>1, PTL DEF Spec

(* Types: a caller refers to a lock or to none, and the pruning counter    *)
(* stays below its interval.                                               *)
THEOREM SpecTypeOK == Spec => []TypeOK
BY SpecIInv, PTL DEF IInv

(* The invariant makes callers of one key meet at one lock.                *)
LEMMA IInvSameLock == IInv => SameKeySameLock
BY LocksAssumption DEF IInv, TypeOK, RefsMatchPc, RefsMatchEntries, SameKeySameLock

(* Per-key mutual exclusion, whatever lock_for pruned, removed or diverted *)
(* to the overflow lock in between.                                        *)
THEOREM SpecKeyExclusion == Spec => [](SameKeySameLock /\ KeyExclusion)
<1>1. IInv => KeyExclusion
  BY IInvSameLock DEF IInv, RefsMatchPc, OneGuard, SameKeySameLock, KeyExclusion
<1> QED
  BY SpecIInv, IInvSameLock, <1>1, PTL

(* Only the overflow lock is shared by unrelated keys.                     *)
THEOREM SpecSharing == Spec => []SharingOnlyInOverflow
<1>1. IInv => SharingOnlyInOverflow
  BY LocksAssumption
     DEF IInv, TypeOK, RefsMatchPc, RefsMatchEntries, EntriesInjective, SharingOnlyInOverflow
<1> QED
  BY SpecIInv, <1>1, PTL

-----------------------------------------------------------------------------
(* One step of lock_for never takes the map past its capacity: new keys    *)
(* are inserted only below it, and nothing else adds an entry.             *)
LEMMA StepBounded ==
    ASSUME IInv, RegistryBounded, Next PROVE RegistryBounded'
<1> DEFINE R(es) == Registered(es)
<1>1. ASSUME NEW es, NEW fs, \A j \in Keys : es[j] \in {fs[j], NoLock},
             Cardinality(R(fs)) <= MaxEntries
      PROVE  Cardinality(R(es)) <= MaxEntries
  <2>1. R(es) \subseteq R(fs) /\ R(fs) \subseteq Keys
    BY <1>1 DEF Registered
  <2>2. IsFiniteSet(R(fs))
    BY <2>1, LocksAssumption, FS_Subset
  <2>3. Cardinality(R(es)) <= Cardinality(R(fs))
    BY <2>1, <2>2, FS_Subset
  <2>4. Cardinality(R(es)) \in Nat /\ Cardinality(R(fs)) \in Nat
    BY <2>1, <2>2, FS_Subset, FS_CardinalityType
  <2> QED
    BY <1>1, <2>3, <2>4, LocksAssumption
<1>2. PICK c \in Callers :
        \/ \E k \in Keys : LockFor(c, k)
        \/ Acquire(c) \/ Abandon(c) \/ Unlock(c) \/ DropRef(c)
  BY DEF Next
<1>3. CASE Acquire(c) \/ Abandon(c) \/ Unlock(c) \/ DropRef(c)
  BY <1>3 DEF Acquire, Abandon, Unlock, DropRef, RegistryBounded, Registered
<1>4. ASSUME NEW k \in Keys, LockFor(c, k) PROVE RegistryBounded'
  <2>0. /\ Kept(k) \in [Keys -> Locks \union {NoLock}]
        /\ Kept(k)[k] = NoLock
        /\ \A j \in Keys : Kept(k)[j] \in {entries[j], NoLock}
    BY KeptFacts DEF IInv
  <2>1. CASE Reuse(c, k)
    BY <2>1 DEF Reuse, RegistryBounded, Registered
  <2>2. CASE JoinOverflow(c, k)
    <3>1. \A j \in Keys : entries'[j] \in {entries[j], NoLock}
      BY <2>2 DEF JoinOverflow, Removed, IInv, TypeOK
    <3> QED
      BY <3>1, <1>1 DEF RegistryBounded
  <2>3. CASE StartOverflow(c, k)
    BY <2>0, <2>3, <1>1 DEF StartOverflow, RegistryBounded
  <2>4. CASE Register(c, k)
    <3>1. PICK l \in Locks : entries' = [Kept(k) EXCEPT ![k] = l]
      BY <2>4 DEF Register
    <3>2. R(entries') = R(Kept(k)) \union {k} /\ k \notin R(Kept(k))
      BY <3>1, <2>0, LocksAssumption DEF Registered
    <3>3. IsFiniteSet(R(Kept(k)))
      BY LocksAssumption, FS_Subset DEF Registered
    <3>4. Cardinality(R(entries')) = Cardinality(R(Kept(k))) + 1
      BY <3>2, <3>3, FS_AddElement
    <3>5. Cardinality(R(Kept(k))) \in Nat
      BY <3>3, FS_CardinalityType
    <3>6. ~(Cardinality(R(Kept(k))) >= MaxEntries)
      BY <2>4 DEF Register, Full
    <3>7. Cardinality(R(entries')) <= MaxEntries
      BY <3>4, <3>5, <3>6, LocksAssumption
    <3> QED
      BY <3>7 DEF RegistryBounded
  <2> QED
    BY <1>4, <2>1, <2>2, <2>3, <2>4 DEF LockFor
<1> QED
  BY <1>2, <1>3, <1>4

(* The map never grows past its capacity.                                  *)
THEOREM SpecRegistryBounded == Spec => []RegistryBounded
<1>1. Init => RegistryBounded
  <2>1. Init => Registered(entries) = {}
    BY DEF Init, Registered
  <2> QED
    BY <2>1, FS_EmptySet, LocksAssumption DEF RegistryBounded
<1>2. IInv /\ RegistryBounded /\ UNCHANGED vars => RegistryBounded'
  BY DEF vars, RegistryBounded, Registered
<1>3. IInv /\ RegistryBounded /\ [Next]_vars => RegistryBounded'
  BY <1>2, StepBounded
<1> QED
  BY <1>1, <1>3, SpecIInv, PTL DEF Spec

-----------------------------------------------------------------------------
(* The key whose critical section caller c is in.                          *)
Owns == [c \in Callers |-> IF pc[c] = "holding" THEN key[c] ELSE NoKey]

(* Every step of the registry is a step of one mutex per key, or invisible *)
(* to its users.                                                           *)
THEOREM SpecImplementsKeyedMutex == Spec => ImplementsKeyedMutex
<1>1. Init => Mutex!Init
  BY DEF Init, Mutex!Init
<1>2. IInv /\ [Next]_vars => [Mutex!Next]_Owns
  <2> SUFFICES ASSUME IInv, Next PROVE Mutex!Next \/ UNCHANGED Owns
    BY DEF vars, Owns
  <2>1. PICK c \in Callers :
          \/ \E k \in Keys : LockFor(c, k)
          \/ Acquire(c) \/ Abandon(c) \/ Unlock(c) \/ DropRef(c)
    BY DEF Next
  <2>2. ASSUME NEW k \in Keys, LockFor(c, k) PROVE UNCHANGED Owns
    <3>1. /\ pc[c] = "idle"
          /\ pc' = [pc EXCEPT ![c] = "ready"]
          /\ key' = [key EXCEPT ![c] = k]
      BY <2>2 DEF LockFor, Reuse, JoinOverflow, StartOverflow, Register, Take
    <3> QED
      BY <3>1 DEF Owns, IInv, TypeOK
  <2>3. CASE Abandon(c)
    BY <2>3 DEF Abandon, Owns, IInv, TypeOK
  <2>4. CASE DropRef(c)
    BY <2>4 DEF DropRef, Owns, IInv, TypeOK
  <2>5. CASE Unlock(c)
    <3>1. /\ Owns[c] # NoKey
          /\ Owns' = [Owns EXCEPT ![c] = NoKey]
      BY <2>5 DEF Unlock, Owns, IInv, TypeOK, RefsMatchPc
    <3>2. Mutex!Leave(c)
      BY <3>1 DEF Mutex!Leave, Owns
    <3> QED
      BY <3>2 DEF Mutex!Next
  <2>6. CASE Acquire(c)
    <3>1. PICK k \in Keys : k = key[c]
      BY <2>6 DEF Acquire, IInv, TypeOK, RefsMatchPc
    <3>2. \A d \in Callers : Owns[d] # k
      BY <2>6, <3>1, IInvSameLock, LocksAssumption
         DEF Acquire, Free, Owns, SameKeySameLock
    <3>3. Owns[c] = NoKey /\ Owns' = [Owns EXCEPT ![c] = k]
      BY <2>6, <3>1 DEF Acquire, Owns, IInv, TypeOK
    <3>4. Mutex!Enter(c, k)
      BY <3>2, <3>3 DEF Mutex!Enter, Owns
    <3> QED
      BY <3>4 DEF Mutex!Next
  <2> QED
    BY <2>1, <2>2, <2>3, <2>4, <2>5, <2>6
<1> QED
  BY <1>1, <1>2, SpecIInv, PTL DEF Spec, ImplementsKeyedMutex, Mutex!Spec, Owns
=============================================================================
