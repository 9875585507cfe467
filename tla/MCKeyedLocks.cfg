\* Two slots, three keys: the map fills up, overflows, drains and is pruned.
SPECIFICATION FairSpec
CONSTANTS
    c1 = c1
    c2 = c2
    c3 = c3
    k1 = k1
    k2 = k2
    k3 = k3
    Callers <- ThreeCallers
    Keys <- ThreeKeys
    Locks = {l1, l2, l3}
    Overflow = Overflow
    NoKey = NoKey
    NoLock = NoLock
    MaxEntries <- TwoSlots
    PruneInterval <- EveryThird
INVARIANTS
    TypeOK
    KeyExclusion
    RegistryBounded
    SharingOnlyInOverflow
PROPERTIES
    ImplementsKeyedMutex
    WaiterServed
