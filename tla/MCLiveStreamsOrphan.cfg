\* An opener that goes away while it connects.
SPECIFICATION Spec
CONSTANTS
    k1 = k1
    k2 = k2
    h1 = h1
    h2 = h2
    Requests = {r1, r2}
    Keys = {k1, k2}
    Hosts = {h1, h2}
    HostsOf <- TwoHosts
    TunerCount <- OneAndAny
    MaxProducers = 2
    MaxGeneration = 2
SYMMETRY RequestSymmetry
INVARIANTS
    NoOrphanedHandle
