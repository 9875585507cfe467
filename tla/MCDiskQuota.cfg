\* Two writers and the monitor; the disk holds exactly the quota, ids wrap around after three reservations.
SPECIFICATION FairSpec
CONSTANTS
    Writers = {w1, w2}
    Observers = {}
    Monitor = Monitor
    NoActor = NoActor
    NoUsage = NoUsage
    Missing = Missing
    Failed = Failed
    ConfiguredQuota = 2
    ConfiguredHeadroom = 1
    IdSpace = 3
    MaxDisk = 2
INVARIANTS
    TypeOK
    Accounting
    Watched
    BreachReported
PROPERTIES
    StopIsFinal
    FullDiskStopsWriters
