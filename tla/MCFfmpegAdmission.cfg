\* One permit in total, one place in each queue: every path to a refusal.
SPECIFICATION FairSpec
CONSTANTS
    v1 = v1
    r1 = r1
    r2 = r2
    p1 = p1
    Jobs <- MixedJobs
    KindOf <- MixedKindOf
    Limits <- MixedLimits
    QueueLimit <- OnePlace
    Mode = "RemuxOnly"
INVARIANTS
    TypeOK
    PermitsConserved
    CapsRespected
    LanesOpen
    WaitersJustified
PROPERTIES
    EveryoneServed
