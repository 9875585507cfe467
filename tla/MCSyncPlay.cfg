\* Two clients that ping and up to two further requests, in seven combinations.
SPECIFICATION FairSpec
CONSTANTS
    a1 = a1
    a2 = a2
    b1 = b1
    g1 = g1
    g2 = g2
    p1 = p1
    p2 = p2
    x1 = x1
    x2 = x2
    Sessions = {a1, a2, b1}
    UserOf <- Users
    DeviceOf <- Devices
    Rank <- Order
    GroupIds = {g1, g2}
    Requests = {p1, p2, x1, x2}
    Casts <- Meetings
INVARIANTS
    TypeOK
    OneGroupPerSession
    OwnerPresent
    NumbersRestoreOrder
PROPERTIES
    ViewsConverge
    AbandonedMemberLeaves
