\* Requests that meet on one or two sessions, two seeks at most, one crash.
SPECIFICATION FairSpec
CONSTANTS
    a = a
    b = b
    q1 = q1
    q2 = q2
    r1 = r1
    Sessions = {a, b}
    Seekers = {q1, q2}
    Stoppers = {r1}
    Casts <- Meetings
CHECK_DEADLOCK FALSE
INVARIANTS
    TypeOK
    Stoppable
    NoDuplicateTranscode
    ActiveRowsOwned
PROPERTIES
    AbandonedTranscodeEnds
    StopObeyed
