\* One session, one seek, one stop request.
SPECIFICATION Spec
CONSTANTS
    a = a
    b = b
    q1 = q1
    q2 = q2
    r1 = r1
    Sessions = {a, b}
    Seekers = {q1, q2}
    Stoppers = {r1}
    Casts <- OneSession
CHECK_DEADLOCK FALSE
INVARIANTS
    StopReachesProcess
