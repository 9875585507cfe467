\* One timer whose recording is interrupted by a crash.
SPECIFICATION Spec
CONSTANTS
    Timers = {t1}
    Tasks = {k1, k2}
    Starters = {s1}
    None = None
INVARIANTS
    RestartNotBlocked
