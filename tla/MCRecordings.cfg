\* One timer that is started twice, by the scheduler and a request.
SPECIFICATION Spec
CONSTANTS
    Timers = {t1}
    Tasks = {k1, k2}
    Starters = {s1, s2}
    None = None
SYMMETRY Symmetry
INVARIANTS
    TypeOK
    ShutdownBarrier
    RegistriesHaveTasks
    OneWriterPerFile
