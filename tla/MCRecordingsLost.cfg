\* One recording and one editor of the document.
SPECIFICATION Spec
CONSTANTS
    Timers = {t1}
    Tasks = {k1}
    Starters = {s1, s2}
    None = None
INVARIANTS
    CompletedStays
