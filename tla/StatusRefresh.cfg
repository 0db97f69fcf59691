SPECIFICATION Spec
CONSTANTS
    c1 = c1
    c2 = c2
    Callers = {c1, c2}
    MaxBlock = 1
INVARIANTS
    AnswerRecentEnough
PROPERTIES
    EntryNeverGoesBack
    EveryCallReturns
    KeepsPromise
