SPECIFICATION Spec
CONSTANTS
    Backends = {b1, b2}
    Threads = {t1, t2}
    Operators = {o1, o2}
    Settings <- MCSettings
    Unset = unset
    NoBackend = none
SYMMETRY Symmetry
INVARIANTS TypeOK RaceIsBounded NewBreakersCanTrip SaveTakesEffect
