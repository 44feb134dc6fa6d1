SPECIFICATION HistorySpec
CONSTANTS
    Targets = {t1, t2, t3}
    NoTarget = NoTarget
    TwoAddressed = {t1, t2, t3}
    Constructors = {k1, k2}
    Answers <- SomeShared
    PreferenceTTL = 2
    MaxPreferences = 2
    CleansUp = {k2}
    MaxClock = 3
SYMMETRY Symmetry
INVARIANTS CacheIsBounded PreferencesAreVerified
PROPERTIES LivePreferencesAreKept
