SPECIFICATION Spec
CONSTANTS
    Goroutines = {g1, g2, g3}
    Conns = {c1, c2}
    MaxRetries <- maxBadConnRetries
PROPERTIES ObsoleteSessionsLeave DBCloseClosesPool
