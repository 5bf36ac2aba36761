\* Two clients of a group with one task; the server is shut down.
SPECIFICATION Spec
CONSTANTS
    t = t
    c1 = c1
    c2 = c2
    g = g
    Nobody = Nobody
    Tasks = {t}
    Group <- SameGroup
    Conns = {c1, c2}
    Leavers = {c1}
    Readers = {c2}
    Watches <- WatchG
    FeedCap = 1
    MaxChanges = 2
CHECK_DEADLOCK FALSE
INVARIANTS
    GracefulShutdown
