CONSTANTS
    Watcher = {v, w, x}
    Session = {1, 2, 3, 4}
    Steady = w
    MaxDeath = 1
    None = None
    Stale = Stale
SPECIFICATION Spec
INVARIANTS TypeOK ServingIsReachable SummaryIsReadOnly
PROPERTY StaleIsTakenOver
