SPECIFICATION Spec
CONSTANTS
    Producer = {p}
    Server = {s1, s2}
    Flusher = f
    Subscriber = {a, b}
    MaxEvents = 3
    MaxEntries = 3
    None = None
CHECK_DEADLOCK FALSE
INVARIANTS TypeOK EntriesCounted
PROPERTIES ReachesAll SyncDrains RunsSerially
