\* A reader that starts at 0, and a writer that rotates by renaming.
CONSTANTS
    is_tail = FALSE
    _run_time_limit <- NoLimit
    RunTimeGarbage = {0}
    req_size = 1
    Ino = {1, 2, 3}
    MaxGen = 3
    MaxSize = 2
    Unlinks = FALSE
    Truncates = FALSE
SPECIFICATION FairSpec
INVARIANTS
    SyncedPrefixRead
PROPERTIES
    NewFileDelivered
