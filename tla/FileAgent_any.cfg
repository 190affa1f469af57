\* A reader that starts at the end of the file, and a writer that may do
\* anything: rename, delete, truncate, and use inode numbers again.
CONSTANTS
    is_tail = TRUE
    _run_time_limit = 3
    RunTimeGarbage = {0, 2}
    req_size = 2
    Ino = {1, 2}
    MaxGen = 3
    MaxSize = 3
    Unlinks = TRUE
    Truncates = TRUE
SPECIFICATION Spec
INVARIANTS
    AcceptedIsRead
    ChunkNotEmpty
    NoGapInFile
    RereadOnlyOnReset
