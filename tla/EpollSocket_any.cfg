\* Three clients, two workers, a pool with a limit, failing calls and a stop.
CONSTANTS
    MaxClients = 3
    Worker = {w1, w2}
    Main = main
    NoCtx = none
    _max_events = 2
    _max_idle_sec = 0
    m_task_size_limit = 1
    ReadResults = {"READ_OVER", "READ_CONTINUE", "READ_CLOSE", "unknown"}
    WriteResults = {"ALIVE", "CLOSE", "CONTINUE", "unknown"}
    Fails = TRUE
    Hangs = TRUE
    MaxSends = 1
    MaxStops = 1
SPECIFICATION Spec
SYMMETRY WorkerSymmetry
INVARIANTS
    Safe
    OnePlace
