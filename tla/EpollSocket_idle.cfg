\* Peers that send once and then are silent; the sweep closes them, or a stop.
CONSTANTS
    MaxClients = 2
    Worker = {w1, w2}
    Main = main
    NoCtx = none
    _max_events = 2
    _max_idle_sec = 1
    m_task_size_limit <- NoLimit
    ReadResults = {"READ_OVER", "READ_CONTINUE", "unknown"}
    WriteResults = {"ALIVE"}
    Fails = FALSE
    Hangs = FALSE
    MaxSends = 1
    MaxStops = 1
SPECIFICATION FairSpec
INVARIANTS
    SweepSparesReading
PROPERTIES
    IdleIsClosed
    StopEnds
