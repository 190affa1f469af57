\* The FlowServer: the default pool, no idle limit, no stop, handlers that return 0.
CONSTANTS
    MaxClients = 2
    Worker = {w1, w2}
    Main = main
    NoCtx = none
    _max_events = 2
    _max_idle_sec = 0
    m_task_size_limit <- NoLimit
    ReadResults = {"READ_OVER", "READ_CONTINUE"}
    WriteResults = {"ALIVE"}
    Fails = FALSE
    Hangs = TRUE
    MaxSends = 2
    MaxStops = 0
SPECIFICATION FairSpec
PROPERTIES
    DataIsRead
