\* Two workers, creation may fail, and the pool may be started again.
CONSTANTS
    Task = {k1, k2, k3}
    NoTask = none
    m_pool_size = 2
    m_task_size_limit = 1
    CreateFails = TRUE
    MaxStarts = 2
SPECIFICATION FairSpec
INVARIANTS
    Safe
    NoLostWakeup
    AllExited
PROPERTIES
    IsTaskQueue
    AcceptedRuns
    DestroyEnds
