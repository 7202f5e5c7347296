SPECIFICATION FairSpec
CONSTANTS
    j1 = j1  j2 = j2  ag = ag  sim = sim
    NoJob = NoJob  NoWorker = NoWorker
    Jobs = {j1, j2}
    DryRunJobs = {j2}
    WorkDirJobs = {j1}
    Watched = {j1, j2}
    Workers = {ag}
    AgentWorkers = {ag}
    DefaultWorkers = {ag}
    Matching <- AllMatch
    Unreliable = {}
    MaxWorkers = 1
    QueueCap = 1
    StreamCap = 1
PROPERTIES WatcherLearns StopReturns
