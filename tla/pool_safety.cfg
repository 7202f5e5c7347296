SPECIFICATION Spec
CONSTANTS
    j1 = j1  j2 = j2  ag = ag  sim = sim
    NoJob = NoJob  NoWorker = NoWorker
    Jobs = {j1, j2}
    DryRunJobs = {}
    WorkDirJobs = {j1}
    Watched = {j1}
    Workers = {ag, sim}
    AgentWorkers = {ag}
    DefaultWorkers = {ag}
    Matching <- AllMatch
    Unreliable = {ag}
    MaxWorkers = 1
    QueueCap = 1
    StreamCap = 1
INVARIANTS NoLeakedWorker WorkerExclusive HonestVerdict StreamLives
PROPERTY KeepsPromise
