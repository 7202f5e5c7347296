----------------------------- MODULE WorkerPool -----------------------------
(***************************************************************************)
(* The shared worker pool (internal/worker): a FIFO job queue, one         *)
(* dispatcher goroutine, one executor goroutine per assigned job, a        *)
(* bounded event stream per job, and the calls clients make concurrently   *)
(* (submit, cancel, remove, add / remove / list workers, stop).            *)
(*                                                                         *)
(* Each action is one critical section of the code; what the code does     *)
(* between two critical sections may interleave with everything else.      *)
(* Jobs and Workers are Go objects: a goroutine that holds a pointer to a  *)
(* job or a worker keeps writing to it after it has left the pool's maps.  *)
(***************************************************************************)
EXTENDS Integers, Sequences, FiniteSets

CONSTANTS
    Jobs,          \* job objects
    DryRunJobs,    \* jobs of type dry_run
    WorkDirJobs,   \* jobs with a WorkDir: a job-specific agent is connected
    Watched,       \* jobs whose stream a client reads
    Workers,       \* worker objects
    AgentWorkers,  \* workers whose Agent is not nil (the others are simulated)
    DefaultWorkers,\* workers created under the ID "default"
    Matching,      \* Matching[j]: agent workers whose name is j's preferred agent
    Unreliable,    \* agent workers whose connection may drop and come back
    MaxWorkers, QueueCap, StreamCap,
    NoJob, NoWorker

ASSUME PoolAssumption ==
    /\ DryRunJobs \subseteq Jobs /\ WorkDirJobs \subseteq Jobs /\ Watched \subseteq Jobs
    /\ AgentWorkers \subseteq Workers /\ DefaultWorkers \subseteq Workers
    /\ Unreliable \subseteq AgentWorkers
    /\ Matching \in [Jobs -> SUBSET AgentWorkers]
    /\ NoJob \notin Jobs /\ NoWorker \notin Workers
    /\ MaxWorkers \in Nat /\ QueueCap \in Nat \ {0} /\ StreamCap \in Nat \ {0}

VARIABLES
    workers,    \* the worker objects in Pool.workers
    adding,     \* AddAgentWorker calls past the limit check, still connecting
    wStatus,    \* Worker.Status ("new": not created yet)
    wJob,       \* Worker.CurrentJob
    connected,  \* agent workers for which Agent.Connected() holds
    jobs,       \* the job objects in Pool.jobs
    jStatus,    \* Job.Status ("none": not created yet)
    jWorker,    \* Job.WorkerID
    pc,         \* where the goroutine that carries the job is
    queue,      \* Pool.queue
    streams,    \* jobs with an entry in Pool.streams
    buf,        \* events buffered in a job's stream channel
    closed,     \* jobs whose stream channel is closed
    watch,      \* what the client reading the stream has seen
    jobCancels, \* jobs with an entry in Pool.jobCancels
    ctxDone,    \* jobs whose own context was cancelled
    stopped,    \* Pool.ctx is done
    dispatching,\* the dispatcher goroutine is alive
    cancelled,  \* history: jobs CancelJob has marked failed
    bumped      \* history: workers freed by a call while a goroutine used them

workerVars == <<workers, adding, wStatus, wJob, connected>>
jobVars    == <<jobs, jStatus, jWorker>>
streamVars == <<streams, buf, closed>>
ctxVars    == <<jobCancels, ctxDone, stopped, dispatching>>
history    == <<cancelled, bumped>>
vars == <<workerVars, jobVars, pc, queue, streamVars, watch, ctxVars, history>>

JobStatus    == {"none", "queued", "in_progress", "done", "failed"}
WorkerStatus == {"new", "available", "working", "disconnected"}
Event        == {"progress", "completed", "failed"}

\* Where a goroutine still uses the worker it was given: it has not yet run
\* the critical section that marks the worker available.
Holding == {"connect", "agent", "sim", "failing"}
Place   == Holding \cup {"none", "submit", "queue", "requeue", "dry",
                         "completed", "failed", "close", "ended", "dropped"}

Running(w) == {j \in Jobs : pc[j] \in Holding /\ jWorker[j] = w}

Terminal(j) == jStatus[j] \in {"done", "failed"}

Init ==
    /\ workers = {} /\ adding = {} /\ connected = {}
    /\ wStatus = [w \in Workers |-> "new"]
    /\ wJob    = [w \in Workers |-> NoJob]
    /\ jobs = {} /\ streams = {} /\ closed = {}
    /\ jStatus = [j \in Jobs |-> "none"]
    /\ jWorker = [j \in Jobs |-> NoWorker]
    /\ pc      = [j \in Jobs |-> "none"]
    /\ queue = << >>
    /\ buf   = [j \in Jobs |-> << >>]
    /\ watch = [j \in Jobs |-> "none"]
    /\ jobCancels = {} /\ ctxDone = {} /\ stopped = FALSE /\ dispatching = TRUE
    /\ cancelled = {} /\ bumped = {}

-----------------------------------------------------------------------------
(* Pieces shared by several operations.                                    *)

\* emitEvent: no stream, no event; a full channel drops the event.
emitEvent(j, e) ==
    buf' = IF j \in streams /\ Len(buf[j]) < StreamCap
           THEN [buf EXCEPT ![j] = Append(@, e)] ELSE buf

\* The worker half of the critical section every executor ends with.
MarkAvailable(w) ==
    /\ wStatus' = [wStatus EXCEPT ![w] = "available"]
    /\ wJob' = [wJob EXCEPT ![w] = NoJob]

\* The critical section itself: the job's verdict and the worker, whatever
\* either of them holds by now.
Settle(j, status, next) ==
    /\ MarkAvailable(jWorker[j])
    /\ jStatus' = [jStatus EXCEPT ![j] = status]
    /\ pc' = [pc EXCEPT ![j] = next]
    /\ UNCHANGED <<workers, adding, connected, jobs, jWorker, queue, watch,
                   ctxVars, history>>

-----------------------------------------------------------------------------
(* Clients: jobs.                                                          *)

\* SubmitWithOptions up to the queue send: the job record, then its stream.
Submit(j) ==
    /\ pc[j] = "none"
    /\ jobs' = jobs \cup {j}
    /\ jStatus' = [jStatus EXCEPT ![j] = "queued"]
    /\ streams' = streams \cup {j}
    /\ pc' = [pc EXCEPT ![j] = "submit"]
    /\ UNCHANGED <<workerVars, jWorker, queue, buf, closed, watch, ctxVars, history>>

\* Mutant of Enqueue: the send does not watch the pool context.
EnqueueBlocking(j) ==
    /\ pc[j] \in {"submit", "requeue"}
    /\ Len(queue) < QueueCap
    /\ queue' = Append(queue, j)
    /\ pc' = [pc EXCEPT ![j] = "queue"]
    /\ UNCHANGED <<workerVars, jobVars, streamVars, watch, ctxVars, history>>

\* The queue send, by SubmitWithOptions or by the re-queue goroutine: it
\* blocks while the queue is full, and gives up when the pool has stopped.
Enqueue(j) ==
    /\ pc[j] \in {"submit", "requeue"}
    /\ \/ /\ Len(queue) < QueueCap
          /\ queue' = Append(queue, j)
          /\ pc' = [pc EXCEPT ![j] = "queue"]
       \/ /\ stopped
          /\ pc' = [pc EXCEPT ![j] = "dropped"]
          /\ UNCHANGED queue
    /\ UNCHANGED <<workerVars, jobVars, streamVars, watch, ctxVars, history>>

\* A cached result: the job is born done and its stream holds everything.
SubmitCached(j) ==
    /\ pc[j] = "none"
    /\ jobs' = jobs \cup {j}
    /\ jStatus' = [jStatus EXCEPT ![j] = "done"]
    /\ streams' = streams \cup {j}
    /\ buf' = [buf EXCEPT ![j] = <<"progress", "progress", "completed">>]
    /\ closed' = closed \cup {j}
    /\ pc' = [pc EXCEPT ![j] = "ended"]
    /\ UNCHANGED <<workerVars, jWorker, queue, watch, ctxVars, history>>

\* The worker Pool.workers holds under j's WorkerID, if any: the "default"
\* entry may have been replaced by another object.
Holder(j) ==
    {w \in workers : \/ w = jWorker[j]
                     \/ {w, jWorker[j]} \subseteq DefaultWorkers}

CancelJob(j) ==
    /\ j \in jobs /\ ~Terminal(j)
    /\ ctxDone' = IF j \in jobCancels THEN ctxDone \cup {j} ELSE ctxDone
    /\ jStatus' = [jStatus EXCEPT ![j] = "failed"]
    /\ wStatus' = [w \in Workers |->
                     IF w \in Holder(j) THEN "available" ELSE wStatus[w]]
    /\ wJob' = [w \in Workers |-> IF w \in Holder(j) THEN NoJob ELSE wJob[w]]
    /\ cancelled' = cancelled \cup {j}
    /\ bumped' = bumped \cup Holder(j)
    /\ UNCHANGED <<workers, adding, connected, jobs, jWorker, pc, queue,
                   streamVars, watch, jobCancels, stopped, dispatching>>

\* Mutant of RemoveJob: the stream is closed and deleted with the record.
RemoveJobAndStream(j) ==
    /\ j \in jobs /\ Terminal(j)
    /\ jobs' = jobs \ {j} /\ streams' = streams \ {j}
    /\ closed' = closed \cup (streams \cap {j})
    /\ jobCancels' = jobCancels \ {j}
    /\ UNCHANGED <<workerVars, jStatus, jWorker, pc, queue, buf, watch,
                   ctxDone, stopped, dispatching, history>>

RemoveJob(j) ==
    /\ j \in jobs /\ Terminal(j)
    /\ jobs' = jobs \ {j}
    /\ jobCancels' = jobCancels \ {j}
    /\ UNCHANGED <<workerVars, jStatus, jWorker, pc, queue, streamVars, watch,
                   ctxDone, stopped, dispatching, history>>

\* Stream: the channel if the pool still has it, else nil.
Stream(j) ==
    /\ j \in Watched /\ watch[j] = "none" /\ pc[j] \notin {"none", "submit"}
    /\ watch' = [watch EXCEPT ![j] = IF j \in streams THEN "on" ELSE "nil"]
    /\ UNCHANGED <<workerVars, jobVars, pc, queue, streamVars, ctxVars, history>>

\* The client's receive loop: it ends at a verdict or when the channel closes.
Receive(j) ==
    /\ watch[j] = "on"
    /\ \/ /\ buf[j] # << >>
          /\ buf' = [buf EXCEPT ![j] = Tail(@)]
          /\ watch' = [watch EXCEPT ![j] =
               IF Head(buf[j]) \in {"completed", "failed"} THEN Head(buf[j]) ELSE @]
       \/ /\ buf[j] = << >> /\ j \in closed
          /\ watch' = [watch EXCEPT ![j] = "closed"]
          /\ UNCHANGED buf
    /\ UNCHANGED <<workerVars, jobVars, pc, queue, streams, closed, ctxVars, history>>

-----------------------------------------------------------------------------
(* Clients: workers.                                                       *)

Insert(w) ==
    workers' = (IF w \in DefaultWorkers THEN workers \ DefaultWorkers ELSE workers)
               \cup {w}

\* AddWorker, AddWorkerWithAgent (limit checked and entry made under one
\* lock) and AddDefaultWorker (no limit): workers without an Agent.
AddWorker(w) ==
    /\ w \notin AgentWorkers /\ wStatus[w] = "new"
    /\ w \in DefaultWorkers \/ Cardinality(workers) < MaxWorkers
    /\ Insert(w)
    /\ wStatus' = [wStatus EXCEPT ![w] = "available"]
    /\ UNCHANGED <<adding, wJob, connected, jobVars, pc, queue, streamVars,
                   watch, ctxVars, history>>

\* AddAgentWorker: the limit is checked, the lock released, the agent
\* connected (or not), and the entry made without a second check.
AddAgentWorker(w) ==
    /\ w \in AgentWorkers \ adding /\ wStatus[w] = "new"
    /\ Cardinality(workers) < MaxWorkers
    /\ adding' = adding \cup {w}
    /\ UNCHANGED <<workers, wStatus, wJob, connected, jobVars, pc, queue,
                   streamVars, watch, ctxVars, history>>

AgentConnected(w) ==
    /\ w \in adding /\ wStatus[w] = "new"
    /\ adding' = adding \ {w}
    /\ \/ /\ Insert(w)
          /\ wStatus' = [wStatus EXCEPT ![w] = "available"]
          /\ connected' = connected \cup {w}
       \/ UNCHANGED <<workers, wStatus, connected>>
    /\ UNCHANGED <<wJob, jobVars, pc, queue, streamVars, watch, ctxVars, history>>

\* RemoveWorker closes the agent and forgets the worker, working or not.
RemoveWorker(w) ==
    /\ w \in workers \ DefaultWorkers
    /\ workers' = workers \ {w}
    /\ connected' = connected \ {w}
    /\ UNCHANGED <<adding, wStatus, wJob, jobVars, pc, queue, streamVars,
                   watch, ctxVars, history>>

\* The status ListWorkers gives a worker from its agent's connection.
Refreshed(w) ==
    CASE w \in AgentWorkers /\ w \in connected /\ wStatus[w] = "disconnected"
           -> "available"
      [] w \in AgentWorkers /\ w \notin connected -> "disconnected"
      [] OTHER -> wStatus[w]

ListWorkers ==
    /\ wStatus' = [w \in Workers |-> IF w \in workers THEN Refreshed(w) ELSE wStatus[w]]
    /\ bumped' = bumped \cup {w \in workers : /\ wStatus[w] = "disconnected"
                                              /\ Refreshed(w) = "available"
                                              /\ Running(w) # {}}
    /\ UNCHANGED <<workers, adding, wJob, connected, jobVars, pc, queue,
                   streamVars, watch, ctxVars, cancelled>>

\* The agent's own connection (external): it drops and comes back.
Connection(w) ==
    /\ w \in workers \cap Unreliable /\ ~stopped
    /\ connected' = IF w \in connected THEN connected \ {w} ELSE connected \cup {w}
    /\ UNCHANGED <<workers, adding, wStatus, wJob, jobVars, pc, queue,
                   streamVars, watch, ctxVars, history>>

\* Stop cancels the pool context, which every job context derives from, and
\* closes the agents; then it waits for the goroutines.
Stop ==
    /\ ~stopped
    /\ stopped' = TRUE
    /\ connected' = connected \ workers
    /\ UNCHANGED <<workers, adding, wStatus, wJob, jobVars, pc, queue,
                   streamVars, watch, jobCancels, ctxDone, dispatching, history>>

-----------------------------------------------------------------------------
(* The dispatcher goroutine.                                               *)

Available == {w \in workers : wStatus[w] = "available"}
\* Mutant of Candidates: the fallback is any worker with a connected agent.
CandidatesBusy(j) ==
    LET exact == {w \in Available : \/ w \notin AgentWorkers
                                    \/ w \in connected \cap Matching[j]}
    IN  IF exact # {} THEN exact ELSE workers \cap connected

\* Workers assignJob may take, in the random order of a Go map: an available
\* one that is simulated or whose connected agent the job prefers; failing
\* those, any available one with a connected agent.
Candidates(j) ==
    LET exact    == {w \in Available : \/ w \notin AgentWorkers
                                       \/ w \in connected \cap Matching[j]}
        fallback == Available \cap connected
    IN  IF exact # {} THEN exact ELSE fallback

Popped(j) == dispatching /\ queue # << >> /\ Head(queue) = j
             /\ (\A i \in DryRunJobs : pc[i] # "dry")

\* assignJob: the job and the worker are tied together whatever the job's
\* status has become while it was queued.
AssignJob(j, w) ==
    /\ Popped(j) /\ j \notin DryRunJobs /\ w \in Candidates(j)
    /\ queue' = Tail(queue)
    /\ wStatus' = [wStatus EXCEPT ![w] = "working"]
    /\ wJob' = [wJob EXCEPT ![w] = j]
    /\ jStatus' = [jStatus EXCEPT ![j] = "in_progress"]
    /\ jWorker' = [jWorker EXCEPT ![j] = w]
    /\ jobCancels' = jobCancels \cup {j}
    /\ emitEvent(j, "progress")
    /\ pc' = [pc EXCEPT ![j] = IF w \notin AgentWorkers THEN "sim"
                               ELSE IF j \in WorkDirJobs THEN "connect" ELSE "agent"]
    /\ UNCHANGED <<workers, adding, connected, jobs, streams, closed, watch,
                   ctxDone, stopped, dispatching, history>>

\* No worker: a goroutine puts the job back after 500ms.
Defer(j) ==
    /\ Popped(j) /\ j \notin DryRunJobs /\ Candidates(j) = {}
    /\ queue' = Tail(queue)
    /\ pc' = [pc EXCEPT ![j] = "requeue"]
    /\ UNCHANGED <<workerVars, jobVars, streamVars, watch, ctxVars, history>>

\* executeDryRunJob runs inside the dispatcher and needs no worker.
StartDryRun(j) ==
    /\ Popped(j) /\ j \in DryRunJobs
    /\ queue' = Tail(queue)
    /\ jStatus' = [jStatus EXCEPT ![j] = "in_progress"]
    /\ emitEvent(j, "progress")
    /\ pc' = [pc EXCEPT ![j] = "dry"]
    /\ UNCHANGED <<workerVars, jobs, jWorker, streams, closed, watch, ctxVars, history>>

FinishDryRun(j) ==
    /\ pc[j] = "dry"
    /\ jStatus' = [jStatus EXCEPT ![j] = "done"]
    /\ pc' = [pc EXCEPT ![j] = "completed"]
    /\ UNCHANGED <<workerVars, jobs, jWorker, queue, streamVars, watch, ctxVars, history>>

DispatcherExit ==
    /\ dispatching /\ stopped
    /\ dispatching' = FALSE
    /\ UNCHANGED <<workerVars, jobVars, pc, queue, streamVars, watch, jobCancels,
                   ctxDone, stopped, history>>

-----------------------------------------------------------------------------
(* The executor goroutines.                                                *)

JobCtxDone(j) == j \in ctxDone \/ stopped

\* The job-specific agent connects, or the failure path below is taken.
ConnectAgent(j) ==
    /\ pc[j] = "connect"
    /\ pc' = [pc EXCEPT ![j] = "agent"]
    /\ UNCHANGED <<workerVars, jobVars, queue, streamVars, watch, ctxVars, history>>

\* Connect or SendPrompt returns an error: job_failed goes out first, the
\* records follow.
AgentUnusable(j) ==
    /\ pc[j] \in {"connect", "agent"}
    /\ emitEvent(j, "failed")
    /\ pc' = [pc EXCEPT ![j] = "failing"]
    /\ UNCHANGED <<workerVars, jobVars, queue, streams, closed, watch, ctxVars, history>>

\* Mutant of MarkUnusable: the failure path forgets the worker.
MarkUnusableOnlyJob(j) ==
    /\ pc[j] = "failing"
    /\ jStatus' = [jStatus EXCEPT ![j] = "failed"]
    /\ pc' = [pc EXCEPT ![j] = "close"]
    /\ UNCHANGED <<workerVars, jobs, jWorker, queue, streamVars, watch, ctxVars, history>>

\* Mutant of MarkUnusable: the failure is announced a second time.
MarkUnusableAgain(j) ==
    /\ pc[j] = "failing"
    /\ Settle(j, "failed", "failed")
    /\ UNCHANGED streamVars

MarkUnusable(j) ==
    /\ pc[j] = "failing"
    /\ Settle(j, "failed", "close")
    /\ UNCHANGED streamVars

\* An agent event, or a simulated message, that is neither complete nor error.
Output(j) ==
    /\ pc[j] \in {"agent", "sim"}
    /\ emitEvent(j, "progress")
    /\ UNCHANGED <<workerVars, jobVars, pc, queue, streams, closed, watch, ctxVars, history>>

\* EventComplete.
AgentComplete(j) ==
    /\ pc[j] = "agent"
    /\ emitEvent(j, "progress")
    /\ Settle(j, "done", "completed")
    /\ UNCHANGED <<streams, closed>>

\* Mutant of AgentError: an error leaves by the completion path.
AgentErrorCompletes(j) ==
    /\ pc[j] = "agent"
    /\ emitEvent(j, "progress")
    /\ Settle(j, "failed", "completed")
    /\ UNCHANGED <<streams, closed>>

\* EventError.
AgentError(j) ==
    /\ pc[j] = "agent"
    /\ emitEvent(j, "progress")
    /\ Settle(j, "failed", "failed")
    /\ UNCHANGED <<streams, closed>>

\* The agent's channel closes without either, as it does once the job's
\* context is cancelled: a job still in progress is done, any other keeps
\* its status, and job_completed is what the stream gets.
AgentClosed(j) ==
    /\ pc[j] = "agent"
    /\ Settle(j, IF jStatus[j] = "in_progress" THEN "done" ELSE jStatus[j], "completed")
    /\ UNCHANGED streamVars

\* A simulated job ends, or returns at once when its context is done.
SimFinish(j) ==
    /\ pc[j] = "sim"
    /\ Settle(j, "done", "completed")
    /\ UNCHANGED streamVars

SimReturn(j) ==
    /\ pc[j] = "sim" /\ JobCtxDone(j)
    /\ pc' = [pc EXCEPT ![j] = "ended"]
    /\ UNCHANGED <<workerVars, jobVars, queue, streamVars, watch, ctxVars, history>>

\* The deferred recover of both executors: no event is emitted.
Panic(j) ==
    /\ pc[j] \in {"connect", "agent", "sim"}
    /\ Settle(j, "failed", "close")
    /\ UNCHANGED streamVars

\* Mutant of EmitVerdict: the goroutine returns without closing the stream.
EmitVerdictOnly(j) ==
    /\ pc[j] \in {"completed", "failed"}
    /\ emitEvent(j, pc[j])
    /\ pc' = [pc EXCEPT ![j] = "ended"]
    /\ UNCHANGED <<workerVars, jobVars, queue, streams, closed, watch, ctxVars, history>>

EmitVerdict(j) ==
    /\ pc[j] \in {"completed", "failed"}
    /\ emitEvent(j, pc[j])
    /\ pc' = [pc EXCEPT ![j] = "close"]
    /\ UNCHANGED <<workerVars, jobVars, queue, streams, closed, watch, ctxVars, history>>

closeStream(j) ==
    /\ pc[j] = "close"
    /\ streams' = streams \ {j}
    /\ closed' = closed \cup (streams \cap {j})
    /\ jobCancels' = jobCancels \ {j}
    /\ pc' = [pc EXCEPT ![j] = "ended"]
    /\ UNCHANGED <<workerVars, jobVars, queue, buf, watch, ctxDone, stopped,
                   dispatching, history>>

-----------------------------------------------------------------------------
\* Steps the pool itself takes to move job j along.
Dispatch(j) == \/ \E w \in Workers : AssignJob(j, w)
               \/ Defer(j) \/ StartDryRun(j) \/ FinishDryRun(j)

\* The ways an executor leaves the agent (or the simulation).
EndTurn(j) == \/ AgentUnusable(j) \/ AgentComplete(j) \/ AgentError(j)
              \/ AgentClosed(j) \/ SimFinish(j) \/ SimReturn(j) \/ Panic(j)

Finish(j) == MarkUnusable(j) \/ EmitVerdict(j) \/ closeStream(j)

Client(j) == Submit(j) \/ SubmitCached(j) \/ CancelJob(j) \/ RemoveJob(j) \/ Stream(j)

Admin(w) == AddWorker(w) \/ AddAgentWorker(w) \/ RemoveWorker(w)

Next ==
    \/ \E j \in Jobs : \/ Client(j) \/ Enqueue(j) \/ Receive(j) \/ Dispatch(j)
                       \/ ConnectAgent(j) \/ Output(j) \/ EndTurn(j) \/ Finish(j)
    \/ \E w \in Workers : Admin(w) \/ AgentConnected(w) \/ Connection(w)
    \/ ListWorkers \/ Stop \/ DispatcherExit

Spec == Init /\ [][Next]_vars

\* Goroutines that can run do run; an agent's turn ends (by an event, an
\* error or the closing of its channel), however much it outputs before; a
\* client that asked for the stream keeps reading it. Clients may do nothing.
Fairness ==
    /\ \A j \in Jobs : /\ WF_vars(Enqueue(j)) /\ WF_vars(Dispatch(j))
                       /\ WF_vars(EndTurn(j)) /\ WF_vars(Finish(j))
                       /\ WF_vars(Receive(j))
    /\ WF_vars(DispatcherExit)

FairSpec == Spec /\ Fairness
-----------------------------------------------------------------------------
(* Properties.                                                             *)

\* The pool's maps, queue and streams hold what their types in types.go and
\* pool.go allow.
TypeOK ==
    /\ workers \subseteq Workers /\ adding \subseteq AgentWorkers
    /\ connected \subseteq AgentWorkers /\ bumped \subseteq Workers
    /\ wStatus \in [Workers -> WorkerStatus] /\ wJob \in [Workers -> Jobs \cup {NoJob}]
    /\ jobs \subseteq Jobs /\ streams \subseteq Jobs /\ closed \subseteq Jobs
    /\ jobCancels \subseteq Jobs /\ ctxDone \subseteq Jobs /\ cancelled \subseteq Jobs
    /\ jStatus \in [Jobs -> JobStatus] /\ jWorker \in [Jobs -> Workers \cup {NoWorker}]
    /\ pc \in [Jobs -> Place] /\ queue \in Seq(Jobs)
    /\ buf \in [Jobs -> Seq(Event)]
    /\ watch \in [Jobs -> {"none", "nil", "on", "completed", "failed", "closed"}]
    /\ stopped \in BOOLEAN /\ dispatching \in BOOLEAN

\* No worker slot leaks: while the pool runs, a worker marked working has a
\* goroutine that is executing its CurrentJob on it and will release it, on
\* every error path, after any cancellation, disconnection or late finish.
NoLeakedWorker ==
    \A w \in workers : wStatus[w] = "working" /\ ~stopped => wJob[w] \in Running(w)

\* A worker executes one job at a time, unless a call (CancelJob, or
\* ListWorkers after a reconnect) freed it while a goroutine was using it.
WorkerExclusive ==
    \A w \in Workers \ bumped : \A i, j \in Running(w) : i = j

\* The verdict on a job's stream is the verdict of its record, for every job
\* nobody cancelled.
HonestVerdict ==
    \A j \in Jobs \ cancelled : \A i \in 1..Len(buf[j]) :
        /\ buf[j][i] = "completed" => jStatus[j] = "done"
        /\ buf[j][i] = "failed" => jStatus[j] = "failed" \/ pc[j] = "failing"

\* From submission until its goroutine closes it, a job's stream can be found
\* and is open: no event of an unfinished job goes nowhere, whatever is
\* cancelled or removed meanwhile.
StreamLives ==
    \A j \in Jobs : pc[j] \notin {"none", "ended"} => j \in streams \ closed

\* What has become of a job's stream, for its reader.
StreamState ==
    [j \in Jobs |-> IF pc[j] = "none" THEN "none"
                    ELSE IF j \in closed THEN "closed"
                    ELSE IF pc[j] \in {"failing", "close"} THEN "said" ELSE "open"]

Promise == INSTANCE JobStream WITH stream <- StreamState, chan <- buf

\* The pool implements JobStream: whatever is cancelled, removed, stopped or
\* panics, a stream gets at most one verdict, as its last event, and nothing
\* is sent once it is closed.
KeepsPromise == Promise!Spec

\* A client reading a job's stream is told that it ended, while the pool runs
\* and has a worker to run it.
WatcherLearns ==
    \A j \in Jobs : (watch[j] = "on" /\ workers # {}) ~> (watch[j] # "on" \/ stopped)

\* The goroutines Stop waits for: the dispatcher, re-queue and executor ones.
WaitGroup == {j \in Jobs : pc[j] \in Holding \cup {"requeue", "dry", "completed",
                                                   "failed", "close"}}

\* Stop returns: once the pool is stopped its goroutines all end, for good.
StopReturns == stopped ~> [](~dispatching /\ WaitGroup = {})

\* Stated by the comments and the docs, and not what the code does:
\* "Max 5-6 workers total across all projects" (pool.go).
AtMostMaxWorkers == Cardinality(workers) <= MaxWorkers

\* "CancelJob cancels a running or queued job by ID" (pool.go): a cancelled
\* job is not run, and stays failed.
CancelledStaysFailed == [][\A j \in cancelled : jStatus'[j] = "failed"]_vars

\* "job_completed | Worker finished successfully" (docs/advanced/workers.md).
CompletedMeansSuccess ==
    \A j \in Jobs : "completed" \in {buf[j][i] : i \in 1..Len(buf[j])}
                       => jStatus[j] = "done"

\* "the stream is cleaned up lazily by RemoveJob or pool shutdown" (pool.go,
\* SubmitCached): a finished job that was removed keeps no stream.
RemovedHasNoStream ==
    \A j \in Jobs \ jobs : pc[j] = "ended" => j \notin streams
=============================================================================
