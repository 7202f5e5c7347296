-------------------------- MODULE WorkerPoolProofs --------------------------
(***************************************************************************)
(* Proofs about WorkerPool, for any number of jobs and workers, any queue  *)
(* and stream capacity, and any mix of agents and simulated workers: its   *)
(* types, and the safety of worker slots and job streams.                  *)
(***************************************************************************)
EXTENDS WorkerPool, TLAPS

\* Places of a job the dispatcher has not started.
Waiting == {"none", "submit", "queue", "requeue"}

\* A queued job is in the queue once and is carried by nobody else.
QueueInv ==
    /\ \A i \in 1..Len(queue) : pc[queue[i]] = "queue"
    /\ \A i, k \in 1..Len(queue) : queue[i] = queue[k] => i = k

\* No context belongs to a job that was not started.
NoEarlyCtx == \A j \in Jobs : pc[j] \in Waiting => j \notin ctxDone \cup jobCancels

\* While the pool runs, cancelling a job's context came with freeing its worker.
CancelFrees ==
    ~stopped => \A j \in ctxDone : \A w \in workers :
                    wStatus[w] = "working" => wJob[w] # j

\* A goroutine that uses a worker nobody bumped is the one the worker records.
Occupied ==
    \A w \in Workers \ bumped : \A j \in Running(w) :
        wJob[w] = j /\ wStatus[w] \in {"working", "disconnected"}

\* A job that was never submitted has no closed channel.
Unborn == \A j \in Jobs : pc[j] = "none" => j \notin closed

SlotInv == QueueInv /\ NoEarlyCtx /\ CancelFrees /\ Occupied /\ NoLeakedWorker

StreamInv == StreamLives /\ Unborn

-----------------------------------------------------------------------------
(* Types.                                                                  *)

LEMMA InitType == Init => TypeOK
<1> SUFFICES ASSUME Init PROVE TypeOK
  OBVIOUS
<1>1. queue \in Seq(Jobs) /\ buf \in [Jobs -> Seq(Event)]
  BY DEF Init
<1>2. stopped \in BOOLEAN /\ dispatching \in BOOLEAN
  BY Zenon DEF Init
<1> QED
  BY <1>1, <1>2, PoolAssumption DEF Init, TypeOK, JobStatus, WorkerStatus, Place, Holding

\* emitEvent keeps every buffer a sequence of events.
LEMMA EmitType ==
    ASSUME NEW j \in Jobs, NEW e \in Event, buf \in [Jobs -> Seq(Event)], emitEvent(j, e)
    PROVE  buf' \in [Jobs -> Seq(Event)]
<1>1. Append(buf[j], e) \in Seq(Event)
  OBVIOUS
<1> QED
  BY <1>1 DEF emitEvent

\* Settle keeps the types of what it changes.
LEMMA SettleType ==
    ASSUME TypeOK, NEW j \in Jobs, NEW s \in JobStatus, NEW p \in Place, Settle(j, s, p),
           buf' \in [Jobs -> Seq(Event)], streams' = streams, closed' = closed
    PROVE  TypeOK'
  BY PoolAssumption DEF TypeOK, Settle, MarkAvailable, ctxVars, history, WorkerStatus

LEMMA NextType == TypeOK /\ [Next]_vars => TypeOK'
<1> SUFFICES ASSUME TypeOK, [Next]_vars PROVE TypeOK'
  OBVIOUS
<1> USE PoolAssumption DEF workerVars, jobVars, streamVars, ctxVars, history
<1> USE DEF TypeOK, JobStatus, WorkerStatus, Place, Holding, Event
<1>1. ASSUME NEW j \in Jobs, Client(j) PROVE TypeOK'
  <2>1. CASE Submit(j) BY <2>1 DEF Submit
  <2>2. CASE SubmitCached(j)
    <3>1. <<"progress", "progress", "completed">> \in Seq(Event)
      OBVIOUS
    <3> QED BY <2>2, <3>1 DEF SubmitCached
  <2>3. CASE CancelJob(j) BY <2>3 DEF CancelJob, Holder
  <2>4. CASE RemoveJob(j) BY <2>4 DEF RemoveJob
  <2>5. CASE Stream(j) BY <2>5 DEF Stream
  <2> QED BY <1>1, <2>1, <2>2, <2>3, <2>4, <2>5 DEF Client
<1>2. ASSUME NEW j \in Jobs, Enqueue(j) PROVE TypeOK'
  <2>1. Append(queue, j) \in Seq(Jobs)
    OBVIOUS
  <2> QED BY <1>2, <2>1, ZenonT(40) DEF Enqueue
<1>3. ASSUME NEW j \in Jobs, Receive(j) PROVE TypeOK'
  <2>1. ASSUME buf[j] # << >> PROVE Tail(buf[j]) \in Seq(Event) /\ Head(buf[j]) \in Event
    BY <2>1
  <2>2. CASE buf[j] # << >>
    <3> DEFINE v == IF Head(buf[j]) \in {"completed", "failed"} THEN Head(buf[j]) ELSE watch[j]
    <3>1. buf' = [buf EXCEPT ![j] = Tail(buf[j])] /\ watch' = [watch EXCEPT ![j] = v]
      BY <1>3, <2>2 DEF Receive
    <3>2. v \in {"none", "nil", "on", "completed", "failed", "closed"}
      BY DEF TypeOK
    <3> HIDE DEF v
    <3>3. buf' \in [Jobs -> Seq(Event)]
      BY <2>1, <2>2, <3>1
    <3>4. watch' \in [Jobs -> {"none", "nil", "on", "completed", "failed", "closed"}]
      BY <3>1, <3>2
    <3> QED BY <1>3, <3>3, <3>4 DEF Receive
  <2>3. CASE buf[j] = << >>
    BY <1>3, <2>3, ZenonT(40) DEF Receive
  <2> QED BY <2>2, <2>3
<1>4. ASSUME NEW j \in Jobs, Dispatch(j) PROVE TypeOK'
  <2>1. ASSUME Popped(j) PROVE Tail(queue) \in Seq(Jobs)
    BY <2>1 DEF Popped
  <2>2. ASSUME NEW w \in Workers, AssignJob(j, w) PROVE TypeOK'
    <3>1. buf' \in [Jobs -> Seq(Event)]
      BY <2>2, EmitType DEF AssignJob
    <3> QED BY <2>1, <2>2, <3>1 DEF AssignJob
  <2>3. CASE Defer(j) BY <2>1, <2>3 DEF Defer
  <2>4. CASE StartDryRun(j)
    <3>1. buf' \in [Jobs -> Seq(Event)]
      BY <2>4, EmitType DEF StartDryRun
    <3> QED BY <2>1, <2>4, <3>1 DEF StartDryRun
  <2>5. CASE FinishDryRun(j) BY <2>5 DEF FinishDryRun
  <2> QED BY <1>4, <2>2, <2>3, <2>4, <2>5 DEF Dispatch
<1>5. ASSUME NEW j \in Jobs, ConnectAgent(j) PROVE TypeOK'
  BY <1>5 DEF ConnectAgent
<1>6. ASSUME NEW j \in Jobs, Output(j) PROVE TypeOK'
  <2>1. buf' \in [Jobs -> Seq(Event)]
    BY <1>6, EmitType DEF Output
  <2> QED BY <1>6, <2>1 DEF Output
<1>7. ASSUME NEW j \in Jobs, EndTurn(j) PROVE TypeOK'
  <2>1. CASE AgentUnusable(j)
    <3>1. buf' \in [Jobs -> Seq(Event)]
      BY <2>1, EmitType DEF AgentUnusable
    <3> QED BY <2>1, <3>1 DEF AgentUnusable
  <2>2. CASE AgentComplete(j)
    <3>1. buf' \in [Jobs -> Seq(Event)]
      BY <2>2, EmitType DEF AgentComplete
    <3> QED BY <2>2, <3>1, SettleType DEF AgentComplete
  <2>3. CASE AgentError(j)
    <3>1. buf' \in [Jobs -> Seq(Event)]
      BY <2>3, EmitType DEF AgentError
    <3> QED BY <2>3, <3>1, SettleType DEF AgentError
  <2>4. CASE AgentClosed(j) BY <2>4, SettleType, ZenonT(40) DEF AgentClosed
  <2>5. CASE SimFinish(j) BY <2>5, SettleType DEF SimFinish
  <2>6. CASE SimReturn(j) BY <2>6 DEF SimReturn
  <2>7. CASE Panic(j) BY <2>7, SettleType DEF Panic
  <2> QED BY <1>7, <2>1, <2>2, <2>3, <2>4, <2>5, <2>6, <2>7 DEF EndTurn
<1>8. ASSUME NEW j \in Jobs, Finish(j) PROVE TypeOK'
  <2>1. CASE MarkUnusable(j) BY <2>1, SettleType DEF MarkUnusable
  <2>2. CASE EmitVerdict(j)
    <3>1. buf' \in [Jobs -> Seq(Event)]
      BY <2>2, EmitType DEF EmitVerdict
    <3> QED BY <2>2, <3>1 DEF EmitVerdict
  <2>3. CASE closeStream(j) BY <2>3 DEF closeStream
  <2> QED BY <1>8, <2>1, <2>2, <2>3 DEF Finish
<1>9. ASSUME NEW w \in Workers, Admin(w) \/ AgentConnected(w) \/ Connection(w) PROVE TypeOK'
  <2>1. CASE AddWorker(w) BY <2>1 DEF AddWorker, Insert
  <2>2. CASE AddAgentWorker(w) BY <2>2 DEF AddAgentWorker
  <2>3. CASE RemoveWorker(w) BY <2>3 DEF RemoveWorker
  <2>4. CASE AgentConnected(w)
    <3>1. workers' \subseteq Workers /\ adding' \subseteq AgentWorkers
          /\ connected' \subseteq AgentWorkers
      BY <2>4 DEF AgentConnected, Insert
    <3>2. wStatus' \in [Workers -> WorkerStatus]
      BY <2>4 DEF AgentConnected
    <3> QED BY <2>4, <3>1, <3>2 DEF AgentConnected
  <2>5. CASE Connection(w) BY <2>5 DEF Connection
  <2> QED BY <1>9, <2>1, <2>2, <2>3, <2>4, <2>5 DEF Admin
<1>10. CASE ListWorkers BY <1>10 DEF ListWorkers, Refreshed
<1>11. CASE Stop
  <2>1. stopped' \in BOOLEAN
    BY <1>11, Zenon DEF Stop
  <2> QED BY <1>11, <2>1 DEF Stop
<1>12. CASE DispatcherExit
  <2>1. dispatching' \in BOOLEAN
    BY <1>12, Zenon DEF DispatcherExit
  <2> QED BY <1>12, <2>1 DEF DispatcherExit
<1>13. CASE UNCHANGED vars BY <1>13 DEF vars
<1> QED
  BY <1>1, <1>2, <1>3, <1>4, <1>5, <1>6, <1>7, <1>8, <1>9, <1>10, <1>11, <1>12, <1>13 DEF Next

\* Every reachable state of the pool is well typed, for all constants.
THEOREM TypeCorrect == Spec => []TypeOK
  BY InitType, NextType, PTL DEF Spec

-----------------------------------------------------------------------------
(* Worker slots.                                                           *)

LEMMA InitSlot == Init => SlotInv
  BY DEF Init, SlotInv, QueueInv, NoEarlyCtx, CancelFrees, Occupied, NoLeakedWorker,
         Running, Holding, Waiting

\* Steps that touch none of what the slot invariant reads.
LEMMA FrameSlot ==
    ASSUME SlotInv, UNCHANGED <<workers, wStatus, wJob, jWorker, pc, queue, jobCancels,
                                ctxDone, stopped, bumped>>
    PROVE  SlotInv'
  BY DEF SlotInv, QueueInv, NoEarlyCtx, CancelFrees, Occupied, NoLeakedWorker, Running

\* Steps of a goroutine that leave the workers alone and move job j from one
\* place to another: either it keeps using its worker or it never had one.
LEMMA MoveSlot ==
    ASSUME TypeOK, SlotInv, NEW j \in Jobs, NEW p \in Place,
           pc[j] # "queue", p # "queue",
           p \in Waiting => pc[j] \in Waiting,
           pc[j] \in Holding <=> p \in Holding,
           pc' = [pc EXCEPT ![j] = p], jobCancels' \subseteq jobCancels,
           UNCHANGED <<workers, wStatus, wJob, jWorker, queue, ctxDone, stopped, bumped>>
    PROVE  SlotInv'
<1> USE DEF TypeOK, SlotInv, QueueInv, NoEarlyCtx, Waiting
<1>1. QueueInv' /\ NoEarlyCtx'
  OBVIOUS
<1>2. \A w : Running(w)' = Running(w)
  BY DEF Running
<1>3. CancelFrees' /\ Occupied' /\ NoLeakedWorker'
  BY <1>2 DEF CancelFrees, Occupied, NoLeakedWorker
<1> QED
  BY <1>1, <1>3

\* The critical section that ends an execution.
LEMMA SettleSlot ==
    ASSUME TypeOK, SlotInv, NEW j \in Jobs, pc[j] \in Holding, NEW s \in JobStatus,
           NEW p \in {"completed", "failed", "close"}, Settle(j, s, p)
    PROVE  SlotInv'
<1> DEFINE v == jWorker[j]
<1>1. /\ wStatus' = [wStatus EXCEPT ![v] = "available"]
      /\ wJob' = [wJob EXCEPT ![v] = NoJob]
      /\ pc' = [pc EXCEPT ![j] = p]
      /\ UNCHANGED <<workers, jWorker, queue, jobCancels, ctxDone, stopped, bumped>>
  BY DEF Settle, MarkAvailable, ctxVars, history
<1>2. QueueInv' /\ NoEarlyCtx'
  <2>1. pc[j] # "queue" /\ p \notin Waiting
    BY DEF Holding, Waiting
  <2>2. \A i \in 1..Len(queue) : queue[i] \in Jobs
    BY DEF TypeOK
  <2>3. QueueInv'
    BY <1>1, <2>1, <2>2 DEF TypeOK, SlotInv, QueueInv
  <2>4. NoEarlyCtx'
    BY <1>1, <2>1 DEF TypeOK, SlotInv, NoEarlyCtx
  <2> QED BY <2>3, <2>4
<1>3. CancelFrees'
  BY <1>1 DEF TypeOK, SlotInv, CancelFrees
<1>4. NoLeakedWorker'
  <2> SUFFICES ASSUME NEW w \in workers, wStatus'[w] = "working", ~stopped
               PROVE  wJob'[w] \in Running(w)'
    BY <1>1 DEF NoLeakedWorker
  <2>1. w # v /\ wStatus[w] = "working" /\ wJob'[w] = wJob[w]
    BY <1>1 DEF TypeOK
  <2>2. wJob[w] \in Running(w) /\ wJob[w] # j
    BY <2>1 DEF SlotInv, NoLeakedWorker, Running
  <2> QED BY <1>1, <2>1, <2>2 DEF Running, TypeOK
<1>5. Occupied'
  <2> SUFFICES ASSUME NEW w \in Workers, w \notin bumped, NEW i \in Running(w)'
               PROVE  wJob'[w] = i /\ wStatus'[w] \in {"working", "disconnected"}
    BY <1>1 DEF Occupied
  <2>1. i \in Running(w) /\ i # j
    BY <1>1 DEF Running, TypeOK, Holding
  <2>2. wJob[w] = i /\ wStatus[w] \in {"working", "disconnected"}
    BY <2>1 DEF SlotInv, Occupied
  <2>3. w # v
    <3> SUFFICES ASSUME w = v PROVE FALSE
      OBVIOUS
    <3>1. j \in Running(w)
      BY DEF Running
    <3> QED BY <2>1, <2>2, <3>1 DEF SlotInv, Occupied
  <2> QED BY <1>1, <2>2, <2>3 DEF TypeOK
<1> QED
  BY <1>2, <1>3, <1>4, <1>5 DEF SlotInv

\* What popping the queue leaves of the queue invariant.
LEMMA PopQueue ==
    ASSUME TypeOK, QueueInv, NEW j \in Jobs, Popped(j), NEW p \in Place,
           queue' = Tail(queue), pc' = [pc EXCEPT ![j] = p]
    PROVE  QueueInv' /\ pc[j] = "queue"
<1>1. queue \in Seq(Jobs) /\ queue # << >> /\ queue[1] = j
  BY DEF TypeOK, Popped
<1>2. /\ Len(queue') = Len(queue) - 1
      /\ \A i \in 1..Len(queue') : queue'[i] = queue[i + 1] /\ i + 1 \in 1..Len(queue)
  BY <1>1
<1>3. 1 \in 1..Len(queue) /\ pc[j] = "queue"
  BY <1>1 DEF QueueInv
<1>4. ASSUME NEW i \in 1..Len(queue') PROVE queue'[i] # j /\ pc[queue'[i]] = "queue" /\ queue'[i] \in Jobs
  BY <1>1, <1>2, <1>3, <1>4 DEF QueueInv
<1>5. \A i \in 1..Len(queue') : pc'[queue'[i]] = "queue"
  BY <1>4 DEF TypeOK
<1>6. \A i, k \in 1..Len(queue') : queue'[i] = queue'[k] => i = k
  BY <1>1, <1>2 DEF QueueInv
<1> QED
  BY <1>3, <1>5, <1>6 DEF QueueInv

LEMMA AssignSlot ==
    ASSUME TypeOK, SlotInv, NEW j \in Jobs, NEW w \in Workers, AssignJob(j, w)
    PROVE  SlotInv'
<1> DEFINE p == IF w \notin AgentWorkers THEN "sim"
                ELSE IF j \in WorkDirJobs THEN "connect" ELSE "agent"
<1>1. p \in Holding /\ p \in Place
  BY DEF Holding, Place
<1> HIDE DEF p
<1>2. /\ wStatus' = [wStatus EXCEPT ![w] = "working"]
      /\ wJob' = [wJob EXCEPT ![w] = j]
      /\ jWorker' = [jWorker EXCEPT ![j] = w]
      /\ pc' = [pc EXCEPT ![j] = p]
      /\ jobCancels' = jobCancels \cup {j}
      /\ UNCHANGED <<workers, ctxDone, stopped, bumped>>
      /\ queue' = Tail(queue) /\ Popped(j) /\ w \in Candidates(j)
  BY DEF AssignJob, history, p
<1>3. QueueInv' /\ pc[j] = "queue"
  BY <1>1, <1>2, PopQueue DEF SlotInv
<1>4. j \notin ctxDone
  BY <1>3 DEF SlotInv, NoEarlyCtx, Waiting
<1>5. NoEarlyCtx'
  BY <1>1, <1>2, <1>4 DEF TypeOK, SlotInv, NoEarlyCtx, Waiting, Holding
<1>6. CancelFrees'
  BY <1>2, <1>4 DEF TypeOK, SlotInv, CancelFrees
<1>7. \A u \in Workers : \A i \in Jobs :
         i \in Running(u)' <=> (IF i = j THEN u = w ELSE i \in Running(u))
  BY <1>1, <1>2 DEF TypeOK, Running
<1>8. NoLeakedWorker'
  <2> SUFFICES ASSUME NEW u \in workers, wStatus'[u] = "working", ~stopped
               PROVE  wJob'[u] \in Running(u)'
    BY <1>2 DEF NoLeakedWorker
  <2>1. CASE u = w
    BY <1>2, <1>7, <2>1 DEF TypeOK
  <2>2. CASE u # w
    <3>1. wJob'[u] = wJob[u] /\ wJob[u] \in Running(u) /\ u \in Workers
      BY <1>2, <2>2 DEF TypeOK, SlotInv, NoLeakedWorker
    <3>2. wJob[u] # j
      BY <1>3, <3>1 DEF Running, Holding
    <3> QED BY <1>7, <3>1, <3>2 DEF Running
  <2> QED BY <2>1, <2>2
<1>9. Occupied'
  <2> SUFFICES ASSUME NEW u \in Workers, u \notin bumped, NEW i \in Running(u)'
               PROVE  wJob'[u] = i /\ wStatus'[u] \in {"working", "disconnected"}
    BY <1>2 DEF Occupied
  <2>0. i \in Jobs
    BY DEF Running
  <2>1. CASE i = j
    BY <1>2, <1>7, <2>0, <2>1 DEF TypeOK
  <2>2. CASE i # j
    <3>1. wJob[u] = i /\ wStatus[u] \in {"working", "disconnected"}
      BY <1>7, <2>0, <2>2 DEF SlotInv, Occupied
    <3>2. u # w
      BY <1>2, <3>1 DEF Candidates, Available
    <3> QED BY <1>2, <3>1, <3>2 DEF TypeOK
  <2> QED BY <2>1, <2>2
<1> QED
  BY <1>3, <1>5, <1>6, <1>8, <1>9 DEF SlotInv

LEMMA CancelSlot ==
    ASSUME TypeOK, SlotInv, NEW j \in Jobs, CancelJob(j)
    PROVE  SlotInv'
<1>1. /\ wStatus' = [w \in Workers |-> IF w \in Holder(j) THEN "available" ELSE wStatus[w]]
      /\ wJob' = [w \in Workers |-> IF w \in Holder(j) THEN NoJob ELSE wJob[w]]
      /\ ctxDone' = IF j \in jobCancels THEN ctxDone \cup {j} ELSE ctxDone
      /\ bumped' = bumped \cup Holder(j)
      /\ UNCHANGED <<workers, jWorker, pc, queue, jobCancels, stopped>>
  BY DEF CancelJob
<1>2. QueueInv' /\ NoEarlyCtx'
  BY <1>1 DEF SlotInv, QueueInv, NoEarlyCtx
<1>3. \A w : Running(w)' = Running(w)
  BY <1>1 DEF Running
<1>4. NoLeakedWorker'
  BY <1>1, <1>3 DEF TypeOK, SlotInv, NoLeakedWorker
<1>5. Occupied'
  BY <1>1, <1>3 DEF SlotInv, Occupied
<1>6. CancelFrees'
  <2> SUFFICES ASSUME ~stopped, NEW i \in ctxDone', NEW w \in workers, wStatus'[w] = "working"
               PROVE  wJob'[w] # i
    BY <1>1 DEF CancelFrees
  <2>1. w \in Workers /\ w \notin Holder(j) /\ wStatus[w] = "working" /\ wJob'[w] = wJob[w]
    BY <1>1 DEF TypeOK
  <2>2. CASE i \in ctxDone
    BY <2>1, <2>2 DEF SlotInv, CancelFrees
  <2>3. CASE i = j
    <3>1. wJob[w] \in Running(w)
      BY <2>1 DEF SlotInv, NoLeakedWorker
    <3>2. w # jWorker[j]
      BY <2>1 DEF Holder
    <3> QED BY <2>1, <2>3, <3>1, <3>2 DEF Running
  <2> QED BY <1>1, <2>2, <2>3
<1> QED
  BY <1>2, <1>4, <1>5, <1>6 DEF SlotInv

\* A worker that enters the pool is idle; one that leaves it takes nothing along.
LEMMA WorkersSlot ==
    ASSUME TypeOK, SlotInv, NEW w \in Workers,
           UNCHANGED <<wJob, jWorker, pc, queue, jobCancels, ctxDone, stopped, bumped>>,
           \/ workers' \subseteq workers /\ wStatus' = wStatus
           \/ /\ wStatus[w] = "new" /\ workers' \subseteq workers \cup {w}
              /\ wStatus' = [wStatus EXCEPT ![w] = "available"]
    PROVE  SlotInv'
<1>1. QueueInv' /\ NoEarlyCtx'
  BY DEF SlotInv, QueueInv, NoEarlyCtx
<1>2. \A u : Running(u)' = Running(u)
  BY DEF Running
<1>3. CancelFrees' /\ NoLeakedWorker'
  BY <1>2 DEF TypeOK, SlotInv, CancelFrees, NoLeakedWorker
<1>4. Occupied'
  BY <1>2 DEF TypeOK, SlotInv, Occupied
<1> QED
  BY <1>1, <1>3, <1>4 DEF SlotInv

LEMMA ListSlot == TypeOK /\ SlotInv /\ ListWorkers => SlotInv'
<1> SUFFICES ASSUME TypeOK, SlotInv, ListWorkers PROVE SlotInv'
  OBVIOUS
<1>1. /\ wStatus' = [w \in Workers |-> IF w \in workers THEN Refreshed(w) ELSE wStatus[w]]
      /\ UNCHANGED <<workers, wJob, jWorker, pc, queue, jobCancels, ctxDone, stopped>>
      /\ bumped \subseteq bumped'
  BY DEF ListWorkers, ctxVars, jobVars
<1>2. QueueInv' /\ NoEarlyCtx'
  BY <1>1 DEF SlotInv, QueueInv, NoEarlyCtx
<1>3. \A u : Running(u)' = Running(u)
  BY <1>1 DEF Running
<1>4. \A w \in Workers : wStatus'[w] = "working" => wStatus[w] = "working"
  BY <1>1 DEF Refreshed
<1>5. CancelFrees' /\ NoLeakedWorker'
  BY <1>1, <1>3, <1>4 DEF TypeOK, SlotInv, CancelFrees, NoLeakedWorker
<1>6. Occupied'
  <2> SUFFICES ASSUME NEW w \in Workers, w \notin bumped', NEW j \in Running(w)
               PROVE  wJob[w] = j /\ wStatus'[w] \in {"working", "disconnected"}
    BY <1>1, <1>3 DEF Occupied
  <2>1. wJob[w] = j /\ wStatus[w] \in {"working", "disconnected"}
    BY <1>1 DEF SlotInv, Occupied
  <2>2. CASE w \in workers
    <3>1. ~(wStatus[w] = "disconnected" /\ Refreshed(w) = "available")
      BY <2>2 DEF ListWorkers
    <3> QED BY <1>1, <2>1, <2>2, <3>1 DEF Refreshed
  <2>3. CASE w \notin workers
    BY <1>1, <2>1, <2>3
  <2> QED BY <2>2, <2>3
<1> QED
  BY <1>2, <1>5, <1>6 DEF SlotInv

\* A simulated job that returns because it was cancelled or the pool stopped
\* does not touch its worker.
LEMMA SimReturnSlot ==
    ASSUME TypeOK, SlotInv, NEW j \in Jobs, SimReturn(j)
    PROVE  SlotInv'
<1>1. /\ pc[j] = "sim" /\ (j \in ctxDone \/ stopped) /\ pc' = [pc EXCEPT ![j] = "ended"]
      /\ UNCHANGED <<workers, wStatus, wJob, jWorker, queue, jobCancels, ctxDone, stopped, bumped>>
  BY DEF SimReturn, JobCtxDone, workerVars, jobVars, ctxVars, history
<1>2. QueueInv' /\ NoEarlyCtx' /\ CancelFrees'
  BY <1>1 DEF TypeOK, SlotInv, QueueInv, NoEarlyCtx, CancelFrees, Waiting
<1>3. \A u : Running(u)' = Running(u) \ {j}
  BY <1>1 DEF Running, TypeOK, Holding
<1>4. Occupied'
  BY <1>1, <1>3 DEF SlotInv, Occupied
<1>5. NoLeakedWorker'
  BY <1>1, <1>3 DEF SlotInv, NoLeakedWorker, CancelFrees
<1> QED
  BY <1>2, <1>4, <1>5 DEF SlotInv

LEMMA EnqueueSlot ==
    ASSUME TypeOK, SlotInv, NEW j \in Jobs, Enqueue(j)
    PROVE  SlotInv'
<1>1. /\ pc[j] \in {"submit", "requeue"}
      /\ UNCHANGED <<workers, wStatus, wJob, jWorker, jobCancels, ctxDone, stopped, bumped>>
  BY DEF Enqueue, workerVars, jobVars, ctxVars, history
<1>2. CASE queue' = Append(queue, j) /\ pc' = [pc EXCEPT ![j] = "queue"]
  <2>1. NoEarlyCtx'
    BY <1>1, <1>2 DEF TypeOK, SlotInv, NoEarlyCtx, Waiting
  <2>2. queue \in Seq(Jobs) /\ \A i \in 1..Len(queue) : queue[i] # j /\ queue[i] \in Jobs
    BY <1>1 DEF TypeOK, SlotInv, QueueInv
  <2>3. /\ Len(queue') = Len(queue) + 1 /\ queue'[Len(queue) + 1] = j
        /\ \A i \in 1..Len(queue) : queue'[i] = queue[i]
    BY <1>2, <2>2
  <2>4. \A i \in 1..Len(queue') : pc'[queue'[i]] = "queue"
    <3> TAKE i \in 1..Len(queue')
    <3>1. CASE i \in 1..Len(queue)
      BY <1>2, <2>2, <2>3, <3>1 DEF TypeOK, SlotInv, QueueInv
    <3>2. CASE i = Len(queue) + 1
      BY <1>2, <2>3, <3>2 DEF TypeOK
    <3> QED BY <2>2, <2>3, <3>1, <3>2
  <2>5. \A i, k \in 1..Len(queue') : queue'[i] = queue'[k] => i = k
    BY <2>2, <2>3 DEF SlotInv, QueueInv
  <2>6. \A u : Running(u)' = Running(u)
    BY <1>1, <1>2 DEF Running, TypeOK, Holding
  <2>7. CancelFrees' /\ Occupied' /\ NoLeakedWorker'
    BY <1>1, <2>6 DEF SlotInv, CancelFrees, Occupied, NoLeakedWorker
  <2> QED BY <2>1, <2>4, <2>5, <2>7 DEF SlotInv, QueueInv
<1>3. CASE queue' = queue /\ pc' = [pc EXCEPT ![j] = "dropped"]
  BY <1>1, <1>3, MoveSlot DEF Waiting, Holding, Place
<1> QED
  BY <1>2, <1>3 DEF Enqueue

LEMMA NextSlot == TypeOK /\ SlotInv /\ [Next]_vars => SlotInv'
<1> SUFFICES ASSUME TypeOK, SlotInv, [Next]_vars PROVE SlotInv'
  OBVIOUS
<1> USE DEF workerVars, jobVars, streamVars, ctxVars, history
<1>1. ASSUME NEW j \in Jobs, Client(j) PROVE SlotInv'
  <2>1. CASE Submit(j)
    BY <2>1, MoveSlot DEF Submit, Waiting, Holding, Place
  <2>2. CASE SubmitCached(j)
    BY <2>2, MoveSlot DEF SubmitCached, Waiting, Holding, Place
  <2>3. CASE CancelJob(j)
    BY <2>3, CancelSlot
  <2>4. CASE RemoveJob(j)
    BY <2>4 DEF RemoveJob, SlotInv, QueueInv, NoEarlyCtx, CancelFrees, Occupied,
                NoLeakedWorker, Running
  <2>5. CASE Stream(j)
    BY <2>5, FrameSlot DEF Stream
  <2> QED BY <1>1, <2>1, <2>2, <2>3, <2>4, <2>5 DEF Client
<1>2. ASSUME NEW j \in Jobs, Enqueue(j) PROVE SlotInv'
  BY <1>2, EnqueueSlot
<1>3. ASSUME NEW j \in Jobs, Receive(j) PROVE SlotInv'
  BY <1>3, FrameSlot DEF Receive
<1>4. ASSUME NEW j \in Jobs, Dispatch(j) PROVE SlotInv'
  <2>1. ASSUME NEW w \in Workers, AssignJob(j, w) PROVE SlotInv'
    BY <2>1, AssignSlot
  <2>2. ASSUME NEW p \in {"requeue", "dry"}, Popped(j), queue' = Tail(queue),
               pc' = [pc EXCEPT ![j] = p],
               UNCHANGED <<workers, wStatus, wJob, jWorker, jobCancels, ctxDone, stopped, bumped>>
        PROVE  SlotInv'
    <3>1. QueueInv' /\ pc[j] = "queue"
      BY <2>2, PopQueue DEF SlotInv, Place
    <3>2. NoEarlyCtx'
      BY <2>2, <3>1 DEF TypeOK, SlotInv, NoEarlyCtx, Waiting
    <3>3. \A u : Running(u)' = Running(u)
      BY <2>2, <3>1 DEF TypeOK, Running, Holding
    <3>4. CancelFrees' /\ Occupied' /\ NoLeakedWorker'
      BY <2>2, <3>3 DEF SlotInv, CancelFrees, Occupied, NoLeakedWorker
    <3> QED BY <3>1, <3>2, <3>4 DEF SlotInv
  <2>3. CASE Defer(j)
    BY <2>2, <2>3 DEF Defer
  <2>4. CASE StartDryRun(j)
    BY <2>2, <2>4 DEF StartDryRun
  <2>5. CASE FinishDryRun(j)
    BY <2>5, MoveSlot DEF FinishDryRun, Waiting, Holding, Place
  <2> QED BY <1>4, <2>1, <2>3, <2>4, <2>5 DEF Dispatch
<1>5. ASSUME NEW j \in Jobs, ConnectAgent(j) PROVE SlotInv'
  BY <1>5, MoveSlot DEF ConnectAgent, Waiting, Holding, Place
<1>6. ASSUME NEW j \in Jobs, Output(j) PROVE SlotInv'
  BY <1>6, FrameSlot DEF Output
<1>7. ASSUME NEW j \in Jobs, EndTurn(j) PROVE SlotInv'
  <2> USE DEF Holding, JobStatus
  <2>1. CASE AgentUnusable(j)
    BY <2>1, MoveSlot DEF AgentUnusable, Waiting, Place
  <2>2. CASE AgentComplete(j)
    BY <2>2, SettleSlot DEF AgentComplete
  <2>3. CASE AgentError(j)
    BY <2>3, SettleSlot DEF AgentError
  <2>4. CASE AgentClosed(j)
    BY <2>4, SettleSlot DEF AgentClosed, TypeOK
  <2>5. CASE SimFinish(j)
    BY <2>5, SettleSlot DEF SimFinish
  <2>6. CASE SimReturn(j)
    BY <2>6, SimReturnSlot
  <2>7. CASE Panic(j)
    BY <2>7, SettleSlot DEF Panic
  <2> QED BY <1>7, <2>1, <2>2, <2>3, <2>4, <2>5, <2>6, <2>7 DEF EndTurn
<1>8. ASSUME NEW j \in Jobs, Finish(j) PROVE SlotInv'
  <2>1. CASE MarkUnusable(j)
    BY <2>1, SettleSlot DEF MarkUnusable, Holding, JobStatus
  <2>2. CASE EmitVerdict(j)
    BY <2>2, MoveSlot DEF EmitVerdict, Waiting, Holding, Place
  <2>3. CASE closeStream(j)
    BY <2>3, MoveSlot DEF closeStream, Waiting, Holding, Place
  <2> QED BY <1>8, <2>1, <2>2, <2>3 DEF Finish
<1>9. ASSUME NEW w \in Workers, Admin(w) \/ AgentConnected(w) \/ Connection(w) PROVE SlotInv'
  <2>1. CASE AddWorker(w)
    BY <2>1, WorkersSlot DEF AddWorker, Insert
  <2>2. CASE AddAgentWorker(w)
    BY <2>2, FrameSlot DEF AddAgentWorker
  <2>3. CASE RemoveWorker(w)
    BY <2>3, WorkersSlot DEF RemoveWorker
  <2>4. CASE AgentConnected(w)
    <3>1. CASE workers' = workers /\ wStatus' = wStatus
      BY <2>4, <3>1, WorkersSlot DEF AgentConnected
    <3>2. CASE Insert(w) /\ wStatus' = [wStatus EXCEPT ![w] = "available"]
      <4>1. workers' \subseteq workers \cup {w}
        BY <3>2 DEF Insert
      <4>2. wStatus[w] = "new"
        BY <2>4, <3>2 DEF AgentConnected
      <4> QED BY <2>4, <3>2, <4>1, <4>2, WorkersSlot DEF AgentConnected
    <3> QED BY <2>4, <3>1, <3>2 DEF AgentConnected
  <2>5. CASE Connection(w)
    BY <2>5, FrameSlot DEF Connection
  <2> QED BY <1>9, <2>1, <2>2, <2>3, <2>4, <2>5 DEF Admin
<1>10. CASE ListWorkers BY <1>10, ListSlot
<1>11. CASE Stop
  BY <1>11 DEF Stop, SlotInv, QueueInv, NoEarlyCtx, CancelFrees, Occupied, NoLeakedWorker, Running
<1>12. CASE DispatcherExit BY <1>12, FrameSlot DEF DispatcherExit
<1>13. CASE UNCHANGED vars BY <1>13, FrameSlot DEF vars
<1> QED
  BY <1>1, <1>2, <1>3, <1>4, <1>5, <1>6, <1>7, <1>8, <1>9, <1>10, <1>11, <1>12, <1>13 DEF Next

\* No worker slot is ever leaked: whatever clients cancel, remove or list, a
\* worker marked working has the goroutine that will free it.
THEOREM SlotsNeverLeak == Spec => []NoLeakedWorker
<1>1. Spec => [](TypeOK /\ SlotInv)
  BY InitType, NextType, InitSlot, NextSlot, PTL DEF Spec
<1>2. SlotInv => NoLeakedWorker
  BY DEF SlotInv
<1> QED BY <1>1, <1>2, PTL

\* A worker runs one job at a time, unless CancelJob or ListWorkers freed it
\* while a goroutine was using it.
THEOREM WorkersExclusive == Spec => []WorkerExclusive
<1>1. Spec => [](TypeOK /\ SlotInv)
  BY InitType, NextType, InitSlot, NextSlot, PTL DEF Spec
<1>2. SlotInv => WorkerExclusive
  BY DEF SlotInv, Occupied, WorkerExclusive
<1> QED BY <1>1, <1>2, PTL

-----------------------------------------------------------------------------
(* Streams.                                                                *)

LEMMA NextStream == TypeOK /\ SlotInv /\ StreamInv /\ [Next]_vars => StreamInv'
<1> SUFFICES ASSUME TypeOK, SlotInv, StreamInv, [Next]_vars PROVE StreamInv'
  OBVIOUS
<1> USE DEF TypeOK, StreamInv, StreamLives, Unborn
<1> USE DEF workerVars, jobVars, streamVars, ctxVars, history
<1>1. ASSUME NEW j \in Jobs, Client(j) PROVE StreamInv'
  BY <1>1 DEF Client, Submit, SubmitCached, CancelJob, RemoveJob, Stream
<1>2. ASSUME NEW j \in Jobs, Enqueue(j) \/ Receive(j) \/ ConnectAgent(j) \/ Output(j)
      PROVE  StreamInv'
  BY <1>2 DEF Enqueue, Receive, ConnectAgent, Output
<1>3. ASSUME NEW j \in Jobs, Dispatch(j) PROVE StreamInv'
  <2>1. ASSUME Popped(j) PROVE pc[j] = "queue"
    BY <2>1 DEF Popped, SlotInv, QueueInv
  <2> QED
    BY <1>3, <2>1 DEF Dispatch, AssignJob, Defer, StartDryRun, FinishDryRun
<1>4. ASSUME NEW j \in Jobs, EndTurn(j) \/ Finish(j) PROVE StreamInv'
  BY <1>4 DEF EndTurn, AgentUnusable, AgentComplete, AgentError, AgentClosed, SimFinish,
     SimReturn, Panic, Finish, MarkUnusable, EmitVerdict, closeStream, Settle
<1>5. ASSUME NEW w \in Workers, Admin(w) \/ AgentConnected(w) \/ Connection(w)
      PROVE  StreamInv'
  BY <1>5 DEF Admin, AddWorker, AddAgentWorker, RemoveWorker, AgentConnected, Connection
<1>6. CASE ListWorkers \/ Stop \/ DispatcherExit
  BY <1>6 DEF ListWorkers, Stop, DispatcherExit
<1>7. CASE UNCHANGED vars
  BY <1>7 DEF vars
<1> QED
  BY <1>1, <1>2, <1>3, <1>4, <1>5, <1>6, <1>7 DEF Next

\* From submission to the end of its execution a job's stream is there, open,
\* for its events and its readers.
THEOREM StreamsLive == Spec => []StreamLives
<1>1. Init => StreamInv
  BY DEF Init, StreamInv, StreamLives, Unborn
<1>2. Spec => [](TypeOK /\ SlotInv /\ StreamInv)
  BY <1>1, InitType, NextType, InitSlot, NextSlot, NextStream, PTL DEF Spec
<1>3. StreamInv => StreamLives
  BY DEF StreamInv
<1> QED BY <1>2, <1>3, PTL
-----------------------------------------------------------------------------
(* Refinement of JobStream.                                                *)

\* Somebody reads only streams of jobs that were submitted.
ReadersInv == \A j \in Jobs : watch[j] = "on" => pc[j] # "none"

LEMMA NextReaders == TypeOK /\ SlotInv /\ ReadersInv /\ [Next]_vars => ReadersInv'
<1> SUFFICES ASSUME TypeOK, SlotInv, ReadersInv, [Next]_vars PROVE ReadersInv'
  OBVIOUS
<1> USE DEF TypeOK, ReadersInv
<1> USE DEF workerVars, jobVars, streamVars, ctxVars, history
<1>1. ASSUME NEW j \in Jobs, Client(j) PROVE ReadersInv'
  BY <1>1 DEF Client, Submit, SubmitCached, CancelJob, RemoveJob, Stream
<1>2. ASSUME NEW j \in Jobs, Enqueue(j) \/ ConnectAgent(j) \/ Output(j) PROVE ReadersInv'
  BY <1>2 DEF Enqueue, ConnectAgent, Output
<1>3. ASSUME NEW j \in Jobs, Receive(j) PROVE ReadersInv'
  BY <1>3 DEF Receive
<1>4. ASSUME NEW j \in Jobs, Dispatch(j) PROVE ReadersInv'
  BY <1>4 DEF Dispatch, AssignJob, Defer, StartDryRun, FinishDryRun
<1>5. ASSUME NEW j \in Jobs, EndTurn(j) \/ Finish(j) PROVE ReadersInv'
  BY <1>5 DEF EndTurn, AgentUnusable, AgentComplete, AgentError, AgentClosed, SimFinish,
     SimReturn, Panic, Finish, MarkUnusable, EmitVerdict, closeStream, Settle
<1>6. ASSUME NEW w \in Workers, Admin(w) \/ AgentConnected(w) \/ Connection(w)
      PROVE  ReadersInv'
  BY <1>6 DEF Admin, AddWorker, AddAgentWorker, RemoveWorker, AgentConnected, Connection
<1>7. CASE ListWorkers \/ Stop \/ DispatcherExit \/ UNCHANGED vars
  BY <1>7 DEF ListWorkers, Stop, DispatcherExit, vars
<1> QED
  BY <1>1, <1>2, <1>3, <1>4, <1>5, <1>6, <1>7 DEF Next

\* The reader's view of a step that moves the goroutine of one job.
LEMMA MoveStream ==
    ASSUME TypeOK, NEW j \in Jobs, NEW p \in Place, pc' = [pc EXCEPT ![j] = p],
           closed' = closed, j \notin closed, p # "none"
    PROVE  StreamState' = [StreamState EXCEPT ![j] =
                             IF p \in {"failing", "close"} THEN "said" ELSE "open"]
  BY DEF StreamState, TypeOK

\* Such a step that stays on one side of the verdict shows the reader no more
\* than an event, or nothing.
LEMMA WriteStream ==
    ASSUME TypeOK, StreamInv, NEW j \in Jobs, NEW p \in Place, pc' = [pc EXCEPT ![j] = p],
           pc[j] \notin {"none", "ended", "failing", "close"}, p \notin {"none", "failing", "close"},
           closed' = closed, buf' = buf \/ emitEvent(j, "progress")
    PROVE  [Promise!Next]_Promise!vars
<1>1. j \notin closed
  BY DEF StreamInv, StreamLives
<1>2. StreamState[j] = "open" /\ StreamState' = [StreamState EXCEPT ![j] = "open"]
  BY <1>1, MoveStream DEF StreamState
<1>3. StreamState' = StreamState
  BY <1>2 DEF StreamState
<1>4. Promise!Put(j, "progress")
  BY DEF Promise!Put, emitEvent
<1> QED
  BY <1>2, <1>3, <1>4 DEF Promise!Next, Promise!Write

\* The step that utters the verdict, or gives up on it.
LEMMA ConcludeStream ==
    ASSUME TypeOK, StreamInv, NEW j \in Jobs, NEW p \in {"failing", "close"},
           pc' = [pc EXCEPT ![j] = p], pc[j] \notin {"none", "ended", "failing", "close"},
           closed' = closed, NEW v \in {"completed", "failed"}, buf' = buf \/ emitEvent(j, v)
    PROVE  Promise!Next
<1>1. j \notin closed
  BY DEF StreamInv, StreamLives
<1>2. StreamState[j] = "open" /\ StreamState' = [StreamState EXCEPT ![j] = "said"]
  BY <1>1, MoveStream DEF StreamState, Place, Holding
<1>3. Promise!Put(j, v)
  BY DEF Promise!Put, emitEvent
<1> QED
  BY <1>2, <1>3 DEF Promise!Next, Promise!Conclude

\* A step that leaves goroutines and streams alone is not seen by a reader.
LEMMA FrameStream ==
    ASSUME UNCHANGED <<pc, closed, buf>>
    PROVE  UNCHANGED Promise!vars
  BY DEF Promise!vars, StreamState

LEMMA NextPromise ==
    TypeOK /\ SlotInv /\ StreamInv /\ ReadersInv /\ [Next]_vars => [Promise!Next]_Promise!vars
<1> SUFFICES ASSUME TypeOK, SlotInv, StreamInv, ReadersInv, [Next]_vars
             PROVE  [Promise!Next]_Promise!vars
  OBVIOUS
<1> USE DEF workerVars, jobVars, streamVars, ctxVars, history
<1>1. ASSUME NEW j \in Jobs, Client(j) PROVE [Promise!Next]_Promise!vars
  <2>1. CASE Submit(j)
    <3>1. j \notin closed /\ StreamState[j] = "none"
      BY <2>1 DEF Submit, StreamInv, Unborn, StreamState
    <3>2. StreamState' = [StreamState EXCEPT ![j] = "open"]
      BY <2>1, <3>1, MoveStream DEF Submit, Place
    <3> QED BY <2>1, <3>1, <3>2 DEF Submit, Promise!Next, Promise!Open
  <2>2. CASE SubmitCached(j)
    <3>1. StreamState[j] = "none" /\ StreamState' = [StreamState EXCEPT ![j] = "closed"]
      BY <2>2 DEF SubmitCached, StreamState, TypeOK
    <3> QED BY <2>2, <3>1 DEF SubmitCached, Promise!Next, Promise!Replay
  <2>3. CASE CancelJob(j) BY <2>3, FrameStream DEF CancelJob
  <2>4. CASE RemoveJob(j) BY <2>4, FrameStream DEF RemoveJob
  <2>5. CASE Stream(j) BY <2>5, FrameStream DEF Stream
  <2> QED BY <1>1, <2>1, <2>2, <2>3, <2>4, <2>5 DEF Client
<1>2. ASSUME NEW j \in Jobs, Enqueue(j) PROVE [Promise!Next]_Promise!vars
  BY <1>2, WriteStream DEF Enqueue, Place
<1>3. ASSUME NEW j \in Jobs, Receive(j) PROVE [Promise!Next]_Promise!vars
  <2>1. pc[j] # "none" /\ UNCHANGED <<pc, closed>>
    BY <1>3 DEF Receive, ReadersInv
  <2>2. StreamState[j] # "none" /\ StreamState' = StreamState
    BY <2>1 DEF StreamState
  <2>3. CASE buf' = buf BY <2>1, <2>3, FrameStream
  <2>4. CASE buf[j] # << >> /\ buf' = [buf EXCEPT ![j] = Tail(@)]
    BY <2>2, <2>4 DEF Promise!Next, Promise!Receive
  <2> QED BY <1>3, <2>3, <2>4 DEF Receive
<1>4. ASSUME NEW j \in Jobs, Dispatch(j) PROVE [Promise!Next]_Promise!vars
  <2>1. ASSUME Popped(j) PROVE pc[j] = "queue"
    BY <2>1 DEF Popped, SlotInv, QueueInv, TypeOK
  <2>2. ASSUME NEW w \in Workers, AssignJob(j, w) PROVE [Promise!Next]_Promise!vars
    <3>1. PICK p \in {"sim", "connect", "agent"} : pc' = [pc EXCEPT ![j] = p]
      BY <2>2 DEF AssignJob
    <3> QED BY <2>1, <2>2, <3>1, WriteStream DEF AssignJob, Place, Holding
  <2>3. CASE Defer(j) BY <2>1, <2>3, WriteStream DEF Defer, Place
  <2>4. CASE StartDryRun(j) BY <2>1, <2>4, WriteStream DEF StartDryRun, Place
  <2>5. CASE FinishDryRun(j) BY <2>5, WriteStream DEF FinishDryRun, Place
  <2> QED BY <1>4, <2>2, <2>3, <2>4, <2>5 DEF Dispatch
<1>5. ASSUME NEW j \in Jobs, ConnectAgent(j) PROVE [Promise!Next]_Promise!vars
  BY <1>5, WriteStream DEF ConnectAgent, Place, Holding
<1>6. ASSUME NEW j \in Jobs, Output(j) PROVE [Promise!Next]_Promise!vars
  <2>1. pc' = [pc EXCEPT ![j] = pc[j]] /\ pc[j] \in {"agent", "sim"}
    BY <1>6 DEF Output, TypeOK
  <2> QED BY <1>6, <2>1, WriteStream DEF Output, Place, Holding
<1>7. ASSUME NEW j \in Jobs, EndTurn(j) PROVE [Promise!Next]_Promise!vars
  <2> USE DEF Settle, Place, Holding
  <2>1. CASE AgentUnusable(j) BY <2>1, ConcludeStream DEF AgentUnusable
  <2>2. CASE AgentComplete(j) BY <2>2, WriteStream DEF AgentComplete
  <2>3. CASE AgentError(j) BY <2>3, WriteStream DEF AgentError
  <2>4. CASE AgentClosed(j) BY <2>4, WriteStream DEF AgentClosed
  <2>5. CASE SimFinish(j) BY <2>5, WriteStream DEF SimFinish
  <2>6. CASE SimReturn(j) BY <2>6, WriteStream DEF SimReturn
  <2>7. CASE Panic(j) BY <2>7, ConcludeStream DEF Panic
  <2> QED BY <1>7, <2>1, <2>2, <2>3, <2>4, <2>5, <2>6, <2>7 DEF EndTurn
<1>8. ASSUME NEW j \in Jobs, Finish(j) PROVE [Promise!Next]_Promise!vars
  <2>1. CASE MarkUnusable(j)
    <3>1. StreamState' = StreamState
      BY <2>1 DEF MarkUnusable, Settle, StreamState, TypeOK
    <3> QED BY <2>1, <3>1 DEF MarkUnusable, Promise!vars
  <2>2. CASE EmitVerdict(j) BY <2>2, ConcludeStream DEF EmitVerdict
  <2>3. CASE closeStream(j)
    <3>1. pc[j] = "close" /\ j \in streams /\ j \notin closed
      BY <2>3 DEF closeStream, StreamInv, StreamLives
    <3>2. StreamState[j] = "said" /\ StreamState' = [StreamState EXCEPT ![j] = "closed"]
      BY <2>3, <3>1 DEF closeStream, StreamState, TypeOK
    <3> QED BY <2>3, <3>2 DEF closeStream, Promise!Next, Promise!Close
  <2> QED BY <1>8, <2>1, <2>2, <2>3 DEF Finish
<1>9. ASSUME NEW w \in Workers, Admin(w) \/ AgentConnected(w) \/ Connection(w)
      PROVE  [Promise!Next]_Promise!vars
  BY <1>9, FrameStream DEF Admin, AddWorker, AddAgentWorker, RemoveWorker, AgentConnected, Connection
<1>10. CASE ListWorkers \/ Stop \/ DispatcherExit \/ UNCHANGED vars
  BY <1>10, FrameStream DEF ListWorkers, Stop, DispatcherExit, vars
<1> QED
  BY <1>1, <1>2, <1>3, <1>4, <1>5, <1>6, <1>7, <1>8, <1>9, <1>10 DEF Next

\* The pool implements JobStream for any number of jobs, workers, queue and
\* stream capacity: a stream is opened once, gets at most one verdict, as its
\* last event, is closed behind it, and nothing is sent on a closed channel,
\* whatever is cancelled, removed, stopped or panics.
THEOREM StreamsKeepPromise == Spec => KeepsPromise
<1>1. Init => StreamInv /\ ReadersInv
  BY DEF Init, StreamInv, StreamLives, Unborn, ReadersInv
<1>2. Init => Promise!Init
  BY DEF Init, Promise!Init, StreamState
<1>3. Spec => [](TypeOK /\ SlotInv /\ StreamInv /\ ReadersInv)
  BY <1>1, InitType, NextType, InitSlot, NextSlot, NextStream, NextReaders, PTL DEF Spec
<1> QED
  BY <1>2, <1>3, NextPromise, PTL DEF Spec, KeepsPromise, Promise!Spec
-----------------------------------------------------------------------------
(* Verdicts.                                                               *)

\* The events a channel holds.
Said(b) == {b[i] : i \in 1..Len(b)}

\* Where the goroutine of j is fixes what its record says, unless j was
\* cancelled.
RecordFits(j) ==
    j \notin cancelled =>
        /\ pc[j] \in {"connect", "agent", "sim", "dry", "failing"} => jStatus[j] = "in_progress"
        /\ pc[j] = "completed" => jStatus[j] = "done"
        /\ pc[j] = "failed" => jStatus[j] = "failed"

\* No verdict is on j's stream before the goroutine has uttered it.
NotJudgedYet(j) ==
    pc[j] \notin {"failing", "close", "ended"} => Said(buf[j]) \subseteq {"progress"}

\* The verdict on j's stream is that of j's record.
VerdictFits(j) ==
    j \notin cancelled =>
        /\ "completed" \in Said(buf[j]) => jStatus[j] = "done"
        /\ "failed" \in Said(buf[j]) => jStatus[j] = "failed" \/ pc[j] = "failing"

Judged(j) == RecordFits(j) /\ NotJudgedYet(j) /\ VerdictFits(j)

VerdictInv == \A j \in Jobs : Judged(j)

\* emitEvent adds at most its event, to the stream of its job.
LEMMA EmitSaid ==
    ASSUME TypeOK, NEW j \in Jobs, NEW e \in Event, emitEvent(j, e)
    PROVE  /\ Said(buf'[j]) \subseteq Said(buf[j]) \cup {e}
           /\ \A k \in Jobs \ {j} : buf'[k] = buf[k]
<1>1. Said(Append(buf[j], e)) \subseteq Said(buf[j]) \cup {e}
  BY DEF TypeOK, Said
<1>2. buf'[j] \in {buf[j], Append(buf[j], e)} /\ \A k \in Jobs \ {j} : buf'[k] = buf[k]
  BY DEF TypeOK, emitEvent
<1> QED BY <1>1, <1>2

\* Receiving takes an event off a stream and adds none.
LEMMA TailSaid ==
    ASSUME NEW b \in Seq(Event), b # << >>
    PROVE  Said(Tail(b)) \subseteq Said(b)
  BY DEF Said

\* A step about job j leaves the other jobs as they were.
LEMMA OthersJudged ==
    ASSUME VerdictInv, NEW j \in Jobs, Judged(j)',
           \A k \in Jobs \ {j} : /\ pc'[k] = pc[k] /\ jStatus'[k] = jStatus[k]
                                 /\ buf'[k] = buf[k] /\ (k \in cancelled' <=> k \in cancelled)
    PROVE  VerdictInv'
<1>1. ASSUME NEW k \in Jobs \ {j} PROVE Judged(k)'
  BY <1>1 DEF VerdictInv, Judged, RecordFits, NotJudgedYet, VerdictFits
<1> QED BY <1>1 DEF VerdictInv

\* A step that touches neither goroutines, records nor streams.
LEMMA FrameVerdict ==
    ASSUME VerdictInv, UNCHANGED <<pc, jStatus, buf, cancelled>>
    PROVE  VerdictInv'
  BY DEF VerdictInv, Judged, RecordFits, NotJudgedYet, VerdictFits

\* A step of j's goroutine before the verdict: the record it leaves fits the
\* place it goes to, and it emits progress or nothing.
LEMMA WorkVerdict ==
    ASSUME TypeOK, VerdictInv, NEW j \in Jobs, NEW p \in Place, NEW s \in JobStatus,
           pc[j] \notin {"failing", "close", "ended"},
           pc' = [pc EXCEPT ![j] = p], jStatus' = [jStatus EXCEPT ![j] = s],
           buf' = buf \/ emitEvent(j, "progress"), cancelled' = cancelled,
           j \notin cancelled =>
               /\ p \in {"connect", "agent", "sim", "dry", "failing"} => s = "in_progress"
               /\ p = "completed" => s = "done"
               /\ p = "failed" => s = "failed"
    PROVE  VerdictInv'
<1>1. Said(buf'[j]) \subseteq {"progress"} /\ \A k \in Jobs \ {j} : buf'[k] = buf[k]
  <2>1. Said(buf[j]) \subseteq {"progress"}
    BY DEF VerdictInv, Judged, NotJudgedYet
  <2>2. "progress" \in Event
    BY DEF Event
  <2> QED BY <2>1, <2>2, EmitSaid
<1>2. pc'[j] = p /\ jStatus'[j] = s
  BY DEF TypeOK
<1>3. Judged(j)'
  BY <1>1, <1>2 DEF Judged, RecordFits, NotJudgedYet, VerdictFits
<1> QED
  BY <1>1, <1>3, OthersJudged DEF TypeOK

LEMMA NextVerdict == TypeOK /\ SlotInv /\ VerdictInv /\ [Next]_vars => VerdictInv'
<1> SUFFICES ASSUME TypeOK, SlotInv, VerdictInv, [Next]_vars PROVE VerdictInv'
  OBVIOUS
<1> USE DEF workerVars, jobVars, streamVars, ctxVars, history
<1>0. ASSUME NEW j \in Jobs PROVE jStatus[j] \in JobStatus /\ jStatus = [jStatus EXCEPT ![j] = jStatus[j]]
  BY <1>0 DEF TypeOK
<1>1. ASSUME NEW j \in Jobs, Client(j) PROVE VerdictInv'
  <2>1. CASE Submit(j)
    BY <2>1, WorkVerdict DEF Submit, Place, Holding, JobStatus
  <2>2. CASE SubmitCached(j)
    <3>1. Said(<<"progress", "progress", "completed">>) \subseteq {"progress", "completed"}
      BY DEF Said
    <3>2. pc'[j] = "ended" /\ jStatus'[j] = "done" /\ Said(buf'[j]) \subseteq {"progress", "completed"}
      BY <2>2, <3>1 DEF SubmitCached, TypeOK
    <3>3. Judged(j)'
      BY <3>2 DEF Judged, RecordFits, NotJudgedYet, VerdictFits
    <3> QED BY <2>2, <3>3, OthersJudged DEF SubmitCached, TypeOK
  <2>3. CASE CancelJob(j)
    <3>1. j \in cancelled' /\ pc' = pc /\ buf' = buf
      BY <2>3 DEF CancelJob
    <3>2. Judged(j)'
      BY <3>1 DEF Judged, RecordFits, NotJudgedYet, VerdictFits, VerdictInv
    <3> QED BY <2>3, <3>1, <3>2, OthersJudged DEF CancelJob, TypeOK
  <2>4. CASE RemoveJob(j) BY <2>4, FrameVerdict DEF RemoveJob
  <2>5. CASE Stream(j) BY <2>5, FrameVerdict DEF Stream
  <2> QED BY <1>1, <2>1, <2>2, <2>3, <2>4, <2>5 DEF Client
<1>2. ASSUME NEW j \in Jobs, Enqueue(j) PROVE VerdictInv'
  <2>1. PICK p \in {"queue", "dropped"} : pc' = [pc EXCEPT ![j] = p]
    BY <1>2 DEF Enqueue
  <2> QED BY <1>0, <1>2, <2>1, WorkVerdict DEF Enqueue, Place
<1>3. ASSUME NEW j \in Jobs, Receive(j) PROVE VerdictInv'
  <2>1. CASE buf[j] # << >> /\ buf' = [buf EXCEPT ![j] = Tail(@)]
    <3>1. buf[j] \in Seq(Event) /\ buf'[j] = Tail(buf[j])
      BY <2>1 DEF TypeOK
    <3>2. Said(buf'[j]) \subseteq Said(buf[j])
      BY <2>1, <3>1, TailSaid
    <3>3. Judged(j)'
      BY <1>3, <3>2 DEF Receive, Judged, RecordFits, NotJudgedYet, VerdictFits, VerdictInv
    <3> QED BY <1>3, <2>1, <3>3, OthersJudged DEF Receive, TypeOK
  <2>2. CASE buf' = buf BY <1>3, <2>2, FrameVerdict DEF Receive
  <2> QED BY <1>3, <2>1, <2>2 DEF Receive
<1>4. ASSUME NEW j \in Jobs, Dispatch(j) PROVE VerdictInv'
  <2> USE DEF Place, Holding, JobStatus
  <2>1. ASSUME Popped(j) PROVE pc[j] = "queue"
    BY <2>1 DEF Popped, SlotInv, QueueInv, TypeOK
  <2>2. ASSUME NEW w \in Workers, AssignJob(j, w) PROVE VerdictInv'
    <3>1. PICK p \in {"sim", "connect", "agent"} : pc' = [pc EXCEPT ![j] = p]
      BY <2>2 DEF AssignJob
    <3> QED BY <2>1, <2>2, <3>1, WorkVerdict DEF AssignJob
  <2>3. CASE Defer(j) BY <1>0, <2>1, <2>3, WorkVerdict DEF Defer
  <2>4. CASE StartDryRun(j) BY <2>1, <2>4, WorkVerdict DEF StartDryRun
  <2>5. CASE FinishDryRun(j) BY <2>5, WorkVerdict DEF FinishDryRun
  <2> QED BY <1>4, <2>2, <2>3, <2>4, <2>5 DEF Dispatch
<1>5. ASSUME NEW j \in Jobs, ConnectAgent(j) PROVE VerdictInv'
  <2>1. j \notin cancelled => jStatus[j] = "in_progress"
    BY <1>5 DEF ConnectAgent, VerdictInv, Judged, RecordFits
  <2> QED BY <1>0, <1>5, <2>1, WorkVerdict DEF ConnectAgent, Place, Holding
<1>6. ASSUME NEW j \in Jobs, Output(j) PROVE VerdictInv'
  <2>1. j \notin cancelled => jStatus[j] = "in_progress"
    BY <1>6 DEF Output, VerdictInv, Judged, RecordFits
  <2>2. pc' = [pc EXCEPT ![j] = pc[j]] /\ pc[j] \in {"agent", "sim"}
    BY <1>6 DEF Output, TypeOK
  <2> QED BY <1>0, <1>6, <2>1, <2>2, WorkVerdict, Zenon DEF Output, Place, Holding
<1>7. ASSUME NEW j \in Jobs, EndTurn(j) PROVE VerdictInv'
  <2> USE DEF Settle, Place, Holding, JobStatus
  <2>0. pc[j] \in {"connect", "agent"} /\ j \notin cancelled => jStatus[j] = "in_progress"
    BY DEF VerdictInv, Judged, RecordFits
  <2>1. CASE AgentUnusable(j)
    <3>1. Said(buf[j]) \subseteq {"progress"} /\ "failed" \in Event
      BY <2>1 DEF AgentUnusable, VerdictInv, Judged, NotJudgedYet, Event
    <3>2. /\ Said(buf'[j]) \subseteq {"progress", "failed"}
          /\ \A k \in Jobs \ {j} : buf'[k] = buf[k]
      BY <2>1, <3>1, EmitSaid DEF AgentUnusable
    <3>3. pc'[j] = "failing" /\ jStatus' = jStatus /\ cancelled' = cancelled
      BY <2>1 DEF AgentUnusable, TypeOK
    <3>4. Judged(j)'
      BY <2>0, <2>1, <3>2, <3>3 DEF AgentUnusable, Judged, RecordFits, NotJudgedYet, VerdictFits
    <3> QED BY <2>1, <3>2, <3>3, <3>4, OthersJudged DEF AgentUnusable, TypeOK
  <2>2. CASE AgentComplete(j) BY <2>2, WorkVerdict DEF AgentComplete
  <2>3. CASE AgentError(j) BY <2>3, WorkVerdict DEF AgentError
  <2>4. CASE AgentClosed(j)
    <3>1. PICK s \in JobStatus : /\ jStatus' = [jStatus EXCEPT ![j] = s]
                                 /\ jStatus[j] = "in_progress" => s = "done"
      BY <1>0, <2>4 DEF AgentClosed
    <3> QED BY <2>0, <2>4, <3>1, WorkVerdict DEF AgentClosed
  <2>5. CASE SimFinish(j) BY <2>5, WorkVerdict DEF SimFinish
  <2>6. CASE SimReturn(j) BY <1>0, <2>6, WorkVerdict DEF SimReturn
  <2>7. CASE Panic(j) BY <2>7, WorkVerdict DEF Panic
  <2> QED BY <1>7, <2>1, <2>2, <2>3, <2>4, <2>5, <2>6, <2>7 DEF EndTurn
<1>8. ASSUME NEW j \in Jobs, Finish(j) PROVE VerdictInv'
  <2>1. CASE MarkUnusable(j)
    <3>1. /\ pc[j] = "failing" /\ pc'[j] = "close" /\ jStatus'[j] = "failed"
          /\ buf' = buf /\ cancelled' = cancelled
      BY <2>1 DEF MarkUnusable, Settle, TypeOK
    <3>2. j \notin cancelled => "completed" \notin Said(buf[j])
      BY <3>1 DEF VerdictInv, Judged, RecordFits, VerdictFits
    <3>3. Judged(j)'
      BY <3>1, <3>2 DEF Judged, RecordFits, NotJudgedYet, VerdictFits
    <3> QED BY <2>1, <3>1, <3>3, OthersJudged DEF MarkUnusable, Settle, TypeOK
  <2>2. CASE EmitVerdict(j)
    <3>1. pc[j] \in {"completed", "failed"} /\ pc[j] \in Event
      BY <2>2 DEF EmitVerdict, Event
    <3>2. Said(buf[j]) \subseteq {"progress"}
      BY <3>1 DEF VerdictInv, Judged, NotJudgedYet
    <3>3. /\ Said(buf'[j]) \subseteq {"progress", pc[j]}
          /\ \A k \in Jobs \ {j} : buf'[k] = buf[k]
      BY <2>2, <3>1, <3>2, EmitSaid DEF EmitVerdict
    <3>4. pc'[j] = "close" /\ jStatus' = jStatus /\ cancelled' = cancelled
      BY <2>2 DEF EmitVerdict, TypeOK
    <3>5. Judged(j)'
      BY <3>1, <3>3, <3>4 DEF Judged, RecordFits, NotJudgedYet, VerdictFits, VerdictInv
    <3> QED BY <2>2, <3>3, <3>4, <3>5, OthersJudged DEF EmitVerdict, TypeOK
  <2>3. CASE closeStream(j)
    <3>1. pc[j] = "close" /\ pc'[j] = "ended" /\ UNCHANGED <<jStatus, buf, cancelled>>
      BY <2>3 DEF closeStream, TypeOK
    <3>2. Judged(j)'
      BY <3>1 DEF Judged, RecordFits, NotJudgedYet, VerdictFits, VerdictInv
    <3> QED BY <2>3, <3>1, <3>2, OthersJudged DEF closeStream, TypeOK
  <2> QED BY <1>8, <2>1, <2>2, <2>3 DEF Finish
<1>9. ASSUME NEW w \in Workers, Admin(w) \/ AgentConnected(w) \/ Connection(w)
      PROVE  VerdictInv'
  BY <1>9, FrameVerdict
     DEF Admin, AddWorker, AddAgentWorker, RemoveWorker, AgentConnected, Connection
<1>10. CASE ListWorkers \/ Stop \/ DispatcherExit \/ UNCHANGED vars
  BY <1>10, FrameVerdict DEF ListWorkers, Stop, DispatcherExit, vars
<1> QED
  BY <1>1, <1>2, <1>3, <1>4, <1>5, <1>6, <1>7, <1>8, <1>9, <1>10 DEF Next

\* The verdict on a job's stream is the verdict of its record, for every job
\* nobody cancelled: executeJob and simulateExecution settle the record before
\* they emit, and the one path that emits first (an agent that cannot be
\* connected or prompted) settles it the same way.
THEOREM VerdictsHonest == Spec => []HonestVerdict
<1>1. Init => VerdictInv
  BY DEF Init, VerdictInv, Judged, RecordFits, NotJudgedYet, VerdictFits, Said
<1>2. Spec => [](TypeOK /\ SlotInv /\ VerdictInv)
  BY <1>1, InitType, NextType, InitSlot, NextSlot, NextVerdict, PTL DEF Spec
<1>3. VerdictInv => HonestVerdict
  BY DEF VerdictInv, Judged, VerdictFits, Said, HonestVerdict
<1> QED BY <1>2, <1>3, PTL
=============================================================================
