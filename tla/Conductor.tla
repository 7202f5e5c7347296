----------------------------- MODULE Conductor -----------------------------
(***************************************************************************)
(* The conductor of one worktree (internal/conductor): the RPC handlers    *)
(* that drive a task through its phases, the goroutines that watch the     *)
(* jobs, the asynchronous quality gate, the task queue and what is written *)
(* to task.yaml and read back after a restart.                             *)
(*                                                                         *)
(* A thread is a handler running for a client or a background goroutine;   *)
(* its pc names the place where it waits for c.mu, for a subprocess or for *)
(* a channel.  Between two such places a handler holds c.mu and is one     *)
(* step, except where code that does not take c.mu (Submit's Dispatch) can *)
(* run in between.  A goroutine's slot is reused once it has returned; the *)
(* job it watches has the slot's name.                                     *)
(***************************************************************************)
EXTENDS Lifecycle, FiniteSetsExt, SequencesExt

CONSTANTS
  Tasks,          \* work unit ids; every Start makes a new one
  Publishes,      \* those with a branch in a repository and a provider that opens pull requests
  Clients,        \* RPC connections
  Runs,           \* slots for background goroutines
  Requests,       \* the operations the clients use
  AutoAdvance,    \* autoAdvance
  SkipPhases,     \* phases left out by auto-advance
  Policy,         \* phasePolicies: a phase's failure policy
  MaxRetries,     \* ... and its number of retries
  Iterative,      \* whether a strategy may ask for another iteration
  MaxIterations,  \* maxIterations
  Lossy,          \* whether a job's stream may close without a verdict
  RiskBased,      \* risk_based_approval, for plan, implement and submit
  MaxCrashes      \* bound on the number of times the process is killed

Phases == {"plan", "implement", "simplify", "optimize"}
Reviews == {"review", "reviewfix"}

ASSUME ConductorAssumption ==
  /\ AutoAdvance \in BOOLEAN /\ Iterative \in BOOLEAN /\ Lossy \in BOOLEAN /\ RiskBased \in BOOLEAN
  /\ SkipPhases \subseteq Phases \cup {"review"}
  /\ Policy \in [Phases -> {"fail", "retry", "skip"}]
  /\ MaxRetries \in Nat /\ MaxIterations \in Nat /\ MaxCrashes \in Nat
  /\ Clients \cap Runs = {} /\ Publishes \subseteq Tasks

Threads == Clients \cup Runs
None == "none"
ASSUME NoneAssumption == None \notin Tasks /\ None \notin Threads

VARIABLES
  m,        \* the state machine, a record of Lifecycle
  wu,       \* c.workUnit, or NoTask
  disk,     \* the saved task.yaml files, the most recently written last
  thr,      \* the threads
  active,   \* activeJobID
  tries,    \* retryCount
  iters,    \* iterationCount
  gateCh,   \* qualityGateCh: nil, open or closed
  mu,       \* the thread that holds c.mu across steps, or None
  queue,    \* taskQueue
  fate,     \* where each task is: new, queued, starting, current, finished, gone or dropped
  prs,      \* the pull requests opened for each task
  crashes

work == <<m, wu, disk>>
counts == <<tries, iters>>
env == <<queue, fate, prs, crashes>>
vars == <<m, wu, disk, thr, active, tries, iters, gateCh, mu, queue, fate, prs, crashes>>

NoTask == [id |-> None]
Idle == [pc |-> "idle", op |-> "", live |-> FALSE, task |-> None]

PCs == {"idle", "call", "risk", "hooks", "enter", "guardrails", "launch", "fixsubmit", "spawngate",
        "watch", "validate", "finalize", "policy", "errored", "gate",
        "waitgate", "orphaned", "gated", "syncgate", "network", "dispatch", "store"}

\* What the guards of the transition table find in a work unit (its source,
\* provider and description are never empty).
Facts(w) ==
  IF w = NoTask THEN {}
  ELSE {"source", "description", "provider"}
       \cup (IF w.specs THEN {"specs"} ELSE {})
       \cup (IF w.impl THEN {"implemented"} ELSE {})
       \cup (IF w.gate = "fail" THEN {} ELSE {"gate"})

----------------------------------------------------------------------------
(* Persistence.                                                            *)

Entry(w, mach) == [id |-> w.id, state |-> mach.state, log |-> mach.log,
                   specs |-> w.specs, impl |-> w.impl, gate |-> w.gate]

\* There is one file per task.
DeleteTaskState(d, id) == RemoveFirstMatch(d, LAMBDA e : e.id = id)

persistState(d, w, mach) ==
  IF w = NoTask THEN d ELSE Append(DeleteTaskState(d, w.id), Entry(w, mach))

\* A change of the work unit and the machine that ends in persistState, and one that does not.
Commit(w, mach) == wu' = w /\ m' = mach /\ disk' = persistState(disk, w, mach)
Assign(w, mach) == wu' = w /\ m' = mach /\ disk' = disk

\* The process dies and comes back: what is in memory is lost, LoadState
\* restores the newest saved task.  The PR's id is not a field of the file.
LoadState(d) ==
  LET e == Last(d) IN
  /\ disk' = d
  /\ IF d = <<>> THEN wu' = NoTask /\ m' = NewMachine
     ELSE /\ wu' = [id |-> e.id, specs |-> e.specs, impl |-> e.impl, gate |-> e.gate, pr |-> FALSE]
          /\ m' = [NewMachine EXCEPT !.state = e.state, !.log = e.log,
                                     !.interrupted = e.state \in Active]

Restart(d) ==
  /\ LoadState(d)
  /\ thr' = [t \in Threads |-> Idle]
  /\ active' = None /\ gateCh' = "nil" /\ mu' = None /\ queue' = <<>>
  /\ tries' = [p \in Phases |-> 0] /\ iters' = [p \in Phases |-> 0]
  /\ fate' = [t \in Tasks |-> IF fate[t] \in {"queued", "starting"} THEN "dropped" ELSE fate[t]]
  /\ UNCHANGED prs

Crash == crashes < MaxCrashes /\ Restart(disk) /\ crashes' = crashes + 1

----------------------------------------------------------------------------
(* Threads.                                                                *)

Unlocked == mu = None
At(t, pc) == thr[t].pc = pc
Return(t) == thr' = [thr EXCEPT ![t] = Idle]
Goto(t, pc) == thr' = [thr EXCEPT ![t].pc = pc]
Call(op) == [Idle EXCEPT !.pc = "call", !.op = op]
Watch(op, id) == [pc |-> "watch", op |-> op, live |-> TRUE, task |-> id]

\* A goroutine that starts another as the last thing it does hands over its slot.
IdleRuns == { r \in Runs : At(r, "idle") /\ r # active }
Slots(t) == IF t \in Runs THEN {t} ELSE IdleRuns

\* Bound on the background goroutines: a handler starts only when the slots
\* it may need, and those the handlers under way may need, are free.
Need(op) == CASE op = "reviewfix" -> 2 [] op = "submit" -> 0 [] OTHER -> 1
Reserved == MapThenSumSet(LAMBDA c : IF At(c, "idle") THEN 0 ELSE Need(thr[c].op), Clients)
Roomy(op) == Reserved + Need(op) <= Cardinality(IdleRuns)

\* A nil dereference in a handler that holds c.mu with no deferred Unlock: the
\* RPC middleware recovers, nobody unlocks.
Wedge(t) == mu' = t /\ Return(t)

----------------------------------------------------------------------------
(* Entering a phase: Plan, Implement, Simplify, Optimize, Review, and the  *)
(* first part of Submit.                                                   *)

\* evaluateRiskUnlocked asks for a read lock that its caller's write lock excludes.
checkApproval(t, op) ==
  LET risky == RiskBased /\ op \in {"plan", "implement", "submit"} IN
  /\ thr' = [thr EXCEPT ![t] = [Idle EXCEPT !.pc = IF risky THEN "risk" ELSE "hooks", !.op = op]]
  /\ mu' = IF risky THEN t ELSE None

Request(t, op) ==
  /\ Unlocked /\ op \in Requests /\ At(t, "idle") /\ wu # NoTask /\ Roomy(op)
  /\ checkApproval(t, op)
  /\ UNCHANGED <<work, active, counts, gateCh, env>>

\* The same handlers, called by auto-advance, an iteration or a retry.
SelfCall(t) ==
  /\ Unlocked /\ At(t, "call")
  /\ IF wu = NoTask THEN Return(t) /\ mu' = mu ELSE checkApproval(t, thr[t].op)
  /\ UNCHANGED <<work, active, counts, gateCh, env>>

\* An approval that is missing, a policy that is not met or a hook that fails.
Refused(t) ==
  /\ At(t, "hooks")
  /\ thr[t].op \in Phases => Unlocked
  /\ Return(t)
  /\ UNCHANGED <<work, active, counts, gateCh, mu, env>>

\* The stable states from which a phase needs no prior state recorded.
NormalEntry(op) == CASE op = "plan" -> {"loaded"}
                     [] op = "implement" -> {"loaded", "planned"}
                     [] OTHER -> {"implemented"}

resetPhaseState(op) ==
  /\ tries' = [tries EXCEPT ![op] = 0]
  /\ iters' = [iters EXCEPT ![op] = 0]
  /\ wu' = IF wu = NoTask THEN wu ELSE [wu EXCEPT !.gate = "nil"]

\* After the hooks: record the prior state, clear the phase's transient state.
RecordPrior(t) ==
  /\ Unlocked /\ At(t, "hooks") /\ thr[t].op \in Phases \cup Reviews
  /\ mu' = t
  /\ m' = IF m.state \in NormalEntry(thr[t].op) THEN m ELSE SetPriorStableState(m, m.state)
  /\ IF thr[t].op \in Phases THEN resetPhaseState(thr[t].op) ELSE UNCHANGED <<wu, counts>>
  /\ Goto(t, "enter")
  /\ UNCHANGED <<disk, active, gateCh, env>>

Event(op) == IF op \in Reviews THEN "review" ELSE op

\* Mutant of EnterRejected: the prior state recorded for the rejected event is kept.
EnterRejectedKeepsPrior(t) ==
  /\ At(t, "enter") /\ ~CanDispatch(m, Event(thr[t].op), Facts(wu))
  /\ mu' = None /\ Return(t)
  /\ UNCHANGED <<work, active, counts, gateCh, env>>

EnterRejected(t) ==
  /\ At(t, "enter") /\ ~CanDispatch(m, Event(thr[t].op), Facts(wu))
  /\ m' = ClearPriorStableState(m)
  /\ mu' = None /\ Return(t)
  /\ UNCHANGED <<wu, disk, active, counts, gateCh, env>>

EnterPhase(t) ==
  /\ At(t, "enter") /\ thr[t].op \in Phases /\ CanDispatch(m, thr[t].op, Facts(wu))
  /\ Assign(wu, Dispatch(m, thr[t].op, Facts(wu)))
  /\ IF thr[t].op \in {"plan", "implement"}
     THEN Goto(t, "guardrails") /\ mu' = None
     ELSE Goto(t, "launch") /\ mu' = mu
  /\ UNCHANGED <<active, counts, gateCh, env>>

\* Mutant of GuardrailsFail: the transition is not rolled back.
GuardrailsFailNoRollback(t) ==
  /\ Unlocked /\ At(t, "guardrails")
  /\ Return(t)
  /\ UNCHANGED <<work, active, counts, gateCh, mu, env>>

\* runPreGuardrails fails: the rollback is not written to disk.
GuardrailsFail(t) ==
  /\ Unlocked /\ At(t, "guardrails")
  /\ Assign(wu, Dispatch(m, "error", Facts(wu)))
  /\ Return(t)
  /\ UNCHANGED <<active, counts, gateCh, mu, env>>

GuardrailsPass(t) ==
  /\ Unlocked /\ At(t, "guardrails")
  /\ mu' = t /\ Goto(t, "launch")
  /\ UNCHANGED <<work, active, counts, gateCh, env>>

\* The task was abandoned while the guardrails ran: a nil dereference, recovered
\* in a handler (with its deferred Unlock), fatal in a goroutine.
LaunchNil(t) ==
  /\ At(t, "launch") /\ wu = NoTask
  /\ IF t \in Runs THEN Restart(disk) /\ UNCHANGED crashes
     ELSE Return(t) /\ mu' = None /\ UNCHANGED <<work, active, counts, gateCh, env>>

\* The pool refuses the job (planning submits its jobs later, from the scheduler).
SubmitJobFails(t) ==
  /\ At(t, "launch") /\ thr[t].op # "plan" /\ wu # NoTask
  /\ Assign(wu, Dispatch(m, "error", Facts(wu)))
  /\ Return(t) /\ mu' = None
  /\ UNCHANGED <<active, counts, gateCh, env>>

\* The job is submitted and watched.  The state is not looked at again.
Launch(t) ==
  /\ At(t, "launch") /\ wu # NoTask
  /\ Commit(wu, m)
  /\ \E r \in Slots(t) :
       /\ thr' = [thr EXCEPT ![t] = Idle, ![r] = Watch(thr[t].op, wu.id)]
       /\ active' = IF thr[t].op = "plan" THEN active ELSE r
  /\ mu' = None
  /\ UNCHANGED <<counts, gateCh, env>>

EnterReview(t) ==
  /\ At(t, "enter") /\ thr[t].op \in Reviews /\ CanDispatch(m, "review", Facts(wu))
  /\ Commit(wu, Dispatch(m, "review", Facts(wu)))
  /\ Goto(t, IF thr[t].op = "reviewfix" THEN "fixsubmit" ELSE "spawngate")
  /\ mu' = None
  /\ UNCHANGED <<active, counts, gateCh, env>>

\* Review(fix = true): the fix job is not recorded in activeJobID.
FixRefused(t) ==
  /\ Unlocked /\ At(t, "fixsubmit")
  /\ Assign(wu, Dispatch(m, "error", Facts(wu)))
  /\ Return(t)
  /\ UNCHANGED <<active, counts, gateCh, mu, env>>

FixStarted(t) ==
  /\ Unlocked /\ At(t, "fixsubmit")
  /\ IF wu = NoTask THEN Wedge(t) /\ UNCHANGED work
     ELSE /\ Commit(wu, m) /\ mu' = mu
          /\ \E r \in IdleRuns :
               thr' = [thr EXCEPT ![t].pc = "spawngate", ![r] = Watch("implement", wu.id)]
  /\ UNCHANGED <<active, counts, gateCh, env>>

----------------------------------------------------------------------------
(* Watching a job (watchJob) or a graph (watchGraph).                      *)

Completion == [plan |-> "plan_done", implement |-> "implement_done",
               simplify |-> "simplify_done", optimize |-> "optimize_done"]
InProgressState == [plan |-> "planning", implement |-> "implementing",
                    simplify |-> "simplifying", optimize |-> "optimizing"]

Candidates == [plan |-> <<"implement">>, implement |-> <<"simplify", "optimize", "review">>,
               simplify |-> <<"optimize", "review">>, optimize |-> <<"review">>]

\* maybeAutoAdvance: what the goroutine does once its phase is over.
AutoAdvanceTo(op) ==
  LET first == SelectInSeq(Candidates[op], LAMBDA p : p \notin SkipPhases)
  IN  IF AutoAdvance /\ first # 0 THEN Call(Candidates[op][first]) ELSE Idle

\* The pool closed the job's stream, or had none to give, without a verdict.
StreamClosed(t) ==
  /\ Lossy /\ At(t, "watch") /\ thr[t].op # "plan" /\ Return(t)
  /\ UNCHANGED <<work, active, counts, gateCh, mu, env>>

\* The job completed after its task was abandoned, finished or deleted.
CompletedNoTask(t) ==
  /\ Unlocked /\ At(t, "watch") /\ wu = NoTask
  /\ active' = None
  /\ thr' = [thr EXCEPT ![t] = IF thr[t].op = "plan" THEN Idle ELSE AutoAdvanceTo(thr[t].op)]
  /\ UNCHANGED <<work, counts, gateCh, mu, env>>

\* A plan job is completed only with a specification; detectSpecificationFiles finds or does not find one.
NoSpecification(t) ==
  /\ Unlocked /\ At(t, "watch") /\ thr[t].op = "plan" /\ wu # NoTask /\ ~wu.specs
  /\ active' = None
  /\ Commit(wu, Dispatch(m, "error", Facts(wu)))
  /\ Return(t)
  /\ UNCHANGED <<counts, gateCh, mu, env>>

Completed(t) ==
  /\ Unlocked /\ At(t, "watch") /\ wu # NoTask
  /\ active' = None
  /\ Assign([wu EXCEPT !.specs = @ \/ thr[t].op = "plan"], m)
  /\ Goto(t, "validate")
  /\ UNCHANGED <<counts, gateCh, mu, env>>

\* evaluateAndMaybeIterate asks for another iteration: the phase is called again.
Iterate(t) ==
  LET op == thr[t].op IN
  /\ Unlocked /\ Iterative /\ At(t, "validate") /\ iters[op] + 1 < MaxIterations
  /\ iters' = [iters EXCEPT ![op] = @ + 1]
  /\ thr' = [thr EXCEPT ![t] = Call(op)]
  /\ UNCHANGED <<work, active, tries, gateCh, mu, env>>

\* The result is accepted; the router's decision (always: advance) is recorded and saved.
Accept(t) ==
  /\ Unlocked /\ At(t, "validate")
  /\ iters' = [iters EXCEPT ![thr[t].op] = 0]
  /\ Commit(wu, m)
  /\ Goto(t, "finalize")
  /\ UNCHANGED <<active, tries, gateCh, mu, env>>

\* HasImplemented is set on a work unit that is gone: the process dies.
FinalizeNil(t) ==
  /\ Unlocked /\ At(t, "finalize") /\ wu = NoTask /\ thr[t].op = "implement"
  /\ Restart(disk) /\ UNCHANGED crashes

\* Mutant of Finalize: the completed phase is not saved.
FinalizeUnsaved(t) ==
  LET op == thr[t].op
      w == IF op = "implement" THEN [wu EXCEPT !.impl = TRUE] ELSE wu
  IN
  /\ Unlocked /\ At(t, "finalize") /\ (op = "implement" => wu # NoTask)
  /\ Assign(w, Dispatch(ClearPriorStableState(m), Completion[op], Facts(w)))
  /\ thr' = [thr EXCEPT ![t] = AutoAdvanceTo(op)]
  /\ UNCHANGED <<active, counts, gateCh, mu, env>>

\* Mutant of Finalize: HasImplemented is not set.
FinalizeNoFlag(t) ==
  LET op == thr[t].op IN
  /\ Unlocked /\ At(t, "finalize") /\ (op = "implement" => wu # NoTask)
  /\ Commit(wu, Dispatch(ClearPriorStableState(m), Completion[op], Facts(wu)))
  /\ thr' = [thr EXCEPT ![t] = AutoAdvanceTo(op)]
  /\ UNCHANGED <<active, counts, gateCh, mu, env>>

Finalize(t) ==
  LET op == thr[t].op
      w == IF op = "implement" THEN [wu EXCEPT !.impl = TRUE] ELSE wu
  IN
  /\ Unlocked /\ At(t, "finalize") /\ (op = "implement" => wu # NoTask)
  /\ Commit(w, Dispatch(ClearPriorStableState(m), Completion[op], Facts(w)))
  /\ thr' = [thr EXCEPT ![t] = AutoAdvanceTo(op)]
  /\ UNCHANGED <<active, counts, gateCh, mu, env>>

Failed(t) ==
  /\ Unlocked /\ At(t, "watch")
  /\ active' = None
  /\ IF thr[t].op = "plan" /\ wu = NoTask THEN Return(t) ELSE Goto(t, "policy")
  /\ UNCHANGED <<work, counts, gateCh, mu, env>>

\* applyFailurePolicy.  A retry goes through dispatchAutoAdvance, which has no case for plan.
PolicyRetry(t) ==
  LET op == thr[t].op IN
  /\ Unlocked /\ At(t, "policy") /\ Policy[op] = "retry" /\ tries[op] < MaxRetries
  /\ tries' = [tries EXCEPT ![op] = @ + 1]
  /\ thr' = [thr EXCEPT ![t] = IF op = "plan" THEN Idle ELSE Call(op)]
  /\ UNCHANGED <<work, active, iters, gateCh, mu, env>>

PolicySkip(t) ==
  LET op == thr[t].op IN
  /\ Unlocked /\ At(t, "policy") /\ Policy[op] = "skip" /\ m.state = InProgressState[op]
  /\ Commit(wu, Dispatch(ClearPriorStableState(m), Completion[op], Facts(wu)))
  /\ thr' = [thr EXCEPT ![t] = AutoAdvanceTo(op)]
  /\ UNCHANGED <<active, counts, gateCh, mu, env>>

PolicyFail(t) ==
  LET op == thr[t].op IN
  /\ Unlocked /\ At(t, "policy")
  /\ Policy[op] = "retry" => tries[op] >= MaxRetries
  /\ Policy[op] = "skip" => m.state # InProgressState[op]
  /\ tries' = IF Policy[op] = "retry" THEN [tries EXCEPT ![op] = 0] ELSE tries
  /\ Goto(t, "errored")
  /\ UNCHANGED <<work, active, iters, gateCh, mu, env>>

\* Mutant of JobErrored: the failure is reported and the machine left in its state.
JobErroredSilent(t) ==
  /\ Unlocked /\ At(t, "errored")
  /\ Return(t)
  /\ UNCHANGED <<work, active, counts, gateCh, mu, env>>


JobErrored(t) ==
  /\ Unlocked /\ At(t, "errored")
  /\ Commit(wu, Dispatch(m, "error", Facts(wu)))
  /\ Return(t)
  /\ UNCHANGED <<active, counts, gateCh, mu, env>>

----------------------------------------------------------------------------
(* The quality gate and Submit.                                            *)

\* close(c.qualityGateCh) wakes who waits on the current channel; replacing
\* the channel leaves who waits on the old one waiting.
Rouse(th, pc) == [t \in Threads |-> IF th[t].pc = "waitgate" THEN [th[t] EXCEPT !.pc = pc] ELSE th[t]]

\* The end of Review: runQualityGateAsync.
SpawnGate(t) ==
  /\ Unlocked /\ At(t, "spawngate")
  /\ gateCh' = "open"
  /\ \E r \in Slots(t) :
       thr' = Rouse([thr EXCEPT ![t] = Idle, ![r] = [Idle EXCEPT !.pc = "gate"]], "orphaned")
  /\ UNCHANGED <<work, active, counts, mu, env>>

GateDone(t) ==
  /\ Unlocked /\ At(t, "gate") /\ gateCh = "open"
  /\ \E verdict \in {"pass", "fail"} :
       IF wu = NoTask THEN UNCHANGED work ELSE Commit([wu EXCEPT !.gate = verdict], m)
  /\ gateCh' = "closed"
  /\ thr' = Rouse([thr EXCEPT ![t] = Idle], "gated")
  /\ UNCHANGED <<active, counts, mu, env>>

\* Another gate has closed the channel: close panics, the recover handler
\* records a failure and closes again, which kills the process.
GateDoubleClose(t) ==
  /\ Unlocked /\ At(t, "gate") /\ gateCh = "closed"
  /\ Restart(IF wu = NoTask THEN disk ELSE persistState(disk, [wu EXCEPT !.gate = "fail"], m))
  /\ UNCHANGED crashes

\* The last check before the network operations, and the data they work with.
Proceed(t, th, w) ==
  thr' = [th EXCEPT ![t] = IF CanDispatch(m, "submit", Facts(w))
                           THEN [@ EXCEPT !.pc = "network", !.task = IF w.pr THEN None ELSE w.id]
                           ELSE Idle]

SubmitGate(t) ==
  /\ Unlocked /\ At(t, "hooks") /\ thr[t].op = "submit"
  /\ IF wu = NoTask THEN Wedge(t) /\ gateCh' = gateCh
     ELSE /\ mu' = mu
          /\ CASE wu.gate = "pass" -> Proceed(t, thr, wu) /\ gateCh' = gateCh
               [] wu.gate = "fail" -> Return(t) /\ gateCh' = gateCh
               [] wu.gate = "nil" /\ gateCh = "nil" -> Goto(t, "syncgate") /\ gateCh' = "open"
               [] OTHER -> Goto(t, IF gateCh = "open" THEN "waitgate" ELSE "gated") /\ gateCh' = gateCh
  /\ UNCHANGED <<work, active, counts, env>>

SubmitWaited(t) ==
  /\ Unlocked /\ At(t, "gated")
  /\ IF wu = NoTask THEN Wedge(t)
     ELSE mu' = mu /\ IF wu.gate = "pass" THEN Proceed(t, thr, wu) ELSE Return(t)
  /\ UNCHANGED <<work, active, counts, gateCh, env>>

\* The gate run by Submit itself; a pass is kept in memory.
SubmitGateDone(t) ==
  /\ Unlocked /\ At(t, "syncgate")
  /\ gateCh' = "closed"
  /\ LET th == Rouse(thr, "gated") IN
     \/ /\ gateCh = "closed" \/ wu = NoTask
        /\ mu' = t /\ thr' = [th EXCEPT ![t] = Idle] /\ UNCHANGED work
     \/ /\ gateCh = "open"
        /\ mu' = mu /\ thr' = [th EXCEPT ![t] = Idle] /\ UNCHANGED work
     \/ /\ gateCh = "open" /\ wu # NoTask
        /\ mu' = mu /\ Assign([wu EXCEPT !.gate = "pass"], m) /\ Proceed(t, th, wu')
  /\ UNCHANGED <<active, counts, env>>

\* Pull requests are counted up to "several".
OneMore(n) == IF n < 2 THEN n + 1 ELSE n

\* Mutant of NetworkFails: a failed push is logged and the transition dispatched.
NetworkFailsGoesOn(t) ==
  /\ At(t, "network") /\ Goto(t, "dispatch")
  /\ UNCHANGED <<work, active, counts, gateCh, mu, env>>

\* Push and CreatePR, without c.mu.
NetworkFails(t) ==
  /\ At(t, "network") /\ Return(t)
  /\ UNCHANGED <<work, active, counts, gateCh, mu, env>>

\* Without a branch, or with a provider that is unknown or cannot open pull
\* requests, there is nothing to do and nothing fails.
NetworkDone(t) ==
  /\ At(t, "network") /\ Goto(t, "dispatch")
  /\ prs' = [k \in Tasks |-> IF k = thr[t].task /\ k \in Publishes THEN OneMore(prs[k]) ELSE prs[k]]
  /\ UNCHANGED <<work, active, counts, gateCh, mu, queue, fate, crashes>>

\* The transition is dispatched without c.mu.
SubmitDispatch(t) ==
  /\ At(t, "dispatch")
  /\ Assign(wu, Dispatch(m, "submit", Facts(wu)))
  /\ IF CanDispatch(m, "submit", Facts(wu)) THEN Goto(t, "store") ELSE Return(t)
  /\ UNCHANGED <<active, counts, gateCh, mu, env>>

\* The pull request is stored, the one just opened or the one there was (None).
SubmitStore(t) ==
  /\ Unlocked /\ At(t, "store")
  /\ IF wu = NoTask THEN UNCHANGED work
     ELSE Commit([wu EXCEPT !.pr = @ \/ thr[t].task \in Publishes \cup {None}], m)
  /\ Return(t)
  /\ UNCHANGED <<active, counts, gateCh, mu, env>>

----------------------------------------------------------------------------
(* Handlers that are one critical section.                                 *)

Handler(op) == Unlocked /\ op \in Requests /\ UNCHANGED <<counts, gateCh, mu, prs, crashes>>

NewWorkUnit(id) == [id |-> id, specs |-> FALSE, impl |-> FALSE, gate |-> "nil", pr |-> FALSE]

\* Start; a branch name that is not valid leaves the work unit set in state none.
StartWork(id) ==
  LET w == NewWorkUnit(id) IN
  \/ Commit(w, Dispatch(m, "start", Facts(w)))
  \/ Assign(w, m)

Start(id) ==
  /\ Handler("start") /\ m.state = "none" /\ fate[id] = "new"
  /\ StartWork(id)
  /\ fate' = [fate EXCEPT ![id] = "current"]
  /\ UNCHANGED <<thr, active, queue>>

\* The goroutine Finish starts for the next queued task.
StartQueued(id) ==
  /\ Unlocked /\ fate[id] = "starting"
  /\ \/ m.state = "none" /\ StartWork(id) /\ fate' = [fate EXCEPT ![id] = "current"]
     \/ m.state # "none" /\ UNCHANGED work /\ fate' = [fate EXCEPT ![id] = "dropped"]
  /\ UNCHANGED <<thr, active, counts, gateCh, mu, queue, prs, crashes>>

Stop ==
  /\ Handler("stop") /\ CanDispatch(m, "stop", Facts(wu))
  /\ thr' = IF active = None THEN thr ELSE [thr EXCEPT ![active].live = FALSE]
  /\ active' = None
  /\ Commit(wu, Dispatch(m, "stop", Facts(wu)))
  /\ UNCHANGED <<queue, fate>>

Abort ==
  /\ Handler("abort") /\ CanDispatch(m, "abort", Facts(wu))
  /\ Commit(wu, Dispatch(m, "abort", Facts(wu)))
  /\ UNCHANGED <<thr, active, queue, fate>>

Reset ==
  /\ Handler("reset") /\ m.state = "failed"
  /\ Commit(wu, Dispatch(m, "reset", Facts(wu)))
  /\ UNCHANGED <<thr, active, queue, fate>>

\* UpdateTask when the task changed at its provider: a delta specification is added.
UpdateTask ==
  /\ Handler("update") /\ wu # NoTask
  /\ Commit([wu EXCEPT !.specs = TRUE], m)
  /\ UNCHANGED <<thr, active, queue, fate>>

\* The jobs listed in the work unit: not those of a planning graph.
JobsOf(w) == { r \in Runs : At(r, "watch") /\ thr[r].op # "plan" /\ thr[r].task = w.id }

\* Mutant of Discard: task.yaml is left behind.
DiscardInMemory ==
  /\ disk' = disk
  /\ m' = ResetMachine(m) /\ wu' = NoTask
  /\ fate' = [t \in Tasks |-> IF t = wu.id THEN "gone" ELSE fate[t]]
  /\ UNCHANGED <<active, queue>>

Discard ==
  /\ disk' = DeleteTaskState(disk, wu.id)
  /\ m' = ResetMachine(m) /\ wu' = NoTask
  /\ fate' = [t \in Tasks |-> IF t = wu.id THEN "gone" ELSE fate[t]]
  /\ UNCHANGED <<active, queue>>

Abandon ==
  /\ Handler("abandon")
  /\ thr' = [t \in Threads |-> IF t \in JobsOf(wu) THEN [thr[t] EXCEPT !.live = FALSE] ELSE thr[t]]
  /\ Discard

Delete ==
  /\ Handler("delete") /\ m.state \in {"submitted", "failed", "none"}
  /\ Discard /\ UNCHANGED thr

\* Finish; persistState after the work unit is cleared saves nothing, so task.yaml stays.
Finish(force) ==
  /\ Handler("finish") /\ wu # NoTask /\ (m.state = "submitted" \/ force)
  /\ m' = IF CanDispatch(m, "finish", Facts(wu)) THEN Dispatch(m, "finish", Facts(wu)) ELSE ResetMachine(m)
  /\ wu' = NoTask /\ disk' = persistState(disk, NoTask, m')
  /\ queue' = IF queue = <<>> THEN <<>> ELSE Tail(queue)
  /\ fate' = [t \in Tasks |-> IF t = wu.id THEN "finished"
                              ELSE IF queue # <<>> /\ t = Head(queue) THEN "starting" ELSE fate[t]]
  /\ UNCHANGED <<thr, active>>

QueueTask(id) ==
  /\ Handler("queue") /\ fate[id] = "new"
  /\ queue' = Append(queue, id) /\ fate' = [fate EXCEPT ![id] = "queued"]
  /\ UNCHANGED <<work, thr, active>>

DequeueTask(id) ==
  /\ Handler("queue") /\ fate[id] = "queued"
  /\ queue' = RemoveFirst(queue, id) /\ fate' = [fate EXCEPT ![id] = "new"]
  /\ UNCHANGED <<work, thr, active>>

ReorderQueue(id, position) ==
  /\ Handler("queue") /\ fate[id] = "queued"
  /\ queue' = InsertAt(RemoveFirst(queue, id), position, id)
  /\ UNCHANGED <<work, thr, active, fate>>

----------------------------------------------------------------------------
Init ==
  /\ m = NewMachine /\ wu = NoTask /\ disk = <<>>
  /\ thr = [t \in Threads |-> Idle]
  /\ active = None /\ gateCh = "nil" /\ mu = None /\ queue = <<>>
  /\ tries = [p \in Phases |-> 0] /\ iters = [p \in Phases |-> 0]
  /\ fate = [t \in Tasks |-> "new"] /\ prs = [t \in Tasks |-> 0] /\ crashes = 0

Enter(t) == RecordPrior(t) \/ EnterRejected(t) \/ EnterPhase(t) \/ EnterReview(t)
Begin(t) == SelfCall(t) \/ Refused(t) \/ Enter(t) \/ GuardrailsFail(t) \/ GuardrailsPass(t)
              \/ LaunchNil(t) \/ SubmitJobFails(t) \/ Launch(t) \/ FixRefused(t) \/ FixStarted(t)
Observe(t) == StreamClosed(t) \/ CompletedNoTask(t) \/ NoSpecification(t) \/ Completed(t) \/ Failed(t)
Decide(t) == Iterate(t) \/ Accept(t) \/ FinalizeNil(t) \/ Finalize(t)
               \/ PolicyRetry(t) \/ PolicySkip(t) \/ PolicyFail(t) \/ JobErrored(t)
Gate(t) == SpawnGate(t) \/ GateDone(t) \/ GateDoubleClose(t)
Submit(t) == SubmitGate(t) \/ SubmitWaited(t) \/ SubmitGateDone(t) \/ NetworkFails(t)
               \/ NetworkDone(t) \/ SubmitDispatch(t) \/ SubmitStore(t)

ThreadStep(t) == Begin(t) \/ Observe(t) \/ Decide(t) \/ Gate(t) \/ Submit(t)

ClientStep ==
  \/ \E c \in Clients, op \in Phases \cup Reviews \cup {"submit"} : Request(c, op)
  \/ \E id \in Tasks : \/ Start(id) \/ QueueTask(id) \/ DequeueTask(id)
                       \/ \E position \in DOMAIN queue : ReorderQueue(id, position)
  \/ Stop \/ Abort \/ Reset \/ UpdateTask \/ Abandon \/ Delete
  \/ \E force \in BOOLEAN : Finish(force)

Next == ClientStep \/ Crash \/ (\E t \in Threads : ThreadStep(t)) \/ (\E id \in Tasks : StartQueued(id))

Spec == Init /\ [][Next]_vars

\* Go runs every goroutine that can run, and its mutex goes first come, first
\* served once somebody starves; hooks, gates, jobs and network calls end.
Fairness == /\ \A t \in Threads : SF_vars(ThreadStep(t))
            /\ \A id \in Tasks : SF_vars(StartQueued(id))

FairSpec == Spec /\ Fairness
----------------------------------------------------------------------------
(* Properties.                                                             *)

WorkUnit == [id : Tasks, specs : BOOLEAN, impl : BOOLEAN, gate : {"nil", "pass", "fail"}, pr : BOOLEAN]
Saved == [id : Tasks, state : State, log : SUBSET Milestones,
          specs : BOOLEAN, impl : BOOLEAN, gate : {"nil", "pass", "fail"}]
Ops == Phases \cup Reviews \cup {"submit", ""}

\* Every field of the conductor has the type its Go declaration gives it.
TypeOK ==
  /\ m \in [state : State, prior : State \cup {""}, previous : State \cup {""},
             log : SUBSET Milestones, interrupted : BOOLEAN]
  /\ wu \in WorkUnit \cup {NoTask}
  /\ disk \in Seq(Saved)
  /\ thr \in [Threads -> [pc : PCs, op : Ops, live : BOOLEAN, task : Tasks \cup {None}]]
  /\ active \in Runs \cup {None} /\ mu \in Threads \cup {None}
  /\ tries \in [Phases -> Nat] /\ iters \in [Phases -> Nat]
  /\ gateCh \in {"nil", "open", "closed"}
  /\ queue \in Seq(Tasks) /\ prs \in [Tasks -> 0..2] /\ crashes \in 0..MaxCrashes
  /\ fate \in [Tasks -> {"new", "queued", "starting", "current", "finished", "gone", "dropped"}]

\* An operation under way is left for a stable or a failed state, never for
\* another operation: a rollback lands where a phase was entered from
\* (priorStableState, Dispatch), whatever handlers interleave.
NoPhaseJump ==
  [][m.state \in Active /\ m'.state \in Active => m'.state = m.state \/ m'.interrupted]_vars

\* The pcs at which a thread still has to report the outcome of its phase.
Reporting == {"call", "hooks", "enter", "guardrails", "launch",
              "watch", "validate", "finalize", "policy", "errored"}

\* While a phase is in progress somebody will report its end: a goroutine or a
\* handler of that phase is under way.  Otherwise the machine stays in the
\* in-progress state and rejects the phase until a user stops it.
PhaseOwned ==
  m.state \in InProgress /\ ~m.interrupted =>
    \E t \in Threads : thr[t].pc \in Reporting /\ thr[t].op \in Phases
                        /\ InProgressState[thr[t].op] = m.state

Quiet == \A t \in Threads : At(t, "idle")

\* What a task has achieved survives a restart: when no handler is under way,
\* the newest task.yaml is the current task's, with its specifications, its
\* HasImplemented flag and the milestones of its history.
ProgressSaved ==
  Quiet /\ m.state # "none" =>
    LET e == Last(disk) IN
    /\ disk # <<>> /\ e.id = wu.id
    /\ e.log = m.log /\ e.specs = wu.specs /\ e.impl = wu.impl

\* task.yaml is written on every mutation: when no handler is under way it has
\* the machine's state.
StateSaved == Quiet /\ m.state # "none" => disk # <<>> /\ Last(disk).state = m.state

\* A task that was abandoned or deleted never comes back: not by a goroutine
\* that outlives it and saves, nor by a restart.
DiscardedStaysAway ==
  \A t \in Tasks : fate[t] = "gone" =>
    wu.id # t /\ \A i \in DOMAIN disk : disk[i].id # t

\* HasImplemented is the guard for simplify, optimize and review: it is set
\* only for a task with an implementation, so a task that is "implemented" has it.
ImplementedHasCode == m.state \in {"implemented", "simplifying", "optimizing"} => wu.impl

\* A task gets one pull request, whatever the number of times it is submitted.
OnePullRequest == \A t \in Tasks : prs[t] <= 1

\* A submitted task whose provider opens pull requests has one: the transition
\* follows the network operations, runs without c.mu, and is for the task they
\* were for.  A task without a branch or such a provider is submitted without.
SubmittedHasPR == m.state = "submitted" /\ wu.id \in Publishes => prs[wu.id] >= 1

\* A phase that is in progress comes to an end.
PhaseEnds == \A s \in InProgress : m.state = s ~> m.state # s


----------------------------------------------------------------------------
(* What comments of the code promise and an interleaving breaks.           *)

\* Stop takes Implementing to Planned so that the task can be implemented again.
PlannedCanImplement == m.state = "planned" => CanDispatch(m, "implement", Facts(wu))

\* c.mu is released on every way out of a handler.
LockReleased == ~Unlocked ~> Unlocked

\* A phase that a retry or an iteration submits again is accepted.
ResubmitAccepted ==
  \A t \in Runs : At(t, "enter") => CanDispatch(m, Event(thr[t].op), Facts(wu))

\* HasImplemented says that code has been implemented: implement_done has fired.
FlagMeansImplemented == wu # NoTask /\ wu.impl => "implement_done" \in m.log

\* activeJobID is the job that runs for the phase in progress, so that Stop cancels it.
ActiveIsRunning ==
  \A r \in Runs : At(r, "watch") /\ thr[r].live /\ thr[r].op # "plan"
                  /\ m.state = InProgressState[thr[r].op] => active = r

\* Abandon stops any running jobs: without a task no job runs.
AbandonStopsJobs == wu = NoTask => \A r \in Runs : ~(At(r, "watch") /\ thr[r].live)

\* Submit waits for a quality gate under way and Review starts one run with
\* one channel: no two gates run at the same time.
OneGate == Cardinality({ t \in Threads : thr[t].pc \in {"gate", "syncgate"} }) <= 1

\* Finish clears the work unit: a finished task is never the current one again.
FinishedStaysFinished == \A t \in Tasks : fate[t] = "finished" => wu.id # t

\* A queued task is loaded when it reaches the front and the current task finishes.
QueuedIsLoaded == \A t \in Tasks : fate[t] # "dropped"
=============================================================================
