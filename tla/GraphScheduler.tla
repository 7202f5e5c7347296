--------------------------- MODULE GraphScheduler ---------------------------
(***************************************************************************)
(* The scheduler of a phase's dependency graph (internal/graph): the run   *)
(* loop, enqueueReady with its two passes under s.mu, the goroutines that  *)
(* watch a node's job or wait for its approval, and the state manager they *)
(* all change without s.mu.                                                *)
(*                                                                         *)
(* A node is its position in the sorted list of ids.  The scheduler is the *)
(* same for a job and for a sub-task: both start or are refused, and end   *)
(* with a result or an error.  Results are not empty.                      *)
(***************************************************************************)
EXTENDS Naturals, FiniteSets

CONSTANTS
  N,            \* number of nodes
  Graphs,       \* the validated graphs that are run
  MaxParallel,  \* maxParallel
  Resumes,      \* the sets of nodes a run may find cached (ResumeFrom)
  MayRefuse,    \* whether the pool may refuse a job
  MayCancel     \* whether the context may be cancelled

Nodes == 1..N

\* What a node declares; fail = 0 stands for no fail branch.
NodeConfig == [dependsOn : SUBSET Nodes, fail : 0..N, strategy : {"fail", "default", "retry"},
               maxRetries : Nat, delay : BOOLEAN, maxIterations : Nat, approval : BOOLEAN,
               timeout : BOOLEAN, frozen : BOOLEAN, cond : BOOLEAN]

\* Descendants: the nodes that depend on n in up to k steps (computeDepCounts).
Dependents(g, n) == { k \in Nodes : n \in g[k].dependsOn }
Within(g, n) ==
  LET F[k \in Nat] == IF k = 0 THEN {} ELSE Dependents(g, n) \cup UNION { Dependents(g, d) : d \in F[k - 1] }
  IN  F
Descendants(g, n) == Within(g, n)[N]
TransitiveDepCount(g, n) == Cardinality(Descendants(g, n))

\* Validate: fail branches lead to dependents, there is no cycle, counts make sense.
Validate(g) ==
  /\ \A n \in Nodes : /\ g[n].fail # 0 => g[n].fail # n /\ n \in g[g[n].fail].dependsOn
                      /\ g[n].strategy = "retry" => g[n].maxRetries > 0
                      /\ n \notin Descendants(g, n)

ASSUME GraphAssumption ==
  /\ N \in Nat \ {0} /\ MaxParallel \in Nat \ {0}
  /\ Graphs \subseteq [Nodes -> NodeConfig]
  /\ Resumes \subseteq SUBSET Nodes
  /\ MayRefuse \in BOOLEAN /\ MayCancel \in BOOLEAN
ASSUME ValidatedGraphs == \A g \in Graphs : Validate(g)

VARIABLES
  graph,      \* the graph of this run
  resume,     \* opts.ResumeFrom
  st,         \* states
  edge,       \* edgeStates, by <<from, to>>
  tries,      \* retryCount
  iters,      \* iterationCount
  cached,     \* the nodes with a result
  pc,         \* what the goroutine of a node is doing
  running,    \* s.running
  mu,         \* who holds s.mu across steps: nobody, enqueueReady or an approval
  inline,     \* the node whose failure is being handled under s.mu, or 0
  at,         \* the node enqueueReady looks at, N + 1 in its second pass
  cands,      \* its dispatch candidates
  scanner,    \* the node whose approval goroutine called enqueueReady, or 0
  wakes,      \* goroutines about to call enqueueReady
  timers,     \* goroutines waiting for a node's retry delay
  gateWakes,  \* approval goroutines about to call enqueueReady
  cleanups,   \* approval goroutines about to delete their entry
  approvals,  \* the nodes with an entry in s.approvals
  answer,     \* what is in an approval's channel
  ctx,        \* whether the context is done
  main,       \* the run loop
  report      \* the error of EventAllDone

nodes == <<st, edge, tries, iters, cached>>
lock == <<mu, inline>>
scan == <<at, cands, scanner>>
gates == <<gateWakes, cleanups, approvals, answer>>
run == <<ctx, main, report>>
vars == <<graph, resume, nodes, pc, running, lock, scan, wakes, timers, gates, run>>

NodeState == {"pending", "queued", "running", "done", "failed", "skipped"}
PCs == {"idle", "approval", "work", "succeeded", "failed", "refused", "rejected", "cancelled",
        "iterating", "retry", "retry_rejected", "retry_cancelled"}
Ended == {"done", "failed", "skipped"}

Pairs == Nodes \X Nodes
None == [n \in Nodes |-> 0]

Init ==
  /\ graph \in Graphs /\ resume \in Resumes
  /\ st = [n \in Nodes |-> "pending"] /\ edge = [p \in Pairs |-> "unknown"]
  /\ tries = None /\ iters = None /\ cached = {}
  /\ pc = [n \in Nodes |-> "idle"] /\ running = 0
  /\ mu = "free" /\ inline = 0
  /\ at = 0 /\ cands = {} /\ scanner = 0
  /\ wakes = 0 /\ timers = None /\ gateWakes = None /\ cleanups = None
  /\ approvals = {} /\ answer = [n \in Nodes |-> "none"]
  /\ ctx = FALSE /\ main = "start" /\ report = "none"

\* SetEdgeState for every edge that leaves n.
Mark(n, s) == edge' = [p \in Pairs |-> IF p[1] = n THEN s ELSE edge[p]]

----------------------------------------------------------------------------
(* The run loop.                                                           *)

\* PreloadResults, and the call of enqueueReady that seeds the graph.
Start ==
  /\ main = "start"
  /\ st' = [n \in Nodes |-> IF n \in resume THEN "done" ELSE "pending"]
  /\ edge' = [p \in Pairs |-> IF p[1] \in resume THEN "taken" ELSE "unknown"]
  /\ cached' = resume
  /\ main' = "seed" /\ mu' = "scan" /\ at' = 1
  /\ UNCHANGED <<graph, resume, tries, iters, pc, running, inline, cands, scanner, wakes, timers, gates, ctx, report>>

isFailHandled(n) == graph[n].fail # 0 /\ st[graph[n].fail] = "done"
AllDone == \A n \in Nodes : st[n] \in Ended
summaryError == \E n \in Nodes : st[n] = "failed" /\ ~isFailHandled(n)

\* Mutant of Report: failures are forgotten.
ReportFine ==
  /\ main = "poll"
  /\ \/ ctx /\ report' = "cancelled"
     \/ AllDone /\ report' = "ok"
  /\ main' = "drain"
  /\ UNCHANGED <<graph, resume, nodes, pc, running, lock, scan, wakes, timers, gates, ctx>>

\* Mutant of Report: a node that waits for approval counts as finished.
ReportQueued ==
  /\ main = "poll"
  /\ \/ ctx /\ report' = "cancelled"
     \/ (\A n \in Nodes : st[n] \in Ended \cup {"queued"}) /\ report' = IF summaryError THEN "error" ELSE "ok"
  /\ main' = "drain"
  /\ UNCHANGED <<graph, resume, nodes, pc, running, lock, scan, wakes, timers, gates, ctx>>

Report ==
  /\ main = "poll"
  /\ \/ ctx /\ report' = "cancelled"
     \/ AllDone /\ report' = IF summaryError THEN "error" ELSE "ok"
  /\ main' = "drain"
  /\ UNCHANGED <<graph, resume, nodes, pc, running, lock, scan, wakes, timers, gates, ctx>>

\* The deferred nodeWg.Wait and close of the event channel.
Close ==
  /\ main = "drain" /\ mu = "free" /\ wakes = 0
  /\ \A n \in Nodes : pc[n] = "idle" /\ timers[n] = 0 /\ gateWakes[n] = 0 /\ cleanups[n] = 0
  /\ main' = "closed"
  /\ UNCHANGED <<graph, resume, nodes, pc, running, lock, scan, wakes, timers, gates, ctx, report>>

Cancel ==
  /\ MayCancel /\ ~ctx /\ main # "closed"
  /\ ctx' = TRUE
  /\ UNCHANGED <<graph, resume, nodes, pc, running, lock, scan, wakes, timers, gates, main, report>>

----------------------------------------------------------------------------
(* enqueueReady.                                                           *)

DependenciesSatisfied(n) ==
  \A d \in graph[n].dependsOn : st[d] \in {"done", "skipped"} \/ (st[d] = "failed" /\ graph[d].fail = n)

\* Mutant of AllIncomingEdgesSkipped: one skipped edge is enough.
AnyIncomingEdgeSkipped(n) == \E d \in graph[n].dependsOn : edge[<<d, n>>] = "skipped"

AllIncomingEdgesSkipped(n) ==
  graph[n].dependsOn # {} /\ \A d \in graph[n].dependsOn : edge[<<d, n>>] = "skipped"

Lock(who) == mu = "free" /\ mu' = "scan" /\ at' = 1 /\ scanner' = who

Wake ==
  /\ wakes > 0 /\ Lock(0) /\ wakes' = wakes - 1
  /\ UNCHANGED <<graph, resume, nodes, pc, running, inline, cands, timers, gates, run>>

\* A retry delay is over, or the context is.
Timer(n) ==
  /\ timers[n] > 0 /\ timers' = [timers EXCEPT ![n] = @ - 1]
  /\ \/ Lock(0)
     \/ ctx /\ UNCHANGED <<mu, at, scanner>>
  /\ UNCHANGED <<graph, resume, nodes, pc, running, inline, cands, wakes, gates, run>>

GateWake(n) ==
  /\ gateWakes[n] > 0 /\ Lock(n) /\ gateWakes' = [gateWakes EXCEPT ![n] = @ - 1]
  /\ UNCHANGED <<graph, resume, nodes, pc, running, inline, cands, wakes, timers, cleanups, approvals, answer, run>>

\* Mutant of Looking: the dependencies are not asked.
LookingAnyway(n) == mu = "scan" /\ at = n /\ st[n] = "pending"

\* First pass.  Looking(n): the pass is at n and n is ready.
Looking(n) == mu = "scan" /\ at = n /\ st[n] = "pending" /\ DependenciesSatisfied(n)
Thawed(n) == ~(graph[n].frozen /\ n \in cached)
FirstPass == at' = at + 1 /\ UNCHANGED <<graph, resume, tries, iters, cached, pc, running, lock, scanner, wakes, timers, gates, run>>

NotReady(n) ==
  /\ mu = "scan" /\ at = n /\ ~(st[n] = "pending" /\ DependenciesSatisfied(n))
  /\ FirstPass /\ UNCHANGED <<st, edge, cands>>

\* A frozen node with a result is done; its edges are not marked.
UseFrozen(n) ==
  /\ Looking(n) /\ ~Thawed(n)
  /\ st' = [st EXCEPT ![n] = "done"]
  /\ FirstPass /\ UNCHANGED <<edge, cands>>

\* Every incoming edge is skipped, or the node's condition is false.
skipNodeAndPropagate(n) ==
  /\ Looking(n) /\ Thawed(n) /\ (AllIncomingEdgesSkipped(n) \/ graph[n].cond)
  /\ st' = [st EXCEPT ![n] = "skipped"] /\ Mark(n, "skipped")
  /\ FirstPass /\ UNCHANGED cands

Collect(n) ==
  /\ Looking(n) /\ Thawed(n) /\ ~AllIncomingEdgesSkipped(n)
  /\ cands' = cands \cup {n}
  /\ FirstPass /\ UNCHANGED <<st, edge>>

\* Second pass: the candidate with the most descendants, the first of them.
Before(a, b) ==
  LET x == TransitiveDepCount(graph, a)
      y == TransitiveDepCount(graph, b)
  IN  x > y \/ (x = y /\ a <= b)

\* Mutant of Dispatching: the limit is not looked at.
DispatchingUnlimited(n) ==
  /\ mu = "scan" /\ at = N + 1 /\ inline = 0
  /\ n \in cands /\ (\A k \in cands : Before(n, k))
  /\ cands' = cands \ {n}

Dispatching(n) ==
  /\ mu = "scan" /\ at = N + 1 /\ inline = 0 /\ running < MaxParallel
  /\ n \in cands /\ (\A k \in cands : Before(n, k))
  /\ cands' = cands \ {n}

\* dispatchNode and dispatchSubTask: the job or the sub-task starts, or there is
\* nobody to take it and the failure is handled under s.mu.
Started(n) ==
  /\ st' = [st EXCEPT ![n] = "running"] /\ pc' = [pc EXCEPT ![n] = "work"]
  /\ running' = running + 1
Refused(n) ==
  /\ MayRefuse
  /\ st' = [st EXCEPT ![n] = "running"] /\ pc' = [pc EXCEPT ![n] = "refused"]
  /\ inline' = n

DispatchNode(n) ==
  /\ Dispatching(n) /\ ~graph[n].approval
  /\ \/ Started(n) /\ inline' = inline
     \/ Refused(n) /\ running' = running
  /\ UNCHANGED <<graph, resume, edge, tries, iters, cached, mu, at, scanner, wakes, timers, gates, run>>

waitForApproval(n) ==
  /\ Dispatching(n) /\ graph[n].approval
  /\ st' = [st EXCEPT ![n] = "queued"] /\ pc' = [pc EXCEPT ![n] = "approval"]
  /\ approvals' = approvals \cup {n} /\ answer' = [answer EXCEPT ![n] = "none"]
  /\ UNCHANGED <<graph, resume, edge, tries, iters, cached, running, lock, at, scanner, wakes, timers,
                 gateWakes, cleanups, run>>

\* The pass ends; the run loop starts to poll, an approval's goroutine goes on to its deferred delete.
Unlock ==
  /\ mu = "scan" /\ at = N + 1 /\ inline = 0 /\ (cands = {} \/ running >= MaxParallel)
  /\ mu' = "free" /\ at' = 0 /\ cands' = {} /\ scanner' = 0
  /\ main' = IF main = "seed" THEN "poll" ELSE main
  /\ cleanups' = IF scanner = 0 THEN cleanups ELSE [cleanups EXCEPT ![scanner] = @ + 1]
  /\ UNCHANGED <<graph, resume, nodes, pc, running, inline, wakes, timers, gateWakes, approvals, answer, ctx, report>>

----------------------------------------------------------------------------
(* The approval of a node.                                                 *)

\* ApproveNode and RejectNode find an entry and put the answer in its channel.
Answer(n, a) ==
  /\ n \in approvals /\ pc[n] = "approval" /\ answer[n] = "none"
  /\ answer' = [answer EXCEPT ![n] = a]
  /\ UNCHANGED <<graph, resume, nodes, pc, running, lock, scan, wakes, timers, gateWakes, cleanups, approvals, run>>

Approved(n) ==
  /\ pc[n] = "approval" /\ answer[n] = "yes" /\ mu = "free"
  /\ answer' = [answer EXCEPT ![n] = "none"]
  /\ \/ Started(n) /\ UNCHANGED lock /\ cleanups' = [cleanups EXCEPT ![n] = @ + 1]
     \/ Refused(n) /\ mu' = "approve" /\ UNCHANGED <<running, cleanups>>
  /\ UNCHANGED <<graph, resume, edge, tries, iters, cached, scan, wakes, timers, gateWakes, approvals, run>>

\* Mutant of NotApproved: the goroutine does not select on the context.
NotApprovedNoCtx(n) ==
  /\ pc[n] = "approval"
  /\ (answer[n] = "no" \/ graph[n].timeout) /\ pc' = [pc EXCEPT ![n] = "rejected"]
  /\ st' = [st EXCEPT ![n] = "running"] /\ answer' = [answer EXCEPT ![n] = "none"]
  /\ UNCHANGED <<graph, resume, edge, tries, iters, cached, running, lock, scan, wakes, timers,
                 gateWakes, cleanups, approvals, run>>

\* Rejected, timed out or cancelled.  The last does not call enqueueReady.
NotApproved(n) ==
  /\ pc[n] = "approval"
  /\ \/ (answer[n] = "no" \/ graph[n].timeout) /\ pc' = [pc EXCEPT ![n] = "rejected"]
     \/ ctx /\ pc' = [pc EXCEPT ![n] = "cancelled"]
  /\ st' = [st EXCEPT ![n] = "running"] /\ answer' = [answer EXCEPT ![n] = "none"]
  /\ UNCHANGED <<graph, resume, edge, tries, iters, cached, running, lock, scan, wakes, timers,
                 gateWakes, cleanups, approvals, run>>

\* The deferred delete of an approval's goroutine.
Forget(n) ==
  /\ cleanups[n] > 0
  /\ cleanups' = [cleanups EXCEPT ![n] = @ - 1] /\ approvals' = approvals \ {n}
  /\ UNCHANGED <<graph, resume, nodes, pc, running, lock, scan, wakes, timers, gateWakes, answer, run>>

----------------------------------------------------------------------------
(* The end of a node's execution (watchNode, completeNode).                *)

\* Mutant of completeNode: the slot is given back only when the job succeeded.
completeNodeLeaks(n) ==
  /\ pc[n] = "work" /\ mu = "free"
  /\ \/ pc' = [pc EXCEPT ![n] = "succeeded"] /\ running' = running - 1
     \/ pc' = [pc EXCEPT ![n] = "failed"] /\ running' = running
  /\ UNCHANGED <<graph, resume, nodes, lock, scan, wakes, timers, gates, run>>

completeNode(n) ==
  /\ pc[n] = "work" /\ mu = "free"
  /\ running' = running - 1
  /\ \E outcome \in {"succeeded", "failed"} : pc' = [pc EXCEPT ![n] = outcome]
  /\ UNCHANGED <<graph, resume, nodes, lock, scan, wakes, timers, gates, run>>

\* Who handles a failure: an approval's goroutine, or one that was cancelled.
ByGate == {"rejected", "retry_rejected"}
ByCancel == {"cancelled", "retry_cancelled"}

\* Mutant of Leave: nobody looks for the nodes this one has made ready.
LeaveQuietly(n) ==
  /\ pc' = [pc EXCEPT ![n] = "idle"]
  /\ inline' = IF inline = n THEN 0 ELSE inline
  /\ mu' = IF inline = n /\ mu = "approve" THEN "free" ELSE mu
  /\ UNCHANGED <<graph, resume, running, scan, wakes, gates, run>>

\* Mutant of Leave: a cancelled approval returns before it has set up its delete.
LeaveKeepsEntry(n) ==
  /\ pc' = [pc EXCEPT ![n] = "idle"]
  /\ inline' = IF inline = n THEN 0 ELSE inline
  /\ mu' = IF inline = n /\ mu = "approve" THEN "free" ELSE mu
  /\ wakes' = IF pc[n] \in ByGate \cup ByCancel THEN wakes ELSE wakes + 1
  /\ gateWakes' = IF pc[n] \in ByGate THEN [gateWakes EXCEPT ![n] = @ + 1] ELSE gateWakes
  /\ cleanups' = IF inline = n /\ mu = "approve" THEN [cleanups EXCEPT ![n] = @ + 1] ELSE cleanups
  /\ UNCHANGED <<graph, resume, running, scan, approvals, answer, run>>

\* The goroutine at pc[n] is over with its node: it goes on to enqueueReady, or
\* starts a goroutine that does, or (in an approval that was cancelled) ends.
Leave(n) ==
  /\ pc' = [pc EXCEPT ![n] = "idle"]
  /\ inline' = IF inline = n THEN 0 ELSE inline
  /\ mu' = IF inline = n /\ mu = "approve" THEN "free" ELSE mu
  /\ wakes' = IF pc[n] \in ByGate \cup ByCancel THEN wakes ELSE wakes + 1
  /\ gateWakes' = IF pc[n] \in ByGate THEN [gateWakes EXCEPT ![n] = @ + 1] ELSE gateWakes
  /\ cleanups' = IF pc[n] \in ByCancel \/ (inline = n /\ mu = "approve")
                 THEN [cleanups EXCEPT ![n] = @ + 1] ELSE cleanups
  /\ UNCHANGED <<graph, resume, running, scan, approvals, answer, run>>

\* IncrementIteration, IncrementRetry.
More(f, n) == [f EXCEPT ![n] = @ + 1]

Complete(n) ==
  /\ st' = [st EXCEPT ![n] = "done"] /\ cached' = cached \cup {n} /\ Mark(n, "taken")
  /\ Leave(n) /\ UNCHANGED <<tries, timers>>

\* Mutant of SucceedAgain: the node is not made done before it is reset.
SucceedAgainRunning(n) ==
  /\ pc[n] = "succeeded" /\ iters[n] + 1 < graph[n].maxIterations
  /\ iters' = More(iters, n) /\ cached' = cached \cup {n}
  /\ pc' = [pc EXCEPT ![n] = "iterating"]
  /\ UNCHANGED <<graph, resume, st, edge, tries, running, lock, scan, wakes, timers, gates, run>>

\* handleNodeSuccess, with and without another iteration.  The node is done
\* before it is pending again.
SucceedAgain(n) ==
  /\ pc[n] = "succeeded" /\ iters[n] + 1 < graph[n].maxIterations
  /\ iters' = More(iters, n)
  /\ st' = [st EXCEPT ![n] = "done"] /\ cached' = cached \cup {n}
  /\ pc' = [pc EXCEPT ![n] = "iterating"]
  /\ UNCHANGED <<graph, resume, edge, tries, running, lock, scan, wakes, timers, gates, run>>

\* The check wants no other iteration, or the limit is reached.
Succeed(n) ==
  /\ pc[n] = "succeeded" /\ Complete(n)
  /\ \/ iters' = iters
     \/ graph[n].maxIterations > 0 /\ iters[n] + 1 >= graph[n].maxIterations /\ iters' = More(iters, n)

IterateAgain(n) ==
  /\ pc[n] = "iterating"
  /\ st' = [st EXCEPT ![n] = "pending"]
  /\ Leave(n) /\ UNCHANGED <<edge, tries, iters, cached, timers>>

\* handleNodeFailure.
Failures == {"failed", "refused", "rejected", "cancelled"}
Failing(n) == pc[n] \in Failures
Resetting == {"retry", "retry_rejected", "retry_cancelled"}
Retries(n) == graph[n].strategy = "retry" /\ tries[n] < graph[n].maxRetries

FailWithDefault(n) == Failing(n) /\ graph[n].strategy = "default" /\ Complete(n) /\ UNCHANGED iters

\* The node is failed before it is pending again.
FailAndRetry(n) ==
  /\ Failing(n) /\ Retries(n)
  /\ tries' = More(tries, n)
  /\ st' = [st EXCEPT ![n] = "failed"]
  /\ pc' = [pc EXCEPT ![n] = IF @ = "rejected" THEN "retry_rejected"
                             ELSE IF @ = "cancelled" THEN "retry_cancelled" ELSE "retry"]
  /\ UNCHANGED <<graph, resume, edge, iters, cached, running, lock, scan, wakes, timers, gates, run>>

RetryAgain(n) ==
  /\ pc[n] \in Resetting
  /\ st' = [st EXCEPT ![n] = "pending"] /\ cached' = cached \ {n}
  /\ timers' = IF graph[n].delay THEN [timers EXCEPT ![n] = @ + 1] ELSE timers
  /\ Leave(n) /\ UNCHANGED <<edge, tries, iters>>

\* The node stays failed: markFailureEdges.
Fail(n) ==
  /\ Failing(n) /\ graph[n].strategy # "default" /\ ~Retries(n)
  /\ st' = [st EXCEPT ![n] = "failed"]
  /\ edge' = [p \in Pairs |-> IF p[1] # n THEN edge[p]
                              ELSE IF p[2] = graph[n].fail THEN "taken" ELSE "skipped"]
  /\ tries' = IF graph[n].strategy = "retry" THEN More(tries, n) ELSE tries
  /\ Leave(n) /\ UNCHANGED <<iters, cached, timers>>
----------------------------------------------------------------------------
Pass(n) == NotReady(n) \/ UseFrozen(n) \/ skipNodeAndPropagate(n) \/ Collect(n) \/ DispatchNode(n) \/ waitForApproval(n)
Gate(n) == GateWake(n) \/ Approved(n) \/ NotApproved(n) \/ Forget(n)
Settle(n) == completeNode(n) \/ SucceedAgain(n) \/ Succeed(n) \/ IterateAgain(n)
               \/ FailWithDefault(n) \/ FailAndRetry(n) \/ RetryAgain(n) \/ Fail(n)

SchedulerStep == Start \/ Report \/ Close \/ Wake \/ Unlock \/ \E n \in Nodes : Timer(n) \/ Pass(n) \/ Gate(n) \/ Settle(n)

Next == SchedulerStep \/ Cancel \/ \E n \in Nodes, a \in {"yes", "no"} : Answer(n, a)

Spec == Init /\ [][Next]_vars

\* Go runs the goroutines that can run; jobs end, timers fire, the loop polls.
\* Nobody has to answer an approval.
FairSpec == Spec /\ WF_vars(SchedulerStep)
----------------------------------------------------------------------------
(* Properties.                                                             *)

\* The type of the scheduler's fields.
TypeOK ==
  /\ graph \in [Nodes -> NodeConfig] /\ resume \subseteq Nodes
  /\ st \in [Nodes -> NodeState] /\ edge \in [Pairs -> {"unknown", "taken", "skipped"}]
  /\ tries \in [Nodes -> Nat] /\ iters \in [Nodes -> Nat] /\ cached \subseteq Nodes
  /\ pc \in [Nodes -> PCs] /\ running \in Nat
  /\ mu \in {"free", "scan", "approve"} /\ inline \in 0..N
  /\ at \in 0..(N + 1) /\ cands \subseteq Nodes /\ scanner \in 0..N
  /\ wakes \in Nat /\ timers \in [Nodes -> Nat]
  /\ gateWakes \in [Nodes -> Nat] /\ cleanups \in [Nodes -> Nat]
  /\ approvals \subseteq Nodes /\ answer \in [Nodes -> {"none", "yes", "no"}]
  /\ ctx \in BOOLEAN /\ main \in {"start", "seed", "poll", "drain", "closed"}
  /\ report \in {"none", "ok", "error", "cancelled"}

\* s.running counts the nodes that execute: a slot is neither lost nor given
\* back twice, whichever of refusal, failure, retry and approval end a node.
RunningExact == running = Cardinality({ n \in Nodes : pc[n] = "work" })

\* The state manager and the goroutines agree: exactly the node whose
\* goroutine is under way is running or queued, so a node is never executed by
\* two goroutines and never waits for a goroutine that has gone; one that is
\* about to be reset has ended, and only a pending node is dispatched.
OneOwner ==
  \A n \in Nodes :
    /\ (st[n] = "queued") <=> (pc[n] = "approval")
    /\ (st[n] = "running") <=> (pc[n] \in {"work", "succeeded"} \cup Failures)
    /\ pc[n] = "iterating" => st[n] = "done"
    /\ pc[n] \in Resetting => st[n] = "failed"
    /\ n \in cands => st[n] = "pending"

\* A node starts only when the nodes it depends on have ended, and they do not
\* start again: a dependency of a node that has begun is done, skipped, or
\* failed with this node as its fail branch.
DepsFirst ==
  \A n \in Nodes : st[n] \in {"queued", "running", "done", "failed"} /\ n \notin resume => DependenciesSatisfied(n)

\* A node is skipped because its condition says so or because nothing leads to
\* it: each of its dependencies was skipped or failed for another branch.  None
\* that a completed dependency leads to is skipped, nor the fail branch of one
\* that failed, in whatever order the edges were marked.
SkipsJustified ==
  \A n \in Nodes : st[n] = "skipped" =>
    \/ graph[n].cond
    \/ /\ graph[n].dependsOn # {}
       /\ \A d \in graph[n].dependsOn : st[d] = "skipped" \/ (st[d] = "failed" /\ graph[d].fail # n)

\* All nodes finished means that: after EventAllDone without cancellation
\* nothing is executed or pending.
AllDoneIsFinal == report \in {"ok", "error"} => AllDone

\* A run that reports no error has no failed node, other than those whose fail
\* branch completed.
OkIsOk == report = "ok" => ~summaryError

\* ApproveNode and RejectNode answer true only to a gate of a run that goes on:
\* once the event channel is closed no entry is left in s.approvals, whichever
\* of answer, timeout, refusal, retry and cancellation ended the waits.
NoStaleApproval == main = "closed" => approvals = {}

\* The limit holds for the nodes enqueueReady dispatches itself; only approved
\* nodes, which waitForApproval dispatches without looking at it, come on top.
UngatedLimit == Cardinality({ n \in Nodes : pc[n] = "work" /\ ~graph[n].approval }) <= MaxParallel

\* The event channel is closed once the context is cancelled.
CancelCloses == ctx ~> main = "closed"

\* The graphs no failure or skip can strand: what fails for good has no
\* dependent but its fail branch, nobody is waited for without a timeout, and
\* nodes that a scan itself ends (skipped or frozen) have later dependents.
Settles(g) ==
  /\ \A n \in Nodes : /\ g[n].strategy = "default" \/ Dependents(g, n) \subseteq {g[n].fail}
                      /\ g[n].approval => g[n].timeout
  /\ (\E n \in Nodes : g[n].cond \/ g[n].frozen) => \A n \in Nodes : \A d \in Dependents(g, n) : d > n

\* Such a graph is run to its end and the event channel closed, whatever its
\* jobs, the pool and the approvals do.
GraphEnds == Settles(graph) ~> main = "closed"

----------------------------------------------------------------------------
(* What comments of the code promise and an interleaving breaks.           *)

\* No more than maxParallel nodes run concurrently.
AtMostMaxParallel == running <= MaxParallel

\* A node is not executed again while the delay of its retry has not passed.
RetryWaits == \A n \in Nodes : timers[n] > 0 => pc[n] # "work"

\* A node that waits for approval can be approved: its entry is in s.approvals.
GateReachable == \A n \in Nodes : pc[n] = "approval" => n \in approvals

\* ErrorFail: mark failed, cascade skip to dependents.
FailureCascades ==
  \A n, k \in Nodes :
    st[n] = "failed" /\ k \in Dependents(graph, n) \ {graph[n].fail} ~> st[n] # "failed" \/ st[k] # "pending"

\* The event channel is closed when all nodes are complete, and they complete.
EveryGraphEnds == <>(main = "closed")
=============================================================================
