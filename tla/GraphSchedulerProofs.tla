------------------------ MODULE GraphSchedulerProofs ------------------------
(***************************************************************************)
(* Proofs about GraphScheduler, for any number of nodes, any set of graphs *)
(* and any limit: its types, that s.running is exact, and that the state   *)
(* manager and the goroutines agree about every node; and how far the      *)
(* limit, the order of dependencies and the verdict can be trusted.        *)
(***************************************************************************)
EXTENDS GraphScheduler, TLAPS, FiniteSetTheorems

\* Candidates exist only during a scan, and the scan is past them.
Behind == \A k \in cands : mu = "scan" /\ k < at

\* Before the run loop has started nothing else has.
Fresh ==
  main = "start" => /\ mu = "free" /\ cands = {} /\ wakes = 0
                    /\ \A n \in Nodes : pc[n] = "idle" /\ timers[n] = 0 /\ gateWakes[n] = 0

IndInv == TypeOK /\ OneOwner /\ Behind /\ Fresh /\ RunningExact

-----------------------------------------------------------------------------
(* Counting the nodes that execute.                                        *)

Working(p) == { k \in Nodes : p[k] = "work" }

\* The nodes that execute are finitely many.
LEMMA WorkingFinite == ASSUME NEW p PROVE IsFiniteSet(Working(p)) /\ Cardinality(Working(p)) \in Nat
<1>1. IsFiniteSet(Nodes)
  BY FS_Interval, GraphAssumption DEF Nodes
<1>2. Working(p) \in SUBSET Nodes
  BY DEF Working
<1>3. IsFiniteSet(Working(p))
  BY <1>1, <1>2, FS_Subset
<1> QED
  BY <1>3, FS_CardinalityType

\* A node that starts to execute adds one.
LEMMA CountUp ==
  ASSUME NEW p \in [Nodes -> PCs], NEW n \in Nodes, p[n] # "work"
  PROVE  Cardinality(Working([p EXCEPT ![n] = "work"])) = Cardinality(Working(p)) + 1
<1>1. Working([p EXCEPT ![n] = "work"]) = Working(p) \cup {n}
  BY DEF Working
<1>2. n \notin Working(p)
  BY DEF Working
<1>3. IsFiniteSet(Working(p))
  BY WorkingFinite
<1>4. Cardinality(Working(p) \cup {n}) = Cardinality(Working(p)) + 1
  BY <1>2, <1>3, FS_AddElement
<1> QED
  BY <1>1, <1>4

\* One that stops takes one away, and leaves none negative.
LEMMA CountDown ==
  ASSUME NEW p \in [Nodes -> PCs], NEW n \in Nodes, p[n] = "work", NEW v, v # "work"
  PROVE  /\ Cardinality(Working([p EXCEPT ![n] = v])) = Cardinality(Working(p)) - 1
         /\ Cardinality(Working(p)) > 0
<1>1. Working([p EXCEPT ![n] = v]) = Working(p) \ {n}
  BY DEF Working
<1>2. n \in Working(p)
  BY DEF Working
<1>3. IsFiniteSet(Working(p)) /\ Cardinality(Working(p)) \in Nat
  BY WorkingFinite
<1>4. Cardinality(Working(p)) # 0
  BY <1>2, <1>3, FS_EmptySet
<1>5. Cardinality(Working(p) \ {n}) = Cardinality(Working(p)) - 1
  BY <1>2, <1>3, FS_RemoveElement
<1>6. Cardinality(Working([p EXCEPT ![n] = v])) = Cardinality(Working(p)) - 1
  BY <1>1, <1>5, Zenon
<1>7. Cardinality(Working(p)) > 0
  BY <1>3, <1>4
<1> QED
  BY <1>6, <1>7

\* Other moves of a goroutine do not count.
LEMMA CountSame ==
  ASSUME NEW p \in [Nodes -> PCs], NEW n \in Nodes, p[n] # "work", NEW v, v # "work"
  PROVE  Working([p EXCEPT ![n] = v]) = Working(p)
  BY DEF Working

-----------------------------------------------------------------------------
(* The invariant.                                                          *)

\* The invariant holds before the run.
LEMMA InitInv == Init => IndInv
<1> SUFFICES ASSUME Init PROVE IndInv
  OBVIOUS
<1>1. ctx \in BOOLEAN
  BY Zenon DEF Init
<1>2. graph \in [Nodes -> NodeConfig] /\ resume \subseteq Nodes
  BY GraphAssumption DEF Init
<1>3. TypeOK
  BY <1>1, <1>2, GraphAssumption DEF Init, TypeOK, None, NodeState, PCs, Pairs
<1>4. OneOwner /\ Behind /\ Fresh
  BY DEF Init, OneOwner, Behind, Fresh, None, Failures, Resetting
<1>5. { n \in Nodes : pc[n] = "work" } = {}
  BY DEF Init
<1>6. RunningExact
  BY <1>5, FS_EmptySet DEF Init, RunningExact
<1> QED
  BY <1>3, <1>4, <1>6 DEF IndInv

\* What the next lemmas need of the types.
Shape == /\ st \in [Nodes -> NodeState] /\ pc \in [Nodes -> PCs] /\ at \in Nat /\ cands \subseteq Nodes /\ inline \in Nat
         /\ wakes \in Nat /\ timers \in [Nodes -> Nat] /\ gateWakes \in [Nodes -> Nat]

\* The shape is part of the types.
LEMMA TypeShape == TypeOK => Shape
  BY GraphAssumption DEF TypeOK, Shape

\* Every step keeps state manager and goroutines in agreement.
LEMMA NextOwner == Shape /\ OneOwner /\ Behind /\ Fresh /\ [Next]_vars => OneOwner'
<1> SUFFICES ASSUME Shape, OneOwner, Behind, Fresh, [Next]_vars PROVE OneOwner'
  OBVIOUS
<1> USE DEF nodes, lock, scan, gates, run
<1> USE GraphAssumption DEF Shape, OneOwner, Behind, Fresh, NodeState, PCs, Failures, Resetting
<1>1. CASE Start
  BY <1>1 DEF Start
<1>2. CASE Report
  BY <1>2 DEF Report, AllDone, summaryError
<1>3. CASE Close
  BY <1>3 DEF Close
<1>4. CASE Wake
  BY <1>4 DEF Wake, Lock
<1>5. CASE Unlock
  BY <1>5 DEF Unlock
<1>6. CASE Cancel
  BY <1>6 DEF Cancel
<1>7. ASSUME NEW n \in Nodes, Timer(n) PROVE OneOwner'
  BY <1>7 DEF Timer, Lock
<1>8. ASSUME NEW n \in Nodes, Pass(n) PROVE OneOwner'
  <2>1. CASE NotReady(n)
    BY <2>1 DEF NotReady, FirstPass
  <2>2. CASE UseFrozen(n)
    BY <2>2 DEF UseFrozen, FirstPass, Looking
  <2>3. CASE skipNodeAndPropagate(n)
    BY <2>3 DEF skipNodeAndPropagate, FirstPass, Looking, Mark
  <2>4. CASE Collect(n)
    BY <2>4 DEF Collect, FirstPass, Looking
  <2>5. CASE DispatchNode(n)
    BY <2>5 DEF DispatchNode, Dispatching, Started, Refused
  <2>6. CASE waitForApproval(n)
    BY <2>6 DEF waitForApproval, Dispatching
  <2> QED
    BY <1>8, <2>1, <2>2, <2>3, <2>4, <2>5, <2>6 DEF Pass
<1>9. ASSUME NEW n \in Nodes, Gate(n) PROVE OneOwner'
  <2>1. CASE GateWake(n)
    BY <2>1 DEF GateWake, Lock
  <2>2. CASE Approved(n)
    BY <2>2 DEF Approved, Started, Refused
  <2>3. CASE NotApproved(n)
    BY <2>3 DEF NotApproved
  <2>4. CASE Forget(n)
    BY <2>4 DEF Forget
  <2> QED
    BY <1>9, <2>1, <2>2, <2>3, <2>4 DEF Gate
<1>10. ASSUME NEW n \in Nodes, Settle(n) PROVE OneOwner'
  <2>1. CASE completeNode(n)
    BY <2>1 DEF completeNode
  <2>2. CASE SucceedAgain(n)
    BY <2>2 DEF SucceedAgain, More
  <2>3. CASE Succeed(n)
    BY <2>3 DEF Succeed, Complete, Leave, Mark, More
  <2>4. CASE IterateAgain(n)
    BY <2>4 DEF IterateAgain, Leave
  <2>5. CASE FailWithDefault(n)
    BY <2>5 DEF FailWithDefault, Failing, Complete, Leave, Mark
  <2>6. CASE FailAndRetry(n)
    BY <2>6 DEF FailAndRetry, Failing, More
  <2>7. CASE RetryAgain(n)
    BY <2>7 DEF RetryAgain, Leave
  <2>8. CASE Fail(n)
    BY <2>8 DEF Fail, Failing, Leave, More
  <2> QED
    BY <1>10, <2>1, <2>2, <2>3, <2>4, <2>5, <2>6, <2>7, <2>8 DEF Settle
<1>11. ASSUME NEW n \in Nodes, NEW a \in {"yes", "no"}, Answer(n, a) PROVE OneOwner'
  BY <1>11 DEF Answer
<1>12. CASE UNCHANGED vars
  BY <1>12 DEF vars
<1> QED
  BY <1>1, <1>2, <1>3, <1>4, <1>5, <1>6, <1>7, <1>8, <1>9, <1>10, <1>11, <1>12 DEF Next, SchedulerStep

\* Every step keeps the candidates behind the scan.
LEMMA NextBehind == Shape /\ OneOwner /\ Behind /\ Fresh /\ [Next]_vars => Behind'
<1> SUFFICES ASSUME Shape, OneOwner, Behind, Fresh, [Next]_vars PROVE Behind'
  OBVIOUS
<1> USE DEF nodes, lock, scan, gates, run
<1> USE GraphAssumption DEF Shape, Behind, Fresh, Nodes
<1>1. CASE Start
  BY <1>1 DEF Start
<1>2. CASE Report
  BY <1>2 DEF Report, AllDone, summaryError
<1>3. CASE Close
  BY <1>3 DEF Close
<1>4. CASE Wake
  BY <1>4 DEF Wake, Lock
<1>5. CASE Unlock
  BY <1>5 DEF Unlock
<1>6. CASE Cancel
  BY <1>6 DEF Cancel
<1>7. ASSUME NEW n \in Nodes, Timer(n) PROVE Behind'
  BY <1>7 DEF Timer, Lock
<1>8. ASSUME NEW n \in Nodes, Pass(n) PROVE Behind'
  <2>1. CASE NotReady(n)
    BY <2>1 DEF NotReady, FirstPass
  <2>2. CASE UseFrozen(n)
    BY <2>2 DEF UseFrozen, FirstPass, Looking
  <2>3. CASE skipNodeAndPropagate(n)
    BY <2>3 DEF skipNodeAndPropagate, FirstPass, Looking, Mark
  <2>4. CASE Collect(n)
    BY <2>4 DEF Collect, FirstPass, Looking
  <2>5. CASE DispatchNode(n)
    BY <2>5 DEF DispatchNode, Dispatching, Started, Refused
  <2>6. CASE waitForApproval(n)
    BY <2>6 DEF waitForApproval, Dispatching
  <2> QED
    BY <1>8, <2>1, <2>2, <2>3, <2>4, <2>5, <2>6 DEF Pass
<1>9. ASSUME NEW n \in Nodes, Gate(n) PROVE Behind'
  <2>1. CASE GateWake(n)
    BY <2>1 DEF GateWake, Lock
  <2>2. CASE Approved(n)
    BY <2>2 DEF Approved, Started, Refused
  <2>3. CASE NotApproved(n)
    BY <2>3 DEF NotApproved
  <2>4. CASE Forget(n)
    BY <2>4 DEF Forget
  <2> QED
    BY <1>9, <2>1, <2>2, <2>3, <2>4 DEF Gate
<1>10. ASSUME NEW n \in Nodes, Settle(n) PROVE Behind'
  <2>1. CASE completeNode(n)
    BY <2>1 DEF completeNode
  <2>2. CASE SucceedAgain(n)
    BY <2>2 DEF SucceedAgain, More
  <2>3. CASE Succeed(n)
    BY <2>3 DEF Succeed, Complete, Leave, Mark, More
  <2>4. CASE IterateAgain(n)
    BY <2>4 DEF IterateAgain, Leave
  <2>5. CASE FailWithDefault(n)
    BY <2>5 DEF FailWithDefault, Failing, Complete, Leave, Mark
  <2>6. CASE FailAndRetry(n)
    BY <2>6 DEF FailAndRetry, Failing, More
  <2>7. CASE RetryAgain(n)
    BY <2>7 DEF RetryAgain, Leave
  <2>8. CASE Fail(n)
    BY <2>8 DEF Fail, Failing, Leave, More
  <2> QED
    BY <1>10, <2>1, <2>2, <2>3, <2>4, <2>5, <2>6, <2>7, <2>8 DEF Settle
<1>11. ASSUME NEW n \in Nodes, NEW a \in {"yes", "no"}, Answer(n, a) PROVE Behind'
  BY <1>11 DEF Answer
<1>12. CASE UNCHANGED vars
  BY <1>12 DEF vars
<1> QED
  BY <1>1, <1>2, <1>3, <1>4, <1>5, <1>6, <1>7, <1>8, <1>9, <1>10, <1>11, <1>12 DEF Next, SchedulerStep

\* Nothing but Start happens before the start.
LEMMA NextFresh == Shape /\ OneOwner /\ Behind /\ Fresh /\ [Next]_vars => Fresh'
<1> SUFFICES ASSUME Shape, OneOwner, Behind, Fresh, [Next]_vars PROVE Fresh'
  OBVIOUS
<1> USE DEF nodes, lock, scan, gates, run
<1> USE GraphAssumption DEF Shape, Fresh, Failures, Resetting
<1>1. CASE Start
  BY <1>1 DEF Start
<1>2. CASE Report
  BY <1>2 DEF Report, AllDone, summaryError
<1>3. CASE Close
  BY <1>3 DEF Close
<1>4. CASE Wake
  BY <1>4 DEF Wake, Lock
<1>5. CASE Unlock
  BY <1>5 DEF Unlock
<1>6. CASE Cancel
  BY <1>6 DEF Cancel
<1>7. ASSUME NEW n \in Nodes, Timer(n) PROVE Fresh'
  BY <1>7 DEF Timer, Lock
<1>8. ASSUME NEW n \in Nodes, Pass(n) PROVE Fresh'
  <2>1. CASE NotReady(n)
    BY <2>1 DEF NotReady, FirstPass
  <2>2. CASE UseFrozen(n)
    BY <2>2 DEF UseFrozen, FirstPass, Looking
  <2>3. CASE skipNodeAndPropagate(n)
    BY <2>3 DEF skipNodeAndPropagate, FirstPass, Looking, Mark
  <2>4. CASE Collect(n)
    BY <2>4 DEF Collect, FirstPass, Looking
  <2>5. CASE DispatchNode(n)
    BY <2>5 DEF DispatchNode, Dispatching, Started, Refused
  <2>6. CASE waitForApproval(n)
    BY <2>6 DEF waitForApproval, Dispatching
  <2> QED
    BY <1>8, <2>1, <2>2, <2>3, <2>4, <2>5, <2>6 DEF Pass
<1>9. ASSUME NEW n \in Nodes, Gate(n) PROVE Fresh'
  <2>1. CASE GateWake(n)
    BY <2>1 DEF GateWake, Lock
  <2>2. CASE Approved(n)
    BY <2>2 DEF Approved, Started, Refused
  <2>3. CASE NotApproved(n)
    BY <2>3 DEF NotApproved
  <2>4. CASE Forget(n)
    BY <2>4 DEF Forget
  <2> QED
    BY <1>9, <2>1, <2>2, <2>3, <2>4 DEF Gate
<1>10. ASSUME NEW n \in Nodes, Settle(n) PROVE Fresh'
  <2>1. CASE completeNode(n)
    BY <2>1 DEF completeNode
  <2>2. CASE SucceedAgain(n)
    BY <2>2 DEF SucceedAgain, More
  <2>3. CASE Succeed(n)
    BY <2>3 DEF Succeed, Complete, Leave, Mark, More
  <2>4. CASE IterateAgain(n)
    BY <2>4 DEF IterateAgain, Leave
  <2>5. CASE FailWithDefault(n)
    BY <2>5 DEF FailWithDefault, Failing, Complete, Leave, Mark
  <2>6. CASE FailAndRetry(n)
    BY <2>6 DEF FailAndRetry, Failing, More
  <2>7. CASE RetryAgain(n)
    BY <2>7 DEF RetryAgain, Leave
  <2>8. CASE Fail(n)
    BY <2>8 DEF Fail, Failing, Leave, More
  <2> QED
    BY <1>10, <2>1, <2>2, <2>3, <2>4, <2>5, <2>6, <2>7, <2>8 DEF Settle
<1>11. ASSUME NEW n \in Nodes, NEW a \in {"yes", "no"}, Answer(n, a) PROVE Fresh'
  BY <1>11 DEF Answer
<1>12. CASE UNCHANGED vars
  BY <1>12 DEF vars
<1> QED
  BY <1>1, <1>2, <1>3, <1>4, <1>5, <1>6, <1>7, <1>8, <1>9, <1>10, <1>11, <1>12 DEF Next, SchedulerStep

\* Only Cancel changes the context.
LEMMA NextCtx == ctx \in BOOLEAN /\ [Next]_vars => ctx' \in BOOLEAN
<1> USE Zenon DEF run
<1>1. Start \/ Report \/ Close \/ Wake \/ Unlock \/ UNCHANGED vars => ctx' = ctx
  BY DEF Start, Report, Close, Wake, Unlock, vars
<1>2. ASSUME NEW n \in Nodes PROVE (Timer(n) \/ Pass(n) \/ Gate(n)) => ctx' = ctx
  BY DEF Timer, Pass, NotReady, UseFrozen, skipNodeAndPropagate, Collect, FirstPass, DispatchNode, waitForApproval,
         Gate, GateWake, Approved, NotApproved, Forget
<1>3. ASSUME NEW n \in Nodes PROVE Settle(n) => ctx' = ctx
  BY DEF Settle, completeNode, SucceedAgain, Succeed, IterateAgain, FailWithDefault, FailAndRetry, RetryAgain, Fail,
         Complete, Leave
<1>4. ASSUME NEW n \in Nodes, NEW a \in {"yes", "no"} PROVE Answer(n, a) => ctx' = ctx
  BY DEF Answer
<1>5. Cancel => ctx' = TRUE
  BY DEF Cancel
<1> QED
  BY <1>1, <1>2, <1>3, <1>4, <1>5 DEF Next, SchedulerStep

\* Every step keeps the types; a slot is given back by a node that holds one.
LEMMA NextType == TypeOK /\ RunningExact /\ [Next]_vars => TypeOK'
<1> SUFFICES ASSUME TypeOK, RunningExact, [Next]_vars PROVE TypeOK'
  OBVIOUS
<1> USE DEF nodes, lock, scan, gates, run
<1>t. ctx' \in BOOLEAN
  BY NextCtx DEF TypeOK
<1>r. /\ \A k \in Nodes : k \in 0..N /\ k + 1 \in 0..(N + 1)
      /\ \A k \in 0..N : k # 0 => k \in Nodes
  BY GraphAssumption DEF Nodes
<1> USE GraphAssumption DEF TypeOK, NodeState, PCs
<1>1. CASE Start
  BY <1>1, <1>t DEF Start
<1>2. CASE Report
  BY <1>2, <1>t DEF Report, AllDone, summaryError
<1>3. CASE Close
  BY <1>3, <1>t DEF Close
<1>4. CASE Wake
  BY <1>4, <1>t DEF Wake, Lock
<1>5. CASE Unlock
  BY <1>5, <1>t, <1>r DEF Unlock
<1>6. CASE Cancel
  BY <1>6, <1>t DEF Cancel
<1>7. ASSUME NEW n \in Nodes, Timer(n) PROVE TypeOK'
  BY <1>7, <1>t DEF Timer, Lock
<1>8. ASSUME NEW n \in Nodes, Pass(n) PROVE TypeOK'
  <2>1. CASE NotReady(n)
    BY <2>1, <1>t, <1>r DEF NotReady, FirstPass
  <2>2. CASE UseFrozen(n)
    BY <2>2, <1>t, <1>r DEF UseFrozen, FirstPass, Looking
  <2>3. CASE skipNodeAndPropagate(n)
    BY <2>3, <1>t, <1>r DEF skipNodeAndPropagate, FirstPass, Looking, Mark
  <2>4. CASE Collect(n)
    BY <2>4, <1>t, <1>r DEF Collect, FirstPass, Looking
  <2>5. CASE DispatchNode(n)
    BY <2>5, <1>t, <1>r DEF DispatchNode, Dispatching, Started, Refused
  <2>6. CASE waitForApproval(n)
    BY <2>6, <1>t DEF waitForApproval, Dispatching
  <2> QED
    BY <1>8, <2>1, <2>2, <2>3, <2>4, <2>5, <2>6 DEF Pass
<1>9. ASSUME NEW n \in Nodes, Gate(n) PROVE TypeOK'
  <2>1. CASE GateWake(n)
    BY <2>1, <1>t, <1>r DEF GateWake, Lock
  <2>2. CASE Approved(n)
    BY <2>2, <1>t, <1>r DEF Approved, Started, Refused
  <2>3. CASE NotApproved(n)
    BY <2>3, <1>t DEF NotApproved
  <2>4. CASE Forget(n)
    BY <2>4, <1>t DEF Forget
  <2> QED
    BY <1>9, <2>1, <2>2, <2>3, <2>4 DEF Gate
<1>10. ASSUME NEW n \in Nodes, Settle(n) PROVE TypeOK'
  <2>1. CASE completeNode(n)
    <3>1. running' = running - 1 /\ running > 0
      BY <2>1, CountDown DEF completeNode, RunningExact, Working
    <3> QED
      BY <2>1, <1>t, <3>1 DEF completeNode
  <2>2. CASE SucceedAgain(n)
    BY <2>2, <1>t DEF SucceedAgain, More
  <2>3. CASE Succeed(n)
    BY <2>3, <1>t DEF Succeed, Complete, Leave, Mark, More
  <2>4. CASE IterateAgain(n)
    BY <2>4, <1>t DEF IterateAgain, Leave
  <2>5. CASE FailWithDefault(n)
    BY <2>5, <1>t DEF FailWithDefault, Failing, Complete, Leave, Mark
  <2>6. CASE FailAndRetry(n)
    BY <2>6, <1>t DEF FailAndRetry, Failing, More
  <2>7. CASE RetryAgain(n)
    BY <2>7, <1>t DEF RetryAgain, Leave
  <2>8. CASE Fail(n)
    BY <2>8, <1>t DEF Fail, Failing, Leave, More
  <2> QED
    BY <1>10, <2>1, <2>2, <2>3, <2>4, <2>5, <2>6, <2>7, <2>8 DEF Settle
<1>11. ASSUME NEW n \in Nodes, NEW a \in {"yes", "no"}, Answer(n, a) PROVE TypeOK'
  BY <1>11, <1>t DEF Answer
<1>12. CASE UNCHANGED vars
  BY <1>12, <1>t DEF vars
<1> QED
  BY <1>1, <1>2, <1>3, <1>4, <1>5, <1>6, <1>7, <1>8, <1>9, <1>10, <1>11, <1>12 DEF Next, SchedulerStep

\* The count follows every move of a goroutine.
LEMMA NextCount == IndInv /\ [Next]_vars => RunningExact'
<1> SUFFICES ASSUME IndInv, [Next]_vars PROVE RunningExact'
  OBVIOUS
<1> USE DEF run
<1>1. /\ pc \in [Nodes -> PCs] /\ OneOwner /\ running = Cardinality(Working(pc))
      /\ RunningExact' <=> running' = Cardinality(Working(pc'))
  BY DEF IndInv, TypeOK, RunningExact, Working
<1>2. ASSUME pc' = pc, running' = running PROVE RunningExact'
  BY <1>1, <1>2
<1>3. ASSUME NEW n \in Nodes, pc[n] # "work", Started(n) PROVE RunningExact'
  BY <1>1, <1>3, CountUp DEF Started
<1>4. ASSUME NEW n \in Nodes, pc[n] # "work", NEW v, v # "work", pc' = [pc EXCEPT ![n] = v], running' = running
      PROVE  RunningExact'
  BY <1>1, <1>4, CountSame
<1>5. ASSUME NEW n \in Nodes, Pass(n) PROVE RunningExact'
  <2>1. CASE NotReady(n) \/ UseFrozen(n) \/ skipNodeAndPropagate(n) \/ Collect(n)
    BY <1>2, <2>1 DEF NotReady, UseFrozen, skipNodeAndPropagate, Collect, FirstPass
  <2>2. ASSUME Dispatching(n) PROVE pc[n] # "work"
    BY <1>1, <2>2 DEF Dispatching, OneOwner
  <2>3. CASE DispatchNode(n)
    BY <1>3, <1>4, <2>2, <2>3 DEF DispatchNode, Refused
  <2>4. CASE waitForApproval(n)
    BY <1>4, <2>2, <2>4 DEF waitForApproval
  <2> QED
    BY <1>5, <2>1, <2>3, <2>4 DEF Pass
<1>6. ASSUME NEW n \in Nodes, Gate(n) PROVE RunningExact'
  <2>1. CASE GateWake(n) \/ Forget(n)
    BY <1>2, <2>1 DEF GateWake, Forget
  <2>2. CASE Approved(n)
    BY <1>3, <1>4, <2>2 DEF Approved, Refused
  <2>3. CASE NotApproved(n)
    BY <1>4, <2>3 DEF NotApproved
  <2> QED
    BY <1>6, <2>1, <2>2, <2>3 DEF Gate
<1>7. ASSUME NEW n \in Nodes, Settle(n) PROVE RunningExact'
  <2>1. CASE completeNode(n)
    <3>1. PICK v \in {"succeeded", "failed"} : pc' = [pc EXCEPT ![n] = v]
      BY <2>1 DEF completeNode
    <3>2. Cardinality(Working(pc')) = Cardinality(Working(pc)) - 1
      BY <1>1, <2>1, <3>1, CountDown DEF completeNode
    <3> QED
      BY <1>1, <2>1, <3>2 DEF completeNode
  <2>2. CASE SucceedAgain(n)
    BY <1>4, <2>2 DEF SucceedAgain
  <2>3. CASE FailAndRetry(n)
    <3> DEFINE v == IF pc[n] = "rejected" THEN "retry_rejected"
                    ELSE IF pc[n] = "cancelled" THEN "retry_cancelled" ELSE "retry"
    <3>1. v # "work"
      OBVIOUS
    <3>2. pc' = [pc EXCEPT ![n] = v] /\ pc[n] # "work" /\ running' = running
      BY <2>3 DEF FailAndRetry, Failing, Failures
    <3> HIDE DEF v
    <3> QED
      BY <1>4, <3>1, <3>2
  <2>4. CASE Succeed(n) \/ IterateAgain(n) \/ FailWithDefault(n) \/ RetryAgain(n) \/ Fail(n)
    <3>1. pc[n] # "work" /\ Leave(n)
      BY <2>4 DEF Succeed, IterateAgain, FailWithDefault, RetryAgain, Fail, Complete, Failing, Failures, Resetting
    <3> QED
      BY <1>4, <3>1 DEF Leave
  <2> QED
    BY <1>7, <2>1, <2>2, <2>3, <2>4 DEF Settle
<1>8. ASSUME \/ Start \/ Report \/ Close \/ Wake \/ Unlock \/ Cancel \/ UNCHANGED vars
             \/ \E n \in Nodes : Timer(n) \/ \E a \in {"yes", "no"} : Answer(n, a)
      PROVE  RunningExact'
  BY <1>2, <1>8 DEF Start, Report, Close, Wake, Unlock, Cancel, Timer, Answer, vars
<1> QED
  BY <1>5, <1>6, <1>7, <1>8 DEF Next, SchedulerStep

\* The invariant is inductive, and so it always holds.
THEOREM Invariant == Spec => []IndInv
<1>1. IndInv /\ [Next]_vars => IndInv'
  BY TypeShape, NextType, NextOwner, NextBehind, NextFresh, NextCount DEF IndInv
<1> QED
  BY <1>1, InitInv, PTL DEF Spec

\* The scheduler's fields have their types, for any graphs and limit: no
\* counter of goroutines or slots goes below zero.
THEOREM TypeCorrect == Spec => []TypeOK
  BY Invariant, PTL DEF IndInv

\* s.running is the number of nodes that execute, whatever fails, is refused,
\* retried, approved or cancelled.
THEOREM SlotsExact == Spec => []RunningExact
  BY Invariant, PTL DEF IndInv

\* Every node that is queued or running has exactly the goroutine that will
\* settle it, although the state manager is changed outside s.mu.
THEOREM NodesOwned == Spec => []OneOwner
  BY Invariant, PTL DEF IndInv

-----------------------------------------------------------------------------
(* The limit of nodes that run without approval.                           *)

\* A graph never changes during its run.
LEMMA GraphStays == [Next]_vars => graph' = graph /\ resume' = resume
  BY DEF Next, SchedulerStep, Start, Report, Close, Wake, Unlock, Cancel, Timer, Answer, Pass, NotReady, UseFrozen,
         skipNodeAndPropagate, Collect, FirstPass, DispatchNode, waitForApproval, Gate, GateWake, Approved, NotApproved,
         Forget, Settle, completeNode, SucceedAgain, Succeed, IterateAgain, FailWithDefault, FailAndRetry, RetryAgain,
         Fail, Complete, Leave, vars

Loose(p) == { k \in Nodes : p[k] = "work" /\ ~graph[k].approval }

\* Only nodes that ask for it wait for approval.
Gated == \A n \in Nodes : pc[n] = "approval" => graph[n].approval

\* Nothing but enqueueReady's dispatch below the limit adds a node that needs
\* no approval to those that execute.
LEMMA LooseGrows ==
  ASSUME IndInv, Gated, [Next]_vars
  PROVE  /\ Gated'
         /\ \/ Loose(pc') \subseteq Loose(pc)
            \/ running < MaxParallel /\ \E n \in Nodes : Loose(pc') \subseteq Loose(pc) \cup {n}
<1> DEFINE Goal == /\ Gated'
                   /\ \/ Loose(pc') \subseteq Loose(pc)
                      \/ running < MaxParallel /\ \E n \in Nodes : Loose(pc') \subseteq Loose(pc) \cup {n}
<1> USE DEF run
<1>1. pc \in [Nodes -> PCs] /\ graph' = graph
  BY GraphStays DEF IndInv, TypeOK
<1>2. ASSUME pc' = pc PROVE Goal
  BY <1>1, <1>2 DEF Gated
<1>3. ASSUME NEW n \in Nodes, NEW v \in PCs, pc' = [pc EXCEPT ![n] = v], v = "approval" => graph[n].approval,
             v = "work" => graph[n].approval \/ running < MaxParallel
      PROVE  Goal
  BY <1>1, <1>3 DEF Gated, Loose
<1>4. ASSUME NEW n \in Nodes, Pass(n) PROVE Goal
  <2>1. CASE NotReady(n) \/ UseFrozen(n) \/ skipNodeAndPropagate(n) \/ Collect(n)
    BY <1>2, <2>1 DEF NotReady, UseFrozen, skipNodeAndPropagate, Collect, FirstPass
  <2>2. CASE DispatchNode(n)
    BY <1>3, <2>2 DEF DispatchNode, Dispatching, Started, Refused, PCs
  <2>3. CASE waitForApproval(n)
    BY <1>3, <2>3 DEF waitForApproval, PCs
  <2> QED
    BY <1>4, <2>1, <2>2, <2>3 DEF Pass
<1>5. ASSUME NEW n \in Nodes, Gate(n) PROVE Goal
  <2>1. CASE GateWake(n) \/ Forget(n)
    BY <1>2, <2>1 DEF GateWake, Forget
  <2>2. CASE Approved(n)
    BY <1>3, <2>2 DEF Approved, Started, Refused, Gated, PCs
  <2>3. CASE NotApproved(n)
    BY <1>3, <2>3 DEF NotApproved, PCs
  <2> QED
    BY <1>5, <2>1, <2>2, <2>3 DEF Gate
<1>6. ASSUME NEW n \in Nodes, Settle(n) PROVE Goal
  <2>1. \E v \in PCs \ {"approval", "work"} : pc' = [pc EXCEPT ![n] = v]
    BY <1>6 DEF Settle, completeNode, SucceedAgain, Succeed, IterateAgain, FailWithDefault, FailAndRetry, RetryAgain,
                Fail, Complete, Leave, PCs
  <2> QED
    BY <1>3, <2>1
<1>7. ASSUME \/ Start \/ Report \/ Close \/ Wake \/ Unlock \/ Cancel \/ UNCHANGED vars
             \/ \E n \in Nodes : Timer(n) \/ \E a \in {"yes", "no"} : Answer(n, a)
      PROVE  Goal
  BY <1>2, <1>7 DEF Start, Report, Close, Wake, Unlock, Cancel, Timer, Answer, vars
<1> QED
  BY <1>4, <1>5, <1>6, <1>7 DEF Next, SchedulerStep

\* At most maxParallel nodes run without having been approved, in any graph.
THEOREM LimitKept == Spec => []UngatedLimit
<1>1. Init => UngatedLimit /\ Gated
  <2> SUFFICES ASSUME Init PROVE UngatedLimit /\ Gated
    OBVIOUS
  <2>1. { n \in Nodes : pc[n] = "work" /\ ~graph[n].approval } = {}
    BY DEF Init
  <2>2. Cardinality({ n \in Nodes : pc[n] = "work" /\ ~graph[n].approval }) = 0
    BY <2>1, FS_EmptySet, Zenon
  <2>3. UngatedLimit
    BY <2>2, GraphAssumption DEF UngatedLimit
  <2> QED
    BY <2>3 DEF Init, Gated
<1>2. ASSUME IndInv, UngatedLimit, Gated, [Next]_vars PROVE UngatedLimit' /\ Gated'
  <2>1. /\ Cardinality(Loose(pc)) <= MaxParallel /\ running = Cardinality(Working(pc))
        /\ UngatedLimit' <=> Cardinality(Loose(pc')) <= MaxParallel
    BY <1>2, GraphStays DEF UngatedLimit, Loose, IndInv, RunningExact, Working
  <2>2. Loose(pc) \in SUBSET Working(pc) /\ Loose(pc') \in SUBSET Working(pc')
    BY DEF Loose, Working
  <2>3. /\ IsFiniteSet(Loose(pc)) /\ IsFiniteSet(Loose(pc'))
        /\ Cardinality(Loose(pc)) \in Nat /\ Cardinality(Loose(pc')) \in Nat /\ running \in Nat
        /\ Cardinality(Loose(pc)) <= running
    BY <2>1, <2>2, WorkingFinite, FS_Subset, FS_CardinalityType
  <2>4. CASE Loose(pc') \subseteq Loose(pc)
    <3>1. Cardinality(Loose(pc')) <= Cardinality(Loose(pc))
      BY <2>3, <2>4, FS_Subset
    <3> QED
      BY <1>2, <2>1, <2>3, <3>1, LooseGrows, GraphAssumption
  <2>5. ASSUME NEW n \in Nodes, running < MaxParallel, Loose(pc') \subseteq Loose(pc) \cup {n} PROVE UngatedLimit' /\ Gated'
    <3>1. /\ IsFiniteSet(Loose(pc) \cup {n})
          /\ Cardinality(Loose(pc) \cup {n}) = IF n \in Loose(pc) THEN Cardinality(Loose(pc)) ELSE Cardinality(Loose(pc)) + 1
      BY <2>3, FS_AddElement
    <3>2. Cardinality(Loose(pc')) <= Cardinality(Loose(pc) \cup {n})
      BY <2>5, <3>1, FS_Subset
    <3> QED
      BY <1>2, <2>1, <2>3, <2>5, <3>1, <3>2, LooseGrows, GraphAssumption
  <2> QED
    BY <1>2, <2>4, <2>5, LooseGrows
<1> QED
  BY <1>1, <1>2, Invariant, PTL DEF Spec

-----------------------------------------------------------------------------
(* Graphs in which every node is executed once: no retry, no iteration.    *)

RunsOnce == \A g \in Graphs : \A n \in Nodes : g[n].strategy # "retry" /\ g[n].maxIterations <= 1

\* No goroutine resets its node, and nothing has happened before the start.
Once ==
  /\ graph \in Graphs
  /\ \A n \in Nodes : pc[n] \notin Resetting \cup {"iterating"}
  /\ main = "start" => report = "none" /\ \A n \in Nodes : st[n] = "pending"

\* Once holds before the run.
LEMMA InitOnce == Init => Once
  BY DEF Init, Once, Resetting

\* Without retries and iterations no step resets a node.
LEMMA NextOnce == ASSUME RunsOnce PROVE IndInv /\ Once /\ [Next]_vars => Once'
<1> SUFFICES ASSUME IndInv, Once, [Next]_vars PROVE Once'
  OBVIOUS
<1> USE DEF nodes, lock, scan, gates, run
<1>t. /\ pc \in [Nodes -> PCs] /\ iters \in [Nodes -> Nat] /\ Fresh
      /\ \A n \in Nodes : graph[n].strategy # "retry" /\ graph[n].maxIterations <= 1 /\ graph[n].maxIterations \in Nat
  BY RunsOnce, GraphAssumption DEF IndInv, TypeOK, Once, RunsOnce, NodeConfig
<1> USE DEF Once, Fresh, Failures, Resetting, Retries
<1>1. CASE Start
  BY <1>1, <1>t DEF Start
<1>2. CASE Report
  BY <1>2, <1>t DEF Report, AllDone, summaryError
<1>3. CASE Close
  BY <1>3, <1>t DEF Close
<1>4. CASE Wake
  BY <1>4, <1>t DEF Wake, Lock
<1>5. CASE Unlock
  BY <1>5, <1>t DEF Unlock
<1>6. CASE Cancel
  BY <1>6, <1>t DEF Cancel
<1>7. ASSUME NEW n \in Nodes, Timer(n) PROVE Once'
  BY <1>7, <1>t DEF Timer, Lock
<1>8. ASSUME NEW n \in Nodes, Pass(n) PROVE Once'
  <2>1. CASE NotReady(n)
    BY <2>1, <1>t DEF NotReady, FirstPass
  <2>2. CASE UseFrozen(n)
    BY <2>2, <1>t DEF UseFrozen, FirstPass, Looking
  <2>3. CASE skipNodeAndPropagate(n)
    BY <2>3, <1>t DEF skipNodeAndPropagate, FirstPass, Looking, Mark
  <2>4. CASE Collect(n)
    BY <2>4, <1>t DEF Collect, FirstPass, Looking
  <2>5. CASE DispatchNode(n)
    BY <2>5, <1>t DEF DispatchNode, Dispatching, Started, Refused
  <2>6. CASE waitForApproval(n)
    BY <2>6, <1>t DEF waitForApproval, Dispatching
  <2> QED
    BY <1>8, <2>1, <2>2, <2>3, <2>4, <2>5, <2>6 DEF Pass
<1>9. ASSUME NEW n \in Nodes, Gate(n) PROVE Once'
  <2>1. CASE GateWake(n)
    BY <2>1, <1>t DEF GateWake, Lock
  <2>2. CASE Approved(n)
    BY <2>2, <1>t DEF Approved, Started, Refused
  <2>3. CASE NotApproved(n)
    BY <2>3, <1>t DEF NotApproved
  <2>4. CASE Forget(n)
    BY <2>4, <1>t DEF Forget
  <2> QED
    BY <1>9, <2>1, <2>2, <2>3, <2>4 DEF Gate
<1>10. ASSUME NEW n \in Nodes, Settle(n) PROVE Once'
  <2>1. CASE completeNode(n)
    BY <2>1, <1>t DEF completeNode
  <2>2. CASE SucceedAgain(n)
    BY <2>2, <1>t DEF SucceedAgain, More
  <2>3. CASE Succeed(n)
    BY <2>3, <1>t DEF Succeed, Complete, Leave, Mark, More
  <2>4. CASE IterateAgain(n)
    BY <2>4, <1>t DEF IterateAgain, Leave
  <2>5. CASE FailWithDefault(n)
    BY <2>5, <1>t DEF FailWithDefault, Failing, Complete, Leave, Mark
  <2>6. CASE FailAndRetry(n)
    BY <2>6, <1>t DEF FailAndRetry, Failing, More
  <2>7. CASE RetryAgain(n)
    BY <2>7, <1>t DEF RetryAgain, Leave
  <2>8. CASE Fail(n)
    BY <2>8, <1>t DEF Fail, Failing, Leave, More
  <2> QED
    BY <1>10, <2>1, <2>2, <2>3, <2>4, <2>5, <2>6, <2>7, <2>8 DEF Settle
<1>11. ASSUME NEW n \in Nodes, NEW a \in {"yes", "no"}, Answer(n, a) PROVE Once'
  BY <1>11, <1>t DEF Answer
<1>12. CASE UNCHANGED vars
  BY <1>12, <1>t DEF vars
<1> QED
  BY <1>1, <1>2, <1>3, <1>4, <1>5, <1>6, <1>7, <1>8, <1>9, <1>10, <1>11, <1>12 DEF Next, SchedulerStep

EndsKept == \A k \in Nodes : st[k] \in Ended => st'[k] = st[k]

\* A node that has ended stays as it ended.
LEMMA EndedStays == IndInv /\ Once /\ [Next]_vars => EndsKept
<1> SUFFICES ASSUME IndInv, Once, [Next]_vars PROVE EndsKept
  OBVIOUS
<1> USE DEF nodes, lock, scan, gates, run
<1>t. st \in [Nodes -> NodeState] /\ OneOwner
  BY DEF IndInv, TypeOK
<1> USE DEF EndsKept, OneOwner, Ended, Once, Failures, Resetting
<1>1. CASE Start
  BY <1>1, <1>t DEF Start
<1>2. CASE Report
  BY <1>2, <1>t DEF Report, AllDone, summaryError
<1>3. CASE Close
  BY <1>3, <1>t DEF Close
<1>4. CASE Wake
  BY <1>4, <1>t DEF Wake, Lock
<1>5. CASE Unlock
  BY <1>5, <1>t DEF Unlock
<1>6. CASE Cancel
  BY <1>6, <1>t DEF Cancel
<1>7. ASSUME NEW n \in Nodes, Timer(n) PROVE EndsKept
  BY <1>7, <1>t DEF Timer, Lock
<1>8. ASSUME NEW n \in Nodes, Pass(n) PROVE EndsKept
  <2>1. CASE NotReady(n)
    BY <2>1, <1>t DEF NotReady, FirstPass
  <2>2. CASE UseFrozen(n)
    BY <2>2, <1>t DEF UseFrozen, FirstPass, Looking
  <2>3. CASE skipNodeAndPropagate(n)
    BY <2>3, <1>t DEF skipNodeAndPropagate, FirstPass, Looking, Mark
  <2>4. CASE Collect(n)
    BY <2>4, <1>t DEF Collect, FirstPass, Looking
  <2>5. CASE DispatchNode(n)
    BY <2>5, <1>t DEF DispatchNode, Dispatching, Started, Refused
  <2>6. CASE waitForApproval(n)
    BY <2>6, <1>t DEF waitForApproval, Dispatching
  <2> QED
    BY <1>8, <2>1, <2>2, <2>3, <2>4, <2>5, <2>6 DEF Pass
<1>9. ASSUME NEW n \in Nodes, Gate(n) PROVE EndsKept
  <2>1. CASE GateWake(n)
    BY <2>1, <1>t DEF GateWake, Lock
  <2>2. CASE Approved(n)
    BY <2>2, <1>t DEF Approved, Started, Refused
  <2>3. CASE NotApproved(n)
    BY <2>3, <1>t DEF NotApproved
  <2>4. CASE Forget(n)
    BY <2>4, <1>t DEF Forget
  <2> QED
    BY <1>9, <2>1, <2>2, <2>3, <2>4 DEF Gate
<1>10. ASSUME NEW n \in Nodes, Settle(n) PROVE EndsKept
  <2>1. CASE completeNode(n)
    BY <2>1, <1>t DEF completeNode
  <2>2. CASE SucceedAgain(n)
    BY <2>2, <1>t DEF SucceedAgain, More
  <2>3. CASE Succeed(n)
    BY <2>3, <1>t DEF Succeed, Complete, Leave, Mark, More
  <2>4. CASE IterateAgain(n)
    BY <2>4, <1>t DEF IterateAgain, Leave
  <2>5. CASE FailWithDefault(n)
    BY <2>5, <1>t DEF FailWithDefault, Failing, Complete, Leave, Mark
  <2>6. CASE FailAndRetry(n)
    BY <2>6, <1>t DEF FailAndRetry, Failing, More
  <2>7. CASE RetryAgain(n)
    BY <2>7, <1>t DEF RetryAgain, Leave
  <2>8. CASE Fail(n)
    BY <2>8, <1>t DEF Fail, Failing, Leave, More
  <2> QED
    BY <1>10, <2>1, <2>2, <2>3, <2>4, <2>5, <2>6, <2>7, <2>8 DEF Settle
<1>11. ASSUME NEW n \in Nodes, NEW a \in {"yes", "no"}, Answer(n, a) PROVE EndsKept
  BY <1>11, <1>t DEF Answer
<1>12. CASE UNCHANGED vars
  BY <1>12, <1>t DEF vars
<1> QED
  BY <1>1, <1>2, <1>3, <1>4, <1>5, <1>6, <1>7, <1>8, <1>9, <1>10, <1>11, <1>12 DEF Next, SchedulerStep

\* A dependency once satisfied stays so.
LEMMA SatisfiedStays ==
  ASSUME IndInv, Once, [Next]_vars, NEW k \in Nodes, DependenciesSatisfied(k)
  PROVE  DependenciesSatisfied(k)'
<1>1. graph' = graph /\ (\A d \in Nodes : st[d] \in Ended => st'[d] = st[d])
  BY GraphStays, EndedStays DEF EndsKept
<1>2. \A d \in graph[k].dependsOn : d \in Nodes
  BY DEF IndInv, TypeOK, NodeConfig
<1> QED
  BY <1>1, <1>2 DEF DependenciesSatisfied, Ended

\* DepsFirst, and the candidates of a scan were ready when it met them.
DepsInv == DepsFirst /\ \A k \in cands : DependenciesSatisfied(k)

\* Only a node that is ready begins.
Begun == {"queued", "running", "done", "failed"}
ReadyBegin == \A k \in Nodes : st'[k] \in Begun /\ k \notin resume => st[k] \in Begun \/ DependenciesSatisfied(k)

\* Only Start, which takes its nodes from resume, and dispatches make a node begin.
LEMMA BeginsReady == IndInv /\ Once /\ DepsInv /\ [Next]_vars => ReadyBegin
<1> SUFFICES ASSUME IndInv, Once, DepsInv, [Next]_vars PROVE ReadyBegin
  OBVIOUS
<1> USE DEF nodes, lock, scan, gates, run
<1>t. st \in [Nodes -> NodeState] /\ OneOwner /\ cands \subseteq Nodes
  BY DEF IndInv, TypeOK
<1> USE DEF ReadyBegin, OneOwner, DepsInv, Begun, Once, Failures, Resetting
<1>1. CASE Start
  BY <1>1, <1>t DEF Start
<1>2. CASE Report
  BY <1>2, <1>t DEF Report, AllDone, summaryError
<1>3. CASE Close
  BY <1>3, <1>t DEF Close
<1>4. CASE Wake
  BY <1>4, <1>t DEF Wake, Lock
<1>5. CASE Unlock
  BY <1>5, <1>t DEF Unlock
<1>6. CASE Cancel
  BY <1>6, <1>t DEF Cancel
<1>7. ASSUME NEW n \in Nodes, Timer(n) PROVE ReadyBegin
  BY <1>7, <1>t DEF Timer, Lock
<1>8. ASSUME NEW n \in Nodes, Pass(n) PROVE ReadyBegin
  <2>1. CASE NotReady(n)
    BY <2>1, <1>t DEF NotReady, FirstPass
  <2>2. CASE UseFrozen(n)
    BY <2>2, <1>t DEF UseFrozen, FirstPass, Looking
  <2>3. CASE skipNodeAndPropagate(n)
    BY <2>3, <1>t DEF skipNodeAndPropagate, FirstPass, Looking, Mark
  <2>4. CASE Collect(n)
    BY <2>4, <1>t DEF Collect, FirstPass, Looking
  <2>5. CASE DispatchNode(n)
    BY <2>5, <1>t DEF DispatchNode, Dispatching, Started, Refused
  <2>6. CASE waitForApproval(n)
    BY <2>6, <1>t DEF waitForApproval, Dispatching
  <2> QED
    BY <1>8, <2>1, <2>2, <2>3, <2>4, <2>5, <2>6 DEF Pass
<1>9. ASSUME NEW n \in Nodes, Gate(n) PROVE ReadyBegin
  <2>1. CASE GateWake(n)
    BY <2>1, <1>t DEF GateWake, Lock
  <2>2. CASE Approved(n)
    BY <2>2, <1>t DEF Approved, Started, Refused
  <2>3. CASE NotApproved(n)
    BY <2>3, <1>t DEF NotApproved
  <2>4. CASE Forget(n)
    BY <2>4, <1>t DEF Forget
  <2> QED
    BY <1>9, <2>1, <2>2, <2>3, <2>4 DEF Gate
<1>10. ASSUME NEW n \in Nodes, Settle(n) PROVE ReadyBegin
  <2>1. CASE completeNode(n)
    BY <2>1, <1>t DEF completeNode
  <2>2. CASE SucceedAgain(n)
    BY <2>2, <1>t DEF SucceedAgain, More
  <2>3. CASE Succeed(n)
    BY <2>3, <1>t DEF Succeed, Complete, Leave, Mark, More
  <2>4. CASE IterateAgain(n)
    BY <2>4, <1>t DEF IterateAgain, Leave
  <2>5. CASE FailWithDefault(n)
    BY <2>5, <1>t DEF FailWithDefault, Failing, Complete, Leave, Mark
  <2>6. CASE FailAndRetry(n)
    BY <2>6, <1>t DEF FailAndRetry, Failing, More
  <2>7. CASE RetryAgain(n)
    BY <2>7, <1>t DEF RetryAgain, Leave
  <2>8. CASE Fail(n)
    BY <2>8, <1>t DEF Fail, Failing, Leave, More
  <2> QED
    BY <1>10, <2>1, <2>2, <2>3, <2>4, <2>5, <2>6, <2>7, <2>8 DEF Settle
<1>11. ASSUME NEW n \in Nodes, NEW a \in {"yes", "no"}, Answer(n, a) PROVE ReadyBegin
  BY <1>11, <1>t DEF Answer
<1>12. CASE UNCHANGED vars
  BY <1>12, <1>t DEF vars
<1> QED
  BY <1>1, <1>2, <1>3, <1>4, <1>5, <1>6, <1>7, <1>8, <1>9, <1>10, <1>11, <1>12 DEF Next, SchedulerStep

\* Only a node that is ready becomes a candidate.
LEMMA CandidatesReady ==
  IndInv /\ DepsInv /\ [Next]_vars => \A k \in cands' : k \in Nodes /\ DependenciesSatisfied(k)
  BY DEF IndInv, TypeOK, DepsInv, scan, Next, SchedulerStep, Start, Report, Close, Wake, Unlock, Cancel, Timer, Answer,
         Pass, NotReady, UseFrozen, skipNodeAndPropagate, Collect, Looking, FirstPass, DispatchNode, waitForApproval,
         Dispatching, Gate, GateWake, Approved, NotApproved, Forget, Settle, completeNode, SucceedAgain, Succeed,
         IterateAgain, FailWithDefault, FailAndRetry, RetryAgain, Fail, Complete, Leave, vars

\* In a graph whose nodes run once, a node that has begun finds its
\* dependencies done, skipped or failed into it, at every later moment.
THEOREM DependenciesFirst == ASSUME RunsOnce PROVE Spec => []DepsFirst
<1>1. Init => DepsInv
  BY DEF Init, DepsInv, DepsFirst
<1>2. ASSUME IndInv, Once, DepsInv, [Next]_vars PROVE DepsInv'
  <2>1. ASSUME NEW k \in cands' PROVE DependenciesSatisfied(k)'
    BY <1>2, <2>1, CandidatesReady, SatisfiedStays
  <2>2. ASSUME NEW k \in Nodes, st'[k] \in Begun, k \notin resume' PROVE DependenciesSatisfied(k)'
    <3>1. k \notin resume
      BY <1>2, <2>2, GraphStays
    <3>2. DependenciesSatisfied(k)
      BY <1>2, <2>2, <3>1, BeginsReady DEF ReadyBegin, DepsInv, DepsFirst, Begun
    <3> QED
      BY <1>2, <3>2, SatisfiedStays
  <2> QED
    BY <2>1, <2>2 DEF DepsInv, DepsFirst, Begun
<1>3. DepsInv => DepsFirst
  BY DEF DepsInv
<1> QED
  BY <1>1, <1>2, <1>3, Invariant, InitOnce, NextOnce, PTL DEF Spec

\* In a graph whose nodes run once, EventAllDone is final: nothing runs after
\* it, and what it says of the failures stays true.
THEOREM VerdictFinal == ASSUME RunsOnce PROVE Spec => [](AllDoneIsFinal /\ OkIsOk)
<1> DEFINE Verdict == AllDoneIsFinal /\ OkIsOk
<1>1. Init => Verdict
  BY DEF Init, AllDoneIsFinal, OkIsOk
<1>2. ASSUME IndInv, Once, Verdict, [Next]_vars PROVE Verdict'
  <2>1. /\ st \in [Nodes -> NodeState] /\ graph \in [Nodes -> NodeConfig] /\ graph' = graph
        /\ \A k \in Nodes : st[k] \in Ended => st'[k] = st[k]
    BY <1>2, GraphStays, EndedStays DEF EndsKept, IndInv, TypeOK
  <2>2. ASSUME AllDone PROVE AllDone' /\ (summaryError' <=> summaryError)
    <3>1. \A k \in Nodes : st'[k] = st[k]
      BY <2>1, <2>2 DEF AllDone
    <3>2. \A k \in Nodes : graph[k].fail = 0 \/ graph[k].fail \in Nodes
      BY <2>1, GraphAssumption DEF NodeConfig, Nodes
    <3> QED
      BY <2>1, <2>2, <3>1, <3>2 DEF AllDone, summaryError, isFailHandled
  <2>3. CASE report' = report
    BY <1>2, <2>2, <2>3 DEF AllDoneIsFinal, OkIsOk
  <2>4. CASE report' # report
    <3>1. Report
      BY <1>2, <2>4 DEF run, Next, SchedulerStep, Start, Close, Wake, Unlock, Cancel, Timer, Answer, Pass, NotReady,
           UseFrozen, skipNodeAndPropagate, Collect, FirstPass, DispatchNode, waitForApproval, Gate, GateWake, Approved,
           NotApproved, Forget, Settle, completeNode, SucceedAgain, Succeed, IterateAgain, FailWithDefault,
           FailAndRetry, RetryAgain, Fail, Complete, Leave, vars
    <3> QED
      BY <2>2, <3>1 DEF Report, AllDoneIsFinal, OkIsOk
  <2> QED
    BY <2>3, <2>4
<1> HIDE DEF Verdict
<1>3. Spec => []Verdict
  BY <1>1, <1>2, Invariant, InitOnce, NextOnce, PTL DEF Spec
<1> QED
  BY <1>3 DEF Verdict

-----------------------------------------------------------------------------
(* Why a node is skipped.                                                  *)

\* An edge is marked as skipped when the node it leaves was skipped, or failed
\* for good with its fail branch elsewhere; its goroutine is over.
EdgesTell ==
  \A d, k \in Nodes : edge[<<d, k>>] = "skipped" =>
    pc[d] = "idle" /\ (st[d] = "skipped" \/ (st[d] = "failed" /\ graph[d].fail # k))

\* A node whose edges were skipped is not executed again.
LEMMA NextEdges ==
    ASSUME IndInv, EdgesTell, [Next]_vars
    PROVE  EdgesTell'
<1> USE DEF EdgesTell, nodes, lock, scan, gates, run
<1>0. /\ pc \in [Nodes -> PCs] /\ st \in [Nodes -> NodeState] /\ edge \in [Pairs -> {"unknown", "taken", "skipped"}]
      /\ OneOwner /\ graph' = graph
  BY GraphStays DEF IndInv, TypeOK
<1>00. \A d, k \in Nodes : <<d, k>> \in Pairs /\ <<d, k>>[1] = d /\ <<d, k>>[2] = k
  BY DEF Pairs
<1>1. CASE Start
  BY <1>1, <1>0, <1>00 DEF Start, OneOwner, Failures, Resetting
<1>2. CASE Report
  BY <1>2, <1>0, <1>00 DEF Report, AllDone, summaryError, OneOwner, Failures, Resetting
<1>3. CASE Close
  BY <1>3, <1>0, <1>00 DEF Close, OneOwner, Failures, Resetting
<1>4. CASE Wake
  BY <1>4, <1>0, <1>00 DEF Wake, Lock, OneOwner, Failures, Resetting
<1>5. CASE Unlock
  BY <1>5, <1>0, <1>00 DEF Unlock, OneOwner, Failures, Resetting
<1>6. CASE Cancel
  BY <1>6, <1>0, <1>00 DEF Cancel, OneOwner, Failures, Resetting
<1>7. ASSUME NEW n \in Nodes, Timer(n) PROVE EdgesTell'
  BY <1>7, <1>0, <1>00 DEF Timer, Lock, OneOwner, Failures, Resetting
<1>8. ASSUME NEW n \in Nodes, NotReady(n) PROVE EdgesTell'
  BY <1>8, <1>0, <1>00 DEF NotReady, FirstPass, OneOwner, Failures, Resetting
<1>9. ASSUME NEW n \in Nodes, UseFrozen(n) PROVE EdgesTell'
  BY <1>9, <1>0, <1>00 DEF UseFrozen, FirstPass, Looking, OneOwner, Failures, Resetting
<1>10. ASSUME NEW n \in Nodes, skipNodeAndPropagate(n) PROVE EdgesTell'
  BY <1>10, <1>0, <1>00 DEF skipNodeAndPropagate, FirstPass, Looking, Mark, OneOwner, Failures,
     Resetting, PCs
<1>11. ASSUME NEW n \in Nodes, Collect(n) PROVE EdgesTell'
  BY <1>11, <1>0, <1>00 DEF Collect, FirstPass, Looking, OneOwner, Failures, Resetting
<1>12. ASSUME NEW n \in Nodes, DispatchNode(n) PROVE EdgesTell'
  BY <1>12, <1>0, <1>00 DEF DispatchNode, Dispatching, Started, Refused, OneOwner, Failures,
     Resetting
<1>13. ASSUME NEW n \in Nodes, waitForApproval(n) PROVE EdgesTell'
  BY <1>13, <1>0, <1>00 DEF waitForApproval, Dispatching, OneOwner, Failures, Resetting
<1>14. ASSUME NEW n \in Nodes, GateWake(n) PROVE EdgesTell'
  BY <1>14, <1>0, <1>00 DEF GateWake, Lock, OneOwner, Failures, Resetting
<1>15. ASSUME NEW n \in Nodes, Approved(n) PROVE EdgesTell'
  BY <1>15, <1>0, <1>00 DEF Approved, Started, Refused, OneOwner, Failures, Resetting
<1>16. ASSUME NEW n \in Nodes, NotApproved(n) PROVE EdgesTell'
  BY <1>16, <1>0, <1>00 DEF NotApproved, OneOwner, Failures, Resetting
<1>17. ASSUME NEW n \in Nodes, Forget(n) PROVE EdgesTell'
  BY <1>17, <1>0, <1>00 DEF Forget, OneOwner, Failures, Resetting
<1>18. ASSUME NEW n \in Nodes, completeNode(n) PROVE EdgesTell'
  BY <1>18, <1>0, <1>00 DEF completeNode, OneOwner, Failures, Resetting
<1>19. ASSUME NEW n \in Nodes, SucceedAgain(n) PROVE EdgesTell'
  BY <1>19, <1>0, <1>00 DEF SucceedAgain, More, OneOwner, Failures, Resetting
<1>20. ASSUME NEW n \in Nodes, Succeed(n) PROVE EdgesTell'
  BY <1>20, <1>0, <1>00 DEF Succeed, Complete, Leave, Mark, More, OneOwner, Failures, Resetting
<1>21. ASSUME NEW n \in Nodes, IterateAgain(n) PROVE EdgesTell'
  BY <1>21, <1>0, <1>00 DEF IterateAgain, Leave, OneOwner, Failures, Resetting
<1>22. ASSUME NEW n \in Nodes, FailWithDefault(n) PROVE EdgesTell'
  BY <1>22, <1>0, <1>00 DEF FailWithDefault, Failing, Complete, Leave, Mark, OneOwner, Failures,
     Resetting
<1>23. ASSUME NEW n \in Nodes, FailAndRetry(n) PROVE EdgesTell'
  BY <1>23, <1>0, <1>00 DEF FailAndRetry, Failing, More, OneOwner, Failures, Resetting
<1>24. ASSUME NEW n \in Nodes, RetryAgain(n) PROVE EdgesTell'
  BY <1>24, <1>0, <1>00 DEF RetryAgain, Leave, OneOwner, Failures, Resetting
<1>25. ASSUME NEW n \in Nodes, Fail(n) PROVE EdgesTell'
  BY <1>25, <1>0, <1>00 DEF Fail, Failing, Leave, More, OneOwner, Failures, Resetting
<1>26. ASSUME NEW n \in Nodes, NEW a \in {"yes", "no"}, Answer(n, a) PROVE EdgesTell'
  BY <1>26, <1>0, <1>00 DEF Answer, OneOwner, Failures, Resetting
<1>27. CASE UNCHANGED vars
  BY <1>27, <1>0, <1>00 DEF vars
<1> QED
  BY <1>1, <1>2, <1>3, <1>4, <1>5, <1>6, <1>7, <1>8, <1>9, <1>10, <1>11, <1>12, <1>13, <1>14, <1>15,
     <1>16, <1>17, <1>18, <1>19, <1>20, <1>21, <1>22, <1>23, <1>24, <1>25, <1>26, <1>27 DEF Next,
     SchedulerStep, Pass, Gate, Settle

\* A node that is skipped and has no condition is behind skipped nodes only.
SkippedBehind ==
  \A n \in Nodes : st[n] = "skipped" =>
    \/ graph[n].cond
    \/ graph[n].dependsOn # {} /\ \A d \in graph[n].dependsOn : st[d] = "skipped"

\* A node is skipped behind nodes that are skipped and stay so.
LEMMA NextSkips ==
    ASSUME IndInv, EdgesTell, SkippedBehind, [Next]_vars
    PROVE  SkippedBehind'
<1> USE DEF SkippedBehind, nodes, lock, scan, gates, run
<1>0. /\ pc \in [Nodes -> PCs] /\ st \in [Nodes -> NodeState] /\ OneOwner /\ graph' = graph
      /\ \A k \in Nodes : graph[k].dependsOn \subseteq Nodes
  BY GraphStays DEF IndInv, TypeOK, NodeConfig
<1>00. \A k \in Nodes : st[k] = "skipped" => pc[k] = "idle" /\ k \notin cands
  BY <1>0 DEF OneOwner, PCs, Failures, Resetting
<1>1. CASE Start
  BY <1>1, <1>0, <1>00 DEF Start, Failures, Resetting
<1>2. CASE Report
  BY <1>2, <1>0, <1>00 DEF Report, AllDone, summaryError, Failures, Resetting
<1>3. CASE Close
  BY <1>3, <1>0, <1>00 DEF Close, Failures, Resetting
<1>4. CASE Wake
  BY <1>4, <1>0, <1>00 DEF Wake, Lock, Failures, Resetting
<1>5. CASE Unlock
  BY <1>5, <1>0, <1>00 DEF Unlock, Failures, Resetting
<1>6. CASE Cancel
  BY <1>6, <1>0, <1>00 DEF Cancel, Failures, Resetting
<1>7. ASSUME NEW n \in Nodes, Timer(n) PROVE SkippedBehind'
  BY <1>7, <1>0, <1>00 DEF Timer, Lock, Failures, Resetting
<1>8. ASSUME NEW n \in Nodes, NotReady(n) PROVE SkippedBehind'
  BY <1>8, <1>0, <1>00 DEF NotReady, FirstPass, Failures, Resetting
<1>9. ASSUME NEW n \in Nodes, UseFrozen(n) PROVE SkippedBehind'
  BY <1>9, <1>0, <1>00 DEF UseFrozen, FirstPass, Looking, Failures, Resetting
<1>10. ASSUME NEW n \in Nodes, skipNodeAndPropagate(n) PROVE SkippedBehind'
  <2>1. st' = [st EXCEPT ![n] = "skipped"] /\ DependenciesSatisfied(n) /\ (AllIncomingEdgesSkipped(n) \/ graph[n].cond)
    BY <1>10 DEF skipNodeAndPropagate, Looking
  <2>2. CASE graph[n].cond
    BY <1>0, <2>1, <2>2
  <2>3. CASE AllIncomingEdgesSkipped(n)
    <3>1. graph[n].dependsOn # {} /\ \A d \in graph[n].dependsOn : edge[<<d, n>>] = "skipped" /\ d \in Nodes
      BY <1>0, <2>3 DEF AllIncomingEdgesSkipped
    <3>2. \A d \in graph[n].dependsOn : st[d] = "skipped"
      BY <2>1, <3>1, ZenonT(40) DEF DependenciesSatisfied, EdgesTell
    <3> QED BY <1>0, <2>1, <3>1, <3>2
  <2> QED BY <2>1, <2>2, <2>3
<1>11. ASSUME NEW n \in Nodes, Collect(n) PROVE SkippedBehind'
  BY <1>11, <1>0, <1>00 DEF Collect, FirstPass, Looking, Failures, Resetting
<1>12. ASSUME NEW n \in Nodes, DispatchNode(n) PROVE SkippedBehind'
  BY <1>12, <1>0, <1>00 DEF DispatchNode, Dispatching, Started, Refused, Failures, Resetting
<1>13. ASSUME NEW n \in Nodes, waitForApproval(n) PROVE SkippedBehind'
  BY <1>13, <1>0, <1>00 DEF waitForApproval, Dispatching, Failures, Resetting
<1>14. ASSUME NEW n \in Nodes, GateWake(n) PROVE SkippedBehind'
  BY <1>14, <1>0, <1>00 DEF GateWake, Lock, Failures, Resetting
<1>15. ASSUME NEW n \in Nodes, Approved(n) PROVE SkippedBehind'
  BY <1>15, <1>0, <1>00 DEF Approved, Started, Refused, Failures, Resetting
<1>16. ASSUME NEW n \in Nodes, NotApproved(n) PROVE SkippedBehind'
  BY <1>16, <1>0, <1>00 DEF NotApproved, Failures, Resetting
<1>17. ASSUME NEW n \in Nodes, Forget(n) PROVE SkippedBehind'
  BY <1>17, <1>0, <1>00 DEF Forget, Failures, Resetting
<1>18. ASSUME NEW n \in Nodes, completeNode(n) PROVE SkippedBehind'
  BY <1>18, <1>0, <1>00 DEF completeNode, Failures, Resetting
<1>19. ASSUME NEW n \in Nodes, SucceedAgain(n) PROVE SkippedBehind'
  BY <1>19, <1>0, <1>00 DEF SucceedAgain, More, Failures, Resetting
<1>20. ASSUME NEW n \in Nodes, Succeed(n) PROVE SkippedBehind'
  BY <1>20, <1>0, <1>00 DEF Succeed, Complete, Leave, Mark, More, Failures, Resetting
<1>21. ASSUME NEW n \in Nodes, IterateAgain(n) PROVE SkippedBehind'
  BY <1>21, <1>0, <1>00 DEF IterateAgain, Leave, Failures, Resetting
<1>22. ASSUME NEW n \in Nodes, FailWithDefault(n) PROVE SkippedBehind'
  BY <1>22, <1>0, <1>00 DEF FailWithDefault, Failing, Complete, Leave, Mark, Failures, Resetting
<1>23. ASSUME NEW n \in Nodes, FailAndRetry(n) PROVE SkippedBehind'
  BY <1>23, <1>0, <1>00 DEF FailAndRetry, Failing, More, Failures, Resetting
<1>24. ASSUME NEW n \in Nodes, RetryAgain(n) PROVE SkippedBehind'
  BY <1>24, <1>0, <1>00 DEF RetryAgain, Leave, Failures, Resetting
<1>25. ASSUME NEW n \in Nodes, Fail(n) PROVE SkippedBehind'
  BY <1>25, <1>0, <1>00 DEF Fail, Failing, Leave, More, Failures, Resetting
<1>26. ASSUME NEW n \in Nodes, NEW a \in {"yes", "no"}, Answer(n, a) PROVE SkippedBehind'
  BY <1>26, <1>0, <1>00 DEF Answer, Failures, Resetting
<1>27. CASE UNCHANGED vars
  BY <1>27, <1>0, <1>00 DEF vars
<1> QED
  BY <1>1, <1>2, <1>3, <1>4, <1>5, <1>6, <1>7, <1>8, <1>9, <1>10, <1>11, <1>12, <1>13, <1>14, <1>15,
     <1>16, <1>17, <1>18, <1>19, <1>20, <1>21, <1>22, <1>23, <1>24, <1>25, <1>26, <1>27 DEF Next,
     SchedulerStep, Pass, Gate, Settle

\* A node is skipped because of its condition or because nothing leads to it
\* (skipNodeAndPropagate, AllIncomingEdgesSkipped): in every graph, through
\* retries, iterations and fail branches, although the edges are marked outside
\* the scheduler's lock.
THEOREM SkipsAreJustified == Spec => []SkipsJustified
<1>1. Init => EdgesTell /\ SkippedBehind
  BY DEF Init, EdgesTell, SkippedBehind, Pairs
<1>2. SkippedBehind => SkipsJustified
  BY DEF SkippedBehind, SkipsJustified
<1> QED BY <1>1, <1>2, NextEdges, NextSkips, Invariant, PTL DEF Spec

-----------------------------------------------------------------------------
(* The entries of s.approvals.                                             *)

\* Every entry has a goroutine that will delete it: it waits for the answer,
\* handles what it got, runs or is about to run enqueueReady, or is at its
\* deferred delete.
EntryOwned ==
  /\ \A n \in approvals :
       \/ pc[n] \in {"approval"} \cup ByGate \cup ByCancel
       \/ gateWakes[n] > 0 \/ cleanups[n] > 0 \/ scanner = n
       \/ mu = "approve" /\ inline = n
  /\ scanner # 0 => mu = "scan"

\* nodeWg is waited for: nothing runs after the event channel is closed.
Quiescent ==
  main = "closed" => /\ mu = "free" /\ wakes = 0
                     /\ \A n \in Nodes : pc[n] = "idle" /\ timers[n] = 0 /\ gateWakes[n] = 0 /\ cleanups[n] = 0

\* No goroutine of an approval ends without its delete, and none starts after the end.
LEMMA NextEntries ==
    ASSUME IndInv, EntryOwned, Quiescent, [Next]_vars
    PROVE  EntryOwned' /\ Quiescent'
<1> USE DEF EntryOwned, Quiescent, nodes, lock, scan, gates, run
<1>0. /\ pc \in [Nodes -> PCs] /\ cleanups \in [Nodes -> Nat] /\ approvals \subseteq Nodes
      /\ gateWakes \in [Nodes -> Nat] /\ timers \in [Nodes -> Nat] /\ wakes \in Nat /\ Fresh
      /\ scanner \in 0..N /\ mu \in {"free", "scan", "approve"}
  BY DEF IndInv, TypeOK
<1>n. 0 \notin Nodes /\ N \in Nat
  BY GraphAssumption DEF Nodes
<1>i. \A n \in cands : pc[n] = "idle"
  BY DEF IndInv, TypeOK, OneOwner, PCs, Failures, Resetting
<1>m. ByGate = {"rejected", "retry_rejected"} /\ ByCancel = {"cancelled", "retry_cancelled"}
  BY DEF ByGate, ByCancel
<1>1. CASE Start
  BY <1>1, <1>0, <1>n, <1>m DEF Start, Fresh
<1>2. CASE Report
  BY <1>2, <1>0, <1>n, <1>m DEF Report, AllDone, summaryError
<1>3. CASE Close
  BY <1>3, <1>0, <1>n, <1>m DEF Close
<1>4. CASE Wake
  BY <1>4, <1>0, <1>n, <1>m DEF Wake, Lock
<1>5. CASE Unlock
  BY <1>5, <1>0, <1>n, <1>m DEF Unlock
<1>6. CASE Cancel
  BY <1>6, <1>0, <1>n, <1>m DEF Cancel
<1>7. ASSUME NEW n \in Nodes, Timer(n) PROVE EntryOwned' /\ Quiescent'
  BY <1>7, <1>0, <1>n, <1>m DEF Timer, Lock
<1>8. ASSUME NEW n \in Nodes, NotReady(n) PROVE EntryOwned' /\ Quiescent'
  BY <1>8, <1>0, <1>n, <1>m DEF NotReady, FirstPass
<1>9. ASSUME NEW n \in Nodes, UseFrozen(n) PROVE EntryOwned' /\ Quiescent'
  BY <1>9, <1>0, <1>n, <1>m DEF UseFrozen, FirstPass, Looking
<1>10. ASSUME NEW n \in Nodes, skipNodeAndPropagate(n) PROVE EntryOwned' /\ Quiescent'
  BY <1>10, <1>0, <1>n, <1>m DEF skipNodeAndPropagate, FirstPass, Looking, Mark
<1>11. ASSUME NEW n \in Nodes, Collect(n) PROVE EntryOwned' /\ Quiescent'
  BY <1>11, <1>0, <1>n, <1>m DEF Collect, FirstPass, Looking
<1>12. ASSUME NEW n \in Nodes, DispatchNode(n) PROVE EntryOwned' /\ Quiescent'
  BY <1>12, <1>0, <1>i, <1>n, <1>m DEF DispatchNode, Dispatching, Started, Refused
<1>13. ASSUME NEW n \in Nodes, waitForApproval(n) PROVE EntryOwned' /\ Quiescent'
  BY <1>13, <1>0, <1>n, <1>m DEF waitForApproval, Dispatching
<1>14. ASSUME NEW n \in Nodes, GateWake(n) PROVE EntryOwned' /\ Quiescent'
  BY <1>14, <1>0, <1>n, <1>m DEF GateWake, Lock
<1>15. ASSUME NEW n \in Nodes, Approved(n) PROVE EntryOwned' /\ Quiescent'
  BY <1>15, <1>0, <1>n, <1>m DEF Approved, Started, Refused
<1>16. ASSUME NEW n \in Nodes, NotApproved(n) PROVE EntryOwned' /\ Quiescent'
  BY <1>16, <1>0, <1>n, <1>m DEF NotApproved
<1>17. ASSUME NEW n \in Nodes, Forget(n) PROVE EntryOwned' /\ Quiescent'
  BY <1>17, <1>0, <1>n, <1>m DEF Forget
<1>18. ASSUME NEW n \in Nodes, completeNode(n) PROVE EntryOwned' /\ Quiescent'
  BY <1>18, <1>0, <1>n, <1>m DEF completeNode
<1>19. ASSUME NEW n \in Nodes, SucceedAgain(n) PROVE EntryOwned' /\ Quiescent'
  BY <1>19, <1>0, <1>n, <1>m DEF SucceedAgain, More
<1>20. ASSUME NEW n \in Nodes, Succeed(n) PROVE EntryOwned' /\ Quiescent'
  BY <1>20, <1>0, <1>n, <1>m DEF Succeed, Complete, Leave, Mark, More
<1>21. ASSUME NEW n \in Nodes, IterateAgain(n) PROVE EntryOwned' /\ Quiescent'
  BY <1>21, <1>0, <1>n, <1>m DEF IterateAgain, Leave
<1>22. ASSUME NEW n \in Nodes, FailWithDefault(n) PROVE EntryOwned' /\ Quiescent'
  BY <1>22, <1>0, <1>n, <1>m DEF FailWithDefault, Failures, Failing, Complete, Leave, Mark
<1>23. ASSUME NEW n \in Nodes, FailAndRetry(n) PROVE EntryOwned' /\ Quiescent'
  BY <1>23, <1>0, <1>n, <1>m DEF FailAndRetry, Failures, Failing, More
<1>24. ASSUME NEW n \in Nodes, RetryAgain(n) PROVE EntryOwned' /\ Quiescent'
  BY <1>24, <1>0, <1>n, <1>m DEF RetryAgain, Resetting, Leave
<1>25. ASSUME NEW n \in Nodes, Fail(n) PROVE EntryOwned' /\ Quiescent'
  BY <1>25, <1>0, <1>n, <1>m DEF Fail, Failures, Failing, Leave, More
<1>26. ASSUME NEW n \in Nodes, NEW a \in {"yes", "no"}, Answer(n, a) PROVE EntryOwned' /\ Quiescent'
  BY <1>26, <1>0, <1>n, <1>m DEF Answer
<1>27. CASE UNCHANGED vars
  BY <1>27, <1>0, <1>n, <1>m DEF vars
<1> QED
  BY <1>1, <1>2, <1>3, <1>4, <1>5, <1>6, <1>7, <1>8, <1>9, <1>10, <1>11, <1>12, <1>13, <1>14, <1>15,
     <1>16, <1>17, <1>18, <1>19, <1>20, <1>21, <1>22, <1>23, <1>24, <1>25, <1>26, <1>27 DEF Next,
     SchedulerStep, Pass, Gate, Settle

\* Once the event channel is closed no entry is left in s.approvals: in every
\* graph, whichever of answer, timeout, refusal, retry and cancellation ended
\* the waits (the deferred delete of waitForApproval, nodeWg).
THEOREM NoneStale == Spec => []NoStaleApproval
<1>1. Init => EntryOwned /\ Quiescent
  BY DEF Init, EntryOwned, Quiescent
<1>2. IndInv /\ EntryOwned /\ Quiescent => NoStaleApproval
  <2>1. IndInv => approvals \subseteq Nodes
    BY DEF IndInv, TypeOK
  <2>2. 0 \notin Nodes
    BY GraphAssumption DEF Nodes
  <2> QED BY <2>1, <2>2 DEF EntryOwned, Quiescent, NoStaleApproval, ByGate, ByCancel
<1> QED BY <1>1, <1>2, NextEntries, Invariant, PTL DEF Spec

-----------------------------------------------------------------------------
(* The verdict of graphs whose nodes run once.                             *)

\* In a graph whose nodes run once, a run that ends without an error has no
\* failed node but those whose fail branch completed, and that stays so.
THEOREM OkIsTrusted == ASSUME RunsOnce PROVE Spec => []OkIsOk
<1>1. Spec => [](AllDoneIsFinal /\ OkIsOk)
  BY VerdictFinal
<1> QED BY <1>1, PTL
=============================================================================
