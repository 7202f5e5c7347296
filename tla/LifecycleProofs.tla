-------------------------- MODULE LifecycleProofs --------------------------
(***************************************************************************)
(* Lemmas about the state machine of Lifecycle, for the proofs of the      *)
(* modules that keep one: what the rows of the transition table say, and   *)
(* what Dispatch makes of a machine, event by event.                       *)
(***************************************************************************)
EXTENDS Lifecycle, TLAPS

\* What the fields of a machine may hold.
Prior == State \cup {""}

Machine == [state : State, prior : Prior, previous : Prior, log : SUBSET Milestones, interrupted : BOOLEAN]

\* The states of a task whose implementation exists.
Built == {"implemented", "simplifying", "optimizing", "reviewing", "submitted"}

\* The events that enter an operation, and those that complete one.
EntryEvents == {"plan", "implement", "simplify", "optimize", "review"}
DoneEvents == {"plan_done", "implement_done", "simplify_done", "optimize_done"}

\* The states a completion event goes from and to.
DoneFrom == [plan_done |-> "planning", implement_done |-> "implementing",
             simplify_done |-> "simplifying", optimize_done |-> "optimizing"]
DoneTo == [plan_done |-> "planned", implement_done |-> "implemented",
           simplify_done |-> "implemented", optimize_done |-> "implemented"]

\* The state an entry event leads to.
Entered == [plan |-> "planning", implement |-> "implementing", simplify |-> "simplifying",
            optimize |-> "optimizing", review |-> "reviewing"]

-----------------------------------------------------------------------------
(* The transition table.                                                   *)

\* What a row says, for every event the conductor dispatches.
RowOK(t) ==
    /\ t.to \in State
    /\ t.from = "none" => t.event = "start"
    /\ t.event = "start" => t.from = "none" /\ t.to = "loaded" /\ "source" \in t.guards
    /\ t.event \in EntryEvents =>
         /\ t.from \in Stable /\ t.to = Entered[t.event]
         /\ t.to \in Built => t.from \in Built \/ "implemented" \in t.guards
    /\ t.event \in DoneEvents => t.from = DoneFrom[t.event] /\ t.to = DoneTo[t.event]
    /\ t.event = "submit" => t.from = "reviewing" /\ t.to = "submitted"
    /\ t.event = "finish" => t.from = "submitted" /\ t.to = "none"
    /\ t.event = "abort" => t.to = "failed"
    /\ t.event = "reset" => t.from = "failed" /\ t.to = "loaded"
    /\ t.event \in {"error", "stop"} =>
         /\ t.from \in Active /\ t.to \in {"loaded", "planned", "implemented"}
         /\ t.to \in Built => t.from \in Built

LEMMA TableRows == \A t \in TransitionTable : RowOK(t)
<1> USE DEF RowOK, T, State, Stable, Active, InProgress, Built,
           EntryEvents, Entered, DoneEvents, DoneFrom, DoneTo
<1>1. \A t \in Progress : RowOK(t)
  BY DEF Progress
<1>2. \A t \in Rollback : RowOK(t)
  BY DEF Rollback, DefaultRollback
<1>3. \A t \in Interruption : RowOK(t)
  BY DEF Interruption
<1>4. \A t \in UndoRedo : RowOK(t)
  BY DEF UndoRedo
<1>5. \A t \in ReEntry : RowOK(t)
  BY DEF ReEntry
<1> QED BY <1>1, <1>2, <1>3, <1>4, <1>5 DEF TransitionTable

\* error and stop are accepted in every state an operation is in, a completion
\* in the state it completes.
LEMMA TableAccepts ==
    /\ \A s \in Active, e \in {"error", "stop"} :
         \E t \in TransitionTable : t.from = s /\ t.event = e /\ t.guards = {}
    /\ \A e \in DoneEvents :
         \E t \in TransitionTable : t.from = DoneFrom[e] /\ t.event = e /\ t.guards = {}
<1>1. ASSUME NEW s \in Active, NEW e \in {"error", "stop"}
      PROVE  \E t \in TransitionTable : t.from = s /\ t.event = e /\ t.guards = {}
  <2>1. T(s, e, DefaultRollback[s], {}) \in TransitionTable
    BY DEF TransitionTable, Rollback
  <2> QED BY <2>1 DEF T
<1>2. ASSUME NEW e \in DoneEvents
      PROVE  \E t \in TransitionTable : t.from = DoneFrom[e] /\ t.event = e /\ t.guards = {}
  <2>1. T(DoneFrom[e], e, DoneTo[e], {}) \in Progress
    BY DEF Progress, DoneEvents, DoneFrom, DoneTo
  <2>2. T(DoneFrom[e], e, DoneTo[e], {}) \in TransitionTable
    BY <2>1 DEF TransitionTable
  <2> QED BY <2>2 DEF T
<1> QED BY <1>1, <1>2

-----------------------------------------------------------------------------
(* Dispatch.                                                               *)

\* A rejected event changes nothing.
LEMMA DispatchRejected ==
    ASSUME NEW mach, NEW e, NEW facts, ~CanDispatch(mach, e, facts)
    PROVE  Dispatch(mach, e, facts) = mach
  BY DEF Dispatch

\* d is what row t makes of the machine.
Follows(d, mach, e, facts, t) ==
    /\ t.from = mach.state /\ t.event = e /\ t.guards \subseteq facts
    /\ d.state = Target(mach, e, t)
    /\ d.prior = IF e \in {"error", "stop"} THEN "" ELSE mach.prior
    /\ d.log = mach.log \cup ({e} \cap Milestones)
    /\ d.interrupted = FALSE
    /\ d \in Machine

\* An accepted one follows a row of the table.
LEMMA DispatchAccepted ==
    ASSUME NEW mach \in Machine, NEW e, NEW facts, CanDispatch(mach, e, facts)
    PROVE  \E t \in TransitionTable : Follows(Dispatch(mach, e, facts), mach, e, facts, t)
<1> DEFINE row == CHOOSE t \in Rows(mach, e, facts) : TRUE
<1>1. row \in Rows(mach, e, facts)
  BY DEF CanDispatch
<1>2. row \in TransitionTable /\ row.to \in State
  BY <1>1, TableRows DEF Rows, RowOK
<1>3. row.from = mach.state /\ row.event = e /\ row.guards \subseteq facts
  BY <1>1 DEF Rows
<1> DEFINE p == IF e \in {"error", "stop"} THEN "" ELSE mach.prior
           q == IF e \in {"wait", "pause"} THEN mach.state ELSE mach.previous
           l == mach.log \cup ({e} \cap Milestones)
           s == Target(mach, e, row)
<1>4. Dispatch(mach, e, facts) = [state |-> s, prior |-> p, previous |-> q, log |-> l, interrupted |-> FALSE]
  BY DEF Dispatch, row
<1> HIDE DEF row
<1>5. s \in State
  BY <1>2 DEF Target, Machine, Prior
<1>6. p \in Prior /\ q \in Prior /\ l \in SUBSET Milestones /\ FALSE \in BOOLEAN
  BY DEF Machine, Prior
<1>7. [state |-> s, prior |-> p, previous |-> q, log |-> l, interrupted |-> FALSE] \in Machine
  <2> HIDE DEF s, p, q, l
  <2> QED BY <1>5, <1>6 DEF Machine
<1>8. Follows([state |-> s, prior |-> p, previous |-> q, log |-> l, interrupted |-> FALSE],
               mach, e, facts, row)
  BY <1>3, <1>7 DEF Follows
<1> QED BY <1>2, <1>4, <1>8, Zenon

\* Dispatch keeps a machine a machine, whatever the event and the facts.
LEMMA DispatchType ==
    ASSUME NEW mach \in Machine, NEW e, NEW facts
    PROVE  Dispatch(mach, e, facts) \in Machine
<1>1. CASE CanDispatch(mach, e, facts)
  BY <1>1, DispatchAccepted, Zenon DEF Follows
<1>2. CASE ~CanDispatch(mach, e, facts)
  BY <1>2, DispatchRejected
<1> QED BY <1>1, <1>2

\* Entering an operation.
Enters(mach, d, e, facts) ==
    /\ mach.state \in Stable /\ d.state = Entered[e]
    /\ d.state \in Built => mach.state \in Built \/ "implemented" \in facts
    /\ d.prior = mach.prior /\ d.log = mach.log /\ d.interrupted = FALSE

LEMMA DispatchEntry ==
    ASSUME NEW mach \in Machine, NEW e \in EntryEvents, NEW facts, CanDispatch(mach, e, facts)
    PROVE  Enters(mach, Dispatch(mach, e, facts), e, facts)
<1>1. e \notin {"error", "stop"} /\ {e} \cap Milestones = {}
  BY DEF EntryEvents, Milestones
<1>2. PICK t \in TransitionTable : Follows(Dispatch(mach, e, facts), mach, e, facts, t)
  BY DispatchAccepted, Zenon
<1>3. RowOK(t)
  BY TableRows
<1> QED
  BY <1>1, <1>2, <1>3 DEF RowOK, Follows, Target, Machine, Enters

\* Completing one: accepted in its own state, ignored in every other.
LEMMA DispatchDone ==
    ASSUME NEW mach \in Machine, NEW e \in DoneEvents, NEW facts
    PROVE  LET d == Dispatch(mach, e, facts) IN
           /\ d \in Machine
           /\ mach.state # DoneFrom[e] => d = mach
           /\ mach.state = DoneFrom[e] => d.state = DoneTo[e] /\ d.interrupted = FALSE
           /\ d.prior = mach.prior
<1>1. e \notin {"error", "stop"}
  BY DEF DoneEvents
<1>2. CASE CanDispatch(mach, e, facts)
  <2>1. PICK t \in TransitionTable : Follows(Dispatch(mach, e, facts), mach, e, facts, t)
    BY <1>2, DispatchAccepted, Zenon
  <2>2. RowOK(t)
    BY TableRows
  <2> QED BY <1>1, <2>1, <2>2 DEF RowOK, Follows, Target
<1>3. CASE ~CanDispatch(mach, e, facts)
  <2>1. mach.state # DoneFrom[e]
    BY <1>3, TableAccepts DEF CanDispatch, Rows
  <2> QED BY <1>3, <2>1, DispatchRejected
<1> QED BY <1>2, <1>3

\* error and stop: the operation under way is left for the state it was
\* entered from, or for its default.
RollsBack(mach, d) ==
    /\ mach.state \notin Active => d = mach
    /\ mach.state \in Active =>
         /\ mach.prior # "" => d.state = mach.prior
         /\ mach.prior = "" => /\ d.state \in {"loaded", "planned", "implemented"}
                               /\ d.state \in Built => mach.state \in Built
         /\ d.prior = "" /\ d.interrupted = FALSE
    /\ d.log = mach.log

LEMMA DispatchBack ==
    ASSUME NEW mach \in Machine, NEW e \in {"error", "stop"}, NEW facts
    PROVE  RollsBack(mach, Dispatch(mach, e, facts))
<1>1. {e} \cap Milestones = {}
  BY DEF Milestones
<1>2. CASE CanDispatch(mach, e, facts)
  <2>1. PICK t \in TransitionTable : Follows(Dispatch(mach, e, facts), mach, e, facts, t)
    BY <1>2, DispatchAccepted, Zenon
  <2>2. RowOK(t)
    BY TableRows
  <2> QED BY <1>1, <2>1, <2>2 DEF RowOK, Follows, Target, Machine, RollsBack
<1>3. CASE ~CanDispatch(mach, e, facts)
  <2>1. mach.state \notin Active
    BY <1>3, TableAccepts DEF CanDispatch, Rows
  <2> QED BY <1>3, <2>1, DispatchRejected DEF RollsBack
<1> QED BY <1>2, <1>3

\* The other events the conductor dispatches.
LEMMA DispatchOther ==
    ASSUME NEW mach \in Machine, NEW facts, NEW e \in {"start", "submit", "finish", "abort", "reset"},
           CanDispatch(mach, e, facts)
    PROVE  LET d == Dispatch(mach, e, facts) IN
           /\ d \in Machine
           /\ d.prior = mach.prior /\ d.log = mach.log \cup ({e} \cap Milestones)
           /\ d.interrupted = FALSE
           /\ e = "start" => mach.state = "none" /\ d.state = "loaded"
           /\ e = "submit" => mach.state = "reviewing" /\ d.state = "submitted"
           /\ e = "finish" => mach.state = "submitted" /\ d.state = "none"
           /\ e = "abort" => mach.state # "none" /\ d.state = "failed"
           /\ e = "reset" => mach.state = "failed" /\ d.state = "loaded"
<1>1. e \notin {"error", "stop"}
  OBVIOUS
<1>2. PICK t \in TransitionTable : Follows(Dispatch(mach, e, facts), mach, e, facts, t)
  BY DispatchAccepted, Zenon
<1>3. RowOK(t)
  BY TableRows
<1> QED
  BY <1>1, <1>2, <1>3 DEF RowOK, Follows, Target

-----------------------------------------------------------------------------
(* The other operators.                                                    *)

LEMMA PriorType ==
    ASSUME NEW mach \in Machine, NEW s \in State
    PROVE  SetPriorStableState(mach, s) \in Machine /\ ClearPriorStableState(mach) \in Machine
  BY DEF SetPriorStableState, ClearPriorStableState, Machine, Prior

LEMMA NewMachineType == \A s \in State : [NewMachine EXCEPT !.state = s] \in Machine
  BY DEF NewMachine, Machine, Prior

LEMMA ResetMachineType ==
    ASSUME NEW mach \in Machine
    PROVE  /\ ResetMachine(mach) \in Machine /\ ResetMachine(mach).state = "none"
           /\ ResetMachine(mach).prior = mach.prior /\ ResetMachine(mach).interrupted = FALSE
  BY DEF ResetMachine, NewMachine, Machine, Prior, State
=============================================================================
