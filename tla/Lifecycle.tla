----------------------------- MODULE Lifecycle -----------------------------
(***************************************************************************)
(* The workflow state machine of internal/conductor: the transition table, *)
(* its guards and the Dispatch function.  The module has no variables; the *)
(* machine is a record that Conductor keeps and changes with the operators *)
(* below, as the Go code changes *Machine under its own mutex.             *)
(*                                                                         *)
(* A guard is the name of a fact about the work unit ("specs" = it has     *)
(* specifications, "gate" = the quality gate has not failed ...).  Of the  *)
(* history only the two events some code or comment asks about are kept.   *)
(***************************************************************************)
EXTENDS Naturals, Sequences, FiniteSets

\* The states that hold between two operations, and those an operation is in.
Stable == {"loaded", "planned", "implemented", "submitted"}
InProgress == {"planning", "implementing", "simplifying", "optimizing"}
\* isActivePhaseState: the states a restart reports as interrupted.
Active == InProgress \cup {"reviewing"}
State == {"none", "failed", "waiting", "paused"} \cup Stable \cup Active

Milestones == {"implement_done", "submit"}

T(from, event, to, guards) == [from |-> from, event |-> event, to |-> to, guards |-> guards]

Progress ==
  { T("none", "start", "loaded", {"source"}),
    T("planning", "plan_done", "planned", {}),
    T("planned", "implement", "implementing", {"specs"}),
    T("loaded", "implement", "implementing", {"description"}),
    T("implementing", "implement_done", "implemented", {}),
    T("implemented", "simplify", "simplifying", {}),
    T("simplifying", "simplify_done", "implemented", {}),
    T("implemented", "optimize", "optimizing", {}),
    T("optimizing", "optimize_done", "implemented", {}),
    T("implemented", "review", "reviewing", {}),
    T("reviewing", "submit", "submitted", {"provider", "gate"}),
    T("reviewing", "reject", "planning", {}),
    T("submitted", "finish", "none", {}) }

\* error and stop roll an operation back to the same default target.
DefaultRollback == [planning |-> "loaded", implementing |-> "planned", simplifying |-> "implemented",
                    optimizing |-> "implemented", reviewing |-> "implemented"]

Rollback == { T(s, e, DefaultRollback[s], {}) : s \in Active, e \in {"error", "stop"} }

Interruption ==
  { T(s, "wait", "waiting", {}) : s \in InProgress } \cup
  { T(s, "pause", "paused", {}) : s \in InProgress } \cup
  { T(s, "abort", "failed", {}) : s \in Stable \cup Active \cup {"waiting", "paused"} } \cup
  { T("waiting", "answer", "loaded", {}), T("paused", "resume", "loaded", {}),
    T("failed", "reset", "loaded", {}) }

UndoRedo ==
  { T(s, "undo", s, {"undo"}) : s \in Stable \cup {"implementing"} } \cup
  { T(s, "redo", s, {"redo"}) : s \in Stable }

\* A phase may be entered again from a later stable state.
ReEntry ==
  { T(s, "plan", "planning", {"description"}) : s \in Stable } \cup
  { T(s, "implement", "implementing", {"specs"}) : s \in {"implemented", "submitted"} } \cup
  { T(s, "simplify", "simplifying", {"implemented"}) : s \in {"planned", "submitted"} } \cup
  { T(s, "optimize", "optimizing", {"implemented"}) : s \in {"planned", "submitted"} } \cup
  { T("planned", "review", "reviewing", {"implemented"}), T("submitted", "review", "reviewing", {}) }

TransitionTable == Progress \cup Rollback \cup Interruption \cup UndoRedo \cup ReEntry

----------------------------------------------------------------------------
NewMachine == [state |-> "none", prior |-> "", previous |-> "", log |-> {}, interrupted |-> FALSE]

\* EvaluateGuards over the transitions of the current state.
Rows(mach, e, facts) ==
  { t \in TransitionTable : t.from = mach.state /\ t.event = e /\ t.guards \subseteq facts }

CanDispatch(mach, e, facts) == Rows(mach, e, facts) # {}

\* error and stop go back to priorStableState, and consume it, when one is recorded.
Target(mach, e, row) ==
  IF e \in {"error", "stop"} /\ mach.prior # "" THEN mach.prior ELSE row.to

\* Dispatch; a rejected event leaves the machine as it is and is ignored by most callers.
Dispatch(mach, e, facts) ==
  IF ~CanDispatch(mach, e, facts) THEN mach
  ELSE LET row == CHOOSE t \in Rows(mach, e, facts) : TRUE
       IN  [ state |-> Target(mach, e, row),
             prior |-> IF e \in {"error", "stop"} THEN "" ELSE mach.prior,
             previous |-> IF e \in {"wait", "pause"} THEN mach.state ELSE mach.previous,
             log |-> mach.log \cup ({e} \cap Milestones),
             interrupted |-> FALSE ]

SetPriorStableState(mach, s) == [mach EXCEPT !.prior = s]
ClearPriorStableState(mach) == [mach EXCEPT !.prior = ""]

\* Machine.Reset: priorStableState is not among the fields it clears.
ResetMachine(mach) == [NewMachine EXCEPT !.prior = mach.prior]
=============================================================================
