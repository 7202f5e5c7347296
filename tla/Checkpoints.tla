----------------------------- MODULE Checkpoints -----------------------------
(***************************************************************************)
(* The checkpoints of a task: commits that the conductor makes around its  *)
(* jobs (conductor_job.go, conductor_graph_helpers.go, conductor_cifix.go) *)
(* and the stacks that undo, redo and checkpoint.goto move between         *)
(* (conductor_lifecycle.go).                                               *)
(*                                                                         *)
(* A commit is a number.  There are two working trees: the project's own,  *)
(* "main", behind c.git, and with worktree isolation the task's, "task",   *)
(* that jobs work in.  Only where their heads are and whether they hold    *)
(* uncommitted changes is kept.                                            *)
(***************************************************************************)
EXTENDS Lifecycle, SequencesExt

CONSTANTS
  Jobs,         \* goroutines that watch a job
  Phases,       \* the phases that run jobs; all of them treat checkpoints alike
  Isolation,    \* the values of workflow.use_worktree_isolation
  MaxCommits,   \* bound: commits
  MaxTimeline   \* bound: entries of the two stacks, for a head that is captured again and again

ASSUME CheckpointsAssumption ==
  /\ MaxCommits \in Nat /\ MaxTimeline \in Nat
  /\ Phases \subseteq {"plan", "implement"} /\ Isolation \subseteq BOOLEAN

VARIABLES
  mach,         \* the state machine, a record of Lifecycle
  checkpoints,  \* WorkUnit.Checkpoints
  redo,         \* WorkUnit.RedoStack
  isolated,     \* WorkUnit.WorktreePath is set
  head,         \* the commit each tree is at
  dirty,        \* the tree has uncommitted changes
  commits,      \* the commits made so far
  job,          \* the goroutines: where each is, and the event that completes its phase
  fixing,       \* a CI fix loop is running
  cifix,        \* the commit of a CI fix that is not yet recorded, or 0
  saved,        \* what persistState has written
  silent        \* history: since the file was written, a goroutine has ended without writing it

work == <<mach, checkpoints, redo>>
trees == <<head, dirty, commits>>
fixes == <<fixing, cifix>>
vars == <<work, isolated, trees, job, fixes, saved, silent>>

Trees == {"main", "task"}
NoJob == [pc |-> "none", done |-> "none"]

\* getWorkDir.
WorkDir == IF isolated THEN "task" ELSE "main"

\* The facts the guards of the table ask for; those about phases hold when the state allows the event.
Facts ==
  {"source", "description", "specs", "implemented", "provider", "gate"}
    \cup (IF checkpoints # <<>> THEN {"undo"} ELSE {}) \cup (IF redo # <<>> THEN {"redo"} ELSE {})

\* Dispatch on the conductor's machine, without the history nothing here asks for.
Apply(mc, e) == [Dispatch(mc, e, Facts) EXCEPT !.log = {}]

Snapshot(mc, cps, rs) == [state |-> mc.state, checkpoints |-> cps, redo |-> rs]

persistState ==
  /\ saved' = Snapshot(mach', checkpoints', redo')
  /\ silent' = FALSE

Init ==
  /\ mach = [NewMachine EXCEPT !.state = "loaded"]
  /\ checkpoints = <<>> /\ redo = <<>>
  /\ isolated \in Isolation
  /\ head = [t \in Trees |-> 0] /\ dirty = [t \in Trees |-> FALSE] /\ commits = 0
  /\ job = [j \in Jobs |-> NoJob]
  /\ fixing = FALSE /\ cifix = 0 /\ silent = FALSE
  /\ saved = Snapshot(mach, checkpoints, redo)

-----------------------------------------------------------------------------
(* Git.                                                                    *)

\* Repository.Commit in tree t.
Commit(t) ==
  /\ commits < MaxCommits
  /\ commits' = commits + 1
  /\ head' = [head EXCEPT ![t] = commits']
  /\ dirty' = [dirty EXCEPT ![t] = FALSE]

\* Repository.Reset with --hard.
Reset(t, sha) ==
  /\ head' = [head EXCEPT ![t] = sha]
  /\ dirty' = [dirty EXCEPT ![t] = FALSE]
  /\ UNCHANGED commits

\* Someone changes files: the agent of a running job where it works, the user in
\* the project.
Edit(t) ==
  /\ ~dirty[t]
  /\ t = "main" \/ \E j \in Jobs : job[j].pc = "running" /\ t = WorkDir
  /\ dirty' = [dirty EXCEPT ![t] = TRUE]
  /\ UNCHANGED <<work, isolated, head, commits, job, fixes, saved, silent>>

\* The agent commits by itself.
AgentCommit(j) ==
  /\ job[j].pc = "running" /\ dirty[WorkDir]
  /\ Commit(WorkDir)
  /\ UNCHANGED <<work, isolated, job, fixes, saved, silent>>

-----------------------------------------------------------------------------
(* Navigation, under the conductor's mutex.                                *)

\* Undo wants a checkpoint to go back to.
Undoable == Len(checkpoints) >= 2

Previous == checkpoints[Len(checkpoints) - 1]

\* c.git is reset first.  A rejected dispatch leaves the stacks as they are.
Undo ==
  /\ Undoable
  /\ Reset("main", Previous)
  /\ IF CanDispatch(mach, "undo", Facts)
     THEN /\ mach' = Apply(mach, "undo")
          /\ checkpoints' = Front(checkpoints)
          /\ redo' = Append(redo, Last(checkpoints))
          /\ persistState
     ELSE UNCHANGED <<work, saved, silent>>
  /\ UNCHANGED <<isolated, job, fixes>>

Redo ==
  /\ redo # <<>>
  /\ Reset("main", Last(redo))
  /\ IF CanDispatch(mach, "redo", Facts)
     THEN /\ mach' = Apply(mach, "redo")
          /\ checkpoints' = Append(checkpoints, Last(redo))
          /\ redo' = Front(redo)
          /\ persistState
     ELSE UNCHANGED <<work, saved, silent>>
  /\ UNCHANGED <<isolated, job, fixes>>

\* Mutant of Reversed.
MutReversed(newer) == newer

\* The newer checkpoints go to the redo stack so that redo restores them in sequence.
Reversed(newer) == Reverse(newer)

\* GotoCheckpoint, to the first place of its SHA; a rejected dispatch is ignored.
GotoCheckpoint(i) ==
  /\ \A k \in 1..(i - 1) : checkpoints[k] # checkpoints[i]
  /\ Reset("main", checkpoints[i])
  /\ mach' = Apply(mach, "undo")
  /\ redo' = redo \o Reversed(SubSeq(checkpoints, i + 1, Len(checkpoints)))
  /\ checkpoints' = SubSeq(checkpoints, 1, i)
  /\ persistState
  /\ UNCHANGED <<isolated, job, fixes>>

\* CreateCheckpoint commits what is staged in the project and forgets the redo stack.
CreateCheckpoint ==
  /\ dirty["main"]
  /\ Commit("main")
  /\ checkpoints' = Append(checkpoints, commits')
  /\ redo' = <<>>
  /\ mach' = mach
  /\ persistState
  /\ UNCHANGED <<isolated, job, fixes>>

-----------------------------------------------------------------------------
(* Phases.  The redo stack is not touched by the checkpoints of a job.     *)

Completion == [plan |-> "plan_done", implement |-> "implement_done"]
NormalEntry == [plan |-> {"loaded"}, implement |-> {"loaded", "planned"}]

\* The state a phase is entered from is kept when it is not the usual one.
PhaseEntered(e) ==
  Apply(IF mach.state \in NormalEntry[e] THEN mach ELSE SetPriorStableState(mach, mach.state), e)

\* Plan or Implement enters its phase; the guardrails then run without the mutex,
\* and nothing is saved yet.
StartPhase(j, e) ==
  /\ job[j] = NoJob /\ CanDispatch(mach, e, Facts)
  /\ mach' = PhaseEntered(e)
  /\ job' = [job EXCEPT ![j] = [pc |-> "entering", done |-> Completion[e]]]
  /\ UNCHANGED <<checkpoints, redo, isolated, trees, fixes, saved, silent>>

\* Its dispatch is rejected, and the state to go back to is forgotten.
PhaseRejected(e) ==
  /\ ~CanDispatch(mach, e, Facts)
  /\ mach' = ClearPriorStableState(mach)
  /\ UNCHANGED <<checkpoints, redo, isolated, trees, job, fixes, saved, silent>>

\* A guardrail fails or the job cannot be submitted: the phase is left again, and
\* this is not saved.
PhaseRolledBack(j) ==
  /\ job[j].pc = "entering"
  /\ mach' = Apply(mach, "error")
  /\ job' = [job EXCEPT ![j] = NoJob]
  /\ UNCHANGED <<checkpoints, redo, isolated, trees, fixes, saved, silent>>

Step(j, pc) == job' = [job EXCEPT ![j].pc = pc]

\* StageAll and Commit in the work directory when something has changed there; the commit may be refused.
CommitChanges ==
  \/ dirty[WorkDir] /\ Commit(WorkDir) /\ checkpoints' = Append(checkpoints, commits')
  \/ UNCHANGED <<trees, checkpoints>>

\* The phase is saved and its goroutine started.  Plan has committed a safety
\* checkpoint before,
LaunchPhase(j) ==
  /\ job[j].pc = "entering"
  /\ IF job[j].done = "plan_done" THEN CommitChanges /\ Step(j, "running")
                                  ELSE UNCHANGED <<trees, checkpoints>> /\ Step(j, "queued")
  /\ UNCHANGED <<mach, redo>>
  /\ persistState
  /\ UNCHANGED <<isolated, fixes>>

\* the goroutine of Implement does so ahead of the job.
PreJobCheckpoint(j) ==
  /\ job[j].pc = "queued"
  /\ CommitChanges
  /\ Step(j, "running")
  /\ UNCHANGED <<mach, redo, isolated, fixes, saved, silent>>

\* A commit of the agent's own becomes the checkpoint when nothing is left to commit.
CaptureHead ==
  /\ Len(checkpoints) + Len(redo) < MaxTimeline
  /\ checkpoints' = Append(checkpoints, head[WorkDir])
  /\ UNCHANGED trees

\* The job completes: its work becomes a checkpoint.  The lock is then released
\* for the validation of the commits.
JobCompleted(j) ==
  /\ job[j].pc = "running"
  /\ IF dirty[WorkDir] \/ Contains(checkpoints, head[WorkDir]) THEN CommitChanges ELSE CaptureHead
  /\ Step(j, "completed")
  /\ UNCHANGED <<mach, redo, isolated, fixes, saved, silent>>

\* The job fails: so does its partial work, and the policy is looked up without the lock.
JobFailed(j) ==
  /\ job[j].pc = "running"
  /\ CommitChanges
  /\ Step(j, "failed")
  /\ UNCHANGED <<mach, redo, isolated, fixes, saved, silent>>

\* The strategy iterates, or the policy retries: the goroutine ends without
\* saving, and the phase is to be called again.  For a plan that failed nothing is
\* called (dispatchAutoAdvance).
JobAgain(j) ==
  /\ job[j].pc \in {"completed", "failed"}
  /\ job' = [job EXCEPT ![j] = IF job[j] = [pc |-> "failed", done |-> "plan_done"] THEN NoJob
                               ELSE [@ EXCEPT !.pc = "again"]]
  /\ silent' = TRUE
  /\ UNCHANGED <<work, isolated, trees, fixes, saved>>

\* Only when the phase was left meanwhile can it be entered,
PhaseAgain(j, e) ==
  /\ job[j] = [pc |-> "again", done |-> Completion[e]] /\ CanDispatch(mach, e, Facts)
  /\ mach' = PhaseEntered(e)
  /\ Step(j, "entering")
  /\ UNCHANGED <<checkpoints, redo, isolated, trees, fixes, saved, silent>>

\* else the dispatch is rejected, as it is in the phase itself; or it does not
\* come to that, behind a hook or a limit that refuses it.
AgainRefused(j) ==
  /\ job[j].pc = "again"
  /\ \/ mach' = mach
     \/ \E e \in Phases : /\ job[j].done = Completion[e] /\ ~CanDispatch(mach, e, Facts)
                           /\ mach' = ClearPriorStableState(mach)
  /\ job' = [job EXCEPT ![j] = NoJob]
  /\ UNCHANGED <<checkpoints, redo, isolated, trees, fixes, saved, silent>>

\* The policy "skip" completes a failed phase that still goes on.
Skippable(j) == mach.state = IF job[j].done = "plan_done" THEN "planning" ELSE "implementing"

\* Mutant of JobEnds.
MutJobEnds(j) ==
  /\ job[j].pc \in {"completed", "failed"}
  /\ \/ /\ job[j].pc = "completed" \/ Skippable(j)
        /\ mach' = Apply(ClearPriorStableState(mach), job[j].done)
     \/ job[j].pc = "failed" /\ mach' = Apply(mach, "error")
  /\ job' = [job EXCEPT ![j] = NoJob]
  /\ UNCHANGED <<checkpoints, redo>>
  /\ IF mach' # mach THEN persistState ELSE UNCHANGED <<saved, silent>>
  /\ UNCHANGED <<isolated, trees, fixes>>

\* The verdict is dispatched and saved with the checkpoints.
JobEnds(j) ==
  /\ job[j].pc \in {"completed", "failed"}
  /\ \/ /\ job[j].pc = "completed" \/ Skippable(j)
        /\ mach' = Apply(ClearPriorStableState(mach), job[j].done)
     \/ job[j].pc = "failed" /\ mach' = Apply(mach, "error")
  /\ job' = [job EXCEPT ![j] = NoJob]
  /\ UNCHANGED <<checkpoints, redo>>
  /\ persistState
  /\ UNCHANGED <<isolated, trees, fixes>>

\* The stream ends without a verdict.
JobSilent(j) ==
  /\ job[j].pc = "running"
  /\ job' = [job EXCEPT ![j] = NoJob]
  /\ silent' = TRUE
  /\ UNCHANGED <<work, isolated, trees, fixes, saved>>

\* Stop cancels the job and rolls back; the goroutine learns of it later.
Stop ==
  /\ CanDispatch(mach, "stop", Facts)
  /\ mach' = Apply(mach, "stop")
  /\ UNCHANGED <<checkpoints, redo>>
  /\ persistState
  /\ UNCHANGED <<isolated, trees, job, fixes>>

Review ==
  /\ CanDispatch(mach, "review", Facts)
  /\ mach' = Apply(mach, "review")
  /\ UNCHANGED <<checkpoints, redo>>
  /\ persistState
  /\ UNCHANGED <<isolated, trees, job, fixes>>

\* Submit removes the task's worktree and, with a pull request and by the settings,
\* starts a CI fix loop.
Submit ==
  /\ CanDispatch(mach, "submit", Facts)
  /\ mach' = Apply(mach, "submit")
  /\ isolated' = FALSE
  /\ UNCHANGED <<checkpoints, redo>>
  /\ persistState
  /\ fixing' \in {fixing, TRUE}
  /\ UNCHANGED <<trees, job, cifix>>

\* The loop commits what its agent left in the project, without the mutex and
\* whatever has become of the task,
CIFixCommit ==
  /\ fixing /\ cifix = 0 /\ dirty["main"]
  /\ Commit("main")
  /\ cifix' = commits'
  /\ UNCHANGED <<work, isolated, job, fixing, saved, silent>>

\* and records the commit under it.
CIFixRecord ==
  /\ cifix # 0
  /\ checkpoints' = Append(checkpoints, cifix)
  /\ cifix' = 0
  /\ UNCHANGED <<mach, redo>>
  /\ persistState
  /\ UNCHANGED <<isolated, trees, job, fixing>>

\* The process is killed; the task is restored from its file.
Crash ==
  /\ mach' = [NewMachine EXCEPT !.state = saved.state]
  /\ checkpoints' = saved.checkpoints /\ redo' = saved.redo
  /\ job' = [j \in Jobs |-> NoJob] /\ fixing' = FALSE /\ cifix' = 0 /\ silent' = FALSE
  /\ UNCHANGED <<isolated, trees, saved>>

-----------------------------------------------------------------------------
Next ==
  \/ Undo \/ Redo \/ CreateCheckpoint \/ Stop \/ Review \/ Submit \/ CIFixCommit \/ CIFixRecord \/ Crash
  \/ \E i \in DOMAIN checkpoints : GotoCheckpoint(i)
  \/ \E t \in Trees : Edit(t)
  \/ \E j \in Jobs : \/ PreJobCheckpoint(j) \/ AgentCommit(j) \/ JobCompleted(j) \/ JobFailed(j)
                     \/ JobAgain(j) \/ JobEnds(j) \/ JobSilent(j) \/ LaunchPhase(j)
                     \/ PhaseRolledBack(j) \/ AgainRefused(j)
                     \/ \E e \in Phases : StartPhase(j, e) \/ PhaseAgain(j, e)
  \/ \E e \in Phases : PhaseRejected(e)

Spec == Init /\ [][Next]_vars

-----------------------------------------------------------------------------
(* Properties.                                                             *)

\* The variables have their types, and whatever was undone, there is a
\* checkpoint left that it was undone to.
TypeOK ==
  /\ mach.state \in State
  /\ checkpoints \in Seq(0..MaxCommits) /\ redo \in Seq(0..MaxCommits)
  /\ redo # <<>> => checkpoints # <<>>
  /\ isolated \in BOOLEAN
  /\ head \in [Trees -> 0..MaxCommits] /\ dirty \in [Trees -> BOOLEAN] /\ commits \in 0..MaxCommits
  /\ \A j \in Jobs : job[j].pc \in {"none", "entering", "queued", "running", "completed", "failed", "again"}
  /\ fixing \in BOOLEAN /\ cifix \in 0..MaxCommits /\ silent \in BOOLEAN

\* The checkpoints in the order in which undo and redo visit them.
Timeline == checkpoints \o Reverse(redo)

\* A step that neither makes nor records a commit and is no restart.
OnlyNavigates == commits' = commits /\ job' = job /\ cifix' = cifix /\ ~Crash

\* Undo, redo and goto, in any order and also across checkpoints made while
\* something was undone, forget no checkpoint and change no order: what was
\* undone can be redone in sequence.  When they change the stacks of a task that
\* works in the project's own tree, that tree is at the checkpoint now on top.
NavigationKeepsTimeline ==
  [][OnlyNavigates =>
       /\ Timeline' = Timeline
       /\ checkpoints' # checkpoints /\ ~isolated => head'["main"] = Last(checkpoints')]_vars

\* Where a goroutine is that watches a job.
Watching == {"queued", "running", "completed", "failed"}

\* When nobody watches a job, the task's file has every checkpoint and the redo
\* stack as they are in memory, also when a job was stopped, called again or
\* overtaken by navigation and when a phase was entered and rolled back: a kill
\* then loses none of them.  The exception is a goroutine that has ended without
\* saving since the file was written: its stream had no verdict, or the phase was
\* to be called again.
EndedIsSaved ==
  (\A j \in Jobs : job[j].pc \notin Watching) /\ ~silent
    => saved.checkpoints = checkpoints /\ saved.redo = redo

-----------------------------------------------------------------------------
(* What comments and documents promise and the code does not keep.         *)

\* "Capture any partial work the agent completed before crashing", "partial work
\* checkpoint saved": when nobody watches a job, the file has every checkpoint.
PartialWorkIsSaved == (\A j \in Jobs : job[j].pc \notin Watching) => saved.checkpoints = checkpoints

\* "Resets the working directory to the previous checkpoint": the tree the task
\* works in is at the checkpoint now on top.
NavigationMovesWorkDir ==
  [][OnlyNavigates /\ checkpoints' # checkpoints => head'[WorkDir'] = Last(checkpoints')]_vars

\* "The redo stack is cleared when you create a new checkpoint".
NewCheckpointClearsRedo == [][commits' > commits /\ checkpoints' # checkpoints => redo' = <<>>]_vars

\* "Perform git reset FIRST to avoid state/git divergence": navigation that moves
\* the project's tree leaves it at the checkpoint on top, also when the state
\* machine rejects it.
ResetAgrees ==
  [][OnlyNavigates /\ head' # head /\ ~isolated => head'["main"] = Last(checkpoints')]_vars
=============================================================================
