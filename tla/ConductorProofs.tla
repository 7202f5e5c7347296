-------------------------- MODULE ConductorProofs --------------------------
(***************************************************************************)
(* Proofs about Conductor, for any number of tasks, clients, background    *)
(* goroutines and kills, and any settings the theorem does not restrict:   *)
(* the ownership of a phase in progress, what task.yaml holds, and what a  *)
(* state says of the task that is in it.                                   *)
(***************************************************************************)
EXTENDS Conductor, LifecycleProofs, SequenceTheorems, WellFoundedInduction

\* The pcs of a thread that has entered its phase and still has to report how
\* it ended.
Owning == {"guardrails", "launch", "watch", "validate", "finalize", "policy", "errored"}

\* A thread that has entered a phase works for a phase, one that is about to
\* enter an operation for a phase or a review.
OpInv ==
  \A t \in Threads : /\ thr[t].pc \in Owning => thr[t].op \in Phases
                     /\ thr[t].pc = "enter" => thr[t].op \in Phases \cup Reviews

\* Between the prior state and the transition, and between the transition and
\* the job of a phase without guardrails, a thread holds c.mu.
LockInv == \A t \in Threads : thr[t].pc \in {"enter", "launch"} => mu = t

\* Without a task the machine is in its initial state.
NoTaskInv == wu = NoTask => m.state = "none"

\* A thread is between the recording of the prior state and the transition.
Entering == \E t \in Threads : thr[t].pc = "enter" /\ mu = t

\* A prior state that is no state to roll back to is there only while the
\* event that will be rejected is pending.
PriorInv == m.prior \in InProgress \cup {"none"} => m.state = m.prior /\ Entering

BaseInv == LockInv /\ NoTaskInv /\ PriorInv

\* While a phase is in progress a thread that has entered it is under way.
OwnedInv ==
  m.state \in InProgress /\ ~m.interrupted =>
    \E t \in Threads : thr[t].pc \in Owning /\ InProgressState[thr[t].op] = m.state

\* What a directory of task.yaml files holds.
Files(d) == {d[i] : i \in DOMAIN d}

\* There is one file per task.
Unique(d) == \A i, k \in DOMAIN d : d[i].id = d[k].id => i = k

DiskInv == Unique(disk)

\* What was abandoned or deleted is neither the current task nor saved.
GoneInv ==
  \A t \in Tasks : fate[t] = "gone" => wu.id # t /\ \A e \in Files(disk) : e.id # t

\* A thread is at pc.
Pending(pc) == \E t \in Threads : thr[t].pc = pc

\* The newest file is the current task's.  Its specifications may lag behind
\* while a thread has yet to accept a result, its history while a submission
\* has yet to be stored.
SavedInv ==
  m.state # "none" =>
    /\ disk # <<>> /\ Last(disk).id = wu.id /\ Last(disk).impl = wu.impl
    /\ Last(disk).specs = wu.specs \/ Pending("validate")
    /\ Last(disk).log = m.log \/ Pending("store")

\* A machine without a task has nothing to roll back to.
FreshInv == m.state = "none" => m.prior \in {"", "none"}

\* A state that presupposes an implementation, current, prior or saved, comes
\* with the flag.
CurrentCode == m.state \in Built \/ m.prior \in Built => wu # NoTask /\ wu.impl
SavedCode == \A e \in Files(disk) : e.state \in Built => e.impl
CodeInv == CurrentCode /\ SavedCode

\* The task has a pull request, or nobody to open one.
Opened(id) == id \in Tasks /\ (id \in Publishes => prs[id] >= 1)

\* The pcs of a submission after its last check.
Late == {"network", "dispatch", "store"}

\* A submission is for the current task, and what it leaves behind says
\* "submitted" only when the pull request is there.
CurrentPR ==
  /\ m.state = "submitted" \/ m.prior = "submitted" => Opened(wu.id)
  /\ wu # NoTask /\ wu.pr => Opened(wu.id)
SavedPR == \A e \in Files(disk) : e.state = "submitted" => Opened(e.id)
LatePR ==
  \A t \in Threads :
    /\ thr[t].pc \in Late => m.state # "none"
    /\ thr[t].pc = "network" => thr[t].task = wu.id \/ Opened(wu.id)
    /\ thr[t].pc \in {"dispatch", "store"} => Opened(wu.id)
SubmitInv == CurrentPR /\ SavedPR /\ LatePR

\* Nobody submits; then "reviewing" is no state to roll back to either.
SubmitPCs == {"waitgate", "orphaned", "gated", "syncgate", "network", "dispatch", "store"}

NoSubmission == \A t \in Threads : thr[t].op # "submit" /\ thr[t].pc \notin SubmitPCs

ReviewInv == m.prior = "reviewing" => m.state = "reviewing" /\ Entering

-----------------------------------------------------------------------------
(* Removing an element of a sequence.                                      *)

LEMMA MinIn ==
    ASSUME NEW I \in SUBSET Nat, I # {}
    PROVE  Min(I) \in I
<1>1. IsWellFoundedOn(OpToRel(<,Nat), Nat)
  BY NatLessThanWellFounded
<1>2. PICK x \in I : \A y \in I : ~ (<<y, x>> \in OpToRel(<,Nat))
  BY <1>1, WFMin, Zenon
<1>3. ASSUME NEW y \in I PROVE x =< y
  <2>1. CASE y < x
    <3>1. <<y, x>> \in Nat \X Nat /\ <<y, x>>[1] < <<y, x>>[2]
      BY <2>1
    <3>2. <<y, x>> \in OpToRel(<,Nat)
      BY <3>1 DEF OpToRel
    <3> QED BY <1>2, <3>2
  <2> QED BY <2>1
<1> QED BY <1>3 DEF Min

LEMMA RemoveAtSeq ==
    ASSUME NEW S, NEW s \in Seq(S), NEW k \in 1..Len(s)
    PROVE  /\ RemoveAt(s, k) \in Seq(S) /\ Len(RemoveAt(s, k)) = Len(s) - 1
           /\ \A i \in 1..(Len(s) - 1) : RemoveAt(s, k)[i] = s[IF i < k THEN i ELSE i + 1]
<1> DEFINE a == SubSeq(s, 1, k - 1)
           b == SubSeq(s, k + 1, Len(s))
<1>1. a \in Seq(S) /\ b \in Seq(S) /\ Len(a) = k - 1 /\ Len(b) = Len(s) - k
  OBVIOUS
<1>2. \A i \in 1..(k - 1) : a[i] = s[i]
  OBVIOUS
<1>3. \A i \in 1..(Len(s) - k) : b[i] = s[i + k]
  OBVIOUS
<1>4. RemoveAt(s, k) = a \o b
  BY DEF RemoveAt
<1> HIDE DEF a, b
<1>5. a \o b \in Seq(S) /\ Len(a \o b) = Len(s) - 1
  BY <1>1
<1>6. ASSUME NEW i \in 1..(Len(s) - 1) PROVE (a \o b)[i] = s[IF i < k THEN i ELSE i + 1]
  <2>1. CASE i < k
    BY <1>1, <1>2, <2>1
  <2>2. CASE ~(i < k)
    <3>1. (i - k) + 1 \in 1..(Len(s) - k) /\ ((i - k) + 1) + k = i + 1
      BY <2>2
    <3>2. (a \o b)[i] = b[(i - k) + 1]
      BY <1>1, <2>2
    <3>3. b[(i - k) + 1] = s[i + 1]
      BY <1>3, <3>1
    <3> QED BY <2>2, <3>2, <3>3
  <2> QED BY <2>1, <2>2
<1> QED BY <1>4, <1>5, <1>6

LEMMA RemoveFirstType ==
    ASSUME NEW S, NEW s \in Seq(S), NEW e
    PROVE  RemoveFirst(s, e) \in Seq(S) /\ Len(RemoveFirst(s, e)) \in {Len(s), Len(s) - 1}
<1> DEFINE I == {i \in 1..Len(s) : s[i] = e}
<1>1. CASE I = {}
  BY <1>1 DEF RemoveFirst
<1>2. CASE I # {}
  <2>1. I \in SUBSET Nat /\ Len(s) \in Nat
    OBVIOUS
  <2>2. Min(I) \in I
    BY <1>2, <2>1, MinIn
  <2>3. RemoveFirst(s, e) = RemoveAt(s, Min(I))
    BY <1>2 DEF RemoveFirst, SelectInSeq
  <2> QED BY <2>2, <2>3, RemoveAtSeq
<1> QED BY <1>1, <1>2

LEMMA InsertAtType ==
    ASSUME NEW S, NEW s \in Seq(S), NEW e \in S, NEW k \in 1..(Len(s) + 1)
    PROVE  InsertAt(s, k, e) \in Seq(S)
<1>1. SubSeq(s, 1, k - 1) \in Seq(S) /\ SubSeq(s, k, Len(s)) \in Seq(S) /\ <<e>> \in Seq(S)
  OBVIOUS
<1> QED BY <1>1 DEF InsertAt

\* DeleteTaskState leaves the other files as they were, in their order.
LEMMA DeleteKeeps ==
    ASSUME NEW d \in Seq(Saved), NEW id
    PROVE  LET r == DeleteTaskState(d, id) IN
           \/ r = d /\ \A i \in DOMAIN d : d[i].id # id
           \/ /\ r \in Seq(Saved)
              /\ \E k \in DOMAIN d :
                   /\ d[k].id = id
                   /\ \A i \in DOMAIN r : i \in 1..(Len(d) - 1) /\ r[i] = d[IF i < k THEN i ELSE i + 1]
<1> DEFINE I == {i \in 1..Len(d) : d[i].id = id}
<1>0. DOMAIN d = 1..Len(d)
  OBVIOUS
<1>1. CASE I = {}
  <2>1. DeleteTaskState(d, id) = d
    BY <1>1 DEF DeleteTaskState, RemoveFirstMatch
  <2>2. \A i \in DOMAIN d : d[i].id # id
    BY <1>0, <1>1
  <2> QED BY <2>1, <2>2
<1>2. CASE I # {}
  <2>1. I \in SUBSET Nat /\ Len(d) \in Nat
    OBVIOUS
  <2>2. Min(I) \in I
    BY <1>2, <2>1, MinIn
  <2>3. DeleteTaskState(d, id) = RemoveAt(d, Min(I))
    BY <1>2 DEF DeleteTaskState, RemoveFirstMatch, SelectInSeq
  <2>4. /\ RemoveAt(d, Min(I)) \in Seq(Saved) /\ Len(RemoveAt(d, Min(I))) = Len(d) - 1
        /\ \A i \in 1..(Len(d) - 1) : RemoveAt(d, Min(I))[i] = d[IF i < Min(I) THEN i ELSE i + 1]
    BY <2>2, RemoveAtSeq
  <2>5. DOMAIN RemoveAt(d, Min(I)) = 1..(Len(d) - 1) /\ Min(I) \in DOMAIN d /\ d[Min(I)].id = id
    <3> DEFINE r == RemoveAt(d, Min(I))
    <3>0. r \in Seq(Saved)
      BY <2>4
    <3> HIDE DEF r
    <3>1. DOMAIN r = 1..Len(r)
      BY <3>0
    <3> USE DEF r
    <3> QED BY <1>0, <2>2, <2>4, <3>1
  <2> HIDE DEF I
  <2> QED BY <2>3, <2>4, <2>5
<1> QED BY <1>1, <1>2

\* With one file per task the deleted one is gone, and the rest stays unique.
LEMMA DeleteFiles ==
    ASSUME NEW d \in Seq(Saved), NEW id
    PROVE  LET r == DeleteTaskState(d, id) IN
           /\ r \in Seq(Saved) /\ Files(r) \subseteq Files(d)
           /\ Unique(d) => Unique(r) /\ \A e \in Files(r) : e.id # id
<1> DEFINE r == DeleteTaskState(d, id)
<1>1. CASE r = d /\ \A i \in DOMAIN d : d[i].id # id
  BY <1>1 DEF Files
<1>2. CASE /\ r \in Seq(Saved)
           /\ \E k \in DOMAIN d :
                /\ d[k].id = id
                /\ \A i \in DOMAIN r : i \in 1..(Len(d) - 1) /\ r[i] = d[IF i < k THEN i ELSE i + 1]
  <2>1. PICK k \in DOMAIN d :
          /\ d[k].id = id
          /\ \A i \in DOMAIN r : i \in 1..(Len(d) - 1) /\ r[i] = d[IF i < k THEN i ELSE i + 1]
    BY <1>2
  <2> HIDE DEF r
  <2>2. DOMAIN d = 1..Len(d) /\ Len(d) \in Nat
    OBVIOUS
  <2>3. \A i \in DOMAIN r : (IF i < k THEN i ELSE i + 1) \in DOMAIN d \ {k}
    BY <2>1, <2>2
  <2>4. Files(r) \subseteq Files(d)
    BY <2>1, <2>3 DEF Files
  <2>5. ASSUME Unique(d), NEW i \in DOMAIN r PROVE r[i].id # id
    BY <2>1, <2>3, <2>5 DEF Unique
  <2>6. ASSUME Unique(d), NEW i \in DOMAIN r, NEW j \in DOMAIN r, r[i].id = r[j].id PROVE i = j
    <3>1. (IF i < k THEN i ELSE i + 1) = (IF j < k THEN j ELSE j + 1)
      BY <2>1, <2>3, <2>6 DEF Unique
    <3> QED BY <2>1, <2>2, <3>1
  <2>7. ASSUME Unique(d) PROVE Unique(r) /\ \A e \in Files(r) : e.id # id
    BY <2>5, <2>6, <2>7 DEF Unique, Files
  <2> QED BY <1>2, <2>4, <2>7 DEF r
<1>3. \/ r = d /\ \A i \in DOMAIN d : d[i].id # id
      \/ /\ r \in Seq(Saved)
         /\ \E k \in DOMAIN d :
              /\ d[k].id = id
              /\ \A i \in DOMAIN r : i \in 1..(Len(d) - 1) /\ r[i] = d[IF i < k THEN i ELSE i + 1]
  BY DeleteKeeps
<1> QED BY <1>1, <1>2, <1>3

\* Appending to a directory.
LEMMA AppendFiles ==
    ASSUME NEW d \in Seq(Saved), NEW e \in Saved
    PROVE  /\ Append(d, e) \in Seq(Saved) /\ Append(d, e) # <<>> /\ Last(Append(d, e)) = e
           /\ Files(Append(d, e)) = Files(d) \cup {e}
           /\ Unique(d) /\ (\A f \in Files(d) : f.id # e.id) => Unique(Append(d, e))
<1> DEFINE r == Append(d, e)
<1>1. r \in Seq(Saved) /\ Len(r) = Len(d) + 1 /\ r[Len(d) + 1] = e /\ \A i \in 1..Len(d) : r[i] = d[i]
  OBVIOUS
<1>2. DOMAIN d = 1..Len(d) /\ Len(d) \in Nat
  OBVIOUS
<1> HIDE DEF r
<1>3. DOMAIN r = 1..(Len(d) + 1)
  BY <1>1
<1>4. r # <<>> /\ Last(r) = e
  BY <1>1, <1>2 DEF Last
<1>5. Files(r) = Files(d) \cup {e}
  BY <1>1, <1>2, <1>3 DEF Files
<1>6. ASSUME Unique(d), \A f \in Files(d) : f.id # e.id PROVE Unique(r)
  <2>1. \A i \in 1..Len(d) : d[i].id # e.id
    BY <1>2, <1>6 DEF Files
  <2> QED BY <1>1, <1>2, <1>3, <1>6, <2>1 DEF Unique
<1> QED BY <1>1, <1>4, <1>5, <1>6 DEF r

-----------------------------------------------------------------------------
(* Work units and their files.                                             *)

Unit == WorkUnit \cup {NoTask}
Gates == {"nil", "pass", "fail"}

LEMMA UnitId == \A w \in Unit : (w \in WorkUnit <=> w # NoTask) /\ (w.id \in Tasks <=> w # NoTask)
<1>1. NoTask.id = None /\ None \notin Tasks
  BY NoneAssumption DEF NoTask
<1>2. \A w \in WorkUnit : w.id \in Tasks
  BY DEF WorkUnit
<1> QED BY <1>1, <1>2 DEF Unit

\* Changing a field of a work unit.
LEMMA UnitFlags ==
    ASSUME NEW w \in WorkUnit, NEW b \in BOOLEAN
    PROVE  /\ LET u == [w EXCEPT !.specs = b] IN
              u \in WorkUnit /\ u.id = w.id /\ u.impl = w.impl /\ u.pr = w.pr
           /\ LET u == [w EXCEPT !.impl = b] IN
              u \in WorkUnit /\ u.id = w.id /\ u.specs = w.specs /\ u.pr = w.pr /\ u.impl = b
           /\ LET u == [w EXCEPT !.pr = b] IN
              u \in WorkUnit /\ u.id = w.id /\ u.specs = w.specs /\ u.impl = w.impl
  BY DEF WorkUnit

LEMMA UnitGate ==
    ASSUME NEW w \in WorkUnit, NEW g \in Gates
    PROVE  LET u == [w EXCEPT !.gate = g] IN
           u \in WorkUnit /\ u.id = w.id /\ u.specs = w.specs /\ u.pr = w.pr /\ u.impl = w.impl
  BY DEF WorkUnit, Gates

LEMMA NewUnit ==
    ASSUME NEW id \in Tasks
    PROVE  /\ NewWorkUnit(id) \in WorkUnit /\ NewWorkUnit(id).id = id
           /\ NewWorkUnit(id).impl = FALSE /\ NewWorkUnit(id).pr = FALSE
<1>1. FALSE \in BOOLEAN /\ "nil" \in Gates
  BY DEF Gates
<1> QED BY <1>1 DEF NewWorkUnit, WorkUnit, Gates

LEMMA EntryType ==
    ASSUME NEW w \in WorkUnit, NEW mach \in Machine
    PROVE  LET e == Entry(w, mach) IN
           /\ e \in Saved /\ e.id = w.id /\ e.state = mach.state /\ e.log = mach.log
           /\ e.specs = w.specs /\ e.impl = w.impl
  BY DEF Entry, Saved, WorkUnit, Machine

\* What persistState makes of the directory.
LEMMA PersistFiles ==
    ASSUME NEW d \in Seq(Saved), NEW w \in Unit, NEW mach \in Machine
    PROVE  LET r == persistState(d, w, mach) IN
           /\ r \in Seq(Saved)
           /\ w = NoTask => r = d
           /\ w # NoTask => /\ r # <<>> /\ Last(r) = Entry(w, mach)
                            /\ Files(r) \subseteq Files(d) \cup {Entry(w, mach)}
           /\ Unique(d) => Unique(r)
<1>1. CASE w = NoTask
  BY <1>1 DEF persistState
<1>2. CASE w # NoTask
  <2> DEFINE k == DeleteTaskState(d, w.id)
             e == Entry(w, mach)
  <2>1. persistState(d, w, mach) = Append(k, e)
    BY <1>2 DEF persistState
  <2>2. e \in Saved /\ e.id = w.id
    BY <1>2, EntryType, UnitId
  <2>3. /\ k \in Seq(Saved) /\ Files(k) \subseteq Files(d)
        /\ Unique(d) => Unique(k) /\ \A f \in Files(k) : f.id # w.id
    BY DeleteFiles
  <2> HIDE DEF k, e
  <2>4. /\ Append(k, e) \in Seq(Saved) /\ Append(k, e) # <<>> /\ Last(Append(k, e)) = e
        /\ Files(Append(k, e)) = Files(k) \cup {e}
        /\ Unique(k) /\ (\A f \in Files(k) : f.id # e.id) => Unique(Append(k, e))
    BY <2>2, <2>3, AppendFiles
  <2> USE DEF e
  <2> QED BY <1>2, <2>1, <2>2, <2>3, <2>4
<1> QED BY <1>1, <1>2

\* What LoadState makes of it after a restart.
LEMMA LoadSays ==
    ASSUME NEW d \in Seq(Saved), LoadState(d)
    PROVE  /\ disk' = d /\ wu' \in Unit /\ m' \in Machine
           /\ m'.prior = "" /\ (m'.state \in Active => m'.interrupted)
           /\ d = <<>> => wu' = NoTask /\ m'.state = "none"
           /\ d # <<>> => /\ Last(d) \in Files(d) /\ Last(d) \in Saved
                          /\ wu' \in WorkUnit /\ wu'.id = Last(d).id /\ wu'.specs = Last(d).specs
                          /\ wu'.impl = Last(d).impl /\ wu'.pr = FALSE
                          /\ m'.state = Last(d).state /\ m'.log = Last(d).log
<1>1. CASE d = <<>>
  <2>1. m' = NewMachine /\ wu' = NoTask /\ disk' = d
    BY <1>1 DEF LoadState
  <2>2. NewMachine \in Machine
    BY DEF NewMachine, Machine, Prior, State
  <2>3. NewMachine.prior = "" /\ NewMachine.state = "none" /\ "none" \notin Active
    BY DEF NewMachine, Active, InProgress
  <2> QED BY <1>1, <2>1, <2>2, <2>3 DEF Unit
<1>2. CASE d # <<>>
  <2> DEFINE e == Last(d)
             b == e.state \in Active
  <2>1. Len(d) \in DOMAIN d /\ e = d[Len(d)]
    BY <1>2 DEF Last
  <2>2. e \in Files(d)
    BY <2>1 DEF Files
  <2>3. e \in Saved
    BY <1>2 DEF Last
  <2>4. /\ disk' = d
        /\ wu' = [id |-> e.id, specs |-> e.specs, impl |-> e.impl, gate |-> e.gate, pr |-> FALSE]
        /\ m' = [NewMachine EXCEPT !.state = e.state, !.log = e.log, !.interrupted = b]
    BY <1>2 DEF LoadState
  <2>5. b \in BOOLEAN /\ FALSE \in BOOLEAN
    OBVIOUS
  <2>6. b <=> e.state \in Active
    OBVIOUS
  <2> HIDE DEF e, b
  <2>7. wu' \in WorkUnit /\ wu'.id = e.id /\ wu'.specs = e.specs /\ wu'.impl = e.impl /\ wu'.pr = FALSE
    BY <2>3, <2>4, <2>5 DEF Saved, WorkUnit
  <2>8. /\ m' \in Machine /\ m'.prior = "" /\ m'.state = e.state /\ m'.log = e.log
    BY <2>3, <2>4, <2>5 DEF Saved, Machine, NewMachine, Prior
  <2>9. m'.interrupted = b
    BY <2>4 DEF NewMachine
  <2> QED BY <1>2, <2>2, <2>3, <2>4, <2>6, <2>7, <2>8, <2>9 DEF e, Unit
<1> QED BY <1>1, <1>2

-----------------------------------------------------------------------------
(* Types.                                                                  *)

Thread == [pc : PCs, op : Ops, live : BOOLEAN, task : Tasks \cup {None}]

\* The parts of TypeOK.
WorkType == m \in Machine /\ wu \in Unit /\ disk \in Seq(Saved)
ThrType == thr \in [Threads -> Thread]
RestType ==
  /\ active \in Runs \cup {None} /\ mu \in Threads \cup {None}
  /\ tries \in [Phases -> Nat] /\ iters \in [Phases -> Nat]
  /\ gateCh \in {"nil", "open", "closed"}
  /\ queue \in Seq(Tasks) /\ prs \in [Tasks -> 0..2] /\ crashes \in 0..MaxCrashes
  /\ fate \in [Tasks -> {"new", "queued", "starting", "current", "finished", "gone", "dropped"}]

LEMMA TypeParts == TypeOK <=> WorkType /\ ThrType /\ RestType
  BY DEF TypeOK, WorkType, ThrType, RestType, Machine, Prior, Unit, Thread

\* A change of the work unit and the machine keeps the types, saved or not.
LEMMA CommitType ==
    ASSUME WorkType, NEW w \in Unit, NEW mach \in Machine, Commit(w, mach) \/ Assign(w, mach)
    PROVE  WorkType'
<1>1. persistState(disk, w, mach) \in Seq(Saved)
  BY PersistFiles DEF WorkType
<1> QED BY <1>1 DEF WorkType, Commit, Assign

\* Whatever the event, Dispatch gives a machine, and so does what precedes it.
LEMMA MachineTypes ==
    ASSUME m \in Machine
    PROVE  /\ \A e, f : Dispatch(m, e, f) \in Machine
           /\ \A e, f : Dispatch(ClearPriorStableState(m), e, f) \in Machine
           /\ ClearPriorStableState(m) \in Machine /\ SetPriorStableState(m, m.state) \in Machine
           /\ ResetMachine(m) \in Machine
<1>1. m.state \in State
  BY DEF Machine
<1>2. ClearPriorStableState(m) \in Machine /\ SetPriorStableState(m, m.state) \in Machine
  BY <1>1, PriorType
<1>3. ResetMachine(m) \in Machine
  BY ResetMachineType
<1>4. /\ \A e, f : Dispatch(m, e, f) \in Machine
      /\ \A e, f : Dispatch(ClearPriorStableState(m), e, f) \in Machine
  BY <1>2, DispatchType, Zenon
<1> QED BY <1>2, <1>3, <1>4

LEMMA NextWork ==
    ASSUME WorkType, [Next]_vars
    PROVE  WorkType'
<1> USE DEF work, counts, env
<1>0. /\ \A e, f : Dispatch(m, e, f) \in Machine
      /\ \A e, f : Dispatch(ClearPriorStableState(m), e, f) \in Machine
      /\ ClearPriorStableState(m) \in Machine /\ SetPriorStableState(m, m.state) \in Machine
      /\ ResetMachine(m) \in Machine
  BY MachineTypes DEF WorkType
<1>1. ASSUME NEW t \in Threads, Refused(t) \/ StreamClosed(t) \/ SelfCall(t) \/ GuardrailsPass(t) \/
      CompletedNoTask(t) \/ Failed(t) \/ Iterate(t) \/ PolicyRetry(t) \/ PolicyFail(t) \/
      SpawnGate(t) \/ SubmitGate(t) \/ SubmitWaited(t) \/ NetworkFails(t) \/ NetworkDone(t) PROVE
      WorkType'
  BY <1>1, <1>0 DEF Refused, WorkType, StreamClosed, SelfCall, checkApproval, GuardrailsPass,
     CompletedNoTask, Failed, Iterate, PolicyRetry, PolicyFail, SpawnGate, Rouse, SubmitGate,
     Wedge, Proceed, SubmitWaited, NetworkFails, NetworkDone
<1>2. ASSUME NEW id \in Tasks, QueueTask(id) \/ DequeueTask(id) PROVE WorkType'
  BY <1>2, <1>0 DEF QueueTask, Handler, WorkType, DequeueTask
<1>3. ASSUME NEW t \in Threads, RecordPrior(t) PROVE WorkType'
  <2>1. m' \in Machine /\ disk' = disk
    BY <1>3, <1>0 DEF RecordPrior, WorkType
  <2>2. wu # NoTask => [wu EXCEPT !.gate = "nil"] \in WorkUnit
    BY UnitGate, UnitId DEF WorkType, Gates
  <2>3. wu' = wu \/ wu' = IF wu = NoTask THEN wu ELSE [wu EXCEPT !.gate = "nil"]
    BY <1>3 DEF RecordPrior, resetPhaseState
  <2> QED BY <2>1, <2>2, <2>3 DEF WorkType, Unit
<1>4. ASSUME NEW t \in Threads, EnterRejected(t) PROVE WorkType'
  BY <1>4, <1>0 DEF EnterRejected, WorkType
<1>5. ASSUME NEW t \in Threads, EnterPhase(t) PROVE WorkType'
  BY <1>5, <1>0, CommitType DEF EnterPhase, WorkType, Handler
<1>6. ASSUME NEW t \in Threads, EnterReview(t) PROVE WorkType'
  BY <1>6, <1>0, CommitType DEF EnterReview, WorkType, Handler
<1>7. ASSUME NEW t \in Threads, GuardrailsFail(t) PROVE WorkType'
  BY <1>7, <1>0, CommitType DEF GuardrailsFail, WorkType, Handler
<1>8. ASSUME NEW t \in Threads, LaunchNil(t) PROVE WorkType'
  <2>1. CASE UNCHANGED work
    BY <2>1 DEF WorkType
  <2>2. CASE LoadState(disk)
    BY <2>2, LoadSays DEF WorkType
  <2> QED BY <1>8, <2>1, <2>2 DEF LaunchNil, Restart
<1>9. ASSUME NEW t \in Threads, SubmitJobFails(t) PROVE WorkType'
  BY <1>9, <1>0, CommitType DEF SubmitJobFails, WorkType, Handler
<1>10. ASSUME NEW t \in Threads, Launch(t) PROVE WorkType'
  BY <1>10, <1>0, CommitType DEF Launch, WorkType, Handler
<1>11. ASSUME NEW t \in Threads, FixRefused(t) PROVE WorkType'
  BY <1>11, <1>0, CommitType DEF FixRefused, WorkType, Handler
<1>12. ASSUME NEW t \in Threads, FixStarted(t) PROVE WorkType'
  <2>1. UNCHANGED work \/ Commit(wu, m)
    BY <1>12 DEF FixStarted
  <2> QED BY <2>1, CommitType DEF WorkType
<1>13. ASSUME NEW t \in Threads, NoSpecification(t) PROVE WorkType'
  BY <1>13, <1>0, CommitType DEF NoSpecification, WorkType, Handler
<1>14. ASSUME NEW t \in Threads, Completed(t) PROVE WorkType'
  <2> DEFINE b == wu.specs \/ thr[t].op = "plan"
  <2>1. b \in BOOLEAN /\ wu \in WorkUnit
    BY <1>14, UnitId DEF Completed, WorkType
  <2>2. Assign([wu EXCEPT !.specs = b], m)
    BY <1>14 DEF Completed
  <2> HIDE DEF b
  <2>3. [wu EXCEPT !.specs = b] \in Unit
    BY <2>1, UnitFlags DEF Unit
  <2> QED BY <2>2, <2>3, CommitType DEF WorkType
<1>15. ASSUME NEW t \in Threads, Accept(t) PROVE WorkType'
  BY <1>15, <1>0, CommitType DEF Accept, WorkType, Handler
<1>16. ASSUME NEW t \in Threads, FinalizeNil(t) PROVE WorkType'
  <2>1. PICK d \in Seq(Saved) : LoadState(d)
    BY <1>16, PersistFiles, UnitGate DEF FinalizeNil, Restart, WorkType
  <2> QED BY <2>1, LoadSays DEF WorkType
<1>17. ASSUME NEW t \in Threads, Finalize(t) PROVE WorkType'
  <2> DEFINE op == thr[t].op
             w == IF op = "implement" THEN [wu EXCEPT !.impl = TRUE] ELSE wu
  <2>1. w \in Unit
    BY <1>17, UnitFlags, UnitId, TRUE \in BOOLEAN DEF Finalize, WorkType, Unit
  <2>2. Commit(w, Dispatch(ClearPriorStableState(m), Completion[op], Facts(w)))
    BY <1>17 DEF Finalize
  <2> HIDE DEF w
  <2> QED BY <1>0, <2>1, <2>2, CommitType
<1>18. ASSUME NEW t \in Threads, PolicySkip(t) PROVE WorkType'
  BY <1>18, <1>0, CommitType DEF PolicySkip, WorkType, Handler
<1>19. ASSUME NEW t \in Threads, JobErrored(t) PROVE WorkType'
  BY <1>19, <1>0, CommitType DEF JobErrored, WorkType, Handler
<1>20. ASSUME NEW t \in Threads, GateDone(t) PROVE WorkType'
  <2>1. CASE wu = NoTask
    BY <1>20, <2>1 DEF GateDone, WorkType
  <2>2. CASE wu # NoTask
    <3>1. PICK verdict \in {"pass", "fail"} : Commit([wu EXCEPT !.gate = verdict], m)
      BY <1>20, <2>2 DEF GateDone
    <3>2. [wu EXCEPT !.gate = verdict] \in Unit
      BY <2>2, UnitGate, UnitId DEF WorkType, Unit, Gates
    <3> QED BY <3>1, <3>2, CommitType DEF WorkType
  <2> QED BY <2>1, <2>2
<1>21. ASSUME NEW t \in Threads, GateDoubleClose(t) PROVE WorkType'
  <2>1. wu # NoTask => [wu EXCEPT !.gate = "fail"] \in WorkUnit
    BY UnitGate, UnitId DEF WorkType, Gates
  <2>2. persistState(disk, [wu EXCEPT !.gate = "fail"], m) \in Seq(Saved) \/ wu = NoTask
    BY <2>1, PersistFiles DEF WorkType, Unit
  <2> DEFINE d == IF wu = NoTask THEN disk ELSE persistState(disk, [wu EXCEPT !.gate = "fail"], m)
  <2>3. LoadState(d) /\ d \in Seq(Saved)
    BY <1>21, <2>2 DEF GateDoubleClose, Restart, WorkType
  <2> HIDE DEF d
  <2> QED BY <2>3, LoadSays DEF WorkType
<1>22. ASSUME NEW t \in Threads, SubmitGateDone(t) PROVE WorkType'
  <2>1. CASE UNCHANGED work
    BY <2>1 DEF WorkType
  <2>2. CASE wu # NoTask /\ Assign([wu EXCEPT !.gate = "pass"], m)
    <3>1. [wu EXCEPT !.gate = "pass"] \in Unit
      BY <2>2, UnitGate, UnitId DEF WorkType, Unit, Gates
    <3> QED BY <2>2, <3>1, CommitType DEF WorkType
  <2> QED BY <1>22, <2>1, <2>2 DEF SubmitGateDone
<1>23. ASSUME NEW t \in Threads, SubmitDispatch(t) PROVE WorkType'
  BY <1>23, <1>0, CommitType DEF SubmitDispatch, WorkType, Handler
<1>24. ASSUME NEW t \in Threads, SubmitStore(t) PROVE WorkType'
  <2>1. CASE UNCHANGED work
    BY <2>1 DEF WorkType
  <2>2. ASSUME NEW b \in BOOLEAN, wu # NoTask, Commit([wu EXCEPT !.pr = b], m) PROVE WorkType'
    <3>1. [wu EXCEPT !.pr = b] \in Unit
      BY <2>2, UnitFlags, UnitId DEF WorkType, Unit
    <3> QED BY <2>2, <3>1, CommitType DEF WorkType
  <2>3. (wu.pr \/ thr[t].task \in Publishes \cup {None}) \in BOOLEAN
    OBVIOUS
  <2> QED BY <1>24, <2>1, <2>2, <2>3 DEF SubmitStore
<1>25. ASSUME NEW t \in Clients, NEW op \in Phases \cup Reviews \cup {"submit"}, Request(t, op)
      PROVE WorkType'
  BY <1>25, <1>0 DEF Request, checkApproval, WorkType
<1>26. ASSUME NEW id \in Tasks, Start(id) PROVE WorkType'
  <2> DEFINE w == NewWorkUnit(id)
  <2>1. w \in Unit
    BY NewUnit DEF Unit
  <2>2. Commit(w, Dispatch(m, "start", Facts(w))) \/ Assign(w, m)
    BY <1>26 DEF Start, StartWork
  <2> HIDE DEF w
  <2> QED BY <1>0, <2>1, <2>2, CommitType DEF WorkType
<1>27. ASSUME NEW id \in Tasks, StartQueued(id) PROVE WorkType'
  <2> DEFINE w == NewWorkUnit(id)
  <2>1. w \in Unit
    BY NewUnit DEF Unit
  <2>2. UNCHANGED work \/ Commit(w, Dispatch(m, "start", Facts(w))) \/ Assign(w, m)
    BY <1>27 DEF StartQueued, StartWork
  <2> HIDE DEF w
  <2> QED BY <1>0, <2>1, <2>2, CommitType DEF WorkType
<1>28. ASSUME NEW id \in Tasks, NEW position \in DOMAIN queue, ReorderQueue(id, position) PROVE
      WorkType'
  BY <1>28, <1>0 DEF ReorderQueue, Handler, WorkType
<1>29. CASE Stop
  BY <1>29, <1>0, CommitType DEF Stop, WorkType, Handler
<1>30. CASE Abort
  BY <1>30, <1>0, CommitType DEF Abort, WorkType, Handler
<1>31. CASE Reset
  BY <1>31, <1>0, CommitType DEF Reset, WorkType, Handler
<1>32. CASE UpdateTask
  <2>1. [wu EXCEPT !.specs = TRUE] \in Unit
    BY <1>32, UnitFlags, UnitId, TRUE \in BOOLEAN DEF UpdateTask, WorkType, Unit
  <2> QED BY <1>32, <2>1, CommitType DEF UpdateTask, WorkType
<1>33. CASE Abandon
  <2>1. DeleteTaskState(disk, wu.id) \in Seq(Saved)
    BY DeleteFiles DEF WorkType
  <2> QED BY <1>33, <1>0, <2>1 DEF Abandon, Discard, WorkType, Unit
<1>34. CASE Delete
  <2>1. DeleteTaskState(disk, wu.id) \in Seq(Saved)
    BY DeleteFiles DEF WorkType
  <2> QED BY <1>34, <1>0, <2>1 DEF Delete, Discard, WorkType, Unit
<1>35. CASE Crash
  <2>1. PICK d \in Seq(Saved) : LoadState(d)
    BY <1>35, PersistFiles, UnitGate DEF Crash, Restart, WorkType
  <2> QED BY <2>1, LoadSays DEF WorkType
<1>36. ASSUME NEW force \in BOOLEAN, Finish(force) PROVE WorkType'
  <2>1. m' \in Machine /\ wu' = NoTask /\ disk' = disk
    BY <1>36, <1>0 DEF Finish, persistState
  <2> QED BY <2>1 DEF WorkType, Unit
<1>37. CASE UNCHANGED vars
  BY <1>37, <1>0 DEF vars, WorkType
<1> QED
  BY <1>1, <1>2, <1>3, <1>4, <1>5, <1>6, <1>7, <1>8, <1>9, <1>10, <1>11, <1>12, <1>13, <1>14, <1>15,
     <1>16, <1>17, <1>18, <1>19, <1>20, <1>21, <1>22, <1>23, <1>24, <1>25, <1>26, <1>27, <1>28,
     <1>29, <1>30, <1>31, <1>32, <1>33, <1>34, <1>35, <1>36, <1>37 DEF Next, ClientStep,
     ThreadStep, Begin, Enter, Observe, Decide, Gate, Submit

\* The records a thread may become.
LEMMA ThreadRecords ==
    /\ Idle \in Thread /\ Idle.pc = "idle" /\ Idle.op = ""
    /\ [Idle EXCEPT !.pc = "gate"] \in Thread
    /\ [Idle EXCEPT !.pc = "gate"].pc = "gate" /\ [Idle EXCEPT !.pc = "gate"].op = ""
    /\ \A op \in Ops : Call(op) \in Thread /\ Call(op).pc = "call" /\ Call(op).op = op
    /\ \A op \in Ops, id \in Tasks \cup {None} :
         Watch(op, id) \in Thread /\ Watch(op, id).pc = "watch" /\ Watch(op, id).op = op
    /\ \A op \in Ops, pc \in {"risk", "hooks"} :
         LET r == [Idle EXCEPT !.pc = pc, !.op = op] IN r \in Thread /\ r.pc = pc /\ r.op = op
<1>1. FALSE \in BOOLEAN /\ TRUE \in BOOLEAN /\ None \in Tasks \cup {None} /\ "" \in Ops
  BY DEF Ops
<1>2. {"idle", "gate", "call", "risk", "hooks", "watch"} \subseteq PCs
  BY DEF PCs
<1> QED BY <1>1, <1>2 DEF Idle, Thread, Call, Watch

LEMMA CallRecord ==
    ASSUME NEW op \in Ops
    PROVE  Call(op) \in Thread /\ Call(op).pc = "call" /\ Call(op).op = op
  BY ThreadRecords

LEMMA WatchRecord ==
    ASSUME NEW op \in Ops, NEW id \in Tasks \cup {None}
    PROVE  Watch(op, id) \in Thread /\ Watch(op, id).pc = "watch" /\ Watch(op, id).op = op
  BY ThreadRecords, ZenonT(40)

\* What auto-advance makes of a goroutine whose phase is over.
LEMMA AutoAdvanceType ==
    ASSUME NEW op \in Phases
    PROVE  /\ AutoAdvanceTo(op) \in Thread /\ AutoAdvanceTo(op).pc \in {"idle", "call"}
           /\ AutoAdvanceTo(op).op # "submit"
<1> DEFINE S == {"implement", "simplify", "optimize", "review"}
           c == Candidates[op]
           I == {i \in 1..Len(c) : c[i] \notin SkipPhases}
           first == SelectInSeq(c, LAMBDA p : p \notin SkipPhases)
<1>1. c \in Seq(S)
  <2>1. CASE op = "plan"
    BY <2>1 DEF Candidates
  <2>2. CASE op = "implement"
    BY <2>2 DEF Candidates
  <2>3. CASE op = "simplify"
    BY <2>3 DEF Candidates
  <2>4. CASE op = "optimize"
    BY <2>4 DEF Candidates
  <2> QED BY <2>1, <2>2, <2>3, <2>4 DEF Phases
<1>2. first # 0 => first \in 1..Len(c)
  <2>1. I \in SUBSET Nat
    BY <1>1
  <2>2. I # {} => Min(I) \in I
    BY <2>1, MinIn
  <2>3. first = IF I # {} THEN Min(I) ELSE 0
    BY DEF SelectInSeq
  <2> QED BY <2>2, <2>3
<1>3. AutoAdvanceTo(op) = IF AutoAdvance /\ first # 0 THEN Call(c[first]) ELSE Idle
  BY DEF AutoAdvanceTo
<1> HIDE DEF c, first
<1>4. first # 0 => c[first] \in S
  BY <1>1, <1>2
<1>5. S \subseteq Ops /\ "submit" \notin S
  BY DEF Ops, Phases, Reviews
<1>6. CASE AutoAdvance /\ first # 0
  <2> DEFINE o == c[first]
  <2>1. o \in Ops /\ o # "submit" /\ AutoAdvanceTo(op) = Call(o)
    BY <1>3, <1>4, <1>5, <1>6
  <2> HIDE DEF o
  <2> QED BY <2>1, CallRecord
<1>7. CASE ~(AutoAdvance /\ first # 0)
  BY <1>3, <1>7, ThreadRecords
<1> QED BY <1>6, <1>7

-----------------------------------------------------------------------------
(* What each action does to the threads and to c.mu.                       *)

\* A thread that is left alone, or that the gate's channel wakes.
Kept(u) ==
  /\ thr'[u].op = thr[u].op /\ thr'[u].task = thr[u].task
  /\ \/ thr'[u].pc = thr[u].pc
     \/ thr[u].pc = "waitgate" /\ thr'[u].pc \in {"orphaned", "gated"}

\* Thread t goes to one of the places P, with its operation or at the end of it.
Moved(t, P) ==
  /\ ThrType'
  /\ thr'[t].pc \in P
  /\ \/ thr'[t].op = thr[t].op
     \/ thr'[t].pc \in {"idle", "call", "gate"} /\ thr'[t].op # "submit"
  /\ \A u \in Threads \ {t} : Kept(u)

\* Thread t starts a goroutine that is at q for the operation o, and goes to p
\* unless it is that goroutine.
Handed(t, p, q, o) ==
  /\ ThrType'
  /\ \E r \in Runs :
       /\ r = t \/ thr[r].pc = "idle"
       /\ thr'[r].pc = q /\ thr'[r].op = o
       /\ r # t => thr'[t].pc = p /\ thr'[t].op \in {"", thr[t].op}
       /\ \A u \in Threads \ {t, r} : Kept(u)

\* Every thread is gone.
AllIdle == ThrType' /\ mu' = None /\ \A u \in Threads : thr'[u].pc = "idle" /\ thr'[u].op = ""

LEMMA SetMoves ==
    ASSUME ThrType, NEW t \in Threads, NEW r \in Thread, thr' = [thr EXCEPT ![t] = r]
    PROVE  ThrType' /\ thr'[t] = r /\ \A u \in Threads \ {t} : Kept(u)
  BY DEF ThrType, Kept

LEMMA ReturnMoves ==
    ASSUME ThrType, NEW t \in Threads, Return(t)
    PROVE  Moved(t, {"idle"})
<1>1. ThrType' /\ thr'[t] = Idle /\ \A u \in Threads \ {t} : Kept(u)
  BY SetMoves, ThreadRecords DEF Return
<1> QED BY <1>1, ThreadRecords DEF Moved

LEMMA GotoMoves ==
    ASSUME ThrType, NEW t \in Threads, NEW pc \in PCs, Goto(t, pc)
    PROVE  Moved(t, {pc}) /\ thr'[t].task = thr[t].task /\ thr'[t].op = thr[t].op
<1> DEFINE r == [thr[t] EXCEPT !.pc = pc]
<1>1. r \in Thread /\ r.pc = pc /\ r.op = thr[t].op /\ r.task = thr[t].task
  BY DEF ThrType, Thread
<1>2. thr' = [thr EXCEPT ![t] = r]
  BY DEF Goto
<1> HIDE DEF r
<1>3. ThrType' /\ thr'[t] = r /\ \A u \in Threads \ {t} : Kept(u)
  BY <1>1, <1>2, SetMoves
<1> QED BY <1>1, <1>3 DEF Moved

\* Waking who waits for the gate.
LEMMA RouseMoves ==
    ASSUME NEW f \in [Threads -> Thread], NEW pc \in {"orphaned", "gated"}
    PROVE  /\ Rouse(f, pc) \in [Threads -> Thread]
           /\ \A u \in Threads : /\ Rouse(f, pc)[u].op = f[u].op /\ Rouse(f, pc)[u].task = f[u].task
                                 /\ f[u].pc # "waitgate" => Rouse(f, pc)[u] = f[u]
                                 /\ f[u].pc = "waitgate" => Rouse(f, pc)[u].pc = pc
<1>1. \A u \in Threads : [f[u] EXCEPT !.pc = pc] \in Thread
  BY DEF Thread, PCs
<1>2. \A u \in Threads : /\ [f[u] EXCEPT !.pc = pc].op = f[u].op
                         /\ [f[u] EXCEPT !.pc = pc].task = f[u].task
                         /\ [f[u] EXCEPT !.pc = pc].pc = pc
  BY DEF Thread
<1> QED BY <1>1, <1>2 DEF Rouse

\* The same, starting a goroutine.
LEMMA HandMoves ==
    ASSUME ThrType, NEW t \in Threads, NEW r \in Runs, r = t \/ thr[r].pc = "idle",
           NEW x \in Thread, NEW y \in Thread, thr' = [thr EXCEPT ![t] = x, ![r] = y]
    PROVE  /\ ThrType' /\ thr'[r] = y /\ (r # t => thr'[t] = x)
           /\ \A u \in Threads \ {t, r} : Kept(u)
<1>1. r \in Threads
  BY DEF Threads
<1> QED BY <1>1 DEF ThrType, Kept

\* Starting again leaves nobody.
LEMMA RestartMoves ==
    ASSUME NEW d, Restart(d)
    PROVE  AllIdle
<1>1. \A u \in Threads : thr'[u] = Idle
  BY DEF Restart
<1>2. thr' \in [Threads -> Thread]
  BY ThreadRecords DEF Restart
<1> QED BY <1>1, <1>2, ThreadRecords DEF AllIdle, ThrType, Restart

\* Calling a handler.
LEMMA CallMoves ==
    ASSUME ThrType, NEW t \in Threads, NEW op \in Ops, checkApproval(t, op)
    PROVE  /\ ThrType' /\ thr'[t].pc \in {"risk", "hooks"} /\ thr'[t].op = op
           /\ mu' \in {t, None}
           /\ \A u \in Threads \ {t} : Kept(u)
<1> DEFINE pc == IF RiskBased /\ op \in {"plan", "implement", "submit"} THEN "risk" ELSE "hooks"
           r == [Idle EXCEPT !.pc = pc, !.op = op]
<1>1. pc \in {"risk", "hooks"} /\ thr' = [thr EXCEPT ![t] = r] /\ mu' \in {t, None}
  BY DEF checkApproval
<1> HIDE DEF pc
<1>2. r \in Thread /\ r.pc = pc /\ r.op = op
  BY <1>1, ThreadRecords, ZenonT(40)
<1> HIDE DEF r
<1>3. ThrType' /\ thr'[t] = r /\ \A u \in Threads \ {t} : Kept(u)
  BY <1>1, <1>2, SetMoves
<1> QED BY <1>1, <1>2, <1>3

\* The last check of Submit.
LEMMA ProceedNetwork ==
    ASSUME NEW t \in Threads, NEW f \in [Threads -> Thread], NEW w \in Unit, w # NoTask, Proceed(t, f, w)
    PROVE  \E r \in Thread :
             /\ thr' = [f EXCEPT ![t] = r]
             /\ \/ r.pc = "idle" /\ r.op = ""
                \/ /\ r.pc = "network" /\ r.op = f[t].op /\ r.task = IF w.pr THEN None ELSE w.id
                   /\ CanDispatch(m, "submit", Facts(w))
<1> DEFINE k == IF w.pr THEN None ELSE w.id
           r == [f[t] EXCEPT !.pc = "network", !.task = k]
           ok == CanDispatch(m, "submit", Facts(w))
<1>1. k \in Tasks \cup {None}
  BY UnitId
<1>2. thr' = [f EXCEPT ![t] = IF ok THEN r ELSE Idle]
  BY DEF Proceed
<1> HIDE DEF k, ok
<1>3. r \in Thread /\ r.pc = "network" /\ r.op = f[t].op /\ r.task = k
  BY <1>1 DEF Thread, PCs
<1> HIDE DEF r
<1>4. CASE ok
  <2>1. thr' = [f EXCEPT ![t] = r]
    BY <1>2, <1>4
  <2> QED BY <1>3, <1>4, <2>1 DEF k, ok
<1>5. CASE ~ok
  <2>1. thr' = [f EXCEPT ![t] = Idle]
    BY <1>2, <1>5
  <2>2. Idle \in Thread /\ Idle.pc = "idle" /\ Idle.op = ""
    BY ThreadRecords
  <2> QED BY <2>1, <2>2
<1> QED BY <1>4, <1>5

LEMMA ProceedMoves ==
    ASSUME NEW t \in Threads, NEW f \in [Threads -> Thread], NEW w \in Unit, w # NoTask,
           f[t] = thr[t], Proceed(t, f, w)
    PROVE  /\ ThrType' /\ thr'[t].pc \in {"idle", "network"}
           /\ (thr'[t].op = thr[t].op \/ (thr'[t].pc = "idle" /\ thr'[t].op = ""))
           /\ \A u \in Threads \ {t} : thr'[u] = f[u]
<1>1. PICK r \in Thread :
        /\ thr' = [f EXCEPT ![t] = r]
        /\ \/ r.pc = "idle" /\ r.op = ""
           \/ /\ r.pc = "network" /\ r.op = f[t].op /\ r.task = IF w.pr THEN None ELSE w.id
              /\ CanDispatch(m, "submit", Facts(w))
  BY ProceedNetwork
<1> QED BY <1>1 DEF ThrType

\* Entering an operation.
LEMMA BeginMoves ==
    ASSUME WorkType, ThrType, OpInv, NEW t \in Threads
    PROVE  /\ SelfCall(t) =>
                /\ thr[t].pc = "call"
                /\ Unlocked
                /\ Moved(t, {"idle", "risk", "hooks"})
                /\ mu' \in {t, None}
           /\ Refused(t) =>
                /\ thr[t].pc = "hooks"
                /\ (thr[t].op \in Phases => Unlocked)
                /\ Moved(t, {"idle"})
                /\ mu' = mu
           /\ RecordPrior(t) =>
                /\ thr[t].pc = "hooks"
                /\ Unlocked /\ thr[t].op \in Phases \cup Reviews
                /\ Moved(t, {"enter"})
                /\ mu' = t
           /\ EnterRejected(t) => thr[t].pc = "enter" /\ Moved(t, {"idle"}) /\ mu' = None
           /\ EnterPhase(t) =>
                /\ thr[t].pc = "enter"
                /\ thr[t].op \in Phases
                /\ Moved(t, {"guardrails", "launch"}) /\ thr'[t].op = thr[t].op
                /\ (mu' = mu \/ (mu' = None /\ thr'[t].pc = "guardrails"))
           /\ EnterReview(t) =>
                /\ thr[t].pc = "enter"
                /\ Moved(t, {"fixsubmit", "spawngate"})
                /\ mu' = None
           /\ GuardrailsFail(t) =>
                /\ thr[t].pc = "guardrails"
                /\ Unlocked
                /\ Moved(t, {"idle"})
                /\ mu' = mu
           /\ GuardrailsPass(t) =>
                /\ thr[t].pc = "guardrails"
                /\ Unlocked
                /\ Moved(t, {"launch"})
                /\ mu' = t
           /\ LaunchNil(t) =>
                /\ thr[t].pc = "launch"
                /\ wu = NoTask
                /\ (AllIdle \/ Moved(t, {"idle"}))
                /\ mu' = None
           /\ SubmitJobFails(t) => thr[t].pc = "launch" /\ Moved(t, {"idle"}) /\ mu' = None
           /\ Launch(t) =>
                /\ thr[t].pc = "launch"
                /\ Handed(t, "idle", "watch", thr[t].op)
                /\ mu' = None
           /\ FixRefused(t) =>
                /\ thr[t].pc = "fixsubmit"
                /\ Unlocked
                /\ Moved(t, {"idle"})
                /\ mu' = mu
           /\ FixStarted(t) =>
                /\ thr[t].pc = "fixsubmit"
                /\ Unlocked
                /\ (Moved(t, {"idle"}) \/ Handed(t, "spawngate", "watch", "implement"))
                /\ mu' \in {t, None}
<1>0. thr[t].pc \in Owning => thr[t].op \in Phases
  BY DEF OpInv
<1>1. ASSUME SelfCall(t)
      PROVE  /\ thr[t].pc = "call"
             /\ Unlocked
             /\ Moved(t, {"idle", "risk", "hooks"})
             /\ mu' \in {t, None}
  <2>1. CASE Return(t) /\ mu' = mu
    BY <1>1, <2>1, ReturnMoves DEF SelfCall, At, Moved, Unlocked
  <2>2. CASE checkApproval(t, thr[t].op)
    <3>1. thr[t].op \in Ops
      BY DEF ThrType, Thread
    <3>2. /\ ThrType' /\ thr'[t].pc \in {"risk", "hooks"} /\ thr'[t].op = thr[t].op
          /\ mu' \in {t, None} /\ \A u \in Threads \ {t} : Kept(u)
      BY <2>2, <3>1, CallMoves
    <3> QED BY <1>1, <3>2 DEF SelfCall, At, Moved
  <2> QED BY <1>1, <2>1, <2>2 DEF SelfCall
<1>2. ASSUME Refused(t)
      PROVE  /\ thr[t].pc = "hooks"
             /\ (thr[t].op \in Phases => Unlocked)
             /\ Moved(t, {"idle"})
             /\ mu' = mu
  BY <1>2, ReturnMoves DEF Refused, At
<1>3. ASSUME RecordPrior(t)
      PROVE  /\ thr[t].pc = "hooks"
             /\ Unlocked /\ thr[t].op \in Phases \cup Reviews
             /\ Moved(t, {"enter"})
             /\ mu' = t
  <2>1. "enter" \in PCs
    BY DEF PCs
  <2> QED BY <1>3, <2>1, GotoMoves DEF RecordPrior, At
<1>4. ASSUME EnterRejected(t) PROVE thr[t].pc = "enter" /\ Moved(t, {"idle"}) /\ mu' = None
  BY <1>4, ReturnMoves DEF EnterRejected, At
<1>5. ASSUME EnterPhase(t)
      PROVE  /\ thr[t].pc = "enter"
             /\ thr[t].op \in Phases
             /\ Moved(t, {"guardrails", "launch"}) /\ thr'[t].op = thr[t].op
             /\ (mu' = mu \/ (mu' = None /\ thr'[t].pc = "guardrails"))
  <2>0. thr[t].pc = "enter" /\ thr[t].op \in Phases
    BY <1>5 DEF EnterPhase, At
  <2>1. {"guardrails", "launch"} \subseteq PCs
    BY DEF PCs
  <2>2. CASE Goto(t, "guardrails") /\ mu' = None
    <3>1. Moved(t, {"guardrails"}) /\ thr'[t].op = thr[t].op
      BY <2>1, <2>2, GotoMoves
    <3> QED BY <2>0, <2>2, <3>1 DEF Moved
  <2>3. CASE Goto(t, "launch") /\ mu' = mu
    <3>1. Moved(t, {"launch"}) /\ thr'[t].op = thr[t].op
      BY <2>1, <2>3, GotoMoves
    <3> QED BY <2>0, <2>3, <3>1 DEF Moved
  <2> QED BY <1>5, <2>2, <2>3 DEF EnterPhase
<1>6. ASSUME EnterReview(t)
      PROVE  /\ thr[t].pc = "enter"
             /\ Moved(t, {"fixsubmit", "spawngate"})
             /\ mu' = None
  <2>1. {"fixsubmit", "spawngate"} \subseteq PCs
    BY DEF PCs
  <2>2. CASE Goto(t, "fixsubmit")
    <3>1. Moved(t, {"fixsubmit"})
      BY <2>1, <2>2, GotoMoves
    <3> QED BY <1>6, <3>1 DEF EnterReview, At, Moved
  <2>3. CASE Goto(t, "spawngate")
    <3>1. Moved(t, {"spawngate"})
      BY <2>1, <2>3, GotoMoves
    <3> QED BY <1>6, <3>1 DEF EnterReview, At, Moved
  <2> QED BY <1>6, <2>2, <2>3 DEF EnterReview
<1>7. ASSUME GuardrailsFail(t)
      PROVE  /\ thr[t].pc = "guardrails"
             /\ Unlocked
             /\ Moved(t, {"idle"})
             /\ mu' = mu
  BY <1>7, ReturnMoves DEF GuardrailsFail, At
<1>8. ASSUME GuardrailsPass(t)
      PROVE  /\ thr[t].pc = "guardrails"
             /\ Unlocked
             /\ Moved(t, {"launch"})
             /\ mu' = t
  <2>1. "launch" \in PCs
    BY DEF PCs
  <2> QED BY <1>8, <2>1, GotoMoves DEF GuardrailsPass, At
<1>9. ASSUME LaunchNil(t)
      PROVE  /\ thr[t].pc = "launch"
             /\ wu = NoTask
             /\ (AllIdle \/ Moved(t, {"idle"}))
             /\ mu' = None
  <2>1. CASE Restart(disk)
    BY <1>9, <2>1, RestartMoves DEF LaunchNil, At, Restart
  <2>2. CASE Return(t) /\ mu' = None
    BY <1>9, <2>2, ReturnMoves DEF LaunchNil, At
  <2> QED BY <1>9, <2>1, <2>2 DEF LaunchNil
<1>10. ASSUME SubmitJobFails(t) PROVE thr[t].pc = "launch" /\ Moved(t, {"idle"}) /\ mu' = None
  BY <1>10, ReturnMoves DEF SubmitJobFails, At
<1>11. ASSUME Launch(t)
      PROVE  /\ thr[t].pc = "launch"
             /\ Handed(t, "idle", "watch", thr[t].op)
             /\ mu' = None
  <2>1. PICK r \in Slots(t) : thr' = [thr EXCEPT ![t] = Idle, ![r] = Watch(thr[t].op, wu.id)]
    BY <1>11 DEF Launch
  <2>2. r \in Runs /\ (r = t \/ thr[r].pc = "idle")
    BY <2>1 DEF Slots, IdleRuns, At
  <2>3. thr[t].op \in Ops /\ wu.id \in Tasks \cup {None}
    BY <1>11, UnitId DEF Launch, ThrType, Thread, WorkType
  <2> DEFINE y == Watch(thr[t].op, wu.id)
  <2>4. y \in Thread /\ y.pc = "watch" /\ y.op = thr[t].op
    BY <2>3, WatchRecord
  <2> HIDE DEF y
  <2>8. Idle \in Thread /\ Idle.pc = "idle" /\ Idle.op = ""
    BY ThreadRecords
  <2>5. thr' = [thr EXCEPT ![t] = Idle, ![r] = y]
    BY <2>1 DEF y
  <2>6. ThrType' /\ thr'[r] = y /\ (r # t => thr'[t] = Idle) /\ \A u \in Threads \ {t, r} : Kept(u)
    BY <2>2, <2>4, <2>8, <2>5, HandMoves
  <2>7. Handed(t, "idle", "watch", thr[t].op)
    BY <2>2, <2>4, <2>8, <2>6 DEF Handed
  <2> QED BY <1>11, <2>7 DEF Launch, At
<1>12. ASSUME FixRefused(t)
      PROVE  /\ thr[t].pc = "fixsubmit"
             /\ Unlocked
             /\ Moved(t, {"idle"})
             /\ mu' = mu
  BY <1>12, ReturnMoves DEF FixRefused, At
<1>13. ASSUME FixStarted(t)
      PROVE  /\ thr[t].pc = "fixsubmit"
             /\ Unlocked
             /\ (Moved(t, {"idle"}) \/ Handed(t, "spawngate", "watch", "implement"))
             /\ mu' \in {t, None}
  <2>1. CASE wu = NoTask
    <3>1. Moved(t, {"idle"}) /\ mu' = t
      BY <1>13, <2>1, ReturnMoves DEF FixStarted, Wedge
    <3> QED BY <1>13, <3>1 DEF FixStarted, At
  <2>2. CASE wu # NoTask
    <3>1. PICK r \in IdleRuns : thr' = [thr EXCEPT ![t].pc = "spawngate", ![r] = Watch("implement", wu.id)]
      BY <1>13, <2>2 DEF FixStarted
    <3>2. r \in Runs /\ thr[r].pc = "idle"
      BY <3>1 DEF IdleRuns, At
    <3>3. "implement" \in Ops /\ wu.id \in Tasks \cup {None}
      BY <2>2, UnitId DEF Ops, Phases, WorkType
    <3> DEFINE y == Watch("implement", wu.id)
               x == [thr[t] EXCEPT !.pc = "spawngate"]
    <3>4. y \in Thread /\ y.pc = "watch" /\ y.op = "implement"
      BY <3>3, WatchRecord
    <3>5. x \in Thread /\ x.pc = "spawngate" /\ x.op = thr[t].op
      BY DEF ThrType, Thread, PCs
    <3>6. thr' = [thr EXCEPT ![t] = x, ![r] = y]
      BY <3>1
    <3> HIDE DEF x, y
    <3>7. ThrType' /\ thr'[r] = y /\ (r # t => thr'[t] = x) /\ \A u \in Threads \ {t, r} : Kept(u)
      BY <3>2, <3>4, <3>5, <3>6, HandMoves
    <3>8. Handed(t, "spawngate", "watch", "implement")
      BY <3>2, <3>4, <3>5, <3>7 DEF Handed
    <3> QED BY <1>13, <2>2, <3>8 DEF FixStarted, At, Unlocked
  <2> QED BY <2>1, <2>2
<1> QED BY <1>1, <1>2, <1>3, <1>4, <1>5, <1>6, <1>7, <1>8, <1>9, <1>10, <1>11, <1>12, <1>13

\* Watching a job.
LEMMA WatchMoves ==
    ASSUME WorkType, ThrType, OpInv, NEW t \in Threads
    PROVE  /\ StreamClosed(t) => thr[t].pc = "watch" /\ Lossy /\ Moved(t, {"idle"}) /\ mu' = mu
           /\ CompletedNoTask(t) =>
                /\ thr[t].pc = "watch"
                /\ Unlocked /\ wu = NoTask
                /\ Moved(t, {"idle", "call"})
                /\ mu' = mu
           /\ NoSpecification(t) =>
                /\ thr[t].pc = "watch"
                /\ Unlocked
                /\ Moved(t, {"idle"})
                /\ mu' = mu
           /\ Completed(t) => thr[t].pc = "watch" /\ Unlocked /\ Moved(t, {"validate"}) /\ mu' = mu
           /\ Failed(t) =>
                /\ thr[t].pc = "watch"
                /\ Unlocked
                /\ (Moved(t, {"policy"}) \/ (wu = NoTask /\ Moved(t, {"idle"})))
                /\ mu' = mu
           /\ Iterate(t) =>
                /\ thr[t].pc = "validate"
                /\ Unlocked /\ Iterative
                /\ Moved(t, {"call"})
                /\ mu' = mu
           /\ Accept(t) => thr[t].pc = "validate" /\ Unlocked /\ Moved(t, {"finalize"}) /\ mu' = mu
           /\ FinalizeNil(t) => thr[t].pc = "finalize" /\ Unlocked /\ AllIdle /\ mu' = None
           /\ Finalize(t) =>
                /\ thr[t].pc = "finalize"
                /\ Unlocked
                /\ Moved(t, {"idle", "call"})
                /\ mu' = mu
           /\ PolicyRetry(t) =>
                /\ thr[t].pc = "policy"
                /\ Unlocked /\ Policy[thr[t].op] = "retry"
                /\ Moved(t, {"idle", "call"})
                /\ mu' = mu
           /\ PolicySkip(t) =>
                /\ thr[t].pc = "policy"
                /\ Unlocked
                /\ Moved(t, {"idle", "call"})
                /\ mu' = mu
           /\ PolicyFail(t) =>
                /\ thr[t].pc = "policy"
                /\ Unlocked
                /\ Moved(t, {"errored"})
                /\ mu' = mu
           /\ JobErrored(t) => thr[t].pc = "errored" /\ Unlocked /\ Moved(t, {"idle"}) /\ mu' = mu
<1>0. thr[t].pc \in Owning => thr[t].op \in Phases
  BY DEF OpInv
<1>1. ASSUME StreamClosed(t) PROVE thr[t].pc = "watch" /\ Lossy /\ Moved(t, {"idle"}) /\ mu' = mu
  BY <1>1, ReturnMoves DEF StreamClosed, At
<1>2. ASSUME CompletedNoTask(t)
      PROVE  /\ thr[t].pc = "watch"
             /\ Unlocked /\ wu = NoTask
             /\ Moved(t, {"idle", "call"})
             /\ mu' = mu
  <2>1. PICK x \in Thread : thr' = [thr EXCEPT ![t] = x] /\ x.pc \in {"idle", "call"} /\ x.op # "submit"
    BY <1>2, <1>0, AutoAdvanceType, ThreadRecords, ZenonT(40) DEF CompletedNoTask, At, Owning
  <2>2. ThrType' /\ thr'[t] = x /\ \A u \in Threads \ {t} : Kept(u)
    BY <2>1, SetMoves
  <2>3. Moved(t, {"idle", "call"})
    BY <2>1, <2>2 DEF Moved
  <2> QED BY <1>2, <2>3 DEF CompletedNoTask, At
<1>3. ASSUME NoSpecification(t)
      PROVE  /\ thr[t].pc = "watch"
             /\ Unlocked
             /\ Moved(t, {"idle"})
             /\ mu' = mu
  BY <1>3, ReturnMoves DEF NoSpecification, At
<1>4. ASSUME Completed(t)
      PROVE  /\ thr[t].pc = "watch"
             /\ Unlocked
             /\ Moved(t, {"validate"})
             /\ mu' = mu
  <2>1. "validate" \in PCs
    BY DEF PCs
  <2> QED BY <1>4, <2>1, GotoMoves DEF Completed, At
<1>5. ASSUME Failed(t)
      PROVE  /\ thr[t].pc = "watch"
             /\ Unlocked
             /\ (Moved(t, {"policy"}) \/ (wu = NoTask /\ Moved(t, {"idle"})))
             /\ mu' = mu
  <2>0. thr[t].pc = "watch" /\ Unlocked /\ mu' = mu
    BY <1>5 DEF Failed, At
  <2>1. CASE Return(t) /\ wu = NoTask
    BY <2>0, <2>1, ReturnMoves
  <2>2. CASE Goto(t, "policy")
    <3>1. "policy" \in PCs
      BY DEF PCs
    <3>2. Moved(t, {"policy"})
      BY <2>2, <3>1, GotoMoves
    <3> QED BY <2>0, <3>2
  <2> QED BY <1>5, <2>1, <2>2 DEF Failed
<1>6. ASSUME Iterate(t)
      PROVE  /\ thr[t].pc = "validate"
             /\ Unlocked /\ Iterative
             /\ Moved(t, {"call"})
             /\ mu' = mu
  <2>1. thr[t].op \in Ops /\ thr[t].op # "submit"
    BY <1>6, <1>0 DEF Iterate, At, Owning, Ops, Phases
  <2> DEFINE x == Call(thr[t].op)
  <2>2. x \in Thread /\ x.pc = "call" /\ x.op # "submit"
    BY <2>1, CallRecord
  <2>3. thr' = [thr EXCEPT ![t] = x]
    BY <1>6 DEF Iterate
  <2> HIDE DEF x
  <2>4. ThrType' /\ thr'[t] = x /\ \A u \in Threads \ {t} : Kept(u)
    BY <2>2, <2>3, SetMoves
  <2>5. Moved(t, {"call"})
    BY <2>2, <2>4 DEF Moved
  <2> QED BY <1>6, <2>5 DEF Iterate, At
<1>7. ASSUME Accept(t)
      PROVE  /\ thr[t].pc = "validate"
             /\ Unlocked
             /\ Moved(t, {"finalize"})
             /\ mu' = mu
  <2>1. "finalize" \in PCs
    BY DEF PCs
  <2> QED BY <1>7, <2>1, GotoMoves DEF Accept, At
<1>8. ASSUME FinalizeNil(t) PROVE thr[t].pc = "finalize" /\ Unlocked /\ AllIdle /\ mu' = None
  BY <1>8, RestartMoves DEF FinalizeNil, At, Restart
<1>9. ASSUME Finalize(t)
      PROVE  /\ thr[t].pc = "finalize"
             /\ Unlocked
             /\ Moved(t, {"idle", "call"})
             /\ mu' = mu
  <2>1. PICK x \in Thread : thr' = [thr EXCEPT ![t] = x] /\ x.pc \in {"idle", "call"} /\ x.op # "submit"
    BY <1>9, <1>0, AutoAdvanceType, ThreadRecords, ZenonT(40) DEF Finalize, At, Owning
  <2>2. ThrType' /\ thr'[t] = x /\ \A u \in Threads \ {t} : Kept(u)
    BY <2>1, SetMoves
  <2>3. Moved(t, {"idle", "call"})
    BY <2>1, <2>2 DEF Moved
  <2> QED BY <1>9, <2>3 DEF Finalize, At
<1>10. ASSUME PolicyRetry(t)
      PROVE  /\ thr[t].pc = "policy"
             /\ Unlocked /\ Policy[thr[t].op] = "retry"
             /\ Moved(t, {"idle", "call"})
             /\ mu' = mu
  <2>1. thr[t].op \in Ops /\ thr[t].op # "submit"
    BY <1>10, <1>0 DEF PolicyRetry, At, Owning, Ops, Phases
  <2> DEFINE x == IF thr[t].op = "plan" THEN Idle ELSE Call(thr[t].op)
  <2>2. x \in Thread /\ x.pc \in {"idle", "call"} /\ x.op # "submit"
    <3>1. Idle \in Thread /\ Idle.pc = "idle" /\ Idle.op = ""
      BY ThreadRecords
    <3>2. Call(thr[t].op) \in Thread /\ Call(thr[t].op).pc = "call" /\ Call(thr[t].op).op = thr[t].op
      BY <2>1, CallRecord
    <3> QED BY <2>1, <3>1, <3>2
  <2>3. thr' = [thr EXCEPT ![t] = x]
    BY <1>10 DEF PolicyRetry
  <2> HIDE DEF x
  <2>4. ThrType' /\ thr'[t] = x /\ \A u \in Threads \ {t} : Kept(u)
    BY <2>2, <2>3, SetMoves
  <2>5. Moved(t, {"idle", "call"})
    BY <2>2, <2>4 DEF Moved
  <2> QED BY <1>10, <2>5 DEF PolicyRetry, At
<1>11. ASSUME PolicySkip(t)
      PROVE  /\ thr[t].pc = "policy"
             /\ Unlocked
             /\ Moved(t, {"idle", "call"})
             /\ mu' = mu
  <2>1. PICK x \in Thread : thr' = [thr EXCEPT ![t] = x] /\ x.pc \in {"idle", "call"} /\ x.op # "submit"
    BY <1>11, <1>0, AutoAdvanceType, ThreadRecords DEF PolicySkip, At, Owning
  <2>2. ThrType' /\ thr'[t] = x /\ \A u \in Threads \ {t} : Kept(u)
    BY <2>1, SetMoves
  <2>3. Moved(t, {"idle", "call"})
    BY <2>1, <2>2 DEF Moved
  <2> QED BY <1>11, <2>3 DEF PolicySkip, At
<1>12. ASSUME PolicyFail(t)
      PROVE  /\ thr[t].pc = "policy"
             /\ Unlocked
             /\ Moved(t, {"errored"})
             /\ mu' = mu
  <2>1. "errored" \in PCs
    BY DEF PCs
  <2> QED BY <1>12, <2>1, GotoMoves DEF PolicyFail, At
<1>13. ASSUME JobErrored(t)
      PROVE  /\ thr[t].pc = "errored"
             /\ Unlocked
             /\ Moved(t, {"idle"})
             /\ mu' = mu
  BY <1>13, ReturnMoves DEF JobErrored, At
<1> QED BY <1>1, <1>2, <1>3, <1>4, <1>5, <1>6, <1>7, <1>8, <1>9, <1>10, <1>11, <1>12, <1>13

\* The gate.
LEMMA GateMoves ==
    ASSUME WorkType, ThrType, OpInv, NEW t \in Threads
    PROVE  /\ SpawnGate(t) =>
                /\ thr[t].pc = "spawngate"
                /\ Unlocked
                /\ Handed(t, "idle", "gate", "")
                /\ mu' = mu
           /\ GateDone(t) => thr[t].pc = "gate" /\ Unlocked /\ Moved(t, {"idle"}) /\ mu' = mu
           /\ GateDoubleClose(t) => thr[t].pc = "gate" /\ Unlocked /\ AllIdle /\ mu' = None
<1>0. thr[t].pc \in Owning => thr[t].op \in Phases
  BY DEF OpInv
<1>1. ASSUME SpawnGate(t)
      PROVE  /\ thr[t].pc = "spawngate"
             /\ Unlocked
             /\ Handed(t, "idle", "gate", "")
             /\ mu' = mu
  <2>0. At(t, "spawngate") /\ Unlocked /\ mu' = mu
    BY <1>1 DEF SpawnGate
  <2> DEFINE y == [Idle EXCEPT !.pc = "gate"]
  <2>1. PICK r \in Slots(t) : thr' = Rouse([thr EXCEPT ![t] = Idle, ![r] = y], "orphaned")
    BY <1>1 DEF SpawnGate
  <2>2. r \in Runs /\ r \in Threads /\ (r = t \/ thr[r].pc = "idle")
    BY <2>1 DEF Slots, IdleRuns, At, Threads
  <2>3. y \in Thread /\ y.pc = "gate" /\ y.op = "" /\ Idle \in Thread /\ Idle.pc = "idle" /\ Idle.op = ""
    BY ThreadRecords
  <2> HIDE DEF y
  <2> DEFINE f == [thr EXCEPT ![t] = Idle, ![r] = y]
  <2>4. /\ f \in [Threads -> Thread] /\ f[r] = y /\ (r # t => f[t] = Idle)
        /\ \A u \in Threads \ {t, r} : f[u] = thr[u]
    BY <2>2, <2>3 DEF ThrType
  <2>5. thr' = Rouse(f, "orphaned")
    BY <2>1
  <2> HIDE DEF f
  <2>6. /\ thr' \in [Threads -> Thread]
        /\ \A u \in Threads : /\ thr'[u].op = f[u].op /\ thr'[u].task = f[u].task
                              /\ f[u].pc # "waitgate" => thr'[u] = f[u]
                              /\ f[u].pc = "waitgate" => thr'[u].pc = "orphaned"
    BY <2>4, <2>5, RouseMoves
  <2>7. \A u \in Threads \ {t, r} : Kept(u)
    BY <2>4, <2>6 DEF Kept
  <2>8. thr'[r].pc = "gate" /\ thr'[r].op = "" /\ (r # t => thr'[t].pc = "idle" /\ thr'[t].op = "")
    BY <2>2, <2>3, <2>4, <2>6
  <2>9. Handed(t, "idle", "gate", "")
    BY <2>2, <2>6, <2>7, <2>8 DEF Handed, ThrType
  <2> QED BY <2>0, <2>9 DEF At
<1>2. ASSUME GateDone(t) PROVE thr[t].pc = "gate" /\ Unlocked /\ Moved(t, {"idle"}) /\ mu' = mu
  <2> DEFINE f == [thr EXCEPT ![t] = Idle]
  <2>1. f \in [Threads -> Thread] /\ f[t] = Idle /\ \A u \in Threads \ {t} : f[u] = thr[u]
    BY ThreadRecords DEF ThrType
  <2>2. thr' = Rouse(f, "gated")
    BY <1>2 DEF GateDone
  <2> HIDE DEF f
  <2>3. /\ thr' \in [Threads -> Thread]
        /\ \A u \in Threads : /\ thr'[u].op = f[u].op /\ thr'[u].task = f[u].task
                              /\ f[u].pc # "waitgate" => thr'[u] = f[u]
                              /\ f[u].pc = "waitgate" => thr'[u].pc = "gated"
    BY <2>1, <2>2, RouseMoves
  <2>4. \A u \in Threads \ {t} : Kept(u)
    BY <2>1, <2>3 DEF Kept
  <2>5. thr'[t].pc = "idle" /\ thr'[t].op = ""
    BY <2>1, <2>3, ThreadRecords
  <2>6. Moved(t, {"idle"})
    BY <2>3, <2>4, <2>5 DEF Moved, ThrType
  <2> QED BY <1>2, <2>6 DEF GateDone, At
<1>3. ASSUME GateDoubleClose(t) PROVE thr[t].pc = "gate" /\ Unlocked /\ AllIdle /\ mu' = None
  BY <1>3, RestartMoves DEF GateDoubleClose, At, Restart
<1> QED BY <1>1, <1>2, <1>3

\* Submitting.
LEMMA SubmitMoves ==
    ASSUME WorkType, ThrType, OpInv, NEW t \in Threads
    PROVE  /\ SubmitGate(t) =>
                /\ thr[t].pc = "hooks"
                /\ Unlocked /\ thr[t].op = "submit"
                /\ Moved(t, {"idle", "network", "syncgate", "waitgate", "gated"})
                /\ mu' \in {t, None}
           /\ SubmitWaited(t) =>
                /\ thr[t].pc = "gated"
                /\ Unlocked
                /\ Moved(t, {"idle", "network"})
                /\ mu' \in {t, None}
           /\ SubmitGateDone(t) =>
                /\ thr[t].pc = "syncgate"
                /\ Unlocked
                /\ Moved(t, {"idle", "network"})
                /\ mu' \in {t, None}
           /\ NetworkFails(t) => thr[t].pc = "network" /\ Moved(t, {"idle"}) /\ mu' = mu
           /\ NetworkDone(t) =>
                /\ thr[t].pc = "network"
                /\ Moved(t, {"dispatch"}) /\ thr'[t].task = thr[t].task
                /\ mu' = mu
           /\ SubmitDispatch(t) =>
                /\ thr[t].pc = "dispatch"
                /\ Moved(t, {"store", "idle"})
                /\ mu' = mu
           /\ SubmitStore(t) => thr[t].pc = "store" /\ Unlocked /\ Moved(t, {"idle"}) /\ mu' = mu
<1>0. thr[t].pc \in Owning => thr[t].op \in Phases
  BY DEF OpInv
<1>1. ASSUME SubmitGate(t)
      PROVE  /\ thr[t].pc = "hooks"
             /\ Unlocked /\ thr[t].op = "submit"
             /\ Moved(t, {"idle", "network", "syncgate", "waitgate", "gated"})
             /\ mu' \in {t, None}
  <2>1. CASE Return(t) /\ mu' \in {t, mu}
    BY <1>1, <2>1, ReturnMoves DEF SubmitGate, At, Moved, Unlocked
  <2>2. CASE Proceed(t, thr, wu) /\ wu # NoTask /\ mu' = mu
    <3>1. /\ ThrType' /\ thr'[t].pc \in {"idle", "network"}
          /\ (thr'[t].op = thr[t].op \/ (thr'[t].pc = "idle" /\ thr'[t].op = ""))
          /\ \A u \in Threads \ {t} : thr'[u] = thr[u]
      <4>1. thr \in [Threads -> Thread] /\ wu \in Unit
        BY DEF ThrType, WorkType
      <4> QED BY <2>2, <4>1, ProceedMoves, Zenon
    <3>2. Moved(t, {"idle", "network", "syncgate", "waitgate", "gated"})
      BY <3>1 DEF Moved, Kept
    <3> QED BY <1>1, <2>2, <3>2 DEF SubmitGate, At, Unlocked
  <2>3. CASE mu' = mu /\ \E pc \in {"syncgate", "waitgate", "gated"} : Goto(t, pc)
    <3>1. PICK pc \in {"syncgate", "waitgate", "gated"} : Goto(t, pc)
      BY <2>3
    <3>2. pc \in PCs
      BY DEF PCs
    <3>3. Moved(t, {pc})
      BY <3>1, <3>2, GotoMoves
    <3> QED BY <1>1, <2>3, <3>3 DEF SubmitGate, At, Moved, Unlocked
  <2> QED BY <1>1, <2>1, <2>2, <2>3 DEF SubmitGate, Wedge
<1>2. ASSUME SubmitWaited(t)
      PROVE  /\ thr[t].pc = "gated"
             /\ Unlocked
             /\ Moved(t, {"idle", "network"})
             /\ mu' \in {t, None}
  <2>1. CASE Return(t) /\ mu' \in {t, mu}
    BY <1>2, <2>1, ReturnMoves DEF SubmitWaited, At, Moved, Unlocked
  <2>2. CASE Proceed(t, thr, wu) /\ wu # NoTask /\ mu' = mu
    <3>1. /\ ThrType' /\ thr'[t].pc \in {"idle", "network"}
          /\ (thr'[t].op = thr[t].op \/ (thr'[t].pc = "idle" /\ thr'[t].op = ""))
          /\ \A u \in Threads \ {t} : thr'[u] = thr[u]
      <4>1. thr \in [Threads -> Thread] /\ wu \in Unit
        BY DEF ThrType, WorkType
      <4> QED BY <2>2, <4>1, ProceedMoves, Zenon
    <3>2. Moved(t, {"idle", "network"})
      BY <3>1 DEF Moved, Kept
    <3> QED BY <1>2, <2>2, <3>2 DEF SubmitWaited, At, Unlocked
  <2> QED BY <1>2, <2>1, <2>2 DEF SubmitWaited, Wedge
<1>3. ASSUME SubmitGateDone(t)
      PROVE  /\ thr[t].pc = "syncgate"
             /\ Unlocked
             /\ Moved(t, {"idle", "network"})
             /\ mu' \in {t, None}
  <2>0. At(t, "syncgate") /\ Unlocked /\ mu' \in {t, mu}
    BY <1>3 DEF SubmitGateDone
  <2> DEFINE f == Rouse(thr, "gated")
  <2>1. /\ f \in [Threads -> Thread]
        /\ \A u \in Threads : /\ f[u].op = thr[u].op /\ f[u].task = thr[u].task
                              /\ thr[u].pc # "waitgate" => f[u] = thr[u]
                              /\ thr[u].pc = "waitgate" => f[u].pc = "gated"
    BY RouseMoves DEF ThrType
  <2>2. f[t] = thr[t]
    BY <2>0, <2>1 DEF At
  <2>3. thr' = [f EXCEPT ![t] = Idle] \/ \E w \in Unit \ {NoTask} : Proceed(t, f, w)
    <3>1. wu # NoTask => [wu EXCEPT !.gate = "pass"] \in Unit \ {NoTask}
      BY UnitGate, UnitId DEF WorkType, Unit, Gates
    <3> QED BY <1>3, <3>1 DEF SubmitGateDone, Assign
  <2> HIDE DEF f
  <2>4. /\ ThrType' /\ thr'[t].pc \in {"idle", "network"}
        /\ (thr'[t].op = thr[t].op \/ (thr'[t].pc = "idle" /\ thr'[t].op = ""))
        /\ \A u \in Threads \ {t} : thr'[u] = f[u]
    <3>1. CASE thr' = [f EXCEPT ![t] = Idle]
      BY <2>1, <3>1, ThreadRecords DEF ThrType
    <3>2. CASE \E w \in Unit \ {NoTask} : Proceed(t, f, w)
      BY <2>1, <2>2, <3>2, ProceedMoves, Zenon
    <3> QED BY <2>3, <3>1, <3>2
  <2>5. \A u \in Threads \ {t} : Kept(u)
    BY <2>1, <2>4 DEF Kept
  <2>6. Moved(t, {"idle", "network"})
    BY <2>4, <2>5 DEF Moved
  <2> QED BY <2>0, <2>6 DEF At, Unlocked
<1>4. ASSUME NetworkFails(t) PROVE thr[t].pc = "network" /\ Moved(t, {"idle"}) /\ mu' = mu
  BY <1>4, ReturnMoves DEF NetworkFails, At
<1>5. ASSUME NetworkDone(t)
      PROVE  /\ thr[t].pc = "network"
             /\ Moved(t, {"dispatch"}) /\ thr'[t].task = thr[t].task
             /\ mu' = mu
  <2>1. "dispatch" \in PCs
    BY DEF PCs
  <2> QED BY <1>5, <2>1, GotoMoves DEF NetworkDone, At
<1>6. ASSUME SubmitDispatch(t)
      PROVE  /\ thr[t].pc = "dispatch"
             /\ Moved(t, {"store", "idle"})
             /\ mu' = mu
  <2>1. CASE Return(t)
    BY <1>6, <2>1, ReturnMoves DEF SubmitDispatch, At, Moved
  <2>2. CASE Goto(t, "store")
    <3>1. "store" \in PCs
      BY DEF PCs
    <3>2. Moved(t, {"store"})
      BY <2>2, <3>1, GotoMoves
    <3> QED BY <1>6, <3>2 DEF SubmitDispatch, At, Moved
  <2> QED BY <1>6, <2>1, <2>2 DEF SubmitDispatch
<1>7. ASSUME SubmitStore(t) PROVE thr[t].pc = "store" /\ Unlocked /\ Moved(t, {"idle"}) /\ mu' = mu
  BY <1>7, ReturnMoves DEF SubmitStore, At
<1> QED BY <1>1, <1>2, <1>3, <1>4, <1>5, <1>6, <1>7

\* A handler called by a client, and the operations that touch no thread or
\* only cancel its job.
LEMMA ClientMoves ==
    ASSUME ThrType, RestType
    PROVE  /\ \A t \in Clients, op \in Phases \cup Reviews \cup {"submit"} : Request(t, op) =>
                /\ t \in Threads /\ thr[t].pc = "idle" /\ Unlocked /\ op \in Requests
                /\ ThrType' /\ thr'[t].pc \in {"risk", "hooks"} /\ thr'[t].op = op
                /\ mu' \in {t, None} /\ \A u \in Threads \ {t} : Kept(u)
           /\ Stop \/ Abandon => Unlocked /\ mu' = mu /\ ThrType' /\ \A u \in Threads : Kept(u)
           /\ Crash => AllIdle
<1>1. ASSUME NEW t \in Clients, NEW op \in Phases \cup Reviews \cup {"submit"}, Request(t, op)
      PROVE  /\ t \in Threads /\ thr[t].pc = "idle" /\ Unlocked /\ op \in Requests
             /\ ThrType' /\ thr'[t].pc \in {"risk", "hooks"} /\ thr'[t].op = op
             /\ mu' \in {t, None} /\ \A u \in Threads \ {t} : Kept(u)
  <2>1. t \in Threads /\ op \in Ops
    BY DEF Threads, Ops
  <2>2. Unlocked /\ op \in Requests /\ thr[t].pc = "idle" /\ checkApproval(t, op)
    BY <1>1 DEF Request, At
  <2> QED BY <2>1, <2>2, CallMoves
<1>2. ASSUME Stop PROVE Unlocked /\ mu' = mu /\ ThrType' /\ \A u \in Threads : Kept(u)
  <2>1. Unlocked /\ mu' = mu
    BY <1>2 DEF Stop, Handler
  <2>2. CASE thr' = thr
    BY <2>1, <2>2 DEF ThrType, Kept
  <2>3. CASE active \in Runs /\ thr' = [thr EXCEPT ![active].live = FALSE]
    <3> DEFINE x == [thr[active] EXCEPT !.live = FALSE]
    <3>1. active \in Threads /\ FALSE \in BOOLEAN
      BY <2>3 DEF Threads
    <3>2. x \in Thread /\ x.pc = thr[active].pc /\ x.op = thr[active].op /\ x.task = thr[active].task
      BY <3>1 DEF ThrType, Thread
    <3>3. thr' = [thr EXCEPT ![active] = x]
      BY <2>3
    <3> HIDE DEF x
    <3>4. ThrType' /\ thr'[active] = x /\ \A u \in Threads \ {active} : Kept(u)
      BY <3>1, <3>2, <3>3, SetMoves
    <3> QED BY <2>1, <3>2, <3>4 DEF Kept
  <2> QED BY <1>2, <2>2, <2>3 DEF Stop, RestType
<1>3. ASSUME Abandon PROVE Unlocked /\ mu' = mu /\ ThrType' /\ \A u \in Threads : Kept(u)
  <2>1. Unlocked /\ mu' = mu
    BY <1>3 DEF Abandon, Handler
  <2>2. \A t \in Threads : /\ [thr[t] EXCEPT !.live = FALSE] \in Thread
                           /\ [thr[t] EXCEPT !.live = FALSE].pc = thr[t].pc
                           /\ [thr[t] EXCEPT !.live = FALSE].op = thr[t].op
                           /\ [thr[t] EXCEPT !.live = FALSE].task = thr[t].task
    BY FALSE \in BOOLEAN DEF ThrType, Thread
  <2>3. thr' = [t \in Threads |-> IF t \in JobsOf(wu) THEN [thr[t] EXCEPT !.live = FALSE] ELSE thr[t]]
    BY <1>3 DEF Abandon
  <2>4. \A t \in Threads : thr'[t] = thr[t] \/ thr'[t] = [thr[t] EXCEPT !.live = FALSE]
    BY <2>3
  <2>5. ThrType'
    BY <2>2, <2>3 DEF ThrType
  <2> QED BY <2>1, <2>2, <2>4, <2>5 DEF Kept
<1>4. ASSUME Crash PROVE AllIdle
  BY <1>4, RestartMoves DEF Crash
<1> QED BY <1>1, <1>2, <1>3, <1>4

\* Every step keeps the threads well formed, and what they work for.
LEMMA NextThreads ==
    ASSUME WorkType, ThrType, RestType, OpInv, [Next]_vars
    PROVE  (ThrType /\ OpInv)'
<1>1. ASSUME NEW t \in Threads, Refused(t) PROVE (ThrType /\ OpInv)'
  BY <1>1, BeginMoves DEF Moved, Handed, AllIdle, Kept, OpInv, Owning
<1>2. ASSUME NEW t \in Threads, StreamClosed(t) PROVE (ThrType /\ OpInv)'
  BY <1>2, WatchMoves DEF Moved, Handed, AllIdle, Kept, OpInv, Owning
<1>3. ASSUME NEW t \in Threads, SelfCall(t) PROVE (ThrType /\ OpInv)'
  BY <1>3, BeginMoves DEF Moved, Handed, AllIdle, Kept, OpInv, Owning
<1>4. ASSUME NEW t \in Threads, GuardrailsPass(t) PROVE (ThrType /\ OpInv)'
  <2>1. thr[t].pc = "guardrails" /\ Moved(t, {"launch"})
    BY <1>4, BeginMoves
  <2> QED BY <2>1 DEF Moved, AllIdle, Kept, OpInv, Owning
<1>5. ASSUME NEW t \in Threads, RecordPrior(t) PROVE (ThrType /\ OpInv)'
  BY <1>5, BeginMoves DEF Moved, Handed, AllIdle, Kept, OpInv, Owning
<1>6. ASSUME NEW t \in Threads, EnterRejected(t) PROVE (ThrType /\ OpInv)'
  BY <1>6, BeginMoves DEF Moved, Handed, AllIdle, Kept, OpInv, Owning
<1>7. ASSUME NEW t \in Threads, EnterPhase(t) PROVE (ThrType /\ OpInv)'
  <2>1. thr[t].op \in Phases /\ Moved(t, {"guardrails", "launch"}) /\ thr'[t].op = thr[t].op
    BY <1>7, BeginMoves
  <2> QED BY <2>1 DEF Moved, AllIdle, Kept, OpInv, Owning
<1>8. ASSUME NEW t \in Threads, EnterReview(t) PROVE (ThrType /\ OpInv)'
  BY <1>8, BeginMoves DEF Moved, Handed, AllIdle, Kept, OpInv, Owning
<1>9. ASSUME NEW t \in Threads, GuardrailsFail(t) PROVE (ThrType /\ OpInv)'
  BY <1>9, BeginMoves DEF Moved, Handed, AllIdle, Kept, OpInv, Owning
<1>10. ASSUME NEW t \in Threads, LaunchNil(t) PROVE (ThrType /\ OpInv)'
  <2>1. AllIdle \/ Moved(t, {"idle"})
    BY <1>10, BeginMoves
  <2> QED BY <2>1 DEF Moved, AllIdle, Kept, OpInv, Owning
<1>11. ASSUME NEW t \in Threads, SubmitJobFails(t) PROVE (ThrType /\ OpInv)'
  <2>1. Moved(t, {"idle"})
    BY <1>11, BeginMoves
  <2> QED BY <2>1 DEF Moved, AllIdle, Kept, OpInv, Owning
<1>12. ASSUME NEW t \in Threads, Launch(t) PROVE (ThrType /\ OpInv)'
  <2>0. thr[t].pc = "launch" /\ Handed(t, "idle", "watch", thr[t].op)
    BY <1>12, BeginMoves
  <2>1. PICK r \in Runs :
          /\ r = t \/ thr[r].pc = "idle"
          /\ thr'[r].pc = "watch" /\ thr'[r].op = thr[t].op
          /\ r # t => thr'[t].pc = "idle" /\ thr'[t].op \in {"", thr[t].op}
          /\ \A u \in Threads \ {t, r} : Kept(u)
    BY <2>0 DEF Handed
  <2>2. ThrType'
    BY <2>0 DEF Handed
  <2> QED BY <2>0, <2>1, <2>2 DEF Kept, OpInv, Owning
<1>13. ASSUME NEW t \in Threads, FixRefused(t) PROVE (ThrType /\ OpInv)'
  BY <1>13, BeginMoves DEF Moved, Handed, AllIdle, Kept, OpInv, Owning
<1>14. ASSUME NEW t \in Threads, FixStarted(t) PROVE (ThrType /\ OpInv)'
  <2>1. CASE Moved(t, {"idle"})
    BY <2>1 DEF Moved, Kept, OpInv, Owning
  <2>2. CASE Handed(t, "spawngate", "watch", "implement")
    <3>0. thr[t].pc = "fixsubmit"
      BY <1>14, BeginMoves
    <3>1. PICK r \in Runs :
            /\ r = t \/ thr[r].pc = "idle"
            /\ thr'[r].pc = "watch" /\ thr'[r].op = "implement"
            /\ r # t => thr'[t].pc = "spawngate" /\ thr'[t].op \in {"", thr[t].op}
            /\ \A u \in Threads \ {t, r} : Kept(u)
      BY <2>2 DEF Handed
    <3>2. ThrType' /\ "implement" \in Phases
      BY <2>2 DEF Handed, Phases
    <3> QED BY <3>0, <3>1, <3>2 DEF Kept, OpInv, Owning
  <2> QED BY <1>14, <2>1, <2>2, BeginMoves
<1>15. ASSUME NEW t \in Threads, CompletedNoTask(t) PROVE (ThrType /\ OpInv)'
  BY <1>15, WatchMoves DEF Moved, Handed, AllIdle, Kept, OpInv, Owning
<1>16. ASSUME NEW t \in Threads, NoSpecification(t) PROVE (ThrType /\ OpInv)'
  BY <1>16, WatchMoves DEF Moved, Handed, AllIdle, Kept, OpInv, Owning
<1>17. ASSUME NEW t \in Threads, Completed(t) PROVE (ThrType /\ OpInv)'
  BY <1>17, WatchMoves DEF Moved, Handed, AllIdle, Kept, OpInv, Owning
<1>18. ASSUME NEW t \in Threads, Failed(t) PROVE (ThrType /\ OpInv)'
  BY <1>18, WatchMoves DEF Moved, Handed, AllIdle, Kept, OpInv, Owning
<1>19. ASSUME NEW t \in Threads, Iterate(t) PROVE (ThrType /\ OpInv)'
  BY <1>19, WatchMoves DEF Moved, Handed, AllIdle, Kept, OpInv, Owning
<1>20. ASSUME NEW t \in Threads, Accept(t) PROVE (ThrType /\ OpInv)'
  BY <1>20, WatchMoves DEF Moved, Handed, AllIdle, Kept, OpInv, Owning
<1>21. ASSUME NEW t \in Threads, FinalizeNil(t) PROVE (ThrType /\ OpInv)'
  BY <1>21, WatchMoves DEF Moved, Handed, AllIdle, Kept, OpInv, Owning
<1>22. ASSUME NEW t \in Threads, Finalize(t) PROVE (ThrType /\ OpInv)'
  BY <1>22, WatchMoves DEF Moved, Handed, AllIdle, Kept, OpInv, Owning
<1>23. ASSUME NEW t \in Threads, PolicyRetry(t) PROVE (ThrType /\ OpInv)'
  BY <1>23, WatchMoves DEF Moved, Handed, AllIdle, Kept, OpInv, Owning
<1>24. ASSUME NEW t \in Threads, PolicySkip(t) PROVE (ThrType /\ OpInv)'
  BY <1>24, WatchMoves DEF Moved, Handed, AllIdle, Kept, OpInv, Owning
<1>25. ASSUME NEW t \in Threads, PolicyFail(t) PROVE (ThrType /\ OpInv)'
  BY <1>25, WatchMoves DEF Moved, Handed, AllIdle, Kept, OpInv, Owning
<1>26. ASSUME NEW t \in Threads, JobErrored(t) PROVE (ThrType /\ OpInv)'
  BY <1>26, WatchMoves DEF Moved, Handed, AllIdle, Kept, OpInv, Owning
<1>27. ASSUME NEW t \in Threads, SpawnGate(t) PROVE (ThrType /\ OpInv)'
  BY <1>27, GateMoves, ZenonT(40) DEF Moved, Handed, AllIdle, Kept, OpInv, Owning
<1>28. ASSUME NEW t \in Threads, GateDone(t) PROVE (ThrType /\ OpInv)'
  BY <1>28, GateMoves DEF Moved, Handed, AllIdle, Kept, OpInv, Owning
<1>29. ASSUME NEW t \in Threads, GateDoubleClose(t) PROVE (ThrType /\ OpInv)'
  BY <1>29, GateMoves DEF Moved, Handed, AllIdle, Kept, OpInv, Owning
<1>30. ASSUME NEW t \in Threads, SubmitGate(t) PROVE (ThrType /\ OpInv)'
  BY <1>30, SubmitMoves DEF Moved, Handed, AllIdle, Kept, OpInv, Owning
<1>31. ASSUME NEW t \in Threads, SubmitWaited(t) PROVE (ThrType /\ OpInv)'
  BY <1>31, SubmitMoves DEF Moved, Handed, AllIdle, Kept, OpInv, Owning
<1>32. ASSUME NEW t \in Threads, SubmitGateDone(t) PROVE (ThrType /\ OpInv)'
  BY <1>32, SubmitMoves DEF Moved, Handed, AllIdle, Kept, OpInv, Owning
<1>33. ASSUME NEW t \in Threads, NetworkFails(t) PROVE (ThrType /\ OpInv)'
  BY <1>33, SubmitMoves DEF Moved, Handed, AllIdle, Kept, OpInv, Owning
<1>34. ASSUME NEW t \in Threads, NetworkDone(t) PROVE (ThrType /\ OpInv)'
  BY <1>34, SubmitMoves DEF Moved, Handed, AllIdle, Kept, OpInv, Owning
<1>35. ASSUME NEW t \in Threads, SubmitDispatch(t) PROVE (ThrType /\ OpInv)'
  BY <1>35, SubmitMoves DEF Moved, Handed, AllIdle, Kept, OpInv, Owning
<1>36. ASSUME NEW t \in Threads, SubmitStore(t) PROVE (ThrType /\ OpInv)'
  BY <1>36, SubmitMoves DEF Moved, Handed, AllIdle, Kept, OpInv, Owning
<1>37. ASSUME NEW t \in Clients, NEW op \in Phases \cup Reviews \cup {"submit"}, Request(t, op)
      PROVE (ThrType /\ OpInv)'
  BY <1>37, ClientMoves DEF Kept, OpInv, Owning
<1>38. ASSUME NEW id \in Tasks, Start(id) PROVE (ThrType /\ OpInv)'
  BY <1>38 DEF Start, Handler, ThrType, OpInv
<1>39. ASSUME NEW id \in Tasks, QueueTask(id) PROVE (ThrType /\ OpInv)'
  BY <1>39 DEF QueueTask, Handler, ThrType, OpInv
<1>40. ASSUME NEW id \in Tasks, DequeueTask(id) PROVE (ThrType /\ OpInv)'
  BY <1>40 DEF DequeueTask, Handler, ThrType, OpInv
<1>41. ASSUME NEW id \in Tasks, StartQueued(id) PROVE (ThrType /\ OpInv)'
  BY <1>41 DEF StartQueued, ThrType, OpInv
<1>42. ASSUME NEW id \in Tasks, NEW position \in DOMAIN queue, ReorderQueue(id, position) PROVE
      (ThrType /\ OpInv)'
  BY <1>42 DEF ReorderQueue, Handler, ThrType, OpInv
<1>43. CASE Stop
  BY <1>43, ClientMoves DEF Kept, OpInv, Owning
<1>44. CASE Abort
  BY <1>44 DEF Abort, Handler, ThrType, OpInv
<1>45. CASE Reset
  BY <1>45 DEF Reset, Handler, ThrType, OpInv
<1>46. CASE UpdateTask
  BY <1>46 DEF UpdateTask, Handler, ThrType, OpInv
<1>47. CASE Abandon
  BY <1>47, ClientMoves DEF Kept, OpInv, Owning
<1>48. CASE Delete
  BY <1>48 DEF Delete, Handler, Discard, ThrType, OpInv
<1>49. CASE Crash
  BY <1>49, ClientMoves DEF AllIdle, OpInv, Owning
<1>50. ASSUME NEW force \in BOOLEAN, Finish(force) PROVE (ThrType /\ OpInv)'
  BY <1>50 DEF Finish, Handler, ThrType, OpInv
<1>51. CASE UNCHANGED vars
  BY <1>51 DEF vars, ThrType, OpInv
<1> QED
  BY <1>1, <1>2, <1>3, <1>4, <1>5, <1>6, <1>7, <1>8, <1>9, <1>10, <1>11, <1>12, <1>13, <1>14, <1>15,
     <1>16, <1>17, <1>18, <1>19, <1>20, <1>21, <1>22, <1>23, <1>24, <1>25, <1>26, <1>27, <1>28,
     <1>29, <1>30, <1>31, <1>32, <1>33, <1>34, <1>35, <1>36, <1>37, <1>38, <1>39, <1>40, <1>41,
     <1>42, <1>43, <1>44, <1>45, <1>46, <1>47, <1>48, <1>49, <1>50, <1>51 DEF Next, ClientStep,
     ThreadStep, Begin, Enter, Observe, Decide, Gate, Submit

\* ReorderQueue puts the task back within the queue.
LEMMA ReorderType ==
    ASSUME NEW q \in Seq(Tasks), NEW id \in Tasks, NEW k \in DOMAIN q
    PROVE  InsertAt(RemoveFirst(q, id), k, id) \in Seq(Tasks)
<1>1. RemoveFirst(q, id) \in Seq(Tasks) /\ Len(RemoveFirst(q, id)) \in {Len(q), Len(q) - 1}
  BY RemoveFirstType
<1>2. k \in 1..Len(q) /\ Len(q) \in Nat
  OBVIOUS
<1> DEFINE r == RemoveFirst(q, id)
<1>3. r \in Seq(Tasks) /\ k \in 1..(Len(r) + 1)
  BY <1>1, <1>2
<1> HIDE DEF r
<1>4. InsertAt(r, k, id) \in Seq(Tasks)
  BY <1>3, InsertAtType
<1> QED BY <1>4 DEF r

LEMMA NextRest ==
    ASSUME WorkType, ThrType, RestType, OpInv, [Next]_vars
    PROVE  RestType'
<1> USE DEF work, counts, env
<1>1. ASSUME NEW t \in Threads, Refused(t) PROVE RestType'
  <2>1. mu' \in Threads \cup {None}
    BY <1>1, BeginMoves DEF RestType, AllIdle, Unlocked
  <2> QED BY <1>1, <2>1 DEF RestType, Refused
<1>2. ASSUME NEW t \in Threads, StreamClosed(t) PROVE RestType'
  <2>1. mu' \in Threads \cup {None}
    BY <1>2, WatchMoves DEF RestType, AllIdle, Unlocked
  <2> QED BY <1>2, <2>1 DEF RestType, StreamClosed
<1>3. ASSUME NEW t \in Threads, SelfCall(t) PROVE RestType'
  <2>1. mu' \in Threads \cup {None}
    BY <1>3, BeginMoves DEF RestType, AllIdle, Unlocked
  <2> QED BY <1>3, <2>1 DEF RestType, SelfCall
<1>4. ASSUME NEW t \in Threads, GuardrailsPass(t) PROVE RestType'
  <2>1. mu' \in Threads \cup {None}
    BY <1>4, BeginMoves DEF RestType, AllIdle, Unlocked
  <2> QED BY <1>4, <2>1 DEF RestType, GuardrailsPass
<1>5. ASSUME NEW t \in Threads, RecordPrior(t) PROVE RestType'
  <2>1. CASE thr[t].op \in Phases
    <3>1. /\ mu' = t /\ UNCHANGED <<active, gateCh, env>>
          /\ tries' = [tries EXCEPT ![thr[t].op] = 0] /\ iters' = [iters EXCEPT ![thr[t].op] = 0]
      BY <1>5, <2>1 DEF RecordPrior, resetPhaseState
    <3> QED BY <2>1, <3>1 DEF RestType
  <2>2. CASE thr[t].op \notin Phases
    BY <1>5, <2>2 DEF RecordPrior, RestType
  <2> QED BY <2>1, <2>2
<1>6. ASSUME NEW t \in Threads, EnterRejected(t) PROVE RestType'
  <2>1. mu' \in Threads \cup {None}
    BY <1>6, BeginMoves DEF RestType, AllIdle, Unlocked
  <2> QED BY <1>6, <2>1 DEF RestType, EnterRejected
<1>7. ASSUME NEW t \in Threads, EnterPhase(t) PROVE RestType'
  <2>1. mu' \in Threads \cup {None}
    BY <1>7, BeginMoves DEF RestType, AllIdle, Unlocked
  <2> QED BY <1>7, <2>1 DEF RestType, EnterPhase
<1>8. ASSUME NEW t \in Threads, EnterReview(t) PROVE RestType'
  <2>1. mu' \in Threads \cup {None}
    BY <1>8, BeginMoves DEF RestType, AllIdle, Unlocked
  <2> QED BY <1>8, <2>1 DEF RestType, EnterReview
<1>9. ASSUME NEW t \in Threads, GuardrailsFail(t) PROVE RestType'
  <2>1. mu' \in Threads \cup {None}
    BY <1>9, BeginMoves DEF RestType, AllIdle, Unlocked
  <2> QED BY <1>9, <2>1 DEF RestType, GuardrailsFail
<1>10. ASSUME NEW t \in Threads, LaunchNil(t) PROVE RestType'
  <2>1. CASE Restart(disk) /\ crashes' = crashes
    <3>1. /\ active' = None /\ mu' = None /\ gateCh' = "nil" /\ queue' = <<>> /\ prs' = prs
            /\ tries' = [p \in Phases |-> 0] /\ iters' = [p \in Phases |-> 0]
            /\ fate' = [k \in Tasks |-> IF fate[k] \in {"queued", "starting"} THEN "dropped" ELSE fate[k]]
      BY <2>1 DEF Restart
    <3> QED BY <2>1, <3>1 DEF RestType
  <2>2. CASE mu' = None /\ UNCHANGED <<work, active, counts, gateCh, env>>
    BY <2>2 DEF RestType
  <2> QED BY <1>10, <2>1, <2>2 DEF LaunchNil
<1>11. ASSUME NEW t \in Threads, SubmitJobFails(t) PROVE RestType'
  <2>1. mu' \in Threads \cup {None}
    BY <1>11, BeginMoves DEF RestType, AllIdle, Unlocked
  <2> QED BY <1>11, <2>1 DEF RestType, SubmitJobFails
<1>12. ASSUME NEW t \in Threads, Launch(t) PROVE RestType'
  <2>1. \A r \in Slots(t) : r \in Runs
    BY DEF Slots, IdleRuns
  <2>2. active' \in Runs \cup {None} /\ mu' = None
    BY <1>12, <2>1 DEF Launch, RestType
  <2> QED BY <1>12, <2>2 DEF RestType, Launch
<1>13. ASSUME NEW t \in Threads, FixRefused(t) PROVE RestType'
  <2>1. mu' \in Threads \cup {None}
    BY <1>13, BeginMoves DEF RestType, AllIdle, Unlocked
  <2> QED BY <1>13, <2>1 DEF RestType, FixRefused
<1>14. ASSUME NEW t \in Threads, FixStarted(t) PROVE RestType'
  <2>1. mu' \in Threads \cup {None}
    BY <1>14, BeginMoves DEF RestType, AllIdle, Unlocked
  <2> QED BY <1>14, <2>1 DEF RestType, FixStarted
<1>15. ASSUME NEW t \in Threads, CompletedNoTask(t) PROVE RestType'
  <2>1. mu' \in Threads \cup {None}
    BY <1>15, WatchMoves DEF RestType, AllIdle, Unlocked
  <2> QED BY <1>15, <2>1 DEF RestType, CompletedNoTask
<1>16. ASSUME NEW t \in Threads, NoSpecification(t) PROVE RestType'
  <2>1. mu' \in Threads \cup {None}
    BY <1>16, WatchMoves DEF RestType, AllIdle, Unlocked
  <2> QED BY <1>16, <2>1 DEF RestType, NoSpecification
<1>17. ASSUME NEW t \in Threads, Completed(t) PROVE RestType'
  <2>1. mu' \in Threads \cup {None}
    BY <1>17, WatchMoves DEF RestType, AllIdle, Unlocked
  <2> QED BY <1>17, <2>1 DEF RestType, Completed
<1>18. ASSUME NEW t \in Threads, Failed(t) PROVE RestType'
  <2>1. mu' \in Threads \cup {None}
    BY <1>18, WatchMoves DEF RestType, AllIdle, Unlocked
  <2> QED BY <1>18, <2>1 DEF RestType, Failed
<1>19. ASSUME NEW t \in Threads, Iterate(t) PROVE RestType'
  <2>0. thr[t].op \in Phases
    BY <1>19, WatchMoves DEF OpInv, Owning
  <2>1. mu' \in Threads \cup {None}
    BY <1>19, WatchMoves DEF RestType, AllIdle, Unlocked
  <2> QED BY <1>19, <2>0, <2>1 DEF RestType, Iterate
<1>20. ASSUME NEW t \in Threads, Accept(t) PROVE RestType'
  <2>0. thr[t].op \in Phases
    BY <1>20, WatchMoves DEF OpInv, Owning
  <2>1. mu' \in Threads \cup {None}
    BY <1>20, WatchMoves DEF RestType, AllIdle, Unlocked
  <2> QED BY <1>20, <2>0, <2>1 DEF RestType, Accept
<1>21. ASSUME NEW t \in Threads, FinalizeNil(t) PROVE RestType'
  <2>1. /\ active' = None /\ mu' = None /\ gateCh' = "nil" /\ queue' = <<>> /\ prs' = prs
          /\ tries' = [p \in Phases |-> 0] /\ iters' = [p \in Phases |-> 0]
          /\ fate' = [k \in Tasks |-> IF fate[k] \in {"queued", "starting"} THEN "dropped" ELSE fate[k]]
    BY <1>21 DEF FinalizeNil, Restart
  <2>2. crashes' \in 0..MaxCrashes
    BY <1>21, ConductorAssumption DEF FinalizeNil, RestType
  <2> QED BY <2>1, <2>2 DEF RestType
<1>22. ASSUME NEW t \in Threads, Finalize(t) PROVE RestType'
  <2>1. mu' \in Threads \cup {None}
    BY <1>22, WatchMoves DEF RestType, AllIdle, Unlocked
  <2> QED BY <1>22, <2>1 DEF RestType, Finalize
<1>23. ASSUME NEW t \in Threads, PolicyRetry(t) PROVE RestType'
  <2>0. thr[t].op \in Phases
    BY <1>23, WatchMoves DEF OpInv, Owning
  <2>1. mu' \in Threads \cup {None}
    BY <1>23, WatchMoves DEF RestType, AllIdle, Unlocked
  <2> QED BY <1>23, <2>0, <2>1 DEF RestType, PolicyRetry
<1>24. ASSUME NEW t \in Threads, PolicySkip(t) PROVE RestType'
  <2>1. mu' \in Threads \cup {None}
    BY <1>24, WatchMoves DEF RestType, AllIdle, Unlocked
  <2> QED BY <1>24, <2>1 DEF RestType, PolicySkip
<1>25. ASSUME NEW t \in Threads, PolicyFail(t) PROVE RestType'
  <2>0. thr[t].op \in Phases
    BY <1>25, WatchMoves DEF OpInv, Owning
  <2>1. mu' \in Threads \cup {None}
    BY <1>25, WatchMoves DEF RestType, AllIdle, Unlocked
  <2> QED BY <1>25, <2>0, <2>1 DEF RestType, PolicyFail
<1>26. ASSUME NEW t \in Threads, JobErrored(t) PROVE RestType'
  <2>1. mu' \in Threads \cup {None}
    BY <1>26, WatchMoves DEF RestType, AllIdle, Unlocked
  <2> QED BY <1>26, <2>1 DEF RestType, JobErrored
<1>27. ASSUME NEW t \in Threads, SpawnGate(t) PROVE RestType'
  <2>1. mu' \in Threads \cup {None}
    BY <1>27, GateMoves DEF RestType, AllIdle, Unlocked
  <2> QED BY <1>27, <2>1 DEF RestType, SpawnGate
<1>28. ASSUME NEW t \in Threads, GateDone(t) PROVE RestType'
  <2>1. mu' \in Threads \cup {None}
    BY <1>28, GateMoves DEF RestType, AllIdle, Unlocked
  <2> QED BY <1>28, <2>1 DEF RestType, GateDone
<1>29. ASSUME NEW t \in Threads, GateDoubleClose(t) PROVE RestType'
  <2>1. /\ active' = None /\ mu' = None /\ gateCh' = "nil" /\ queue' = <<>> /\ prs' = prs
          /\ tries' = [p \in Phases |-> 0] /\ iters' = [p \in Phases |-> 0]
          /\ fate' = [k \in Tasks |-> IF fate[k] \in {"queued", "starting"} THEN "dropped" ELSE fate[k]]
    BY <1>29 DEF GateDoubleClose, Restart
  <2>2. crashes' \in 0..MaxCrashes
    BY <1>29, ConductorAssumption DEF GateDoubleClose, RestType
  <2> QED BY <2>1, <2>2 DEF RestType
<1>30. ASSUME NEW t \in Threads, SubmitGate(t) PROVE RestType'
  <2>1. mu' \in Threads \cup {None}
    BY <1>30, SubmitMoves DEF RestType, AllIdle, Unlocked
  <2> QED BY <1>30, <2>1 DEF RestType, SubmitGate
<1>31. ASSUME NEW t \in Threads, SubmitWaited(t) PROVE RestType'
  <2>1. mu' \in Threads \cup {None}
    BY <1>31, SubmitMoves DEF RestType, AllIdle, Unlocked
  <2> QED BY <1>31, <2>1 DEF RestType, SubmitWaited
<1>32. ASSUME NEW t \in Threads, SubmitGateDone(t) PROVE RestType'
  <2>1. mu' \in Threads \cup {None}
    BY <1>32, SubmitMoves DEF RestType, AllIdle, Unlocked
  <2> QED BY <1>32, <2>1 DEF RestType, SubmitGateDone
<1>33. ASSUME NEW t \in Threads, NetworkFails(t) PROVE RestType'
  <2>1. mu' \in Threads \cup {None}
    BY <1>33, SubmitMoves DEF RestType, AllIdle, Unlocked
  <2> QED BY <1>33, <2>1 DEF RestType, NetworkFails
<1>34. ASSUME NEW t \in Threads, NetworkDone(t) PROVE RestType'
  <2>1. prs' = [k \in Tasks |-> IF k = thr[t].task /\ k \in Publishes THEN OneMore(prs[k]) ELSE prs[k]]
    BY <1>34 DEF NetworkDone
  <2>2. prs' \in [Tasks -> 0..2]
    BY <2>1 DEF OneMore, RestType
  <2> QED BY <1>34, <2>2 DEF NetworkDone, RestType
<1>35. ASSUME NEW t \in Threads, SubmitDispatch(t) PROVE RestType'
  <2>1. mu' \in Threads \cup {None}
    BY <1>35, SubmitMoves DEF RestType, AllIdle, Unlocked
  <2> QED BY <1>35, <2>1 DEF RestType, SubmitDispatch
<1>36. ASSUME NEW t \in Threads, SubmitStore(t) PROVE RestType'
  <2>1. mu' \in Threads \cup {None}
    BY <1>36, SubmitMoves DEF RestType, AllIdle, Unlocked
  <2> QED BY <1>36, <2>1 DEF RestType, SubmitStore
<1>37. ASSUME NEW t \in Clients, NEW op \in Phases \cup Reviews \cup {"submit"}, Request(t, op)
      PROVE RestType'
  <2>1. mu' \in Threads \cup {None}
    BY <1>37, ClientMoves
  <2> QED BY <1>37, <2>1 DEF Request, RestType
<1>38. ASSUME NEW id \in Tasks, Start(id) PROVE RestType'
  BY <1>38 DEF Start, Handler, RestType
<1>39. ASSUME NEW id \in Tasks, QueueTask(id) PROVE RestType'
  BY <1>39 DEF QueueTask, Handler, RestType
<1>40. ASSUME NEW id \in Tasks, DequeueTask(id) PROVE RestType'
  <2>1. RemoveFirst(queue, id) \in Seq(Tasks)
    BY RemoveFirstType DEF RestType
  <2> QED BY <1>40, <2>1 DEF DequeueTask, Handler, RestType
<1>41. ASSUME NEW id \in Tasks, StartQueued(id) PROVE RestType'
  BY <1>41 DEF StartQueued, RestType
<1>42. ASSUME NEW id \in Tasks, NEW position \in DOMAIN queue, ReorderQueue(id, position) PROVE
      RestType'
  <2>1. queue' \in Seq(Tasks)
    BY <1>42, ReorderType DEF RestType, ReorderQueue
  <2> QED BY <1>42, <2>1 DEF ReorderQueue, Handler, RestType
<1>43. CASE Stop
  BY <1>43 DEF Stop, Handler, RestType
<1>44. CASE Abort
  BY <1>44 DEF Abort, Handler, RestType
<1>45. CASE Reset
  BY <1>45 DEF Reset, Handler, RestType
<1>46. CASE UpdateTask
  BY <1>46 DEF UpdateTask, Handler, RestType
<1>47. CASE Abandon
  <2>1. fate' = [k \in Tasks |-> IF k = wu.id THEN "gone" ELSE fate[k]]
    BY <1>47 DEF Abandon, Discard
  <2> QED BY <1>47, <2>1 DEF Abandon, Discard, Handler, RestType
<1>48. CASE Delete
  <2>1. fate' = [k \in Tasks |-> IF k = wu.id THEN "gone" ELSE fate[k]]
    BY <1>48 DEF Delete, Discard
  <2> QED BY <1>48, <2>1 DEF Delete, Discard, Handler, RestType
<1>49. CASE Crash
  <2>1. /\ active' = None /\ mu' = None /\ gateCh' = "nil" /\ queue' = <<>> /\ prs' = prs
          /\ tries' = [p \in Phases |-> 0] /\ iters' = [p \in Phases |-> 0]
          /\ fate' = [k \in Tasks |-> IF fate[k] \in {"queued", "starting"} THEN "dropped" ELSE fate[k]]
    BY <1>49 DEF Crash, Restart
  <2>2. crashes' \in 0..MaxCrashes
    BY <1>49, ConductorAssumption DEF Crash, RestType
  <2> QED BY <2>1, <2>2 DEF RestType
<1>50. ASSUME NEW force \in BOOLEAN, Finish(force) PROVE RestType'
  <2>1. queue' \in Seq(Tasks)
    BY <1>50 DEF Finish, RestType
  <2>2. fate' \in [Tasks -> {"new", "queued", "starting", "current", "finished", "gone", "dropped"}]
    BY <1>50 DEF Finish, RestType
  <2> QED BY <1>50, <2>1, <2>2 DEF Finish, Handler, RestType
<1>51. CASE UNCHANGED vars
  BY <1>51 DEF vars, RestType
<1> QED
  BY <1>1, <1>2, <1>3, <1>4, <1>5, <1>6, <1>7, <1>8, <1>9, <1>10, <1>11, <1>12, <1>13, <1>14, <1>15,
     <1>16, <1>17, <1>18, <1>19, <1>20, <1>21, <1>22, <1>23, <1>24, <1>25, <1>26, <1>27, <1>28,
     <1>29, <1>30, <1>31, <1>32, <1>33, <1>34, <1>35, <1>36, <1>37, <1>38, <1>39, <1>40, <1>41,
     <1>42, <1>43, <1>44, <1>45, <1>46, <1>47, <1>48, <1>49, <1>50, <1>51 DEF Next, ClientStep,
     ThreadStep, Begin, Enter, Observe, Decide, Gate, Submit

Typed == TypeOK /\ OpInv

LEMMA InitTyped == Init => Typed
<1> SUFFICES ASSUME Init PROVE Typed
  OBVIOUS
<1>1. NewMachine \in Machine /\ NoTask \in Unit /\ <<>> \in Seq(Saved)
  BY DEF NewMachine, Machine, Prior, State, Unit
<1>2. WorkType
  BY <1>1 DEF Init, WorkType
<1>3. ThrType /\ OpInv
  BY ThreadRecords DEF Init, ThrType, OpInv, Owning
<1>4. RestType
  BY ConductorAssumption DEF Init, RestType
<1> QED BY <1>2, <1>3, <1>4, TypeParts DEF Typed

LEMMA NextTyped == Typed /\ [Next]_vars => Typed'
<1> SUFFICES ASSUME Typed, [Next]_vars PROVE Typed'
  OBVIOUS
<1>1. WorkType /\ ThrType /\ RestType /\ OpInv
  BY TypeParts DEF Typed
<1>2. WorkType'
  BY <1>1, NextWork
<1>3. (ThrType /\ OpInv)'
  BY <1>1, NextThreads
<1>4. RestType'
  BY <1>1, NextRest
<1>5. (TypeOK <=> WorkType /\ ThrType /\ RestType)'
  BY TypeParts, PTL
<1> QED BY <1>2, <1>3, <1>4, <1>5 DEF Typed

\* The fields of the conductor keep their types, whatever the clients ask for,
\* the settings say and the processes interleave: a phase's thread has the
\* phase's name, Policy, retryCount and iterationCount are only ever asked about
\* phases, and task.yaml always holds a well-formed task.
THEOREM TypeCorrect == Spec => []TypeOK
<1>1. Spec => []Typed
  BY InitTyped, NextTyped, PTL DEF Spec
<1>2. Typed => TypeOK
  BY DEF Typed
<1> QED BY <1>1, <1>2, PTL

-----------------------------------------------------------------------------
(* What each action does to the task, the machine and task.yaml.           *)

\* The current task is the same, but for its quality gate.
SameTask ==
  wu'.id = wu.id /\ (wu # NoTask => wu'.specs = wu.specs /\ wu'.impl = wu.impl /\ wu'.pr = wu.pr)

Written == disk' = persistState(disk, wu', m')

\* The machine but for the prior state.
SameState == m'.state = m.state /\ m'.log = m.log /\ m'.interrupted = m.interrupted

\* The operation under way, if there is one, is rolled back.
Back == RollsBack(m, m')

\* The phase op, if it is the one in progress, is over.
Done(op) ==
  /\ m.state # InProgressState[op] => SameState
  /\ m.state = InProgressState[op] =>
       m'.state = DoneTo[Completion[op]] /\ m'.interrupted = FALSE
  /\ m'.prior = ""

\* An operation is entered from a stable state.
In(s) ==
  /\ m.state \in Stable /\ m'.state = s /\ m'.interrupted = FALSE
  /\ m'.prior = m.prior /\ m'.log = m.log
  /\ s \in Built => m.state \in Built \/ (wu # NoTask /\ wu.impl)

\* The files are the ones saved, and the task and the machine are the newest's.
Reload ==
  /\ m'.prior = "" /\ (m'.state \in Active => m'.interrupted)
  /\ disk' = <<>> => wu' = NoTask /\ m'.state = "none"
  /\ disk' # <<>> => /\ Last(disk') \in Files(disk')
                     /\ wu' # NoTask /\ wu'.id = Last(disk').id /\ wu'.specs = Last(disk').specs
                     /\ wu'.impl = Last(disk').impl /\ wu'.pr = FALSE
                     /\ m'.state = Last(disk').state /\ m'.log = Last(disk').log

\* What a file that is written says.
LEMMA WrittenFiles ==
    ASSUME WorkType, WorkType', Written
    PROVE  /\ wu' = NoTask => disk' = disk
           /\ wu' # NoTask =>
                /\ disk' # <<>> /\ Last(disk').id = wu'.id /\ Last(disk').log = m'.log
                /\ Last(disk').specs = wu'.specs /\ Last(disk').impl = wu'.impl
                /\ \A e \in Files(disk') :
                     \/ e \in Files(disk)
                     \/ e.id = wu'.id /\ e.state = m'.state /\ e.impl = wu'.impl
           /\ Unique(disk) => Unique(disk')
<1>1. disk \in Seq(Saved) /\ wu' \in Unit /\ m' \in Machine
  BY DEF WorkType
<1>2. /\ wu' = NoTask => disk' = disk
      /\ wu' # NoTask => /\ disk' # <<>> /\ Last(disk') = Entry(wu', m')
                         /\ Files(disk') \subseteq Files(disk) \cup {Entry(wu', m')}
      /\ Unique(disk) => Unique(disk')
  BY <1>1, PersistFiles DEF Written
<1>3. wu' # NoTask =>
        /\ Entry(wu', m').id = wu'.id /\ Entry(wu', m').log = m'.log
        /\ Entry(wu', m').specs = wu'.specs /\ Entry(wu', m').impl = wu'.impl
        /\ Entry(wu', m').state = m'.state
  <2>1. wu' # NoTask => wu' \in WorkUnit
    BY <1>1, UnitId
  <2> QED BY <1>1, <2>1, EntryType
<1> QED BY <1>2, <1>3

LEMMA BackMoves ==
    ASSUME m \in Machine, NEW e \in {"error", "stop"}, NEW f, m' = Dispatch(m, e, f)
    PROVE  Back
  BY DispatchBack DEF Back

LEMMA DoneMoves ==
    ASSUME m \in Machine, NEW op \in Phases, NEW f,
           m' = Dispatch(ClearPriorStableState(m), Completion[op], f)
    PROVE  Done(op)
<1> DEFINE c == ClearPriorStableState(m)
           e == Completion[op]
<1>1. c \in Machine /\ c.prior = "" /\ c.state = m.state /\ c.log = m.log /\ c.interrupted = m.interrupted
  <2>1. m.state \in State
    BY DEF Machine
  <2>2. c \in Machine
    BY <2>1, PriorType
  <2> QED BY <2>2 DEF ClearPriorStableState, Machine
<1>2. e \in DoneEvents /\ DoneFrom[e] = InProgressState[op]
  BY DEF Phases, Completion, DoneEvents, DoneFrom, InProgressState
<1> HIDE DEF c, e
<1> DEFINE d == Dispatch(c, e, f)
<1>4. /\ c.state # DoneFrom[e] => d = c
      /\ c.state = DoneFrom[e] => d.state = DoneTo[e] /\ d.interrupted = FALSE
      /\ d.prior = c.prior
  BY <1>1, <1>2, DispatchDone
<1> HIDE DEF d
<1>5. m' = d
  BY DEF c, d, e
<1> QED BY <1>1, <1>2, <1>4, <1>5 DEF Done, SameState, e

\* What the guard "implemented" asks.
LEMMA FactsSay == "implemented" \in Facts(wu) => wu # NoTask /\ wu.impl
  BY DEF Facts

LEMMA InMoves ==
    ASSUME m \in Machine, NEW e \in EntryEvents, CanDispatch(m, e, Facts(wu)),
           m' = Dispatch(m, e, Facts(wu))
    PROVE  In(Entered[e])
<1>1. Enters(m, m', e, Facts(wu))
  BY DispatchEntry
<1> QED BY <1>1, FactsSay DEF Enters, In

\* Reading back a well-formed directory.
LEMMA ReloadMoves ==
    ASSUME WorkType', LoadState(disk')
    PROVE  Reload
<1>1. disk' \in Seq(Saved)
  BY DEF WorkType
<1>2. \A w \in WorkUnit : w # NoTask
  BY UnitId DEF Unit
<1> QED BY <1>1, <1>2, LoadSays DEF Reload

LEMMA RestartReloads ==
    ASSUME WorkType', NEW d, Restart(d)
    PROVE  Reload /\ disk' = d
  BY ReloadMoves DEF Restart, LoadState

\* Entering an operation.
LEMMA BeginWork ==
    ASSUME WorkType, WorkType', ThrType, OpInv, NEW t \in Threads
    PROVE  /\ SelfCall(t) \/ Refused(t) \/ GuardrailsPass(t) => UNCHANGED work
           /\ RecordPrior(t) =>
                /\ SameTask /\ disk' = disk /\ SameState
                /\ (m'.prior = m.state \/ m'.prior = m.prior)
           /\ EnterRejected(t) => wu' = wu /\ disk' = disk /\ SameState /\ m'.prior = ""
           /\ EnterPhase(t) => wu' = wu /\ disk' = disk /\ In(InProgressState[thr[t].op])
           /\ EnterReview(t) => wu' = wu /\ Written /\ In("reviewing")
           /\ GuardrailsFail(t) => wu' = wu /\ disk' = disk /\ Back
           /\ SubmitJobFails(t) => wu' = wu /\ disk' = disk /\ Back
           /\ FixRefused(t) => wu' = wu /\ disk' = disk /\ Back
           /\ LaunchNil(t) => (UNCHANGED work \/ (Reload /\ disk' = disk))
           /\ Launch(t) => wu # NoTask /\ wu' = wu /\ m' = m /\ Written
           /\ FixStarted(t) => (UNCHANGED work \/ (wu' = wu /\ m' = m /\ Written))
<1>0. m \in Machine /\ wu \in Unit /\ disk \in Seq(Saved) /\ WorkType'
  BY DEF WorkType
<1>1. SelfCall(t) => UNCHANGED work
  BY DEF SelfCall
<1>2. Refused(t) => UNCHANGED work
  BY DEF Refused
<1>3. GuardrailsPass(t) => UNCHANGED work
  BY DEF GuardrailsPass
<1>4. ASSUME RecordPrior(t) PROVE
             /\ SameTask /\ disk' = disk /\ SameState /\ (m'.prior = m.state \/ m'.prior = m.prior)
  <2>1. disk' = disk /\ (m' = m \/ m' = SetPriorStableState(m, m.state))
    BY <1>4 DEF RecordPrior
  <2>2. SameState /\ (m'.prior = m.state \/ m'.prior = m.prior)
    BY <1>0, <2>1 DEF SameState, SetPriorStableState, Machine
  <2>3. wu' = wu \/ (wu # NoTask /\ wu' = [wu EXCEPT !.gate = "nil"])
    BY <1>4 DEF RecordPrior, resetPhaseState
  <2>4. SameTask
    BY <1>0, <2>3, UnitId, UnitGate DEF SameTask, Gates
  <2> QED BY <2>1, <2>2, <2>4
<1>5. ASSUME EnterRejected(t) PROVE wu' = wu /\ disk' = disk /\ SameState /\ m'.prior = ""
  <2>1. wu' = wu /\ disk' = disk /\ m' = ClearPriorStableState(m)
    BY <1>5 DEF EnterRejected
  <2> QED BY <1>0, <2>1 DEF SameState, ClearPriorStableState, Machine
<1>6. ASSUME EnterPhase(t) PROVE wu' = wu /\ disk' = disk /\ In(InProgressState[thr[t].op])
  <2> DEFINE e == thr[t].op
  <2>1. e \in EntryEvents /\ Entered[e] = InProgressState[e]
    BY <1>6 DEF EnterPhase, Phases, EntryEvents, Entered, InProgressState
  <2>2. CanDispatch(m, e, Facts(wu)) /\ m' = Dispatch(m, e, Facts(wu)) /\ wu' = wu /\ disk' = disk
    BY <1>6 DEF EnterPhase, Assign
  <2> HIDE DEF e
  <2>3. In(Entered[e])
    BY <1>0, <2>1, <2>2, InMoves
  <2> QED BY <2>1, <2>2, <2>3 DEF e
<1>7. ASSUME EnterReview(t) PROVE wu' = wu /\ Written /\ In("reviewing")
  <2>1. CanDispatch(m, "review", Facts(wu)) /\ m' = Dispatch(m, "review", Facts(wu)) /\ wu' = wu /\ Written
    BY <1>7 DEF EnterReview, Commit, Written
  <2>2. "review" \in EntryEvents /\ Entered["review"] = "reviewing"
    BY DEF EntryEvents, Entered
  <2>3. In(Entered["review"])
    BY <1>0, <2>1, <2>2, InMoves
  <2> QED BY <2>1, <2>2, <2>3
<1>8. ASSUME GuardrailsFail(t) PROVE wu' = wu /\ disk' = disk /\ Back
  <2>1. m' = Dispatch(m, "error", Facts(wu)) /\ wu' = wu /\ disk' = disk
    BY <1>8 DEF GuardrailsFail, Assign, Written
  <2> QED BY <1>0, <2>1, BackMoves
<1>9. ASSUME SubmitJobFails(t) PROVE wu' = wu /\ disk' = disk /\ Back
  <2>1. m' = Dispatch(m, "error", Facts(wu)) /\ wu' = wu /\ disk' = disk
    BY <1>9 DEF SubmitJobFails, Assign, Written
  <2> QED BY <1>0, <2>1, BackMoves
<1>10. ASSUME FixRefused(t) PROVE wu' = wu /\ disk' = disk /\ Back
  <2>1. m' = Dispatch(m, "error", Facts(wu)) /\ wu' = wu /\ disk' = disk
    BY <1>10 DEF FixRefused, Assign, Written
  <2> QED BY <1>0, <2>1, BackMoves
<1>11. ASSUME LaunchNil(t) PROVE (UNCHANGED work \/ (Reload /\ disk' = disk))
  <2>1. CASE Restart(disk)
    BY <1>0, <2>1, RestartReloads
  <2> QED BY <1>11, <2>1 DEF LaunchNil
<1>12. ASSUME Launch(t) PROVE wu # NoTask /\ wu' = wu /\ m' = m /\ Written
  BY <1>12 DEF Launch, Commit, Written
<1>13. ASSUME FixStarted(t) PROVE (UNCHANGED work \/ (wu' = wu /\ m' = m /\ Written))
  BY <1>13 DEF FixStarted, Commit, Written
<1> QED BY <1>1, <1>2, <1>3, <1>4, <1>5, <1>6, <1>7, <1>8, <1>9, <1>10, <1>11, <1>12, <1>13

\* Watching a job.
LEMMA WatchWork ==
    ASSUME WorkType, WorkType', ThrType, OpInv, NEW t \in Threads
    PROVE  /\ StreamClosed(t) \/ CompletedNoTask(t) \/ Failed(t) \/ Iterate(t) \/ PolicyRetry(t) \/
              PolicyFail(t) => UNCHANGED work
           /\ NoSpecification(t) => wu' = wu /\ Written /\ Back
           /\ JobErrored(t) => wu' = wu /\ Written /\ Back
           /\ Completed(t) =>
                /\ wu # NoTask /\ wu'.id = wu.id /\ wu'.impl = wu.impl /\ wu'.pr = wu.pr /\ m' = m
                /\ disk' = disk
           /\ Accept(t) => wu' = wu /\ m' = m /\ Written
           /\ FinalizeNil(t) => Reload /\ disk' = disk
           /\ Finalize(t) =>
                /\ Written /\ Done(thr[t].op) /\ wu'.id = wu.id
                /\ (wu # NoTask => wu'.pr = wu.pr /\ wu'.impl = (wu.impl \/ thr[t].op = "implement"))
           /\ PolicySkip(t) =>
                /\ wu' = wu /\ Written /\ Done(thr[t].op) /\ Policy[thr[t].op] = "skip"
                /\ m.state = InProgressState[thr[t].op]
<1>0. m \in Machine /\ wu \in Unit /\ disk \in Seq(Saved) /\ WorkType'
  BY DEF WorkType
<1>1. StreamClosed(t) => UNCHANGED work
  BY DEF StreamClosed
<1>2. CompletedNoTask(t) => UNCHANGED work
  BY DEF CompletedNoTask
<1>3. Failed(t) => UNCHANGED work
  BY DEF Failed
<1>4. Iterate(t) => UNCHANGED work
  BY DEF Iterate
<1>5. PolicyRetry(t) => UNCHANGED work
  BY DEF PolicyRetry
<1>6. PolicyFail(t) => UNCHANGED work
  BY DEF PolicyFail
<1>7. ASSUME NoSpecification(t) PROVE wu' = wu /\ Written /\ Back
  <2>1. m' = Dispatch(m, "error", Facts(wu)) /\ wu' = wu /\ Written
    BY <1>7 DEF NoSpecification, Commit, Written
  <2> QED BY <1>0, <2>1, BackMoves
<1>8. ASSUME JobErrored(t) PROVE wu' = wu /\ Written /\ Back
  <2>1. m' = Dispatch(m, "error", Facts(wu)) /\ wu' = wu /\ Written
    BY <1>8 DEF JobErrored, Commit, Written
  <2> QED BY <1>0, <2>1, BackMoves
<1>9. ASSUME Completed(t) PROVE
             /\ wu # NoTask /\ wu'.id = wu.id /\ wu'.impl = wu.impl /\ wu'.pr = wu.pr /\ m' = m
             /\ disk' = disk
  <2> DEFINE x == wu.specs \/ thr[t].op = "plan"
  <2>1. x \in BOOLEAN /\ wu # NoTask /\ wu \in WorkUnit
    BY <1>9, <1>0, UnitId DEF Completed
  <2>2. wu' = [wu EXCEPT !.specs = x] /\ m' = m /\ disk' = disk
    BY <1>9 DEF Completed, Assign
  <2> HIDE DEF x
  <2> QED BY <2>1, <2>2, UnitFlags
<1>10. ASSUME Accept(t) PROVE wu' = wu /\ m' = m /\ Written
  BY <1>10 DEF Accept, Commit, Written
<1>11. ASSUME FinalizeNil(t) PROVE Reload /\ disk' = disk
  BY <1>11, <1>0, RestartReloads DEF FinalizeNil
<1>12. ASSUME Finalize(t) PROVE
             /\ Written /\ Done(thr[t].op) /\ wu'.id = wu.id
             /\ (wu # NoTask => wu'.pr = wu.pr /\ wu'.impl = (wu.impl \/ thr[t].op = "implement"))
  <2> DEFINE op == thr[t].op
             w == IF op = "implement" THEN [wu EXCEPT !.impl = TRUE] ELSE wu
  <2>0. op \in Phases /\ (op = "implement" => wu # NoTask)
    BY <1>12, WatchMoves DEF Finalize, OpInv, Owning
  <2>1. wu' = w /\ m' = Dispatch(ClearPriorStableState(m), Completion[op], Facts(w)) /\ Written
    BY <1>12 DEF Finalize, Commit, Written
  <2>2. w.id = wu.id /\ (wu # NoTask => w.pr = wu.pr)
    BY <1>0, <2>0, UnitId, UnitFlags, TRUE \in BOOLEAN
  <2>3. wu # NoTask => wu.impl \in BOOLEAN
    BY <1>0, UnitId DEF WorkUnit
  <2>4. op = "implement" => w.impl = TRUE
    BY <1>0, <2>0, UnitId, UnitFlags, TRUE \in BOOLEAN
  <2>5. op # "implement" => w = wu
    OBVIOUS
  <2> HIDE DEF op, w
  <2>6. Done(op)
    BY <1>0, <2>0, <2>1, DoneMoves
  <2> QED BY <2>1, <2>2, <2>3, <2>4, <2>5, <2>6 DEF op
<1>13. ASSUME PolicySkip(t) PROVE
             /\ wu' = wu /\ Written /\ Done(thr[t].op) /\ Policy[thr[t].op] = "skip"
             /\ m.state = InProgressState[thr[t].op]
  <2> DEFINE op == thr[t].op
  <2>0. op \in Phases
    BY <1>13, WatchMoves DEF OpInv, Owning
  <2>1. /\ wu' = wu /\ m' = Dispatch(ClearPriorStableState(m), Completion[op], Facts(wu)) /\ Written
        /\ Policy[op] = "skip" /\ m.state = InProgressState[op]
    BY <1>13 DEF PolicySkip, Commit, Written
  <2> HIDE DEF op
  <2>2. Done(op)
    BY <1>0, <2>0, <2>1, DoneMoves
  <2> QED BY <2>1, <2>2 DEF op
<1> QED BY <1>1, <1>2, <1>3, <1>4, <1>5, <1>6, <1>7, <1>8, <1>9, <1>10, <1>11, <1>12, <1>13

\* The gate.
LEMMA GateWork ==
    ASSUME WorkType, WorkType', ThrType, OpInv, NEW t \in Threads
    PROVE  /\ SpawnGate(t) => UNCHANGED work
           /\ GateDone(t) => SameTask /\ m' = m /\ (disk' = disk \/ Written)
           /\ GateDoubleClose(t) =>
                /\ Reload
                /\ (disk' = disk \/ (wu # NoTask /\ \E w \in WorkUnit : w.id = wu.id
                      /\ w.impl = wu.impl /\ w.specs = wu.specs /\ disk' = persistState(disk, w, m)))
<1>0. m \in Machine /\ wu \in Unit /\ disk \in Seq(Saved) /\ WorkType'
  BY DEF WorkType
<1>1. SpawnGate(t) => UNCHANGED work
  BY DEF SpawnGate
<1>2. ASSUME GateDone(t) PROVE SameTask /\ m' = m /\ (disk' = disk \/ Written)
  <2>1. CASE wu = NoTask
    BY <1>2, <2>1 DEF GateDone, SameTask, work
  <2>2. CASE wu # NoTask
    <3>1. PICK v \in {"pass", "fail"} : wu' = [wu EXCEPT !.gate = v] /\ m' = m /\ Written
      BY <1>2, <2>2 DEF GateDone, Commit, Written
    <3>2. SameTask
      BY <1>0, <2>2, <3>1, UnitId, UnitGate DEF SameTask, Gates
    <3> QED BY <3>1, <3>2
  <2> QED BY <2>1, <2>2
<1>3. ASSUME GateDoubleClose(t) PROVE
             /\ Reload
             /\ (disk' = disk \/ (wu # NoTask /\ \E w \in WorkUnit : w.id = wu.id
                   /\ w.impl = wu.impl /\ w.specs = wu.specs /\ disk' = persistState(disk, w, m)))
  <2> DEFINE w == [wu EXCEPT !.gate = "fail"]
  <2>1. Restart(IF wu = NoTask THEN disk ELSE persistState(disk, w, m))
    BY <1>3 DEF GateDoubleClose
  <2>2. wu # NoTask => w \in WorkUnit /\ w.id = wu.id /\ w.impl = wu.impl /\ w.specs = wu.specs
    BY <1>0, UnitId, UnitGate DEF Gates
  <2> HIDE DEF w
  <2>3. Reload /\ disk' = IF wu = NoTask THEN disk ELSE persistState(disk, w, m)
    BY <1>0, <2>1, RestartReloads
  <2> QED BY <2>2, <2>3
<1> QED BY <1>1, <1>2, <1>3

\* Submitting.
LEMMA SubmitWork ==
    ASSUME WorkType, WorkType', ThrType, OpInv, NEW t \in Threads
    PROVE  /\ SubmitGate(t) \/ SubmitWaited(t) \/ NetworkFails(t) \/ NetworkDone(t) => UNCHANGED work
           /\ SubmitGateDone(t) => SameTask /\ m' = m /\ disk' = disk
           /\ SubmitDispatch(t) =>
                /\ wu' = wu /\ disk' = disk
                /\ (m' = m \/ (m.state = "reviewing" /\ m'.state = "submitted"
                      /\ m'.prior = m.prior /\ m'.interrupted = FALSE))
           /\ SubmitStore(t) =>
                /\ wu'.id = wu.id /\ m' = m /\ (wu = NoTask => wu' = wu /\ disk' = disk)
                /\ (wu # NoTask => Written /\ wu'.specs = wu.specs /\ wu'.impl = wu.impl)
<1>0. m \in Machine /\ wu \in Unit /\ disk \in Seq(Saved) /\ WorkType'
  BY DEF WorkType
<1>1. SubmitGate(t) => UNCHANGED work
  BY DEF SubmitGate
<1>2. SubmitWaited(t) => UNCHANGED work
  BY DEF SubmitWaited
<1>3. NetworkFails(t) => UNCHANGED work
  BY DEF NetworkFails
<1>4. NetworkDone(t) => UNCHANGED work
  BY DEF NetworkDone
<1>5. ASSUME SubmitGateDone(t) PROVE SameTask /\ m' = m /\ disk' = disk
  <2>1. UNCHANGED work \/ (wu # NoTask /\ wu' = [wu EXCEPT !.gate = "pass"] /\ m' = m /\ disk' = disk)
    BY <1>5 DEF SubmitGateDone, Assign
  <2> QED BY <1>0, <2>1, UnitId, UnitGate DEF SameTask, Gates, work
<1>6. ASSUME SubmitDispatch(t) PROVE
             /\ wu' = wu /\ disk' = disk
             /\ (m' = m \/ (m.state = "reviewing" /\ m'.state = "submitted"
                   /\ m'.prior = m.prior /\ m'.interrupted = FALSE))
  <2> DEFINE f == Facts(wu)
  <2>1. wu' = wu /\ disk' = disk /\ m' = Dispatch(m, "submit", f)
    BY <1>6 DEF SubmitDispatch, Assign
  <2> HIDE DEF f
  <2>2. CASE CanDispatch(m, "submit", f)
    BY <1>0, <2>1, <2>2, DispatchOther
  <2>3. CASE ~CanDispatch(m, "submit", f)
    BY <2>1, <2>3, DispatchRejected
  <2> QED BY <2>2, <2>3
<1>7. ASSUME SubmitStore(t) PROVE
             /\ wu'.id = wu.id /\ m' = m /\ (wu = NoTask => wu' = wu /\ disk' = disk)
             /\ (wu # NoTask => Written /\ wu'.specs = wu.specs /\ wu'.impl = wu.impl)
  <2>1. CASE wu = NoTask
    BY <1>7, <2>1 DEF SubmitStore, work
  <2>2. CASE wu # NoTask
    <3>1. PICK b \in BOOLEAN : wu' = [wu EXCEPT !.pr = b] /\ m' = m /\ Written
      <4>1. (wu.pr \/ thr[t].task \in Publishes \cup {None}) \in BOOLEAN
        OBVIOUS
      <4> QED BY <1>7, <2>2, <4>1 DEF SubmitStore, Commit, Written
    <3> QED BY <1>0, <2>2, <3>1, UnitId, UnitFlags
  <2> QED BY <2>1, <2>2
<1> QED BY <1>1, <1>2, <1>3, <1>4, <1>5, <1>6, <1>7

\* Starting a task.
Begun(id) ==
  /\ m.state = "none" /\ m'.prior = m.prior
  /\ wu'.id = id /\ ~wu'.impl /\ ~wu'.pr
  /\ \/ m' = m /\ (disk' = disk \/ Written)
     \/ m'.state = "loaded" /\ m'.interrupted = FALSE /\ Written

\* The task is put away.
Cleared == wu' = NoTask /\ m'.state = "none" /\ m'.prior = m.prior /\ m'.interrupted = FALSE

LEMMA StartMoves ==
    ASSUME m \in Machine, m.state = "none", NEW id \in Tasks, StartWork(id)
    PROVE  Begun(id)
<1> DEFINE w == NewWorkUnit(id)
           f == Facts(w)
<1>1. w.id = id /\ ~w.impl /\ ~w.pr
  BY NewUnit
<1>2. wu' = w /\ ((m' = m /\ disk' = disk) \/ (m' = Dispatch(m, "start", f) /\ Written))
  BY DEF StartWork, Commit, Assign, Written
<1> HIDE DEF w, f
<1>3. CASE m' = m /\ disk' = disk
  BY <1>1, <1>2, <1>3 DEF Begun
<1>4. CASE m' = Dispatch(m, "start", f) /\ Written
  <2>1. CASE CanDispatch(m, "start", f)
    <3>1. m'.prior = m.prior /\ m'.state = "loaded" /\ m'.interrupted = FALSE
      BY <1>4, <2>1, DispatchOther
    <3> QED BY <1>1, <1>2, <1>4, <3>1 DEF Begun
  <2>2. CASE ~CanDispatch(m, "start", f)
    BY <1>1, <1>2, <1>4, <2>2, DispatchRejected DEF Begun
  <2> QED BY <2>1, <2>2
<1> QED BY <1>2, <1>3, <1>4

\* What the handlers that are one critical section do to the task.
LEMMA ClientWork ==
    ASSUME WorkType, WorkType'
    PROVE  /\ \A id \in Tasks : Start(id) => Begun(id)
           /\ \A id \in Tasks : StartQueued(id) => UNCHANGED work \/ Begun(id)
           /\ \A id \in Tasks : QueueTask(id) \/ DequeueTask(id) => UNCHANGED work
           /\ \A id \in Tasks : \A k \in DOMAIN queue : ReorderQueue(id, k) => UNCHANGED work
           /\ \A t \in Clients, op \in Phases \cup Reviews \cup {"submit"} :
                Request(t, op) => UNCHANGED work
           /\ Stop => wu' = wu /\ Written /\ Back
           /\ Abort => /\ wu' = wu /\ Written /\ m.state # "none" /\ m'.state = "failed"
                       /\ m'.prior = m.prior /\ m'.interrupted = FALSE
           /\ Reset => /\ wu' = wu /\ Written /\ m.state = "failed" /\ m'.prior = m.prior
                       /\ m' = m \/ (m'.state = "loaded" /\ m'.interrupted = FALSE)
           /\ UpdateTask => /\ wu # NoTask /\ wu'.id = wu.id /\ wu'.impl = wu.impl /\ wu'.pr = wu.pr
                            /\ m' = m /\ Written
           /\ Abandon \/ Delete => Cleared /\ disk' = DeleteTaskState(disk, wu.id)
           /\ \A force \in BOOLEAN : Finish(force) => Cleared /\ disk' = disk
           /\ Crash => Reload /\ disk' = disk
<1>0. m \in Machine /\ wu \in Unit /\ WorkType'
  BY DEF WorkType
<1>1. \A id \in Tasks : Start(id) => Begun(id)
  BY <1>0, StartMoves DEF Start
<1>2. \A id \in Tasks : StartQueued(id) => UNCHANGED work \/ Begun(id)
  BY <1>0, StartMoves DEF StartQueued
<1>3. /\ \A id \in Tasks : QueueTask(id) \/ DequeueTask(id) => UNCHANGED work
      /\ \A id \in Tasks : \A k \in DOMAIN queue : ReorderQueue(id, k) => UNCHANGED work
      /\ \A t \in Clients, op \in Phases \cup Reviews \cup {"submit"} :
           Request(t, op) => UNCHANGED work
  BY DEF QueueTask, DequeueTask, ReorderQueue, Request
<1>4. Stop => wu' = wu /\ Written /\ Back
  BY <1>0, BackMoves DEF Stop, Commit, Written
<1> DEFINE f == Facts(wu)
<1>5. ASSUME Abort
      PROVE  /\ wu' = wu /\ Written /\ m.state # "none" /\ m'.state = "failed"
             /\ m'.prior = m.prior /\ m'.interrupted = FALSE
  <2>1. wu' = wu /\ Written /\ m' = Dispatch(m, "abort", f) /\ CanDispatch(m, "abort", f)
    BY <1>5 DEF Abort, Commit, Written
  <2> HIDE DEF f
  <2> QED BY <1>0, <2>1, DispatchOther
<1>6. ASSUME Reset
      PROVE  /\ wu' = wu /\ Written /\ m.state = "failed" /\ m'.prior = m.prior
             /\ m' = m \/ (m'.state = "loaded" /\ m'.interrupted = FALSE)
  <2>1. wu' = wu /\ Written /\ m' = Dispatch(m, "reset", f) /\ m.state = "failed"
    BY <1>6 DEF Reset, Commit, Written
  <2> HIDE DEF f
  <2>2. CASE CanDispatch(m, "reset", f)
    BY <1>0, <2>1, <2>2, DispatchOther
  <2>3. CASE ~CanDispatch(m, "reset", f)
    BY <2>1, <2>3, DispatchRejected
  <2> QED BY <2>2, <2>3
<1>7. ASSUME UpdateTask
      PROVE  /\ wu # NoTask /\ wu'.id = wu.id /\ wu'.impl = wu.impl /\ wu'.pr = wu.pr
             /\ m' = m /\ Written
  <2>1. wu # NoTask /\ wu' = [wu EXCEPT !.specs = TRUE] /\ m' = m /\ Written
    BY <1>7 DEF UpdateTask, Commit, Written
  <2> QED BY <1>0, <2>1, UnitId, UnitFlags, TRUE \in BOOLEAN
<1>8. Abandon \/ Delete => Cleared /\ disk' = DeleteTaskState(disk, wu.id)
  BY <1>0, ResetMachineType DEF Abandon, Delete, Discard, Cleared
<1>9. ASSUME NEW force \in BOOLEAN, Finish(force) PROVE Cleared /\ disk' = disk
  <2>1. wu' = NoTask /\ disk' = disk
    BY <1>9 DEF Finish, persistState
  <2>2. \/ m' = ResetMachine(m)
        \/ CanDispatch(m, "finish", f) /\ m' = Dispatch(m, "finish", f)
    BY <1>9 DEF Finish
  <2> HIDE DEF f
  <2>3. CASE m' = ResetMachine(m)
    BY <1>0, <2>1, <2>3, ResetMachineType DEF Cleared
  <2>4. CASE CanDispatch(m, "finish", f) /\ m' = Dispatch(m, "finish", f)
    <3>1. m'.prior = m.prior /\ m'.state = "none" /\ m'.interrupted = FALSE
      BY <1>0, <2>4, DispatchOther
    <3> QED BY <2>1, <3>1 DEF Cleared
  <2> QED BY <2>2, <2>3, <2>4
<1>10. Crash => Reload /\ disk' = disk
  BY <1>0, RestartReloads DEF Crash
<1> QED BY <1>1, <1>2, <1>3, <1>4, <1>5, <1>6, <1>7, <1>8, <1>9, <1>10

-----------------------------------------------------------------------------
(* The lock, the prior state, and a machine without a task.                *)

LEMMA NextLock ==
    ASSUME WorkType, ThrType, RestType, OpInv, LockInv, [Next]_vars
    PROVE  LockInv'
<1>1. ASSUME NEW t \in Threads, Refused(t) \/ SelfCall(t) \/ GuardrailsPass(t) \/ RecordPrior(t) \/
      EnterRejected(t) \/ EnterPhase(t) \/ EnterReview(t) \/ GuardrailsFail(t) \/ LaunchNil(t) \/
      SubmitJobFails(t) \/ FixRefused(t) PROVE LockInv'
  BY <1>1, BeginMoves, NoneAssumption, ZenonT(40) DEF Moved, Kept, Unlocked, LockInv, AllIdle
<1>2. ASSUME NEW t \in Threads, CompletedNoTask(t) \/ NoSpecification(t) \/ Completed(t) \/
      Failed(t) \/ Iterate(t) \/ Accept(t) \/ Finalize(t) \/ PolicyRetry(t) \/ PolicySkip(t) \/
      PolicyFail(t) \/ JobErrored(t) PROVE LockInv'
  BY <1>2, WatchMoves, NoneAssumption DEF Moved, Kept, Unlocked, LockInv
<1>3. ASSUME NEW t \in Threads, GateDone(t) \/ GateDoubleClose(t) PROVE LockInv'
  BY <1>3, GateMoves, NoneAssumption DEF Moved, Kept, Unlocked, LockInv, AllIdle
<1>4. ASSUME NEW t \in Threads, SubmitGate(t) \/ SubmitWaited(t) \/ SubmitGateDone(t) \/
      NetworkFails(t) \/ NetworkDone(t) \/ SubmitDispatch(t) \/ SubmitStore(t) PROVE LockInv'
  BY <1>4, SubmitMoves, NoneAssumption DEF Moved, Kept, Unlocked, LockInv
<1>5. ASSUME NEW id \in Tasks, Start(id) \/ QueueTask(id) \/ DequeueTask(id) \/ StartQueued(id)
      PROVE LockInv'
  <2>1. Unlocked /\ thr' = thr /\ mu' = mu
    BY <1>5 DEF Start, Handler, QueueTask, DequeueTask, StartQueued
  <2> QED BY <2>1, NoneAssumption DEF Unlocked, LockInv
<1>6. CASE Stop \/ Abandon \/ Crash
  BY <1>6, ClientMoves, NoneAssumption DEF Kept, Unlocked, LockInv, AllIdle
<1>7. CASE Abort \/ Reset \/ UpdateTask \/ Delete
  <2>1. Unlocked /\ thr' = thr /\ mu' = mu
    BY <1>7 DEF Abort, Handler, Reset, UpdateTask, Delete
  <2> QED BY <2>1, NoneAssumption DEF Unlocked, LockInv
<1>8. ASSUME NEW t \in Threads, StreamClosed(t) PROVE LockInv'
  <2>1. thr[t].pc = "watch" /\ Lossy /\ Moved(t, {"idle"}) /\ mu' = mu
    BY <1>8, WatchMoves
  <2> QED BY <2>1, NoneAssumption DEF Moved, Kept, LockInv, Unlocked
<1>9. ASSUME NEW t \in Threads, Launch(t) PROVE LockInv'
  <2>0. thr[t].pc = "launch" /\ Handed(t, "idle", "watch", thr[t].op) /\ mu' = None
    BY <1>9, BeginMoves
  <2>1. PICK r \in Runs :
          /\ r = t \/ thr[r].pc = "idle"
          /\ thr'[r].pc = "watch" /\ thr'[r].op = thr[t].op
          /\ r # t => thr'[t].pc = "idle" /\ thr'[t].op \in {"", thr[t].op}
          /\ \A u \in Threads \ {t, r} : Kept(u)
    BY <2>0 DEF Handed
  <2>2. r \in Threads
    BY DEF Threads
  <2> QED BY <2>0, <2>1, <2>2, NoneAssumption DEF Kept, LockInv, Unlocked
<1>10. ASSUME NEW t \in Threads, FixStarted(t) PROVE LockInv'
  <2>0. thr[t].pc = "fixsubmit" /\ Unlocked /\ mu' \in {t, None}
    BY <1>10, BeginMoves
  <2>1. CASE Moved(t, {"idle"})
    BY <2>0, <2>1, NoneAssumption DEF Moved, Kept, LockInv, Unlocked
  <2>2. CASE Handed(t, "spawngate", "watch", "implement")
    <3>1. PICK r \in Runs :
            /\ r = t \/ thr[r].pc = "idle"
            /\ thr'[r].pc = "watch" /\ thr'[r].op = "implement"
            /\ r # t => thr'[t].pc = "spawngate" /\ thr'[t].op \in {"", thr[t].op}
            /\ \A u \in Threads \ {t, r} : Kept(u)
      BY <2>2 DEF Handed
    <3>2. r \in Threads
      BY DEF Threads
    <3> QED BY <2>0, <3>1, <3>2, NoneAssumption DEF Kept, LockInv, Unlocked
  <2> QED BY <1>10, <2>1, <2>2, BeginMoves
<1>11. ASSUME NEW t \in Threads, FinalizeNil(t) PROVE LockInv'
  <2>1. thr[t].pc = "finalize" /\ Unlocked /\ AllIdle /\ mu' = None
    BY <1>11, WatchMoves
  <2> QED BY <2>1, NoneAssumption DEF AllIdle, LockInv, Unlocked
<1>12. ASSUME NEW t \in Threads, SpawnGate(t) PROVE LockInv'
  <2>0. thr[t].pc = "spawngate" /\ Unlocked /\ Handed(t, "idle", "gate", "") /\ mu' = mu
    BY <1>12, GateMoves
  <2>1. PICK r \in Runs :
          /\ r = t \/ thr[r].pc = "idle"
          /\ thr'[r].pc = "gate" /\ thr'[r].op = ""
          /\ r # t => thr'[t].pc = "idle" /\ thr'[t].op \in {"", thr[t].op}
          /\ \A u \in Threads \ {t, r} : Kept(u)
    BY <2>0 DEF Handed
  <2>2. r \in Threads
    BY DEF Threads
  <2> QED BY <2>0, <2>1, <2>2, NoneAssumption DEF Kept, LockInv, Unlocked
<1>13. ASSUME NEW t \in Clients, NEW op \in Phases \cup Reviews \cup {"submit"}, Request(t, op)
      PROVE LockInv'
  BY <1>13, ClientMoves, NoneAssumption DEF Kept, Unlocked, LockInv
<1>14. ASSUME NEW id \in Tasks, NEW position \in DOMAIN queue, ReorderQueue(id, position) PROVE
      LockInv'
  <2>1. Unlocked /\ thr' = thr /\ mu' = mu
    BY <1>14 DEF ReorderQueue, Handler
  <2> QED BY <2>1, NoneAssumption DEF Unlocked, LockInv
<1>15. ASSUME NEW force \in BOOLEAN, Finish(force) PROVE LockInv'
  <2>1. Unlocked /\ thr' = thr /\ mu' = mu
    BY <1>15 DEF Finish, Handler
  <2> QED BY <2>1, NoneAssumption DEF Unlocked, LockInv
<1>16. CASE UNCHANGED vars
  BY <1>16 DEF vars, LockInv
<1> QED
  BY <1>1, <1>2, <1>3, <1>4, <1>5, <1>6, <1>7, <1>8, <1>9, <1>10, <1>11, <1>12, <1>13, <1>14, <1>15,
     <1>16 DEF Next, ClientStep, ThreadStep, Begin, Enter, Observe, Decide, Gate, Submit

LEMMA NextNoTask ==
    ASSUME WorkType, ThrType, RestType, OpInv, NoTaskInv, [Next]_vars
    PROVE  NoTaskInv'
<1>0. WorkType'
  BY NextWork
<1>u. (wu = NoTask <=> wu.id \notin Tasks) /\ (wu' = NoTask <=> wu'.id \notin Tasks)
  BY <1>0, UnitId DEF WorkType
<1>p. \A op \in Phases : InProgressState[op] \in InProgress
  BY DEF Phases, InProgressState, InProgress
<1>s. /\ "none" \notin Stable /\ "none" \notin InProgress /\ Stable \cap InProgress = {}
      /\ Active = InProgress \cup {"reviewing"} /\ "reviewing" \notin Stable \cup InProgress
      /\ {"loaded", "planned", "implemented", "submitted"} = Stable
      /\ {"failed", ""} \cap (Stable \cup Active) = {}
  BY DEF Stable, Active, InProgress
<1>1. ASSUME NEW t \in Threads, Refused(t) \/ StreamClosed(t) \/ SelfCall(t) \/ GuardrailsPass(t) \/
      CompletedNoTask(t) \/ Failed(t) \/ Iterate(t) \/ PolicyRetry(t) \/ PolicyFail(t) \/
      SpawnGate(t) \/ SubmitGate(t) \/ SubmitWaited(t) \/ NetworkFails(t) \/ NetworkDone(t) PROVE
      NoTaskInv'
  <2>2. UNCHANGED work
    BY <1>1, <1>0, BeginWork, WatchWork, GateWork, SubmitWork
  <2> QED BY <2>2, <1>u, <1>s DEF work, NoTaskInv
<1>2. ASSUME NEW t \in Threads, GuardrailsFail(t) \/ SubmitJobFails(t) \/ FixRefused(t) PROVE
      NoTaskInv'
  <2>2. wu' = wu /\ disk' = disk /\ Back
    BY <1>2, <1>0, BeginWork
  <2> QED BY <2>2, <1>u, <1>s DEF Back, RollsBack, NoTaskInv
<1>3. ASSUME NEW t \in Threads, NoSpecification(t) \/ JobErrored(t) PROVE NoTaskInv'
  <2>2. wu' = wu /\ Written /\ Back
    BY <1>3, <1>0, WatchWork
  <2> QED BY <2>2, <1>u, <1>s DEF Back, RollsBack, NoTaskInv
<1>4. ASSUME NEW id \in Tasks, QueueTask(id) \/ DequeueTask(id) PROVE NoTaskInv'
  <2>2. UNCHANGED work
    BY <1>4, <1>0, ClientWork
  <2> QED BY <2>2, <1>u, <1>s DEF work, NoTaskInv
<1>5. CASE Abandon \/ Delete
  <2>2. Cleared /\ disk' = DeleteTaskState(disk, wu.id)
    BY <1>5, <1>0, ClientWork
  <2> QED BY <2>2, <1>u, <1>s DEF Cleared, NoTaskInv
<1>6. ASSUME NEW t \in Threads, RecordPrior(t) PROVE NoTaskInv'
  <2>2. SameTask /\ disk' = disk /\ SameState /\ (m'.prior = m.state \/ m'.prior = m.prior)
    BY <1>6, <1>0, BeginWork
  <2> QED BY <2>2, <1>u, <1>s DEF SameTask, SameState, NoTaskInv
<1>7. ASSUME NEW t \in Threads, EnterRejected(t) PROVE NoTaskInv'
  <2>2. wu' = wu /\ disk' = disk /\ SameState /\ m'.prior = ""
    BY <1>7, <1>0, BeginWork
  <2> QED BY <2>2, <1>u, <1>s DEF SameState, NoTaskInv
<1>8. ASSUME NEW t \in Threads, EnterPhase(t) PROVE NoTaskInv'
  <2>0. thr[t].op \in Phases
    BY <1>8, BeginMoves DEF OpInv, Owning
  <2>2. wu' = wu /\ disk' = disk /\ In(InProgressState[thr[t].op])
    BY <1>8, <1>0, BeginWork
  <2> QED BY <2>0, <2>2, <1>u, <1>s, <1>p DEF In, NoTaskInv
<1>9. ASSUME NEW t \in Threads, EnterReview(t) PROVE NoTaskInv'
  <2>2. wu' = wu /\ Written /\ In("reviewing")
    BY <1>9, <1>0, BeginWork
  <2> QED BY <2>2, <1>u, <1>s DEF In, NoTaskInv
<1>10. ASSUME NEW t \in Threads, LaunchNil(t) PROVE NoTaskInv'
  <2>2. (UNCHANGED work \/ (Reload /\ disk' = disk))
    BY <1>10, <1>0, BeginWork
  <2> QED BY <2>2, <1>u, <1>s DEF work, Reload, NoTaskInv
<1>11. ASSUME NEW t \in Threads, Launch(t) PROVE NoTaskInv'
  <2>2. wu # NoTask /\ wu' = wu /\ m' = m /\ Written
    BY <1>11, <1>0, BeginWork
  <2> QED BY <2>2, <1>u, <1>s DEF NoTaskInv
<1>12. ASSUME NEW t \in Threads, FixStarted(t) PROVE NoTaskInv'
  <2>2. (UNCHANGED work \/ (wu' = wu /\ m' = m /\ Written))
    BY <1>12, <1>0, BeginWork
  <2> QED BY <2>2, <1>u, <1>s DEF work, NoTaskInv
<1>13. ASSUME NEW t \in Threads, Completed(t) PROVE NoTaskInv'
  <2>2.
        /\ wu # NoTask /\ wu'.id = wu.id /\ wu'.impl = wu.impl /\ wu'.pr = wu.pr /\ m' = m
        /\ disk' = disk
    BY <1>13, <1>0, WatchWork
  <2> QED BY <2>2, <1>u, <1>s DEF NoTaskInv
<1>14. ASSUME NEW t \in Threads, Accept(t) PROVE NoTaskInv'
  <2>2. wu' = wu /\ m' = m /\ Written
    BY <1>14, <1>0, WatchWork
  <2> QED BY <2>2, <1>u, <1>s DEF NoTaskInv
<1>15. ASSUME NEW t \in Threads, FinalizeNil(t) PROVE NoTaskInv'
  <2>2. Reload /\ disk' = disk
    BY <1>15, <1>0, WatchWork
  <2> QED BY <2>2, <1>u, <1>s DEF Reload, NoTaskInv
<1>16. ASSUME NEW t \in Threads, Finalize(t) PROVE NoTaskInv'
  <2>0. thr[t].op \in Phases
    BY <1>16, WatchMoves DEF OpInv, Owning
  <2>2.
        /\ Written /\ Done(thr[t].op) /\ wu'.id = wu.id
        /\ (wu # NoTask => wu'.pr = wu.pr /\ wu'.impl = (wu.impl \/ thr[t].op = "implement"))
    BY <1>16, <1>0, WatchWork
  <2> QED BY <2>0, <2>2, <1>u, <1>s, <1>p DEF Done, SameState, NoTaskInv
<1>17. ASSUME NEW t \in Threads, PolicySkip(t) PROVE NoTaskInv'
  <2>0. thr[t].op \in Phases
    BY <1>17, WatchMoves DEF OpInv, Owning
  <2>2.
        /\ wu' = wu /\ Written /\ Done(thr[t].op) /\ Policy[thr[t].op] = "skip"
        /\ m.state = InProgressState[thr[t].op]
    BY <1>17, <1>0, WatchWork
  <2> QED BY <2>0, <2>2, <1>u, <1>s, <1>p DEF Done, SameState, NoTaskInv
<1>18. ASSUME NEW t \in Threads, GateDone(t) PROVE NoTaskInv'
  <2>2. SameTask /\ m' = m /\ (disk' = disk \/ Written)
    BY <1>18, <1>0, GateWork
  <2> QED BY <2>2, <1>u, <1>s DEF SameTask, NoTaskInv
<1>19. ASSUME NEW t \in Threads, GateDoubleClose(t) PROVE NoTaskInv'
  <2>2.
        /\ Reload
        /\ (disk' = disk \/ (wu # NoTask /\ \E w \in WorkUnit : w.id = wu.id /\ w.impl = wu.impl
              /\ w.specs = wu.specs /\ disk' = persistState(disk, w, m)))
    BY <1>19, <1>0, GateWork
  <2> QED BY <2>2, <1>u, <1>s DEF Reload, NoTaskInv
<1>20. ASSUME NEW t \in Threads, SubmitGateDone(t) PROVE NoTaskInv'
  <2>2. SameTask /\ m' = m /\ disk' = disk
    BY <1>20, <1>0, SubmitWork
  <2> QED BY <2>2, <1>u, <1>s DEF SameTask, NoTaskInv
<1>21. ASSUME NEW t \in Threads, SubmitDispatch(t) PROVE NoTaskInv'
  <2>2.
        /\ wu' = wu /\ disk' = disk
        /\ (m' = m \/ (m.state = "reviewing" /\ m'.state = "submitted" /\ m'.prior = m.prior
              /\ m'.interrupted = FALSE))
    BY <1>21, <1>0, SubmitWork
  <2> QED BY <2>2, <1>u, <1>s DEF NoTaskInv
<1>22. ASSUME NEW t \in Threads, SubmitStore(t) PROVE NoTaskInv'
  <2>2.
        /\ wu'.id = wu.id /\ m' = m /\ (wu = NoTask => wu' = wu /\ disk' = disk)
        /\ (wu # NoTask => Written /\ wu'.specs = wu.specs /\ wu'.impl = wu.impl)
    BY <1>22, <1>0, SubmitWork
  <2> QED BY <2>2, <1>u, <1>s DEF NoTaskInv
<1>23. ASSUME NEW t \in Clients, NEW op \in Phases \cup Reviews \cup {"submit"}, Request(t, op)
      PROVE NoTaskInv'
  <2>2. UNCHANGED work
    BY <1>23, <1>0, ClientWork
  <2> QED BY <2>2, <1>u, <1>s DEF work, NoTaskInv
<1>24. ASSUME NEW id \in Tasks, Start(id) PROVE NoTaskInv'
  <2>2. Begun(id)
    BY <1>24, <1>0, ClientWork
  <2> QED BY <2>2, <1>u, <1>s DEF Begun, NoTaskInv
<1>25. ASSUME NEW id \in Tasks, StartQueued(id) PROVE NoTaskInv'
  <2>2. UNCHANGED work \/ Begun(id)
    BY <1>25, <1>0, ClientWork
  <2> QED BY <2>2, <1>u, <1>s DEF Begun, work, NoTaskInv
<1>26. ASSUME NEW id \in Tasks, NEW position \in DOMAIN queue, ReorderQueue(id, position) PROVE
      NoTaskInv'
  <2>2. UNCHANGED work
    BY <1>26, <1>0, ClientWork
  <2> QED BY <2>2, <1>u, <1>s DEF work, NoTaskInv
<1>27. CASE Stop
  <2>2. wu' = wu /\ Written /\ Back
    BY <1>27, <1>0, ClientWork
  <2> QED BY <2>2, <1>u, <1>s DEF Back, RollsBack, NoTaskInv
<1>28. CASE Abort
  <2>2.
        /\ wu' = wu /\ Written /\ m.state # "none" /\ m'.state = "failed" /\ m'.prior = m.prior
        /\ m'.interrupted = FALSE
    BY <1>28, <1>0, ClientWork
  <2> QED BY <2>2, <1>u, <1>s DEF NoTaskInv
<1>29. CASE Reset
  <2>2.
        /\ wu' = wu /\ Written /\ m.state = "failed" /\ m'.prior = m.prior
        /\ (m' = m \/ (m'.state = "loaded" /\ m'.interrupted = FALSE))
    BY <1>29, <1>0, ClientWork
  <2> QED BY <2>2, <1>u, <1>s DEF NoTaskInv
<1>30. CASE UpdateTask
  <2>2. wu # NoTask /\ wu'.id = wu.id /\ wu'.impl = wu.impl /\ wu'.pr = wu.pr /\ m' = m /\ Written
    BY <1>30, <1>0, ClientWork
  <2> QED BY <2>2, <1>u, <1>s DEF NoTaskInv
<1>31. CASE Crash
  <2>2. Reload /\ disk' = disk
    BY <1>31, <1>0, ClientWork
  <2> QED BY <2>2, <1>u, <1>s DEF Reload, NoTaskInv
<1>32. ASSUME NEW force \in BOOLEAN, Finish(force) PROVE NoTaskInv'
  <2>2. Cleared /\ disk' = disk
    BY <1>32, <1>0, ClientWork
  <2> QED BY <2>2, <1>u, <1>s DEF Cleared, NoTaskInv
<1>33. CASE UNCHANGED vars
  BY <1>33 DEF vars, NoTaskInv
<1> QED
  BY <1>1, <1>2, <1>3, <1>4, <1>5, <1>6, <1>7, <1>8, <1>9, <1>10, <1>11, <1>12, <1>13, <1>14, <1>15,
     <1>16, <1>17, <1>18, <1>19, <1>20, <1>21, <1>22, <1>23, <1>24, <1>25, <1>26, <1>27, <1>28,
     <1>29, <1>30, <1>31, <1>32, <1>33 DEF Next, ClientStep, ThreadStep, Begin, Enter, Observe,
     Decide, Gate, Submit

LEMMA NextPrior ==
    ASSUME WorkType, ThrType, RestType, OpInv, LockInv, PriorInv, [Next]_vars
    PROVE  PriorInv'
<1>0. WorkType'
  BY NextWork
<1>e. /\ Unlocked => ~Entering
      /\ \A t \in Threads : thr[t].pc = "launch" => ~Entering
  BY NoneAssumption DEF Unlocked, Entering, LockInv
<1>p. \A op \in Phases : InProgressState[op] \in InProgress
  BY DEF Phases, InProgressState, InProgress
<1>s. /\ "none" \notin Stable /\ "none" \notin InProgress /\ Stable \cap InProgress = {}
      /\ Active = InProgress \cup {"reviewing"} /\ "reviewing" \notin Stable \cup InProgress
      /\ {"loaded", "planned", "implemented", "submitted"} = Stable
      /\ {"failed", ""} \cap (Stable \cup Active) = {}
  BY DEF Stable, Active, InProgress
<1>1. ASSUME NEW id \in Tasks, QueueTask(id) \/ DequeueTask(id) PROVE PriorInv'
  <2>1. Unlocked /\ thr' = thr /\ mu' = mu
    BY <1>1 DEF QueueTask, Handler, DequeueTask
  <2>2. UNCHANGED work
    BY <1>1, <1>0, ClientWork
  <2> QED BY <2>1, <2>2, <1>e, <1>s DEF Unlocked, work, PriorInv, Entering
<1>2. ASSUME NEW t \in Threads, Refused(t) PROVE PriorInv'
  <2>1. thr[t].pc = "hooks" /\ (thr[t].op \in Phases => Unlocked) /\ Moved(t, {"idle"}) /\ mu' = mu
    BY <1>2, BeginMoves
  <2>2. UNCHANGED work
    BY <1>2, <1>0, BeginWork
  <2> QED BY <2>1, <2>2, <1>e, <1>s DEF Moved, Kept, Unlocked, work, PriorInv, Entering
<1>3. ASSUME NEW t \in Threads, StreamClosed(t) PROVE PriorInv'
  <2>1. thr[t].pc = "watch" /\ Lossy /\ Moved(t, {"idle"}) /\ mu' = mu
    BY <1>3, WatchMoves
  <2>2. UNCHANGED work
    BY <1>3, <1>0, WatchWork
  <2> QED BY <2>1, <2>2, <1>e, <1>s DEF Moved, Kept, work, PriorInv, Entering, Unlocked
<1>4. ASSUME NEW t \in Threads, SelfCall(t) PROVE PriorInv'
  <2>1. thr[t].pc = "call" /\ Unlocked /\ Moved(t, {"idle", "risk", "hooks"}) /\ mu' \in {t, None}
    BY <1>4, BeginMoves
  <2>2. UNCHANGED work
    BY <1>4, <1>0, BeginWork
  <2> QED BY <2>1, <2>2, <1>e, <1>s DEF Moved, Kept, Unlocked, work, PriorInv, Entering
<1>5. ASSUME NEW t \in Threads, GuardrailsPass(t) PROVE PriorInv'
  <2>1. thr[t].pc = "guardrails" /\ Unlocked /\ Moved(t, {"launch"}) /\ mu' = t
    BY <1>5, BeginMoves
  <2>2. UNCHANGED work
    BY <1>5, <1>0, BeginWork
  <2> QED BY <2>1, <2>2, <1>e, <1>s DEF Moved, Kept, Unlocked, work, PriorInv, Entering
<1>6. ASSUME NEW t \in Threads, RecordPrior(t) PROVE PriorInv'
  <2>1.
        /\ thr[t].pc = "hooks" /\ Unlocked /\ thr[t].op \in Phases \cup Reviews /\ Moved(t, {"enter"})
        /\ mu' = t
    BY <1>6, BeginMoves
  <2>2. SameTask /\ disk' = disk /\ SameState /\ (m'.prior = m.state \/ m'.prior = m.prior)
    BY <1>6, <1>0, BeginWork
  <2> QED BY <2>1, <2>2, <1>e, <1>s DEF Moved, Kept, Unlocked, SameTask, SameState, PriorInv, Entering
<1>7. ASSUME NEW t \in Threads, EnterRejected(t) PROVE PriorInv'
  <2>1. thr[t].pc = "enter" /\ Moved(t, {"idle"}) /\ mu' = None
    BY <1>7, BeginMoves
  <2>2. wu' = wu /\ disk' = disk /\ SameState /\ m'.prior = ""
    BY <1>7, <1>0, BeginWork
  <2> QED BY <2>1, <2>2, <1>e, <1>s DEF Moved, Kept, SameState, PriorInv, Entering, Unlocked
<1>8. ASSUME NEW t \in Threads, EnterPhase(t) PROVE PriorInv'
  <2>0. thr[t].op \in Phases
    BY <1>8, BeginMoves DEF OpInv, Owning
  <2>1.
        /\ thr[t].pc = "enter" /\ thr[t].op \in Phases /\ Moved(t, {"guardrails", "launch"})
        /\ thr'[t].op = thr[t].op /\ (mu' = mu \/ (mu' = None /\ thr'[t].pc = "guardrails"))
    BY <1>8, BeginMoves
  <2>2. wu' = wu /\ disk' = disk /\ In(InProgressState[thr[t].op])
    BY <1>8, <1>0, BeginWork
  <2> QED BY <2>0, <2>1, <2>2, <1>e, <1>s, <1>p DEF In, Moved, Kept, Unlocked, PriorInv, Entering
<1>9. ASSUME NEW t \in Threads, EnterReview(t) PROVE PriorInv'
  <2>1. thr[t].pc = "enter" /\ Moved(t, {"fixsubmit", "spawngate"}) /\ mu' = None
    BY <1>9, BeginMoves
  <2>2. wu' = wu /\ Written /\ In("reviewing")
    BY <1>9, <1>0, BeginWork
  <2> QED BY <2>1, <2>2, <1>e, <1>s DEF Moved, Kept, In, PriorInv, Entering, Unlocked
<1>10. ASSUME NEW t \in Threads, GuardrailsFail(t) PROVE PriorInv'
  <2>1. thr[t].pc = "guardrails" /\ Unlocked /\ Moved(t, {"idle"}) /\ mu' = mu
    BY <1>10, BeginMoves
  <2>2. wu' = wu /\ disk' = disk /\ Back
    BY <1>10, <1>0, BeginWork
  <2> QED BY <2>1, <2>2, <1>e, <1>s DEF Moved, Kept, Unlocked, Back, RollsBack, PriorInv, Entering
<1>11. ASSUME NEW t \in Threads, LaunchNil(t) PROVE PriorInv'
  <2>1. thr[t].pc = "launch" /\ wu = NoTask /\ (AllIdle \/ Moved(t, {"idle"})) /\ mu' = None
    BY <1>11, BeginMoves
  <2>2. (UNCHANGED work \/ (Reload /\ disk' = disk))
    BY <1>11, <1>0, BeginWork
  <2> QED BY <2>1, <2>2, <1>e, <1>s DEF Moved, Kept, AllIdle, work, Reload, PriorInv, Entering,
      Unlocked
<1>12. ASSUME NEW t \in Threads, SubmitJobFails(t) PROVE PriorInv'
  <2>1. thr[t].pc = "launch" /\ Moved(t, {"idle"}) /\ mu' = None
    BY <1>12, BeginMoves
  <2>2. wu' = wu /\ disk' = disk /\ Back
    BY <1>12, <1>0, BeginWork
  <2> QED BY <2>1, <2>2, <1>e, <1>s DEF Moved, Kept, Back, RollsBack, PriorInv, Entering, Unlocked
<1>13. ASSUME NEW t \in Threads, Launch(t) PROVE PriorInv'
  <2>1. thr[t].pc = "launch"
    BY <1>13, BeginMoves
  <2>2. m' = m
    BY <1>13, <1>0, BeginWork
  <2> QED BY <2>1, <2>2, <1>e DEF PriorInv
<1>14. ASSUME NEW t \in Threads, FixRefused(t) PROVE PriorInv'
  <2>1. thr[t].pc = "fixsubmit" /\ Unlocked /\ Moved(t, {"idle"}) /\ mu' = mu
    BY <1>14, BeginMoves
  <2>2. wu' = wu /\ disk' = disk /\ Back
    BY <1>14, <1>0, BeginWork
  <2> QED BY <2>1, <2>2, <1>e, <1>s DEF Moved, Kept, Unlocked, Back, RollsBack, PriorInv, Entering
<1>15. ASSUME NEW t \in Threads, FixStarted(t) PROVE PriorInv'
  <2>1. Unlocked
    BY <1>15, BeginMoves
  <2>2. (UNCHANGED work \/ (wu' = wu /\ m' = m /\ Written))
    BY <1>15, <1>0, BeginWork
  <2> QED BY <2>1, <2>2, <1>e DEF work, PriorInv
<1>16. ASSUME NEW t \in Threads, CompletedNoTask(t) PROVE PriorInv'
  <2>1. thr[t].pc = "watch" /\ Unlocked /\ wu = NoTask /\ Moved(t, {"idle", "call"}) /\ mu' = mu
    BY <1>16, WatchMoves
  <2>2. UNCHANGED work
    BY <1>16, <1>0, WatchWork
  <2> QED BY <2>1, <2>2, <1>e, <1>s DEF Moved, Kept, Unlocked, work, PriorInv, Entering
<1>17. ASSUME NEW t \in Threads, NoSpecification(t) PROVE PriorInv'
  <2>1. thr[t].pc = "watch" /\ Unlocked /\ Moved(t, {"idle"}) /\ mu' = mu
    BY <1>17, WatchMoves
  <2>2. wu' = wu /\ Written /\ Back
    BY <1>17, <1>0, WatchWork
  <2> QED BY <2>1, <2>2, <1>e, <1>s DEF Moved, Kept, Unlocked, Back, RollsBack, PriorInv, Entering
<1>18. ASSUME NEW t \in Threads, Completed(t) PROVE PriorInv'
  <2>1. thr[t].pc = "watch" /\ Unlocked /\ Moved(t, {"validate"}) /\ mu' = mu
    BY <1>18, WatchMoves
  <2>2.
        /\ wu # NoTask /\ wu'.id = wu.id /\ wu'.impl = wu.impl /\ wu'.pr = wu.pr /\ m' = m
        /\ disk' = disk
    BY <1>18, <1>0, WatchWork
  <2> QED BY <2>1, <2>2, <1>e, <1>s DEF Moved, Kept, Unlocked, PriorInv, Entering
<1>19. ASSUME NEW t \in Threads, Failed(t) PROVE PriorInv'
  <2>1.
        /\ thr[t].pc = "watch" /\ Unlocked
        /\ (Moved(t, {"policy"}) \/ (wu = NoTask /\ Moved(t, {"idle"}))) /\ mu' = mu
    BY <1>19, WatchMoves
  <2>2. UNCHANGED work
    BY <1>19, <1>0, WatchWork
  <2> QED BY <2>1, <2>2, <1>e, <1>s DEF Moved, Kept, Unlocked, work, PriorInv, Entering
<1>20. ASSUME NEW t \in Threads, Iterate(t) PROVE PriorInv'
  <2>1. thr[t].pc = "validate" /\ Unlocked /\ Iterative /\ Moved(t, {"call"}) /\ mu' = mu
    BY <1>20, WatchMoves
  <2>2. UNCHANGED work
    BY <1>20, <1>0, WatchWork
  <2> QED BY <2>1, <2>2, <1>e, <1>s DEF Moved, Kept, Unlocked, work, PriorInv, Entering
<1>21. ASSUME NEW t \in Threads, Accept(t) PROVE PriorInv'
  <2>1. thr[t].pc = "validate" /\ Unlocked /\ Moved(t, {"finalize"}) /\ mu' = mu
    BY <1>21, WatchMoves
  <2>2. wu' = wu /\ m' = m /\ Written
    BY <1>21, <1>0, WatchWork
  <2> QED BY <2>1, <2>2, <1>e, <1>s DEF Moved, Kept, Unlocked, PriorInv, Entering
<1>22. ASSUME NEW t \in Threads, FinalizeNil(t) PROVE PriorInv'
  <2>1. thr[t].pc = "finalize" /\ Unlocked /\ AllIdle /\ mu' = None
    BY <1>22, WatchMoves
  <2>2. Reload /\ disk' = disk
    BY <1>22, <1>0, WatchWork
  <2> QED BY <2>1, <2>2, <1>e, <1>s DEF AllIdle, Unlocked, Reload, PriorInv, Entering
<1>23. ASSUME NEW t \in Threads, Finalize(t) PROVE PriorInv'
  <2>0. thr[t].op \in Phases
    BY <1>23, WatchMoves DEF OpInv, Owning
  <2>1. thr[t].pc = "finalize" /\ Unlocked /\ Moved(t, {"idle", "call"}) /\ mu' = mu
    BY <1>23, WatchMoves
  <2>2.
        /\ Written /\ Done(thr[t].op) /\ wu'.id = wu.id
        /\ (wu # NoTask => wu'.pr = wu.pr /\ wu'.impl = (wu.impl \/ thr[t].op = "implement"))
    BY <1>23, <1>0, WatchWork
  <2> QED BY <2>0, <2>1, <2>2, <1>e, <1>s, <1>p DEF Done, SameState, Moved, Kept, Unlocked, PriorInv,
      Entering
<1>24. ASSUME NEW t \in Threads, PolicyRetry(t) PROVE PriorInv'
  <2>1.
        /\ thr[t].pc = "policy" /\ Unlocked /\ Policy[thr[t].op] = "retry"
        /\ Moved(t, {"idle", "call"}) /\ mu' = mu
    BY <1>24, WatchMoves
  <2>2. UNCHANGED work
    BY <1>24, <1>0, WatchWork
  <2> QED BY <2>1, <2>2, <1>e, <1>s DEF Moved, Kept, Unlocked, work, PriorInv, Entering
<1>25. ASSUME NEW t \in Threads, PolicySkip(t) PROVE PriorInv'
  <2>0. thr[t].op \in Phases
    BY <1>25, WatchMoves DEF OpInv, Owning
  <2>1. thr[t].pc = "policy" /\ Unlocked /\ Moved(t, {"idle", "call"}) /\ mu' = mu
    BY <1>25, WatchMoves
  <2>2.
        /\ wu' = wu /\ Written /\ Done(thr[t].op) /\ Policy[thr[t].op] = "skip"
        /\ m.state = InProgressState[thr[t].op]
    BY <1>25, <1>0, WatchWork
  <2> QED BY <2>0, <2>1, <2>2, <1>e, <1>s, <1>p DEF Done, SameState, Moved, Kept, Unlocked, PriorInv,
      Entering
<1>26. ASSUME NEW t \in Threads, PolicyFail(t) PROVE PriorInv'
  <2>1. thr[t].pc = "policy" /\ Unlocked /\ Moved(t, {"errored"}) /\ mu' = mu
    BY <1>26, WatchMoves
  <2>2. UNCHANGED work
    BY <1>26, <1>0, WatchWork
  <2> QED BY <2>1, <2>2, <1>e, <1>s DEF Moved, Kept, Unlocked, work, PriorInv, Entering
<1>27. ASSUME NEW t \in Threads, JobErrored(t) PROVE PriorInv'
  <2>1. thr[t].pc = "errored" /\ Unlocked /\ Moved(t, {"idle"}) /\ mu' = mu
    BY <1>27, WatchMoves
  <2>2. wu' = wu /\ Written /\ Back
    BY <1>27, <1>0, WatchWork
  <2> QED BY <2>1, <2>2, <1>e, <1>s DEF Moved, Kept, Unlocked, Back, RollsBack, PriorInv, Entering
<1>28. ASSUME NEW t \in Threads, SpawnGate(t) PROVE PriorInv'
  <2>1. Unlocked
    BY <1>28, GateMoves
  <2>2. UNCHANGED work
    BY <1>28, <1>0, GateWork
  <2> QED BY <2>1, <2>2, <1>e DEF work, PriorInv
<1>29. ASSUME NEW t \in Threads, GateDone(t) PROVE PriorInv'
  <2>1. thr[t].pc = "gate" /\ Unlocked /\ Moved(t, {"idle"}) /\ mu' = mu
    BY <1>29, GateMoves
  <2>2. SameTask /\ m' = m /\ (disk' = disk \/ Written)
    BY <1>29, <1>0, GateWork
  <2> QED BY <2>1, <2>2, <1>e, <1>s DEF Moved, Kept, Unlocked, SameTask, PriorInv, Entering
<1>30. ASSUME NEW t \in Threads, GateDoubleClose(t) PROVE PriorInv'
  <2>1. thr[t].pc = "gate" /\ Unlocked /\ AllIdle /\ mu' = None
    BY <1>30, GateMoves
  <2>2.
        /\ Reload
        /\ (disk' = disk \/ (wu # NoTask /\ \E w \in WorkUnit : w.id = wu.id /\ w.impl = wu.impl
              /\ w.specs = wu.specs /\ disk' = persistState(disk, w, m)))
    BY <1>30, <1>0, GateWork
  <2> QED BY <2>1, <2>2, <1>e, <1>s DEF AllIdle, Unlocked, Reload, PriorInv, Entering
<1>31. ASSUME NEW t \in Threads, SubmitGate(t) PROVE PriorInv'
  <2>1.
        /\ thr[t].pc = "hooks" /\ Unlocked /\ thr[t].op = "submit"
        /\ Moved(t, {"idle", "network", "syncgate", "waitgate", "gated"}) /\ mu' \in {t, None}
    BY <1>31, SubmitMoves
  <2>2. UNCHANGED work
    BY <1>31, <1>0, SubmitWork
  <2> QED BY <2>1, <2>2, <1>e, <1>s DEF Moved, Kept, Unlocked, work, PriorInv, Entering
<1>32. ASSUME NEW t \in Threads, SubmitWaited(t) PROVE PriorInv'
  <2>1. thr[t].pc = "gated" /\ Unlocked /\ Moved(t, {"idle", "network"}) /\ mu' \in {t, None}
    BY <1>32, SubmitMoves
  <2>2. UNCHANGED work
    BY <1>32, <1>0, SubmitWork
  <2> QED BY <2>1, <2>2, <1>e, <1>s DEF Moved, Kept, Unlocked, work, PriorInv, Entering
<1>33. ASSUME NEW t \in Threads, SubmitGateDone(t) PROVE PriorInv'
  <2>1. thr[t].pc = "syncgate" /\ Unlocked /\ Moved(t, {"idle", "network"}) /\ mu' \in {t, None}
    BY <1>33, SubmitMoves
  <2>2. SameTask /\ m' = m /\ disk' = disk
    BY <1>33, <1>0, SubmitWork
  <2> QED BY <2>1, <2>2, <1>e, <1>s DEF Moved, Kept, Unlocked, SameTask, PriorInv, Entering
<1>34. ASSUME NEW t \in Threads, NetworkFails(t) PROVE PriorInv'
  <2>1. thr[t].pc = "network" /\ Moved(t, {"idle"}) /\ mu' = mu
    BY <1>34, SubmitMoves
  <2>2. UNCHANGED work
    BY <1>34, <1>0, SubmitWork
  <2> QED BY <2>1, <2>2, <1>e, <1>s DEF Moved, Kept, work, PriorInv, Entering, Unlocked
<1>35. ASSUME NEW t \in Threads, NetworkDone(t) PROVE PriorInv'
  <2>1. thr[t].pc = "network" /\ Moved(t, {"dispatch"}) /\ thr'[t].task = thr[t].task /\ mu' = mu
    BY <1>35, SubmitMoves
  <2>2. UNCHANGED work
    BY <1>35, <1>0, SubmitWork
  <2> QED BY <2>1, <2>2, <1>e, <1>s DEF Moved, Kept, work, PriorInv, Entering, Unlocked
<1>36. ASSUME NEW t \in Threads, SubmitDispatch(t) PROVE PriorInv'
  <2>1. thr[t].pc = "dispatch" /\ Moved(t, {"store", "idle"}) /\ mu' = mu
    BY <1>36, SubmitMoves
  <2>2.
        /\ wu' = wu /\ disk' = disk
        /\ (m' = m \/ (m.state = "reviewing" /\ m'.state = "submitted" /\ m'.prior = m.prior
              /\ m'.interrupted = FALSE))
    BY <1>36, <1>0, SubmitWork
  <2> QED BY <2>1, <2>2, <1>e, <1>s DEF Moved, Kept, PriorInv, Entering, Unlocked
<1>37. ASSUME NEW t \in Threads, SubmitStore(t) PROVE PriorInv'
  <2>1. thr[t].pc = "store" /\ Unlocked /\ Moved(t, {"idle"}) /\ mu' = mu
    BY <1>37, SubmitMoves
  <2>2.
        /\ wu'.id = wu.id /\ m' = m /\ (wu = NoTask => wu' = wu /\ disk' = disk)
        /\ (wu # NoTask => Written /\ wu'.specs = wu.specs /\ wu'.impl = wu.impl)
    BY <1>37, <1>0, SubmitWork
  <2> QED BY <2>1, <2>2, <1>e, <1>s DEF Moved, Kept, Unlocked, PriorInv, Entering
<1>38. ASSUME NEW t \in Clients, NEW op \in Phases \cup Reviews \cup {"submit"}, Request(t, op)
      PROVE PriorInv'
  <2>1.
        /\ t \in Threads /\ thr[t].pc = "idle" /\ Unlocked /\ op \in Requests /\ ThrType'
        /\ thr'[t].pc \in {"risk", "hooks"} /\ thr'[t].op = op /\ mu' \in {t, None}
        /\ (\A u \in Threads \ {t} : Kept(u))
    BY <1>38, ClientMoves
  <2>2. UNCHANGED work
    BY <1>38, <1>0, ClientWork
  <2> QED BY <2>1, <2>2, <1>e, <1>s DEF Kept, Unlocked, work, PriorInv, Entering
<1>39. ASSUME NEW id \in Tasks, Start(id) PROVE PriorInv'
  <2>1. Unlocked /\ thr' = thr /\ mu' = mu
    BY <1>39 DEF Start, Handler
  <2>2. Begun(id)
    BY <1>39, <1>0, ClientWork
  <2> QED BY <2>1, <2>2, <1>e, <1>s DEF Unlocked, Begun, PriorInv, Entering
<1>40. ASSUME NEW id \in Tasks, StartQueued(id) PROVE PriorInv'
  <2>1. Unlocked /\ thr' = thr /\ mu' = mu
    BY <1>40 DEF StartQueued
  <2>2. UNCHANGED work \/ Begun(id)
    BY <1>40, <1>0, ClientWork
  <2> QED BY <2>1, <2>2, <1>e, <1>s DEF Unlocked, Begun, work, PriorInv, Entering
<1>41. ASSUME NEW id \in Tasks, NEW position \in DOMAIN queue, ReorderQueue(id, position) PROVE
      PriorInv'
  <2>1. Unlocked /\ thr' = thr /\ mu' = mu
    BY <1>41 DEF ReorderQueue, Handler
  <2>2. UNCHANGED work
    BY <1>41, <1>0, ClientWork
  <2> QED BY <2>1, <2>2, <1>e, <1>s DEF Unlocked, work, PriorInv, Entering
<1>42. CASE Stop
  <2>1. Unlocked /\ mu' = mu /\ ThrType' /\ (\A u \in Threads : Kept(u))
    BY <1>42, ClientMoves
  <2>2. wu' = wu /\ Written /\ Back
    BY <1>42, <1>0, ClientWork
  <2> QED BY <2>1, <2>2, <1>e, <1>s DEF Kept, Unlocked, Back, RollsBack, PriorInv, Entering
<1>43. CASE Abort
  <2>1. Unlocked /\ thr' = thr /\ mu' = mu
    BY <1>43 DEF Abort, Handler
  <2>2.
        /\ wu' = wu /\ Written /\ m.state # "none" /\ m'.state = "failed" /\ m'.prior = m.prior
        /\ m'.interrupted = FALSE
    BY <1>43, <1>0, ClientWork
  <2> QED BY <2>1, <2>2, <1>e, <1>s DEF Unlocked, PriorInv, Entering
<1>44. CASE Reset
  <2>1. Unlocked /\ thr' = thr /\ mu' = mu
    BY <1>44 DEF Reset, Handler
  <2>2.
        /\ wu' = wu /\ Written /\ m.state = "failed" /\ m'.prior = m.prior
        /\ (m' = m \/ (m'.state = "loaded" /\ m'.interrupted = FALSE))
    BY <1>44, <1>0, ClientWork
  <2> QED BY <2>1, <2>2, <1>e, <1>s DEF Unlocked, PriorInv, Entering
<1>45. CASE UpdateTask
  <2>1. Unlocked
    BY <1>45 DEF UpdateTask, Handler
  <2>2. wu # NoTask /\ wu'.id = wu.id /\ wu'.impl = wu.impl /\ wu'.pr = wu.pr /\ m' = m /\ Written
    BY <1>45, <1>0, ClientWork
  <2> QED BY <2>1, <2>2, <1>e DEF PriorInv
<1>46. CASE Abandon
  <2>1. Unlocked
    BY <1>46, ClientMoves
  <2>2. Cleared /\ disk' = DeleteTaskState(disk, wu.id)
    BY <1>46, <1>0, ClientWork
  <2> QED BY <2>1, <2>2, <1>e DEF Cleared, PriorInv
<1>47. CASE Delete
  <2>1. Unlocked /\ thr' = thr /\ mu' = mu
    BY <1>47 DEF Delete, Handler
  <2>2. Cleared /\ disk' = DeleteTaskState(disk, wu.id)
    BY <1>47, <1>0, ClientWork
  <2> QED BY <2>1, <2>2, <1>e, <1>s DEF Unlocked, Cleared, PriorInv, Entering
<1>48. CASE Crash
  <2>1. AllIdle
    BY <1>48, ClientMoves
  <2>2. Reload /\ disk' = disk
    BY <1>48, <1>0, ClientWork
  <2> QED BY <2>1, <2>2, <1>e, <1>s DEF AllIdle, Reload, PriorInv, Entering, Unlocked
<1>49. ASSUME NEW force \in BOOLEAN, Finish(force) PROVE PriorInv'
  <2>1. Unlocked /\ thr' = thr /\ mu' = mu
    BY <1>49 DEF Finish, Handler
  <2>2. Cleared /\ disk' = disk
    BY <1>49, <1>0, ClientWork
  <2> QED BY <2>1, <2>2, <1>e, <1>s DEF Unlocked, Cleared, PriorInv, Entering
<1>50. CASE UNCHANGED vars
  BY <1>50 DEF vars, PriorInv, Entering, Unlocked
<1> QED
  BY <1>1, <1>2, <1>3, <1>4, <1>5, <1>6, <1>7, <1>8, <1>9, <1>10, <1>11, <1>12, <1>13, <1>14, <1>15,
     <1>16, <1>17, <1>18, <1>19, <1>20, <1>21, <1>22, <1>23, <1>24, <1>25, <1>26, <1>27, <1>28,
     <1>29, <1>30, <1>31, <1>32, <1>33, <1>34, <1>35, <1>36, <1>37, <1>38, <1>39, <1>40, <1>41,
     <1>42, <1>43, <1>44, <1>45, <1>46, <1>47, <1>48, <1>49, <1>50 DEF Next, ClientStep,
     ThreadStep, Begin, Enter, Observe, Decide, Gate, Submit

-----------------------------------------------------------------------------
(* The ownership of a phase in progress.                                   *)

\* Every job tells how it ended, and is not run again on its own.
OneVerdict == ~Lossy /\ ~Iterative /\ \A p \in Phases : Policy[p] # "retry"

LEMMA NextOwned ==
    ASSUME WorkType, ThrType, RestType, OpInv, OneVerdict, BaseInv, OwnedInv, [Next]_vars
    PROVE  OwnedInv'
<1> USE DEF BaseInv
<1>0. WorkType'
  BY NextWork
<1>e. /\ Unlocked => ~Entering
      /\ \A t \in Threads : thr[t].pc = "launch" => ~Entering
  BY NoneAssumption DEF Unlocked, Entering, LockInv
<1>p. \A op \in Phases : InProgressState[op] \in InProgress
  BY DEF Phases, InProgressState, InProgress
<1>d. \A op \in Phases : DoneTo[Completion[op]] \in {"planned", "implemented"}
  BY DEF Phases, DoneTo, Completion
<1>s. /\ "none" \notin Stable /\ "none" \notin InProgress /\ Stable \cap InProgress = {}
      /\ Active = InProgress \cup {"reviewing"} /\ "reviewing" \notin Stable \cup InProgress
      /\ {"loaded", "planned", "implemented", "submitted"} = Stable
      /\ {"failed", ""} \cap (Stable \cup Active) = {}
  BY DEF Stable, Active, InProgress
<1>1. ASSUME NEW t \in Threads, StreamClosed(t) \/ Iterate(t) PROVE OwnedInv'
  BY <1>1, WatchMoves DEF OneVerdict
<1>2. ASSUME NEW id \in Tasks, QueueTask(id) \/ DequeueTask(id) PROVE OwnedInv'
  <2>1. Unlocked /\ thr' = thr /\ mu' = mu
    BY <1>2 DEF QueueTask, Handler, DequeueTask
  <2>2. UNCHANGED work
    BY <1>2, <1>0, ClientWork
  <2> QED BY <2>1, <2>2, <1>e, <1>s DEF Unlocked, work, OwnedInv, Owning, PriorInv, NoTaskInv
<1>3. ASSUME NEW t \in Threads, Refused(t) PROVE OwnedInv'
  <2>1. thr[t].pc = "hooks" /\ (thr[t].op \in Phases => Unlocked) /\ Moved(t, {"idle"}) /\ mu' = mu
    BY <1>3, BeginMoves
  <2>2. UNCHANGED work
    BY <1>3, <1>0, BeginWork
  <2> QED BY <2>1, <2>2, <1>e, <1>s DEF Moved, Kept, Unlocked, work, OwnedInv, Owning, PriorInv,
      NoTaskInv
<1>4. ASSUME NEW t \in Threads, SelfCall(t) PROVE OwnedInv'
  <2>1. thr[t].pc = "call" /\ Unlocked /\ Moved(t, {"idle", "risk", "hooks"}) /\ mu' \in {t, None}
    BY <1>4, BeginMoves
  <2>2. UNCHANGED work
    BY <1>4, <1>0, BeginWork
  <2> QED BY <2>1, <2>2, <1>e, <1>s DEF Moved, Kept, Unlocked, work, OwnedInv, Owning, PriorInv,
      NoTaskInv
<1>5. ASSUME NEW t \in Threads, GuardrailsPass(t) PROVE OwnedInv'
  <2>1. thr[t].pc = "guardrails" /\ Unlocked /\ Moved(t, {"launch"}) /\ mu' = t
    BY <1>5, BeginMoves
  <2>2. UNCHANGED work
    BY <1>5, <1>0, BeginWork
  <2> QED BY <2>1, <2>2, <1>e, <1>s, Zenon DEF Moved, Kept, Unlocked, work, OwnedInv, Owning, PriorInv,
      NoTaskInv
<1>6. ASSUME NEW t \in Threads, RecordPrior(t) PROVE OwnedInv'
  <2>1.
        /\ thr[t].pc = "hooks" /\ Unlocked /\ thr[t].op \in Phases \cup Reviews /\ Moved(t, {"enter"})
        /\ mu' = t
    BY <1>6, BeginMoves
  <2>2. SameTask /\ disk' = disk /\ SameState /\ (m'.prior = m.state \/ m'.prior = m.prior)
    BY <1>6, <1>0, BeginWork
  <2>3. SUFFICES ASSUME m'.state \in InProgress, ~m'.interrupted
        PROVE  \E u \in Threads : thr'[u].pc \in Owning /\ InProgressState[thr'[u].op] = m'.state
    BY DEF OwnedInv
  <2>4. m'.state = m.state /\ ~m.interrupted
    BY <2>2, <2>3 DEF SameState
  <2>5. PICK u \in Threads : thr[u].pc \in Owning /\ InProgressState[thr[u].op] = m.state
    BY <2>3, <2>4 DEF OwnedInv
  <2> QED BY <2>1, <2>4, <2>5 DEF Moved, Kept, Owning
<1>7. ASSUME NEW t \in Threads, EnterRejected(t) PROVE OwnedInv'
  <2>1. thr[t].pc = "enter" /\ Moved(t, {"idle"}) /\ mu' = None
    BY <1>7, BeginMoves
  <2>2. wu' = wu /\ disk' = disk /\ SameState /\ m'.prior = ""
    BY <1>7, <1>0, BeginWork
  <2> QED BY <2>1, <2>2, <1>e, <1>s DEF Moved, Kept, SameState, OwnedInv, Owning, PriorInv, NoTaskInv
<1>8. ASSUME NEW t \in Threads, EnterPhase(t) PROVE OwnedInv'
  <2>0. thr[t].op \in Phases
    BY <1>8, BeginMoves DEF OpInv, Owning
  <2>1.
        /\ thr[t].pc = "enter" /\ thr[t].op \in Phases /\ Moved(t, {"guardrails", "launch"})
        /\ thr'[t].op = thr[t].op /\ (mu' = mu \/ (mu' = None /\ thr'[t].pc = "guardrails"))
    BY <1>8, BeginMoves
  <2>2. wu' = wu /\ disk' = disk /\ In(InProgressState[thr[t].op])
    BY <1>8, <1>0, BeginWork
  <2> QED BY <2>0, <2>1, <2>2, <1>e, <1>s, <1>p, ZenonT(40) DEF In, Moved, Kept, Unlocked, OwnedInv, Owning,
      PriorInv, NoTaskInv
<1>9. ASSUME NEW t \in Threads, EnterReview(t) PROVE OwnedInv'
  <2>1. thr[t].pc = "enter" /\ Moved(t, {"fixsubmit", "spawngate"}) /\ mu' = None
    BY <1>9, BeginMoves
  <2>2. wu' = wu /\ Written /\ In("reviewing")
    BY <1>9, <1>0, BeginWork
  <2> QED BY <2>1, <2>2, <1>e, <1>s DEF Moved, Kept, In, OwnedInv, Owning, PriorInv, NoTaskInv
<1>10. ASSUME NEW t \in Threads, GuardrailsFail(t) PROVE OwnedInv'
  <2>1. thr[t].pc = "guardrails" /\ Unlocked /\ Moved(t, {"idle"}) /\ mu' = mu
    BY <1>10, BeginMoves
  <2>2. wu' = wu /\ disk' = disk /\ Back
    BY <1>10, <1>0, BeginWork
  <2> QED BY <2>1, <2>2, <1>e, <1>s DEF Moved, Kept, Unlocked, Back, RollsBack, OwnedInv, Owning,
      PriorInv, NoTaskInv
<1>11. ASSUME NEW t \in Threads, LaunchNil(t) PROVE OwnedInv'
  <2>1. thr[t].pc = "launch" /\ wu = NoTask /\ (AllIdle \/ Moved(t, {"idle"})) /\ mu' = None
    BY <1>11, BeginMoves
  <2>2. (UNCHANGED work \/ (Reload /\ disk' = disk))
    BY <1>11, <1>0, BeginWork
  <2> QED BY <2>1, <2>2, <1>e, <1>s DEF Moved, Kept, AllIdle, work, Reload, OwnedInv, Owning,
      PriorInv, NoTaskInv
<1>12. ASSUME NEW t \in Threads, SubmitJobFails(t) PROVE OwnedInv'
  <2>1. thr[t].pc = "launch" /\ Moved(t, {"idle"}) /\ mu' = None
    BY <1>12, BeginMoves
  <2>2. wu' = wu /\ disk' = disk /\ Back
    BY <1>12, <1>0, BeginWork
  <2> QED BY <2>1, <2>2, <1>e, <1>s DEF Moved, Kept, Back, RollsBack, OwnedInv, Owning, PriorInv,
      NoTaskInv
<1>13. ASSUME NEW t \in Threads, Launch(t) PROVE OwnedInv'
  <2>0. thr[t].pc = "launch" /\ Handed(t, "idle", "watch", thr[t].op) /\ mu' = None
    BY <1>13, BeginMoves
  <2>1. PICK r \in Runs :
          /\ r = t \/ thr[r].pc = "idle"
          /\ thr'[r].pc = "watch" /\ thr'[r].op = thr[t].op
          /\ r # t => thr'[t].pc = "idle" /\ thr'[t].op \in {"", thr[t].op}
          /\ \A u \in Threads \ {t, r} : Kept(u)
    BY <2>0 DEF Handed
  <2>2. r \in Threads
    BY DEF Threads
  <2>3. wu # NoTask /\ wu' = wu /\ m' = m /\ Written
    BY <1>13, <1>0, BeginWork
  <2>4. SUFFICES ASSUME m'.state \in InProgress, ~m'.interrupted
        PROVE  \E u \in Threads : thr'[u].pc \in Owning /\ InProgressState[thr'[u].op] = m'.state
    BY DEF OwnedInv
  <2>5. PICK u \in Threads : thr[u].pc \in Owning /\ InProgressState[thr[u].op] = m.state
    BY <2>3, <2>4 DEF OwnedInv
  <2>6. CASE u = t
    BY <2>1, <2>2, <2>3, <2>5, <2>6 DEF Owning
  <2>7. CASE u # t
    <3>1. u # r
      BY <2>1, <2>5, <2>7 DEF Owning
    <3> QED BY <2>1, <2>3, <2>5, <2>7, <3>1 DEF Kept, Owning
  <2> QED BY <2>6, <2>7
<1>14. ASSUME NEW t \in Threads, FixRefused(t) PROVE OwnedInv'
  <2>1. thr[t].pc = "fixsubmit" /\ Unlocked /\ Moved(t, {"idle"}) /\ mu' = mu
    BY <1>14, BeginMoves
  <2>2. wu' = wu /\ disk' = disk /\ Back
    BY <1>14, <1>0, BeginWork
  <2> QED BY <2>1, <2>2, <1>e, <1>s DEF Moved, Kept, Unlocked, Back, RollsBack, OwnedInv, Owning,
      PriorInv, NoTaskInv
<1>15. ASSUME NEW t \in Threads, FixStarted(t) PROVE OwnedInv'
  <2>0. thr[t].pc = "fixsubmit" /\ Unlocked /\ mu' \in {t, None}
    BY <1>15, BeginMoves
  <2>3. (UNCHANGED work \/ (wu' = wu /\ m' = m /\ Written))
    BY <1>15, <1>0, BeginWork
  <2>1. CASE Moved(t, {"idle"})
    BY <2>0, <2>1, <2>3, <1>e, <1>s, ZenonT(40) DEF Moved, Kept, work, OwnedInv, Owning, PriorInv, NoTaskInv
  <2>2. CASE Handed(t, "spawngate", "watch", "implement")
    <3>1. PICK r \in Runs :
            /\ r = t \/ thr[r].pc = "idle"
            /\ thr'[r].pc = "watch" /\ thr'[r].op = "implement"
            /\ r # t => thr'[t].pc = "spawngate" /\ thr'[t].op \in {"", thr[t].op}
            /\ \A u \in Threads \ {t, r} : Kept(u)
      BY <2>2 DEF Handed
    <3>2. r \in Threads
      BY DEF Threads
    <3> QED BY <2>0, <3>1, <3>2, <2>3, <1>e, <1>s DEF Kept, work, OwnedInv, Owning, PriorInv,
        NoTaskInv
  <2> QED BY <1>15, <2>1, <2>2, BeginMoves
<1>16. ASSUME NEW t \in Threads, CompletedNoTask(t) PROVE OwnedInv'
  <2>1. thr[t].pc = "watch" /\ Unlocked /\ wu = NoTask /\ Moved(t, {"idle", "call"}) /\ mu' = mu
    BY <1>16, WatchMoves
  <2>2. UNCHANGED work
    BY <1>16, <1>0, WatchWork
  <2> QED BY <2>1, <2>2, <1>e, <1>s DEF Moved, Kept, Unlocked, work, OwnedInv, Owning, PriorInv,
      NoTaskInv
<1>17. ASSUME NEW t \in Threads, NoSpecification(t) PROVE OwnedInv'
  <2>1. thr[t].pc = "watch" /\ Unlocked /\ Moved(t, {"idle"}) /\ mu' = mu
    BY <1>17, WatchMoves
  <2>2. wu' = wu /\ Written /\ Back
    BY <1>17, <1>0, WatchWork
  <2> QED BY <2>1, <2>2, <1>e, <1>s DEF Moved, Kept, Unlocked, Back, RollsBack, OwnedInv, Owning,
      PriorInv, NoTaskInv
<1>18. ASSUME NEW t \in Threads, Completed(t) PROVE OwnedInv'
  <2>1. thr[t].pc = "watch" /\ Unlocked /\ Moved(t, {"validate"}) /\ mu' = mu
    BY <1>18, WatchMoves
  <2>2.
        /\ wu # NoTask /\ wu'.id = wu.id /\ wu'.impl = wu.impl /\ wu'.pr = wu.pr /\ m' = m
        /\ disk' = disk
    BY <1>18, <1>0, WatchWork
  <2>3. SUFFICES ASSUME m'.state \in InProgress, ~m'.interrupted
        PROVE  \E u \in Threads : thr'[u].pc \in Owning /\ InProgressState[thr'[u].op] = m'.state
    BY DEF OwnedInv
  <2>4. m'.state = m.state /\ ~m.interrupted
    BY <2>2, <2>3
  <2>5. PICK u \in Threads : thr[u].pc \in Owning /\ InProgressState[thr[u].op] = m.state
    BY <2>3, <2>4 DEF OwnedInv
  <2>6. u # t => thr'[u].pc = thr[u].pc /\ thr'[u].op = thr[u].op
    BY <2>1, <2>5 DEF Moved, Kept, Owning
  <2>7. u = t => thr'[u].pc = "validate" /\ thr'[u].op = thr[u].op
    BY <2>1 DEF Moved
  <2> QED BY <2>4, <2>5, <2>6, <2>7 DEF Owning
<1>19. ASSUME NEW t \in Threads, Failed(t) PROVE OwnedInv'
  <2>1.
        /\ thr[t].pc = "watch" /\ Unlocked
        /\ (Moved(t, {"policy"}) \/ (wu = NoTask /\ Moved(t, {"idle"}))) /\ mu' = mu
    BY <1>19, WatchMoves
  <2>2. UNCHANGED work
    BY <1>19, <1>0, WatchWork
  <2> QED BY <2>1, <2>2, <1>e, <1>s DEF Moved, Kept, Unlocked, work, OwnedInv, Owning, PriorInv,
      NoTaskInv
<1>20. ASSUME NEW t \in Threads, Accept(t) PROVE OwnedInv'
  <2>1. thr[t].pc = "validate" /\ Unlocked /\ Moved(t, {"finalize"}) /\ mu' = mu
    BY <1>20, WatchMoves
  <2>2. wu' = wu /\ m' = m /\ Written
    BY <1>20, <1>0, WatchWork
  <2> QED BY <2>1, <2>2, <1>e, <1>s, ZenonT(40) DEF Moved, Kept, Unlocked, OwnedInv, Owning, PriorInv, NoTaskInv
<1>21. ASSUME NEW t \in Threads, FinalizeNil(t) PROVE OwnedInv'
  <2>1. thr[t].pc = "finalize" /\ Unlocked /\ AllIdle /\ mu' = None
    BY <1>21, WatchMoves
  <2>2. Reload /\ disk' = disk
    BY <1>21, <1>0, WatchWork
  <2> QED BY <2>1, <2>2, <1>e, <1>s DEF AllIdle, Unlocked, Reload, OwnedInv, Owning, PriorInv,
      NoTaskInv
<1>22. ASSUME NEW t \in Threads, Finalize(t) PROVE OwnedInv'
  <2>1. thr[t].pc = "finalize" /\ Unlocked /\ Moved(t, {"idle", "call"}) /\ mu' = mu
    BY <1>22, WatchMoves
  <2>2.
        /\ Written /\ Done(thr[t].op) /\ wu'.id = wu.id
        /\ (wu # NoTask => wu'.pr = wu.pr /\ wu'.impl = (wu.impl \/ thr[t].op = "implement"))
    BY <1>22, <1>0, WatchWork
  <2>3. SUFFICES ASSUME m'.state \in InProgress, ~m'.interrupted
        PROVE  \E u \in Threads : thr'[u].pc \in Owning /\ InProgressState[thr'[u].op] = m'.state
    BY DEF OwnedInv
  <2>0. thr[t].op \in Phases
    BY <2>1 DEF OpInv, Owning
  <2>4. m'.state = m.state /\ ~m.interrupted
    BY <2>0, <2>2, <2>3, <1>d, <1>s DEF Done, SameState
  <2>5. PICK u \in Threads : thr[u].pc \in Owning /\ InProgressState[thr[u].op] = m.state
    BY <2>3, <2>4 DEF OwnedInv
  <2>6. u # t
    BY <2>2, <2>3, <2>0, <2>5, <2>4, <1>d, <1>s DEF Done
  <2>7. thr'[u].pc = thr[u].pc /\ thr'[u].op = thr[u].op
    BY <2>1, <2>5, <2>6 DEF Moved, Kept, Owning
  <2> QED BY <2>4, <2>5, <2>7
<1>23. ASSUME NEW t \in Threads, PolicyRetry(t) PROVE OwnedInv'
  <2>0. thr[t].op \in Phases
    BY <1>23, WatchMoves DEF OpInv, Owning
  <2> QED BY <1>23, <2>0, WatchMoves DEF OneVerdict
<1>24. ASSUME NEW t \in Threads, PolicySkip(t) PROVE OwnedInv'
  <2>1. thr[t].pc = "policy" /\ Unlocked /\ Moved(t, {"idle", "call"}) /\ mu' = mu
    BY <1>24, WatchMoves
  <2>2.
        /\ wu' = wu /\ Written /\ Done(thr[t].op) /\ Policy[thr[t].op] = "skip"
        /\ m.state = InProgressState[thr[t].op]
    BY <1>24, <1>0, WatchWork
  <2>3. SUFFICES ASSUME m'.state \in InProgress, ~m'.interrupted
        PROVE  \E u \in Threads : thr'[u].pc \in Owning /\ InProgressState[thr'[u].op] = m'.state
    BY DEF OwnedInv
  <2>0. thr[t].op \in Phases
    BY <2>1 DEF OpInv, Owning
  <2>4. m'.state = m.state /\ ~m.interrupted
    BY <2>0, <2>2, <2>3, <1>d, <1>s DEF Done, SameState
  <2>5. PICK u \in Threads : thr[u].pc \in Owning /\ InProgressState[thr[u].op] = m.state
    BY <2>3, <2>4 DEF OwnedInv
  <2>6. u # t
    BY <2>2, <2>3, <2>0, <2>5, <2>4, <1>d, <1>s DEF Done
  <2>7. thr'[u].pc = thr[u].pc /\ thr'[u].op = thr[u].op
    BY <2>1, <2>5, <2>6 DEF Moved, Kept, Owning
  <2> QED BY <2>4, <2>5, <2>7
<1>25. ASSUME NEW t \in Threads, PolicyFail(t) PROVE OwnedInv'
  <2>1. thr[t].pc = "policy" /\ Unlocked /\ Moved(t, {"errored"}) /\ mu' = mu
    BY <1>25, WatchMoves
  <2>2. UNCHANGED work
    BY <1>25, <1>0, WatchWork
  <2> QED BY <2>1, <2>2, <1>e, <1>s, Zenon DEF Moved, Kept, Unlocked, work, OwnedInv, Owning, PriorInv,
      NoTaskInv
<1>26. ASSUME NEW t \in Threads, JobErrored(t) PROVE OwnedInv'
  <2>1. thr[t].pc = "errored" /\ Unlocked /\ Moved(t, {"idle"}) /\ mu' = mu
    BY <1>26, WatchMoves
  <2>2. wu' = wu /\ Written /\ Back
    BY <1>26, <1>0, WatchWork
  <2> QED BY <2>1, <2>2, <1>e, <1>s DEF Moved, Kept, Unlocked, Back, RollsBack, OwnedInv, Owning,
      PriorInv, NoTaskInv
<1>27. ASSUME NEW t \in Threads, SpawnGate(t) PROVE OwnedInv'
  <2>0. thr[t].pc = "spawngate" /\ Unlocked /\ Handed(t, "idle", "gate", "") /\ mu' = mu
    BY <1>27, GateMoves
  <2>1. PICK r \in Runs :
          /\ r = t \/ thr[r].pc = "idle"
          /\ thr'[r].pc = "gate" /\ thr'[r].op = ""
          /\ r # t => thr'[t].pc = "idle" /\ thr'[t].op \in {"", thr[t].op}
          /\ \A u \in Threads \ {t, r} : Kept(u)
    BY <2>0 DEF Handed
  <2>2. r \in Threads
    BY DEF Threads
  <2>3. UNCHANGED work
    BY <1>27, <1>0, GateWork
  <2> QED BY <2>0, <2>1, <2>2, <2>3, <1>e, <1>s DEF Kept, work, OwnedInv, Owning, PriorInv, NoTaskInv
<1>28. ASSUME NEW t \in Threads, GateDone(t) PROVE OwnedInv'
  <2>1. thr[t].pc = "gate" /\ Unlocked /\ Moved(t, {"idle"}) /\ mu' = mu
    BY <1>28, GateMoves
  <2>2. SameTask /\ m' = m /\ (disk' = disk \/ Written)
    BY <1>28, <1>0, GateWork
  <2> QED BY <2>1, <2>2, <1>e, <1>s DEF Moved, Kept, Unlocked, SameTask, OwnedInv, Owning, PriorInv,
      NoTaskInv
<1>29. ASSUME NEW t \in Threads, GateDoubleClose(t) PROVE OwnedInv'
  <2>1. thr[t].pc = "gate" /\ Unlocked /\ AllIdle /\ mu' = None
    BY <1>29, GateMoves
  <2>2.
        /\ Reload
        /\ (disk' = disk \/ (wu # NoTask /\ \E w \in WorkUnit : w.id = wu.id /\ w.impl = wu.impl
              /\ w.specs = wu.specs /\ disk' = persistState(disk, w, m)))
    BY <1>29, <1>0, GateWork
  <2> QED BY <2>1, <2>2, <1>e, <1>s DEF AllIdle, Unlocked, Reload, OwnedInv, Owning, PriorInv,
      NoTaskInv
<1>30. ASSUME NEW t \in Threads, SubmitGate(t) PROVE OwnedInv'
  <2>1.
        /\ thr[t].pc = "hooks" /\ Unlocked /\ thr[t].op = "submit"
        /\ Moved(t, {"idle", "network", "syncgate", "waitgate", "gated"}) /\ mu' \in {t, None}
    BY <1>30, SubmitMoves
  <2>2. UNCHANGED work
    BY <1>30, <1>0, SubmitWork
  <2> QED BY <2>1, <2>2, <1>e, <1>s DEF Moved, Kept, Unlocked, work, OwnedInv, Owning, PriorInv,
      NoTaskInv
<1>31. ASSUME NEW t \in Threads, SubmitWaited(t) PROVE OwnedInv'
  <2>1. thr[t].pc = "gated" /\ Unlocked /\ Moved(t, {"idle", "network"}) /\ mu' \in {t, None}
    BY <1>31, SubmitMoves
  <2>2. UNCHANGED work
    BY <1>31, <1>0, SubmitWork
  <2> QED BY <2>1, <2>2, <1>e, <1>s DEF Moved, Kept, Unlocked, work, OwnedInv, Owning, PriorInv,
      NoTaskInv
<1>32. ASSUME NEW t \in Threads, SubmitGateDone(t) PROVE OwnedInv'
  <2>1. thr[t].pc = "syncgate" /\ Unlocked /\ Moved(t, {"idle", "network"}) /\ mu' \in {t, None}
    BY <1>32, SubmitMoves
  <2>2. SameTask /\ m' = m /\ disk' = disk
    BY <1>32, <1>0, SubmitWork
  <2> QED BY <2>1, <2>2, <1>e, <1>s DEF Moved, Kept, Unlocked, SameTask, OwnedInv, Owning, PriorInv,
      NoTaskInv
<1>33. ASSUME NEW t \in Threads, NetworkFails(t) PROVE OwnedInv'
  <2>1. thr[t].pc = "network" /\ Moved(t, {"idle"}) /\ mu' = mu
    BY <1>33, SubmitMoves
  <2>2. UNCHANGED work
    BY <1>33, <1>0, SubmitWork
  <2> QED BY <2>1, <2>2, <1>e, <1>s DEF Moved, Kept, work, OwnedInv, Owning, PriorInv, NoTaskInv
<1>34. ASSUME NEW t \in Threads, NetworkDone(t) PROVE OwnedInv'
  <2>1. thr[t].pc = "network" /\ Moved(t, {"dispatch"}) /\ thr'[t].task = thr[t].task /\ mu' = mu
    BY <1>34, SubmitMoves
  <2>2. UNCHANGED work
    BY <1>34, <1>0, SubmitWork
  <2> QED BY <2>1, <2>2, <1>e, <1>s DEF Moved, Kept, work, OwnedInv, Owning, PriorInv, NoTaskInv
<1>35. ASSUME NEW t \in Threads, SubmitDispatch(t) PROVE OwnedInv'
  <2>1. thr[t].pc = "dispatch" /\ Moved(t, {"store", "idle"}) /\ mu' = mu
    BY <1>35, SubmitMoves
  <2>2.
        /\ wu' = wu /\ disk' = disk
        /\ (m' = m \/ (m.state = "reviewing" /\ m'.state = "submitted" /\ m'.prior = m.prior
              /\ m'.interrupted = FALSE))
    BY <1>35, <1>0, SubmitWork
  <2> QED BY <2>1, <2>2, <1>e, <1>s, ZenonT(40) DEF Moved, Kept, OwnedInv, Owning, PriorInv, NoTaskInv
<1>36. ASSUME NEW t \in Threads, SubmitStore(t) PROVE OwnedInv'
  <2>1. thr[t].pc = "store" /\ Unlocked /\ Moved(t, {"idle"}) /\ mu' = mu
    BY <1>36, SubmitMoves
  <2>2.
        /\ wu'.id = wu.id /\ m' = m /\ (wu = NoTask => wu' = wu /\ disk' = disk)
        /\ (wu # NoTask => Written /\ wu'.specs = wu.specs /\ wu'.impl = wu.impl)
    BY <1>36, <1>0, SubmitWork
  <2> QED BY <2>1, <2>2, <1>e, <1>s DEF Moved, Kept, Unlocked, OwnedInv, Owning, PriorInv, NoTaskInv
<1>37. ASSUME NEW t \in Clients, NEW op \in Phases \cup Reviews \cup {"submit"}, Request(t, op)
      PROVE OwnedInv'
  <2>1.
        /\ t \in Threads /\ thr[t].pc = "idle" /\ Unlocked /\ op \in Requests /\ ThrType'
        /\ thr'[t].pc \in {"risk", "hooks"} /\ thr'[t].op = op /\ mu' \in {t, None}
        /\ (\A u \in Threads \ {t} : Kept(u))
    BY <1>37, ClientMoves
  <2>2. UNCHANGED work
    BY <1>37, <1>0, ClientWork
  <2> QED BY <2>1, <2>2, <1>e, <1>s DEF Kept, Unlocked, work, OwnedInv, Owning, PriorInv, NoTaskInv
<1>38. ASSUME NEW id \in Tasks, Start(id) PROVE OwnedInv'
  <2>1. Unlocked /\ thr' = thr /\ mu' = mu
    BY <1>38 DEF Start, Handler
  <2>2. Begun(id)
    BY <1>38, <1>0, ClientWork
  <2> QED BY <2>1, <2>2, <1>e, <1>s DEF Unlocked, Begun, OwnedInv, Owning, PriorInv, NoTaskInv
<1>39. ASSUME NEW id \in Tasks, StartQueued(id) PROVE OwnedInv'
  <2>1. Unlocked /\ thr' = thr /\ mu' = mu
    BY <1>39 DEF StartQueued
  <2>2. UNCHANGED work \/ Begun(id)
    BY <1>39, <1>0, ClientWork
  <2> QED BY <2>1, <2>2, <1>e, <1>s DEF Unlocked, Begun, work, OwnedInv, Owning, PriorInv, NoTaskInv
<1>40. ASSUME NEW id \in Tasks, NEW position \in DOMAIN queue, ReorderQueue(id, position) PROVE
      OwnedInv'
  <2>1. Unlocked /\ thr' = thr /\ mu' = mu
    BY <1>40 DEF ReorderQueue, Handler
  <2>2. UNCHANGED work
    BY <1>40, <1>0, ClientWork
  <2> QED BY <2>1, <2>2, <1>e, <1>s DEF Unlocked, work, OwnedInv, Owning, PriorInv, NoTaskInv
<1>41. CASE Stop
  <2>1. Unlocked /\ mu' = mu /\ ThrType' /\ (\A u \in Threads : Kept(u))
    BY <1>41, ClientMoves
  <2>2. wu' = wu /\ Written /\ Back
    BY <1>41, <1>0, ClientWork
  <2> QED BY <2>1, <2>2, <1>e, <1>s DEF Kept, Unlocked, Back, RollsBack, OwnedInv, Owning, PriorInv,
      NoTaskInv
<1>42. CASE Abort
  <2>1. Unlocked /\ thr' = thr /\ mu' = mu
    BY <1>42 DEF Abort, Handler
  <2>2.
        /\ wu' = wu /\ Written /\ m.state # "none" /\ m'.state = "failed" /\ m'.prior = m.prior
        /\ m'.interrupted = FALSE
    BY <1>42, <1>0, ClientWork
  <2> QED BY <2>1, <2>2, <1>e, <1>s DEF Unlocked, OwnedInv, Owning, PriorInv, NoTaskInv
<1>43. CASE Reset
  <2>1. Unlocked /\ thr' = thr /\ mu' = mu
    BY <1>43 DEF Reset, Handler
  <2>2.
        /\ wu' = wu /\ Written /\ m.state = "failed" /\ m'.prior = m.prior
        /\ (m' = m \/ (m'.state = "loaded" /\ m'.interrupted = FALSE))
    BY <1>43, <1>0, ClientWork
  <2> QED BY <2>1, <2>2, <1>e, <1>s DEF Unlocked, OwnedInv, Owning, PriorInv, NoTaskInv
<1>44. CASE UpdateTask
  <2>1. Unlocked /\ thr' = thr /\ mu' = mu
    BY <1>44 DEF UpdateTask, Handler
  <2>2. wu # NoTask /\ wu'.id = wu.id /\ wu'.impl = wu.impl /\ wu'.pr = wu.pr /\ m' = m /\ Written
    BY <1>44, <1>0, ClientWork
  <2> QED BY <2>1, <2>2, <1>e, <1>s DEF Unlocked, OwnedInv, Owning, PriorInv, NoTaskInv
<1>45. CASE Abandon
  <2>1. Unlocked /\ mu' = mu /\ ThrType' /\ (\A u \in Threads : Kept(u))
    BY <1>45, ClientMoves
  <2>2. Cleared /\ disk' = DeleteTaskState(disk, wu.id)
    BY <1>45, <1>0, ClientWork
  <2> QED BY <2>1, <2>2, <1>e, <1>s DEF Kept, Unlocked, Cleared, OwnedInv, Owning, PriorInv, NoTaskInv
<1>46. CASE Delete
  <2>1. Unlocked /\ thr' = thr /\ mu' = mu
    BY <1>46 DEF Delete, Handler
  <2>2. Cleared /\ disk' = DeleteTaskState(disk, wu.id)
    BY <1>46, <1>0, ClientWork
  <2> QED BY <2>1, <2>2, <1>e, <1>s DEF Unlocked, Cleared, OwnedInv, Owning, PriorInv, NoTaskInv
<1>47. CASE Crash
  <2>1. AllIdle
    BY <1>47, ClientMoves
  <2>2. Reload /\ disk' = disk
    BY <1>47, <1>0, ClientWork
  <2> QED BY <2>1, <2>2, <1>e, <1>s DEF AllIdle, Reload, OwnedInv, Owning, PriorInv, NoTaskInv
<1>48. ASSUME NEW force \in BOOLEAN, Finish(force) PROVE OwnedInv'
  <2>1. Unlocked /\ thr' = thr /\ mu' = mu
    BY <1>48 DEF Finish, Handler
  <2>2. Cleared /\ disk' = disk
    BY <1>48, <1>0, ClientWork
  <2> QED BY <2>1, <2>2, <1>e, <1>s DEF Unlocked, Cleared, OwnedInv, Owning, PriorInv, NoTaskInv
<1>49. CASE UNCHANGED vars
  BY <1>49 DEF vars, OwnedInv, Owning, PriorInv, NoTaskInv
<1> QED
  BY <1>1, <1>2, <1>3, <1>4, <1>5, <1>6, <1>7, <1>8, <1>9, <1>10, <1>11, <1>12, <1>13, <1>14, <1>15,
     <1>16, <1>17, <1>18, <1>19, <1>20, <1>21, <1>22, <1>23, <1>24, <1>25, <1>26, <1>27, <1>28,
     <1>29, <1>30, <1>31, <1>32, <1>33, <1>34, <1>35, <1>36, <1>37, <1>38, <1>39, <1>40, <1>41,
     <1>42, <1>43, <1>44, <1>45, <1>46, <1>47, <1>48, <1>49 DEF Next, ClientStep, ThreadStep,
     Begin, Enter, Observe, Decide, Gate, Submit

LEMMA InitBase == Init => BaseInv
<1> SUFFICES ASSUME Init PROVE BaseInv
  OBVIOUS
<1>1. \A t \in Threads : thr[t].pc = "idle"
  BY ThreadRecords DEF Init
<1>2. m.state = "none" /\ m.prior = ""
  BY DEF Init, NewMachine
<1>3. "" \notin InProgress \cup {"none"}
  BY DEF InProgress
<1> QED BY <1>1, <1>2, <1>3 DEF BaseInv, LockInv, NoTaskInv, PriorInv

LEMMA NextBase == Typed /\ BaseInv /\ [Next]_vars => BaseInv'
<1> SUFFICES ASSUME Typed, BaseInv, [Next]_vars PROVE BaseInv'
  OBVIOUS
<1>1. WorkType /\ ThrType /\ RestType /\ OpInv
  BY TypeParts DEF Typed
<1> QED BY <1>1, NextLock, NextNoTask, NextPrior DEF BaseInv

\* While a phase is in progress somebody will report its end, whichever handlers
\* and goroutines interleave and wherever the process is killed, if every job
\* gets its verdict (Lossy), no strategy asks for another iteration and no
\* policy for a retry: those leave the phase to a second call, which the machine
\* refuses in the in-progress state it finds itself in.
THEOREM PhasesAreOwned == ASSUME OneVerdict PROVE Spec => []PhaseOwned
<1> DEFINE Inv == Typed /\ BaseInv /\ OwnedInv
<1>1. Init => Inv
  <2>1. Init => OwnedInv
    <3>1. Init => m = NewMachine
      BY DEF Init
    <3>2. NewMachine.state = "none"
      BY DEF NewMachine
    <3> QED BY <3>1, <3>2 DEF OwnedInv, InProgress
  <2> QED BY <2>1, InitTyped, InitBase
<1>2. Inv /\ [Next]_vars => Inv'
  <2> SUFFICES ASSUME Typed, BaseInv, OwnedInv, [Next]_vars PROVE Inv'
    OBVIOUS
  <2>1. WorkType /\ ThrType /\ RestType /\ OpInv
    BY TypeParts DEF Typed
  <2>2. OwnedInv'
    BY <2>1, NextOwned
  <2> QED BY <2>2, NextTyped, NextBase
<1>3. Inv => PhaseOwned
  BY DEF Typed, OpInv, OwnedInv, PhaseOwned, Owning, Reporting
<1> QED BY <1>1, <1>2, <1>3, PTL DEF Spec

-----------------------------------------------------------------------------
(* A discarded task.                                                       *)

LEMMA GoneKept ==
    ASSUME WorkType, WorkType', DiskInv, GoneInv, disk' = disk \/ Written,
           \A k \in Tasks : fate'[k] = "gone" => fate[k] = "gone" /\ wu'.id # k
    PROVE  DiskInv' /\ GoneInv'
<1>1. CASE disk' = disk
  BY <1>1 DEF DiskInv, GoneInv
<1>2. CASE Written
  <2>1. DiskInv'
    BY <1>2, WrittenFiles DEF DiskInv
  <2>2. \A e \in Files(disk') : e \in Files(disk) \/ e.id = wu'.id
    BY <1>2, WrittenFiles
  <2> QED BY <2>1, <2>2 DEF GoneInv
<1> QED BY <1>1, <1>2

LEMMA GoneSame ==
    ASSUME WorkType, WorkType', DiskInv, GoneInv, disk' = disk \/ Written,
           wu'.id = wu.id, fate' = fate
    PROVE  DiskInv' /\ GoneInv'
<1>1. \A k \in Tasks : fate'[k] = "gone" => fate[k] = "gone" /\ wu'.id # k
  BY DEF GoneInv
<1> QED BY <1>1, GoneKept

LEMMA GoneReload ==
    ASSUME WorkType, WorkType', Reload, Unique(disk'),
           \A k \in Tasks : fate'[k] = "gone" => \A e \in Files(disk') : e.id # k
    PROVE  DiskInv' /\ GoneInv'
<1>1. NoTask.id \notin Tasks
  BY NoneAssumption DEF NoTask
<1>2. \A k \in Tasks : fate'[k] = "gone" => wu'.id # k
  BY <1>1 DEF Reload
<1> QED BY <1>2 DEF DiskInv, GoneInv

LEMMA NextGone ==
    ASSUME WorkType, ThrType, RestType, OpInv, DiskInv, GoneInv, [Next]_vars
    PROVE  (DiskInv /\ GoneInv)'
<1>0. WorkType'
  BY NextWork
<1>1. ASSUME NEW t \in Threads, Refused(t) \/ StreamClosed(t) \/ SelfCall(t) \/ GuardrailsPass(t) \/
      CompletedNoTask(t) \/ Failed(t) \/ Iterate(t) \/ PolicyRetry(t) \/ PolicyFail(t) \/
      SpawnGate(t) \/ SubmitGate(t) \/ SubmitWaited(t) \/ NetworkFails(t) \/ NetworkDone(t) PROVE
      (DiskInv /\ GoneInv)'
  <2>1. fate' = fate
    BY <1>1 DEF Refused, env, StreamClosed, SelfCall, GuardrailsPass, CompletedNoTask, Failed, Iterate,
        PolicyRetry, PolicyFail, SpawnGate, SubmitGate, SubmitWaited, NetworkFails, NetworkDone
  <2>2. UNCHANGED work
    BY <1>1, <1>0, BeginWork, WatchWork, GateWork, SubmitWork
  <2>3. wu'.id = wu.id /\ (disk' = disk \/ Written)
    BY <2>2 DEF work
  <2> QED BY <1>0, <2>1, <2>3, GoneSame
<1>2. ASSUME NEW t \in Threads, GuardrailsFail(t) \/ SubmitJobFails(t) \/ FixRefused(t) PROVE
      (DiskInv /\ GoneInv)'
  <2>1. fate' = fate
    BY <1>2 DEF GuardrailsFail, env, SubmitJobFails, FixRefused
  <2>2. wu' = wu /\ disk' = disk /\ Back
    BY <1>2, <1>0, BeginWork
  <2>3. wu'.id = wu.id /\ (disk' = disk \/ Written)
    BY <2>2
  <2> QED BY <1>0, <2>1, <2>3, GoneSame
<1>3. ASSUME NEW t \in Threads, NoSpecification(t) \/ JobErrored(t) PROVE (DiskInv /\ GoneInv)'
  <2>1. fate' = fate
    BY <1>3 DEF NoSpecification, env, JobErrored
  <2>2. wu' = wu /\ Written /\ Back
    BY <1>3, <1>0, WatchWork
  <2>3. wu'.id = wu.id /\ (disk' = disk \/ Written)
    BY <2>2
  <2> QED BY <1>0, <2>1, <2>3, GoneSame
<1>4. CASE Abandon \/ Delete
  <2>1. fate' = [k \in Tasks |-> IF k = wu.id THEN "gone" ELSE fate[k]]
    BY <1>4 DEF Abandon, Discard, Delete
  <2>2. Cleared /\ disk' = DeleteTaskState(disk, wu.id)
    BY <1>4, <1>0, ClientWork
  <2>3. Files(disk') \subseteq Files(disk) /\ Unique(disk') /\ \A e \in Files(disk') : e.id # wu.id
    BY <2>2, DeleteFiles DEF WorkType, DiskInv
  <2>4. wu'.id \notin Tasks
    BY <2>2, NoneAssumption DEF Cleared, NoTask
  <2> QED BY <2>1, <2>3, <2>4 DEF DiskInv, GoneInv
<1>5. ASSUME NEW t \in Threads, RecordPrior(t) PROVE (DiskInv /\ GoneInv)'
  <2>1. fate' = fate
    BY <1>5 DEF RecordPrior, env
  <2>2. SameTask /\ disk' = disk /\ SameState /\ (m'.prior = m.state \/ m'.prior = m.prior)
    BY <1>5, <1>0, BeginWork
  <2>3. wu'.id = wu.id /\ (disk' = disk \/ Written)
    BY <2>2 DEF SameTask
  <2> QED BY <1>0, <2>1, <2>3, GoneSame
<1>6. ASSUME NEW t \in Threads, EnterRejected(t) PROVE (DiskInv /\ GoneInv)'
  <2>1. fate' = fate
    BY <1>6 DEF EnterRejected, env
  <2>2. wu' = wu /\ disk' = disk /\ SameState /\ m'.prior = ""
    BY <1>6, <1>0, BeginWork
  <2>3. wu'.id = wu.id /\ (disk' = disk \/ Written)
    BY <2>2
  <2> QED BY <1>0, <2>1, <2>3, GoneSame
<1>7. ASSUME NEW t \in Threads, EnterPhase(t) PROVE (DiskInv /\ GoneInv)'
  <2>1. fate' = fate
    BY <1>7 DEF EnterPhase, env
  <2>2. wu' = wu /\ disk' = disk /\ In(InProgressState[thr[t].op])
    BY <1>7, <1>0, BeginWork
  <2>3. wu'.id = wu.id /\ (disk' = disk \/ Written)
    BY <2>2
  <2> QED BY <1>0, <2>1, <2>3, GoneSame
<1>8. ASSUME NEW t \in Threads, EnterReview(t) PROVE (DiskInv /\ GoneInv)'
  <2>1. fate' = fate
    BY <1>8 DEF EnterReview, env
  <2>2. wu' = wu /\ Written /\ In("reviewing")
    BY <1>8, <1>0, BeginWork
  <2>3. wu'.id = wu.id /\ (disk' = disk \/ Written)
    BY <2>2
  <2> QED BY <1>0, <2>1, <2>3, GoneSame
<1>9. ASSUME NEW t \in Threads, LaunchNil(t) PROVE (DiskInv /\ GoneInv)'
  <2>1. CASE UNCHANGED work /\ fate' = fate
    BY <1>0, <2>1, GoneSame DEF work
  <2>2. CASE Restart(disk)
    <3>1. fate' = [k \in Tasks |-> IF fate[k] \in {"queued", "starting"} THEN "dropped" ELSE fate[k]]
      BY <2>2 DEF Restart
    <3>2. Reload /\ disk' = disk
      BY <1>0, <2>2, RestartReloads
    <3>3. \A k \in Tasks : fate'[k] = "gone" => \A e \in Files(disk') : e.id # k
      BY <3>1, <3>2 DEF GoneInv
    <3> QED BY <1>0, <3>2, <3>3, GoneReload DEF DiskInv
  <2> QED BY <1>9, <2>1, <2>2 DEF LaunchNil, env
<1>10. ASSUME NEW t \in Threads, Launch(t) PROVE (DiskInv /\ GoneInv)'
  <2>1. fate' = fate
    BY <1>10 DEF Launch, env
  <2>2. wu # NoTask /\ wu' = wu /\ m' = m /\ Written
    BY <1>10, <1>0, BeginWork
  <2>3. wu'.id = wu.id /\ (disk' = disk \/ Written)
    BY <2>2
  <2> QED BY <1>0, <2>1, <2>3, GoneSame
<1>11. ASSUME NEW t \in Threads, FixStarted(t) PROVE (DiskInv /\ GoneInv)'
  <2>1. fate' = fate
    BY <1>11 DEF FixStarted, env
  <2>2. (UNCHANGED work \/ (wu' = wu /\ m' = m /\ Written))
    BY <1>11, <1>0, BeginWork
  <2>3. wu'.id = wu.id /\ (disk' = disk \/ Written)
    BY <2>2 DEF work
  <2> QED BY <1>0, <2>1, <2>3, GoneSame
<1>12. ASSUME NEW t \in Threads, Completed(t) PROVE (DiskInv /\ GoneInv)'
  <2>1. fate' = fate
    BY <1>12 DEF Completed, env
  <2>2.
        /\ wu # NoTask /\ wu'.id = wu.id /\ wu'.impl = wu.impl /\ wu'.pr = wu.pr /\ m' = m
        /\ disk' = disk
    BY <1>12, <1>0, WatchWork
  <2>3. wu'.id = wu.id /\ (disk' = disk \/ Written)
    BY <2>2
  <2> QED BY <1>0, <2>1, <2>3, GoneSame
<1>13. ASSUME NEW t \in Threads, Accept(t) PROVE (DiskInv /\ GoneInv)'
  <2>1. fate' = fate
    BY <1>13 DEF Accept, env
  <2>2. wu' = wu /\ m' = m /\ Written
    BY <1>13, <1>0, WatchWork
  <2>3. wu'.id = wu.id /\ (disk' = disk \/ Written)
    BY <2>2
  <2> QED BY <1>0, <2>1, <2>3, GoneSame
<1>14. ASSUME NEW t \in Threads, FinalizeNil(t) PROVE (DiskInv /\ GoneInv)'
  <2>1. fate' = [k \in Tasks |-> IF fate[k] \in {"queued", "starting"} THEN "dropped" ELSE fate[k]]
    BY <1>14 DEF FinalizeNil, Restart
  <2>2. Reload /\ disk' = disk
    BY <1>14, <1>0, WatchWork
  <2>3. \A k \in Tasks : fate'[k] = "gone" => \A e \in Files(disk') : e.id # k
    BY <2>1, <2>2 DEF GoneInv
  <2> QED BY <1>0, <2>2, <2>3, GoneReload DEF DiskInv
<1>15. ASSUME NEW t \in Threads, Finalize(t) PROVE (DiskInv /\ GoneInv)'
  <2>1. fate' = fate
    BY <1>15 DEF Finalize, env
  <2>2.
        /\ Written /\ Done(thr[t].op) /\ wu'.id = wu.id
        /\ (wu # NoTask => wu'.pr = wu.pr /\ wu'.impl = (wu.impl \/ thr[t].op = "implement"))
    BY <1>15, <1>0, WatchWork
  <2>3. wu'.id = wu.id /\ (disk' = disk \/ Written)
    BY <2>2
  <2> QED BY <1>0, <2>1, <2>3, GoneSame
<1>16. ASSUME NEW t \in Threads, PolicySkip(t) PROVE (DiskInv /\ GoneInv)'
  <2>1. fate' = fate
    BY <1>16 DEF PolicySkip, env
  <2>2.
        /\ wu' = wu /\ Written /\ Done(thr[t].op) /\ Policy[thr[t].op] = "skip"
        /\ m.state = InProgressState[thr[t].op]
    BY <1>16, <1>0, WatchWork
  <2>3. wu'.id = wu.id /\ (disk' = disk \/ Written)
    BY <2>2
  <2> QED BY <1>0, <2>1, <2>3, GoneSame
<1>17. ASSUME NEW t \in Threads, GateDone(t) PROVE (DiskInv /\ GoneInv)'
  <2>1. fate' = fate
    BY <1>17 DEF GateDone, env
  <2>2. SameTask /\ m' = m /\ (disk' = disk \/ Written)
    BY <1>17, <1>0, GateWork
  <2>3. wu'.id = wu.id /\ (disk' = disk \/ Written)
    BY <2>2 DEF SameTask
  <2> QED BY <1>0, <2>1, <2>3, GoneSame
<1>18. ASSUME NEW t \in Threads, GateDoubleClose(t) PROVE (DiskInv /\ GoneInv)'
  <2>1. fate' = [k \in Tasks |-> IF fate[k] \in {"queued", "starting"} THEN "dropped" ELSE fate[k]]
    BY <1>18 DEF GateDoubleClose, Restart
  <2>2.
        /\ Reload
        /\ (disk' = disk \/ (wu # NoTask /\ \E w \in WorkUnit : w.id = wu.id /\ w.impl = wu.impl
              /\ w.specs = wu.specs /\ disk' = persistState(disk, w, m)))
    BY <1>18, <1>0, GateWork
  <2>3. CASE disk' = disk
    <3>1. \A k \in Tasks : fate'[k] = "gone" => \A e \in Files(disk') : e.id # k
      BY <2>1, <2>3 DEF GoneInv
    <3> QED BY <1>0, <2>2, <2>3, <3>1, GoneReload DEF DiskInv
  <2>4. ASSUME NEW w \in WorkUnit, w.id = wu.id, disk' = persistState(disk, w, m) PROVE DiskInv' /\ GoneInv'
    <3>1. disk \in Seq(Saved) /\ m \in Machine /\ w \in Unit /\ w # NoTask
      BY UnitId DEF WorkType, Unit
    <3>2. Files(disk') \subseteq Files(disk) \cup {Entry(w, m)} /\ Unique(disk')
      BY <2>4, <3>1, PersistFiles DEF DiskInv
    <3>3. Entry(w, m).id = wu.id
      BY <2>4, <3>1, EntryType
    <3>4. \A k \in Tasks : fate'[k] = "gone" => \A e \in Files(disk') : e.id # k
      BY <2>1, <3>2, <3>3 DEF GoneInv
    <3> QED BY <1>0, <2>2, <3>2, <3>4, GoneReload
  <2> QED BY <2>2, <2>3, <2>4
<1>19. ASSUME NEW t \in Threads, SubmitGateDone(t) PROVE (DiskInv /\ GoneInv)'
  <2>1. fate' = fate
    BY <1>19 DEF SubmitGateDone, env
  <2>2. SameTask /\ m' = m /\ disk' = disk
    BY <1>19, <1>0, SubmitWork
  <2>3. wu'.id = wu.id /\ (disk' = disk \/ Written)
    BY <2>2 DEF SameTask
  <2> QED BY <1>0, <2>1, <2>3, GoneSame
<1>20. ASSUME NEW t \in Threads, SubmitDispatch(t) PROVE (DiskInv /\ GoneInv)'
  <2>1. fate' = fate
    BY <1>20 DEF SubmitDispatch, env
  <2>2.
        /\ wu' = wu /\ disk' = disk
        /\ (m' = m \/ (m.state = "reviewing" /\ m'.state = "submitted" /\ m'.prior = m.prior
              /\ m'.interrupted = FALSE))
    BY <1>20, <1>0, SubmitWork
  <2>3. wu'.id = wu.id /\ (disk' = disk \/ Written)
    BY <2>2
  <2> QED BY <1>0, <2>1, <2>3, GoneSame
<1>21. ASSUME NEW t \in Threads, SubmitStore(t) PROVE (DiskInv /\ GoneInv)'
  <2>1. fate' = fate
    BY <1>21 DEF SubmitStore, env
  <2>2.
        /\ wu'.id = wu.id /\ m' = m /\ (wu = NoTask => wu' = wu /\ disk' = disk)
        /\ (wu # NoTask => Written /\ wu'.specs = wu.specs /\ wu'.impl = wu.impl)
    BY <1>21, <1>0, SubmitWork
  <2>3. wu'.id = wu.id /\ (disk' = disk \/ Written)
    BY <2>2
  <2> QED BY <1>0, <2>1, <2>3, GoneSame
<1>22. ASSUME NEW t \in Clients, NEW op \in Phases \cup Reviews \cup {"submit"}, Request(t, op)
      PROVE (DiskInv /\ GoneInv)'
  <2>1. fate' = fate
    BY <1>22 DEF Request, env
  <2>2. UNCHANGED work
    BY <1>22, <1>0, ClientWork
  <2>3. wu'.id = wu.id /\ (disk' = disk \/ Written)
    BY <2>2 DEF work
  <2> QED BY <1>0, <2>1, <2>3, GoneSame
<1>23. ASSUME NEW id \in Tasks, Start(id) PROVE (DiskInv /\ GoneInv)'
  <2>1. fate' = [fate EXCEPT ![id] = "current"] 
    BY <1>23 DEF Start
  <2>2. Begun(id)
    BY <1>23, <1>0, ClientWork
  <2>3. \A k \in Tasks : fate'[k] = "gone" => fate[k] = "gone" /\ wu'.id # k
    BY <2>1, <2>2 DEF Begun, RestType
  <2>4. disk' = disk \/ Written
    BY <2>2 DEF Begun
  <2> QED BY <1>0, <2>3, <2>4, GoneKept
<1>24. ASSUME NEW id \in Tasks, QueueTask(id) PROVE (DiskInv /\ GoneInv)'
  <2>1. UNCHANGED work /\ fate' = [fate EXCEPT ![id] = "queued"]
    BY <1>24 DEF QueueTask
  <2>2. \A k \in Tasks : fate'[k] = "gone" => fate[k] = "gone" /\ wu'.id # k
    BY <2>1 DEF RestType, work, GoneInv
  <2> QED BY <1>0, <2>1, <2>2, GoneKept DEF work
<1>25. ASSUME NEW id \in Tasks, DequeueTask(id) PROVE (DiskInv /\ GoneInv)'
  <2>1. UNCHANGED work /\ fate' = [fate EXCEPT ![id] = "new"]
    BY <1>25 DEF DequeueTask
  <2>2. \A k \in Tasks : fate'[k] = "gone" => fate[k] = "gone" /\ wu'.id # k
    BY <2>1 DEF RestType, work, GoneInv
  <2> QED BY <1>0, <2>1, <2>2, GoneKept DEF work
<1>26. ASSUME NEW id \in Tasks, StartQueued(id) PROVE (DiskInv /\ GoneInv)'
  <2>1. CASE UNCHANGED work /\ fate' = [fate EXCEPT ![id] = "dropped"]
    <3>1. \A k \in Tasks : fate'[k] = "gone" => fate[k] = "gone" /\ wu'.id # k
      BY <2>1 DEF RestType, work, GoneInv
    <3> QED BY <1>0, <2>1, <3>1, GoneKept DEF work
  <2>2. CASE m.state = "none" /\ StartWork(id) /\ fate' = [fate EXCEPT ![id] = "current"]
    <3>1. Begun(id)
      BY <2>2, StartMoves DEF WorkType
    <3>2. \A k \in Tasks : fate'[k] = "gone" => fate[k] = "gone" /\ wu'.id # k
      BY <2>2, <3>1 DEF Begun, RestType
    <3>3. disk' = disk \/ Written
      BY <3>1 DEF Begun
    <3> QED BY <1>0, <3>2, <3>3, GoneKept
  <2> QED BY <1>26, <2>1, <2>2 DEF StartQueued
<1>27. ASSUME NEW id \in Tasks, NEW position \in DOMAIN queue, ReorderQueue(id, position) PROVE
      (DiskInv /\ GoneInv)'
  <2>1. fate' = fate
    BY <1>27 DEF ReorderQueue, env, Handler
  <2>2. UNCHANGED work
    BY <1>27, <1>0, ClientWork
  <2>3. wu'.id = wu.id /\ (disk' = disk \/ Written)
    BY <2>2 DEF work
  <2> QED BY <1>0, <2>1, <2>3, GoneSame
<1>28. CASE Stop
  <2>1. fate' = fate
    BY <1>28 DEF Stop, env, Handler
  <2>2. wu' = wu /\ Written /\ Back
    BY <1>28, <1>0, ClientWork
  <2>3. wu'.id = wu.id /\ (disk' = disk \/ Written)
    BY <2>2
  <2> QED BY <1>0, <2>1, <2>3, GoneSame
<1>29. CASE Abort
  <2>1. fate' = fate
    BY <1>29 DEF Abort, env, Handler
  <2>2.
        /\ wu' = wu /\ Written /\ m.state # "none" /\ m'.state = "failed" /\ m'.prior = m.prior
        /\ m'.interrupted = FALSE
    BY <1>29, <1>0, ClientWork
  <2>3. wu'.id = wu.id /\ (disk' = disk \/ Written)
    BY <2>2
  <2> QED BY <1>0, <2>1, <2>3, GoneSame
<1>30. CASE Reset
  <2>1. fate' = fate
    BY <1>30 DEF Reset, env, Handler
  <2>2.
        /\ wu' = wu /\ Written /\ m.state = "failed" /\ m'.prior = m.prior
        /\ (m' = m \/ (m'.state = "loaded" /\ m'.interrupted = FALSE))
    BY <1>30, <1>0, ClientWork
  <2>3. wu'.id = wu.id /\ (disk' = disk \/ Written)
    BY <2>2
  <2> QED BY <1>0, <2>1, <2>3, GoneSame
<1>31. CASE UpdateTask
  <2>1. fate' = fate
    BY <1>31 DEF UpdateTask, env, Handler
  <2>2. wu # NoTask /\ wu'.id = wu.id /\ wu'.impl = wu.impl /\ wu'.pr = wu.pr /\ m' = m /\ Written
    BY <1>31, <1>0, ClientWork
  <2>3. wu'.id = wu.id /\ (disk' = disk \/ Written)
    BY <2>2
  <2> QED BY <1>0, <2>1, <2>3, GoneSame
<1>32. CASE Crash
  <2>1. fate' = [k \in Tasks |-> IF fate[k] \in {"queued", "starting"} THEN "dropped" ELSE fate[k]]
    BY <1>32 DEF Crash, Restart
  <2>2. Reload /\ disk' = disk
    BY <1>32, <1>0, ClientWork
  <2>3. \A k \in Tasks : fate'[k] = "gone" => \A e \in Files(disk') : e.id # k
    BY <2>1, <2>2 DEF GoneInv
  <2> QED BY <1>0, <2>2, <2>3, GoneReload DEF DiskInv
<1>33. ASSUME NEW force \in BOOLEAN, Finish(force) PROVE (DiskInv /\ GoneInv)'
  <2>1. Cleared /\ disk' = disk
    BY <1>33, <1>0, ClientWork
  <2>2. wu'.id \notin Tasks
    BY <2>1, NoneAssumption DEF Cleared, NoTask
  <2>3. \A k \in Tasks : fate'[k] = "gone" => fate[k] = "gone"
    BY <1>33 DEF Finish
  <2> QED BY <1>0, <2>1, <2>2, <2>3, GoneKept
<1>34. CASE UNCHANGED vars
  BY <1>34 DEF vars, DiskInv, GoneInv
<1> QED
  BY <1>1, <1>2, <1>3, <1>4, <1>5, <1>6, <1>7, <1>8, <1>9, <1>10, <1>11, <1>12, <1>13, <1>14, <1>15,
     <1>16, <1>17, <1>18, <1>19, <1>20, <1>21, <1>22, <1>23, <1>24, <1>25, <1>26, <1>27, <1>28,
     <1>29, <1>30, <1>31, <1>32, <1>33, <1>34 DEF Next, ClientStep, ThreadStep, Begin, Enter,
     Observe, Decide, Gate, Submit

\* A task that was abandoned or deleted never comes back, whatever the settings
\* and the requests: not by a goroutine that outlives it and saves, nor by a
\* restart.  A thread saves only the current work unit, and task.yaml exists
\* once per task, so that DeleteTaskState leaves none behind.
THEOREM DiscardedStayAway == Spec => []DiscardedStaysAway
<1> DEFINE Inv == Typed /\ DiskInv /\ GoneInv
<1>1. Init => Inv
  <2>1. Init => disk = <<>> /\ fate = [t \in Tasks |-> "new"]
    BY DEF Init
  <2> QED BY <2>1, InitTyped DEF DiskInv, Unique, GoneInv
<1>2. Inv /\ [Next]_vars => Inv'
  <2> SUFFICES ASSUME Typed, DiskInv, GoneInv, [Next]_vars PROVE Inv'
    OBVIOUS
  <2>1. WorkType /\ ThrType /\ RestType /\ OpInv
    BY TypeParts DEF Typed
  <2> QED BY <2>1, NextGone, NextTyped
<1>3. Inv => DiscardedStaysAway
  BY DEF GoneInv, DiscardedStaysAway, Files
<1> QED BY <1>1, <1>2, <1>3, PTL DEF Spec

-----------------------------------------------------------------------------
(* What task.yaml holds.                                                   *)

LEMMA SavedWritten ==
    ASSUME WorkType, WorkType', NoTaskInv', Written
    PROVE  SavedInv'
<1>1. m'.state # "none" => wu' # NoTask
  BY DEF NoTaskInv
<1> QED BY <1>1, WrittenFiles DEF SavedInv

LEMMA SavedKept ==
    ASSUME NoTaskInv, SavedInv, disk' = disk, SameTask, m'.log = m.log,
           m'.state # "none" => m.state # "none",
           Pending("validate") => Pending("validate")', Pending("store") => Pending("store")'
    PROVE  SavedInv'
<1>1. m'.state # "none" => wu # NoTask
  BY DEF NoTaskInv
<1> QED BY <1>1 DEF SavedInv, SameTask

LEMMA SavedReload == ASSUME Reload PROVE SavedInv'
  BY DEF Reload, SavedInv

LEMMA NextSaved ==
    ASSUME WorkType, ThrType, RestType, OpInv, ~Iterative, NoTaskInv, NoTaskInv', SavedInv,
           [Next]_vars
    PROVE  SavedInv'
<1>0. WorkType'
  BY NextWork
<1>n. NoTaskInv'
  OBVIOUS
<1>s. /\ "none" \notin Stable /\ "none" \notin InProgress /\ Stable \cap InProgress = {}
      /\ Active = InProgress \cup {"reviewing"} /\ "reviewing" \notin Stable \cup InProgress
      /\ {"loaded", "planned", "implemented", "submitted"} = Stable
      /\ {"failed", ""} \cap (Stable \cup Active) = {}
  BY DEF Stable, Active, InProgress
<1>1. ASSUME NEW t \in Threads, Refused(t) \/ StreamClosed(t) \/ SelfCall(t) \/ GuardrailsPass(t) \/
      CompletedNoTask(t) \/ Failed(t) \/ PolicyRetry(t) \/ PolicyFail(t) \/ SubmitGate(t) \/
      SubmitWaited(t) \/ NetworkFails(t) \/ NetworkDone(t) PROVE SavedInv'
  <2>2. UNCHANGED work
    BY <1>1, <1>0, BeginWork, WatchWork, SubmitWork
  <2>3. (Pending("validate") => Pending("validate")') /\ (Pending("store") => Pending("store")')
    BY <1>1, BeginMoves, WatchMoves, SubmitMoves DEF Moved, Kept, Pending
  <2>4. SameTask /\ disk' = disk /\ m'.log = m.log /\ (m'.state # "none" => m.state # "none")
    BY <2>2, <1>s DEF work, SameTask
  <2> QED BY <2>3, <2>4, SavedKept
<1>2. ASSUME NEW t \in Threads, GuardrailsFail(t) \/ SubmitJobFails(t) \/ FixRefused(t) PROVE
      SavedInv'
  <2>2. wu' = wu /\ disk' = disk /\ Back
    BY <1>2, <1>0, BeginWork
  <2>3. (Pending("validate") => Pending("validate")') /\ (Pending("store") => Pending("store")')
    BY <1>2, BeginMoves DEF Moved, Kept, Pending
  <2>4. SameTask /\ disk' = disk /\ m'.log = m.log /\ (m'.state # "none" => m.state # "none")
    BY <2>2, <1>s DEF Back, RollsBack, SameTask
  <2> QED BY <2>3, <2>4, SavedKept
<1>3. ASSUME NEW t \in Threads, NoSpecification(t) \/ JobErrored(t) PROVE SavedInv'
  <2>2. wu' = wu /\ Written /\ Back
    BY <1>3, <1>0, WatchWork
  <2> QED BY <1>0, <1>n, <2>2, SavedWritten
<1>4. ASSUME NEW id \in Tasks, QueueTask(id) \/ DequeueTask(id) PROVE SavedInv'
  <2>1. Unlocked /\ thr' = thr /\ mu' = mu
    BY <1>4 DEF QueueTask, Handler, DequeueTask
  <2>2. UNCHANGED work
    BY <1>4, <1>0, ClientWork
  <2>3. (Pending("validate") => Pending("validate")') /\ (Pending("store") => Pending("store")')
    BY <2>1 DEF Pending
  <2>4. SameTask /\ disk' = disk /\ m'.log = m.log /\ (m'.state # "none" => m.state # "none")
    BY <2>2, <1>s DEF work, SameTask
  <2> QED BY <2>3, <2>4, SavedKept
<1>5. CASE Abandon \/ Delete
  <2>1. Cleared
    BY <1>5, <1>0, ClientWork
  <2> QED BY <2>1 DEF Cleared, SavedInv
<1>6. ASSUME NEW t \in Threads, RecordPrior(t) PROVE SavedInv'
  <2>2. SameTask /\ disk' = disk /\ SameState /\ (m'.prior = m.state \/ m'.prior = m.prior)
    BY <1>6, <1>0, BeginWork
  <2>3. (Pending("validate") => Pending("validate")') /\ (Pending("store") => Pending("store")')
    BY <1>6, BeginMoves DEF Moved, Kept, Pending
  <2>4. SameTask /\ disk' = disk /\ m'.log = m.log /\ (m'.state # "none" => m.state # "none")
    BY <2>2, <1>s DEF SameTask, SameState
  <2> QED BY <2>3, <2>4, SavedKept
<1>7. ASSUME NEW t \in Threads, EnterRejected(t) PROVE SavedInv'
  <2>2. wu' = wu /\ disk' = disk /\ SameState /\ m'.prior = ""
    BY <1>7, <1>0, BeginWork
  <2>3. (Pending("validate") => Pending("validate")') /\ (Pending("store") => Pending("store")')
    BY <1>7, BeginMoves DEF Moved, Kept, Pending
  <2>4. SameTask /\ disk' = disk /\ m'.log = m.log /\ (m'.state # "none" => m.state # "none")
    BY <2>2, <1>s DEF SameState, SameTask
  <2> QED BY <2>3, <2>4, SavedKept
<1>8. ASSUME NEW t \in Threads, EnterPhase(t) PROVE SavedInv'
  <2>2. wu' = wu /\ disk' = disk /\ In(InProgressState[thr[t].op])
    BY <1>8, <1>0, BeginWork
  <2>3. (Pending("validate") => Pending("validate")') /\ (Pending("store") => Pending("store")')
    BY <1>8, BeginMoves DEF Moved, Kept, Pending
  <2>4. SameTask /\ disk' = disk /\ m'.log = m.log /\ (m'.state # "none" => m.state # "none")
    BY <2>2, <1>s DEF In, SameTask
  <2> QED BY <2>3, <2>4, SavedKept
<1>9. ASSUME NEW t \in Threads, EnterReview(t) PROVE SavedInv'
  <2>2. wu' = wu /\ Written /\ In("reviewing")
    BY <1>9, <1>0, BeginWork
  <2> QED BY <1>0, <1>n, <2>2, SavedWritten
<1>10. ASSUME NEW t \in Threads, LaunchNil(t) PROVE SavedInv'
  <2>1. UNCHANGED work \/ Reload
    BY <1>10, <1>0, BeginWork
  <2>2. CASE Reload
    BY <2>2, SavedReload
  <2>3. CASE UNCHANGED work
    <3>1. wu = NoTask
      BY <1>10, BeginMoves
    <3> QED BY <2>3, <3>1 DEF NoTaskInv, SavedInv, work
  <2> QED BY <2>1, <2>2, <2>3
<1>11. ASSUME NEW t \in Threads, Launch(t) PROVE SavedInv'
  <2>2. wu # NoTask /\ wu' = wu /\ m' = m /\ Written
    BY <1>11, <1>0, BeginWork
  <2> QED BY <1>0, <1>n, <2>2, SavedWritten
<1>12. ASSUME NEW t \in Threads, FixStarted(t) PROVE SavedInv'
  <2>1. UNCHANGED work \/ Written
    BY <1>12, <1>0, BeginWork
  <2>2. CASE Written
    BY <1>0, <1>n, <2>2, SavedWritten
  <2>3. CASE UNCHANGED work
    <3>1. CASE wu = NoTask
      BY <2>3, <3>1 DEF NoTaskInv, SavedInv, work
    <3>2. CASE wu # NoTask
      <4>1. Written
        BY <1>12, <3>2 DEF FixStarted, Commit, Written
      <4> QED BY <2>2, <4>1
    <3> QED BY <3>1, <3>2
  <2> QED BY <2>1, <2>2, <2>3
<1>13. ASSUME NEW t \in Threads, Completed(t) PROVE SavedInv'
  <2>1. thr[t].pc = "watch" /\ Moved(t, {"validate"})
    BY <1>13, WatchMoves
  <2>2. wu # NoTask /\ wu'.id = wu.id /\ wu'.impl = wu.impl /\ m' = m /\ disk' = disk
    BY <1>13, <1>0, WatchWork
  <2>3. Pending("validate")' /\ (Pending("store") => Pending("store")')
    BY <2>1 DEF Moved, Kept, Pending
  <2> QED BY <2>2, <2>3 DEF SavedInv
<1>14. ASSUME NEW t \in Threads, Iterate(t) PROVE SavedInv'
  BY <1>14, WatchMoves
<1>15. ASSUME NEW t \in Threads, Accept(t) PROVE SavedInv'
  <2>2. wu' = wu /\ m' = m /\ Written
    BY <1>15, <1>0, WatchWork
  <2> QED BY <1>0, <1>n, <2>2, SavedWritten
<1>16. ASSUME NEW t \in Threads, FinalizeNil(t) PROVE SavedInv'
  <2>2. Reload /\ disk' = disk
    BY <1>16, <1>0, WatchWork
  <2> QED BY <2>2, SavedReload
<1>17. ASSUME NEW t \in Threads, Finalize(t) PROVE SavedInv'
  <2>2.
        /\ Written /\ Done(thr[t].op) /\ wu'.id = wu.id
        /\ (wu # NoTask => wu'.pr = wu.pr /\ wu'.impl = (wu.impl \/ thr[t].op = "implement"))
    BY <1>17, <1>0, WatchWork
  <2> QED BY <1>0, <1>n, <2>2, SavedWritten
<1>18. ASSUME NEW t \in Threads, PolicySkip(t) PROVE SavedInv'
  <2>2.
        /\ wu' = wu /\ Written /\ Done(thr[t].op) /\ Policy[thr[t].op] = "skip"
        /\ m.state = InProgressState[thr[t].op]
    BY <1>18, <1>0, WatchWork
  <2> QED BY <1>0, <1>n, <2>2, SavedWritten
<1>19. ASSUME NEW t \in Threads, SpawnGate(t) PROVE SavedInv'
  <2>0. thr[t].pc = "spawngate" /\ Unlocked /\ Handed(t, "idle", "gate", "") /\ mu' = mu
    BY <1>19, GateMoves
  <2>1. PICK r \in Runs :
          /\ r = t \/ thr[r].pc = "idle"
          /\ thr'[r].pc = "gate" /\ thr'[r].op = ""
          /\ r # t => thr'[t].pc = "idle" /\ thr'[t].op \in {"", thr[t].op}
          /\ \A u \in Threads \ {t, r} : Kept(u)
    BY <2>0 DEF Handed
  <2>2. r \in Threads
    BY DEF Threads
  <2>3. UNCHANGED work
    BY <1>19, <1>0, GateWork
  <2>4. (Pending("validate") => Pending("validate")') /\ (Pending("store") => Pending("store")')
    BY <2>0, <2>1 DEF Kept, Pending
  <2>5. SameTask /\ disk' = disk /\ m' = m
    BY <2>3 DEF work, SameTask
  <2> QED BY <2>4, <2>5, SavedKept
<1>20. ASSUME NEW t \in Threads, GateDone(t) PROVE SavedInv'
  <2>2. SameTask /\ m' = m /\ (disk' = disk \/ Written)
    BY <1>20, <1>0, GateWork
  <2>3. CASE Written
    BY <1>0, <1>n, <2>3, SavedWritten
  <2>4. CASE disk' = disk
    <3>1. thr[t].pc = "gate" /\ Moved(t, {"idle"})
      BY <1>20, GateMoves
    <3>2. (Pending("validate") => Pending("validate")') /\ (Pending("store") => Pending("store")')
      BY <3>1 DEF Moved, Kept, Pending
    <3> QED BY <2>2, <2>4, <3>2, SavedKept
  <2> QED BY <2>2, <2>3, <2>4
<1>21. ASSUME NEW t \in Threads, GateDoubleClose(t) PROVE SavedInv'
  <2>2.
        /\ Reload
        /\ (disk' = disk \/ (wu # NoTask /\ \E w \in WorkUnit : w.id = wu.id /\ w.impl = wu.impl
              /\ w.specs = wu.specs /\ disk' = persistState(disk, w, m)))
    BY <1>21, <1>0, GateWork
  <2> QED BY <2>2, SavedReload
<1>22. ASSUME NEW t \in Threads, SubmitGateDone(t) PROVE SavedInv'
  <2>2. SameTask /\ m' = m /\ disk' = disk
    BY <1>22, <1>0, SubmitWork
  <2>3. (Pending("validate") => Pending("validate")') /\ (Pending("store") => Pending("store")')
    BY <1>22, SubmitMoves DEF Moved, Kept, Pending
  <2>4. SameTask /\ disk' = disk /\ m'.log = m.log /\ (m'.state # "none" => m.state # "none")
    BY <2>2, <1>s DEF SameTask
  <2> QED BY <2>3, <2>4, SavedKept
<1>23. ASSUME NEW t \in Threads, SubmitDispatch(t) PROVE SavedInv'
  <2>1. thr[t].pc = "dispatch" /\ Moved(t, {"store", "idle"})
    BY <1>23, SubmitMoves
  <2>2. wu' = wu /\ disk' = disk /\ (m' = m \/ m.state = "reviewing")
    BY <1>23, <1>0, SubmitWork
  <2>3. (Pending("validate") => Pending("validate")') /\ (Pending("store") => Pending("store")')
    BY <2>1 DEF Moved, Kept, Pending
  <2>4. CASE m' = m
    BY <2>2, <2>3, <2>4 DEF SavedInv
  <2>5. CASE m' # m
    <3>1. CanDispatch(m, "submit", Facts(wu))
      BY <1>23, <2>5, DispatchRejected DEF SubmitDispatch, Assign
    <3>2. Goto(t, "store") /\ "store" \in PCs
      BY <1>23, <3>1 DEF SubmitDispatch, PCs
    <3>3. Moved(t, {"store"})
      BY <3>2, GotoMoves
    <3>4. Pending("store")'
      BY <3>3 DEF Moved, Pending
    <3>5. m.state # "none" /\ wu # NoTask
      BY <2>2, <2>5 DEF NoTaskInv
    <3> QED BY <2>2, <2>3, <3>4, <3>5 DEF SavedInv
  <2> QED BY <2>4, <2>5
<1>24. ASSUME NEW t \in Threads, SubmitStore(t) PROVE SavedInv'
  <2>2. wu # NoTask => Written
    BY <1>24, <1>0, SubmitWork
  <2>3. CASE wu # NoTask
    BY <1>0, <1>n, <2>2, <2>3, SavedWritten
  <2>4. CASE wu = NoTask
    <3>1. m' = m
      BY <1>24, <1>0, SubmitWork
    <3> QED BY <2>4, <3>1 DEF NoTaskInv, SavedInv
  <2> QED BY <2>3, <2>4
<1>25. ASSUME NEW t \in Clients, NEW op \in Phases \cup Reviews \cup {"submit"}, Request(t, op)
      PROVE SavedInv'
  <2>2. UNCHANGED work
    BY <1>25, <1>0, ClientWork
  <2>3. (Pending("validate") => Pending("validate")') /\ (Pending("store") => Pending("store")')
    BY <1>25, ClientMoves DEF Kept, Pending
  <2>4. SameTask /\ disk' = disk /\ m'.log = m.log /\ (m'.state # "none" => m.state # "none")
    BY <2>2, <1>s DEF work, SameTask
  <2> QED BY <2>3, <2>4, SavedKept
<1>26. ASSUME NEW id \in Tasks, Start(id) PROVE SavedInv'
  <2>1. Begun(id)
    BY <1>26, <1>0, ClientWork
  <2>2. CASE Written
    BY <1>0, <1>n, <2>2, SavedWritten
  <2>3. CASE m'.state = "none"
    BY <2>3 DEF SavedInv
  <2> QED BY <2>1, <2>2, <2>3 DEF Begun
<1>27. ASSUME NEW id \in Tasks, StartQueued(id) PROVE SavedInv'
  <2>1. UNCHANGED work \/ Begun(id)
    BY <1>27, <1>0, ClientWork
  <2>2. CASE Written
    BY <1>0, <1>n, <2>2, SavedWritten
  <2>3. CASE m'.state = "none"
    BY <2>3 DEF SavedInv
  <2>4. CASE UNCHANGED work
    <3>1. thr' = thr
      BY <1>27 DEF StartQueued
    <3> QED BY <2>4, <3>1 DEF work, SavedInv, Pending
  <2> QED BY <2>1, <2>2, <2>3, <2>4 DEF Begun
<1>28. ASSUME NEW id \in Tasks, NEW position \in DOMAIN queue, ReorderQueue(id, position) PROVE
      SavedInv'
  <2>1. Unlocked /\ thr' = thr /\ mu' = mu
    BY <1>28 DEF ReorderQueue, Handler
  <2>2. UNCHANGED work
    BY <1>28, <1>0, ClientWork
  <2>3. (Pending("validate") => Pending("validate")') /\ (Pending("store") => Pending("store")')
    BY <2>1 DEF Pending
  <2>4. SameTask /\ disk' = disk /\ m'.log = m.log /\ (m'.state # "none" => m.state # "none")
    BY <2>2, <1>s DEF work, SameTask
  <2> QED BY <2>3, <2>4, SavedKept
<1>29. CASE Stop
  <2>2. wu' = wu /\ Written /\ Back
    BY <1>29, <1>0, ClientWork
  <2> QED BY <1>0, <1>n, <2>2, SavedWritten
<1>30. CASE Abort
  <2>2.
        /\ wu' = wu /\ Written /\ m.state # "none" /\ m'.state = "failed" /\ m'.prior = m.prior
        /\ m'.interrupted = FALSE
    BY <1>30, <1>0, ClientWork
  <2> QED BY <1>0, <1>n, <2>2, SavedWritten
<1>31. CASE Reset
  <2>2.
        /\ wu' = wu /\ Written /\ m.state = "failed" /\ m'.prior = m.prior
        /\ (m' = m \/ (m'.state = "loaded" /\ m'.interrupted = FALSE))
    BY <1>31, <1>0, ClientWork
  <2> QED BY <1>0, <1>n, <2>2, SavedWritten
<1>32. CASE UpdateTask
  <2>2. wu # NoTask /\ wu'.id = wu.id /\ wu'.impl = wu.impl /\ wu'.pr = wu.pr /\ m' = m /\ Written
    BY <1>32, <1>0, ClientWork
  <2> QED BY <1>0, <1>n, <2>2, SavedWritten
<1>33. CASE Crash
  <2>2. Reload /\ disk' = disk
    BY <1>33, <1>0, ClientWork
  <2> QED BY <2>2, SavedReload
<1>34. ASSUME NEW force \in BOOLEAN, Finish(force) PROVE SavedInv'
  <2>1. Cleared
    BY <1>34, <1>0, ClientWork
  <2> QED BY <2>1 DEF Cleared, SavedInv
<1>35. CASE UNCHANGED vars
  BY <1>35 DEF vars, SavedInv, Pending
<1> QED
  BY <1>1, <1>2, <1>3, <1>4, <1>5, <1>6, <1>7, <1>8, <1>9, <1>10, <1>11, <1>12, <1>13, <1>14, <1>15,
     <1>16, <1>17, <1>18, <1>19, <1>20, <1>21, <1>22, <1>23, <1>24, <1>25, <1>26, <1>27, <1>28,
     <1>29, <1>30, <1>31, <1>32, <1>33, <1>34, <1>35 DEF Next, ClientStep, ThreadStep, Begin,
     Enter, Observe, Decide, Gate, Submit

\* What a task has achieved survives a restart, whatever the handlers interleave
\* and wherever the process is killed, if no strategy asks for another iteration
\* (an iteration leaves a specification it has found unsaved until the phase is
\* accepted).
THEOREM ProgressIsSaved == ASSUME ~Iterative PROVE Spec => []ProgressSaved
<1> DEFINE Inv == Typed /\ BaseInv /\ SavedInv
<1>1. Init => Inv
  <2>1. Init => m = NewMachine
    BY DEF Init
  <2>2. NewMachine.state = "none"
    BY DEF NewMachine
  <2> QED BY <2>1, <2>2, InitTyped, InitBase DEF SavedInv
<1>2. Inv /\ [Next]_vars => Inv'
  <2> SUFFICES ASSUME Typed, BaseInv, SavedInv, [Next]_vars PROVE Inv'
    OBVIOUS
  <2>1. WorkType /\ ThrType /\ RestType /\ OpInv
    BY TypeParts DEF Typed
  <2>2. BaseInv'
    BY NextBase
  <2>3. SavedInv'
    BY <2>1, <2>2, NextSaved DEF BaseInv
  <2> QED BY <2>2, <2>3, NextTyped
<1>3. Inv => ProgressSaved
  <2> SUFFICES ASSUME SavedInv, Quiet, m.state # "none" PROVE ProgressSaved
    BY DEF ProgressSaved
  <2>1. ~Pending("validate") /\ ~Pending("store")
    BY DEF Quiet, At, Pending
  <2> QED BY <2>1 DEF SavedInv, ProgressSaved
<1> QED BY <1>1, <1>2, <1>3, PTL DEF Spec

-----------------------------------------------------------------------------
(* A task in a state that presupposes an implementation has one.           *)

\* Nobody puts a task away: Machine.Reset keeps priorStableState, and the next
\* task would be rolled back to a state of the previous one.
KeepsTasks == Requests \cap {"abandon", "delete", "finish"} = {}

LEMMA NextFresh ==
    ASSUME WorkType, ThrType, RestType, OpInv, KeepsTasks, PriorInv, FreshInv, [Next]_vars
    PROVE  FreshInv'
<1>0. WorkType'
  BY NextWork
<1>p. \A op \in Phases : InProgressState[op] \in InProgress
  BY DEF Phases, InProgressState, InProgress
<1>d. \A op \in Phases : DoneTo[Completion[op]] \in {"planned", "implemented"}
  BY DEF Phases, DoneTo, Completion
<1>s. /\ "none" \notin Stable /\ "none" \notin InProgress /\ Stable \cap InProgress = {}
      /\ Active = InProgress \cup {"reviewing"} /\ "reviewing" \notin Stable \cup InProgress
      /\ {"loaded", "planned", "implemented", "submitted"} = Stable
      /\ {"failed", ""} \cap (Stable \cup Active) = {}
  BY DEF Stable, Active, InProgress
<1>1. ASSUME NEW t \in Threads, Refused(t) \/ StreamClosed(t) \/ SelfCall(t) \/ GuardrailsPass(t) \/
      CompletedNoTask(t) \/ Failed(t) \/ Iterate(t) \/ PolicyRetry(t) \/ PolicyFail(t) \/
      SpawnGate(t) \/ SubmitGate(t) \/ SubmitWaited(t) \/ NetworkFails(t) \/ NetworkDone(t) PROVE
      FreshInv'
  <2>2. UNCHANGED work
    BY <1>1, <1>0, BeginWork, WatchWork, GateWork, SubmitWork
  <2> QED BY <2>2, <1>s DEF work, FreshInv
<1>2. ASSUME NEW t \in Threads, GuardrailsFail(t) \/ SubmitJobFails(t) \/ FixRefused(t) PROVE
      FreshInv'
  <2>2. wu' = wu /\ disk' = disk /\ Back
    BY <1>2, <1>0, BeginWork
  <2> QED BY <2>2, <1>s DEF Back, RollsBack, FreshInv, PriorInv
<1>3. ASSUME NEW t \in Threads, NoSpecification(t) \/ JobErrored(t) PROVE FreshInv'
  <2>2. wu' = wu /\ Written /\ Back
    BY <1>3, <1>0, WatchWork
  <2> QED BY <2>2, <1>s DEF Back, RollsBack, FreshInv, PriorInv
<1>4. ASSUME NEW id \in Tasks, QueueTask(id) \/ DequeueTask(id) PROVE FreshInv'
  <2>2. UNCHANGED work
    BY <1>4, <1>0, ClientWork
  <2> QED BY <2>2, <1>s DEF work, FreshInv
<1>5. CASE Abandon \/ Delete
  BY <1>5 DEF KeepsTasks, Abandon, Handler, Delete
<1>6. ASSUME NEW t \in Threads, RecordPrior(t) PROVE FreshInv'
  <2>2. SameTask /\ disk' = disk /\ SameState /\ (m'.prior = m.state \/ m'.prior = m.prior)
    BY <1>6, <1>0, BeginWork
  <2> QED BY <2>2, <1>s DEF SameTask, SameState, FreshInv
<1>7. ASSUME NEW t \in Threads, EnterRejected(t) PROVE FreshInv'
  <2>2. wu' = wu /\ disk' = disk /\ SameState /\ m'.prior = ""
    BY <1>7, <1>0, BeginWork
  <2> QED BY <2>2, <1>s DEF SameState, FreshInv
<1>8. ASSUME NEW t \in Threads, EnterPhase(t) PROVE FreshInv'
  <2>0. thr[t].op \in Phases
    BY <1>8, BeginMoves DEF OpInv, Owning
  <2>2. wu' = wu /\ disk' = disk /\ In(InProgressState[thr[t].op])
    BY <1>8, <1>0, BeginWork
  <2> QED BY <2>0, <2>2, <1>s, <1>p, <1>d, ZenonT(40) DEF In, FreshInv
<1>9. ASSUME NEW t \in Threads, EnterReview(t) PROVE FreshInv'
  <2>2. wu' = wu /\ Written /\ In("reviewing")
    BY <1>9, <1>0, BeginWork
  <2> QED BY <2>2, <1>s DEF In, FreshInv
<1>10. ASSUME NEW t \in Threads, LaunchNil(t) PROVE FreshInv'
  <2>2. (UNCHANGED work \/ (Reload /\ disk' = disk))
    BY <1>10, <1>0, BeginWork
  <2> QED BY <2>2, <1>s DEF work, Reload, FreshInv
<1>11. ASSUME NEW t \in Threads, Launch(t) PROVE FreshInv'
  <2>2. wu # NoTask /\ wu' = wu /\ m' = m /\ Written
    BY <1>11, <1>0, BeginWork
  <2> QED BY <2>2, <1>s DEF FreshInv
<1>12. ASSUME NEW t \in Threads, FixStarted(t) PROVE FreshInv'
  <2>2. (UNCHANGED work \/ (wu' = wu /\ m' = m /\ Written))
    BY <1>12, <1>0, BeginWork
  <2> QED BY <2>2, <1>s DEF work, FreshInv
<1>13. ASSUME NEW t \in Threads, Completed(t) PROVE FreshInv'
  <2>2.
        /\ wu # NoTask /\ wu'.id = wu.id /\ wu'.impl = wu.impl /\ wu'.pr = wu.pr /\ m' = m
        /\ disk' = disk
    BY <1>13, <1>0, WatchWork
  <2> QED BY <2>2, <1>s DEF FreshInv
<1>14. ASSUME NEW t \in Threads, Accept(t) PROVE FreshInv'
  <2>2. wu' = wu /\ m' = m /\ Written
    BY <1>14, <1>0, WatchWork
  <2> QED BY <2>2, <1>s DEF FreshInv
<1>15. ASSUME NEW t \in Threads, FinalizeNil(t) PROVE FreshInv'
  <2>2. Reload /\ disk' = disk
    BY <1>15, <1>0, WatchWork
  <2> QED BY <2>2, <1>s DEF Reload, FreshInv
<1>16. ASSUME NEW t \in Threads, Finalize(t) PROVE FreshInv'
  <2>0. thr[t].op \in Phases
    BY <1>16, WatchMoves DEF OpInv, Owning
  <2>2.
        /\ Written /\ Done(thr[t].op) /\ wu'.id = wu.id
        /\ (wu # NoTask => wu'.pr = wu.pr /\ wu'.impl = (wu.impl \/ thr[t].op = "implement"))
    BY <1>16, <1>0, WatchWork
  <2> QED BY <2>0, <2>2, <1>s, <1>p, <1>d DEF Done, SameState, FreshInv
<1>17. ASSUME NEW t \in Threads, PolicySkip(t) PROVE FreshInv'
  <2>0. thr[t].op \in Phases
    BY <1>17, WatchMoves DEF OpInv, Owning
  <2>2.
        /\ wu' = wu /\ Written /\ Done(thr[t].op) /\ Policy[thr[t].op] = "skip"
        /\ m.state = InProgressState[thr[t].op]
    BY <1>17, <1>0, WatchWork
  <2> QED BY <2>0, <2>2, <1>s, <1>p, <1>d DEF Done, SameState, FreshInv
<1>18. ASSUME NEW t \in Threads, GateDone(t) PROVE FreshInv'
  <2>2. SameTask /\ m' = m /\ (disk' = disk \/ Written)
    BY <1>18, <1>0, GateWork
  <2> QED BY <2>2, <1>s DEF SameTask, FreshInv
<1>19. ASSUME NEW t \in Threads, GateDoubleClose(t) PROVE FreshInv'
  <2>2.
        /\ Reload
        /\ (disk' = disk \/ (wu # NoTask /\ \E w \in WorkUnit : w.id = wu.id /\ w.impl = wu.impl
              /\ w.specs = wu.specs /\ disk' = persistState(disk, w, m)))
    BY <1>19, <1>0, GateWork
  <2> QED BY <2>2, <1>s DEF Reload, FreshInv
<1>20. ASSUME NEW t \in Threads, SubmitGateDone(t) PROVE FreshInv'
  <2>2. SameTask /\ m' = m /\ disk' = disk
    BY <1>20, <1>0, SubmitWork
  <2> QED BY <2>2, <1>s DEF SameTask, FreshInv
<1>21. ASSUME NEW t \in Threads, SubmitDispatch(t) PROVE FreshInv'
  <2>2.
        /\ wu' = wu /\ disk' = disk
        /\ (m' = m \/ (m.state = "reviewing" /\ m'.state = "submitted" /\ m'.prior = m.prior
              /\ m'.interrupted = FALSE))
    BY <1>21, <1>0, SubmitWork
  <2> QED BY <2>2, <1>s DEF FreshInv
<1>22. ASSUME NEW t \in Threads, SubmitStore(t) PROVE FreshInv'
  <2>2.
        /\ wu'.id = wu.id /\ m' = m /\ (wu = NoTask => wu' = wu /\ disk' = disk)
        /\ (wu # NoTask => Written /\ wu'.specs = wu.specs /\ wu'.impl = wu.impl)
    BY <1>22, <1>0, SubmitWork
  <2> QED BY <2>2, <1>s DEF FreshInv
<1>23. ASSUME NEW t \in Clients, NEW op \in Phases \cup Reviews \cup {"submit"}, Request(t, op)
      PROVE FreshInv'
  <2>2. UNCHANGED work
    BY <1>23, <1>0, ClientWork
  <2> QED BY <2>2, <1>s DEF work, FreshInv
<1>24. ASSUME NEW id \in Tasks, Start(id) PROVE FreshInv'
  <2>2. Begun(id)
    BY <1>24, <1>0, ClientWork
  <2> QED BY <2>2, <1>s DEF Begun, FreshInv
<1>25. ASSUME NEW id \in Tasks, StartQueued(id) PROVE FreshInv'
  <2>2. UNCHANGED work \/ Begun(id)
    BY <1>25, <1>0, ClientWork
  <2> QED BY <2>2, <1>s DEF Begun, work, FreshInv
<1>26. ASSUME NEW id \in Tasks, NEW position \in DOMAIN queue, ReorderQueue(id, position) PROVE
      FreshInv'
  <2>2. UNCHANGED work
    BY <1>26, <1>0, ClientWork
  <2> QED BY <2>2, <1>s DEF work, FreshInv
<1>27. CASE Stop
  <2>2. wu' = wu /\ Written /\ Back
    BY <1>27, <1>0, ClientWork
  <2> QED BY <2>2, <1>s DEF Back, RollsBack, FreshInv, PriorInv
<1>28. CASE Abort
  <2>2.
        /\ wu' = wu /\ Written /\ m.state # "none" /\ m'.state = "failed" /\ m'.prior = m.prior
        /\ m'.interrupted = FALSE
    BY <1>28, <1>0, ClientWork
  <2> QED BY <2>2, <1>s DEF FreshInv
<1>29. CASE Reset
  <2>2.
        /\ wu' = wu /\ Written /\ m.state = "failed" /\ m'.prior = m.prior
        /\ (m' = m \/ (m'.state = "loaded" /\ m'.interrupted = FALSE))
    BY <1>29, <1>0, ClientWork
  <2> QED BY <2>2, <1>s DEF FreshInv
<1>30. CASE UpdateTask
  <2>2. wu # NoTask /\ wu'.id = wu.id /\ wu'.impl = wu.impl /\ wu'.pr = wu.pr /\ m' = m /\ Written
    BY <1>30, <1>0, ClientWork
  <2> QED BY <2>2, <1>s DEF FreshInv
<1>31. CASE Crash
  <2>2. Reload /\ disk' = disk
    BY <1>31, <1>0, ClientWork
  <2> QED BY <2>2, <1>s DEF Reload, FreshInv
<1>32. ASSUME NEW force \in BOOLEAN, Finish(force) PROVE FreshInv'
  BY <1>32 DEF KeepsTasks, Finish, Handler
<1>33. CASE UNCHANGED vars
  BY <1>33 DEF vars, FreshInv
<1> QED
  BY <1>1, <1>2, <1>3, <1>4, <1>5, <1>6, <1>7, <1>8, <1>9, <1>10, <1>11, <1>12, <1>13, <1>14, <1>15,
     <1>16, <1>17, <1>18, <1>19, <1>20, <1>21, <1>22, <1>23, <1>24, <1>25, <1>26, <1>27, <1>28,
     <1>29, <1>30, <1>31, <1>32, <1>33 DEF Next, ClientStep, ThreadStep, Begin, Enter, Observe,
     Decide, Gate, Submit

LEMMA CodeKept ==
    ASSUME WorkType, WorkType', SavedCode, disk' = disk \/ Written, CurrentCode'
    PROVE  CodeInv'
<1>1. CASE disk' = disk
  BY <1>1 DEF SavedCode, CodeInv
<1>2. CASE Written
  <2>1. wu' = NoTask => disk' = disk
    BY <1>2, WrittenFiles
  <2>2. wu' # NoTask => \A e \in Files(disk') :
          e \in Files(disk) \/ (e.state = m'.state /\ e.impl = wu'.impl)
    BY <1>2, WrittenFiles
  <2> QED BY <2>1, <2>2 DEF SavedCode, CurrentCode, CodeInv
<1> QED BY <1>1, <1>2

LEMMA CodeReload == ASSUME Reload, SavedCode' PROVE CodeInv'
<1>1. "none" \notin Built /\ "" \notin Built
  BY DEF Built
<1> QED BY <1>1 DEF Reload, SavedCode, CurrentCode, CodeInv

LEMMA NextCode ==
    ASSUME WorkType, ThrType, RestType, OpInv, KeepsTasks, Policy["implement"] # "skip", NoTaskInv,
           FreshInv, CodeInv, [Next]_vars
    PROVE  CodeInv'
<1>0. WorkType'
  BY NextWork
<1>k. Policy["implement"] # "skip"
  OBVIOUS
<1>u. (wu = NoTask <=> wu.id \notin Tasks) /\ (wu' = NoTask <=> wu'.id \notin Tasks)
  BY <1>0, UnitId DEF WorkType
<1>p. \A op \in Phases : InProgressState[op] \in InProgress
  BY DEF Phases, InProgressState, InProgress
<1>b. /\ Built = {"implemented", "simplifying", "optimizing", "reviewing", "submitted"}
      /\ {"", "none", "loaded", "planned", "failed", "planning", "implementing"} \cap Built = {}
  BY DEF Built
<1>c. CurrentCode /\ SavedCode
  BY DEF CodeInv
<1>o. \A op \in Phases :
        /\ InProgressState[op] \in Built => op # "implement"
        /\ DoneTo[Completion[op]] \in Built => op = "implement" \/ InProgressState[op] \in Built
  BY DEF Phases, InProgressState, DoneTo, Completion, Built
<1>s. /\ "none" \notin Stable /\ "none" \notin InProgress /\ Stable \cap InProgress = {}
      /\ Active = InProgress \cup {"reviewing"} /\ "reviewing" \notin Stable \cup InProgress
      /\ {"loaded", "planned", "implemented", "submitted"} = Stable
      /\ {"failed", ""} \cap (Stable \cup Active) = {}
  BY DEF Stable, Active, InProgress
<1>1. ASSUME NEW t \in Threads, Refused(t) \/ StreamClosed(t) \/ SelfCall(t) \/ GuardrailsPass(t) \/
      CompletedNoTask(t) \/ Failed(t) \/ Iterate(t) \/ PolicyRetry(t) \/ PolicyFail(t) \/
      SpawnGate(t) \/ SubmitGate(t) \/ SubmitWaited(t) \/ NetworkFails(t) \/ NetworkDone(t) PROVE
      CodeInv'
  <2>2. UNCHANGED work
    BY <1>1, <1>0, BeginWork, WatchWork, GateWork, SubmitWork
  <2>3. CurrentCode'
    BY <2>2, <1>b, <1>c, <1>u DEF work, CurrentCode
  <2>4. disk' = disk \/ Written
    BY <2>2 DEF work
  <2> QED BY <1>0, <1>c, <2>3, <2>4, CodeKept
<1>2. ASSUME NEW t \in Threads, GuardrailsFail(t) \/ SubmitJobFails(t) \/ FixRefused(t) PROVE
      CodeInv'
  <2>2. wu' = wu /\ disk' = disk /\ Back
    BY <1>2, <1>0, BeginWork
  <2>3. CurrentCode'
    BY <2>2, <1>b, <1>c, <1>u DEF Back, RollsBack, CurrentCode
  <2>4. disk' = disk \/ Written
    BY <2>2
  <2> QED BY <1>0, <1>c, <2>3, <2>4, CodeKept
<1>3. ASSUME NEW t \in Threads, NoSpecification(t) \/ JobErrored(t) PROVE CodeInv'
  <2>2. wu' = wu /\ Written /\ Back
    BY <1>3, <1>0, WatchWork
  <2>3. CurrentCode'
    BY <2>2, <1>b, <1>c, <1>u DEF Back, RollsBack, CurrentCode
  <2>4. disk' = disk \/ Written
    BY <2>2
  <2> QED BY <1>0, <1>c, <2>3, <2>4, CodeKept
<1>4. ASSUME NEW id \in Tasks, QueueTask(id) \/ DequeueTask(id) PROVE CodeInv'
  <2>2. UNCHANGED work
    BY <1>4, <1>0, ClientWork
  <2>3. CurrentCode'
    BY <2>2, <1>b, <1>c, <1>u DEF work, CurrentCode
  <2>4. disk' = disk \/ Written
    BY <2>2 DEF work
  <2> QED BY <1>0, <1>c, <2>3, <2>4, CodeKept
<1>5. CASE Abandon \/ Delete
  BY <1>5 DEF KeepsTasks, Abandon, Handler, Delete
<1>6. ASSUME NEW t \in Threads, RecordPrior(t) PROVE CodeInv'
  <2>2. SameTask /\ disk' = disk /\ SameState /\ (m'.prior = m.state \/ m'.prior = m.prior)
    BY <1>6, <1>0, BeginWork
  <2>3. CurrentCode'
    BY <2>2, <1>b, <1>c, <1>u DEF SameTask, SameState, CurrentCode
  <2>4. disk' = disk \/ Written
    BY <2>2
  <2> QED BY <1>0, <1>c, <2>3, <2>4, CodeKept
<1>7. ASSUME NEW t \in Threads, EnterRejected(t) PROVE CodeInv'
  <2>2. wu' = wu /\ disk' = disk /\ SameState /\ m'.prior = ""
    BY <1>7, <1>0, BeginWork
  <2>3. CurrentCode'
    BY <2>2, <1>b, <1>c, <1>u DEF SameState, CurrentCode
  <2>4. disk' = disk \/ Written
    BY <2>2
  <2> QED BY <1>0, <1>c, <2>3, <2>4, CodeKept
<1>8. ASSUME NEW t \in Threads, EnterPhase(t) PROVE CodeInv'
  <2>0. thr[t].op \in Phases
    BY <1>8, BeginMoves DEF OpInv, Owning
  <2>2. wu' = wu /\ disk' = disk /\ In(InProgressState[thr[t].op])
    BY <1>8, <1>0, BeginWork
  <2>3. CurrentCode'
    BY <2>0, <2>2, <1>b, <1>c, <1>u, <1>o DEF In, CurrentCode, NoTaskInv
  <2>4. disk' = disk \/ Written
    BY <2>2
  <2> QED BY <1>0, <1>c, <2>3, <2>4, CodeKept
<1>9. ASSUME NEW t \in Threads, EnterReview(t) PROVE CodeInv'
  <2>2. wu' = wu /\ Written /\ In("reviewing")
    BY <1>9, <1>0, BeginWork
  <2>3. CurrentCode'
    BY <2>2, <1>b, <1>c, <1>u DEF In, CurrentCode
  <2>4. disk' = disk \/ Written
    BY <2>2
  <2> QED BY <1>0, <1>c, <2>3, <2>4, CodeKept
<1>10. ASSUME NEW t \in Threads, LaunchNil(t) PROVE CodeInv'
  <2>2. (UNCHANGED work \/ (Reload /\ disk' = disk))
    BY <1>10, <1>0, BeginWork
  <2>3. CASE UNCHANGED work
    BY <2>3, <1>c DEF work, CodeInv, CurrentCode, SavedCode
  <2>4. CASE Reload /\ disk' = disk
    <3>1. SavedCode'
      BY <2>4, <1>c DEF SavedCode
    <3> QED BY <2>4, <3>1, CodeReload
  <2> QED BY <2>2, <2>3, <2>4
<1>11. ASSUME NEW t \in Threads, Launch(t) PROVE CodeInv'
  <2>2. wu # NoTask /\ wu' = wu /\ m' = m /\ Written
    BY <1>11, <1>0, BeginWork
  <2>3. CurrentCode'
    BY <2>2, <1>b, <1>c, <1>u DEF CurrentCode
  <2>4. disk' = disk \/ Written
    BY <2>2
  <2> QED BY <1>0, <1>c, <2>3, <2>4, CodeKept
<1>12. ASSUME NEW t \in Threads, FixStarted(t) PROVE CodeInv'
  <2>2. (UNCHANGED work \/ (wu' = wu /\ m' = m /\ Written))
    BY <1>12, <1>0, BeginWork
  <2>3. CurrentCode'
    BY <2>2, <1>b, <1>c, <1>u DEF work, CurrentCode
  <2>4. disk' = disk \/ Written
    BY <2>2 DEF work
  <2> QED BY <1>0, <1>c, <2>3, <2>4, CodeKept
<1>13. ASSUME NEW t \in Threads, Completed(t) PROVE CodeInv'
  <2>2.
        /\ wu # NoTask /\ wu'.id = wu.id /\ wu'.impl = wu.impl /\ wu'.pr = wu.pr /\ m' = m
        /\ disk' = disk
    BY <1>13, <1>0, WatchWork
  <2>3. CurrentCode'
    BY <2>2, <1>b, <1>c, <1>u DEF CurrentCode
  <2>4. disk' = disk \/ Written
    BY <2>2
  <2> QED BY <1>0, <1>c, <2>3, <2>4, CodeKept
<1>14. ASSUME NEW t \in Threads, Accept(t) PROVE CodeInv'
  <2>2. wu' = wu /\ m' = m /\ Written
    BY <1>14, <1>0, WatchWork
  <2>3. CurrentCode'
    BY <2>2, <1>b, <1>c, <1>u DEF CurrentCode
  <2>4. disk' = disk \/ Written
    BY <2>2
  <2> QED BY <1>0, <1>c, <2>3, <2>4, CodeKept
<1>15. ASSUME NEW t \in Threads, FinalizeNil(t) PROVE CodeInv'
  <2>2. Reload /\ disk' = disk
    BY <1>15, <1>0, WatchWork
  <2>3. SavedCode'
    BY <2>2, <1>c DEF SavedCode
  <2> QED BY <2>2, <2>3, CodeReload
<1>16. ASSUME NEW t \in Threads, Finalize(t) PROVE CodeInv'
  <2>0. thr[t].op \in Phases
    BY <1>16, WatchMoves DEF OpInv, Owning
  <2>2.
        /\ Written /\ Done(thr[t].op) /\ wu'.id = wu.id
        /\ (wu # NoTask => wu'.pr = wu.pr /\ wu'.impl = (wu.impl \/ thr[t].op = "implement"))
    BY <1>16, <1>0, WatchWork
  <2>3. CurrentCode'
    <3>1. wu # NoTask /\ (wu.impl \/ thr[t].op = "implement") => wu'.impl
      BY <2>2
    <3>2. m'.state \in Built => wu # NoTask /\ (wu.impl \/ thr[t].op = "implement")
      BY <2>0, <2>2, <1>b, <1>c, <1>o, <1>p, <1>s DEF Done, SameState, CurrentCode, NoTaskInv
    <3>3. wu # NoTask => wu' # NoTask
      BY <2>2, <1>u
    <3>4. m'.prior \notin Built
      BY <2>2, <1>b DEF Done
    <3> QED BY <3>1, <3>2, <3>3, <3>4 DEF CurrentCode
  <2>4. disk' = disk \/ Written
    BY <2>2
  <2> QED BY <1>0, <1>c, <2>3, <2>4, CodeKept
<1>17. ASSUME NEW t \in Threads, PolicySkip(t) PROVE CodeInv'
  <2>0. thr[t].op \in Phases
    BY <1>17, WatchMoves DEF OpInv, Owning
  <2>2.
        /\ wu' = wu /\ Written /\ Done(thr[t].op) /\ Policy[thr[t].op] = "skip"
        /\ m.state = InProgressState[thr[t].op]
    BY <1>17, <1>0, WatchWork
  <2>3. CurrentCode'
    BY <2>0, <2>2, <1>b, <1>c, <1>u, <1>o, <1>k DEF Done, SameState, CurrentCode, NoTaskInv
  <2>4. disk' = disk \/ Written
    BY <2>2
  <2> QED BY <1>0, <1>c, <2>3, <2>4, CodeKept
<1>18. ASSUME NEW t \in Threads, GateDone(t) PROVE CodeInv'
  <2>2. SameTask /\ m' = m /\ (disk' = disk \/ Written)
    BY <1>18, <1>0, GateWork
  <2>3. CurrentCode'
    BY <2>2, <1>b, <1>c, <1>u DEF SameTask, CurrentCode
  <2>4. disk' = disk \/ Written
    BY <2>2
  <2> QED BY <1>0, <1>c, <2>3, <2>4, CodeKept
<1>19. ASSUME NEW t \in Threads, GateDoubleClose(t) PROVE CodeInv'
  <2>2.
        /\ Reload
        /\ (disk' = disk \/ (wu # NoTask /\ \E w \in WorkUnit : w.id = wu.id /\ w.impl = wu.impl
              /\ w.specs = wu.specs /\ disk' = persistState(disk, w, m)))
    BY <1>19, <1>0, GateWork
  <2>3. SavedCode'
    <3>1. CASE disk' = disk
      BY <3>1, <1>c DEF SavedCode
    <3>2. ASSUME wu # NoTask, NEW w \in WorkUnit, w.impl = wu.impl, disk' = persistState(disk, w, m)
          PROVE  SavedCode'
      <4>1. disk \in Seq(Saved) /\ m \in Machine /\ w \in Unit /\ w # NoTask
        BY UnitId DEF WorkType, Unit
      <4>2. Files(disk') \subseteq Files(disk) \cup {Entry(w, m)}
        BY <3>2, <4>1, PersistFiles
      <4>3. Entry(w, m).impl = wu.impl /\ Entry(w, m).state = m.state
        BY <3>2, <4>1, EntryType
      <4> QED BY <4>2, <4>3, <1>c DEF SavedCode, CurrentCode
    <3> QED BY <2>2, <3>1, <3>2
  <2> QED BY <2>2, <2>3, CodeReload
<1>20. ASSUME NEW t \in Threads, SubmitGateDone(t) PROVE CodeInv'
  <2>2. SameTask /\ m' = m /\ disk' = disk
    BY <1>20, <1>0, SubmitWork
  <2>3. CurrentCode'
    BY <2>2, <1>b, <1>c, <1>u DEF SameTask, CurrentCode
  <2>4. disk' = disk \/ Written
    BY <2>2
  <2> QED BY <1>0, <1>c, <2>3, <2>4, CodeKept
<1>21. ASSUME NEW t \in Threads, SubmitDispatch(t) PROVE CodeInv'
  <2>2.
        /\ wu' = wu /\ disk' = disk
        /\ (m' = m \/ (m.state = "reviewing" /\ m'.state = "submitted" /\ m'.prior = m.prior
              /\ m'.interrupted = FALSE))
    BY <1>21, <1>0, SubmitWork
  <2>3. CurrentCode'
    BY <2>2, <1>b, <1>c, <1>u DEF CurrentCode
  <2>4. disk' = disk \/ Written
    BY <2>2
  <2> QED BY <1>0, <1>c, <2>3, <2>4, CodeKept
<1>22. ASSUME NEW t \in Threads, SubmitStore(t) PROVE CodeInv'
  <2>2.
        /\ wu'.id = wu.id /\ m' = m /\ (wu = NoTask => wu' = wu /\ disk' = disk)
        /\ (wu # NoTask => Written /\ wu'.specs = wu.specs /\ wu'.impl = wu.impl)
    BY <1>22, <1>0, SubmitWork
  <2>3. CurrentCode'
    BY <2>2, <1>b, <1>c, <1>u DEF CurrentCode
  <2>4. disk' = disk \/ Written
    BY <2>2
  <2> QED BY <1>0, <1>c, <2>3, <2>4, CodeKept
<1>23. ASSUME NEW t \in Clients, NEW op \in Phases \cup Reviews \cup {"submit"}, Request(t, op)
      PROVE CodeInv'
  <2>2. UNCHANGED work
    BY <1>23, <1>0, ClientWork
  <2>3. CurrentCode'
    BY <2>2, <1>b, <1>c, <1>u DEF work, CurrentCode
  <2>4. disk' = disk \/ Written
    BY <2>2 DEF work
  <2> QED BY <1>0, <1>c, <2>3, <2>4, CodeKept
<1>24. ASSUME NEW id \in Tasks, Start(id) PROVE CodeInv'
  <2>2. Begun(id)
    BY <1>24, <1>0, ClientWork
  <2>3. CurrentCode'
    BY <2>2, <1>b, <1>c, <1>u DEF Begun, CurrentCode, FreshInv
  <2>4. disk' = disk \/ Written
    BY <2>2 DEF Begun
  <2> QED BY <1>0, <1>c, <2>3, <2>4, CodeKept
<1>25. ASSUME NEW id \in Tasks, StartQueued(id) PROVE CodeInv'
  <2>2. UNCHANGED work \/ Begun(id)
    BY <1>25, <1>0, ClientWork
  <2>3. CurrentCode'
    BY <2>2, <1>b, <1>c, <1>u DEF Begun, work, CurrentCode, FreshInv
  <2>4. disk' = disk \/ Written
    BY <2>2 DEF Begun, work
  <2> QED BY <1>0, <1>c, <2>3, <2>4, CodeKept
<1>26. ASSUME NEW id \in Tasks, NEW position \in DOMAIN queue, ReorderQueue(id, position) PROVE
      CodeInv'
  <2>2. UNCHANGED work
    BY <1>26, <1>0, ClientWork
  <2>3. CurrentCode'
    BY <2>2, <1>b, <1>c, <1>u DEF work, CurrentCode
  <2>4. disk' = disk \/ Written
    BY <2>2 DEF work
  <2> QED BY <1>0, <1>c, <2>3, <2>4, CodeKept
<1>27. CASE Stop
  <2>2. wu' = wu /\ Written /\ Back
    BY <1>27, <1>0, ClientWork
  <2>3. CurrentCode'
    BY <2>2, <1>b, <1>c, <1>u DEF Back, RollsBack, CurrentCode
  <2>4. disk' = disk \/ Written
    BY <2>2
  <2> QED BY <1>0, <1>c, <2>3, <2>4, CodeKept
<1>28. CASE Abort
  <2>2.
        /\ wu' = wu /\ Written /\ m.state # "none" /\ m'.state = "failed" /\ m'.prior = m.prior
        /\ m'.interrupted = FALSE
    BY <1>28, <1>0, ClientWork
  <2>3. CurrentCode'
    BY <2>2, <1>b, <1>c, <1>u DEF CurrentCode
  <2>4. disk' = disk \/ Written
    BY <2>2
  <2> QED BY <1>0, <1>c, <2>3, <2>4, CodeKept
<1>29. CASE Reset
  <2>2.
        /\ wu' = wu /\ Written /\ m.state = "failed" /\ m'.prior = m.prior
        /\ (m' = m \/ (m'.state = "loaded" /\ m'.interrupted = FALSE))
    BY <1>29, <1>0, ClientWork
  <2>3. CurrentCode'
    BY <2>2, <1>b, <1>c, <1>u DEF CurrentCode
  <2>4. disk' = disk \/ Written
    BY <2>2
  <2> QED BY <1>0, <1>c, <2>3, <2>4, CodeKept
<1>30. CASE UpdateTask
  <2>2. wu # NoTask /\ wu'.id = wu.id /\ wu'.impl = wu.impl /\ wu'.pr = wu.pr /\ m' = m /\ Written
    BY <1>30, <1>0, ClientWork
  <2>3. CurrentCode'
    BY <2>2, <1>b, <1>c, <1>u DEF CurrentCode
  <2>4. disk' = disk \/ Written
    BY <2>2
  <2> QED BY <1>0, <1>c, <2>3, <2>4, CodeKept
<1>31. CASE Crash
  <2>2. Reload /\ disk' = disk
    BY <1>31, <1>0, ClientWork
  <2>3. SavedCode'
    BY <2>2, <1>c DEF SavedCode
  <2> QED BY <2>2, <2>3, CodeReload
<1>32. ASSUME NEW force \in BOOLEAN, Finish(force) PROVE CodeInv'
  BY <1>32 DEF KeepsTasks, Finish, Handler
<1>33. CASE UNCHANGED vars
  BY <1>33 DEF vars, CodeInv, CurrentCode, SavedCode
<1> QED
  BY <1>1, <1>2, <1>3, <1>4, <1>5, <1>6, <1>7, <1>8, <1>9, <1>10, <1>11, <1>12, <1>13, <1>14, <1>15,
     <1>16, <1>17, <1>18, <1>19, <1>20, <1>21, <1>22, <1>23, <1>24, <1>25, <1>26, <1>27, <1>28,
     <1>29, <1>30, <1>31, <1>32, <1>33 DEF Next, ClientStep, ThreadStep, Begin, Enter, Observe,
     Decide, Gate, Submit

LEMMA InitMachine == Init => m.state = "none" /\ m.prior = "" /\ disk = <<>> /\ wu = NoTask
<1>1. Init => m = NewMachine /\ disk = <<>> /\ wu = NoTask
  BY DEF Init
<1>2. NewMachine.state = "none" /\ NewMachine.prior = ""
  BY DEF NewMachine
<1> QED BY <1>1, <1>2

\* A task that is "implemented", or on its way from there, has its HasImplemented
\* flag, whatever handlers interleave and wherever the process is killed, if the
\* failure of an implementation is not skipped (the flag is then never set) and
\* no task is put away.
THEOREM ImplementedHaveCode ==
    ASSUME KeepsTasks, Policy["implement"] # "skip" PROVE Spec => []ImplementedHasCode
<1> DEFINE Inv == Typed /\ BaseInv /\ FreshInv /\ CodeInv
<1>1. Init => Inv
  <2>1. "none" \notin Built /\ "" \notin Built
    BY DEF Built
  <2>2. Files(<<>>) = {}
    BY DEF Files
  <2>3. Init => FreshInv /\ CodeInv
    BY <2>1, <2>2, InitMachine DEF FreshInv, CodeInv, CurrentCode, SavedCode
  <2> QED BY <2>3, InitTyped, InitBase
<1>2. Inv /\ [Next]_vars => Inv'
  <2> SUFFICES ASSUME Typed, BaseInv, FreshInv, CodeInv, [Next]_vars PROVE Inv'
    OBVIOUS
  <2>1. WorkType /\ ThrType /\ RestType /\ OpInv
    BY TypeParts DEF Typed
  <2>2. BaseInv'
    BY NextBase
  <2>3. FreshInv'
    BY <2>1, NextFresh DEF BaseInv
  <2>4. CodeInv'
    BY <2>1, NextCode DEF BaseInv
  <2> QED BY <2>2, <2>3, <2>4, NextTyped
<1>3. Inv => ImplementedHasCode
  BY DEF CodeInv, CurrentCode, ImplementedHasCode, Built
<1> QED BY <1>1, <1>2, <1>3, PTL DEF Spec

-----------------------------------------------------------------------------
(* A submitted task that is published has a pull request.                  *)

LEMMA LateKept ==
    ASSUME LatePR, prs' = prs, wu'.id = wu.id, m.state # "none" => m'.state # "none",
           \A u \in Threads : thr'[u].pc \in Late => thr'[u].pc = thr[u].pc /\ thr'[u].task = thr[u].task
    PROVE  LatePR'
<1>1. "network" \in Late /\ {"dispatch", "store"} \subseteq Late
  BY DEF Late
<1> QED BY <1>1 DEF LatePR, Opened

LEMMA SubmitKept ==
    ASSUME WorkType, WorkType', SavedPR, \A id : Opened(id) => Opened(id)',
           disk' = disk \/ Written, CurrentPR', LatePR'
    PROVE  SubmitInv'
<1>1. CASE disk' = disk
  BY <1>1 DEF SavedPR, SubmitInv
<1>2. CASE Written
  <2>1. wu' = NoTask => disk' = disk
    BY <1>2, WrittenFiles
  <2>2. wu' # NoTask => \A e \in Files(disk') :
          e \in Files(disk) \/ (e.id = wu'.id /\ e.state = m'.state)
    BY <1>2, WrittenFiles
  <2> QED BY <2>1, <2>2 DEF SavedPR, CurrentPR, SubmitInv
<1> QED BY <1>1, <1>2

LEMMA SubmitReload == ASSUME Reload, AllIdle, SavedPR' PROVE SubmitInv'
<1>1. CurrentPR'
  BY DEF Reload, SavedPR, CurrentPR
<1>2. LatePR'
  BY DEF AllIdle, LatePR, Late
<1> QED BY <1>1, <1>2 DEF SubmitInv

\* The last check of Submit: the machine is reviewing, and the pull request is
\* to be opened for the current task unless it has one.
LEMMA SubmitEnters ==
    ASSUME WorkType, WorkType', ThrType, CurrentPR, NEW t \in Threads,
           SubmitGate(t) \/ SubmitWaited(t) \/ SubmitGateDone(t), thr'[t].pc = "network"
    PROVE  m.state # "none" /\ (thr'[t].task = wu.id \/ Opened(wu.id))
<1>0. thr \in [Threads -> Thread] /\ wu \in Unit /\ m \in Machine
  BY DEF ThrType, WorkType
<1>1. Idle.pc = "idle"
  BY ThreadRecords
<1>2. Rouse(thr, "gated") \in [Threads -> Thread]
  BY <1>0, RouseMoves
<1>3. PICK f \in [Threads -> Thread], w \in Unit :
        wu # NoTask /\ w # NoTask /\ w.id = wu.id /\ w.pr = wu.pr /\ Proceed(t, f, w)
  <2>1. CASE Return(t)
    BY <1>0, <1>1, <2>1 DEF Return
  <2>2. ASSUME NEW pc \in {"syncgate", "waitgate", "gated"}, Goto(t, pc) PROVE FALSE
    <3>1. pc \in PCs
      BY DEF PCs
    <3>2. Moved(t, {pc})
      BY <2>2, <3>1, GotoMoves
    <3> QED BY <3>2 DEF Moved
  <2>3. CASE wu # NoTask /\ Proceed(t, thr, wu)
    BY <1>0, <2>3
  <2>4. CASE SubmitGate(t)
    BY <2>1, <2>2, <2>3, <2>4 DEF SubmitGate, Wedge
  <2>5. CASE SubmitWaited(t)
    BY <2>1, <2>3, <2>5 DEF SubmitWaited, Wedge
  <2>6. CASE SubmitGateDone(t)
    <3> DEFINE g == Rouse(thr, "gated")
    <3>1. thr' # [g EXCEPT ![t] = Idle]
      BY <1>1, <1>2
    <3>2. wu # NoTask /\ wu' = [wu EXCEPT !.gate = "pass"] /\ Proceed(t, g, wu')
      BY <2>6, <3>1 DEF SubmitGateDone, Assign
    <3>3. wu' \in Unit /\ wu' # NoTask /\ wu'.id = wu.id /\ wu'.pr = wu.pr
      BY <1>0, <3>2, UnitGate, UnitId DEF Unit, Gates
    <3> QED BY <1>2, <3>2, <3>3
  <2> QED BY <2>4, <2>5, <2>6
<1>4. PICK r \in Thread :
        /\ thr' = [f EXCEPT ![t] = r]
        /\ \/ r.pc = "idle" /\ r.op = ""
           \/ /\ r.pc = "network" /\ r.op = f[t].op /\ r.task = IF w.pr THEN None ELSE w.id
              /\ CanDispatch(m, "submit", Facts(w))
  BY <1>3, ProceedNetwork
<1>5. thr'[t] = r
  BY <1>4
<1>6. CanDispatch(m, "submit", Facts(w)) /\ (w.pr \/ thr'[t].task = w.id)
  BY <1>4, <1>5
<1>7. m.state = "reviewing"
  BY <1>0, <1>6, DispatchOther
<1> QED BY <1>3, <1>6, <1>7 DEF CurrentPR

LEMMA NextSubmit ==
    ASSUME WorkType, ThrType, RestType, OpInv, KeepsTasks, NoTaskInv, PriorInv, FreshInv, SubmitInv,
           [Next]_vars
    PROVE  SubmitInv'
<1>0. WorkType'
  BY NextWork
<1>u. (wu = NoTask <=> wu.id \notin Tasks) /\ (wu' = NoTask <=> wu'.id \notin Tasks)
  BY <1>0, UnitId DEF WorkType
<1>p. \A op \in Phases : InProgressState[op] \in InProgress
  BY DEF Phases, InProgressState, InProgress
<1>d. \A op \in Phases : DoneTo[Completion[op]] \in {"planned", "implemented"}
  BY DEF Phases, DoneTo, Completion
<1>o. CurrentPR /\ SavedPR /\ LatePR
  BY DEF SubmitInv
<1>q. prs' = prs => \A id : Opened(id) => Opened(id)'
  BY DEF Opened
<1>l. Late = {"network", "dispatch", "store"}
  BY DEF Late
<1>s. /\ "none" \notin Stable /\ "none" \notin InProgress /\ Stable \cap InProgress = {}
      /\ Active = InProgress \cup {"reviewing"} /\ "reviewing" \notin Stable \cup InProgress
      /\ {"loaded", "planned", "implemented", "submitted"} = Stable
      /\ {"failed", ""} \cap (Stable \cup Active) = {}
  BY DEF Stable, Active, InProgress
<1>1. ASSUME NEW t \in Threads, Refused(t) \/ StreamClosed(t) \/ SelfCall(t) \/ GuardrailsPass(t) \/
      CompletedNoTask(t) \/ Failed(t) \/ Iterate(t) \/ PolicyRetry(t) \/ PolicyFail(t) \/
      NetworkFails(t) PROVE SubmitInv'
  <2>2. UNCHANGED work
    BY <1>1, <1>0, BeginWork, WatchWork, SubmitWork
  <2>5. prs' = prs
    BY <1>1 DEF Refused, env, StreamClosed, SelfCall, GuardrailsPass, CompletedNoTask, Failed, Iterate,
        PolicyRetry, PolicyFail, NetworkFails
  <2>4. \A u \in Threads : thr'[u].pc \in Late => thr'[u].pc = thr[u].pc /\ thr'[u].task = thr[u].task
    BY <1>1, BeginMoves, <1>l, WatchMoves, SubmitMoves DEF Moved, Kept
  <2>3. wu'.id = wu.id /\ (m.state # "none" => m'.state # "none")
    BY <2>2, <1>s DEF work, PriorInv
  <2>8. LatePR'
    BY <2>3, <2>4, <2>5, <1>o, LateKept
  <2>6. CurrentPR'
    BY <2>2, <2>5, <1>s, <1>u, <1>o DEF work, CurrentPR, Opened
  <2>7. disk' = disk \/ Written
    BY <2>2 DEF work
  <2> QED BY <1>0, <1>o, <1>q, <2>5, <2>6, <2>7, <2>8, SubmitKept
<1>2. ASSUME NEW t \in Threads, GuardrailsFail(t) \/ SubmitJobFails(t) \/ FixRefused(t) PROVE
      SubmitInv'
  <2>2. wu' = wu /\ disk' = disk /\ Back
    BY <1>2, <1>0, BeginWork
  <2>5. prs' = prs
    BY <1>2 DEF GuardrailsFail, env, SubmitJobFails, FixRefused
  <2>4. \A u \in Threads : thr'[u].pc \in Late => thr'[u].pc = thr[u].pc /\ thr'[u].task = thr[u].task
    BY <1>2, BeginMoves, <1>l DEF Moved, Kept
  <2>3. wu'.id = wu.id /\ (m.state # "none" => m'.state # "none")
    BY <2>2, <1>s DEF Back, RollsBack, PriorInv
  <2>8. LatePR'
    BY <2>3, <2>4, <2>5, <1>o, LateKept
  <2>6. CurrentPR'
    BY <2>2, <2>5, <1>s, <1>u, <1>o DEF Back, RollsBack, CurrentPR, Opened
  <2>7. disk' = disk \/ Written
    BY <2>2
  <2> QED BY <1>0, <1>o, <1>q, <2>5, <2>6, <2>7, <2>8, SubmitKept
<1>3. ASSUME NEW t \in Threads, NoSpecification(t) \/ JobErrored(t) PROVE SubmitInv'
  <2>2. wu' = wu /\ Written /\ Back
    BY <1>3, <1>0, WatchWork
  <2>5. prs' = prs
    BY <1>3 DEF NoSpecification, env, JobErrored
  <2>4. \A u \in Threads : thr'[u].pc \in Late => thr'[u].pc = thr[u].pc /\ thr'[u].task = thr[u].task
    BY <1>3, WatchMoves, <1>l DEF Moved, Kept
  <2>3. wu'.id = wu.id /\ (m.state # "none" => m'.state # "none")
    BY <2>2, <1>s DEF Back, RollsBack, PriorInv
  <2>8. LatePR'
    BY <2>3, <2>4, <2>5, <1>o, LateKept
  <2>6. CurrentPR'
    BY <2>2, <2>5, <1>s, <1>u, <1>o DEF Back, RollsBack, CurrentPR, Opened
  <2>7. disk' = disk \/ Written
    BY <2>2
  <2> QED BY <1>0, <1>o, <1>q, <2>5, <2>6, <2>7, <2>8, SubmitKept
<1>4. ASSUME NEW id \in Tasks, QueueTask(id) \/ DequeueTask(id) PROVE SubmitInv'
  <2>1. Unlocked /\ thr' = thr /\ mu' = mu
    BY <1>4 DEF QueueTask, Handler, DequeueTask
  <2>2. UNCHANGED work
    BY <1>4, <1>0, ClientWork
  <2>5. prs' = prs
    BY <1>4 DEF QueueTask, Handler, DequeueTask
  <2>4. \A u \in Threads : thr'[u].pc \in Late => thr'[u].pc = thr[u].pc /\ thr'[u].task = thr[u].task
    BY <2>1, <1>l
  <2>3. wu'.id = wu.id /\ (m.state # "none" => m'.state # "none")
    BY <2>2, <1>s DEF work, PriorInv
  <2>8. LatePR'
    BY <2>3, <2>4, <2>5, <1>o, LateKept
  <2>6. CurrentPR'
    BY <2>2, <2>5, <1>s, <1>u, <1>o DEF work, CurrentPR, Opened
  <2>7. disk' = disk \/ Written
    BY <2>2 DEF work
  <2> QED BY <1>0, <1>o, <1>q, <2>5, <2>6, <2>7, <2>8, SubmitKept
<1>5. CASE Abandon \/ Delete
  BY <1>5 DEF KeepsTasks, Abandon, Handler, Delete
<1>6. ASSUME NEW t \in Threads, RecordPrior(t) PROVE SubmitInv'
  <2>2. SameTask /\ disk' = disk /\ SameState /\ (m'.prior = m.state \/ m'.prior = m.prior)
    BY <1>6, <1>0, BeginWork
  <2>5. prs' = prs
    BY <1>6 DEF RecordPrior, env
  <2>4. \A u \in Threads : thr'[u].pc \in Late => thr'[u].pc = thr[u].pc /\ thr'[u].task = thr[u].task
    BY <1>6, BeginMoves, <1>l DEF Moved, Kept
  <2>3. wu'.id = wu.id /\ (m.state # "none" => m'.state # "none")
    BY <2>2, <1>s DEF SameTask, SameState, PriorInv
  <2>8. LatePR'
    BY <2>3, <2>4, <2>5, <1>o, LateKept
  <2>6. CurrentPR'
    BY <2>2, <2>5, <1>s, <1>u, <1>o DEF SameTask, SameState, CurrentPR, Opened
  <2>7. disk' = disk \/ Written
    BY <2>2
  <2> QED BY <1>0, <1>o, <1>q, <2>5, <2>6, <2>7, <2>8, SubmitKept
<1>7. ASSUME NEW t \in Threads, EnterRejected(t) PROVE SubmitInv'
  <2>2. wu' = wu /\ disk' = disk /\ SameState /\ m'.prior = ""
    BY <1>7, <1>0, BeginWork
  <2>5. prs' = prs
    BY <1>7 DEF EnterRejected, env
  <2>4. \A u \in Threads : thr'[u].pc \in Late => thr'[u].pc = thr[u].pc /\ thr'[u].task = thr[u].task
    BY <1>7, BeginMoves, <1>l DEF Moved, Kept
  <2>3. wu'.id = wu.id /\ (m.state # "none" => m'.state # "none")
    BY <2>2, <1>s DEF SameState, PriorInv
  <2>8. LatePR'
    BY <2>3, <2>4, <2>5, <1>o, LateKept
  <2>6. CurrentPR'
    BY <2>2, <2>5, <1>s, <1>u, <1>o DEF SameState, CurrentPR, Opened
  <2>7. disk' = disk \/ Written
    BY <2>2
  <2> QED BY <1>0, <1>o, <1>q, <2>5, <2>6, <2>7, <2>8, SubmitKept
<1>8. ASSUME NEW t \in Threads, EnterPhase(t) PROVE SubmitInv'
  <2>0. thr[t].op \in Phases
    BY <1>8, BeginMoves DEF OpInv, Owning
  <2>2. wu' = wu /\ disk' = disk /\ In(InProgressState[thr[t].op])
    BY <1>8, <1>0, BeginWork
  <2>5. prs' = prs
    BY <1>8 DEF EnterPhase, env
  <2>4. \A u \in Threads : thr'[u].pc \in Late => thr'[u].pc = thr[u].pc /\ thr'[u].task = thr[u].task
    BY <1>8, BeginMoves, <1>l DEF Moved, Kept
  <2>3. wu'.id = wu.id /\ (m.state # "none" => m'.state # "none")
    BY <2>0, <1>p, <1>d, <2>2, <1>s, ZenonT(40) DEF In, PriorInv
  <2>8. LatePR'
    BY <2>3, <2>4, <2>5, <1>o, LateKept
  <2>6. CurrentPR'
    BY <2>0, <1>p, <1>d, <2>2, <2>5, <1>s, <1>u, <1>o DEF In, CurrentPR, Opened
  <2>7. disk' = disk \/ Written
    BY <2>2
  <2> QED BY <1>0, <1>o, <1>q, <2>5, <2>6, <2>7, <2>8, SubmitKept
<1>9. ASSUME NEW t \in Threads, EnterReview(t) PROVE SubmitInv'
  <2>2. wu' = wu /\ Written /\ In("reviewing")
    BY <1>9, <1>0, BeginWork
  <2>5. prs' = prs
    BY <1>9 DEF EnterReview, env
  <2>4. \A u \in Threads : thr'[u].pc \in Late => thr'[u].pc = thr[u].pc /\ thr'[u].task = thr[u].task
    BY <1>9, BeginMoves, <1>l DEF Moved, Kept
  <2>3. wu'.id = wu.id /\ (m.state # "none" => m'.state # "none")
    BY <2>2, <1>s DEF In, PriorInv
  <2>8. LatePR'
    BY <2>3, <2>4, <2>5, <1>o, LateKept
  <2>6. CurrentPR'
    BY <2>2, <2>5, <1>s, <1>u, <1>o DEF In, CurrentPR, Opened
  <2>7. disk' = disk \/ Written
    BY <2>2
  <2> QED BY <1>0, <1>o, <1>q, <2>5, <2>6, <2>7, <2>8, SubmitKept
<1>10. ASSUME NEW t \in Threads, LaunchNil(t) PROVE SubmitInv'
  <2>1. CASE UNCHANGED work /\ Return(t) /\ UNCHANGED env
    <3>1. prs' = prs
      BY <2>1 DEF env
    <3>2. Moved(t, {"idle"})
      BY <2>1, ReturnMoves
    <3>3. \A u \in Threads : thr'[u].pc \in Late => thr'[u].pc = thr[u].pc /\ thr'[u].task = thr[u].task
      BY <3>2, <1>l DEF Moved, Kept
    <3>4. LatePR'
      BY <2>1, <3>1, <3>3, <1>o, LateKept DEF work
    <3>5. CurrentPR'
      BY <2>1, <3>1, <1>o DEF work, CurrentPR, Opened
    <3> QED BY <2>1, <3>1, <3>4, <3>5, <1>0, <1>o, <1>q, SubmitKept DEF work
  <2>2. CASE Restart(disk)
    <3>1. prs' = prs
      BY <2>2 DEF Restart
    <3>2. Reload /\ disk' = disk
      BY <1>0, <2>2, RestartReloads
    <3>3. AllIdle
      BY <2>2, RestartMoves
    <3>4. SavedPR'
      BY <3>1, <3>2, <1>o DEF SavedPR, Opened
    <3> QED BY <3>2, <3>3, <3>4, SubmitReload
  <2> QED BY <1>10, <2>1, <2>2 DEF LaunchNil
<1>11. ASSUME NEW t \in Threads, Launch(t) PROVE SubmitInv'
  <2>0. thr[t].pc = "launch" /\ Handed(t, "idle", "watch", thr[t].op) /\ mu' = None
    BY <1>11, BeginMoves
  <2>1. PICK r \in Runs :
          /\ r = t \/ thr[r].pc = "idle"
          /\ thr'[r].pc = "watch" /\ thr'[r].op = thr[t].op
          /\ r # t => thr'[t].pc = "idle" /\ thr'[t].op \in {"", thr[t].op}
          /\ \A u \in Threads \ {t, r} : Kept(u)
    BY <2>0 DEF Handed
  <2>3. r \in Threads
    BY DEF Threads
  <2>2. wu # NoTask /\ wu' = wu /\ m' = m /\ Written
    BY <1>11, <1>0, BeginWork
  <2>5. prs' = prs
    BY <1>11 DEF Launch, env
  <2>4. \A u \in Threads : thr'[u].pc \in Late => thr'[u].pc = thr[u].pc /\ thr'[u].task = thr[u].task
    BY <2>0, <2>1, <2>3, <1>l DEF Kept
  <2>9. wu'.id = wu.id /\ (m.state # "none" => m'.state # "none")
    BY <2>2, <1>s DEF PriorInv
  <2>8. LatePR'
    BY <2>9, <2>4, <2>5, <1>o, LateKept
  <2>6. CurrentPR'
    BY <2>2, <2>5, <1>s, <1>u, <1>o DEF CurrentPR, Opened
  <2>7. disk' = disk \/ Written
    BY <2>2
  <2> QED BY <1>0, <1>o, <1>q, <2>5, <2>6, <2>7, <2>8, SubmitKept
<1>12. ASSUME NEW t \in Threads, FixStarted(t) PROVE SubmitInv'
  <2>2. (UNCHANGED work \/ (wu' = wu /\ m' = m /\ Written))
    BY <1>12, <1>0, BeginWork
  <2>5. prs' = prs
    BY <1>12 DEF FixStarted, env
  <2>4. \A u \in Threads : thr'[u].pc \in Late => thr'[u].pc = thr[u].pc /\ thr'[u].task = thr[u].task
    <3>1. CASE Moved(t, {"idle"})
      BY <3>1, <1>l DEF Moved, Kept
    <3>2. CASE Handed(t, "spawngate", "watch", "implement")
      BY <3>2, <1>l DEF Handed, Kept
    <3> QED BY <1>12, <3>1, <3>2, BeginMoves
  <2>3. wu'.id = wu.id /\ (m.state # "none" => m'.state # "none")
    BY <2>2, <1>s DEF work, PriorInv
  <2>8. LatePR'
    BY <2>3, <2>4, <2>5, <1>o, LateKept
  <2>6. CurrentPR'
    BY <2>2, <2>5, <1>s, <1>u, <1>o DEF work, CurrentPR, Opened
  <2>7. disk' = disk \/ Written
    BY <2>2 DEF work
  <2> QED BY <1>0, <1>o, <1>q, <2>5, <2>6, <2>7, <2>8, SubmitKept
<1>13. ASSUME NEW t \in Threads, Completed(t) PROVE SubmitInv'
  <2>2.
        /\ wu # NoTask /\ wu'.id = wu.id /\ wu'.impl = wu.impl /\ wu'.pr = wu.pr /\ m' = m
        /\ disk' = disk
    BY <1>13, <1>0, WatchWork
  <2>5. prs' = prs
    BY <1>13 DEF Completed, env
  <2>4. \A u \in Threads : thr'[u].pc \in Late => thr'[u].pc = thr[u].pc /\ thr'[u].task = thr[u].task
    BY <1>13, WatchMoves, <1>l DEF Moved, Kept
  <2>3. wu'.id = wu.id /\ (m.state # "none" => m'.state # "none")
    BY <2>2, <1>s DEF PriorInv
  <2>8. LatePR'
    BY <2>3, <2>4, <2>5, <1>o, LateKept
  <2>6. CurrentPR'
    BY <2>2, <2>5, <1>s, <1>u, <1>o DEF CurrentPR, Opened
  <2>7. disk' = disk \/ Written
    BY <2>2
  <2> QED BY <1>0, <1>o, <1>q, <2>5, <2>6, <2>7, <2>8, SubmitKept
<1>14. ASSUME NEW t \in Threads, Accept(t) PROVE SubmitInv'
  <2>2. wu' = wu /\ m' = m /\ Written
    BY <1>14, <1>0, WatchWork
  <2>5. prs' = prs
    BY <1>14 DEF Accept, env
  <2>4. \A u \in Threads : thr'[u].pc \in Late => thr'[u].pc = thr[u].pc /\ thr'[u].task = thr[u].task
    BY <1>14, WatchMoves, <1>l DEF Moved, Kept
  <2>3. wu'.id = wu.id /\ (m.state # "none" => m'.state # "none")
    BY <2>2, <1>s DEF PriorInv
  <2>8. LatePR'
    BY <2>3, <2>4, <2>5, <1>o, LateKept
  <2>6. CurrentPR'
    BY <2>2, <2>5, <1>s, <1>u, <1>o DEF CurrentPR, Opened
  <2>7. disk' = disk \/ Written
    BY <2>2
  <2> QED BY <1>0, <1>o, <1>q, <2>5, <2>6, <2>7, <2>8, SubmitKept
<1>15. ASSUME NEW t \in Threads, FinalizeNil(t) PROVE SubmitInv'
  <2>5. prs' = prs
    BY <1>15 DEF FinalizeNil, Restart
  <2>1. thr[t].pc = "finalize" /\ Unlocked /\ AllIdle /\ mu' = None
    BY <1>15, WatchMoves
  <2>2. Reload /\ disk' = disk
    BY <1>15, <1>0, WatchWork
  <2>3. SavedPR'
    BY <2>2, <2>5, <1>o DEF SavedPR, Opened
  <2> QED BY <2>1, <2>2, <2>3, SubmitReload
<1>16. ASSUME NEW t \in Threads, Finalize(t) PROVE SubmitInv'
  <2>0. thr[t].op \in Phases
    BY <1>16, WatchMoves DEF OpInv, Owning
  <2>2.
        /\ Written /\ Done(thr[t].op) /\ wu'.id = wu.id
        /\ (wu # NoTask => wu'.pr = wu.pr /\ wu'.impl = (wu.impl \/ thr[t].op = "implement"))
    BY <1>16, <1>0, WatchWork
  <2>5. prs' = prs
    BY <1>16 DEF Finalize, env
  <2>4. \A u \in Threads : thr'[u].pc \in Late => thr'[u].pc = thr[u].pc /\ thr'[u].task = thr[u].task
    BY <1>16, WatchMoves, <1>l DEF Moved, Kept
  <2>3. wu'.id = wu.id /\ (m.state # "none" => m'.state # "none")
    BY <2>0, <1>p, <1>d, <2>2, <1>s DEF Done, SameState, PriorInv
  <2>8. LatePR'
    BY <2>3, <2>4, <2>5, <1>o, LateKept
  <2>6. CurrentPR'
    BY <2>0, <1>p, <1>d, <2>2, <2>5, <1>s, <1>u, <1>o DEF Done, SameState, CurrentPR, Opened
  <2>7. disk' = disk \/ Written
    BY <2>2
  <2> QED BY <1>0, <1>o, <1>q, <2>5, <2>6, <2>7, <2>8, SubmitKept
<1>17. ASSUME NEW t \in Threads, PolicySkip(t) PROVE SubmitInv'
  <2>0. thr[t].op \in Phases
    BY <1>17, WatchMoves DEF OpInv, Owning
  <2>2.
        /\ wu' = wu /\ Written /\ Done(thr[t].op) /\ Policy[thr[t].op] = "skip"
        /\ m.state = InProgressState[thr[t].op]
    BY <1>17, <1>0, WatchWork
  <2>5. prs' = prs
    BY <1>17 DEF PolicySkip, env
  <2>4. \A u \in Threads : thr'[u].pc \in Late => thr'[u].pc = thr[u].pc /\ thr'[u].task = thr[u].task
    BY <1>17, WatchMoves, <1>l DEF Moved, Kept
  <2>3. wu'.id = wu.id /\ (m.state # "none" => m'.state # "none")
    BY <2>0, <1>p, <1>d, <2>2, <1>s DEF Done, SameState, PriorInv
  <2>8. LatePR'
    BY <2>3, <2>4, <2>5, <1>o, LateKept
  <2>6. CurrentPR'
    BY <2>0, <1>p, <1>d, <2>2, <2>5, <1>s, <1>u, <1>o DEF Done, SameState, CurrentPR, Opened
  <2>7. disk' = disk \/ Written
    BY <2>2
  <2> QED BY <1>0, <1>o, <1>q, <2>5, <2>6, <2>7, <2>8, SubmitKept
<1>18. ASSUME NEW t \in Threads, SpawnGate(t) PROVE SubmitInv'
  <2>0. thr[t].pc = "spawngate" /\ Unlocked /\ Handed(t, "idle", "gate", "") /\ mu' = mu
    BY <1>18, GateMoves
  <2>1. PICK r \in Runs :
          /\ r = t \/ thr[r].pc = "idle"
          /\ thr'[r].pc = "gate" /\ thr'[r].op = ""
          /\ r # t => thr'[t].pc = "idle" /\ thr'[t].op \in {"", thr[t].op}
          /\ \A u \in Threads \ {t, r} : Kept(u)
    BY <2>0 DEF Handed
  <2>3. r \in Threads
    BY DEF Threads
  <2>2. UNCHANGED work
    BY <1>18, <1>0, GateWork
  <2>5. prs' = prs
    BY <1>18 DEF SpawnGate, env
  <2>4. \A u \in Threads : thr'[u].pc \in Late => thr'[u].pc = thr[u].pc /\ thr'[u].task = thr[u].task
    BY <2>0, <2>1, <2>3, <1>l DEF Kept
  <2>9. wu'.id = wu.id /\ (m.state # "none" => m'.state # "none")
    BY <2>2, <1>s DEF work, PriorInv
  <2>8. LatePR'
    BY <2>9, <2>4, <2>5, <1>o, LateKept
  <2>6. CurrentPR'
    BY <2>2, <2>5, <1>s, <1>u, <1>o DEF work, CurrentPR, Opened
  <2>7. disk' = disk \/ Written
    BY <2>2 DEF work
  <2> QED BY <1>0, <1>o, <1>q, <2>5, <2>6, <2>7, <2>8, SubmitKept
<1>19. ASSUME NEW t \in Threads, GateDone(t) PROVE SubmitInv'
  <2>2. SameTask /\ m' = m /\ (disk' = disk \/ Written)
    BY <1>19, <1>0, GateWork
  <2>5. prs' = prs
    BY <1>19 DEF GateDone, env
  <2>4. \A u \in Threads : thr'[u].pc \in Late => thr'[u].pc = thr[u].pc /\ thr'[u].task = thr[u].task
    BY <1>19, GateMoves, <1>l DEF Moved, Kept
  <2>3. wu'.id = wu.id /\ (m.state # "none" => m'.state # "none")
    BY <2>2, <1>s DEF SameTask, PriorInv
  <2>8. LatePR'
    BY <2>3, <2>4, <2>5, <1>o, LateKept
  <2>6. CurrentPR'
    BY <2>2, <2>5, <1>s, <1>u, <1>o DEF SameTask, CurrentPR, Opened
  <2>7. disk' = disk \/ Written
    BY <2>2
  <2> QED BY <1>0, <1>o, <1>q, <2>5, <2>6, <2>7, <2>8, SubmitKept
<1>20. ASSUME NEW t \in Threads, GateDoubleClose(t) PROVE SubmitInv'
  <2>5. prs' = prs
    BY <1>20 DEF GateDoubleClose, Restart
  <2>1. thr[t].pc = "gate" /\ Unlocked /\ AllIdle /\ mu' = None
    BY <1>20, GateMoves
  <2>2.
        /\ Reload
        /\ (disk' = disk \/ (wu # NoTask /\ \E w \in WorkUnit : w.id = wu.id /\ w.impl = wu.impl
              /\ w.specs = wu.specs /\ disk' = persistState(disk, w, m)))
    BY <1>20, <1>0, GateWork
  <2>3. SavedPR'
    <3>1. CASE disk' = disk
      BY <2>5, <3>1, <1>o DEF SavedPR, Opened
    <3>2. ASSUME wu # NoTask, NEW w \in WorkUnit, w.id = wu.id, disk' = persistState(disk, w, m)
          PROVE  SavedPR'
      <4>1. disk \in Seq(Saved) /\ m \in Machine /\ w \in Unit /\ w # NoTask
        BY UnitId DEF WorkType, Unit
      <4>2. Files(disk') \subseteq Files(disk) \cup {Entry(w, m)}
        BY <3>2, <4>1, PersistFiles
      <4>3. Entry(w, m).id = wu.id /\ Entry(w, m).state = m.state
        BY <3>2, <4>1, EntryType
      <4> QED BY <2>5, <4>2, <4>3, <1>o DEF SavedPR, CurrentPR, Opened
    <3> QED BY <2>2, <3>1, <3>2
  <2> QED BY <2>1, <2>2, <2>3, SubmitReload
<1>21. ASSUME NEW t \in Threads, SubmitGate(t) PROVE SubmitInv'
  <2>1.
        /\ thr[t].pc = "hooks" /\ Unlocked /\ thr[t].op = "submit"
        /\ Moved(t, {"idle", "network", "syncgate", "waitgate", "gated"}) /\ mu' \in {t, None}
    BY <1>21, SubmitMoves
  <2>2. UNCHANGED work
    BY <1>21, <1>0, SubmitWork
  <2>5. prs' = prs
    BY <1>21 DEF SubmitGate, env
  <2>3. wu'.id = wu.id /\ (m.state # "none" => m'.state # "none")
    BY <2>2, <1>s DEF work, PriorInv
  <2>4. thr'[t].pc = "network" => m.state # "none" /\ (thr'[t].task = wu.id \/ Opened(wu.id))
    BY <1>21, <1>0, <1>o, SubmitEnters
  <2>8. LatePR'
    BY <2>1, <2>3, <2>4, <2>5, <1>l, <1>o DEF Moved, Kept, LatePR, Opened
  <2>6. CurrentPR'
    BY <2>2, <2>5, <1>s, <1>u, <1>o DEF work, CurrentPR, Opened
  <2>7. disk' = disk \/ Written
    BY <2>2 DEF work
  <2> QED BY <1>0, <1>o, <1>q, <2>5, <2>6, <2>7, <2>8, SubmitKept
<1>22. ASSUME NEW t \in Threads, SubmitWaited(t) PROVE SubmitInv'
  <2>1. thr[t].pc = "gated" /\ Unlocked /\ Moved(t, {"idle", "network"}) /\ mu' \in {t, None}
    BY <1>22, SubmitMoves
  <2>2. UNCHANGED work
    BY <1>22, <1>0, SubmitWork
  <2>5. prs' = prs
    BY <1>22 DEF SubmitWaited, env
  <2>3. wu'.id = wu.id /\ (m.state # "none" => m'.state # "none")
    BY <2>2, <1>s DEF work, PriorInv
  <2>4. thr'[t].pc = "network" => m.state # "none" /\ (thr'[t].task = wu.id \/ Opened(wu.id))
    BY <1>22, <1>0, <1>o, SubmitEnters
  <2>8. LatePR'
    BY <2>1, <2>3, <2>4, <2>5, <1>l, <1>o DEF Moved, Kept, LatePR, Opened
  <2>6. CurrentPR'
    BY <2>2, <2>5, <1>s, <1>u, <1>o DEF work, CurrentPR, Opened
  <2>7. disk' = disk \/ Written
    BY <2>2 DEF work
  <2> QED BY <1>0, <1>o, <1>q, <2>5, <2>6, <2>7, <2>8, SubmitKept
<1>23. ASSUME NEW t \in Threads, SubmitGateDone(t) PROVE SubmitInv'
  <2>1. thr[t].pc = "syncgate" /\ Unlocked /\ Moved(t, {"idle", "network"}) /\ mu' \in {t, None}
    BY <1>23, SubmitMoves
  <2>2. SameTask /\ m' = m /\ disk' = disk
    BY <1>23, <1>0, SubmitWork
  <2>5. prs' = prs
    BY <1>23 DEF SubmitGateDone, env
  <2>3. wu'.id = wu.id /\ (m.state # "none" => m'.state # "none")
    BY <2>2, <1>s DEF SameTask, PriorInv
  <2>4. thr'[t].pc = "network" => m.state # "none" /\ (thr'[t].task = wu.id \/ Opened(wu.id))
    BY <1>23, <1>0, <1>o, SubmitEnters
  <2>8. LatePR'
    BY <2>1, <2>3, <2>4, <2>5, <1>l, <1>o DEF Moved, Kept, LatePR, Opened
  <2>6. CurrentPR'
    BY <2>2, <2>5, <1>s, <1>u, <1>o DEF SameTask, CurrentPR, Opened
  <2>7. disk' = disk \/ Written
    BY <2>2
  <2> QED BY <1>0, <1>o, <1>q, <2>5, <2>6, <2>7, <2>8, SubmitKept
<1>24. ASSUME NEW t \in Threads, NetworkDone(t) PROVE SubmitInv'
  <2>1. thr[t].pc = "network" /\ Moved(t, {"dispatch"}) /\ thr'[t].task = thr[t].task /\ mu' = mu
    BY <1>24, SubmitMoves
  <2>2. UNCHANGED work
    BY <1>24, <1>0, SubmitWork
  <2>5. prs' = [k \in Tasks |-> IF k = thr[t].task /\ k \in Publishes THEN OneMore(prs[k]) ELSE prs[k]]
    BY <1>24 DEF NetworkDone
  <2>3. wu'.id = wu.id /\ (m.state # "none" => m'.state # "none")
    BY <2>2, <1>s DEF work, PriorInv
  <2>4. \A k \in Tasks : prs[k] \in 0..2 /\ OneMore(prs[k]) >= 1 /\ OneMore(prs[k]) >= prs[k]
    BY DEF RestType, OneMore
  <2>9. \A id : Opened(id) => Opened(id)'
    BY <2>4, <2>5 DEF Opened
  <2>10. m.state # "none" /\ (thr[t].task = wu.id \/ Opened(wu.id))
    BY <2>1, <1>l, <1>o DEF LatePR
  <2>11. wu.id \in Tasks
    BY <2>10, <1>u DEF NoTaskInv
  <2>12. Opened(wu.id)'
    BY <2>4, <2>5, <2>9, <2>10, <2>11, <2>3 DEF Opened
  <2>8. LatePR'
    BY <2>1, <2>3, <2>9, <2>10, <2>12, <1>l, <1>o DEF Moved, Kept, LatePR, Opened
  <2>6. CurrentPR'
    BY <2>2, <2>9, <1>o DEF work, CurrentPR
  <2>7. disk' = disk \/ Written
    BY <2>2 DEF work
  <2> QED BY <1>0, <1>o, <2>9, <2>6, <2>7, <2>8, SubmitKept
<1>25. ASSUME NEW t \in Threads, SubmitDispatch(t) PROVE SubmitInv'
  <2>1. thr[t].pc = "dispatch" /\ Moved(t, {"store", "idle"}) /\ mu' = mu
    BY <1>25, SubmitMoves
  <2>2.
        /\ wu' = wu /\ disk' = disk
        /\ (m' = m \/ (m.state = "reviewing" /\ m'.state = "submitted" /\ m'.prior = m.prior
              /\ m'.interrupted = FALSE))
    BY <1>25, <1>0, SubmitWork
  <2>5. prs' = prs
    BY <1>25 DEF SubmitDispatch, env
  <2>3. wu'.id = wu.id /\ (m.state # "none" => m'.state # "none")
    BY <2>2, <1>s DEF PriorInv
  <2>8. LatePR'
    BY <2>1, <2>3, <2>5, <1>l, <1>o DEF Moved, Kept, LatePR, Opened
  <2>6. CurrentPR'
    BY <2>1, <2>2, <2>5, <1>o DEF CurrentPR, LatePR, Opened
  <2>7. disk' = disk \/ Written
    BY <2>2
  <2> QED BY <1>0, <1>o, <1>q, <2>5, <2>6, <2>7, <2>8, SubmitKept
<1>26. ASSUME NEW t \in Threads, SubmitStore(t) PROVE SubmitInv'
  <2>1. thr[t].pc = "store" /\ Unlocked /\ Moved(t, {"idle"}) /\ mu' = mu
    BY <1>26, SubmitMoves
  <2>2.
        /\ wu'.id = wu.id /\ m' = m /\ (wu = NoTask => wu' = wu /\ disk' = disk)
        /\ (wu # NoTask => Written /\ wu'.specs = wu.specs /\ wu'.impl = wu.impl)
    BY <1>26, <1>0, SubmitWork
  <2>5. prs' = prs
    BY <1>26 DEF SubmitStore, env
  <2>4. \A u \in Threads : thr'[u].pc \in Late => thr'[u].pc = thr[u].pc /\ thr'[u].task = thr[u].task
    BY <2>1, <1>l DEF Moved, Kept
  <2>3. wu'.id = wu.id /\ (m.state # "none" => m'.state # "none")
    BY <2>2, <1>s DEF PriorInv
  <2>8. LatePR'
    BY <2>3, <2>4, <2>5, <1>o, LateKept
  <2>6. CurrentPR'
    BY <2>1, <2>2, <2>5, <1>o DEF CurrentPR, LatePR, Opened
  <2>7. disk' = disk \/ Written
    BY <2>2
  <2> QED BY <1>0, <1>o, <1>q, <2>5, <2>6, <2>7, <2>8, SubmitKept
<1>27. ASSUME NEW t \in Clients, NEW op \in Phases \cup Reviews \cup {"submit"}, Request(t, op)
      PROVE SubmitInv'
  <2>2. UNCHANGED work
    BY <1>27, <1>0, ClientWork
  <2>5. prs' = prs
    BY <1>27 DEF Request, env
  <2>4. \A u \in Threads : thr'[u].pc \in Late => thr'[u].pc = thr[u].pc /\ thr'[u].task = thr[u].task
    BY <1>27, ClientMoves, <1>l DEF Kept
  <2>3. wu'.id = wu.id /\ (m.state # "none" => m'.state # "none")
    BY <2>2, <1>s DEF work, PriorInv
  <2>8. LatePR'
    BY <2>3, <2>4, <2>5, <1>o, LateKept
  <2>6. CurrentPR'
    BY <2>2, <2>5, <1>s, <1>u, <1>o DEF work, CurrentPR, Opened
  <2>7. disk' = disk \/ Written
    BY <2>2 DEF work
  <2> QED BY <1>0, <1>o, <1>q, <2>5, <2>6, <2>7, <2>8, SubmitKept
<1>28. ASSUME NEW id \in Tasks, Start(id) PROVE SubmitInv'
  <2>1. Unlocked /\ thr' = thr /\ mu' = mu
    BY <1>28 DEF Start, Handler
  <2>2. Begun(id)
    BY <1>28, <1>0, ClientWork
  <2>5. prs' = prs
    BY <1>28 DEF Start, Handler
  <2>6. \A u \in Threads : thr'[u].pc \notin Late
    BY <2>1, <2>2, <1>o DEF LatePR, Begun
  <2>8. LatePR'
    BY <2>6, <1>l DEF LatePR
  <2>9. CurrentPR'
    BY <2>2, <1>o DEF CurrentPR, FreshInv, Begun
  <2>7. disk' = disk \/ Written
    BY <2>2 DEF Begun
  <2> QED BY <1>0, <1>o, <1>q, <2>5, <2>7, <2>8, <2>9, SubmitKept
<1>29. ASSUME NEW id \in Tasks, StartQueued(id) PROVE SubmitInv'
  <2>1. Unlocked /\ thr' = thr /\ mu' = mu
    BY <1>29 DEF StartQueued
  <2>5. prs' = prs
    BY <1>29 DEF StartQueued
  <2>3. CASE UNCHANGED work
    BY <2>1, <2>3, <2>5, <1>o DEF work, SubmitInv, CurrentPR, SavedPR, LatePR, Opened
  <2>4. CASE Begun(id)
    <3>1. \A u \in Threads : thr'[u].pc \notin Late
      BY <2>1, <2>4, <1>o DEF LatePR, Begun
    <3>2. LatePR'
      BY <3>1, <1>l DEF LatePR
    <3>3. CurrentPR'
      BY <2>4, <1>o DEF CurrentPR, FreshInv, Begun
    <3>4. disk' = disk \/ Written
      BY <2>4 DEF Begun
    <3> QED BY <1>0, <1>o, <1>q, <2>5, <3>2, <3>3, <3>4, SubmitKept
  <2> QED BY <1>29, <1>0, <2>3, <2>4, ClientWork
<1>30. ASSUME NEW id \in Tasks, NEW position \in DOMAIN queue, ReorderQueue(id, position) PROVE
      SubmitInv'
  <2>1. Unlocked /\ thr' = thr /\ mu' = mu
    BY <1>30 DEF ReorderQueue, Handler
  <2>2. UNCHANGED work
    BY <1>30, <1>0, ClientWork
  <2>5. prs' = prs
    BY <1>30 DEF ReorderQueue, Handler
  <2>4. \A u \in Threads : thr'[u].pc \in Late => thr'[u].pc = thr[u].pc /\ thr'[u].task = thr[u].task
    BY <2>1, <1>l
  <2>3. wu'.id = wu.id /\ (m.state # "none" => m'.state # "none")
    BY <2>2, <1>s DEF work, PriorInv
  <2>8. LatePR'
    BY <2>3, <2>4, <2>5, <1>o, LateKept
  <2>6. CurrentPR'
    BY <2>2, <2>5, <1>s, <1>u, <1>o DEF work, CurrentPR, Opened
  <2>7. disk' = disk \/ Written
    BY <2>2 DEF work
  <2> QED BY <1>0, <1>o, <1>q, <2>5, <2>6, <2>7, <2>8, SubmitKept
<1>31. CASE Stop
  <2>2. wu' = wu /\ Written /\ Back
    BY <1>31, <1>0, ClientWork
  <2>5. prs' = prs
    BY <1>31 DEF Stop, Handler
  <2>4. \A u \in Threads : thr'[u].pc \in Late => thr'[u].pc = thr[u].pc /\ thr'[u].task = thr[u].task
    BY <1>31, ClientMoves, <1>l DEF Kept
  <2>3. wu'.id = wu.id /\ (m.state # "none" => m'.state # "none")
    BY <2>2, <1>s DEF Back, RollsBack, PriorInv
  <2>8. LatePR'
    BY <2>3, <2>4, <2>5, <1>o, LateKept
  <2>6. CurrentPR'
    BY <2>2, <2>5, <1>s, <1>u, <1>o DEF Back, RollsBack, CurrentPR, Opened
  <2>7. disk' = disk \/ Written
    BY <2>2
  <2> QED BY <1>0, <1>o, <1>q, <2>5, <2>6, <2>7, <2>8, SubmitKept
<1>32. CASE Abort
  <2>1. Unlocked /\ thr' = thr /\ mu' = mu
    BY <1>32 DEF Abort, Handler
  <2>2.
        /\ wu' = wu /\ Written /\ m.state # "none" /\ m'.state = "failed" /\ m'.prior = m.prior
        /\ m'.interrupted = FALSE
    BY <1>32, <1>0, ClientWork
  <2>5. prs' = prs
    BY <1>32 DEF Abort, Handler
  <2>4. \A u \in Threads : thr'[u].pc \in Late => thr'[u].pc = thr[u].pc /\ thr'[u].task = thr[u].task
    BY <2>1, <1>l
  <2>3. wu'.id = wu.id /\ (m.state # "none" => m'.state # "none")
    BY <2>2, <1>s DEF PriorInv
  <2>8. LatePR'
    BY <2>3, <2>4, <2>5, <1>o, LateKept
  <2>6. CurrentPR'
    BY <2>2, <2>5, <1>s, <1>u, <1>o DEF CurrentPR, Opened
  <2>7. disk' = disk \/ Written
    BY <2>2
  <2> QED BY <1>0, <1>o, <1>q, <2>5, <2>6, <2>7, <2>8, SubmitKept
<1>33. CASE Reset
  <2>1. Unlocked /\ thr' = thr /\ mu' = mu
    BY <1>33 DEF Reset, Handler
  <2>2.
        /\ wu' = wu /\ Written /\ m.state = "failed" /\ m'.prior = m.prior
        /\ (m' = m \/ (m'.state = "loaded" /\ m'.interrupted = FALSE))
    BY <1>33, <1>0, ClientWork
  <2>5. prs' = prs
    BY <1>33 DEF Reset, Handler
  <2>4. \A u \in Threads : thr'[u].pc \in Late => thr'[u].pc = thr[u].pc /\ thr'[u].task = thr[u].task
    BY <2>1, <1>l
  <2>3. wu'.id = wu.id /\ (m.state # "none" => m'.state # "none")
    BY <2>2, <1>s DEF PriorInv
  <2>8. LatePR'
    BY <2>3, <2>4, <2>5, <1>o, LateKept
  <2>6. CurrentPR'
    BY <2>2, <2>5, <1>s, <1>u, <1>o DEF CurrentPR, Opened
  <2>7. disk' = disk \/ Written
    BY <2>2
  <2> QED BY <1>0, <1>o, <1>q, <2>5, <2>6, <2>7, <2>8, SubmitKept
<1>34. CASE UpdateTask
  <2>1. Unlocked /\ thr' = thr /\ mu' = mu
    BY <1>34 DEF UpdateTask, Handler
  <2>2. wu # NoTask /\ wu'.id = wu.id /\ wu'.impl = wu.impl /\ wu'.pr = wu.pr /\ m' = m /\ Written
    BY <1>34, <1>0, ClientWork
  <2>5. prs' = prs
    BY <1>34 DEF UpdateTask, Handler
  <2>4. \A u \in Threads : thr'[u].pc \in Late => thr'[u].pc = thr[u].pc /\ thr'[u].task = thr[u].task
    BY <2>1, <1>l
  <2>3. wu'.id = wu.id /\ (m.state # "none" => m'.state # "none")
    BY <2>2, <1>s DEF PriorInv
  <2>8. LatePR'
    BY <2>3, <2>4, <2>5, <1>o, LateKept
  <2>6. CurrentPR'
    BY <2>2, <2>5, <1>s, <1>u, <1>o DEF CurrentPR, Opened
  <2>7. disk' = disk \/ Written
    BY <2>2
  <2> QED BY <1>0, <1>o, <1>q, <2>5, <2>6, <2>7, <2>8, SubmitKept
<1>35. CASE Crash
  <2>5. prs' = prs
    BY <1>35 DEF Crash, Restart
  <2>1. AllIdle
    BY <1>35, ClientMoves
  <2>2. Reload /\ disk' = disk
    BY <1>35, <1>0, ClientWork
  <2>3. SavedPR'
    BY <2>2, <2>5, <1>o DEF SavedPR, Opened
  <2> QED BY <2>1, <2>2, <2>3, SubmitReload
<1>36. ASSUME NEW force \in BOOLEAN, Finish(force) PROVE SubmitInv'
  BY <1>36 DEF KeepsTasks, Finish, Handler
<1>37. CASE UNCHANGED vars
  BY <1>37 DEF vars, SubmitInv, CurrentPR, SavedPR, LatePR, Opened
<1> QED
  BY <1>1, <1>2, <1>3, <1>4, <1>5, <1>6, <1>7, <1>8, <1>9, <1>10, <1>11, <1>12, <1>13, <1>14, <1>15,
     <1>16, <1>17, <1>18, <1>19, <1>20, <1>21, <1>22, <1>23, <1>24, <1>25, <1>26, <1>27, <1>28,
     <1>29, <1>30, <1>31, <1>32, <1>33, <1>34, <1>35, <1>36, <1>37 DEF Next, ClientStep,
     ThreadStep, Begin, Enter, Observe, Decide, Gate, Submit

\* A submitted task has a pull request if its provider opens them, whatever
\* submissions, reviews and phases interleave, wherever the process is killed and
\* whichever tasks are published, if no task is put away: the
\* network operations run without c.mu, and the submission that is dispatched
\* after them would be one for the task that has taken its place.
THEOREM SubmittedHavePR == ASSUME KeepsTasks PROVE Spec => []SubmittedHasPR
<1> DEFINE Inv == Typed /\ BaseInv /\ FreshInv /\ SubmitInv
<1>1. Init => Inv
  <2>1. Files(<<>>) = {}
    BY DEF Files
  <2>4. ASSUME Init PROVE LatePR
    <3>1. \A t \in Threads : thr[t].pc = "idle"
      BY <2>4, ThreadRecords DEF Init
    <3> QED BY <3>1 DEF LatePR, Late
  <2>5. Init => FreshInv /\ CurrentPR /\ SavedPR
    BY <2>1, InitMachine DEF FreshInv, CurrentPR, SavedPR
  <2> QED BY <2>4, <2>5, InitTyped, InitBase DEF SubmitInv
<1>2. Inv /\ [Next]_vars => Inv'
  <2> SUFFICES ASSUME Typed, BaseInv, FreshInv, SubmitInv, [Next]_vars PROVE Inv'
    OBVIOUS
  <2>1. WorkType /\ ThrType /\ RestType /\ OpInv
    BY TypeParts DEF Typed
  <2>2. BaseInv'
    BY NextBase
  <2>3. FreshInv'
    BY <2>1, NextFresh DEF BaseInv
  <2>4. SubmitInv'
    BY <2>1, NextSubmit DEF BaseInv
  <2> QED BY <2>2, <2>3, <2>4, NextTyped
<1>3. Inv => SubmittedHasPR
  BY DEF SubmitInv, CurrentPR, Opened, SubmittedHasPR
<1> QED BY <1>1, <1>2, <1>3, PTL DEF Spec

-----------------------------------------------------------------------------
(* No operation turns into another.                                        *)

LEMMA NextNoSubmission ==
    ASSUME WorkType, ThrType, RestType, OpInv, "submit" \notin Requests, NoSubmission, [Next]_vars
    PROVE  NoSubmission'
<1>m. SubmitPCs = {"waitgate", "orphaned", "gated", "syncgate", "network", "dispatch", "store"}
  BY DEF SubmitPCs
<1>r. "submit" \notin Requests
  OBVIOUS
<1>1. ASSUME NEW t \in Threads, Refused(t) \/ SelfCall(t) \/ GuardrailsPass(t) \/ RecordPrior(t) \/
      EnterRejected(t) \/ EnterPhase(t) \/ EnterReview(t) \/ GuardrailsFail(t) \/ LaunchNil(t) \/
      SubmitJobFails(t) \/ FixRefused(t) PROVE NoSubmission'
  BY <1>1, BeginMoves, <1>m, ZenonT(40) DEF Moved, Kept, Unlocked, NoSubmission, AllIdle
<1>2. ASSUME NEW t \in Threads, StreamClosed(t) \/ CompletedNoTask(t) \/ NoSpecification(t) \/
      Completed(t) \/ Failed(t) \/ Iterate(t) \/ Accept(t) \/ FinalizeNil(t) \/ Finalize(t) \/
      PolicyRetry(t) \/ PolicySkip(t) \/ PolicyFail(t) \/ JobErrored(t) PROVE NoSubmission'
  BY <1>2, WatchMoves, <1>m, ZenonT(40) DEF Moved, Kept, NoSubmission, Unlocked, AllIdle
<1>3. ASSUME NEW t \in Threads, GateDone(t) \/ GateDoubleClose(t) PROVE NoSubmission'
  BY <1>3, GateMoves, <1>m DEF Moved, Kept, Unlocked, NoSubmission, AllIdle
<1>4. ASSUME NEW t \in Threads, SubmitGate(t) \/ SubmitWaited(t) \/ SubmitGateDone(t) \/
      NetworkFails(t) \/ NetworkDone(t) \/ SubmitDispatch(t) \/ SubmitStore(t) PROVE NoSubmission'
  BY <1>4, SubmitMoves DEF NoSubmission, SubmitPCs
<1>5. ASSUME NEW id \in Tasks, Start(id) \/ QueueTask(id) \/ DequeueTask(id) \/ StartQueued(id)
      PROVE NoSubmission'
  <2>1. Unlocked /\ thr' = thr /\ mu' = mu
    BY <1>5 DEF Start, Handler, QueueTask, DequeueTask, StartQueued
  <2> QED BY <2>1, <1>m DEF Unlocked, NoSubmission
<1>6. CASE Stop \/ Abandon \/ Crash
  BY <1>6, ClientMoves, <1>m DEF Kept, Unlocked, NoSubmission, AllIdle
<1>7. CASE Abort \/ Reset \/ UpdateTask \/ Delete
  <2>1. Unlocked /\ thr' = thr /\ mu' = mu
    BY <1>7 DEF Abort, Handler, Reset, UpdateTask, Delete
  <2> QED BY <2>1, <1>m DEF Unlocked, NoSubmission
<1>8. ASSUME NEW t \in Threads, Launch(t) PROVE NoSubmission'
  <2>0. thr[t].pc = "launch" /\ Handed(t, "idle", "watch", thr[t].op) /\ mu' = None
    BY <1>8, BeginMoves
  <2>1. PICK r \in Runs :
          /\ r = t \/ thr[r].pc = "idle"
          /\ thr'[r].pc = "watch" /\ thr'[r].op = thr[t].op
          /\ r # t => thr'[t].pc = "idle" /\ thr'[t].op \in {"", thr[t].op}
          /\ \A u \in Threads \ {t, r} : Kept(u)
    BY <2>0 DEF Handed
  <2>2. r \in Threads
    BY DEF Threads
  <2>3. thr[t].op # "submit"
    BY DEF NoSubmission
  <2> QED BY <2>0, <2>1, <2>2, <2>3, <1>m DEF Kept, NoSubmission
<1>9. ASSUME NEW t \in Threads, FixStarted(t) PROVE NoSubmission'
  <2>0. thr[t].pc = "fixsubmit" /\ Unlocked /\ mu' \in {t, None}
    BY <1>9, BeginMoves
  <2>1. CASE Moved(t, {"idle"})
    BY <2>0, <2>1, <1>m DEF Moved, Kept, NoSubmission
  <2>2. CASE Handed(t, "spawngate", "watch", "implement")
    <3>1. PICK r \in Runs :
            /\ r = t \/ thr[r].pc = "idle"
            /\ thr'[r].pc = "watch" /\ thr'[r].op = "implement"
            /\ r # t => thr'[t].pc = "spawngate" /\ thr'[t].op \in {"", thr[t].op}
            /\ \A u \in Threads \ {t, r} : Kept(u)
      BY <2>2 DEF Handed
    <3>2. r \in Threads
      BY DEF Threads
    <3> QED BY <2>0, <3>1, <3>2, <1>m DEF Kept, NoSubmission
  <2> QED BY <1>9, <2>1, <2>2, BeginMoves
<1>10. ASSUME NEW t \in Threads, SpawnGate(t) PROVE NoSubmission'
  <2>0. thr[t].pc = "spawngate" /\ Unlocked /\ Handed(t, "idle", "gate", "") /\ mu' = mu
    BY <1>10, GateMoves
  <2>1. PICK r \in Runs :
          /\ r = t \/ thr[r].pc = "idle"
          /\ thr'[r].pc = "gate" /\ thr'[r].op = ""
          /\ r # t => thr'[t].pc = "idle" /\ thr'[t].op \in {"", thr[t].op}
          /\ \A u \in Threads \ {t, r} : Kept(u)
    BY <2>0 DEF Handed
  <2>2. r \in Threads
    BY DEF Threads
  <2>3. thr[t].op # "submit"
    BY DEF NoSubmission
  <2> QED BY <2>0, <2>1, <2>2, <2>3, <1>m DEF Kept, NoSubmission
<1>11. ASSUME NEW t \in Clients, NEW op \in Phases \cup Reviews \cup {"submit"}, Request(t, op)
      PROVE NoSubmission'
  BY <1>11, ClientMoves, <1>m, <1>r DEF Kept, Unlocked, NoSubmission
<1>12. ASSUME NEW id \in Tasks, NEW position \in DOMAIN queue, ReorderQueue(id, position) PROVE
      NoSubmission'
  <2>1. Unlocked /\ thr' = thr /\ mu' = mu
    BY <1>12 DEF ReorderQueue, Handler
  <2> QED BY <2>1, <1>m DEF Unlocked, NoSubmission
<1>13. ASSUME NEW force \in BOOLEAN, Finish(force) PROVE NoSubmission'
  <2>1. Unlocked /\ thr' = thr /\ mu' = mu
    BY <1>13 DEF Finish, Handler
  <2> QED BY <2>1, <1>m DEF Unlocked, NoSubmission
<1>14. CASE UNCHANGED vars
  BY <1>14 DEF vars, NoSubmission
<1> QED
  BY <1>1, <1>2, <1>3, <1>4, <1>5, <1>6, <1>7, <1>8, <1>9, <1>10, <1>11, <1>12, <1>13, <1>14 DEF
     Next, ClientStep, ThreadStep, Begin, Enter, Observe, Decide, Gate, Submit

LEMMA NextReview ==
    ASSUME WorkType, ThrType, RestType, OpInv, NoSubmission, LockInv, ReviewInv, [Next]_vars
    PROVE  ReviewInv'
<1>0. WorkType'
  BY NextWork
<1>e. /\ Unlocked => ~Entering
      /\ \A t \in Threads : thr[t].pc = "launch" => ~Entering
  BY NoneAssumption DEF Unlocked, Entering, LockInv
<1>p. \A op \in Phases : InProgressState[op] \in InProgress
  BY DEF Phases, InProgressState, InProgress
<1>d. \A op \in Phases : DoneTo[Completion[op]] \in {"planned", "implemented"}
  BY DEF Phases, DoneTo, Completion
<1>s. /\ "none" \notin Stable /\ "none" \notin InProgress /\ Stable \cap InProgress = {}
      /\ Active = InProgress \cup {"reviewing"} /\ "reviewing" \notin Stable \cup InProgress
      /\ {"loaded", "planned", "implemented", "submitted"} = Stable
      /\ {"failed", ""} \cap (Stable \cup Active) = {}
  BY DEF Stable, Active, InProgress
<1>1. ASSUME NEW t \in Threads, SubmitGate(t) \/ SubmitWaited(t) \/ SubmitGateDone(t) \/
      NetworkFails(t) \/ NetworkDone(t) \/ SubmitDispatch(t) \/ SubmitStore(t) PROVE ReviewInv'
  BY <1>1, SubmitMoves DEF NoSubmission, SubmitPCs
<1>2. ASSUME NEW id \in Tasks, QueueTask(id) \/ DequeueTask(id) PROVE ReviewInv'
  <2>1. Unlocked /\ thr' = thr /\ mu' = mu
    BY <1>2 DEF QueueTask, Handler, DequeueTask
  <2>2. UNCHANGED work
    BY <1>2, <1>0, ClientWork
  <2> QED BY <2>1, <2>2, <1>e, <1>s DEF Unlocked, work, ReviewInv, Entering
<1>3. ASSUME NEW t \in Threads, Refused(t) PROVE ReviewInv'
  <2>1. thr[t].pc = "hooks" /\ (thr[t].op \in Phases => Unlocked) /\ Moved(t, {"idle"}) /\ mu' = mu
    BY <1>3, BeginMoves
  <2>2. UNCHANGED work
    BY <1>3, <1>0, BeginWork
  <2> QED BY <2>1, <2>2, <1>e, <1>s DEF Moved, Kept, Unlocked, work, ReviewInv, Entering
<1>4. ASSUME NEW t \in Threads, StreamClosed(t) PROVE ReviewInv'
  <2>1. thr[t].pc = "watch" /\ Lossy /\ Moved(t, {"idle"}) /\ mu' = mu
    BY <1>4, WatchMoves
  <2>2. UNCHANGED work
    BY <1>4, <1>0, WatchWork
  <2> QED BY <2>1, <2>2, <1>e, <1>s DEF Moved, Kept, work, ReviewInv, Entering, Unlocked
<1>5. ASSUME NEW t \in Threads, SelfCall(t) PROVE ReviewInv'
  <2>1. thr[t].pc = "call" /\ Unlocked /\ Moved(t, {"idle", "risk", "hooks"}) /\ mu' \in {t, None}
    BY <1>5, BeginMoves
  <2>2. UNCHANGED work
    BY <1>5, <1>0, BeginWork
  <2> QED BY <2>1, <2>2, <1>e, <1>s DEF Moved, Kept, Unlocked, work, ReviewInv, Entering
<1>6. ASSUME NEW t \in Threads, GuardrailsPass(t) PROVE ReviewInv'
  <2>1. thr[t].pc = "guardrails" /\ Unlocked /\ Moved(t, {"launch"}) /\ mu' = t
    BY <1>6, BeginMoves
  <2>2. UNCHANGED work
    BY <1>6, <1>0, BeginWork
  <2> QED BY <2>1, <2>2, <1>e, <1>s DEF Moved, Kept, Unlocked, work, ReviewInv, Entering
<1>7. ASSUME NEW t \in Threads, RecordPrior(t) PROVE ReviewInv'
  <2>1.
        /\ thr[t].pc = "hooks" /\ Unlocked /\ thr[t].op \in Phases \cup Reviews /\ Moved(t, {"enter"})
        /\ mu' = t
    BY <1>7, BeginMoves
  <2>2. SameTask /\ disk' = disk /\ SameState /\ (m'.prior = m.state \/ m'.prior = m.prior)
    BY <1>7, <1>0, BeginWork
  <2> QED BY <2>1, <2>2, <1>e, <1>s DEF Moved, Kept, Unlocked, SameTask, SameState, ReviewInv,
      Entering
<1>8. ASSUME NEW t \in Threads, EnterRejected(t) PROVE ReviewInv'
  <2>1. thr[t].pc = "enter" /\ Moved(t, {"idle"}) /\ mu' = None
    BY <1>8, BeginMoves
  <2>2. wu' = wu /\ disk' = disk /\ SameState /\ m'.prior = ""
    BY <1>8, <1>0, BeginWork
  <2> QED BY <2>1, <2>2, <1>e, <1>s DEF Moved, Kept, SameState, ReviewInv, Entering, Unlocked
<1>9. ASSUME NEW t \in Threads, EnterPhase(t) PROVE ReviewInv'
  <2>0. thr[t].op \in Phases
    BY <1>9, BeginMoves DEF OpInv, Owning
  <2>1.
        /\ thr[t].pc = "enter" /\ thr[t].op \in Phases /\ Moved(t, {"guardrails", "launch"})
        /\ thr'[t].op = thr[t].op /\ (mu' = mu \/ (mu' = None /\ thr'[t].pc = "guardrails"))
    BY <1>9, BeginMoves
  <2>2. wu' = wu /\ disk' = disk /\ In(InProgressState[thr[t].op])
    BY <1>9, <1>0, BeginWork
  <2> QED BY <2>0, <2>1, <2>2, <1>e, <1>s, <1>p, <1>d DEF In, Moved, Kept, Unlocked, ReviewInv,
      Entering
<1>10. ASSUME NEW t \in Threads, EnterReview(t) PROVE ReviewInv'
  <2>1. thr[t].pc = "enter" /\ Moved(t, {"fixsubmit", "spawngate"}) /\ mu' = None
    BY <1>10, BeginMoves
  <2>2. wu' = wu /\ Written /\ In("reviewing")
    BY <1>10, <1>0, BeginWork
  <2> QED BY <2>1, <2>2, <1>e, <1>s DEF Moved, Kept, In, ReviewInv, Entering, Unlocked
<1>11. ASSUME NEW t \in Threads, GuardrailsFail(t) PROVE ReviewInv'
  <2>1. thr[t].pc = "guardrails" /\ Unlocked /\ Moved(t, {"idle"}) /\ mu' = mu
    BY <1>11, BeginMoves
  <2>2. wu' = wu /\ disk' = disk /\ Back
    BY <1>11, <1>0, BeginWork
  <2> QED BY <2>1, <2>2, <1>e, <1>s DEF Moved, Kept, Unlocked, Back, RollsBack, ReviewInv, Entering
<1>12. ASSUME NEW t \in Threads, LaunchNil(t) PROVE ReviewInv'
  <2>1. thr[t].pc = "launch" /\ wu = NoTask /\ (AllIdle \/ Moved(t, {"idle"})) /\ mu' = None
    BY <1>12, BeginMoves
  <2>2. (UNCHANGED work \/ (Reload /\ disk' = disk))
    BY <1>12, <1>0, BeginWork
  <2> QED BY <2>1, <2>2, <1>e, <1>s DEF Moved, Kept, AllIdle, work, Reload, ReviewInv, Entering,
      Unlocked
<1>13. ASSUME NEW t \in Threads, SubmitJobFails(t) PROVE ReviewInv'
  <2>1. thr[t].pc = "launch" /\ Moved(t, {"idle"}) /\ mu' = None
    BY <1>13, BeginMoves
  <2>2. wu' = wu /\ disk' = disk /\ Back
    BY <1>13, <1>0, BeginWork
  <2> QED BY <2>1, <2>2, <1>e, <1>s DEF Moved, Kept, Back, RollsBack, ReviewInv, Entering, Unlocked
<1>14. ASSUME NEW t \in Threads, Launch(t) PROVE ReviewInv'
  <2>1. thr[t].pc = "launch"
    BY <1>14, BeginMoves
  <2>2. m' = m
    BY <1>14, <1>0, BeginWork
  <2> QED BY <2>1, <2>2, <1>e DEF ReviewInv
<1>15. ASSUME NEW t \in Threads, FixRefused(t) PROVE ReviewInv'
  <2>1. thr[t].pc = "fixsubmit" /\ Unlocked /\ Moved(t, {"idle"}) /\ mu' = mu
    BY <1>15, BeginMoves
  <2>2. wu' = wu /\ disk' = disk /\ Back
    BY <1>15, <1>0, BeginWork
  <2> QED BY <2>1, <2>2, <1>e, <1>s DEF Moved, Kept, Unlocked, Back, RollsBack, ReviewInv, Entering
<1>16. ASSUME NEW t \in Threads, FixStarted(t) PROVE ReviewInv'
  <2>1. Unlocked
    BY <1>16, BeginMoves
  <2>2. (UNCHANGED work \/ (wu' = wu /\ m' = m /\ Written))
    BY <1>16, <1>0, BeginWork
  <2> QED BY <2>1, <2>2, <1>e DEF work, ReviewInv
<1>17. ASSUME NEW t \in Threads, CompletedNoTask(t) PROVE ReviewInv'
  <2>1. thr[t].pc = "watch" /\ Unlocked /\ wu = NoTask /\ Moved(t, {"idle", "call"}) /\ mu' = mu
    BY <1>17, WatchMoves
  <2>2. UNCHANGED work
    BY <1>17, <1>0, WatchWork
  <2> QED BY <2>1, <2>2, <1>e, <1>s DEF Moved, Kept, Unlocked, work, ReviewInv, Entering
<1>18. ASSUME NEW t \in Threads, NoSpecification(t) PROVE ReviewInv'
  <2>1. thr[t].pc = "watch" /\ Unlocked /\ Moved(t, {"idle"}) /\ mu' = mu
    BY <1>18, WatchMoves
  <2>2. wu' = wu /\ Written /\ Back
    BY <1>18, <1>0, WatchWork
  <2> QED BY <2>1, <2>2, <1>e, <1>s DEF Moved, Kept, Unlocked, Back, RollsBack, ReviewInv, Entering
<1>19. ASSUME NEW t \in Threads, Completed(t) PROVE ReviewInv'
  <2>1. thr[t].pc = "watch" /\ Unlocked /\ Moved(t, {"validate"}) /\ mu' = mu
    BY <1>19, WatchMoves
  <2>2.
        /\ wu # NoTask /\ wu'.id = wu.id /\ wu'.impl = wu.impl /\ wu'.pr = wu.pr /\ m' = m
        /\ disk' = disk
    BY <1>19, <1>0, WatchWork
  <2> QED BY <2>1, <2>2, <1>e, <1>s DEF Moved, Kept, Unlocked, ReviewInv, Entering
<1>20. ASSUME NEW t \in Threads, Failed(t) PROVE ReviewInv'
  <2>1.
        /\ thr[t].pc = "watch" /\ Unlocked
        /\ (Moved(t, {"policy"}) \/ (wu = NoTask /\ Moved(t, {"idle"}))) /\ mu' = mu
    BY <1>20, WatchMoves
  <2>2. UNCHANGED work
    BY <1>20, <1>0, WatchWork
  <2> QED BY <2>1, <2>2, <1>e, <1>s DEF Moved, Kept, Unlocked, work, ReviewInv, Entering
<1>21. ASSUME NEW t \in Threads, Iterate(t) PROVE ReviewInv'
  <2>1. thr[t].pc = "validate" /\ Unlocked /\ Iterative /\ Moved(t, {"call"}) /\ mu' = mu
    BY <1>21, WatchMoves
  <2>2. UNCHANGED work
    BY <1>21, <1>0, WatchWork
  <2> QED BY <2>1, <2>2, <1>e, <1>s DEF Moved, Kept, Unlocked, work, ReviewInv, Entering
<1>22. ASSUME NEW t \in Threads, Accept(t) PROVE ReviewInv'
  <2>1. thr[t].pc = "validate" /\ Unlocked /\ Moved(t, {"finalize"}) /\ mu' = mu
    BY <1>22, WatchMoves
  <2>2. wu' = wu /\ m' = m /\ Written
    BY <1>22, <1>0, WatchWork
  <2> QED BY <2>1, <2>2, <1>e, <1>s DEF Moved, Kept, Unlocked, ReviewInv, Entering
<1>23. ASSUME NEW t \in Threads, FinalizeNil(t) PROVE ReviewInv'
  <2>1. thr[t].pc = "finalize" /\ Unlocked /\ AllIdle /\ mu' = None
    BY <1>23, WatchMoves
  <2>2. Reload /\ disk' = disk
    BY <1>23, <1>0, WatchWork
  <2> QED BY <2>1, <2>2, <1>e, <1>s DEF AllIdle, Unlocked, Reload, ReviewInv, Entering
<1>24. ASSUME NEW t \in Threads, Finalize(t) PROVE ReviewInv'
  <2>0. thr[t].op \in Phases
    BY <1>24, WatchMoves DEF OpInv, Owning
  <2>1. thr[t].pc = "finalize" /\ Unlocked /\ Moved(t, {"idle", "call"}) /\ mu' = mu
    BY <1>24, WatchMoves
  <2>2.
        /\ Written /\ Done(thr[t].op) /\ wu'.id = wu.id
        /\ (wu # NoTask => wu'.pr = wu.pr /\ wu'.impl = (wu.impl \/ thr[t].op = "implement"))
    BY <1>24, <1>0, WatchWork
  <2> QED BY <2>0, <2>1, <2>2, <1>e, <1>s, <1>p, <1>d DEF Done, SameState, Moved, Kept, Unlocked,
      ReviewInv, Entering
<1>25. ASSUME NEW t \in Threads, PolicyRetry(t) PROVE ReviewInv'
  <2>1.
        /\ thr[t].pc = "policy" /\ Unlocked /\ Policy[thr[t].op] = "retry"
        /\ Moved(t, {"idle", "call"}) /\ mu' = mu
    BY <1>25, WatchMoves
  <2>2. UNCHANGED work
    BY <1>25, <1>0, WatchWork
  <2> QED BY <2>1, <2>2, <1>e, <1>s DEF Moved, Kept, Unlocked, work, ReviewInv, Entering
<1>26. ASSUME NEW t \in Threads, PolicySkip(t) PROVE ReviewInv'
  <2>0. thr[t].op \in Phases
    BY <1>26, WatchMoves DEF OpInv, Owning
  <2>1. thr[t].pc = "policy" /\ Unlocked /\ Moved(t, {"idle", "call"}) /\ mu' = mu
    BY <1>26, WatchMoves
  <2>2.
        /\ wu' = wu /\ Written /\ Done(thr[t].op) /\ Policy[thr[t].op] = "skip"
        /\ m.state = InProgressState[thr[t].op]
    BY <1>26, <1>0, WatchWork
  <2> QED BY <2>0, <2>1, <2>2, <1>e, <1>s, <1>p, <1>d DEF Done, SameState, Moved, Kept, Unlocked,
      ReviewInv, Entering
<1>27. ASSUME NEW t \in Threads, PolicyFail(t) PROVE ReviewInv'
  <2>1. thr[t].pc = "policy" /\ Unlocked /\ Moved(t, {"errored"}) /\ mu' = mu
    BY <1>27, WatchMoves
  <2>2. UNCHANGED work
    BY <1>27, <1>0, WatchWork
  <2> QED BY <2>1, <2>2, <1>e, <1>s DEF Moved, Kept, Unlocked, work, ReviewInv, Entering
<1>28. ASSUME NEW t \in Threads, JobErrored(t) PROVE ReviewInv'
  <2>1. thr[t].pc = "errored" /\ Unlocked /\ Moved(t, {"idle"}) /\ mu' = mu
    BY <1>28, WatchMoves
  <2>2. wu' = wu /\ Written /\ Back
    BY <1>28, <1>0, WatchWork
  <2> QED BY <2>1, <2>2, <1>e, <1>s DEF Moved, Kept, Unlocked, Back, RollsBack, ReviewInv, Entering
<1>29. ASSUME NEW t \in Threads, SpawnGate(t) PROVE ReviewInv'
  <2>1. Unlocked
    BY <1>29, GateMoves
  <2>2. UNCHANGED work
    BY <1>29, <1>0, GateWork
  <2> QED BY <2>1, <2>2, <1>e DEF work, ReviewInv
<1>30. ASSUME NEW t \in Threads, GateDone(t) PROVE ReviewInv'
  <2>1. thr[t].pc = "gate" /\ Unlocked /\ Moved(t, {"idle"}) /\ mu' = mu
    BY <1>30, GateMoves
  <2>2. SameTask /\ m' = m /\ (disk' = disk \/ Written)
    BY <1>30, <1>0, GateWork
  <2> QED BY <2>1, <2>2, <1>e, <1>s DEF Moved, Kept, Unlocked, SameTask, ReviewInv, Entering
<1>31. ASSUME NEW t \in Threads, GateDoubleClose(t) PROVE ReviewInv'
  <2>1. thr[t].pc = "gate" /\ Unlocked /\ AllIdle /\ mu' = None
    BY <1>31, GateMoves
  <2>2.
        /\ Reload
        /\ (disk' = disk \/ (wu # NoTask /\ \E w \in WorkUnit : w.id = wu.id /\ w.impl = wu.impl
              /\ w.specs = wu.specs /\ disk' = persistState(disk, w, m)))
    BY <1>31, <1>0, GateWork
  <2> QED BY <2>1, <2>2, <1>e, <1>s DEF AllIdle, Unlocked, Reload, ReviewInv, Entering
<1>32. ASSUME NEW t \in Clients, NEW op \in Phases \cup Reviews \cup {"submit"}, Request(t, op)
      PROVE ReviewInv'
  <2>1.
        /\ t \in Threads /\ thr[t].pc = "idle" /\ Unlocked /\ op \in Requests /\ ThrType'
        /\ thr'[t].pc \in {"risk", "hooks"} /\ thr'[t].op = op /\ mu' \in {t, None}
        /\ (\A u \in Threads \ {t} : Kept(u))
    BY <1>32, ClientMoves
  <2>2. UNCHANGED work
    BY <1>32, <1>0, ClientWork
  <2> QED BY <2>1, <2>2, <1>e, <1>s DEF Kept, Unlocked, work, ReviewInv, Entering
<1>33. ASSUME NEW id \in Tasks, Start(id) PROVE ReviewInv'
  <2>1. Unlocked /\ thr' = thr /\ mu' = mu
    BY <1>33 DEF Start, Handler
  <2>2. Begun(id)
    BY <1>33, <1>0, ClientWork
  <2> QED BY <2>1, <2>2, <1>e, <1>s DEF Unlocked, Begun, ReviewInv, Entering
<1>34. ASSUME NEW id \in Tasks, StartQueued(id) PROVE ReviewInv'
  <2>1. Unlocked /\ thr' = thr /\ mu' = mu
    BY <1>34 DEF StartQueued
  <2>2. UNCHANGED work \/ Begun(id)
    BY <1>34, <1>0, ClientWork
  <2> QED BY <2>1, <2>2, <1>e, <1>s DEF Unlocked, Begun, work, ReviewInv, Entering
<1>35. ASSUME NEW id \in Tasks, NEW position \in DOMAIN queue, ReorderQueue(id, position) PROVE
      ReviewInv'
  <2>1. Unlocked /\ thr' = thr /\ mu' = mu
    BY <1>35 DEF ReorderQueue, Handler
  <2>2. UNCHANGED work
    BY <1>35, <1>0, ClientWork
  <2> QED BY <2>1, <2>2, <1>e, <1>s DEF Unlocked, work, ReviewInv, Entering
<1>36. CASE Stop
  <2>1. Unlocked /\ mu' = mu /\ ThrType' /\ (\A u \in Threads : Kept(u))
    BY <1>36, ClientMoves
  <2>2. wu' = wu /\ Written /\ Back
    BY <1>36, <1>0, ClientWork
  <2> QED BY <2>1, <2>2, <1>e, <1>s DEF Kept, Unlocked, Back, RollsBack, ReviewInv, Entering
<1>37. CASE Abort
  <2>1. Unlocked /\ thr' = thr /\ mu' = mu
    BY <1>37 DEF Abort, Handler
  <2>2.
        /\ wu' = wu /\ Written /\ m.state # "none" /\ m'.state = "failed" /\ m'.prior = m.prior
        /\ m'.interrupted = FALSE
    BY <1>37, <1>0, ClientWork
  <2> QED BY <2>1, <2>2, <1>e, <1>s DEF Unlocked, ReviewInv, Entering
<1>38. CASE Reset
  <2>1. Unlocked /\ thr' = thr /\ mu' = mu
    BY <1>38 DEF Reset, Handler
  <2>2.
        /\ wu' = wu /\ Written /\ m.state = "failed" /\ m'.prior = m.prior
        /\ (m' = m \/ (m'.state = "loaded" /\ m'.interrupted = FALSE))
    BY <1>38, <1>0, ClientWork
  <2> QED BY <2>1, <2>2, <1>e, <1>s DEF Unlocked, ReviewInv, Entering
<1>39. CASE UpdateTask
  <2>1. Unlocked
    BY <1>39 DEF UpdateTask, Handler
  <2>2. wu # NoTask /\ wu'.id = wu.id /\ wu'.impl = wu.impl /\ wu'.pr = wu.pr /\ m' = m /\ Written
    BY <1>39, <1>0, ClientWork
  <2> QED BY <2>1, <2>2, <1>e DEF ReviewInv
<1>40. CASE Abandon
  <2>1. Unlocked
    BY <1>40, ClientMoves
  <2>2. Cleared /\ disk' = DeleteTaskState(disk, wu.id)
    BY <1>40, <1>0, ClientWork
  <2> QED BY <2>1, <2>2, <1>e DEF Cleared, ReviewInv
<1>41. CASE Delete
  <2>1. Unlocked /\ thr' = thr /\ mu' = mu
    BY <1>41 DEF Delete, Handler
  <2>2. Cleared /\ disk' = DeleteTaskState(disk, wu.id)
    BY <1>41, <1>0, ClientWork
  <2> QED BY <2>1, <2>2, <1>e, <1>s DEF Unlocked, Cleared, ReviewInv, Entering
<1>42. CASE Crash
  <2>1. AllIdle
    BY <1>42, ClientMoves
  <2>2. Reload /\ disk' = disk
    BY <1>42, <1>0, ClientWork
  <2> QED BY <2>1, <2>2, <1>e, <1>s DEF AllIdle, Reload, ReviewInv, Entering, Unlocked
<1>43. ASSUME NEW force \in BOOLEAN, Finish(force) PROVE ReviewInv'
  <2>1. Unlocked /\ thr' = thr /\ mu' = mu
    BY <1>43 DEF Finish, Handler
  <2>2. Cleared /\ disk' = disk
    BY <1>43, <1>0, ClientWork
  <2> QED BY <2>1, <2>2, <1>e, <1>s DEF Unlocked, Cleared, ReviewInv, Entering
<1>44. CASE UNCHANGED vars
  BY <1>44 DEF vars, ReviewInv, Entering, Unlocked
<1> QED
  BY <1>1, <1>2, <1>3, <1>4, <1>5, <1>6, <1>7, <1>8, <1>9, <1>10, <1>11, <1>12, <1>13, <1>14, <1>15,
     <1>16, <1>17, <1>18, <1>19, <1>20, <1>21, <1>22, <1>23, <1>24, <1>25, <1>26, <1>27, <1>28,
     <1>29, <1>30, <1>31, <1>32, <1>33, <1>34, <1>35, <1>36, <1>37, <1>38, <1>39, <1>40, <1>41,
     <1>42, <1>43, <1>44 DEF Next, ClientStep, ThreadStep, Begin, Enter, Observe, Decide, Gate,
     Submit

\* The step that NoPhaseJump allows.
KeepsPhase ==
  m.state \in Active /\ m'.state \in Active => m'.state = m.state \/ m'.interrupted

LEMMA NextKeepsPhase ==
    ASSUME WorkType, ThrType, RestType, OpInv, PriorInv, ReviewInv, [Next]_vars
    PROVE  KeepsPhase
<1>0. WorkType'
  BY NextWork
<1>p. \A op \in Phases : InProgressState[op] \in InProgress
  BY DEF Phases, InProgressState, InProgress
<1>d. \A op \in Phases : DoneTo[Completion[op]] \in {"planned", "implemented"}
  BY DEF Phases, DoneTo, Completion
<1>s. /\ "none" \notin Stable /\ "none" \notin InProgress /\ Stable \cap InProgress = {}
      /\ Active = InProgress \cup {"reviewing"} /\ "reviewing" \notin Stable \cup InProgress
      /\ {"loaded", "planned", "implemented", "submitted"} = Stable
      /\ {"failed", ""} \cap (Stable \cup Active) = {}
  BY DEF Stable, Active, InProgress
<1>1. ASSUME NEW t \in Threads, Refused(t) \/ StreamClosed(t) \/ SelfCall(t) \/ GuardrailsPass(t) \/
      CompletedNoTask(t) \/ Failed(t) \/ Iterate(t) \/ PolicyRetry(t) \/ PolicyFail(t) \/
      SpawnGate(t) \/ SubmitGate(t) \/ SubmitWaited(t) \/ NetworkFails(t) \/ NetworkDone(t) PROVE
      KeepsPhase
  <2>2. UNCHANGED work
    BY <1>1, <1>0, BeginWork, WatchWork, GateWork, SubmitWork
  <2> QED BY <2>2, <1>s DEF work, KeepsPhase
<1>2. ASSUME NEW t \in Threads, GuardrailsFail(t) \/ SubmitJobFails(t) \/ FixRefused(t) PROVE
      KeepsPhase
  <2>2. wu' = wu /\ disk' = disk /\ Back
    BY <1>2, <1>0, BeginWork
  <2> QED BY <2>2, <1>s DEF Back, RollsBack, KeepsPhase, PriorInv, ReviewInv
<1>3. ASSUME NEW t \in Threads, NoSpecification(t) \/ JobErrored(t) PROVE KeepsPhase
  <2>2. wu' = wu /\ Written /\ Back
    BY <1>3, <1>0, WatchWork
  <2> QED BY <2>2, <1>s DEF Back, RollsBack, KeepsPhase, PriorInv, ReviewInv
<1>4. ASSUME NEW id \in Tasks, QueueTask(id) \/ DequeueTask(id) PROVE KeepsPhase
  <2>2. UNCHANGED work
    BY <1>4, <1>0, ClientWork
  <2> QED BY <2>2, <1>s DEF work, KeepsPhase
<1>5. CASE Abandon \/ Delete
  <2>2. Cleared /\ disk' = DeleteTaskState(disk, wu.id)
    BY <1>5, <1>0, ClientWork
  <2> QED BY <2>2, <1>s DEF Cleared, KeepsPhase
<1>6. ASSUME NEW t \in Threads, RecordPrior(t) PROVE KeepsPhase
  <2>2. SameTask /\ disk' = disk /\ SameState /\ (m'.prior = m.state \/ m'.prior = m.prior)
    BY <1>6, <1>0, BeginWork
  <2> QED BY <2>2, <1>s DEF SameTask, SameState, KeepsPhase
<1>7. ASSUME NEW t \in Threads, EnterRejected(t) PROVE KeepsPhase
  <2>2. wu' = wu /\ disk' = disk /\ SameState /\ m'.prior = ""
    BY <1>7, <1>0, BeginWork
  <2> QED BY <2>2, <1>s DEF SameState, KeepsPhase
<1>8. ASSUME NEW t \in Threads, EnterPhase(t) PROVE KeepsPhase
  <2>0. thr[t].op \in Phases
    BY <1>8, BeginMoves DEF OpInv, Owning
  <2>2. wu' = wu /\ disk' = disk /\ In(InProgressState[thr[t].op])
    BY <1>8, <1>0, BeginWork
  <2> QED BY <2>0, <2>2, <1>s, <1>p, <1>d DEF In, KeepsPhase
<1>9. ASSUME NEW t \in Threads, EnterReview(t) PROVE KeepsPhase
  <2>2. wu' = wu /\ Written /\ In("reviewing")
    BY <1>9, <1>0, BeginWork
  <2> QED BY <2>2, <1>s DEF In, KeepsPhase
<1>10. ASSUME NEW t \in Threads, LaunchNil(t) PROVE KeepsPhase
  <2>2. (UNCHANGED work \/ (Reload /\ disk' = disk))
    BY <1>10, <1>0, BeginWork
  <2> QED BY <2>2, <1>s DEF work, Reload, KeepsPhase
<1>11. ASSUME NEW t \in Threads, Launch(t) PROVE KeepsPhase
  <2>2. wu # NoTask /\ wu' = wu /\ m' = m /\ Written
    BY <1>11, <1>0, BeginWork
  <2> QED BY <2>2, <1>s DEF KeepsPhase
<1>12. ASSUME NEW t \in Threads, FixStarted(t) PROVE KeepsPhase
  <2>2. (UNCHANGED work \/ (wu' = wu /\ m' = m /\ Written))
    BY <1>12, <1>0, BeginWork
  <2> QED BY <2>2, <1>s DEF work, KeepsPhase
<1>13. ASSUME NEW t \in Threads, Completed(t) PROVE KeepsPhase
  <2>2.
        /\ wu # NoTask /\ wu'.id = wu.id /\ wu'.impl = wu.impl /\ wu'.pr = wu.pr /\ m' = m
        /\ disk' = disk
    BY <1>13, <1>0, WatchWork
  <2> QED BY <2>2, <1>s DEF KeepsPhase
<1>14. ASSUME NEW t \in Threads, Accept(t) PROVE KeepsPhase
  <2>2. wu' = wu /\ m' = m /\ Written
    BY <1>14, <1>0, WatchWork
  <2> QED BY <2>2, <1>s DEF KeepsPhase
<1>15. ASSUME NEW t \in Threads, FinalizeNil(t) PROVE KeepsPhase
  <2>2. Reload /\ disk' = disk
    BY <1>15, <1>0, WatchWork
  <2> QED BY <2>2, <1>s DEF Reload, KeepsPhase
<1>16. ASSUME NEW t \in Threads, Finalize(t) PROVE KeepsPhase
  <2>0. thr[t].op \in Phases
    BY <1>16, WatchMoves DEF OpInv, Owning
  <2>2.
        /\ Written /\ Done(thr[t].op) /\ wu'.id = wu.id
        /\ (wu # NoTask => wu'.pr = wu.pr /\ wu'.impl = (wu.impl \/ thr[t].op = "implement"))
    BY <1>16, <1>0, WatchWork
  <2> QED BY <2>0, <2>2, <1>s, <1>p, <1>d DEF Done, SameState, KeepsPhase
<1>17. ASSUME NEW t \in Threads, PolicySkip(t) PROVE KeepsPhase
  <2>0. thr[t].op \in Phases
    BY <1>17, WatchMoves DEF OpInv, Owning
  <2>2.
        /\ wu' = wu /\ Written /\ Done(thr[t].op) /\ Policy[thr[t].op] = "skip"
        /\ m.state = InProgressState[thr[t].op]
    BY <1>17, <1>0, WatchWork
  <2> QED BY <2>0, <2>2, <1>s, <1>p, <1>d DEF Done, SameState, KeepsPhase
<1>18. ASSUME NEW t \in Threads, GateDone(t) PROVE KeepsPhase
  <2>2. SameTask /\ m' = m /\ (disk' = disk \/ Written)
    BY <1>18, <1>0, GateWork
  <2> QED BY <2>2, <1>s DEF SameTask, KeepsPhase
<1>19. ASSUME NEW t \in Threads, GateDoubleClose(t) PROVE KeepsPhase
  <2>2.
        /\ Reload
        /\ (disk' = disk \/ (wu # NoTask /\ \E w \in WorkUnit : w.id = wu.id /\ w.impl = wu.impl
              /\ w.specs = wu.specs /\ disk' = persistState(disk, w, m)))
    BY <1>19, <1>0, GateWork
  <2> QED BY <2>2, <1>s DEF Reload, KeepsPhase
<1>20. ASSUME NEW t \in Threads, SubmitGateDone(t) PROVE KeepsPhase
  <2>2. SameTask /\ m' = m /\ disk' = disk
    BY <1>20, <1>0, SubmitWork
  <2> QED BY <2>2, <1>s DEF SameTask, KeepsPhase
<1>21. ASSUME NEW t \in Threads, SubmitDispatch(t) PROVE KeepsPhase
  <2>2.
        /\ wu' = wu /\ disk' = disk
        /\ (m' = m \/ (m.state = "reviewing" /\ m'.state = "submitted" /\ m'.prior = m.prior
              /\ m'.interrupted = FALSE))
    BY <1>21, <1>0, SubmitWork
  <2> QED BY <2>2, <1>s DEF KeepsPhase
<1>22. ASSUME NEW t \in Threads, SubmitStore(t) PROVE KeepsPhase
  <2>2.
        /\ wu'.id = wu.id /\ m' = m /\ (wu = NoTask => wu' = wu /\ disk' = disk)
        /\ (wu # NoTask => Written /\ wu'.specs = wu.specs /\ wu'.impl = wu.impl)
    BY <1>22, <1>0, SubmitWork
  <2> QED BY <2>2, <1>s DEF KeepsPhase
<1>23. ASSUME NEW t \in Clients, NEW op \in Phases \cup Reviews \cup {"submit"}, Request(t, op)
      PROVE KeepsPhase
  <2>2. UNCHANGED work
    BY <1>23, <1>0, ClientWork
  <2> QED BY <2>2, <1>s DEF work, KeepsPhase
<1>24. ASSUME NEW id \in Tasks, Start(id) PROVE KeepsPhase
  <2>2. Begun(id)
    BY <1>24, <1>0, ClientWork
  <2> QED BY <2>2, <1>s DEF Begun, KeepsPhase
<1>25. ASSUME NEW id \in Tasks, StartQueued(id) PROVE KeepsPhase
  <2>2. UNCHANGED work \/ Begun(id)
    BY <1>25, <1>0, ClientWork
  <2> QED BY <2>2, <1>s DEF Begun, work, KeepsPhase
<1>26. ASSUME NEW id \in Tasks, NEW position \in DOMAIN queue, ReorderQueue(id, position) PROVE
      KeepsPhase
  <2>2. UNCHANGED work
    BY <1>26, <1>0, ClientWork
  <2> QED BY <2>2, <1>s DEF work, KeepsPhase
<1>27. CASE Stop
  <2>2. wu' = wu /\ Written /\ Back
    BY <1>27, <1>0, ClientWork
  <2> QED BY <2>2, <1>s DEF Back, RollsBack, KeepsPhase, PriorInv, ReviewInv
<1>28. CASE Abort
  <2>2.
        /\ wu' = wu /\ Written /\ m.state # "none" /\ m'.state = "failed" /\ m'.prior = m.prior
        /\ m'.interrupted = FALSE
    BY <1>28, <1>0, ClientWork
  <2> QED BY <2>2, <1>s DEF KeepsPhase
<1>29. CASE Reset
  <2>2.
        /\ wu' = wu /\ Written /\ m.state = "failed" /\ m'.prior = m.prior
        /\ (m' = m \/ (m'.state = "loaded" /\ m'.interrupted = FALSE))
    BY <1>29, <1>0, ClientWork
  <2> QED BY <2>2, <1>s DEF KeepsPhase
<1>30. CASE UpdateTask
  <2>2. wu # NoTask /\ wu'.id = wu.id /\ wu'.impl = wu.impl /\ wu'.pr = wu.pr /\ m' = m /\ Written
    BY <1>30, <1>0, ClientWork
  <2> QED BY <2>2, <1>s DEF KeepsPhase
<1>31. CASE Crash
  <2>2. Reload /\ disk' = disk
    BY <1>31, <1>0, ClientWork
  <2> QED BY <2>2, <1>s DEF Reload, KeepsPhase
<1>32. ASSUME NEW force \in BOOLEAN, Finish(force) PROVE KeepsPhase
  <2>2. Cleared /\ disk' = disk
    BY <1>32, <1>0, ClientWork
  <2> QED BY <2>2, <1>s DEF Cleared, KeepsPhase
<1>33. CASE UNCHANGED vars
  BY <1>33 DEF vars, KeepsPhase
<1> QED
  BY <1>1, <1>2, <1>3, <1>4, <1>5, <1>6, <1>7, <1>8, <1>9, <1>10, <1>11, <1>12, <1>13, <1>14, <1>15,
     <1>16, <1>17, <1>18, <1>19, <1>20, <1>21, <1>22, <1>23, <1>24, <1>25, <1>26, <1>27, <1>28,
     <1>29, <1>30, <1>31, <1>32, <1>33 DEF Next, ClientStep, ThreadStep, Begin, Enter, Observe,
     Decide, Gate, Submit

\* An operation under way is left for a stable or a failed state, never for
\* another operation, whatever handlers and goroutines interleave, if nobody
\* submits: Submit dispatches without c.mu, so that a handler it interleaves with
\* records "reviewing" as the state to roll back to.
THEOREM PhasesNeverJump == ASSUME "submit" \notin Requests PROVE Spec => NoPhaseJump
<1> DEFINE Inv == Typed /\ BaseInv /\ NoSubmission /\ ReviewInv
<1>1. Init => Inv
  <2>1. ASSUME Init PROVE NoSubmission
    <3>1. \A t \in Threads : thr[t].pc = "idle" /\ thr[t].op = ""
      BY <2>1, ThreadRecords DEF Init
    <3> QED BY <3>1 DEF NoSubmission, SubmitPCs
  <2>2. Init => ReviewInv
    BY InitMachine DEF ReviewInv
  <2> QED BY <2>1, <2>2, InitTyped, InitBase
<1>2. Inv /\ [Next]_vars => Inv' /\ KeepsPhase
  <2> SUFFICES ASSUME Typed, BaseInv, NoSubmission, ReviewInv, [Next]_vars PROVE Inv' /\ KeepsPhase
    OBVIOUS
  <2>1. WorkType /\ ThrType /\ RestType /\ OpInv
    BY TypeParts DEF Typed
  <2>2. NoSubmission' /\ ReviewInv'
    BY <2>1, NextNoSubmission, NextReview DEF BaseInv
  <2>3. KeepsPhase
    BY <2>1, NextKeepsPhase DEF BaseInv
  <2> QED BY <2>2, <2>3, NextTyped, NextBase
<1>3. Inv /\ [Next]_vars => [KeepsPhase]_vars
  BY <1>2
<1> QED BY <1>1, <1>2, <1>3, PTL DEF Spec, NoPhaseJump, KeepsPhase

=============================================================================
