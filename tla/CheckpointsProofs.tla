------------------------- MODULE CheckpointsProofs -------------------------
(***************************************************************************)
(* Proofs about Checkpoints, for any number of jobs and commits, any        *)
(* length of the stacks and either isolation: the stacks as one timeline,  *)
(* and what the task's file holds.                                         *)
(***************************************************************************)
EXTENDS Checkpoints, LifecycleProofs, SequenceTheorems

\* The parts of the state that TypeOK leaves open: a machine, the goroutines and
\* the file are records.
Shas == 0..MaxCommits

MachType == mach \in Machine

JobType ==
  job \in [Jobs -> [pc : {"none", "entering", "queued", "running", "completed", "failed", "again"},
                    done : {"none", "plan_done", "implement_done"}]]

SavedType ==
  /\ saved \in [state : State, checkpoints : Seq(Shas), redo : Seq(Shas)]
  /\ saved.redo # <<>> => saved.checkpoints # <<>>

\* The parts of TypeOK, for the proof of each on its own.
StackType == checkpoints \in Seq(Shas) /\ redo \in Seq(Shas) /\ (redo # <<>> => checkpoints # <<>>)
TreeType == commits \in Shas /\ head \in [Trees -> Shas] /\ dirty \in [Trees -> BOOLEAN]
RestType == isolated \in BOOLEAN /\ fixing \in BOOLEAN /\ cifix \in 0..MaxCommits /\ silent \in BOOLEAN

CheckpointsInv == TypeOK /\ MachType /\ JobType /\ SavedType /\ EndedIsSaved

-----------------------------------------------------------------------------
(* The two stacks as one timeline.                                         *)

LEMMA ReverseProperties ==
    ASSUME NEW s \in Seq(Shas)
    PROVE  /\ Reverse(s) \in Seq(Shas)
           /\ Len(Reverse(s)) = Len(s)
           /\ \A i \in 1..Len(s) : Reverse(s)[i] = s[(Len(s) - i) + 1]
<1>1. Len(s) \in Nat /\ \A i \in 1..Len(s) : s[(Len(s) - i) + 1] \in Shas
  OBVIOUS
<1> QED BY <1>1 DEF Reverse

LEMMA FrontLast ==
    ASSUME NEW s \in Seq(Shas), s # <<>>
    PROVE  /\ Front(s) \in Seq(Shas) /\ Len(Front(s)) = Len(s) - 1
           /\ Last(s) = s[Len(s)] /\ Last(s) \in Shas
           /\ Front(s) \o <<Last(s)>> = s
<1>1. Len(s) \in Nat \ {0} /\ Len(s) \in 1..Len(s) /\ 1 \in 1..Len(s) /\ s[Len(s)] \in Shas
  OBVIOUS
<1>2. Front(s) \in Seq(Shas) /\ Len(Front(s)) = Len(s) - 1
  <2> DEFINE n == Len(s) - 1
  <2>1. 1 \in Int /\ n \in Nat /\ \A i \in 1..n : s[i] \in Shas
    BY <1>1
  <2> HIDE DEF n
  <2>2. SubSeq(s, 1, n) \in Seq(Shas) /\ Len(SubSeq(s, 1, n)) = n
    BY <2>1
  <2> QED BY <2>2 DEF Front, n
<1>3. SubSeq(s, 1, Len(s)) = SubSeq(s, 1, Len(s) - 1) \o <<s[Len(s)]>>
  BY <1>1, SubSeqRecursiveSecond, Zenon
<1>4. SubSeq(s, 1, Len(s)) = s
  BY SubSeqFull, Zenon
<1>5. Front(s) = SubSeq(s, 1, Len(s) - 1) /\ Last(s) = s[Len(s)]
  BY Zenon DEF Front, Last
<1>6. Front(s) \o <<Last(s)>> = s
  BY <1>3, <1>4, <1>5, Zenon
<1> QED BY <1>1, <1>2, <1>5, <1>6, Zenon

LEMMA ConcatAt ==
    ASSUME NEW s \in Seq(Shas), NEW r \in Seq(Shas)
    PROVE  /\ s \o r \in Seq(Shas) /\ Len(s \o r) = Len(s) + Len(r)
           /\ \A i \in 1..Len(s) : (s \o r)[i] = s[i]
           /\ \A i \in 1..Len(r) : (s \o r)[Len(s) + i] = r[i]
  OBVIOUS

LEMMA ConcatRegroup ==
    ASSUME NEW a \in Seq(Shas), NEW b \in Seq(Shas), NEW c \in Seq(Shas)
    PROVE  (a \o b) \o c = a \o (b \o c)
  BY ConcatAssociative

LEMMA ReverseConcat ==
    ASSUME NEW s \in Seq(Shas), NEW r \in Seq(Shas)
    PROVE  Reverse(s \o r) = Reverse(r) \o Reverse(s)
<1> DEFINE c == s \o r
           t == Reverse(s \o r)
           u == Reverse(r) \o Reverse(s)
<1>1. Len(s) \in Nat /\ Len(r) \in Nat
  OBVIOUS
<1>2. /\ c \in Seq(Shas) /\ Len(c) = Len(s) + Len(r)
      /\ \A i \in 1..Len(s) : c[i] = s[i]
      /\ \A i \in 1..Len(r) : c[Len(s) + i] = r[i]
  BY ConcatAt
<1>3. t \in Seq(Shas) /\ Len(t) = Len(c) /\ \A i \in 1..Len(c) : t[i] = c[(Len(c) - i) + 1]
  BY <1>2, ReverseProperties, Zenon
<1>4. /\ Reverse(s) \in Seq(Shas) /\ Len(Reverse(s)) = Len(s)
      /\ \A i \in 1..Len(s) : Reverse(s)[i] = s[(Len(s) - i) + 1]
  BY ReverseProperties, Zenon
<1>5. /\ Reverse(r) \in Seq(Shas) /\ Len(Reverse(r)) = Len(r)
      /\ \A i \in 1..Len(r) : Reverse(r)[i] = r[(Len(r) - i) + 1]
  BY ReverseProperties, Zenon
<1>6. /\ u \in Seq(Shas) /\ Len(u) = Len(Reverse(r)) + Len(Reverse(s))
      /\ \A i \in 1..Len(Reverse(r)) : u[i] = Reverse(r)[i]
      /\ \A i \in 1..Len(Reverse(s)) : u[Len(Reverse(r)) + i] = Reverse(s)[i]
  <2> DEFINE v == Reverse(r)
             w == Reverse(s)
  <2>1. v \in Seq(Shas) /\ w \in Seq(Shas)
    BY <1>4, <1>5
  <2> HIDE DEF v, w
  <2>2. /\ v \o w \in Seq(Shas) /\ Len(v \o w) = Len(v) + Len(w)
        /\ \A i \in 1..Len(v) : (v \o w)[i] = v[i]
        /\ \A i \in 1..Len(w) : (v \o w)[Len(v) + i] = w[i]
    BY <2>1, ConcatAt
  <2> QED BY <2>2 DEF v, w
<1> HIDE DEF c, t, u
<1>7. ASSUME NEW i \in 1..(Len(s) + Len(r)) PROVE t[i] = u[i]
  <2>1. t[i] = c[((Len(s) + Len(r)) - i) + 1]
    BY <1>2, <1>3
  <2>2. CASE i \in 1..Len(r)
    <3>1. (Len(r) - i) + 1 \in 1..Len(r) /\ ((Len(s) + Len(r)) - i) + 1 = Len(s) + ((Len(r) - i) + 1)
      BY <1>1, <2>2
    <3>2. c[Len(s) + ((Len(r) - i) + 1)] = r[(Len(r) - i) + 1]
      BY <1>2, <3>1
    <3>3. u[i] = r[(Len(r) - i) + 1]
      BY <1>5, <1>6, <2>2
    <3> QED BY <2>1, <3>1, <3>2, <3>3
  <2>3. CASE i \notin 1..Len(r)
    <3> DEFINE k == i - Len(r)
    <3>1. k \in 1..Len(s) /\ Len(r) + k = i /\ (Len(s) - k) + 1 \in 1..Len(s)
          /\ ((Len(s) + Len(r)) - i) + 1 = (Len(s) - k) + 1
      BY <1>1, <2>3
    <3> HIDE DEF k
    <3>2. u[Len(r) + k] = Reverse(s)[k]
      BY <1>4, <1>5, <1>6, <3>1
    <3>3. Reverse(s)[k] = s[(Len(s) - k) + 1]
      BY <1>4, <3>1
    <3>4. c[(Len(s) - k) + 1] = s[(Len(s) - k) + 1]
      BY <1>2, <3>1
    <3> QED BY <2>1, <3>1, <3>2, <3>3, <3>4
  <2> QED BY <2>2, <2>3
<1>8. Len(t) = Len(u) /\ \A i \in 1..Len(t) : t[i] = u[i]
  BY <1>1, <1>2, <1>3, <1>4, <1>5, <1>6, <1>7
<1>9. t = u
  BY <1>3, <1>6, <1>8, SeqEqual, Zenon
<1> QED BY <1>9 DEF t, u

LEMMA ReverseReverse ==
    ASSUME NEW s \in Seq(Shas)
    PROVE  Reverse(Reverse(s)) = s
<1> DEFINE r == Reverse(s)
           t == Reverse(Reverse(s))
<1>1. Len(s) \in Nat
  OBVIOUS
<1>2. r \in Seq(Shas) /\ Len(r) = Len(s) /\ \A i \in 1..Len(s) : r[i] = s[(Len(s) - i) + 1]
  BY ReverseProperties, Zenon
<1>3. t \in Seq(Shas) /\ Len(t) = Len(r) /\ \A i \in 1..Len(r) : t[i] = r[(Len(r) - i) + 1]
  BY <1>2, ReverseProperties, Zenon
<1> HIDE DEF r, t
<1>4. ASSUME NEW i \in 1..Len(t) PROVE t[i] = s[i]
  <2>1. (Len(s) - i) + 1 \in 1..Len(s) /\ (Len(s) - ((Len(s) - i) + 1)) + 1 = i
    BY <1>1, <1>2, <1>3
  <2> QED BY <1>2, <1>3, <2>1
<1>5. t = s
  BY <1>2, <1>3, <1>4, SeqEqual, Zenon
<1> QED BY <1>5 DEF t

LEMMA ReverseAppend ==
    ASSUME NEW r \in Seq(Shas), NEW e \in Shas
    PROVE  Reverse(Append(r, e)) = <<e>> \o Reverse(r)
<1>1. <<e>> \in Seq(Shas) /\ Len(<<e>>) = 1 /\ <<e>>[1] = e
  OBVIOUS
<1>2. Append(r, e) = r \o <<e>>
  BY AppendIsConcat, Zenon
<1>3. Reverse(<<e>>) = <<e>>
  BY <1>1 DEF Reverse
<1> QED BY <1>1, <1>2, <1>3, ReverseConcat, Zenon

\* Undo moves the newest checkpoint over without changing the order.
LEMMA UndoTimeline ==
    ASSUME NEW s \in Seq(Shas), NEW r \in Seq(Shas), s # <<>>
    PROVE  Front(s) \o Reverse(Append(r, Last(s))) = s \o Reverse(r)
<1>1. Front(s) \in Seq(Shas) /\ Last(s) \in Shas /\ Front(s) \o <<Last(s)>> = s
  BY FrontLast, Zenon
<1>2. <<Last(s)>> \in Seq(Shas) /\ Reverse(r) \in Seq(Shas)
  BY <1>1, ReverseProperties
<1>3. Reverse(Append(r, Last(s))) = <<Last(s)>> \o Reverse(r)
  BY <1>1, ReverseAppend, Zenon
<1>4. (Front(s) \o <<Last(s)>>) \o Reverse(r) = Front(s) \o (<<Last(s)>> \o Reverse(r))
  BY <1>1, <1>2, ConcatRegroup, Zenon
<1> QED BY <1>1, <1>3, <1>4, Zenon

\* Redo is the reverse of it.
LEMMA RedoTimeline ==
    ASSUME NEW s \in Seq(Shas), NEW r \in Seq(Shas), r # <<>>
    PROVE  Append(s, Last(r)) \o Reverse(Front(r)) = s \o Reverse(r)
<1>1. Front(r) \in Seq(Shas) /\ Last(r) \in Shas /\ Front(r) \o <<Last(r)>> = r
  BY FrontLast, Zenon
<1>2. <<Last(r)>> \in Seq(Shas) /\ Reverse(Front(r)) \in Seq(Shas)
  BY <1>1, ReverseProperties
<1>3. Append(Front(r), Last(r)) = r /\ Append(s, Last(r)) = s \o <<Last(r)>>
  BY <1>1, AppendIsConcat, Zenon
<1>4. Reverse(r) = <<Last(r)>> \o Reverse(Front(r))
  BY <1>1, <1>3, ReverseAppend, Zenon
<1>5. (s \o <<Last(r)>>) \o Reverse(Front(r)) = s \o (<<Last(r)>> \o Reverse(Front(r)))
  BY <1>2, ConcatRegroup, Zenon
<1> QED BY <1>3, <1>4, <1>5, Zenon

LEMMA ReverseRegroup ==
    ASSUME NEW a \in Seq(Shas), NEW b \in Seq(Shas), NEW r \in Seq(Shas)
    PROVE  a \o Reverse(r \o Reverse(b)) = (a \o b) \o Reverse(r)
<1>1. Reverse(b) \in Seq(Shas) /\ Reverse(r) \in Seq(Shas)
  BY ReverseProperties, Zenon
<1>2. Reverse(r \o Reverse(b)) = Reverse(Reverse(b)) \o Reverse(r)
  BY <1>1, ReverseConcat, Zenon
<1>3. Reverse(Reverse(b)) = b
  BY ReverseReverse, Zenon
<1>4. (a \o b) \o Reverse(r) = a \o (b \o Reverse(r))
  BY <1>1, ConcatRegroup, Zenon
<1> QED BY <1>2, <1>3, <1>4, Zenon

\* Goto moves all the newer checkpoints over at once.
LEMMA GotoTimeline ==
    ASSUME NEW s \in Seq(Shas), NEW r \in Seq(Shas), NEW n \in 1..Len(s)
    PROVE  SubSeq(s, 1, n) \o Reverse(r \o Reverse(SubSeq(s, n + 1, Len(s)))) = s \o Reverse(r)
<1> DEFINE old == SubSeq(s, 1, n)
           new == SubSeq(s, n + 1, Len(s))
<1>1. old \in Seq(Shas) /\ new \in Seq(Shas)
  OBVIOUS
<1>2. old \o new = s
  <2>1. 1 \in 1..(Len(s) + 1) /\ n \in (1 - 1)..Len(s) /\ Len(s) \in n..Len(s)
    OBVIOUS
  <2>2. old \o new = SubSeq(s, 1, Len(s))
    BY <2>1, ConcatAdjacentSubSeq, Zenon
  <2> QED BY <2>2, SubSeqFull, Zenon
<1> HIDE DEF old, new
<1>3. old \o Reverse(r \o Reverse(new)) = s \o Reverse(r)
  <2>1. old \o Reverse(r \o Reverse(new)) = (old \o new) \o Reverse(r)
    BY <1>1, ReverseRegroup, Zenon
  <2> QED BY <1>2, <2>1, Zenon
<1> QED BY <1>3 DEF old, new

-----------------------------------------------------------------------------
(* Types.                                                                  *)

LEMMA ApplyType ==
    ASSUME NEW m \in Machine, NEW e
    PROVE  Apply(m, e) \in Machine
<1>1. Dispatch(m, e, Facts) \in Machine
  BY DispatchType
<1> QED BY <1>1 DEF Apply, Machine

LEMMA PhaseEnteredType ==
    ASSUME TypeOK, MachType, NEW e
    PROVE  PhaseEntered(e) \in Machine
<1>1. mach \in Machine /\ SetPriorStableState(mach, mach.state) \in Machine
  BY PriorType DEF TypeOK, MachType
<1>2. Apply(mach, e) \in Machine /\ Apply(SetPriorStableState(mach, mach.state), e) \in Machine
  BY <1>1, ApplyType, Zenon
<1>3. PhaseEntered(e) = Apply(mach, e) \/ PhaseEntered(e) = Apply(SetPriorStableState(mach, mach.state), e)
  BY DEF PhaseEntered
<1> QED BY <1>2, <1>3, Zenon

\* The machine stays a machine.
LEMMA NextMach ==
    ASSUME TypeOK, MachType, SavedType, [Next]_vars
    PROVE  MachType'
<1> USE DEF MachType, work, trees, fixes
<1>1. CASE Undo \/ Redo \/ Stop \/ Review \/ Submit
  BY <1>1, ApplyType DEF Undo, Reset, persistState, Redo, Stop, Review, Submit
<1>2. CASE CreateCheckpoint \/ CIFixCommit \/ CIFixRecord \/ UNCHANGED vars
  BY <1>2, ApplyType DEF CreateCheckpoint, Commit, persistState, CIFixCommit, CIFixRecord, vars
<1>3. ASSUME NEW j \in Jobs, PreJobCheckpoint(j) \/ AgentCommit(j) \/ JobCompleted(j) \/
      JobFailed(j) \/ JobAgain(j) \/ JobSilent(j) PROVE MachType'
  BY <1>3, ApplyType DEF PreJobCheckpoint, CommitChanges, Commit, Step, AgentCommit, JobCompleted,
     CaptureHead, JobFailed, JobAgain, JobSilent
<1>4. CASE Crash
  BY <1>4, NewMachineType DEF Crash, SavedType
<1>5. ASSUME NEW i \in DOMAIN checkpoints, GotoCheckpoint(i) PROVE MachType'
  BY <1>5, ApplyType DEF GotoCheckpoint, Reset, persistState
<1>6. ASSUME NEW t \in Trees, Edit(t) PROVE MachType'
  BY <1>6, ApplyType DEF Edit
<1>7. ASSUME NEW j \in Jobs, JobEnds(j) PROVE MachType'
  <2>1. ClearPriorStableState(mach) \in Machine
    BY PriorType DEF TypeOK
  <2>2. mach' = Apply(ClearPriorStableState(mach), job[j].done) \/ mach' = Apply(mach, "error")
    BY <1>7 DEF JobEnds
  <2> QED BY <2>1, <2>2, ApplyType
<1>8. ASSUME NEW j \in Jobs, NEW e \in Phases, StartPhase(j, e) \/ PhaseAgain(j, e) PROVE MachType'
  <2>1. mach' = PhaseEntered(e)
    BY <1>8 DEF StartPhase, PhaseAgain
  <2>2. PhaseEntered(e) \in Machine
    BY PhaseEnteredType, Zenon
  <2> QED BY <2>1, <2>2
<1>9. ASSUME NEW j \in Jobs, LaunchPhase(j) \/ PhaseRolledBack(j) PROVE MachType'
  BY <1>9, ApplyType DEF LaunchPhase, PhaseRolledBack
<1>10. ASSUME \/ \E j \in Jobs : AgainRefused(j)
              \/ \E e \in Phases : PhaseRejected(e) PROVE MachType'
  <2>1. ClearPriorStableState(mach) \in Machine
    BY PriorType DEF TypeOK
  <2> QED BY <1>10, <2>1 DEF AgainRefused, PhaseRejected
<1> QED
  BY <1>1, <1>2, <1>3, <1>4, <1>5, <1>6, <1>7, <1>8, <1>9, <1>10 DEF Next

\* A goroutine stays a record.
LEMMA NextJob ==
    ASSUME TypeOK, JobType, [Next]_vars
    PROVE  JobType'
<1> USE DEF JobType, NoJob, work, trees, fixes
<1>1. CASE Undo \/ Redo \/ CreateCheckpoint \/ Stop \/ Review \/ Submit \/ CIFixCommit \/
      CIFixRecord \/ UNCHANGED vars
  BY <1>1 DEF Undo, Reset, persistState, Redo, CreateCheckpoint, Commit, Stop, Review, Submit,
     CIFixCommit, CIFixRecord, vars
<1>2. CASE Crash
  BY <1>2 DEF Crash
<1>3. ASSUME NEW i \in DOMAIN checkpoints, GotoCheckpoint(i) PROVE JobType'
  BY <1>3 DEF GotoCheckpoint, Reset, persistState
<1>4. ASSUME NEW t \in Trees, Edit(t) PROVE JobType'
  BY <1>4 DEF Edit
<1>5. ASSUME NEW j \in Jobs, PreJobCheckpoint(j) PROVE JobType'
  BY <1>5 DEF PreJobCheckpoint, CommitChanges, Commit, Step
<1>6. ASSUME NEW j \in Jobs, AgentCommit(j) PROVE JobType'
  BY <1>6 DEF AgentCommit, Commit
<1>7. ASSUME NEW j \in Jobs, JobCompleted(j) PROVE JobType'
  BY <1>7 DEF JobCompleted, CommitChanges, Commit, CaptureHead, Step
<1>8. ASSUME NEW j \in Jobs, JobFailed(j) PROVE JobType'
  BY <1>8 DEF JobFailed, CommitChanges, Commit, Step
<1>9. ASSUME NEW j \in Jobs, JobAgain(j) PROVE JobType'
  BY <1>9 DEF JobAgain
<1>10. ASSUME NEW j \in Jobs, JobEnds(j) PROVE JobType'
  BY <1>10 DEF JobEnds, persistState
<1>11. ASSUME NEW j \in Jobs, JobSilent(j) PROVE JobType'
  BY <1>11 DEF JobSilent
<1>12. ASSUME NEW j \in Jobs, NEW e \in Phases, StartPhase(j, e) PROVE JobType'
  <2>1. Completion[e] \in {"plan_done", "implement_done"}
    <3>1. CASE e = "plan" BY <3>1 DEF Completion
    <3>2. CASE e = "implement" BY <3>2 DEF Completion
    <3> QED BY <3>1, <3>2, CheckpointsAssumption
  <2> QED BY <1>12, <2>1 DEF StartPhase
<1>13. ASSUME NEW j \in Jobs, LaunchPhase(j) \/ PhaseRolledBack(j) \/ AgainRefused(j) PROVE JobType'
  <2>1. Step(j, "running") \/ Step(j, "queued") \/ job' = [job EXCEPT ![j] = NoJob]
    BY <1>13, Zenon DEF LaunchPhase, PhaseRolledBack, AgainRefused
  <2>2. CASE Step(j, "running") BY <2>2, Zenon DEF Step
  <2>3. CASE Step(j, "queued") BY <2>3, Zenon DEF Step
  <2>4. CASE job' = [job EXCEPT ![j] = NoJob] BY <2>4, Zenon
  <2> QED BY <2>1, <2>2, <2>3, <2>4, Zenon
<1>14. ASSUME NEW j \in Jobs, NEW e \in Phases, PhaseAgain(j, e) PROVE JobType'
  BY <1>14 DEF PhaseAgain, Step
<1>15. ASSUME NEW e \in Phases, PhaseRejected(e) PROVE JobType'
  BY <1>15 DEF PhaseRejected
<1> QED
  BY <1>1, <1>2, <1>3, <1>4, <1>5, <1>6, <1>7, <1>8, <1>9, <1>10, <1>11, <1>12, <1>13, <1>14, <1>15
     DEF Next

\* A stack that was moved from or to holds commits.
LEMMA StackTypes ==
    ASSUME TypeOK
    PROVE  /\ checkpoints # <<>> => /\ Front(checkpoints) \in Seq(Shas) /\ Last(checkpoints) \in Shas
                                    /\ Append(redo, Last(checkpoints)) \in Seq(Shas)
           /\ redo # <<>> => /\ Front(redo) \in Seq(Shas) /\ Last(redo) \in Shas
                             /\ Append(checkpoints, Last(redo)) \in Seq(Shas)
                             /\ Append(checkpoints, Last(redo)) # <<>>
           /\ Undoable => /\ checkpoints # <<>> /\ Front(checkpoints) # <<>> /\ Previous \in Shas
                          /\ Previous = Last(Front(checkpoints))
           /\ \A n \in Shas : Append(checkpoints, n) \in Seq(Shas) /\ Append(checkpoints, n) # <<>>
<1>1. checkpoints \in Seq(Shas) /\ redo \in Seq(Shas)
  BY DEF TypeOK, Shas
<1>2. ASSUME checkpoints # <<>>
      PROVE  /\ Front(checkpoints) \in Seq(Shas) /\ Last(checkpoints) \in Shas
             /\ Append(redo, Last(checkpoints)) \in Seq(Shas)
  <2>1. Front(checkpoints) \in Seq(Shas) /\ Last(checkpoints) \in Shas
    BY <1>1, <1>2, FrontLast, Zenon
  <2> QED BY <1>1, <2>1, AppendProperties, Zenon
<1>3. ASSUME redo # <<>>
      PROVE  /\ Front(redo) \in Seq(Shas) /\ Last(redo) \in Shas
             /\ Append(checkpoints, Last(redo)) \in Seq(Shas) /\ Append(checkpoints, Last(redo)) # <<>>
  <2>1. Front(redo) \in Seq(Shas) /\ Last(redo) \in Shas
    BY <1>1, <1>3, FrontLast, Zenon
  <2> QED BY <1>1, <2>1, AppendProperties, Zenon
<1>4. ASSUME Undoable
      PROVE  /\ checkpoints # <<>> /\ Front(checkpoints) # <<>> /\ Previous \in Shas
             /\ Previous = Last(Front(checkpoints))
  <2>1. Len(checkpoints) \in Nat /\ Len(checkpoints) >= 2 /\ checkpoints # <<>>
    BY <1>1, <1>4 DEF Undoable
  <2>2. Len(Front(checkpoints)) = Len(checkpoints) - 1 /\ Front(checkpoints) \in Seq(Shas)
    BY <1>1, <2>1, FrontLast, Zenon
  <2>3. Front(checkpoints) # <<>>
    BY <2>1, <2>2
  <2>4. Front(checkpoints)[Len(checkpoints) - 1] = checkpoints[Len(checkpoints) - 1]
        /\ checkpoints[Len(checkpoints) - 1] \in Shas
    BY <1>1, <2>1 DEF Front
  <2> QED BY <2>1, <2>2, <2>3, <2>4 DEF Previous, Last
<1>5. \A n \in Shas : Append(checkpoints, n) \in Seq(Shas) /\ Append(checkpoints, n) # <<>>
  <2>1. ASSUME NEW n \in Shas
        PROVE  Append(checkpoints, n) \in Seq(Shas) /\ Append(checkpoints, n) # <<>>
    BY <1>1, <2>1, AppendProperties, Zenon
  <2> QED BY <2>1, Zenon
<1> QED BY <1>2, <1>3, <1>4, <1>5

\* Committing in a tree and resetting it keep the types of the trees.
LEMMA CommitType ==
    ASSUME TypeOK, NEW t \in Trees, Commit(t)
    PROVE  /\ commits' = commits + 1 /\ commits' \in Shas
           /\ head' \in [Trees -> Shas] /\ dirty' \in [Trees -> BOOLEAN]
<1>1. commits' = commits + 1 /\ commits' \in Shas
  BY CheckpointsAssumption DEF TypeOK, Commit, Shas
<1>2. head' \in [Trees -> Shas]
  BY <1>1 DEF TypeOK, Commit, Shas
<1>3. dirty' \in [Trees -> BOOLEAN]
  BY Zenon DEF TypeOK, Commit
<1> QED BY <1>1, <1>2, <1>3

LEMMA ResetType ==
    ASSUME TypeOK, NEW t \in Trees, NEW sha \in Shas, Reset(t, sha)
    PROVE  commits' \in Shas /\ head' \in [Trees -> Shas] /\ dirty' \in [Trees -> BOOLEAN]
<1>1. commits' \in Shas /\ head' \in [Trees -> Shas]
  BY DEF TypeOK, Reset, Shas
<1>2. dirty' \in [Trees -> BOOLEAN]
  BY Zenon DEF TypeOK, Reset
<1> QED BY <1>1, <1>2

\* What CommitChanges records is a commit.
LEMMA CommitChangesType ==
    ASSUME TypeOK, CommitChanges
    PROVE  /\ TreeType' /\ checkpoints' \in Seq(Shas)
           /\ checkpoints' = <<>> => checkpoints = <<>>
<1>1. WorkDir \in Trees
  BY DEF WorkDir, Trees
<1>2. CASE Commit(WorkDir) /\ checkpoints' = Append(checkpoints, commits')
  BY <1>1, <1>2, CommitType, StackTypes DEF TreeType
<1>3. CASE UNCHANGED <<trees, checkpoints>>
  BY <1>3 DEF TypeOK, Shas, trees, TreeType
<1> QED BY <1>2, <1>3 DEF CommitChanges

LEMMA CaptureHeadType ==
    ASSUME TypeOK, CaptureHead
    PROVE  /\ TreeType' /\ checkpoints' \in Seq(Shas)
           /\ checkpoints' = <<>> => checkpoints = <<>>
<1>1. head[WorkDir] \in Shas
  BY DEF WorkDir, Trees, TypeOK, Shas
<1>2. checkpoints' = Append(checkpoints, head[WorkDir]) /\ UNCHANGED trees
  BY DEF CaptureHead
<1>3. TreeType'
  BY <1>2 DEF TypeOK, Shas, trees, TreeType
<1> QED BY <1>1, <1>2, <1>3, StackTypes

\* The trees stay at commits that were made.
LEMMA NextTrees ==
    ASSUME TypeOK, [Next]_vars
    PROVE  TreeType'
<1> USE DEF work, trees, fixes
<1>1. CASE Stop \/ Review \/ Submit \/ CIFixRecord \/ Crash \/ UNCHANGED vars
  BY <1>1 DEF Stop, persistState, TypeOK, Shas, TreeType, Review, Submit, CIFixRecord, Crash, vars
<1>2. CASE Undo
  BY <1>2, StackTypes, ResetType DEF Undo, Trees, TreeType
<1>3. CASE Redo
  BY <1>3, StackTypes, ResetType DEF Redo, Trees, TreeType
<1>4. CASE CreateCheckpoint
  BY <1>4, CommitType DEF CreateCheckpoint, Trees, TreeType
<1>5. CASE CIFixCommit
  BY <1>5, CommitType DEF CIFixCommit, Trees, TreeType
<1>6. ASSUME NEW i \in DOMAIN checkpoints, GotoCheckpoint(i) PROVE TreeType'
  <2>1. checkpoints \in Seq(Shas)
    BY DEF TypeOK, Shas
  <2>2. checkpoints[i] \in Shas
    BY <2>1
  <2> QED BY <1>6, <2>2, ResetType DEF GotoCheckpoint, Trees, TreeType
<1>7. ASSUME NEW t \in Trees, Edit(t) PROVE TreeType'
  <2>1. commits' \in Shas /\ head' \in [Trees -> Shas]
    BY <1>7 DEF Edit, TypeOK, Shas
  <2>2. dirty' \in [Trees -> BOOLEAN]
    BY <1>7, Zenon DEF Edit, TypeOK
  <2> QED BY <2>1, <2>2 DEF TreeType
<1>8. ASSUME NEW j \in Jobs, PreJobCheckpoint(j) PROVE TreeType'
  BY <1>8, CommitChangesType DEF PreJobCheckpoint
<1>9. ASSUME NEW j \in Jobs, AgentCommit(j) PROVE TreeType'
  BY <1>9, CommitType DEF AgentCommit, WorkDir, Trees, TreeType
<1>10. ASSUME NEW j \in Jobs, JobCompleted(j) PROVE TreeType'
  BY <1>10, CommitChangesType, CaptureHeadType DEF JobCompleted
<1>11. ASSUME NEW j \in Jobs, JobFailed(j) PROVE TreeType'
  BY <1>11, CommitChangesType DEF JobFailed
<1>12. ASSUME NEW j \in Jobs, JobAgain(j) PROVE TreeType'
  BY <1>12 DEF JobAgain, TypeOK, Shas, TreeType
<1>13. ASSUME NEW j \in Jobs, JobEnds(j) PROVE TreeType'
  BY <1>13 DEF JobEnds, TypeOK, Shas, TreeType
<1>14. ASSUME NEW j \in Jobs, JobSilent(j) PROVE TreeType'
  BY <1>14 DEF JobSilent, TypeOK, Shas, TreeType
<1>15. ASSUME NEW j \in Jobs, NEW e \in Phases, StartPhase(j, e) PROVE TreeType'
  BY <1>15 DEF StartPhase, TypeOK, Shas, TreeType
<1>16. ASSUME NEW j \in Jobs, LaunchPhase(j) PROVE TreeType'
  <2>1. CASE CommitChanges
    BY <2>1, CommitChangesType
  <2>2. CASE UNCHANGED trees
    BY <2>2 DEF TypeOK, Shas, TreeType
  <2> QED BY <1>16, <2>1, <2>2 DEF LaunchPhase
<1>17. ASSUME NEW j \in Jobs, PhaseRolledBack(j) \/ AgainRefused(j) PROVE TreeType'
  BY <1>17 DEF PhaseRolledBack, AgainRefused, TypeOK, Shas, TreeType
<1>18. ASSUME NEW e \in Phases, PhaseRejected(e) \/ \E j \in Jobs : PhaseAgain(j, e) PROVE TreeType'
  BY <1>18 DEF PhaseRejected, PhaseAgain, TypeOK, Shas, TreeType
<1> QED
  BY <1>1, <1>2, <1>3, <1>4, <1>5, <1>6, <1>7, <1>8, <1>9, <1>10, <1>11, <1>12, <1>13, <1>14, <1>15, <1>16, <1>17, <1>18 DEF Next

\* The stacks hold commits, and what is to be redone was undone to a
\* checkpoint.
LEMMA NextStacks ==
    ASSUME TypeOK, SavedType, [Next]_vars
    PROVE  StackType'
<1> USE DEF work, trees, fixes
<1>1. CASE Stop \/ Review \/ Submit \/ CIFixCommit \/ UNCHANGED vars
  BY <1>1 DEF Stop, persistState, TypeOK, Shas, StackType, Review, Submit, CIFixCommit, Commit, vars
<1>2. CASE Undo
  <2>1. CASE checkpoints' = Front(checkpoints) /\ redo' = Append(redo, Last(checkpoints))
    BY <1>2, <2>1, StackTypes DEF Undo, StackType
  <2>2. CASE UNCHANGED work
    BY <2>2 DEF TypeOK, Shas, StackType
  <2> QED BY <1>2, <2>1, <2>2 DEF Undo
<1>3. CASE Redo
  <2>1. CASE redo # <<>> /\ checkpoints' = Append(checkpoints, Last(redo)) /\ redo' = Front(redo)
    BY <2>1, StackTypes DEF StackType
  <2>2. CASE UNCHANGED work
    BY <2>2 DEF TypeOK, Shas, StackType
  <2> QED BY <1>3, <2>1, <2>2 DEF Redo
<1>4. CASE CreateCheckpoint
  <2>1. commits' \in Shas
    BY <1>4, CommitType DEF CreateCheckpoint, Trees
  <2> QED BY <1>4, <2>1, StackTypes DEF CreateCheckpoint, StackType
<1>5. CASE CIFixRecord
  <2>1. cifix \in Shas /\ redo \in Seq(Shas)
    BY DEF TypeOK, Shas
  <2> QED BY <1>5, <2>1, StackTypes DEF CIFixRecord, StackType
<1>6. CASE Crash
  BY <1>6 DEF Crash, SavedType, StackType
<1>7. ASSUME NEW i \in DOMAIN checkpoints, GotoCheckpoint(i) PROVE StackType'
  <2>1. checkpoints \in Seq(Shas) /\ redo \in Seq(Shas) /\ i \in 1..Len(checkpoints) /\ Len(checkpoints) \in Nat
    BY DEF TypeOK, Shas
  <2> DEFINE newer == SubSeq(checkpoints, i + 1, Len(checkpoints))
  <2>2. /\ newer \in Seq(Shas) /\ SubSeq(checkpoints, 1, i) \in Seq(Shas)
        /\ Len(SubSeq(checkpoints, 1, i)) = i
    BY <2>1
  <2> HIDE DEF newer
  <2>3. Reverse(newer) \in Seq(Shas)
    BY <2>2, ReverseProperties
  <2>4. redo \o Reverse(newer) \in Seq(Shas)
    BY <2>1, <2>3, ConcatAt
  <2>5. checkpoints' = SubSeq(checkpoints, 1, i) /\ redo' = redo \o Reverse(newer)
    BY <1>7 DEF GotoCheckpoint, Reversed, newer
  <2>6. checkpoints' # <<>>
    BY <2>1, <2>2, <2>5
  <2> QED BY <2>2, <2>4, <2>5, <2>6 DEF StackType
<1>8. ASSUME NEW t \in Trees, Edit(t) PROVE StackType'
  BY <1>8 DEF Edit, TypeOK, Shas, StackType
<1>9. ASSUME NEW j \in Jobs, PreJobCheckpoint(j) PROVE StackType'
  <2>1. redo \in Seq(Shas) /\ (redo # <<>> => checkpoints # <<>>)
    BY DEF TypeOK, Shas
  <2> QED BY <1>9, <2>1, CommitChangesType DEF PreJobCheckpoint, StackType
<1>10. ASSUME NEW j \in Jobs, AgentCommit(j) PROVE StackType'
  BY <1>10 DEF AgentCommit, TypeOK, Shas, StackType
<1>11. ASSUME NEW j \in Jobs, JobCompleted(j) PROVE StackType'
  <2>1. redo \in Seq(Shas) /\ (redo # <<>> => checkpoints # <<>>)
    BY DEF TypeOK, Shas
  <2> QED BY <1>11, <2>1, CommitChangesType, CaptureHeadType DEF JobCompleted, StackType
<1>12. ASSUME NEW j \in Jobs, JobFailed(j) PROVE StackType'
  <2>1. redo \in Seq(Shas) /\ (redo # <<>> => checkpoints # <<>>)
    BY DEF TypeOK, Shas
  <2> QED BY <1>12, <2>1, CommitChangesType DEF JobFailed, StackType
<1>13. ASSUME NEW j \in Jobs, JobAgain(j) PROVE StackType'
  BY <1>13 DEF JobAgain, TypeOK, Shas, StackType
<1>14. ASSUME NEW j \in Jobs, JobEnds(j) PROVE StackType'
  BY <1>14 DEF JobEnds, TypeOK, Shas, StackType
<1>15. ASSUME NEW j \in Jobs, JobSilent(j) PROVE StackType'
  BY <1>15 DEF JobSilent, TypeOK, Shas, StackType
<1>16. ASSUME NEW j \in Jobs, NEW e \in Phases, StartPhase(j, e) PROVE StackType'
  BY <1>16 DEF StartPhase, TypeOK, Shas, StackType
<1>17. ASSUME NEW j \in Jobs, LaunchPhase(j) PROVE StackType'
  <2>1. redo \in Seq(Shas) /\ (redo # <<>> => checkpoints # <<>>) /\ redo' = redo
    BY <1>17 DEF TypeOK, Shas, LaunchPhase
  <2>2. CASE CommitChanges
    BY <2>1, <2>2, CommitChangesType DEF StackType
  <2>3. CASE UNCHANGED checkpoints
    BY <2>1, <2>3 DEF TypeOK, Shas, StackType
  <2> QED BY <1>17, <2>2, <2>3 DEF LaunchPhase
<1>18. ASSUME NEW j \in Jobs, PhaseRolledBack(j) \/ AgainRefused(j) PROVE StackType'
  BY <1>18 DEF PhaseRolledBack, AgainRefused, TypeOK, Shas, StackType
<1>19. ASSUME NEW e \in Phases, PhaseRejected(e) \/ \E j \in Jobs : PhaseAgain(j, e) PROVE StackType'
  BY <1>19 DEF PhaseRejected, PhaseAgain, TypeOK, Shas, StackType
<1> QED
  BY <1>1, <1>2, <1>3, <1>4, <1>5, <1>6, <1>7, <1>8, <1>9, <1>10, <1>11, <1>12, <1>13, <1>14, <1>15,
     <1>16, <1>17, <1>18, <1>19 DEF Next

\* The flags and counters keep their types.
LEMMA NextRest ==
    ASSUME TypeOK, [Next]_vars
    PROVE  RestType'
<1> USE DEF work, trees, fixes
<1>1. CASE Undo \/ Redo \/ Stop \/ Review \/ CreateCheckpoint
  BY <1>1 DEF Undo, Reset, persistState, TypeOK, RestType, Redo, Stop, Review, CreateCheckpoint,
     Commit
<1>2. ASSUME NEW j \in Jobs, PreJobCheckpoint(j) \/ AgentCommit(j) \/ JobCompleted(j) \/
      JobFailed(j) \/ JobAgain(j) \/ JobEnds(j) PROVE RestType'
  BY <1>2 DEF PreJobCheckpoint, CommitChanges, Commit, Step, AgentCommit, TypeOK, RestType,
     JobCompleted, CaptureHead, JobFailed, JobAgain, JobEnds, persistState
<1>3. CASE Submit
  BY <1>3 DEF Submit, persistState, TypeOK, RestType
<1>4. CASE CIFixCommit
  <2>1. cifix' \in Shas
    BY <1>4, CommitType DEF CIFixCommit, Trees
  <2> QED BY <1>4, <2>1 DEF CIFixCommit, TypeOK, Shas, RestType
<1>5. CASE CIFixRecord
  <2>1. 0 \in 0..MaxCommits
    BY CheckpointsAssumption
  <2> QED BY <1>5, <2>1 DEF CIFixRecord, persistState, TypeOK, RestType
<1>6. CASE Crash
  <2>1. 0 \in 0..MaxCommits
    BY CheckpointsAssumption
  <2> QED BY <1>6, <2>1 DEF Crash, TypeOK, RestType
<1>7. ASSUME NEW i \in DOMAIN checkpoints, GotoCheckpoint(i) PROVE RestType'
  BY <1>7 DEF GotoCheckpoint, Reset, persistState, TypeOK, RestType
<1>8. ASSUME NEW t \in Trees, Edit(t) PROVE RestType'
  BY <1>8 DEF Edit, TypeOK, RestType
<1>9. ASSUME NEW j \in Jobs, JobSilent(j) PROVE RestType'
  BY <1>9 DEF JobSilent, TypeOK, RestType
<1>10. ASSUME NEW j \in Jobs, NEW e \in Phases, StartPhase(j, e) PROVE RestType'
  BY <1>10 DEF StartPhase, persistState, TypeOK, RestType
<1>11. CASE UNCHANGED vars
  BY <1>11 DEF vars, TypeOK, RestType
<1>12. ASSUME NEW j \in Jobs, LaunchPhase(j) \/ PhaseRolledBack(j) \/ AgainRefused(j) PROVE RestType'
  BY <1>12 DEF LaunchPhase, persistState, PhaseRolledBack, AgainRefused, TypeOK, RestType
<1>13. ASSUME NEW e \in Phases, PhaseRejected(e) \/ \E j \in Jobs : PhaseAgain(j, e) PROVE RestType'
  BY <1>13 DEF PhaseRejected, PhaseAgain, TypeOK, RestType
<1> QED
  BY <1>1, <1>2, <1>3, <1>4, <1>5, <1>6, <1>7, <1>8, <1>9, <1>10, <1>11, <1>12, <1>13 DEF Next

\* The parts make the whole.
LEMMA NextType ==
    ASSUME TypeOK, MachType, JobType, SavedType, [Next]_vars
    PROVE  TypeOK'
<1>1. MachType' /\ JobType' /\ TreeType' /\ StackType' /\ RestType'
  BY NextMach, NextJob, NextTrees, NextStacks, NextRest
<1>2. mach'.state \in State
  BY <1>1 DEF MachType, Machine
<1>3. \A j \in Jobs : job'[j].pc \in {"none", "entering", "queued", "running", "completed", "failed", "again"}
  BY <1>1 DEF JobType
<1>4. /\ checkpoints' \in Seq(0..MaxCommits) /\ redo' \in Seq(0..MaxCommits)
      /\ redo' # <<>> => checkpoints' # <<>>
  BY <1>1 DEF StackType, Shas
<1>5. /\ head' \in [Trees -> 0..MaxCommits] /\ dirty' \in [Trees -> BOOLEAN]
      /\ commits' \in 0..MaxCommits
  BY <1>1 DEF TreeType, Shas
<1> QED BY <1>1, <1>2, <1>3, <1>4, <1>5 DEF TypeOK, RestType

\* persistState writes a machine's state and the two stacks.
LEMMA PersistType ==
    ASSUME MachType', StackType', persistState
    PROVE  SavedType'
<1>1. mach'.state \in State
  BY DEF MachType, Machine
<1>2. saved' = [state |-> mach'.state, checkpoints |-> checkpoints', redo |-> redo']
  BY DEF persistState, Snapshot
<1> DEFINE s == mach'.state
           c == checkpoints'
           r == redo'
<1>3. c \in Seq(Shas) /\ r \in Seq(Shas) /\ (r # <<>> => c # <<>>) /\ s \in State
  BY <1>1 DEF StackType
<1> HIDE DEF s, c, r
<1>4. /\ [state |-> s, checkpoints |-> c, redo |-> r] \in [state : State, checkpoints : Seq(Shas), redo : Seq(Shas)]
      /\ [state |-> s, checkpoints |-> c, redo |-> r].redo = r
      /\ [state |-> s, checkpoints |-> c, redo |-> r].checkpoints = c
  BY <1>3
<1>5. saved' = [state |-> s, checkpoints |-> c, redo |-> r]
  BY <1>2 DEF s, c, r
<1> QED BY <1>3, <1>4, <1>5 DEF SavedType

\* Every step writes the whole file or leaves it alone.
LEMMA NextSaved ==
    ASSUME TypeOK, MachType, JobType, SavedType, [Next]_vars
    PROVE  SavedType'
<1> USE DEF work, trees, fixes
<1>0. persistState \/ saved' = saved => SavedType'
  <2>1. MachType' /\ StackType'
    BY NextMach, NextStacks
  <2>2. CASE persistState
    BY <2>1, <2>2, PersistType
  <2>3. CASE saved' = saved
    BY <2>3 DEF SavedType
  <2> QED BY <2>2, <2>3
<1>1. CASE Undo \/ Redo \/ CreateCheckpoint \/ Stop \/ Review \/ Submit \/ CIFixCommit \/
      CIFixRecord \/ Crash
  BY <1>1, <1>0 DEF Undo, Reset, Redo, CreateCheckpoint, Commit, Stop, Review, Submit,
     CIFixCommit, CIFixRecord, Crash
<1>2. ASSUME NEW j \in Jobs, PreJobCheckpoint(j) \/ AgentCommit(j) \/ JobCompleted(j) \/
      JobFailed(j) \/ JobAgain(j) \/ JobEnds(j) \/ JobSilent(j) PROVE SavedType'
  BY <1>2, <1>0 DEF PreJobCheckpoint, CommitChanges, Commit, Step, AgentCommit, JobCompleted,
     CaptureHead, JobFailed, JobAgain, JobEnds, JobSilent
<1>3. ASSUME NEW i \in DOMAIN checkpoints, GotoCheckpoint(i) PROVE SavedType'
  BY <1>3, <1>0 DEF GotoCheckpoint, Reset
<1>4. ASSUME NEW t \in Trees, Edit(t) PROVE SavedType'
  BY <1>4, <1>0 DEF Edit
<1>5. ASSUME NEW j \in Jobs, NEW e \in Phases, StartPhase(j, e) PROVE SavedType'
  BY <1>5, <1>0 DEF StartPhase
<1>6. CASE UNCHANGED vars
  BY <1>6, <1>0 DEF vars
<1>7. ASSUME NEW j \in Jobs, LaunchPhase(j) \/ PhaseRolledBack(j) \/ AgainRefused(j) PROVE SavedType'
  BY <1>7, <1>0 DEF LaunchPhase, PhaseRolledBack, AgainRefused
<1>8. ASSUME NEW e \in Phases, PhaseRejected(e) \/ \E j \in Jobs : PhaseAgain(j, e) PROVE SavedType'
  BY <1>8, <1>0 DEF PhaseRejected, PhaseAgain
<1> QED
  BY <1>1, <1>2, <1>3, <1>4, <1>5, <1>6, <1>7, <1>8 DEF Next

-----------------------------------------------------------------------------
(* The properties.                                                         *)

LEMMA PersistEnds ==
    ASSUME persistState
    PROVE  EndedIsSaved'
  BY DEF persistState, EndedIsSaved, Snapshot

\* A step that changes nothing EndedIsSaved speaks of.
LEMMA UnchangedEnds ==
    ASSUME EndedIsSaved, UNCHANGED <<checkpoints, redo, job, silent, saved>>
    PROVE  EndedIsSaved'
  BY DEF EndedIsSaved

\* A goroutine that goes on watching its job has not ended.
LEMMA WatchedEnds ==
    ASSUME JobType, NEW j \in Jobs, NEW pc \in Watching, Step(j, pc)
    PROVE  EndedIsSaved'
<1>1. job'[j].pc = pc
  BY DEF JobType, Step
<1> QED BY <1>1 DEF EndedIsSaved

\* Nor does a phase that is entered or left disturb it, before its goroutine watches.
LEMMA UnwatchedEnds ==
    ASSUME JobType, EndedIsSaved, UNCHANGED <<checkpoints, redo, silent, saved>>,
           NEW j \in Jobs, job[j].pc \notin Watching, \A k \in Jobs \ {j} : job'[k] = job[k]
    PROVE  EndedIsSaved'
  BY DEF EndedIsSaved

\* The file is written whenever the last goroutine ends with a verdict.
LEMMA NextEnded ==
    ASSUME TypeOK, JobType, SavedType, EndedIsSaved, [Next]_vars
    PROVE  EndedIsSaved'
<1> USE DEF work, trees, fixes
<1>1. CASE Undo
  BY <1>1, PersistEnds, UnchangedEnds DEF Undo
<1>2. CASE Redo
  BY <1>2, PersistEnds, UnchangedEnds DEF Redo
<1>3. CASE CreateCheckpoint
  BY <1>3, PersistEnds DEF CreateCheckpoint
<1>4. CASE Stop
  BY <1>4, PersistEnds DEF Stop
<1>5. CASE Review
  BY <1>5, PersistEnds DEF Review
<1>6. CASE Submit
  BY <1>6, PersistEnds DEF Submit
<1>7. CASE CIFixCommit
  BY <1>7, UnchangedEnds DEF CIFixCommit
<1>8. CASE CIFixRecord
  BY <1>8, PersistEnds DEF CIFixRecord
<1>9. CASE Crash
  BY <1>9 DEF Crash, EndedIsSaved
<1>10. ASSUME NEW i \in DOMAIN checkpoints, GotoCheckpoint(i) PROVE EndedIsSaved'
  BY <1>10, PersistEnds DEF GotoCheckpoint
<1>11. ASSUME NEW t \in Trees, Edit(t) PROVE EndedIsSaved'
  BY <1>11, UnchangedEnds DEF Edit
<1>12. ASSUME NEW j \in Jobs, PreJobCheckpoint(j) PROVE EndedIsSaved'
  BY <1>12, WatchedEnds DEF PreJobCheckpoint, Watching
<1>13. ASSUME NEW j \in Jobs, AgentCommit(j) PROVE EndedIsSaved'
  BY <1>13, UnchangedEnds DEF AgentCommit
<1>14. ASSUME NEW j \in Jobs, JobCompleted(j) PROVE EndedIsSaved'
  BY <1>14, WatchedEnds DEF JobCompleted, Watching
<1>15. ASSUME NEW j \in Jobs, JobFailed(j) PROVE EndedIsSaved'
  BY <1>15, WatchedEnds DEF JobFailed, Watching
<1>16. ASSUME NEW j \in Jobs, JobAgain(j) PROVE EndedIsSaved'
  BY <1>16 DEF JobAgain, EndedIsSaved
<1>17. ASSUME NEW j \in Jobs, JobEnds(j) PROVE EndedIsSaved'
  BY <1>17, PersistEnds DEF JobEnds
<1>18. ASSUME NEW j \in Jobs, JobSilent(j) PROVE EndedIsSaved'
  BY <1>18 DEF JobSilent, EndedIsSaved
<1>19. ASSUME NEW j \in Jobs, NEW e \in Phases, StartPhase(j, e) PROVE EndedIsSaved'
  <2>1. job[j].pc = "none"
    <3>1. job[j] = NoJob BY <1>19, Zenon DEF StartPhase
    <3> QED BY <3>1 DEF NoJob
  <2>2. \A k \in Jobs \ {j} : job'[k] = job[k]
    BY <1>19, Zenon DEF StartPhase, JobType
  <2> QED BY <1>19, <2>1, <2>2, UnwatchedEnds DEF StartPhase, Watching
<1>20. CASE UNCHANGED vars
  BY <1>20, UnchangedEnds DEF vars
<1>21. ASSUME NEW j \in Jobs, LaunchPhase(j) PROVE EndedIsSaved'
  BY <1>21, PersistEnds DEF LaunchPhase
<1>22. ASSUME NEW j \in Jobs, PhaseRolledBack(j) PROVE EndedIsSaved'
  BY <1>22, UnwatchedEnds DEF PhaseRolledBack, JobType, Watching
<1>23. ASSUME NEW j \in Jobs, AgainRefused(j) PROVE EndedIsSaved'
  BY <1>23, UnwatchedEnds DEF AgainRefused, JobType, Watching
<1>24. ASSUME NEW j \in Jobs, NEW e \in Phases, PhaseAgain(j, e) PROVE EndedIsSaved'
  <2>1. job[j].pc = "again"
    BY <1>24 DEF PhaseAgain
  <2>2. \A k \in Jobs \ {j} : job'[k] = job[k]
    BY <1>24, Zenon DEF PhaseAgain, Step, JobType
  <2> QED BY <1>24, <2>1, <2>2, UnwatchedEnds DEF PhaseAgain, Watching
<1>25. ASSUME NEW e \in Phases, PhaseRejected(e) PROVE EndedIsSaved'
  BY <1>25, UnchangedEnds DEF PhaseRejected
<1> QED
  BY <1>1, <1>2, <1>3, <1>4, <1>5, <1>6, <1>7, <1>8, <1>9, <1>10, <1>11, <1>12, <1>13, <1>14, <1>15,
     <1>16, <1>17, <1>18, <1>19, <1>20, <1>21, <1>22, <1>23, <1>24, <1>25 DEF Next

LEMMA InitInv == Init => CheckpointsInv
<1> SUFFICES ASSUME Init PROVE CheckpointsInv
  OBVIOUS
<1>1. MachType
  BY NewMachineType DEF Init, MachType, State, Stable, Active, InProgress
<1>2. mach.state \in State
  BY <1>1 DEF MachType, Machine
<1>3. 0 \in 0..MaxCommits /\ isolated \in BOOLEAN
  BY CheckpointsAssumption DEF Init
<1>4. JobType
  BY DEF Init, JobType, NoJob
<1>5. checkpoints \in Seq(0..MaxCommits) /\ redo \in Seq(0..MaxCommits)
  BY DEF Init
<1>6. head \in [Trees -> 0..MaxCommits] /\ commits \in 0..MaxCommits
  BY <1>3 DEF Init
<1>7. dirty \in [Trees -> BOOLEAN]
  BY Zenon DEF Init
<1>8. TypeOK
  BY <1>2, <1>3, <1>4, <1>5, <1>6, <1>7 DEF Init, TypeOK, JobType
<1>9. saved = [state |-> mach.state, checkpoints |-> <<>>, redo |-> <<>>] /\ <<>> \in Seq(Shas)
  BY DEF Init, Snapshot
<1>10. SavedType
  BY <1>2, <1>9 DEF SavedType
<1>11. EndedIsSaved
  BY <1>9 DEF Init, EndedIsSaved
<1> QED BY <1>1, <1>4, <1>8, <1>10, <1>11 DEF CheckpointsInv

LEMMA NextInv == CheckpointsInv /\ [Next]_vars => CheckpointsInv'
  BY NextType, NextMach, NextJob, NextSaved, NextEnded DEF CheckpointsInv

LEMMA CheckpointsInvariant == Spec => []CheckpointsInv
  BY InitInv, NextInv, PTL DEF Spec

\* Undo, redo, goto and the checkpoints of any number of goroutines keep the two
\* stacks stacks of commits that were made, in conductor_lifecycle.go and
\* conductor_job.go; and the redo stack is never left without a checkpoint that
\* something was undone to.
THEOREM TypeCorrect == Spec => []TypeOK
  BY CheckpointsInvariant, PTL DEF CheckpointsInv

\* Whenever nobody watches a job, the task's file has both stacks as they are in
\* memory (watchJob, persistState), however many jobs overlapped and whatever
\* navigation, stop or rollback overtook them, unless a goroutine has left
\* without saving since: a stream without a verdict, a phase to be called again.
THEOREM EndedJobsAreSaved == Spec => []EndedIsSaved
  BY CheckpointsInvariant, PTL DEF CheckpointsInv

\* What NavigationKeepsTimeline says of a step.
KeepsTimeline ==
  OnlyNavigates =>
    /\ Timeline' = Timeline
    /\ checkpoints' # checkpoints /\ ~isolated => head'["main"] = Last(checkpoints')

\* Navigation moves checkpoints between the stacks; every other step either
\* leaves the stacks alone or is no navigation.
LEMMA NextTimeline ==
    ASSUME TypeOK, JobType, [Next]_vars
    PROVE  KeepsTimeline
<1> USE DEF work, trees, fixes
<1>1. CASE Undo
  <2>1. Undoable /\ head'["main"] = Previous
    BY <1>1 DEF Undo, Reset, TypeOK, Trees
  <2>2. CASE checkpoints' = Front(checkpoints) /\ redo' = Append(redo, Last(checkpoints))
    <3>1. checkpoints \in Seq(Shas) /\ redo \in Seq(Shas)
      BY DEF TypeOK, Shas
    <3>2. checkpoints # <<>> /\ Previous = Last(Front(checkpoints))
      BY <2>1, StackTypes
    <3>3. Timeline' = Timeline
      BY <2>2, <3>1, <3>2, UndoTimeline, Zenon DEF Timeline
    <3> QED BY <2>1, <2>2, <3>2, <3>3 DEF KeepsTimeline
  <2>3. CASE UNCHANGED work
    BY <2>3 DEF KeepsTimeline, Timeline
  <2> QED BY <1>1, <2>2, <2>3 DEF Undo
<1>2. CASE Redo
  <2>1. redo # <<>> /\ head'["main"] = Last(redo)
    BY <1>2 DEF Redo, Reset, TypeOK, Trees
  <2>2. CASE checkpoints' = Append(checkpoints, Last(redo)) /\ redo' = Front(redo)
    <3>1. checkpoints \in Seq(Shas) /\ redo \in Seq(Shas)
      BY DEF TypeOK, Shas
    <3>2. Timeline' = Timeline
      BY <2>1, <2>2, <3>1, RedoTimeline, Zenon DEF Timeline
    <3>3. Last(redo) \in Shas
      BY <2>1, StackTypes
    <3>4. Last(checkpoints') = Last(redo)
      BY <2>2, <3>1, <3>3 DEF Last
    <3> QED BY <2>1, <3>2, <3>4 DEF KeepsTimeline
  <2>3. CASE UNCHANGED work
    BY <2>3 DEF KeepsTimeline, Timeline
  <2> QED BY <1>2, <2>2, <2>3 DEF Redo
<1>3. CASE CreateCheckpoint
  <2>1. commits' # commits
    BY <1>3 DEF CreateCheckpoint, Commit, TypeOK
  <2> QED BY <2>1 DEF KeepsTimeline, OnlyNavigates
<1>4. CASE Stop
  BY <1>4 DEF Stop, KeepsTimeline, Timeline
<1>5. CASE Review
  BY <1>5 DEF Review, KeepsTimeline, Timeline
<1>6. CASE Submit
  BY <1>6 DEF Submit, KeepsTimeline, Timeline
<1>7. CASE CIFixCommit
  BY <1>7 DEF CIFixCommit, KeepsTimeline, Timeline
<1>8. CASE CIFixRecord
  BY <1>8 DEF CIFixRecord, KeepsTimeline, OnlyNavigates
<1>9. CASE Crash
  BY <1>9 DEF KeepsTimeline, OnlyNavigates
<1>10. ASSUME NEW i \in DOMAIN checkpoints, GotoCheckpoint(i) PROVE KeepsTimeline
  <2>1. checkpoints \in Seq(Shas) /\ redo \in Seq(Shas)
    BY DEF TypeOK, Shas
  <2>2. i \in 1..Len(checkpoints)
    BY <2>1
  <2>3. /\ checkpoints' = SubSeq(checkpoints, 1, i) /\ head'["main"] = checkpoints[i]
        /\ redo' = redo \o Reverse(SubSeq(checkpoints, i + 1, Len(checkpoints)))
    BY <1>10 DEF GotoCheckpoint, Reset, Reversed, TypeOK, Trees
  <2>4. Timeline' = Timeline
    BY <2>1, <2>2, <2>3, GotoTimeline, Zenon DEF Timeline
  <2>5. Last(checkpoints') = checkpoints[i]
    BY <2>1, <2>2, <2>3 DEF Last
  <2> QED BY <2>3, <2>4, <2>5 DEF KeepsTimeline
<1>11. ASSUME NEW t \in Trees, Edit(t) PROVE KeepsTimeline
  BY <1>11 DEF Edit, KeepsTimeline, Timeline
<1>12. ASSUME NEW j \in Jobs, PreJobCheckpoint(j) PROVE KeepsTimeline
  <2>1. job[j].pc # job'[j].pc
    BY <1>12 DEF PreJobCheckpoint, Step, JobType
  <2> QED BY <2>1 DEF KeepsTimeline, OnlyNavigates
<1>13. ASSUME NEW j \in Jobs, AgentCommit(j) PROVE KeepsTimeline
  BY <1>13 DEF AgentCommit, KeepsTimeline, Timeline
<1>14. ASSUME NEW j \in Jobs, JobCompleted(j) PROVE KeepsTimeline
  <2>1. job[j].pc # job'[j].pc
    BY <1>14 DEF JobCompleted, Step, JobType
  <2> QED BY <2>1 DEF KeepsTimeline, OnlyNavigates
<1>15. ASSUME NEW j \in Jobs, JobFailed(j) PROVE KeepsTimeline
  <2>1. job[j].pc # job'[j].pc
    BY <1>15 DEF JobFailed, Step, JobType
  <2> QED BY <2>1 DEF KeepsTimeline, OnlyNavigates
<1>16. ASSUME NEW j \in Jobs, JobAgain(j) PROVE KeepsTimeline
  BY <1>16 DEF JobAgain, KeepsTimeline, Timeline
<1>17. ASSUME NEW j \in Jobs, JobEnds(j) PROVE KeepsTimeline
  BY <1>17 DEF JobEnds, KeepsTimeline, Timeline
<1>18. ASSUME NEW j \in Jobs, JobSilent(j) PROVE KeepsTimeline
  BY <1>18 DEF JobSilent, KeepsTimeline, Timeline
<1>19. ASSUME NEW j \in Jobs, NEW e \in Phases, StartPhase(j, e) PROVE KeepsTimeline
  BY <1>19 DEF StartPhase, KeepsTimeline, Timeline
<1>20. CASE UNCHANGED vars
  BY <1>20 DEF vars, KeepsTimeline, Timeline
<1>21. ASSUME NEW j \in Jobs, LaunchPhase(j) PROVE KeepsTimeline
  <2>1. job[j].pc # job'[j].pc
    BY <1>21 DEF LaunchPhase, Step, JobType
  <2> QED BY <2>1 DEF KeepsTimeline, OnlyNavigates
<1>22. ASSUME NEW j \in Jobs, PhaseRolledBack(j) \/ AgainRefused(j) PROVE KeepsTimeline
  BY <1>22 DEF PhaseRolledBack, AgainRefused, KeepsTimeline, Timeline
<1>23. ASSUME NEW e \in Phases, PhaseRejected(e) \/ \E j \in Jobs : PhaseAgain(j, e) PROVE KeepsTimeline
  BY <1>23 DEF PhaseRejected, PhaseAgain, KeepsTimeline, Timeline
<1> QED
  BY <1>1, <1>2, <1>3, <1>4, <1>5, <1>6, <1>7, <1>8, <1>9, <1>10, <1>11, <1>12, <1>13, <1>14, <1>15,
     <1>16, <1>17, <1>18, <1>19, <1>20, <1>21, <1>22, <1>23 DEF Next

\* Undo, redo and checkpoint.goto, in any order and for stacks of any length,
\* forget no checkpoint and change no order (conductor_lifecycle.go), and leave
\* the project's tree at the checkpoint on top: the action property the run checks.
THEOREM TimelineIsKept == Spec => NavigationKeepsTimeline
<1>1. CheckpointsInv /\ [Next]_vars => [KeepsTimeline]_vars
  BY NextTimeline DEF CheckpointsInv
<1> QED
  BY <1>1, CheckpointsInvariant, PTL DEF Spec, NavigationKeepsTimeline, KeepsTimeline

=============================================================================
