------------------------- MODULE SocketServerProofs -------------------------
(***************************************************************************)
(* Proofs about SocketServer, for any number of server instances,          *)
(* connections and kills: the project lock, the daemon's map, the drain    *)
(* and the file at the socket path.                                        *)
(***************************************************************************)
EXTENDS SocketServer, TLAPS

\* Places of a Start whose deferred releaseLock has not run.
Holding == {"created", "clean", "refused", "listening", "tracking", "draining", "returned", "unmapped"}

\* The project lock is held by the one instance whose Start is on its way.
LockInv == \A i \in Inst : lock = i <=> start[i] \in Holding

\* The map has the instance that holds the lock, or none; only Unmap and the
\* end of the daemon take it out.
MapInv ==
  /\ wt # None => wt = lock /\ start[wt] # "unmapped"
  /\ lock # None /\ ~cancelled /\ start[lock] # "unmapped" => wt = lock

\* A connection is open only between Accept and the end of its handler, and an
\* instance that has accepted one does nothing else before it is tracked.
ConnInv ==
  /\ \A c \in Conns : pc[c] \in {"none", "closing", "done"} => ~alive[c]
  /\ \A c \in Conns : pc[c] = "accepted" => owner[c] \in Inst /\ start[owner[c]] = "tracking"
  /\ \A c, d \in Conns : pc[c] = "accepted" /\ pc[d] = "accepted" /\ owner[c] = owner[d] => c = d

\* Behind waitForDrain an instance does not accept again.
DrainInv == \A i \in drained : start[i] \in {"returned", "unmapped", "gone", "dead"}

\* An open listener belongs to a Start that accepts, or to one a failing Accept
\* has ended; behind Cleanup only the latter has a file at the path.
FileInv ==
  /\ \A i \in Inst : listener[i] = "open" => start[i] \in {"listening", "tracking"} \/ i \in broken
  /\ \A i \in Inst : start[i] = "clean" /\ file # None => broken # {}

ServerInv ==
  TypeOK /\ LockInv /\ MapInv /\ ConnInv /\ DrainInv /\ FileInv /\ ReturnedIsSilent /\ StaleFileNoObstacle

-----------------------------------------------------------------------------
\* The number that stands for nobody is not an instance.
LEMMA NoneIsNobody == None \notin Inst
  BY DEF Inst, None

LEMMA InitServer == Init => ServerInv
<1> SUFFICES ASSUME Init PROVE ServerInv
  OBVIOUS
<1>1. cancelled \in BOOLEAN /\ alive \in [Conns -> BOOLEAN]
  BY Zenon DEF Init
<1>2. kills \in 0..MaxKills
  BY ServerAssumption DEF Init
<1>3. TypeOK
  BY <1>1, <1>2 DEF Init, TypeOK
<1> QED
  BY <1>3, NoneIsNobody
     DEF Init, ServerInv, LockInv, MapInv, ConnInv, DrainInv, FileInv, ReturnedIsSilent,
         StaleFileNoObstacle, Holding

\* waitForDrain opens no connection and leaves none of the tracked ones open.
LEMMA DrainedCloses ==
    ASSUME NEW i \in Inst, alive \in [Conns -> BOOLEAN], Drained(i)
    PROVE  /\ alive' \in [Conns -> BOOLEAN]
           /\ \A c \in Conns : alive'[c] => alive[c] /\ c \notin Tracked(i)
<1>1. CASE Tracked(i) = {} /\ alive' = alive
  BY <1>1
<1>2. CASE alive' = AtDeadline(i)
  BY <1>2, Zenon DEF AtDeadline, ForceClosed
<1> QED
  BY <1>1, <1>2 DEF Drained

\* Every step keeps the types.
LEMMA NextType ==
    ASSUME TypeOK, LockInv, [Next]_vars
    PROVE  TypeOK'
<1> USE DEF TypeOK, LockInv, Holding, files, conns, ending, history
<1>1. ASSUME NEW i \in Inst, GetOrCreate(i) PROVE TypeOK'
  BY <1>1, NoneIsNobody DEF GetOrCreate
<1>2. ASSUME NEW i \in Inst, Cleanup(i) PROVE TypeOK'
  BY <1>2, NoneIsNobody DEF Cleanup, Answers
<1>3. ASSUME NEW i \in Inst, Listen(i) PROVE TypeOK'
  <2>1. file' \in Inst \cup {None} /\ listener' \in [Inst -> {"none", "open", "closed"}]
    BY <1>3 DEF Listen
  <2> QED BY <1>3, <2>1 DEF Listen
<1>4. ASSUME NEW i \in Inst, StartFails(i) PROVE TypeOK'
  BY <1>4, NoneIsNobody DEF StartFails
<1>5. ASSUME NEW i \in Inst, AcceptClosed(i) PROVE TypeOK'
  BY <1>5, NoneIsNobody DEF AcceptClosed
<1>6. ASSUME NEW i \in Inst, AcceptError(i) PROVE TypeOK'
  BY <1>6, NoneIsNobody DEF AcceptError
<1>7. ASSUME NEW i \in Inst, DrainStart(i) PROVE TypeOK'
  <2>1. alive' \in [Conns -> BOOLEAN]
    BY <1>7, DrainedCloses DEF DrainStart
  <2> QED BY <1>7, <2>1 DEF DrainStart
<1>8. ASSUME NEW i \in Inst, Unmap(i) PROVE TypeOK'
  BY <1>8, NoneIsNobody DEF Unmap
<1>9. ASSUME NEW i \in Inst, Release(i) PROVE TypeOK'
  BY <1>9, NoneIsNobody DEF Release
<1>10. ASSUME NEW i \in Inst, StopBegins(i) PROVE TypeOK'
  BY <1>10, NoneIsNobody DEF StopBegins, InitiateShutdown, CloseListener
<1>11. ASSUME NEW i \in Inst, StopDrained(i) PROVE TypeOK'
  <2>1. alive' \in [Conns -> BOOLEAN]
    BY <1>11, DrainedCloses DEF StopDrained
  <2> QED BY <1>11, <2>1 DEF StopDrained
<1>12. ASSUME NEW i \in Inst, StopRemoves(i) PROVE TypeOK'
  BY <1>12, NoneIsNobody DEF StopRemoves, ForceClosed, Tracked
<1>13. ASSUME NEW i \in Inst, ContextDone(i) PROVE TypeOK'
  BY <1>13, NoneIsNobody DEF ContextDone, InitiateShutdown, CloseListener
<1>14. ASSUME NEW i \in Inst, NEW c \in Conns, Accept(i, c) PROVE TypeOK'
  BY <1>14, NoneIsNobody DEF Accept
<1>15. ASSUME NEW i \in Inst, NEW c \in Conns, Track(i, c) PROVE TypeOK'
  BY <1>15, NoneIsNobody DEF Track
<1>16. ASSUME NEW c \in Conns, Untrack(c) PROVE TypeOK'
  BY <1>16, NoneIsNobody DEF Untrack
<1>17. ASSUME NEW c \in Conns, Dispatch(c) PROVE TypeOK'
  BY <1>17, NoneIsNobody DEF Dispatch
<1>18. ASSUME NEW c \in Conns, Respond(c) PROVE TypeOK'
  BY <1>18, NoneIsNobody DEF Respond
<1>19. ASSUME NEW c \in Conns, HandlerReturns(c) PROVE TypeOK'
  BY <1>19, NoneIsNobody DEF HandlerReturns
<1>20. ASSUME NEW c \in Conns, HangUp(c) PROVE TypeOK'
  BY <1>20, NoneIsNobody DEF HangUp
<1>21. ASSUME NEW c \in Conns, ShutdownRequest(c) PROVE TypeOK'
  BY <1>21, NoneIsNobody DEF ShutdownRequest
<1>22. CASE GlobalStop
  BY <1>22, NoneIsNobody DEF GlobalStop
<1>23. CASE Kill
  <2>1. kills' \in 0..MaxKills
    BY <1>23, ServerAssumption DEF Kill
  <2>2. cancelled' \in BOOLEAN /\ alive' \in [Conns -> BOOLEAN]
    BY <1>23, Zenon DEF Kill, NewProcess
  <2> QED BY <1>23, <2>1, <2>2 DEF Kill, NewProcess
<1>24. CASE Exit
  BY <1>24, NoneIsNobody DEF Exit, NewProcess
<1>25. CASE UNCHANGED vars
  BY <1>25, NoneIsNobody DEF vars
<1>26. ASSUME NEW i \in Inst, StopInitiated(i) PROVE TypeOK'
  BY <1>26, NoneIsNobody DEF StopInitiated
<1>27. ASSUME NEW i \in Inst, NoticeLocks(i) PROVE TypeOK'
  <2>1. unsent' \in [Inst -> SUBSET Conns]
    BY <1>27 DEF NoticeLocks, Tracked
  <2> QED BY <1>27, <2>1, NoneIsNobody DEF NoticeLocks
<1>28. ASSUME NEW i \in Inst, NoticeUnlocks(i) PROVE TypeOK'
  BY <1>28, NoneIsNobody DEF NoticeUnlocks
<1>29. ASSUME NEW i \in Inst, NEW c \in Conns, NoticeWrites(i, c) PROVE TypeOK'
  BY <1>29, NoneIsNobody DEF NoticeWrites
<1> QED
  BY <1>1, <1>2, <1>3, <1>4, <1>5, <1>6, <1>7, <1>8, <1>9, <1>10, <1>11, <1>12, <1>13, <1>14, <1>15,
     <1>16, <1>17, <1>18, <1>19, <1>20, <1>21, <1>22, <1>23, <1>24, <1>25,
     <1>26, <1>27, <1>28, <1>29 DEF Next

\* The lock follows the goroutine of Start.
LEMMA NextLock ==
    ASSUME TypeOK, LockInv, [Next]_vars
    PROVE  LockInv'
<1> USE DEF TypeOK, LockInv, Holding, files, conns, ending, history
<1>1. ASSUME NEW c \in Conns, Untrack(c) \/ Dispatch(c) \/ Respond(c) \/ HandlerReturns(c) \/ HangUp(c)
      \/ ShutdownRequest(c) PROVE LockInv'
  BY <1>1, NoneIsNobody DEF Untrack, Dispatch, Respond, HandlerReturns, HangUp, ShutdownRequest
<1>2. ASSUME NEW i \in Inst, StopBegins(i) \/ StopDrained(i) \/ StopRemoves(i) \/ ContextDone(i)
      PROVE LockInv'
  BY <1>2, NoneIsNobody DEF StopBegins, InitiateShutdown, CloseListener, StopDrained, Drained,
     AtDeadline, ForceClosed, Tracked, StopRemoves, ContextDone
<1>3. CASE GlobalStop \/ UNCHANGED vars
  BY <1>3, NoneIsNobody DEF GlobalStop, vars
<1>4. ASSUME NEW i \in Inst, Cleanup(i) \/ Listen(i) \/ StartFails(i) \/ AcceptClosed(i) \/
      AcceptError(i) \/ DrainStart(i) \/ Unmap(i) PROVE LockInv'
  BY <1>4, NoneIsNobody DEF Cleanup, Answers, Listen, StartFails, AcceptClosed, AcceptError,
     DrainStart, Drained, AtDeadline, ForceClosed, Tracked, Unmap
<1>5. ASSUME NEW i \in Inst, NEW c \in Conns, Accept(i, c) \/ Track(i, c) PROVE LockInv'
  BY <1>5, NoneIsNobody DEF Accept, Track
<1>6. CASE Kill \/ Exit
  BY <1>6, NoneIsNobody DEF Kill, NewProcess, Exit
<1>7. ASSUME NEW i \in Inst, GetOrCreate(i) PROVE LockInv'
  BY <1>7, NoneIsNobody DEF GetOrCreate
<1>8. ASSUME NEW i \in Inst, Release(i) PROVE LockInv'
  BY <1>8, NoneIsNobody DEF Release
<1>9. ASSUME NEW i \in Inst, StopInitiated(i) \/ NoticeLocks(i) \/ NoticeUnlocks(i) \/
      \E c \in Conns : NoticeWrites(i, c) PROVE LockInv'
  BY <1>9, NoneIsNobody DEF StopInitiated, NoticeLocks, NoticeUnlocks, NoticeWrites
<1> QED
  BY <1>1, <1>2, <1>3, <1>4, <1>5, <1>6, <1>7, <1>8, <1>9 DEF Next

\* Only the instance that holds the lock enters the map and is taken out of it.
LEMMA NextMap ==
    ASSUME TypeOK, LockInv, MapInv, [Next]_vars
    PROVE  MapInv'
<1> USE DEF TypeOK, LockInv, MapInv, Holding, files, conns, ending, history
<1>1. ASSUME NEW c \in Conns, Untrack(c) \/ Dispatch(c) \/ Respond(c) \/ HandlerReturns(c) \/ HangUp(c)
      \/ ShutdownRequest(c) PROVE MapInv'
  BY <1>1, NoneIsNobody DEF Untrack, Dispatch, Respond, HandlerReturns, HangUp, ShutdownRequest
<1>2. ASSUME NEW i \in Inst, StopBegins(i) \/ StopDrained(i) \/ StopRemoves(i) \/ ContextDone(i)
      PROVE MapInv'
  BY <1>2, NoneIsNobody DEF StopBegins, InitiateShutdown, CloseListener, StopDrained, Drained,
     AtDeadline, ForceClosed, Tracked, StopRemoves, ContextDone
<1>3. CASE UNCHANGED vars
  BY <1>3, NoneIsNobody DEF vars
<1>4. ASSUME NEW i \in Inst, Cleanup(i) \/ Listen(i) \/ StartFails(i) \/ AcceptClosed(i) \/
      AcceptError(i) \/ DrainStart(i) PROVE MapInv'
  BY <1>4, NoneIsNobody DEF Cleanup, Answers, Listen, StartFails, AcceptClosed, AcceptError,
     DrainStart, Drained, AtDeadline, ForceClosed, Tracked
<1>5. ASSUME NEW i \in Inst, NEW c \in Conns, Accept(i, c) \/ Track(i, c) PROVE MapInv'
  BY <1>5, NoneIsNobody DEF Accept, Track
<1>6. CASE Kill \/ Exit
  BY <1>6, NoneIsNobody DEF Kill, NewProcess, Exit
<1>7. ASSUME NEW i \in Inst, GetOrCreate(i) PROVE MapInv'
  BY <1>7, NoneIsNobody DEF GetOrCreate
<1>8. ASSUME NEW i \in Inst, Unmap(i) PROVE MapInv'
  BY <1>8, NoneIsNobody DEF Unmap
<1>9. ASSUME NEW i \in Inst, Release(i) PROVE MapInv'
  BY <1>9, NoneIsNobody DEF Release
<1>10. CASE GlobalStop
  BY <1>10, NoneIsNobody DEF GlobalStop
<1>11. ASSUME NEW i \in Inst, StopInitiated(i) \/ NoticeLocks(i) \/ NoticeUnlocks(i) \/
      \E c \in Conns : NoticeWrites(i, c) PROVE MapInv'
  BY <1>11, NoneIsNobody DEF StopInitiated, NoticeLocks, NoticeUnlocks, NoticeWrites
<1> QED
  BY <1>1, <1>2, <1>3, <1>4, <1>5, <1>6, <1>7, <1>8, <1>9, <1>10, <1>11 DEF Next

\* Connections are open only while an instance or a handler has them.
LEMMA NextConn ==
    ASSUME TypeOK, ConnInv, [Next]_vars
    PROVE  ConnInv'
<1> USE DEF TypeOK, ConnInv, files, conns, ending, history
<1>1. ASSUME NEW i \in Inst, StopBegins(i) \/ ContextDone(i) PROVE ConnInv'
  BY <1>1, NoneIsNobody DEF StopBegins, InitiateShutdown, CloseListener, ContextDone
<1>2. CASE GlobalStop \/ UNCHANGED vars
  BY <1>2, NoneIsNobody DEF GlobalStop, vars
<1>3. ASSUME NEW i \in Inst, Cleanup(i) \/ Listen(i) \/ StartFails(i) \/ AcceptClosed(i) \/
      AcceptError(i) \/ Unmap(i) \/ Release(i) PROVE ConnInv'
  BY <1>3, NoneIsNobody DEF Cleanup, Answers, Listen, StartFails, AcceptClosed, AcceptError, Unmap,
     Release
<1>4. ASSUME NEW i \in Inst, StopDrained(i) \/ StopRemoves(i) PROVE ConnInv'
  BY <1>4, NoneIsNobody DEF StopDrained, Drained, AtDeadline, ForceClosed, Tracked, StopRemoves
<1>5. ASSUME NEW c \in Conns, Dispatch(c) \/ Respond(c) \/ Untrack(c) \/ HangUp(c) \/
      ShutdownRequest(c) PROVE ConnInv'
  BY <1>5, NoneIsNobody DEF Dispatch, Respond, Untrack, HangUp, ShutdownRequest
<1>6. CASE Kill \/ Exit
  BY <1>6, NoneIsNobody DEF Kill, NewProcess, Exit
<1>7. ASSUME NEW i \in Inst, GetOrCreate(i) PROVE ConnInv'
  BY <1>7, NoneIsNobody DEF GetOrCreate
<1>8. ASSUME NEW i \in Inst, DrainStart(i) PROVE ConnInv'
  BY <1>8, NoneIsNobody DEF DrainStart, Drained, AtDeadline, ForceClosed, Tracked
<1>9. ASSUME NEW i \in Inst, NEW c \in Conns, Accept(i, c) PROVE ConnInv'
  BY <1>9, NoneIsNobody DEF Accept
<1>10. ASSUME NEW i \in Inst, NEW c \in Conns, Track(i, c) PROVE ConnInv'
  BY <1>10, NoneIsNobody DEF Track
<1>11. ASSUME NEW c \in Conns, HandlerReturns(c) PROVE ConnInv'
  BY <1>11, NoneIsNobody DEF HandlerReturns
<1>12. ASSUME NEW i \in Inst, StopInitiated(i) \/ NoticeLocks(i) \/ NoticeUnlocks(i) \/
      \E c \in Conns : NoticeWrites(i, c) PROVE ConnInv'
  BY <1>12, NoneIsNobody DEF StopInitiated, NoticeLocks, NoticeUnlocks, NoticeWrites
<1> QED
  BY <1>1, <1>2, <1>3, <1>4, <1>5, <1>6, <1>7, <1>8, <1>9, <1>10, <1>11, <1>12 DEF Next

\* A drained instance stays behind its Accept loop.
LEMMA NextDrain ==
    ASSUME TypeOK, DrainInv, [Next]_vars
    PROVE  DrainInv'
<1> USE DEF TypeOK, DrainInv, files, conns, ending, history
<1>1. ASSUME NEW c \in Conns, Untrack(c) \/ Dispatch(c) \/ Respond(c) \/ HandlerReturns(c) \/ HangUp(c)
      \/ ShutdownRequest(c) PROVE DrainInv'
  BY <1>1 DEF Untrack, Dispatch, Respond, HandlerReturns, HangUp, ShutdownRequest
<1>2. ASSUME NEW i \in Inst, StopBegins(i) \/ StopDrained(i) \/ StopRemoves(i) \/ ContextDone(i)
      PROVE DrainInv'
  BY <1>2 DEF StopBegins, InitiateShutdown, CloseListener, StopDrained, Drained, AtDeadline,
     ForceClosed, Tracked, StopRemoves, ContextDone
<1>3. CASE GlobalStop \/ UNCHANGED vars
  BY <1>3 DEF GlobalStop, vars
<1>4. ASSUME NEW i \in Inst, Cleanup(i) \/ Listen(i) \/ StartFails(i) \/ AcceptClosed(i) \/
      AcceptError(i) \/ Unmap(i) \/ Release(i) PROVE DrainInv'
  BY <1>4 DEF Cleanup, Answers, Listen, StartFails, AcceptClosed, AcceptError, Unmap, Release
<1>5. ASSUME NEW i \in Inst, NEW c \in Conns, Accept(i, c) \/ Track(i, c) PROVE DrainInv'
  BY <1>5 DEF Accept, Track
<1>6. CASE Kill \/ Exit
  BY <1>6 DEF Kill, NewProcess, Exit
<1>7. ASSUME NEW i \in Inst, GetOrCreate(i) PROVE DrainInv'
  BY <1>7 DEF GetOrCreate
<1>8. ASSUME NEW i \in Inst, DrainStart(i) PROVE DrainInv'
  BY <1>8 DEF DrainStart, Drained, AtDeadline, ForceClosed, Tracked
<1>9. ASSUME NEW i \in Inst, StopInitiated(i) \/ NoticeLocks(i) \/ NoticeUnlocks(i) \/
      \E c \in Conns : NoticeWrites(i, c) PROVE DrainInv'
  BY <1>9 DEF StopInitiated, NoticeLocks, NoticeUnlocks, NoticeWrites
<1> QED
  BY <1>1, <1>2, <1>3, <1>4, <1>5, <1>6, <1>7, <1>8, <1>9 DEF Next

\* Nothing opens a connection of a drained instance again.
LEMMA NextSilent ==
    ASSUME TypeOK, ConnInv, DrainInv, ReturnedIsSilent, [Next]_vars
    PROVE  ReturnedIsSilent'
<1> USE DEF TypeOK, ReturnedIsSilent, files, conns, ending, history
<1>1. ASSUME NEW i \in Inst, GetOrCreate(i) \/ Cleanup(i) \/ Listen(i) \/ StartFails(i) \/
      AcceptClosed(i) \/ AcceptError(i) \/ Unmap(i) \/ Release(i) PROVE ReturnedIsSilent'
  BY <1>1 DEF GetOrCreate, Cleanup, Answers, Listen, StartFails, AcceptClosed, AcceptError, Unmap,
     Release
<1>2. CASE GlobalStop \/ UNCHANGED vars
  BY <1>2 DEF GlobalStop, vars
<1>3. ASSUME NEW i \in Inst, StopBegins(i) \/ ContextDone(i) PROVE ReturnedIsSilent'
  BY <1>3 DEF StopBegins, InitiateShutdown, CloseListener, ContextDone
<1>4. ASSUME NEW i \in Inst, StopDrained(i) \/ StopRemoves(i) PROVE ReturnedIsSilent'
  BY <1>4 DEF StopDrained, Drained, AtDeadline, ForceClosed, Tracked, StopRemoves
<1>5. ASSUME NEW c \in Conns, Untrack(c) \/ Dispatch(c) \/ Respond(c) \/ HandlerReturns(c) \/ HangUp(c)
      \/ ShutdownRequest(c) PROVE ReturnedIsSilent'
  BY <1>5 DEF Untrack, Dispatch, Respond, HandlerReturns, HangUp, ShutdownRequest
<1>6. CASE Kill \/ Exit
  BY <1>6 DEF Kill, NewProcess, Exit
<1>7. ASSUME NEW i \in Inst, DrainStart(i) PROVE ReturnedIsSilent'
  <2>1. \A c \in Conns : alive'[c] => alive[c] /\ c \notin Tracked(i)
    BY <1>7, DrainedCloses DEF DrainStart
  <2>2. \A c \in Conns : owner[c] = i => ~alive'[c]
    BY <1>7, <2>1 DEF DrainStart, ConnInv, Tracked
  <2> QED BY <1>7, <2>1, <2>2 DEF DrainStart
<1>8. ASSUME NEW i \in Inst, NEW c \in Conns, Accept(i, c) PROVE ReturnedIsSilent'
  BY <1>8 DEF Accept, DrainInv
<1>9. ASSUME NEW i \in Inst, NEW c \in Conns, Track(i, c) PROVE ReturnedIsSilent'
  BY <1>9 DEF Track
<1>10. ASSUME NEW i \in Inst, StopInitiated(i) \/ NoticeLocks(i) \/ NoticeUnlocks(i) \/
      \E c \in Conns : NoticeWrites(i, c) PROVE ReturnedIsSilent'
  BY <1>10 DEF StopInitiated, NoticeLocks, NoticeUnlocks, NoticeWrites
<1> QED
  BY <1>1, <1>2, <1>3, <1>4, <1>5, <1>6, <1>7, <1>8, <1>9, <1>10 DEF Next

\* A file that stays behind Cleanup is that of a broken instance.
LEMMA NextFile ==
    ASSUME TypeOK, LockInv, FileInv, [Next]_vars
    PROVE  FileInv'
<1> USE DEF TypeOK, LockInv, FileInv, Holding, files, conns, ending, history
<1>1. ASSUME NEW i \in Inst, DrainStart(i) \/ StartFails(i) \/ AcceptClosed(i) \/ AcceptError(i) \/
      Unmap(i) \/ Release(i) \/ StopDrained(i) PROVE FileInv'
  BY <1>1, NoneIsNobody DEF DrainStart, Drained, AtDeadline, ForceClosed, Tracked, StartFails,
     AcceptClosed, AcceptError, Unmap, Release, StopDrained
<1>2. CASE GlobalStop \/ UNCHANGED vars
  BY <1>2, NoneIsNobody DEF GlobalStop, vars
<1>3. ASSUME NEW c \in Conns, Untrack(c) \/ Dispatch(c) \/ Respond(c) \/ HandlerReturns(c) \/ HangUp(c)
      \/ ShutdownRequest(c) PROVE FileInv'
  BY <1>3, NoneIsNobody DEF Untrack, Dispatch, Respond, HandlerReturns, HangUp, ShutdownRequest
<1>4. ASSUME NEW i \in Inst, StopBegins(i) \/ ContextDone(i) PROVE FileInv'
  BY <1>4, NoneIsNobody DEF StopBegins, InitiateShutdown, CloseListener, ContextDone
<1>5. ASSUME NEW i \in Inst, NEW c \in Conns, Accept(i, c) \/ Track(i, c) PROVE FileInv'
  BY <1>5, NoneIsNobody DEF Accept, Track
<1>6. CASE Kill \/ Exit
  BY <1>6, NoneIsNobody DEF Kill, NewProcess, Exit
<1>7. ASSUME NEW i \in Inst, GetOrCreate(i) PROVE FileInv'
  BY <1>7, NoneIsNobody DEF GetOrCreate
<1>8. ASSUME NEW i \in Inst, Cleanup(i) PROVE FileInv'
  BY <1>8, NoneIsNobody DEF Cleanup, Answers
<1>9. ASSUME NEW i \in Inst, Listen(i) PROVE FileInv'
  BY <1>9, NoneIsNobody DEF Listen
<1>10. ASSUME NEW i \in Inst, StopRemoves(i) PROVE FileInv'
  BY <1>10, NoneIsNobody DEF StopRemoves, ForceClosed, Tracked
<1>11. ASSUME NEW i \in Inst, StopInitiated(i) \/ NoticeLocks(i) \/ NoticeUnlocks(i) \/
      \E c \in Conns : NoticeWrites(i, c) PROVE FileInv'
  BY <1>11, NoneIsNobody DEF StopInitiated, NoticeLocks, NoticeUnlocks, NoticeWrites
<1> QED
  BY <1>1, <1>2, <1>3, <1>4, <1>5, <1>6, <1>7, <1>8, <1>9, <1>10, <1>11 DEF Next

\* net.Listen is refused only behind a broken instance.
LEMMA NextRefused ==
    ASSUME TypeOK, FileInv, StaleFileNoObstacle, [Next]_vars
    PROVE  StaleFileNoObstacle'
<1> USE DEF TypeOK, StaleFileNoObstacle, files, conns, ending, history
<1>1. ASSUME NEW i \in Inst, GetOrCreate(i) \/ Cleanup(i) \/ StartFails(i) \/ DrainStart(i) \/
      AcceptClosed(i) \/ AcceptError(i) \/ Unmap(i) \/ Release(i) PROVE StaleFileNoObstacle'
  BY <1>1 DEF GetOrCreate, Cleanup, Answers, StartFails, DrainStart, Drained, AtDeadline,
     ForceClosed, Tracked, AcceptClosed, AcceptError, Unmap, Release
<1>2. CASE GlobalStop \/ UNCHANGED vars
  BY <1>2 DEF GlobalStop, vars
<1>3. ASSUME NEW c \in Conns, Untrack(c) \/ Dispatch(c) \/ Respond(c) \/ HandlerReturns(c) \/ HangUp(c)
      \/ ShutdownRequest(c) PROVE StaleFileNoObstacle'
  BY <1>3 DEF Untrack, Dispatch, Respond, HandlerReturns, HangUp, ShutdownRequest
<1>4. ASSUME NEW i \in Inst, StopBegins(i) \/ StopDrained(i) \/ StopRemoves(i) \/ ContextDone(i)
      PROVE StaleFileNoObstacle'
  BY <1>4 DEF StopBegins, InitiateShutdown, CloseListener, StopDrained, Drained, AtDeadline,
     ForceClosed, Tracked, StopRemoves, ContextDone
<1>5. ASSUME NEW i \in Inst, NEW c \in Conns, Accept(i, c) \/ Track(i, c) PROVE StaleFileNoObstacle'
  BY <1>5 DEF Accept, Track
<1>6. CASE Kill \/ Exit
  BY <1>6 DEF Kill, NewProcess, Exit
<1>7. ASSUME NEW i \in Inst, Listen(i) PROVE StaleFileNoObstacle'
  BY <1>7 DEF Listen, FileInv
<1>8. ASSUME NEW i \in Inst, StopInitiated(i) \/ NoticeLocks(i) \/ NoticeUnlocks(i) \/
      \E c \in Conns : NoticeWrites(i, c) PROVE StaleFileNoObstacle'
  BY <1>8 DEF StopInitiated, NoticeLocks, NoticeUnlocks, NoticeWrites
<1> QED
  BY <1>1, <1>2, <1>3, <1>4, <1>5, <1>6, <1>7, <1>8 DEF Next

LEMMA ServerInvariant == Spec => []ServerInv
<1>1. ServerInv /\ [Next]_vars => ServerInv'
  BY NextType, NextLock, NextMap, NextConn, NextDrain, NextSilent, NextFile, NextRefused DEF ServerInv
<1> QED
  BY <1>1, InitServer, PTL DEF Spec

-----------------------------------------------------------------------------
\* The variables of the server keep their types, and the project lock is never
\* left with a goroutine that cannot release it (GetOrCreateWorktreeSocket).
THEOREM TypeCorrect == Spec => []TypeOK
<1>1. ServerInv => TypeOK
  BY DEF ServerInv
<1> QED
  BY <1>1, ServerInvariant, PTL

\* When Start has returned behind waitForDrain, every connection that server
\* ever accepted is closed: for any number of connections, also those accepted
\* while the shutdown was under way (Server.Start, waitForDrain, forceCloseAll).
THEOREM DrainedServerIsSilent == Spec => []ReturnedIsSilent
<1>1. ServerInv => ReturnedIsSilent
  BY DEF ServerInv
<1> QED
  BY <1>1, ServerInvariant, PTL

\* A server that holds the project lock and serves is the one in the daemon's
\* map, whatever the end of its predecessors removes (GetOrCreateWorktreeSocket).
THEOREM ServerIsMapped == Spec => []ServingIsMapped
<1>1. ServerInv => ServingIsMapped
  BY NoneIsNobody DEF ServerInv, TypeOK, MapInv, ServingIsMapped
<1> QED
  BY <1>1, ServerInvariant, PTL

\* However often the daemon is killed, the file it leaves never keeps the next
\* server from its path: only a listener that a failing Accept has left open
\* does (CleanupStaleSocket and net.Listen in Server.Start).
THEOREM OnlyBrokenBlocks == Spec => []StaleFileNoObstacle
<1>1. ServerInv => StaleFileNoObstacle
  BY DEF ServerInv
<1> QED
  BY <1>1, ServerInvariant, PTL
=============================================================================
