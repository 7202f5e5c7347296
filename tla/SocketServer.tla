---------------------------- MODULE SocketServer ----------------------------
(***************************************************************************)
(* The life of the server behind one socket path: Server.Start and Stop    *)
(* (internal/socket/server.go), created on demand under a project lock and *)
(* taken out of the daemon's map again by GetOrCreateWorktreeSocket        *)
(* (global_projects_util.go), stopped by the shutdown request or with the  *)
(* daemon (global.go).                                                     *)
(*                                                                         *)
(* Instances of the server follow one another on the same path.  Each has  *)
(* the goroutine that runs Start, one goroutine per connection and, once   *)
(* someone asks for it, the goroutine that runs Stop.                      *)
(***************************************************************************)
EXTENDS Naturals, FiniteSets

CONSTANTS
  MaxInst,    \* bound: instances of the server
  Conns,      \* connections of clients
  MaxKills    \* bound: times the daemon is killed

ASSUME ServerAssumption == MaxInst \in Nat /\ MaxKills \in Nat

Inst == 1..MaxInst
None == 0

VARIABLES
  wt,         \* g.wtSockets[id]
  lock,       \* the instance that holds the project's file lock
  file,       \* the instance whose listener the file at the socket path leads to
  start,      \* where the goroutine that runs Start is
  listener,   \* Server.listener
  shutdown,   \* how far initiateShutdown is; isShutdown and shutdownCh are set with "begun",
              \* connsMu is held while it is "writing"
  unsent,     \* the connections it has yet to write the shutdown notice to
  stop,       \* where the goroutine that runs Stop is
  pc,         \* where the handler of a connection is
  owner,      \* the instance that accepted it
  alive,      \* the connection is open
  cancelled,  \* the context of the daemon is done
  kills,
  drained,    \* history: instances whose Start has returned through waitForDrain
  broken      \* history: instances whose Start has returned from a failing Accept

files == <<wt, lock, file>>
conns == <<pc, owner, alive>>
ending == <<shutdown, unsent>>
history == <<drained, broken>>
vars == <<files, start, listener, ending, stop, conns, cancelled, kills, history>>

Init ==
  /\ wt = None /\ lock = None /\ file = None
  /\ start = [i \in Inst |-> "none"]
  /\ listener = [i \in Inst |-> "none"]
  /\ shutdown = [i \in Inst |-> "none"]
  /\ unsent = [i \in Inst |-> {}]
  /\ stop = [i \in Inst |-> "none"]
  /\ pc = [c \in Conns |-> "none"]
  /\ owner = [c \in Conns |-> None]
  /\ alive = [c \in Conns |-> FALSE]
  /\ cancelled = FALSE /\ kills = 0 /\ drained = {} /\ broken = {}

\* The connections an instance has tracked and not yet let go (Server.conns).
Tracked(i) == { c \in Conns : owner[c] = i /\ pc[c] \in {"scan", "dispatch", "closing"} }

\* Server.isShutdown.
IsShutdown(i) == shutdown[i] # "none"

\* Server.connsMu can be had; every other holder gives it back at once.
ConnsMuFree(i) == shutdown[i] # "writing"

-----------------------------------------------------------------------------
(* Start.                                                                  *)

\* GetOrCreateWorktreeSocket past the map and the lock.  A caller that finds an
\* entry gets that one; one that finds the lock taken gets an error.
GetOrCreate(i) ==
  /\ start[i] = "none" /\ \A k \in Inst : k < i => start[k] # "none"
  /\ wt = None /\ ~cancelled /\ lock = None
  /\ wt' = i /\ lock' = i
  /\ start' = [start EXCEPT ![i] = "created"]
  /\ UNCHANGED <<file, listener, ending, stop, conns, cancelled, kills, history>>

\* Someone accepts the connections made to the path.
Answers(i) == i # None /\ listener[i] = "open"

\* Mutant of Cleanup.
MutCleanup(i) ==
  /\ start[i] = "created"
  /\ start' = [start EXCEPT ![i] = "clean"]
  /\ UNCHANGED <<files, listener, ending, stop, conns, cancelled, kills, history>>

\* CleanupStaleSocket: a file nobody answers behind is removed.
Cleanup(i) ==
  /\ start[i] = "created"
  /\ start' = [start EXCEPT ![i] = "clean"]
  /\ file' = IF Answers(file) THEN file ELSE None
  /\ UNCHANGED <<wt, lock, listener, ending, stop, conns, cancelled, kills, history>>

\* net.Listen, which fails when there is a file at the path.
Listen(i) ==
  /\ start[i] = "clean"
  /\ \/ /\ file = None /\ file' = i
        /\ listener' = [listener EXCEPT ![i] = "open"]
        /\ start' = [start EXCEPT ![i] = "listening"]
     \/ /\ file # None
        /\ start' = [start EXCEPT ![i] = "refused"]
        /\ UNCHANGED <<file, listener>>
  /\ UNCHANGED <<wt, lock, ending, stop, conns, cancelled, kills, history>>

\* The directory, the stale file, the address or the mode of the file cannot be
\* had: Start returns, and a listener it opened is closed again.
StartFails(i) ==
  /\ start[i] \in {"created", "clean"}
  /\ start' = [start EXCEPT ![i] = "returned"]
  /\ UNCHANGED <<files, listener, ending, stop, conns, cancelled, kills, history>>

\* A client connects by the path and Accept returns,
Accept(i, c) ==
  /\ start[i] = "listening" /\ listener[i] = "open" /\ file = i /\ pc[c] = "none"
  /\ start' = [start EXCEPT ![i] = "tracking"]
  /\ pc' = [pc EXCEPT ![c] = "accepted"]
  /\ owner' = [owner EXCEPT ![c] = i]
  /\ alive' = [alive EXCEPT ![c] = TRUE]
  /\ UNCHANGED <<files, listener, ending, stop, cancelled, kills, history>>

\* the connection is tracked and its handler started.
Track(i, c) ==
  /\ start[i] = "tracking" /\ pc[c] = "accepted" /\ owner[c] = i /\ ConnsMuFree(i)
  /\ start' = [start EXCEPT ![i] = "listening"]
  /\ pc' = [pc EXCEPT ![c] = "scan"]
  /\ UNCHANGED <<files, listener, ending, stop, owner, alive, cancelled, kills, history>>

\* Accept fails on the closed listener: waitForDrain.
AcceptClosed(i) ==
  /\ start[i] = "listening" /\ listener[i] = "closed"
  /\ start' = [start EXCEPT ![i] = "draining"]
  /\ UNCHANGED <<files, listener, ending, stop, conns, cancelled, kills, history>>

\* Accept fails for another reason (no file descriptors left): Start returns,
\* and neither the listener nor the connections are closed.
AcceptError(i) ==
  /\ start[i] = "listening" /\ listener[i] = "open" /\ ~IsShutdown(i) /\ ~cancelled
  /\ start' = [start EXCEPT ![i] = "returned"]
  /\ broken' = broken \cup {i}
  /\ UNCHANGED <<files, listener, ending, stop, conns, cancelled, kills, drained>>

\* forceCloseAll.
ForceClosed(i) == [c \in Conns |-> alive[c] /\ c \notin Tracked(i)]

\* Mutant of AtDeadline.
MutAtDeadline(i) == alive

\* waitForDrain: what has become of the connections when the drain timeout is over.
AtDeadline(i) == ForceClosed(i)

\* Mutant of Drained.
MutDrained(i) == Tracked(i) = {} /\ alive' = alive

\* waitForDrain ends when no connection is active, or at its deadline, when
\* forceCloseAll waits for the lock of the connections.
Drained(i) == \/ Tracked(i) = {} /\ alive' = alive
              \/ ConnsMuFree(i) /\ alive' = AtDeadline(i)

DrainStart(i) ==
  /\ start[i] = "draining"
  /\ Drained(i)
  /\ start' = [start EXCEPT ![i] = "returned"]
  /\ drained' = drained \cup {i}
  /\ UNCHANGED <<files, listener, ending, stop, pc, owner, cancelled, kills, broken>>

\* Start has returned: the entry of the path is deleted from the map,
Unmap(i) ==
  /\ start[i] \in {"returned", "refused"}
  /\ start' = [start EXCEPT ![i] = "unmapped"]
  /\ wt' = None
  /\ UNCHANGED <<lock, file, listener, ending, stop, conns, cancelled, kills, history>>

\* and the deferred releaseLock runs.
Release(i) ==
  /\ start[i] = "unmapped"
  /\ start' = [start EXCEPT ![i] = "gone"]
  /\ lock' = None
  /\ UNCHANGED <<wt, file, listener, ending, stop, conns, cancelled, kills, history>>

-----------------------------------------------------------------------------
(* A connection.                                                           *)

\* A line is read and dispatched, unless the server is shutting down.
Dispatch(c) ==
  /\ pc[c] = "scan" /\ alive[c] /\ ~cancelled /\ ~IsShutdown(owner[c])
  /\ pc' = [pc EXCEPT ![c] = "dispatch"]
  /\ UNCHANGED <<files, start, listener, ending, stop, owner, alive, cancelled, kills, history>>

\* The response is written.
Respond(c) ==
  /\ pc[c] = "dispatch" /\ alive[c]
  /\ pc' = [pc EXCEPT ![c] = "scan"]
  /\ UNCHANGED <<files, start, listener, ending, stop, owner, alive, cancelled, kills, history>>

\* The handler returns: the scan ends with the connection, the shutdown is seen
\* behind a line that was read, or the response cannot be written.  It closes the
\* connection,
HandlerReturns(c) ==
  /\ \/ pc[c] \in {"scan", "dispatch"} /\ ~alive[c]
     \/ pc[c] = "scan" /\ (cancelled \/ IsShutdown(owner[c]))
  /\ pc' = [pc EXCEPT ![c] = "closing"]
  /\ alive' = [alive EXCEPT ![c] = FALSE]
  /\ UNCHANGED <<files, start, listener, ending, stop, owner, cancelled, kills, history>>

\* and the connection is no longer tracked.
Untrack(c) ==
  /\ pc[c] = "closing" /\ ConnsMuFree(owner[c])
  /\ pc' = [pc EXCEPT ![c] = "done"]
  /\ UNCHANGED <<files, start, listener, ending, stop, owner, alive, cancelled, kills, history>>

\* The client hangs up.
HangUp(c) ==
  /\ alive[c]
  /\ alive' = [alive EXCEPT ![c] = FALSE]
  /\ UNCHANGED <<files, start, listener, ending, stop, pc, owner, cancelled, kills, history>>

-----------------------------------------------------------------------------
(* Stop.                                                                   *)

\* handleShutdown: the request starts a goroutine that stops the server.
ShutdownRequest(c) ==
  /\ pc[c] = "dispatch" /\ stop[owner[c]] = "none"
  /\ stop' = [stop EXCEPT ![owner[c]] = "asked"]
  /\ UNCHANGED <<files, start, listener, ending, conns, cancelled, kills, history>>

\* Closing a listener unlinks the path, the first time.
CloseListener(i) ==
  IF listener[i] = "open" THEN listener' = [listener EXCEPT ![i] = "closed"] /\ file' = None
                          ELSE UNCHANGED <<listener, file>>

\* initiateShutdown, once: the flag, the channel and the listener, which may not
\* be there yet.
InitiateShutdown(i) ==
  /\ ~IsShutdown(i)
  /\ shutdown' = [shutdown EXCEPT ![i] = "begun"]
  /\ CloseListener(i)
  /\ UNCHANGED unsent

\* The lock of the connections is taken,
NoticeLocks(i) ==
  /\ shutdown[i] = "begun"
  /\ shutdown' = [shutdown EXCEPT ![i] = "writing"]
  /\ unsent' = [unsent EXCEPT ![i] = Tracked(i)]
  /\ UNCHANGED <<files, start, listener, stop, conns, cancelled, kills, history>>

\* the notice is written to each of them: with no deadline, so that the write may
\* wait for the client to read; to a closed one it fails and is passed over;
NoticeWrites(i, c) ==
  /\ shutdown[i] = "writing" /\ c \in unsent[i]
  /\ unsent' = [unsent EXCEPT ![i] = @ \ {c}]
  /\ UNCHANGED <<files, start, listener, shutdown, stop, conns, cancelled, kills, history>>

\* and the lock is given back: the Once is done.
NoticeUnlocks(i) ==
  /\ shutdown[i] = "writing" /\ unsent[i] = {}
  /\ shutdown' = [shutdown EXCEPT ![i] = "done"]
  /\ UNCHANGED <<files, start, listener, unsent, stop, conns, cancelled, kills, history>>

\* Mutant of StopBegins.
MutStopBegins(i) ==
  /\ stop[i] = "asked"
  /\ InitiateShutdown(i)
  /\ wt' = None
  /\ UNCHANGED <<lock, start, stop, conns, cancelled, kills, history>>

\* Stop initiates the shutdown, unless someone else has,
StopBegins(i) ==
  /\ stop[i] = "asked"
  /\ InitiateShutdown(i)
  /\ UNCHANGED <<wt, lock, start, stop, conns, cancelled, kills, history>>

\* and goes on when whoever has is done with it (shutdownOnce);
StopInitiated(i) ==
  /\ stop[i] = "asked" /\ shutdown[i] = "done"
  /\ stop' = [stop EXCEPT ![i] = "draining"]
  /\ UNCHANGED <<files, start, listener, ending, conns, cancelled, kills, history>>

\* it waits for the connections and closes what is left of them,
StopDrained(i) ==
  /\ stop[i] = "draining"
  /\ Drained(i)
  /\ stop' = [stop EXCEPT ![i] = "drained"]
  /\ UNCHANGED <<files, start, listener, ending, pc, owner, cancelled, kills, history>>

\* and removes the file at the path, whoever has put it there meanwhile.
StopRemoves(i) ==
  /\ stop[i] = "drained" /\ ConnsMuFree(i)
  /\ alive' = ForceClosed(i)
  /\ listener' = [listener EXCEPT ![i] = IF @ = "open" THEN "closed" ELSE @]
  /\ file' = None
  /\ stop' = [stop EXCEPT ![i] = "done"]
  /\ UNCHANGED <<wt, lock, start, ending, pc, owner, cancelled, kills, history>>

\* GlobalSocket.Stop: the context is cancelled, the map emptied, its servers stopped.
GlobalStop ==
  /\ ~cancelled
  /\ cancelled' = TRUE
  /\ stop' = [i \in Inst |-> IF wt = i /\ stop[i] = "none" THEN "asked" ELSE stop[i]]
  /\ wt' = None
  /\ UNCHANGED <<lock, file, start, listener, ending, conns, kills, history>>

\* The goroutine of Start that waits for the context, there from Listen on and
\* whatever has become of Start since.
ContextDone(i) ==
  /\ cancelled /\ listener[i] # "none" /\ start[i] # "dead"
  /\ InitiateShutdown(i)
  /\ UNCHANGED <<wt, lock, start, stop, conns, cancelled, kills, history>>

\* The process ends and another one is started: goroutines, connections and
\* locks are gone, a file that was not removed stays.
NewProcess ==
  /\ start' = [i \in Inst |-> IF start[i] = "none" THEN "none" ELSE "dead"]
  /\ listener' = [i \in Inst |-> IF listener[i] = "open" THEN "closed" ELSE listener[i]]
  /\ stop' = [i \in Inst |-> IF start[i] = "none" THEN "none" ELSE "done"]
  /\ shutdown' = [i \in Inst |-> "none"]
  /\ unsent' = [i \in Inst |-> {}]
  /\ pc' = [c \in Conns |-> IF pc[c] = "none" THEN "none" ELSE "done"]
  /\ owner' = [c \in Conns |-> None]
  /\ alive' = [c \in Conns |-> FALSE]
  /\ wt' = None /\ lock' = None /\ cancelled' = FALSE
  /\ UNCHANGED <<file, history>>

\* The daemon is killed,
Kill ==
  /\ kills < MaxKills /\ kills' = kills + 1
  /\ NewProcess

\* or ends behind GlobalSocket.Stop.
Exit ==
  /\ cancelled /\ \A i \in Inst : stop[i] \in {"none", "done"}
  /\ NewProcess
  /\ UNCHANGED kills

-----------------------------------------------------------------------------
StartSteps(i) ==
  \/ Cleanup(i) \/ Listen(i) \/ AcceptClosed(i) \/ DrainStart(i) \/ Unmap(i) \/ Release(i)
  \/ \E c \in Conns : Track(i, c)

StopSteps(i) == StopBegins(i) \/ StopInitiated(i) \/ StopDrained(i) \/ StopRemoves(i)

\* The steps of the notice that do not wait for a client.
NoticeSteps(i) == \/ NoticeLocks(i) \/ NoticeUnlocks(i)
                  \/ \E c \in Conns : ~alive[c] /\ NoticeWrites(i, c)

Next ==
  \/ \E i \in Inst : \/ GetOrCreate(i) \/ Cleanup(i) \/ Listen(i) \/ StartFails(i)
                     \/ AcceptClosed(i) \/ AcceptError(i)
                     \/ DrainStart(i) \/ Unmap(i) \/ Release(i)
                     \/ StopBegins(i) \/ StopInitiated(i) \/ StopDrained(i) \/ StopRemoves(i)
                     \/ ContextDone(i) \/ NoticeLocks(i) \/ NoticeUnlocks(i)
                     \/ \E c \in Conns : Accept(i, c) \/ Track(i, c) \/ NoticeWrites(i, c)
  \/ \E c \in Conns : Dispatch(c) \/ Respond(c) \/ HandlerReturns(c) \/ Untrack(c)
                      \/ HangUp(c) \/ ShutdownRequest(c)
  \/ GlobalStop \/ Kill \/ Exit

Spec == Init /\ [][Next]_vars

\* The goroutines of a server go on and the process ends behind Stop.  Nothing is
\* assumed of a handler or of a client: it may stay silent, and when it does not
\* read, neither a response nor the shutdown notice written to it returns.
FairSpec ==
  /\ Spec
  /\ \A i \in Inst : WF_vars(StartSteps(i)) /\ WF_vars(StopSteps(i))
                      /\ WF_vars(ContextDone(i)) /\ WF_vars(NoticeSteps(i))
  /\ WF_vars(Exit)

-----------------------------------------------------------------------------
(* Properties.                                                             *)

\* The variables have their types, and the project lock is held by a goroutine
\* that is still there to release it.
TypeOK ==
  /\ {wt, lock, file} \subseteq Inst \cup {None}
  /\ lock # None => start[lock] \notin {"none", "gone", "dead"}
  /\ start \in [Inst -> {"none", "created", "clean", "refused", "listening", "tracking", "draining",
                         "returned", "unmapped", "gone", "dead"}]
  /\ listener \in [Inst -> {"none", "open", "closed"}]
  /\ shutdown \in [Inst -> {"none", "begun", "writing", "done"}]
  /\ unsent \in [Inst -> SUBSET Conns]
  /\ stop \in [Inst -> {"none", "asked", "draining", "drained", "done"}]
  /\ pc \in [Conns -> {"none", "accepted", "scan", "dispatch", "closing", "done"}]
  /\ owner \in [Conns -> Inst \cup {None}]
  /\ alive \in [Conns -> BOOLEAN]
  /\ cancelled \in BOOLEAN /\ kills \in 0..MaxKills
  /\ drained \subseteq Inst /\ broken \subseteq Inst

\* When Start has returned behind waitForDrain, and so before the project lock
\* is given up, no client can reach a handler of that server any more: every
\* connection it accepted is closed, also one accepted during the shutdown.
ReturnedIsSilent == \A i \in drained : \A c \in Conns : owner[c] = i => ~alive[c]

\* A server that holds the project lock and serves is the one in the daemon's
\* map: the end of its predecessor does not take the new entry out.
ServingIsMapped ==
  \A i \in Inst : lock = i /\ start[i] \in {"created", "clean", "listening", "tracking"} /\ ~cancelled
                    => wt = i

\* Only a listener that a failing Accept has left open keeps the next server
\* from its path; the file a killed daemon leaves does not.
StaleFileNoObstacle == \A i \in Inst : start[i] = "refused" => broken # {}

\* The shutdown notice of a server waits for a connected client to read.
Jammed(i) == shutdown[i] = "writing" /\ \E c \in unsent[i] : alive[c]

\* A shutdown comes to its end and gives the project back, also when a client
\* stays connected and silent or a handler does not return.  What holds it up is
\* a client that neither reads nor hangs up while the notice is written to it, of
\* this server or, when the daemon stops, of another one of the process; when that
\* client goes, the shutdown ends all the same.
ShutdownEnds ==
  \A i \in Inst : IsShutdown(i) ~> \/ start[i] \in {"gone", "dead"}
                                   \/ Jammed(i)
                                   \/ cancelled /\ \E k \in Inst : Jammed(k)

-----------------------------------------------------------------------------
(* What comments of the code promise and an interleaving breaks.           *)

\* The project lock is released when the socket stops: a server that listens
\* has its file at the path.
ListeningIsReachable ==
  \A i \in Inst : listener[i] = "open" => file = i

\* waitForDrain closes what is left at the drain timeout, so that a shutdown ends
\* whatever the clients do.
ShutdownIsBounded == \A i \in Inst : IsShutdown(i) ~> start[i] \in {"gone", "dead"}
=============================================================================
