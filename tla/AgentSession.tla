---------------------------- MODULE AgentSession ----------------------------
(***************************************************************************)
(* One connection to an agent process (agent/claudesdk): Connect launches  *)
(* the command line tool and waits for its session, the read loop and the  *)
(* stderr reader put events on one channel, SendPrompt's goroutine passes  *)
(* them to the caller of the current turn, Close ends everything.          *)
(*                                                                         *)
(* Prompts are numbered in the order they are sent.  An event is the kind  *)
(* of thing that happened and the prompt whose turn it belongs to, 0 for   *)
(* none.  The process is external: it may say and do what the protocol     *)
(* lets it, and may exit at any moment.                                    *)
(***************************************************************************)
EXTENDS Naturals, Sequences

CONSTANTS
  MaxPrompts,  \* bound: prompts
  MaxNoise,    \* bound: lines on stderr and interrupts
  EventCap,    \* capacity of the events channel
  OutCap,      \* capacity of the outgoing channel
  WireCap      \* messages the connection holds

ASSUME SessionAssumption ==
  /\ MaxPrompts \in Nat /\ MaxNoise \in Nat
  /\ EventCap \in Nat \ {0} /\ OutCap \in Nat \ {0} /\ WireCap \in Nat \ {0}

Prompts == 1..MaxPrompts
Event(kind, p) == [kind |-> kind, turn |-> p]

\* The goroutines that put events on the channel.
Senders == {"read", "stderr"}
Nothing == Event("none", 0)
Free == [pc |-> "free", ev |-> Nothing]

VARIABLES
  dial,       \* where Connect is
  session,    \* sessionID is set and sessionReady closed
  connected,
  closer,     \* where Close is; "no" until it is called
  done,       \* lifecycleCtx is cancelled
  exit,       \* the goroutine that waits for the process has seen it exit
  cli,        \* the process: "off", "up", "linked", "exited"
  turn,       \* what the process works on, and the prompts it has been sent
  wire,       \* messages from the process that are not yet read
  outgoing,   \* the channel of messages to the process
  loop,       \* the read loop: "off", "on", "ended"
  sender,     \* what each sender is about to send
  events,     \* the events channel
  inFlight,   \* promptInFlight
  reader,     \* the goroutine of each prompt
  hold,       \* the event it has taken and not yet passed on
  noise,
  panicked,   \* senders that have hit the closed channel
  seen,       \* history: the turns of the events each prompt was given
  how         \* history: what ended each prompt

link == <<dial, session, connected, closer, done, exit>>
process == <<cli, turn>>
prompts == <<inFlight, reader, hold, seen, how>>
vars == <<link, process, wire, outgoing, loop, sender, events, prompts, noise, panicked>>

closed == closer # "no"
eventsClosed == closer = "closed"
Idle == [prompt |-> 0, pc |-> "idle", inbox |-> <<>>]

Init ==
  /\ dial = "off" /\ session = FALSE /\ connected = FALSE /\ closer = "no" /\ done = FALSE /\ exit = FALSE
  /\ cli = "off" /\ turn = Idle /\ wire = <<>> /\ outgoing = <<>> /\ loop = "off"
  /\ sender = [s \in Senders |-> Free] /\ events = <<>> /\ inFlight = FALSE
  /\ reader = [p \in Prompts |-> "none"] /\ hold = [p \in Prompts |-> Nothing]
  /\ noise = 0 /\ panicked = {}
  /\ seen = [p \in Prompts |-> {}] /\ how = [p \in Prompts |-> "open"]

-----------------------------------------------------------------------------
(* Connect and Close.                                                      *)

\* Close, once: closed and connected are stored, the lifecycle is cancelled, the
\* process killed and the connection cut,
CloseBegins ==
  /\ closer' = IF closed THEN closer ELSE "begun"
  /\ connected' = FALSE /\ done' = TRUE
  /\ cli' = "exited" /\ turn' = Idle /\ wire' = <<>>

\* The listener is open and the process launched; a launch that fails closes the connection.
Connect ==
  /\ dial = "off" /\ ~closed
  /\ \/ dial' = "launched" /\ cli' = "up" /\ UNCHANGED <<closer, connected, done, turn, wire>>
     \/ dial' = "failed" /\ CloseBegins
  /\ UNCHANGED <<session, exit, outgoing, loop, sender, events, prompts, noise, panicked>>

\* Connect waits for the connection and then for the session, and takes it
\* whatever has happened to the process meanwhile.
DialSession ==
  /\ dial = "launched" /\ session
  /\ dial' = "up" /\ connected' = TRUE
  /\ UNCHANGED <<session, closer, done, exit, process, wire, outgoing, loop, sender, events,
                 prompts, noise, panicked>>

\* An early exit, a timeout or the caller's context ends it with a Close.
DialFails ==
  /\ dial = "launched"
  /\ dial' = "failed" /\ CloseBegins
  /\ UNCHANGED <<session, exit, outgoing, loop, sender, events, prompts, noise, panicked>>

Close ==
  /\ ~closed /\ CloseBegins
  /\ UNCHANGED <<dial, session, exit, outgoing, loop, sender, events, prompts, noise, panicked>>

\* Mutant of CloseEvents.
MutCloseEvents ==
  /\ closer = "begun"
  /\ closer' = "forgotten"
  /\ UNCHANGED <<dial, session, connected, done, exit, process, wire, outgoing, loop, sender, events,
                 prompts, noise, panicked>>

\* and the events channel is closed.
CloseEvents ==
  /\ closer = "begun"
  /\ closer' = "closed"
  /\ UNCHANGED <<dial, session, connected, done, exit, process, wire, outgoing, loop, sender, events,
                 prompts, noise, panicked>>

\* The goroutine behind cmd.Wait stores connected and cancels the lifecycle.
ProcessExited ==
  /\ cli = "exited" /\ dial # "off" /\ ~exit
  /\ exit' = TRUE /\ connected' = FALSE /\ done' = TRUE
  /\ UNCHANGED <<dial, session, closer, process, wire, outgoing, loop, sender, events, prompts, noise, panicked>>

-----------------------------------------------------------------------------
(* The process, external.                                                  *)

\* It connects, and handleConnection runs; it opens with its session.
CliLinks ==
  /\ cli = "up" /\ ~done
  /\ cli' = "linked" /\ loop' = "on" /\ wire' = <<Event("init", 0)>>
  /\ UNCHANGED <<link, turn, outgoing, sender, events, prompts, noise, panicked>>

Says(e) == cli = "linked" /\ Len(wire) < WireCap /\ wire' = Append(wire, e)

\* A turn begins with the next prompt it was sent; it may print text or ask for
\* a permission, in which case it waits, and ends with a result.
CliTurns ==
  /\ \/ /\ turn.pc = "idle" /\ turn.inbox # <<>> /\ cli = "linked"
        /\ turn' = [prompt |-> Head(turn.inbox), pc |-> "begun", inbox |-> Tail(turn.inbox)]
        /\ UNCHANGED wire
     \/ turn.pc = "begun" /\ Says(Event("text", turn.prompt)) /\ turn' = [turn EXCEPT !.pc = "late"]
     \/ turn.pc = "begun" /\ Says(Event("ask", turn.prompt)) /\ turn' = [turn EXCEPT !.pc = "asking"]
     \/ /\ turn.pc \in {"begun", "late"} /\ Says(Event("result", turn.prompt))
        /\ turn' = [turn EXCEPT !.pc = "idle", !.prompt = 0]
  /\ UNCHANGED <<link, cli, outgoing, loop, sender, events, prompts, noise, panicked>>

CliExits ==
  /\ cli \in {"up", "linked"}
  /\ cli' = "exited" /\ turn' = Idle
  /\ UNCHANGED <<link, wire, outgoing, loop, sender, events, prompts, noise, panicked>>

\* What it does with a message: a permission lets the turn go on, an interrupt ends it soon.
Received(msg) ==
  CASE msg.kind = "user" -> [turn EXCEPT !.inbox = Append(@, msg.turn)]
    [] msg.kind = "answer" /\ turn.pc = "asking" /\ turn.prompt = msg.turn -> [turn EXCEPT !.pc = "late"]
    [] msg.kind = "interrupt" /\ turn.pc \in {"begun", "asking"} -> [turn EXCEPT !.pc = "late"]
    [] OTHER -> turn

\* sendLoop; a message for a process that has not connected is dropped.
SendLoop ==
  /\ outgoing # <<>> /\ ~done /\ dial # "off"
  /\ outgoing' = Tail(outgoing)
  /\ turn' = IF cli = "linked" THEN Received(Head(outgoing)) ELSE turn
  /\ UNCHANGED <<link, cli, wire, loop, sender, events, prompts, noise, panicked>>

-----------------------------------------------------------------------------
(* The senders: trySendEvent looks at closed, then sends.                  *)

Sends(s, e) == sender[s].pc = "free" /\ sender' = [sender EXCEPT ![s] = [pc |-> "check", ev |-> e]]

Terminal(e) == e.kind \in {"result", "stderr"}
Reading(p) == reader[p] \in {"select", "forward", "drain"}

\* Mutant of Blocks.
MutBlocks(e) == FALSE

\* A terminal event waits for room, any other is dropped when there is none.
Blocks(e) == Terminal(e)

\* handleIncomingMessage: the session is taken from the first message, a
\* permission goes through the configured handler to the outgoing channel.
ReadMessage ==
  /\ loop = "on" /\ wire # <<>> /\ sender["read"].pc = "free"
  /\ wire' = Tail(wire)
  /\ LET msg == Head(wire)
     IN  /\ \/ msg.kind = "ask" /\ sender' = [sender EXCEPT !["read"] = [pc |-> "answer", ev |-> msg]]
            \/ msg.kind # "ask" /\ Sends("read", msg)
         /\ IF msg.kind = "init" THEN session' = TRUE /\ connected' = TRUE ELSE UNCHANGED <<session, connected>>
  /\ UNCHANGED <<dial, closer, done, exit, process, outgoing, loop, events, prompts, noise, panicked>>

\* Mutant of Answer.
MutAnswer ==
  /\ sender["read"].pc = "answer"
  /\ sender' = [sender EXCEPT !["read"] = Free]
  /\ outgoing' = IF Len(outgoing) < OutCap
                 THEN Append(outgoing, Event("answer", sender["read"].ev.turn)) ELSE outgoing
  /\ UNCHANGED <<link, process, wire, loop, events, prompts, noise, panicked>>

\* HandlePermission: the response waits for room in the outgoing channel.
Answer ==
  /\ sender["read"].pc = "answer"
  /\ \/ /\ Len(outgoing) < OutCap
        /\ outgoing' = Append(outgoing, Event("answer", sender["read"].ev.turn))
     \/ done /\ UNCHANGED outgoing
  /\ sender' = [sender EXCEPT !["read"] = Free]
  /\ UNCHANGED <<link, process, wire, loop, events, prompts, noise, panicked>>

\* The read fails: the lifecycle or the connection has ended.
ReadFails ==
  /\ loop = "on" /\ sender["read"].pc = "free" /\ (done \/ (cli = "exited" /\ wire = <<>>))
  /\ loop' = "ended" /\ connected' = FALSE
  /\ UNCHANGED <<dial, session, closer, done, exit, process, wire, outgoing, sender, events, prompts, noise, panicked>>

\* Every line on stderr is an error event.
Stderr ==
  /\ cli \in {"up", "linked"} /\ noise < MaxNoise /\ noise' = noise + 1
  /\ Sends("stderr", Event("stderr", 0))
  /\ UNCHANGED <<link, process, wire, outgoing, loop, events, prompts, panicked>>

\* Interrupt: a request to the process, dropped with an error when there is no
\* room, then an event, dropped when there is none.
Interrupt ==
  /\ connected /\ Len(outgoing) < OutCap /\ noise < MaxNoise /\ noise' = noise + 1
  /\ outgoing' = Append(outgoing, Event("interrupt", 0))
  /\ events' = IF ~closed /\ Len(events) < EventCap THEN Append(events, Event("interrupted", 0)) ELSE events
  /\ UNCHANGED <<link, process, wire, loop, sender, prompts, panicked>>

CheckClosed(s) ==
  /\ sender[s].pc = "check"
  /\ sender' = [sender EXCEPT ![s] = IF closed THEN Free ELSE [@ EXCEPT !.pc = "put"]]
  /\ UNCHANGED <<link, process, wire, outgoing, loop, events, prompts, noise, panicked>>

\* The send: it panics on the closed channel, gives way to done, waits or drops
\* when the channel is full.  The 30 seconds of a terminal event only run out
\* where no prompt reads the channel.
Put(s) ==
  /\ sender[s].pc = "put"
  /\ LET e == sender[s].ev
     IN  \/ eventsClosed /\ panicked' = panicked \cup {s} /\ UNCHANGED events
         \/ ~eventsClosed /\ Len(events) < EventCap /\ events' = Append(events, e) /\ UNCHANGED panicked
         \/ /\ \/ done
               \/ Len(events) >= EventCap /\ (Blocks(e) => \A p \in Prompts : ~Reading(p))
            /\ UNCHANGED <<events, panicked>>
  /\ sender' = [sender EXCEPT ![s] = Free]
  /\ UNCHANGED <<link, process, wire, outgoing, loop, prompts, noise>>

-----------------------------------------------------------------------------
(* Prompts.                                                                *)

\* Mutant of MayPrompt.
MutMayPrompt == TRUE

\* promptInFlight.CompareAndSwap.
MayPrompt == ~inFlight

\* SendPrompt; the prompt may still be queued when the lifecycle is over.
SendPrompt(p) ==
  /\ reader[p] = "none" /\ \A q \in Prompts : q < p => reader[q] # "none"
  /\ MayPrompt /\ session /\ Len(outgoing) < OutCap
  /\ inFlight' = TRUE
  /\ outgoing' = Append(outgoing, Event("user", p))
  /\ reader' = [reader EXCEPT ![p] = "select"]
  /\ UNCHANGED <<link, process, wire, loop, sender, events, hold, seen, how, noise, panicked>>

\* The goroutine of a prompt returns: the flag is cleared and the stream closed.
Leave(p, cause) ==
  /\ reader' = [reader EXCEPT ![p] = "ended"]
  /\ how' = [how EXCEPT ![p] = cause]
  /\ inFlight' = FALSE

\* It takes an event, or finds the channel closed.
Take(p) ==
  /\ reader[p] = "select"
  /\ \/ /\ events # <<>>
        /\ hold' = [hold EXCEPT ![p] = Head(events)] /\ events' = Tail(events)
        /\ reader' = [reader EXCEPT ![p] = "forward"]
        /\ UNCHANGED <<inFlight, how>>
     \/ events = <<>> /\ eventsClosed /\ Leave(p, "closed") /\ UNCHANGED <<hold, events>>
  /\ UNCHANGED <<link, process, wire, outgoing, loop, sender, seen, noise, panicked>>

\* It passes the event on, and returns behind a terminal one.
Forward(p) ==
  /\ reader[p] = "forward"
  /\ seen' = [seen EXCEPT ![p] = @ \cup ({hold[p].turn} \ {0})]
  /\ IF Terminal(hold[p]) THEN Leave(p, IF hold[p] = Event("result", p) THEN "result" ELSE "other")
     ELSE reader' = [reader EXCEPT ![p] = "select"] /\ UNCHANGED <<inFlight, how>>
  /\ hold' = [hold EXCEPT ![p] = Nothing]
  /\ UNCHANGED <<link, process, wire, outgoing, loop, sender, events, noise, panicked>>

\* The caller's context is done and the goroutine sees it,
GiveUp(p) ==
  /\ reader[p] \in {"select", "forward"}
  /\ reader' = [reader EXCEPT ![p] = "drain"]
  /\ hold' = [hold EXCEPT ![p] = Nothing]
  /\ UNCHANGED <<link, process, wire, outgoing, loop, sender, events, inFlight, seen, how, noise, panicked>>

\* and drainStale discards what is there.
DrainStale(p) ==
  /\ reader[p] = "drain"
  /\ \/ events # <<>> /\ events' = Tail(events) /\ UNCHANGED <<reader, how, inFlight>>
     \/ events = <<>> /\ Leave(p, "cancelled") /\ UNCHANGED events
  /\ UNCHANGED <<link, process, wire, outgoing, loop, sender, hold, seen, noise, panicked>>

-----------------------------------------------------------------------------
Next ==
  \/ Connect \/ DialSession \/ DialFails \/ Close \/ CloseEvents \/ ProcessExited
  \/ CliLinks \/ CliTurns \/ CliExits \/ SendLoop \/ ReadMessage \/ Answer \/ ReadFails \/ Stderr \/ Interrupt
  \/ \E s \in Senders : CheckClosed(s) \/ Put(s)
  \/ \E p \in Prompts : SendPrompt(p) \/ Take(p) \/ Forward(p) \/ GiveUp(p) \/ DrainStale(p)

Spec == Init /\ [][Next]_vars

\* The goroutines of the connection go on.  Nothing is assumed of the process.  A
\* caller is taken to read its prompt's channel to the end, as all callers in the
\* program do, so that Forward does not wait; it may cancel at any time.
FairSpec ==
  /\ Spec
  /\ WF_vars(CloseEvents) /\ WF_vars(SendLoop) /\ WF_vars(ReadMessage \/ Answer)
  /\ \A s \in Senders : WF_vars(CheckClosed(s) \/ Put(s))
  /\ \A p \in Prompts : WF_vars(Take(p) \/ Forward(p) \/ DrainStale(p))

-----------------------------------------------------------------------------
(* Properties.                                                             *)

\* When every earlier prompt was ended by the result of its own turn, a prompt
\* is given nothing of another turn: no event is left over, and no two prompts
\* share the channel.
TurnsSeparate ==
  \A p \in Prompts : (\A q \in Prompts : q < p => how[q] = "result") => seen[p] \subseteq {p}

\* The result of a turn that waits for room in the channel ends the prompt,
\* however far the prompt is behind with the events before it, unless the
\* connection ends first.
ResultEndsPrompt ==
  \A p \in Prompts : (sender["read"] = [pc |-> "put", ev |-> Event("result", p)] /\ Reading(p))
                        ~> (reader[p] = "ended" \/ closed \/ done)

\* After Close no caller is left waiting for events.
CloseEndsPrompts == \A p \in Prompts : (closed /\ Reading(p)) ~> (reader[p] = "ended")

\* A process that asks for a permission is answered, also through a full
\* outgoing channel, as long as the connection lasts.
AskAnswered == (turn.pc = "asking" /\ cli = "linked") ~> (turn.pc # "asking" \/ cli = "exited" \/ done)

-----------------------------------------------------------------------------
(* What comments of the code promise and an interleaving breaks.           *)

\* trySendEvent asks whether the connection is closed before it sends.
NoPanic == panicked = {}

\* Stale events are discarded "so the next SendPrompt starts clean".
StartsClean == \A p \in Prompts : seen[p] \subseteq {p}

\* Dropped terminal events "would hang SendPrompt goroutines": a prompt ends when the process has exited.
ExitEndsPrompt == \A p \in Prompts : (exit /\ Reading(p)) ~> (reader[p] = "ended")

\* A connection whose process has been seen to exit is not connected.
ConnectedIsAlive == connected => ~exit /\ ~closed
=============================================================================
