------------------------- MODULE AgentSessionProofs -------------------------
(***************************************************************************)
(* Proofs about AgentSession, for any number of prompts, any noise and any *)
(* capacity of the channels: a prompt is given nothing of another's turn   *)
(* as long as every prompt before it was ended by its own result.          *)
(*                                                                         *)
(* A prompt goes through outgoing and the process's inbox into a turn; the *)
(* events of the turn go through the connection, the read loop and the     *)
(* events channel into a reader's hands.  All of these are queues, and a   *)
(* result is the last event of its turn: the invariant says that nothing   *)
(* of the turn is ever behind it.                                          *)
(***************************************************************************)
EXTENDS AgentSession, SequenceTheorems, TLAPS

\* What comes from the process, and what goes to it.
Kinds == {"none", "init", "text", "ask", "result", "stderr", "interrupted"}
Messages == [kind : Kinds, turn : 0..MaxPrompts]
Requests == [kind : {"user"}, turn : Prompts] \cup [kind : {"answer", "interrupt"}, turn : 0..MaxPrompts]

\* The turns of what a queue holds, those of its results, and the prompts in it.
Turns(s) == {s[i].turn : i \in 1..Len(s)}
Results(s) == {q \in Prompts : \E i \in 1..Len(s) : s[i] = Event("result", q)}
Users(s) == {q \in Prompts : \E i \in 1..Len(s) : s[i] = Event("user", q)}
Elems(s) == {s[i] : i \in 1..Len(s)}

\* A result is the last of its turn in the queue; a prompt is in it once.
ResultsLast(s) ==
  \A q \in Prompts : \A i, k \in 1..Len(s) : s[i] = Event("result", q) /\ i < k => s[k].turn # q
UsersOnce(s) ==
  \A q \in Prompts : \A i, k \in 1..Len(s) :
    s[i] = Event("user", q) /\ s[k] = Event("user", q) => i = k
ElemsOnce(s) == \A i, k \in 1..Len(s) : s[i] = s[k] => i = k

\* What the read loop has in hand.
InHand == sender["read"].ev

\* Where a prompt is that the process has yet to answer, and where the events of its turn are.
Upstream == Users(outgoing) \cup Elems(turn.inbox) \cup {turn.prompt}
Held == {hold[r].turn : r \in Prompts}
Downstream == Turns(wire) \cup {InHand.turn} \cup Turns(events) \cup Held

QueueType == wire \in Seq(Messages) /\ events \in Seq(Messages) /\ outgoing \in Seq(Requests)

TurnType ==
  turn \in [prompt : 0..MaxPrompts, pc : {"idle", "begun", "late", "asking"}, inbox : Seq(Prompts)]

SenderType ==
  /\ sender \in [Senders -> [pc : {"free", "check", "put", "answer"}, ev : Messages]]
  /\ sender["stderr"].ev.turn = 0

ReaderType ==
  /\ reader \in [Prompts -> {"none", "select", "forward", "drain", "ended"}]
  /\ hold \in [Prompts -> Messages] /\ seen \in [Prompts -> SUBSET Prompts]
  /\ how \in [Prompts -> {"open", "result", "other", "closed", "cancelled"}]
  /\ inFlight \in BOOLEAN

TypeInv == QueueType /\ TurnType /\ SenderType /\ ReaderType

\* Prompts are sent in order and one at a time, and only a reader that has
\* taken an event holds one.
OneReader ==
  /\ \A p \in Prompts : Reading(p) => inFlight /\ \A q \in Prompts : q > p => reader[q] = "none"
  /\ \A p, q \in Prompts : q < p /\ reader[p] # "none" => reader[q] # "none"
  /\ \A p, q \in Prompts : Reading(p) /\ Reading(q) => p = q
  /\ \A p \in Prompts : hold[p].turn # 0 => reader[p] = "forward"
  /\ \A p \in Prompts : how[p] # "open" => reader[p] = "ended"

\* A prompt that is not sent is nowhere, nor is anything of its turn.
Unsent ==
  \A q \in Prompts : reader[q] = "none" => q \notin Upstream /\ q \notin Downstream /\ seen[q] = {}

\* A prompt is in one place on its way to the process, and its turn has not begun.
PromptOnce ==
  /\ UsersOnce(outgoing) /\ ElemsOnce(turn.inbox)
  /\ \A q \in Users(outgoing) : q \notin Elems(turn.inbox) /\ q # turn.prompt /\ q \notin Downstream
  /\ \A q \in Elems(turn.inbox) : q # turn.prompt /\ q \notin Downstream

\* A turn that goes on has no result yet.
NoResultYet ==
  turn.prompt \in Prompts =>
    /\ turn.prompt \notin Results(wire) \cup Results(events)
    /\ InHand # Event("result", turn.prompt)
    /\ \A r \in Prompts : hold[r] # Event("result", turn.prompt)

\* Nothing of a turn is behind its result.
ResultIsLast ==
  /\ ResultsLast(wire) /\ ResultsLast(events)
  /\ \A q \in Prompts :
       /\ InHand = Event("result", q) => q \notin Turns(wire)
       /\ q \in Results(events) => q \notin Turns(wire) /\ q # InHand.turn
       /\ \A r \in Prompts : hold[r] = Event("result", q) =>
            q \notin Turns(wire) /\ q # InHand.turn /\ q \notin Turns(events)

\* A prompt that was ended by its own result has left nothing behind.
Gone == \A q \in Prompts : how[q] = "result" => q \notin Upstream /\ q \notin Downstream

PipeInv == Unsent /\ PromptOnce /\ NoResultYet /\ ResultIsLast /\ Gone

SessionInv == TypeInv /\ OneReader /\ PipeInv /\ TurnsSeparate

-----------------------------------------------------------------------------
(* Queues.                                                                 *)

LEMMA EventFields ==
    ASSUME NEW k, NEW q
    PROVE  Event(k, q).turn = q /\ Event(k, q).kind = k
  BY DEF Event

LEMMA EventType ==
    ASSUME NEW k \in Kinds, NEW q \in 0..MaxPrompts
    PROVE  Event(k, q) \in Messages
  BY DEF Event, Messages

LEMMA ZeroIsNoPrompt == 0 \in 0..MaxPrompts /\ 0 \notin Prompts /\ Prompts \subseteq 0..MaxPrompts
  BY SessionAssumption DEF Prompts

LEMMA NothingType == Nothing \in Messages /\ Nothing.turn = 0 /\ \A q : Nothing # Event("result", q)
<1>1. Nothing = [kind |-> "none", turn |-> 0]
  BY DEF Nothing, Event
<1>2. Nothing \in Messages /\ Nothing.turn = 0 /\ Nothing.kind = "none"
  BY <1>1, ZeroIsNoPrompt DEF Messages, Kinds
<1>3. \A q : Event("result", q).kind = "result"
  BY EventFields
<1> QED BY <1>2, <1>3, Zenon

\* At the end of a queue.
LEMMA QueueAppend ==
    ASSUME NEW s \in Seq(Messages), NEW e \in Messages
    PROVE  /\ Append(s, e) \in Seq(Messages)
           /\ Turns(Append(s, e)) = Turns(s) \cup {e.turn}
           /\ \A q \in Prompts : q \in Results(Append(s, e)) <=> q \in Results(s) \/ e = Event("result", q)
           /\ ResultsLast(s) /\ (\A q \in Results(s) : e.turn # q) => ResultsLast(Append(s, e))
<1> DEFINE t == Append(s, e)
<1>1. Len(s) \in Nat /\ t \in Seq(Messages) /\ Len(t) = Len(s) + 1
  OBVIOUS
<1>2. \A i \in 1..Len(s) : t[i] = s[i]
  OBVIOUS
<1>3. t[Len(s) + 1] = e
  OBVIOUS
<1> HIDE DEF t
<1>4. \A i \in 1..Len(t) : i \in 1..Len(s) \/ i = Len(s) + 1
  BY <1>1
<1>5. \A i \in 1..Len(s) : i \in 1..Len(t)
  BY <1>1
<1>6. Len(s) + 1 \in 1..Len(t)
  BY <1>1
<1>7. Turns(t) = Turns(s) \cup {e.turn}
  BY <1>2, <1>3, <1>4, <1>5, <1>6 DEF Turns
<1>8. ASSUME NEW q \in Prompts PROVE q \in Results(t) <=> q \in Results(s) \/ e = Event("result", q)
  BY <1>2, <1>3, <1>4, <1>5, <1>6 DEF Results
<1>9. ASSUME ResultsLast(s), \A q \in Results(s) : e.turn # q PROVE ResultsLast(t)
  <2> SUFFICES ASSUME NEW q \in Prompts, NEW i \in 1..Len(t), NEW k \in 1..Len(t),
                      t[i] = Event("result", q), i < k
               PROVE  t[k].turn # q
    BY DEF ResultsLast
  <2>1. i \in 1..Len(s)
    BY <1>1
  <2>2. s[i] = Event("result", q) /\ q \in Results(s)
    BY <1>2, <2>1 DEF Results
  <2>3. CASE k \in 1..Len(s)
    BY <1>2, <1>9, <2>1, <2>2, <2>3 DEF ResultsLast
  <2>4. CASE k = Len(s) + 1
    BY <1>3, <1>9, <2>2, <2>4
  <2> QED BY <1>4, <2>3, <2>4
<1> QED BY <1>1, <1>7, <1>8, <1>9 DEF t

\* At its head.
LEMMA QueueTail ==
    ASSUME NEW s \in Seq(Messages), s # <<>>
    PROVE  /\ Head(s) \in Messages /\ Tail(s) \in Seq(Messages)
           /\ Head(s).turn \in Turns(s) /\ Turns(Tail(s)) \subseteq Turns(s)
           /\ \A q \in Prompts : Head(s) = Event("result", q) => q \in Results(s)
           /\ Results(Tail(s)) \subseteq Results(s)
           /\ ResultsLast(s) => /\ ResultsLast(Tail(s))
                                /\ \A q \in Prompts : Head(s) = Event("result", q) => q \notin Turns(Tail(s))
<1> DEFINE t == Tail(s)
<1>1. Len(s) \in Nat \ {0} /\ Head(s) \in Messages /\ t \in Seq(Messages) /\ Len(t) = Len(s) - 1
  OBVIOUS
<1>2. \A i \in 1..Len(t) : t[i] = s[i + 1]
  OBVIOUS
<1>3. Head(s) = s[1]
  OBVIOUS
<1> HIDE DEF t
<1>4. \A i \in 1..Len(t) : i + 1 \in 1..Len(s) /\ 1 < i + 1
  BY <1>1
<1>5. 1 \in 1..Len(s)
  BY <1>1
<1>6. Head(s).turn \in Turns(s) /\ Turns(t) \subseteq Turns(s)
  BY <1>2, <1>3, <1>4, <1>5 DEF Turns
<1>7. \A q \in Prompts : Head(s) = Event("result", q) => q \in Results(s)
  BY <1>3, <1>5 DEF Results
<1>8. Results(t) \subseteq Results(s)
  BY <1>2, <1>4 DEF Results
<1>9. ASSUME ResultsLast(s) PROVE ResultsLast(t)
  <2> SUFFICES ASSUME NEW q \in Prompts, NEW i \in 1..Len(t), NEW k \in 1..Len(t),
                      t[i] = Event("result", q), i < k
               PROVE  t[k].turn # q
    BY DEF ResultsLast
  <2>1. i + 1 \in 1..Len(s) /\ k + 1 \in 1..Len(s) /\ i + 1 < k + 1
    BY <1>4
  <2> QED BY <1>2, <1>9, <2>1 DEF ResultsLast
<1>10. ASSUME ResultsLast(s), NEW q \in Prompts, Head(s) = Event("result", q) PROVE q \notin Turns(t)
  <2> SUFFICES ASSUME NEW i \in 1..Len(t), t[i].turn = q PROVE FALSE
    BY DEF Turns
  <2> QED BY <1>2, <1>3, <1>4, <1>5, <1>10 DEF ResultsLast
<1> QED BY <1>1, <1>6, <1>7, <1>8, <1>9, <1>10 DEF t

\* The queue of requests: a prompt is put into it and taken from it.
LEMMA RequestAppend ==
    ASSUME NEW s \in Seq(Requests), NEW e \in Requests
    PROVE  /\ Append(s, e) \in Seq(Requests)
           /\ \A q \in Prompts : q \in Users(Append(s, e)) <=> q \in Users(s) \/ e = Event("user", q)
           /\ UsersOnce(s) /\ (\A q \in Users(s) : e # Event("user", q)) => UsersOnce(Append(s, e))
<1> DEFINE t == Append(s, e)
<1>1. Len(s) \in Nat /\ t \in Seq(Requests) /\ Len(t) = Len(s) + 1
  OBVIOUS
<1>2. \A i \in 1..Len(s) : t[i] = s[i]
  OBVIOUS
<1>3. t[Len(s) + 1] = e
  OBVIOUS
<1> HIDE DEF t
<1>4. \A i \in 1..Len(t) : i \in 1..Len(s) \/ i = Len(s) + 1
  BY <1>1
<1>5. \A i \in 1..Len(s) : i \in 1..Len(t)
  BY <1>1
<1>6. Len(s) + 1 \in 1..Len(t)
  BY <1>1
<1>7. ASSUME NEW q \in Prompts PROVE q \in Users(t) <=> q \in Users(s) \/ e = Event("user", q)
  BY <1>2, <1>3, <1>4, <1>5, <1>6 DEF Users
<1>8. ASSUME UsersOnce(s), \A q \in Users(s) : e # Event("user", q) PROVE UsersOnce(t)
  <2> SUFFICES ASSUME NEW q \in Prompts, NEW i \in 1..Len(t), NEW k \in 1..Len(t),
                      t[i] = Event("user", q), t[k] = Event("user", q)
               PROVE  i = k
    BY DEF UsersOnce
  <2>1. CASE i \in 1..Len(s) /\ k \in 1..Len(s)
    BY <1>2, <1>8, <2>1 DEF UsersOnce
  <2>2. CASE e = Event("user", q)
    <3>1. q \notin Users(s)
      BY <1>8, <2>2
    <3>2. i \notin 1..Len(s) /\ k \notin 1..Len(s)
      BY <1>2, <3>1 DEF Users
    <3> QED BY <1>4, <3>2
  <2> QED BY <1>3, <1>4, <2>1, <2>2
<1> QED BY <1>1, <1>7, <1>8 DEF t

LEMMA RequestTail ==
    ASSUME NEW s \in Seq(Requests), s # <<>>
    PROVE  /\ Head(s) \in Requests /\ Tail(s) \in Seq(Requests)
           /\ \A q \in Prompts : Head(s) = Event("user", q) => q \in Users(s)
           /\ Users(Tail(s)) \subseteq Users(s)
           /\ UsersOnce(s) => /\ UsersOnce(Tail(s))
                              /\ \A q \in Prompts : Head(s) = Event("user", q) => q \notin Users(Tail(s))
<1> DEFINE t == Tail(s)
<1>1. Len(s) \in Nat \ {0} /\ Head(s) \in Requests /\ t \in Seq(Requests) /\ Len(t) = Len(s) - 1
  OBVIOUS
<1>2. \A i \in 1..Len(t) : t[i] = s[i + 1]
  OBVIOUS
<1>3. Head(s) = s[1]
  OBVIOUS
<1> HIDE DEF t
<1>4. \A i \in 1..Len(t) : i + 1 \in 1..Len(s) /\ 1 # i + 1
  BY <1>1
<1>5. 1 \in 1..Len(s)
  BY <1>1
<1>6. \A q \in Prompts : Head(s) = Event("user", q) => q \in Users(s)
  BY <1>3, <1>5 DEF Users
<1>7. Users(t) \subseteq Users(s)
  BY <1>2, <1>4 DEF Users
<1>8. ASSUME UsersOnce(s) PROVE UsersOnce(t)
  <2> SUFFICES ASSUME NEW q \in Prompts, NEW i \in 1..Len(t), NEW k \in 1..Len(t),
                      t[i] = Event("user", q), t[k] = Event("user", q)
               PROVE  i = k
    BY DEF UsersOnce
  <2>1. i + 1 \in 1..Len(s) /\ k + 1 \in 1..Len(s) /\ (i + 1 = k + 1 => i = k)
    BY <1>4
  <2> QED BY <1>2, <1>8, <2>1 DEF UsersOnce
<1>9. ASSUME UsersOnce(s), NEW q \in Prompts, Head(s) = Event("user", q) PROVE q \notin Users(t)
  <2> SUFFICES ASSUME NEW i \in 1..Len(t), t[i] = Event("user", q) PROVE FALSE
    BY DEF Users
  <2> QED BY <1>2, <1>3, <1>4, <1>5, <1>9 DEF UsersOnce
<1> QED BY <1>1, <1>6, <1>7, <1>8, <1>9 DEF t

\* The prompts the process has received.
LEMMA InboxAppend ==
    ASSUME NEW s \in Seq(Prompts), NEW e \in Prompts
    PROVE  /\ Append(s, e) \in Seq(Prompts) /\ Elems(Append(s, e)) = Elems(s) \cup {e}
           /\ ElemsOnce(s) /\ e \notin Elems(s) => ElemsOnce(Append(s, e))
<1> DEFINE t == Append(s, e)
<1>1. Len(s) \in Nat /\ t \in Seq(Prompts) /\ Len(t) = Len(s) + 1
  OBVIOUS
<1>2. \A i \in 1..Len(s) : t[i] = s[i]
  OBVIOUS
<1>3. t[Len(s) + 1] = e
  OBVIOUS
<1> HIDE DEF t
<1>4. \A i \in 1..Len(t) : i \in 1..Len(s) \/ i = Len(s) + 1
  BY <1>1
<1>5. \A i \in 1..Len(s) : i \in 1..Len(t)
  BY <1>1
<1>6. Len(s) + 1 \in 1..Len(t)
  BY <1>1
<1>7. Elems(t) = Elems(s) \cup {e}
  BY <1>2, <1>3, <1>4, <1>5, <1>6 DEF Elems
<1>8. ASSUME ElemsOnce(s), e \notin Elems(s) PROVE ElemsOnce(t)
  BY <1>2, <1>3, <1>4, <1>8 DEF Elems, ElemsOnce
<1> QED BY <1>1, <1>7, <1>8 DEF t

LEMMA InboxTail ==
    ASSUME NEW s \in Seq(Prompts), s # <<>>
    PROVE  /\ Head(s) \in Prompts /\ Tail(s) \in Seq(Prompts)
           /\ Head(s) \in Elems(s) /\ Elems(Tail(s)) \subseteq Elems(s)
           /\ ElemsOnce(s) => ElemsOnce(Tail(s)) /\ Head(s) \notin Elems(Tail(s))
<1> DEFINE t == Tail(s)
<1>1. Len(s) \in Nat \ {0} /\ Head(s) \in Prompts /\ t \in Seq(Prompts) /\ Len(t) = Len(s) - 1
  OBVIOUS
<1>2. \A i \in 1..Len(t) : t[i] = s[i + 1]
  OBVIOUS
<1>3. Head(s) = s[1]
  OBVIOUS
<1> HIDE DEF t
<1>4. \A i \in 1..Len(t) : i + 1 \in 1..Len(s) /\ 1 # i + 1
  BY <1>1
<1>5. 1 \in 1..Len(s)
  BY <1>1
<1>6. Head(s) \in Elems(s) /\ Elems(t) \subseteq Elems(s)
  BY <1>2, <1>3, <1>4, <1>5 DEF Elems
<1>7. ASSUME ElemsOnce(s) PROVE ElemsOnce(t)
  <2> SUFFICES ASSUME NEW i \in 1..Len(t), NEW k \in 1..Len(t), t[i] = t[k] PROVE i = k
    BY DEF ElemsOnce
  <2>1. i + 1 \in 1..Len(s) /\ k + 1 \in 1..Len(s) /\ (i + 1 = k + 1 => i = k)
    BY <1>4
  <2> QED BY <1>2, <1>7, <2>1 DEF ElemsOnce
<1>8. ASSUME ElemsOnce(s) PROVE Head(s) \notin Elems(t)
  BY <1>2, <1>3, <1>4, <1>5, <1>8 DEF Elems, ElemsOnce
<1> QED BY <1>1, <1>6, <1>7, <1>8 DEF t

LEMMA ResultTurns ==
    /\ Results(wire) \subseteq Turns(wire) /\ Results(events) \subseteq Turns(events)
<1>1. \A q : Event("result", q).turn = q
  BY EventFields
<1> QED BY <1>1 DEF Results, Turns

LEMMA EmptyQueues ==
    /\ Turns(<<>>) = {} /\ Results(<<>>) = {} /\ Users(<<>>) = {} /\ Elems(<<>>) = {}
    /\ ResultsLast(<<>>) /\ UsersOnce(<<>>) /\ ElemsOnce(<<>>)
<1>1. 1..Len(<<>>) = {}
  OBVIOUS
<1> QED BY <1>1 DEF Turns, Results, Users, Elems, ResultsLast, UsersOnce, ElemsOnce

-----------------------------------------------------------------------------
(* Types.                                                                  *)

\* A prompt joins the process's inbox; an answer or an interrupt lets the turn go on.
LEMMA ReceivedCases ==
    ASSUME NEW msg
    PROVE  /\ msg.kind = "user" => Received(msg) = [turn EXCEPT !.inbox = Append(turn.inbox, msg.turn)]
           /\ msg.kind # "user" => Received(msg) \in {turn, [turn EXCEPT !.pc = "late"]}
<1>1. CASE msg.kind = "user"
  BY <1>1 DEF Received
<1>2. CASE msg.kind = "answer"
  BY <1>2 DEF Received
<1>3. CASE msg.kind = "interrupt"
  BY <1>3 DEF Received
<1>4. CASE msg.kind \notin {"user", "answer", "interrupt"}
  BY <1>4 DEF Received
<1> QED BY <1>1, <1>2, <1>3, <1>4

LEMMA RequestTypes ==
    /\ \A q \in Prompts : Event("user", q) \in Requests
    /\ \A q \in 0..MaxPrompts : Event("answer", q) \in Requests
    /\ Event("interrupt", 0) \in Requests
    /\ \A r : \A q \in Prompts :
          Event("answer", r) # Event("user", q) /\ Event("interrupt", r) # Event("user", q)
<1>1. \A q \in Prompts : Event("user", q) \in Requests
  BY DEF Event, Requests
<1>2. \A q \in 0..MaxPrompts : Event("answer", q) \in Requests /\ Event("interrupt", q) \in Requests
  BY DEF Event, Requests
<1>3. \A r : \A q \in Prompts :
          Event("answer", r) # Event("user", q) /\ Event("interrupt", r) # Event("user", q)
  BY DEF Event
<1> QED BY <1>1, <1>2, <1>3, ZeroIsNoPrompt

\* The queues hold messages.
LEMMA NextQueue ==
    ASSUME TypeInv, [Next]_vars
    PROVE  QueueType'
<1> USE DEF link, process, prompts
<1>0. QueueType
  BY DEF TypeInv
<1> USE <1>0 DEF QueueType
<1>1. CASE DialSession \/ CloseEvents \/ ProcessExited \/ CliExits \/ ReadFails \/ Stderr \/
      UNCHANGED vars
  BY <1>1 DEF DialSession, CloseEvents, ProcessExited, CliExits, ReadFails, Stderr, Sends, vars
<1>2. ASSUME NEW s \in Senders, CheckClosed(s) PROVE QueueType'
  BY <1>2 DEF CheckClosed
<1>3. ASSUME NEW p \in Prompts, Forward(p) \/ GiveUp(p) PROVE QueueType'
  BY <1>3 DEF Forward, Leave, GiveUp
<1>4. CASE Connect
  <2>1. <<>> \in Seq(Messages) /\ (wire' = wire \/ wire' = <<>>)
    BY <1>4 DEF Connect, CloseBegins
  <2>2. wire' \in Seq(Messages)
    BY <2>1
  <2> QED BY <1>4, <2>2 DEF Connect
<1>5. CASE DialFails
  <2>1. <<>> \in Seq(Messages) /\ (wire' = wire \/ wire' = <<>>)
    BY <1>5 DEF DialFails, CloseBegins
  <2>2. wire' \in Seq(Messages)
    BY <2>1
  <2> QED BY <1>5, <2>2 DEF DialFails
<1>6. CASE Close
  <2>1. <<>> \in Seq(Messages) /\ (wire' = wire \/ wire' = <<>>)
    BY <1>6 DEF Close, CloseBegins
  <2>2. wire' \in Seq(Messages)
    BY <2>1
  <2> QED BY <1>6, <2>2 DEF Close
<1>7. CASE CliLinks
  <2>1. Event("init", 0) \in Messages
    BY EventType, ZeroIsNoPrompt DEF Kinds
  <2>2. <<Event("init", 0)>> \in Seq(Messages)
    BY <2>1
  <2> QED BY <1>7, <2>2 DEF CliLinks
<1>8. CASE CliTurns
  <2>1. \A k \in Kinds : Event(k, turn.prompt) \in Messages
    BY EventType DEF TypeInv, TurnType
  <2>2. UNCHANGED wire \/ \E e \in Messages : wire' = Append(wire, e)
    BY <1>8, <2>1 DEF CliTurns, Says, Kinds
  <2>3. wire' \in Seq(Messages)
    BY <2>2, QueueAppend
  <2> QED BY <1>8, <2>3 DEF CliTurns
<1>9. CASE SendLoop
  BY <1>9, RequestTail DEF SendLoop
<1>10. CASE ReadMessage
  BY <1>10, QueueTail DEF ReadMessage
<1>11. CASE Answer
  <2>1. sender["read"].ev.turn \in 0..MaxPrompts
    BY DEF TypeInv, SenderType, Senders, Messages
  <2>2. Event("answer", sender["read"].ev.turn) \in Requests
    BY <2>1, RequestTypes
  <2>3. outgoing' \in Seq(Requests)
    BY <1>11, <2>2, RequestAppend DEF Answer
  <2> QED BY <1>11, <2>3 DEF Answer
<1>12. CASE Interrupt
  <2>1. outgoing' \in Seq(Requests)
    BY <1>12, RequestTypes, RequestAppend DEF Interrupt
  <2>2. Event("interrupted", 0) \in Messages
    BY EventType, ZeroIsNoPrompt DEF Kinds
  <2>3. events' \in Seq(Messages)
    BY <1>12, <2>2, QueueAppend DEF Interrupt
  <2> QED BY <1>12, <2>1, <2>3 DEF Interrupt
<1>13. ASSUME NEW s \in Senders, Put(s) PROVE QueueType'
  <2>1. sender[s].ev \in Messages
    BY DEF TypeInv, SenderType
  <2>2. events' \in Seq(Messages)
    BY <1>13, <2>1, QueueAppend DEF Put
  <2> QED BY <1>13, <2>2 DEF Put
<1>14. ASSUME NEW p \in Prompts, SendPrompt(p) PROVE QueueType'
  <2>1. outgoing' \in Seq(Requests)
    BY <1>14, RequestTypes, RequestAppend DEF SendPrompt
  <2> QED BY <1>14, <2>1 DEF SendPrompt
<1>15. ASSUME NEW p \in Prompts, Take(p) PROVE QueueType'
  <2>1. events' \in Seq(Messages)
    BY <1>15, QueueTail DEF Take
  <2> QED BY <1>15, <2>1 DEF Take
<1>16. ASSUME NEW p \in Prompts, DrainStale(p) PROVE QueueType'
  <2>1. events' \in Seq(Messages)
    BY <1>16, QueueTail DEF DrainStale
  <2> QED BY <1>16, <2>1 DEF DrainStale
<1> QED
  BY <1>1, <1>2, <1>3, <1>4, <1>5, <1>6, <1>7, <1>8, <1>9, <1>10, <1>11, <1>12, <1>13, <1>14, <1>15,
     <1>16 DEF Next

\* The process works on a prompt that it was sent.
LEMMA NextTurn ==
    ASSUME TypeInv, [Next]_vars
    PROVE  TurnType'
<1> USE DEF link, process, prompts
<1>0. TurnType /\ Idle \in [prompt : 0..MaxPrompts, pc : {"idle", "begun", "late", "asking"}, inbox : Seq(Prompts)]
  BY ZeroIsNoPrompt DEF TypeInv, Idle
<1> USE <1>0 DEF TurnType
<1>1. CASE DialSession \/ CloseEvents \/ ProcessExited \/ CliLinks \/ ReadMessage \/ Answer \/
      ReadFails \/ Stderr \/ Interrupt \/ UNCHANGED vars
  BY <1>1 DEF DialSession, CloseEvents, ProcessExited, CliLinks, ReadMessage, Sends, Answer,
     ReadFails, Stderr, Interrupt, vars
<1>2. ASSUME NEW s \in Senders, CheckClosed(s) \/ Put(s) PROVE TurnType'
  BY <1>2 DEF CheckClosed, Put
<1>3. ASSUME NEW p \in Prompts, SendPrompt(p) \/ Take(p) \/ Forward(p) \/ GiveUp(p) \/ DrainStale(p)
      PROVE TurnType'
  BY <1>3 DEF SendPrompt, MayPrompt, Take, Leave, Forward, GiveUp, DrainStale
<1>4. CASE Connect
  BY <1>4 DEF Connect, CloseBegins
<1>5. CASE DialFails
  BY <1>5 DEF DialFails, CloseBegins
<1>6. CASE Close
  BY <1>6 DEF Close, CloseBegins
<1>7. CASE CliTurns
  <2>1. CASE turn.inbox # <<>> /\ turn' = [prompt |-> Head(turn.inbox), pc |-> "begun", inbox |-> Tail(turn.inbox)]
    <3>1. turn.inbox \in Seq(Prompts)
      OBVIOUS
    <3>2. Head(turn.inbox) \in 0..MaxPrompts /\ Tail(turn.inbox) \in Seq(Prompts)
      BY <2>1, <3>1, InboxTail, ZeroIsNoPrompt
    <3> QED BY <2>1, <3>2
  <2>2. CASE \E pc \in {"late", "asking"} : turn' = [turn EXCEPT !.pc = pc]
    BY <2>2
  <2>3. CASE turn' = [turn EXCEPT !.pc = "idle", !.prompt = 0]
    BY <2>3, ZeroIsNoPrompt
  <2> QED BY <1>7, <2>1, <2>2, <2>3 DEF CliTurns
<1>8. CASE CliExits
  BY <1>8 DEF CliExits
<1>9. CASE SendLoop
  <2> DEFINE m == Head(outgoing)
  <2>1. m \in Requests
    BY <1>9, RequestTail DEF SendLoop, TypeInv, QueueType
  <2>2. turn' = turn \/ turn' = Received(m)
    BY <1>9 DEF SendLoop
  <2> HIDE DEF m
  <2>3. CASE m.kind = "user" /\ turn' = Received(m)
    <3>1. m.turn \in Prompts /\ turn.inbox \in Seq(Prompts)
      BY <2>1, <2>3 DEF Requests
    <3>2. Append(turn.inbox, m.turn) \in Seq(Prompts)
      BY <3>1, InboxAppend
    <3>3. turn' = [turn EXCEPT !.inbox = Append(turn.inbox, m.turn)]
      BY <2>3, ReceivedCases
    <3> QED BY <3>2, <3>3
  <2>4. CASE m.kind # "user" /\ turn' = Received(m)
    <3>1. turn' \in {turn, [turn EXCEPT !.pc = "late"]}
      BY <2>4, ReceivedCases
    <3> QED BY <3>1
  <2> QED BY <2>2, <2>3, <2>4
<1> QED
  BY <1>1, <1>2, <1>3, <1>4, <1>5, <1>6, <1>7, <1>8, <1>9 DEF Next

\* The senders have a message in hand.
LEMMA NextSender ==
    ASSUME TypeInv, [Next]_vars
    PROVE  SenderType'
<1> USE DEF link, process, prompts
<1>0. SenderType /\ Free \in [pc : {"free", "check", "put", "answer"}, ev : Messages] /\ Free.ev.turn = 0
  BY NothingType DEF TypeInv, Free
<1>00. "read" \in Senders /\ "stderr" \in Senders /\ "read" # "stderr"
  BY DEF Senders
<1> USE <1>0, <1>00 DEF SenderType
<1>1. CASE Connect \/ DialSession \/ DialFails \/ Close \/ CloseEvents \/ ProcessExited \/ CliLinks
      \/ CliTurns \/ CliExits \/ SendLoop \/ ReadFails \/ Interrupt \/ UNCHANGED vars
  BY <1>1 DEF Connect, CloseBegins, DialSession, DialFails, Close, CloseEvents, ProcessExited,
     CliLinks, CliTurns, Says, CliExits, SendLoop, ReadFails, Interrupt, vars
<1>2. ASSUME NEW p \in Prompts, SendPrompt(p) \/ Take(p) \/ Forward(p) \/ GiveUp(p) \/ DrainStale(p)
      PROVE SenderType'
  BY <1>2 DEF SendPrompt, MayPrompt, Take, Leave, Forward, GiveUp, DrainStale
<1>3. CASE ReadMessage
  <2>1. Head(wire) \in Messages
    BY <1>3, QueueTail DEF ReadMessage, TypeInv, QueueType
  <2>2. \E pc \in {"answer", "check"} : sender' = [sender EXCEPT !["read"] = [pc |-> pc, ev |-> Head(wire)]]
    BY <1>3 DEF ReadMessage, Sends
  <2> QED BY <2>1, <2>2
<1>4. CASE Answer
  BY <1>4 DEF Answer
<1>5. CASE Stderr
  <2>1. Event("stderr", 0) \in Messages /\ Event("stderr", 0).turn = 0
    BY EventType, EventFields, ZeroIsNoPrompt DEF Kinds
  <2>2. sender' = [sender EXCEPT !["stderr"] = [pc |-> "check", ev |-> Event("stderr", 0)]]
    BY <1>5 DEF Stderr, Sends
  <2> QED BY <2>1, <2>2
<1>6. ASSUME NEW s \in Senders, CheckClosed(s) PROVE SenderType'
  <2>1. sender' = [sender EXCEPT ![s] = Free] \/ sender' = [sender EXCEPT ![s] = [sender[s] EXCEPT !.pc = "put"]]
    BY <1>6 DEF CheckClosed
  <2> QED BY <2>1
<1>7. ASSUME NEW s \in Senders, Put(s) PROVE SenderType'
  BY <1>7 DEF Put
<1> QED
  BY <1>1, <1>2, <1>3, <1>4, <1>5, <1>6, <1>7 DEF Next

\* The goroutines of the prompts keep their types.
LEMMA NextReader ==
    ASSUME TypeInv, [Next]_vars
    PROVE  ReaderType'
<1> USE DEF link, process, prompts
<1>0. ReaderType /\ Nothing \in Messages
  BY NothingType DEF TypeInv
<1> USE <1>0 DEF ReaderType
<1>1. CASE Connect \/ DialSession \/ DialFails \/ Close \/ CloseEvents \/ ProcessExited \/ CliLinks
      \/ CliTurns \/ CliExits \/ SendLoop \/ ReadMessage \/ Answer \/ ReadFails \/ Stderr \/
      Interrupt \/ UNCHANGED vars
  BY <1>1 DEF Connect, CloseBegins, DialSession, DialFails, Close, CloseEvents, ProcessExited,
     CliLinks, CliTurns, Says, CliExits, SendLoop, ReadMessage, Sends, Answer, ReadFails, Stderr,
     Interrupt, vars
<1>2. ASSUME NEW s \in Senders, CheckClosed(s) \/ Put(s) PROVE ReaderType'
  BY <1>2 DEF CheckClosed, Put
<1>3. ASSUME NEW p \in Prompts, SendPrompt(p) PROVE ReaderType'
  BY <1>3 DEF SendPrompt, MayPrompt
<1>4. ASSUME NEW p \in Prompts, Take(p) PROVE ReaderType'
  <2>1. events # <<>> => Head(events) \in Messages
    BY QueueTail DEF TypeInv, QueueType
  <2> QED BY <1>4, <2>1, Zenon DEF Take, Leave
<1>5. ASSUME NEW p \in Prompts, Forward(p) PROVE ReaderType'
  <2>1. {hold[p].turn} \ {0} \subseteq Prompts
    BY DEF Messages, Prompts
  <2>2. seen' \in [Prompts -> SUBSET Prompts]
    BY <1>5, <2>1 DEF Forward
  <2>3. reader' \in [Prompts -> {"none", "select", "forward", "drain", "ended"}] /\ hold' \in [Prompts -> Messages]
    BY <1>5 DEF Forward, Leave
  <2>4. how' \in [Prompts -> {"open", "result", "other", "closed", "cancelled"}] /\ inFlight' \in BOOLEAN
    BY <1>5 DEF Forward, Leave
  <2> QED BY <2>2, <2>3, <2>4
<1>6. ASSUME NEW p \in Prompts, GiveUp(p) PROVE ReaderType'
  BY <1>6 DEF GiveUp
<1>7. ASSUME NEW p \in Prompts, DrainStale(p) PROVE ReaderType'
  BY <1>7 DEF DrainStale, Leave
<1> QED
  BY <1>1, <1>2, <1>3, <1>4, <1>5, <1>6, <1>7 DEF Next

LEMMA NextType == TypeInv /\ [Next]_vars => TypeInv'
  BY NextQueue, NextTurn, NextSender, NextReader DEF TypeInv

-----------------------------------------------------------------------------
(* One prompt at a time.                                                   *)

\* A prompt is sent when the one before it has ended.
LEMMA NextOneReader ==
    ASSUME TypeInv, OneReader, [Next]_vars
    PROVE  OneReader'
<1> USE DEF link, process, prompts
<1>0. ReaderType /\ Prompts \subseteq Nat /\ Nothing.turn = 0
  BY NothingType DEF TypeInv, Prompts
<1>1. CASE Connect \/ DialSession \/ DialFails \/ Close \/ CloseEvents \/ ProcessExited \/ CliLinks
      \/ CliTurns \/ CliExits \/ SendLoop \/ ReadMessage \/ Answer \/ ReadFails \/ Stderr \/
      Interrupt \/ UNCHANGED vars
  BY <1>1 DEF Connect, CloseBegins, DialSession, DialFails, Close, CloseEvents, ProcessExited,
     CliLinks, CliTurns, Says, CliExits, SendLoop, ReadMessage, Sends, Answer, ReadFails, Stderr,
     Interrupt, vars, OneReader, Reading
<1>2. ASSUME NEW s \in Senders, CheckClosed(s) \/ Put(s) PROVE OneReader'
  BY <1>2 DEF CheckClosed, Put, OneReader, Reading
<1>3. ASSUME NEW p \in Prompts, SendPrompt(p) PROVE OneReader'
  <2>1. reader' = [reader EXCEPT ![p] = "select"] /\ inFlight' /\ UNCHANGED <<hold, how>> /\ ~inFlight
        /\ reader[p] = "none"
    BY <1>3 DEF SendPrompt, MayPrompt
  <2>2. \A q \in Prompts : ~Reading(q)
    BY <2>1 DEF OneReader
  <2>3. \A q \in Prompts : (q # p => reader'[q] = reader[q]) /\ reader'[p] = "select"
    BY <1>0, <2>1 DEF ReaderType
  <2>4. \A q \in Prompts : q > p => reader[q] = "none"
    BY <1>0, <2>1 DEF OneReader
  <2>5. \A q \in Prompts : q < p => reader[q] # "none"
    BY <1>3 DEF SendPrompt
  <2>6. \A q \in Prompts : Reading(q)' => q = p
    BY <2>2, <2>3 DEF Reading
  <2>7. \A q, r \in Prompts : r < q /\ reader'[q] # "none" => reader'[r] # "none"
    BY <1>0, <2>3, <2>4, <2>5 DEF OneReader
  <2>8. \A q \in Prompts : q > p => reader'[q] = "none"
    BY <1>0, <2>3, <2>4
  <2>9. \A q \in Prompts : (hold'[q].turn # 0 => reader'[q] = "forward") /\ (how'[q] # "open" => reader'[q] = "ended")
    BY <2>1, <2>3 DEF OneReader
  <2> QED BY <2>1, <2>6, <2>7, <2>8, <2>9 DEF OneReader
<1>4. ASSUME NEW p \in Prompts, Take(p) PROVE OneReader'
  <2>1. \A q \in Prompts : q # p => reader'[q] = reader[q] /\ hold'[q] = hold[q] /\ how'[q] = how[q]
    BY <1>0, <1>4 DEF Take, Leave, ReaderType
  <2>2. Reading(p) /\ reader'[p] # "none" /\ (Reading(p)' => inFlight') /\ (how'[p] # "open" => reader'[p] = "ended")
    BY <1>0, <1>4 DEF Take, Leave, ReaderType, Reading, OneReader
  <2>3. hold'[p].turn # 0 => reader'[p] = "forward"
    BY <1>0, <1>4 DEF Take, ReaderType, OneReader
  <2>4. \A q \in Prompts : q # p => ~Reading(q) /\ ~Reading(q)'
    BY <2>1, <2>2 DEF OneReader, Reading
  <2>5. \A q \in Prompts : q > p => reader'[q] = "none"
    BY <1>0, <2>1, <2>2 DEF OneReader
  <2>6. \A q, r \in Prompts : r < q /\ reader'[q] # "none" => reader'[r] # "none"
    BY <1>0, <2>1, <2>2, <2>5 DEF OneReader, Reading
  <2>7. \A q \in Prompts : (hold'[q].turn # 0 => reader'[q] = "forward") /\ (how'[q] # "open" => reader'[q] = "ended")
    BY <2>1, <2>2, <2>3 DEF OneReader
  <2> QED BY <2>2, <2>4, <2>5, <2>6, <2>7 DEF OneReader
<1>5. ASSUME NEW p \in Prompts, Forward(p) PROVE OneReader'
  <2>1. \A q \in Prompts : q # p => reader'[q] = reader[q] /\ hold'[q] = hold[q] /\ how'[q] = how[q]
    BY <1>0, <1>5 DEF Forward, Leave, ReaderType
  <2>2. Reading(p) /\ reader'[p] # "none" /\ (Reading(p)' => inFlight') /\ (how'[p] # "open" => reader'[p] = "ended")
    BY <1>0, <1>5 DEF Forward, Leave, ReaderType, Reading, OneReader
  <2>3. hold'[p].turn # 0 => reader'[p] = "forward"
    BY <1>0, <1>5 DEF Forward, ReaderType, OneReader
  <2>4. \A q \in Prompts : q # p => ~Reading(q) /\ ~Reading(q)'
    BY <2>1, <2>2 DEF OneReader, Reading
  <2>5. \A q \in Prompts : q > p => reader'[q] = "none"
    BY <1>0, <2>1, <2>2 DEF OneReader
  <2>6. \A q, r \in Prompts : r < q /\ reader'[q] # "none" => reader'[r] # "none"
    BY <1>0, <2>1, <2>2, <2>5 DEF OneReader, Reading
  <2>7. \A q \in Prompts : (hold'[q].turn # 0 => reader'[q] = "forward") /\ (how'[q] # "open" => reader'[q] = "ended")
    BY <2>1, <2>2, <2>3 DEF OneReader
  <2> QED BY <2>2, <2>4, <2>5, <2>6, <2>7 DEF OneReader
<1>6. ASSUME NEW p \in Prompts, GiveUp(p) PROVE OneReader'
  <2>1. \A q \in Prompts : q # p => reader'[q] = reader[q] /\ hold'[q] = hold[q] /\ how'[q] = how[q]
    BY <1>0, <1>6 DEF GiveUp, Leave, ReaderType
  <2>2. Reading(p) /\ reader'[p] # "none" /\ (Reading(p)' => inFlight') /\ (how'[p] # "open" => reader'[p] = "ended")
    BY <1>0, <1>6 DEF GiveUp, Leave, ReaderType, Reading, OneReader
  <2>3. hold'[p].turn # 0 => reader'[p] = "forward"
    BY <1>0, <1>6 DEF GiveUp, ReaderType, OneReader
  <2>4. \A q \in Prompts : q # p => ~Reading(q) /\ ~Reading(q)'
    BY <2>1, <2>2 DEF OneReader, Reading
  <2>5. \A q \in Prompts : q > p => reader'[q] = "none"
    BY <1>0, <2>1, <2>2 DEF OneReader
  <2>6. \A q, r \in Prompts : r < q /\ reader'[q] # "none" => reader'[r] # "none"
    BY <1>0, <2>1, <2>2, <2>5 DEF OneReader, Reading
  <2>7. \A q \in Prompts : (hold'[q].turn # 0 => reader'[q] = "forward") /\ (how'[q] # "open" => reader'[q] = "ended")
    BY <2>1, <2>2, <2>3 DEF OneReader
  <2> QED BY <2>2, <2>4, <2>5, <2>6, <2>7 DEF OneReader
<1>7. ASSUME NEW p \in Prompts, DrainStale(p) PROVE OneReader'
  <2>1. \A q \in Prompts : q # p => reader'[q] = reader[q] /\ hold'[q] = hold[q] /\ how'[q] = how[q]
    BY <1>0, <1>7 DEF DrainStale, Leave, ReaderType
  <2>2. Reading(p) /\ reader'[p] # "none" /\ (Reading(p)' => inFlight') /\ (how'[p] # "open" => reader'[p] = "ended")
    BY <1>0, <1>7 DEF DrainStale, Leave, ReaderType, Reading, OneReader
  <2>3. hold'[p].turn # 0 => reader'[p] = "forward"
    BY <1>0, <1>7 DEF DrainStale, ReaderType, OneReader
  <2>4. \A q \in Prompts : q # p => ~Reading(q) /\ ~Reading(q)'
    BY <2>1, <2>2 DEF OneReader, Reading
  <2>5. \A q \in Prompts : q > p => reader'[q] = "none"
    BY <1>0, <2>1, <2>2 DEF OneReader
  <2>6. \A q, r \in Prompts : r < q /\ reader'[q] # "none" => reader'[r] # "none"
    BY <1>0, <2>1, <2>2, <2>5 DEF OneReader, Reading
  <2>7. \A q \in Prompts : (hold'[q].turn # 0 => reader'[q] = "forward") /\ (how'[q] # "open" => reader'[q] = "ended")
    BY <2>1, <2>2, <2>3 DEF OneReader
  <2> QED BY <2>2, <2>4, <2>5, <2>6, <2>7 DEF OneReader
<1> QED
  BY <1>1, <1>2, <1>3, <1>4, <1>5, <1>6, <1>7 DEF Next

-----------------------------------------------------------------------------
(* The pipe.                                                               *)

\* A step that only takes prompts and events out of it, or puts events of no turn into it.
Calm ==
  /\ Users(outgoing)' \subseteq Users(outgoing) /\ UsersOnce(outgoing)'
  /\ Elems(turn.inbox)' \subseteq Elems(turn.inbox) /\ ElemsOnce(turn.inbox)'
  /\ turn'.prompt \in {turn.prompt, 0}
  /\ Turns(wire)' \subseteq Turns(wire) \cup {0} /\ Results(wire)' \subseteq Results(wire) /\ ResultsLast(wire)'
  /\ InHand' \in {InHand, Nothing}
  /\ Turns(events)' \subseteq Turns(events) \cup {0} /\ Results(events)' \subseteq Results(events)
  /\ ResultsLast(events)'
  /\ \A r \in Prompts : hold'[r] \in {hold[r], Nothing}
  /\ \A q \in Prompts : /\ reader'[q] = "none" => reader[q] = "none" /\ seen'[q] = seen[q]
                        /\ how'[q] = "result" => how[q] = "result"

LEMMA CalmPipe ==
    ASSUME TypeInv, PipeInv, Calm
    PROVE  PipeInv'
<1>1. Nothing.turn = 0 /\ \A q \in Prompts : Nothing # Event("result", q) /\ q # 0
  BY NothingType, ZeroIsNoPrompt
<1>2. \A q \in Prompts : (q \in Upstream' => q \in Upstream) /\ (q \in Downstream' => q \in Downstream)
  <2>1. \A q \in Prompts : q \in Upstream' => q \in Upstream
    BY <1>1 DEF Calm, Upstream
  <2>2. \A q \in Prompts : q \in Held' => q \in Held
    BY <1>1 DEF Calm, Held
  <2>3. \A q \in Prompts : q \in Downstream' => q \in Downstream
    BY <1>1, <2>2 DEF Calm, Downstream
  <2> QED BY <2>1, <2>3
<1>3. Unsent' /\ Gone'
  BY <1>2 DEF PipeInv, Unsent, Gone, Calm
<1>4. Users(outgoing)' \subseteq Prompts /\ Elems(turn.inbox)' \subseteq Prompts
  <2>1. Elems(turn.inbox) \subseteq Prompts
    BY DEF TypeInv, TurnType, Elems
  <2> QED BY <2>1 DEF Users, Calm
<1>5. PromptOnce'
  BY <1>1, <1>2, <1>4 DEF PipeInv, PromptOnce, Calm
<1>6. NoResultYet'
  BY <1>1 DEF PipeInv, NoResultYet, Calm
<1>7. ResultIsLast'
  BY <1>1 DEF PipeInv, ResultIsLast, Calm
<1> QED BY <1>3, <1>5, <1>6, <1>7 DEF PipeInv

LEMMA PipeQueues ==
    ASSUME TypeInv, PipeInv
    PROVE  /\ UsersOnce(outgoing) /\ ElemsOnce(turn.inbox) /\ ResultsLast(wire) /\ ResultsLast(events)
           /\ wire \in Seq(Messages) /\ events \in Seq(Messages) /\ outgoing \in Seq(Requests)
           /\ turn.inbox \in Seq(Prompts) /\ turn.prompt \in 0..MaxPrompts
           /\ InHand \in Messages /\ InHand.turn \in 0..MaxPrompts
<1>1. InHand \in Messages
  BY DEF TypeInv, SenderType, Senders, InHand
<1>2. InHand.turn \in 0..MaxPrompts
  BY <1>1 DEF Messages
<1>3. turn.inbox \in Seq(Prompts) /\ turn.prompt \in 0..MaxPrompts
  BY DEF TypeInv, TurnType
<1> QED BY <1>1, <1>2, <1>3 DEF PipeInv, PromptOnce, ResultIsLast, TypeInv, QueueType

\* The queues at rest, and after a step that puts an event of no turn into them.
LEMMA NoTurnAppend ==
    ASSUME NEW s \in Seq(Messages), NEW e \in Messages, e.turn = 0, ResultsLast(s)
    PROVE  /\ Turns(Append(s, e)) \subseteq Turns(s) \cup {0} /\ Results(Append(s, e)) \subseteq Results(s)
           /\ ResultsLast(Append(s, e))
<1>1. \A q \in Prompts : e # Event("result", q) /\ e.turn # q
  BY EventFields, ZeroIsNoPrompt
<1>2. Results(s) \subseteq Prompts /\ Results(Append(s, e)) \subseteq Prompts
  BY DEF Results
<1> QED BY <1>1, <1>2, QueueAppend

LEMMA NoPromptAppend ==
    ASSUME NEW s \in Seq(Requests), NEW e \in Requests, \A q \in Prompts : e # Event("user", q), UsersOnce(s)
    PROVE  Users(Append(s, e)) \subseteq Users(s) /\ UsersOnce(Append(s, e))
<1>1. Users(s) \subseteq Prompts /\ Users(Append(s, e)) \subseteq Prompts
  BY DEF Users
<1> QED BY <1>1, RequestAppend

\* The steps that leave the pipe as it is, or only empty it.
LEMMA CalmSteps ==
    ASSUME TypeInv, PipeInv,
           \/ Connect \/ DialSession \/ DialFails \/ Close \/ CloseEvents \/ ProcessExited
           \/ CliLinks \/ CliExits \/ Answer \/ ReadFails \/ Stderr \/ Interrupt \/ UNCHANGED vars
           \/ \E s \in Senders : CheckClosed(s)
           \/ \E p \in Prompts : GiveUp(p) \/ DrainStale(p)
    PROVE  Calm
<1> USE DEF link, process, prompts
<1>0. /\ UsersOnce(outgoing) /\ ElemsOnce(turn.inbox) /\ ResultsLast(wire) /\ ResultsLast(events)
      /\ wire \in Seq(Messages) /\ events \in Seq(Messages) /\ outgoing \in Seq(Requests)
      /\ InHand.turn \in 0..MaxPrompts
  BY PipeQueues
<1>1. CASE DialSession \/ CloseEvents \/ ProcessExited \/ ReadFails \/ UNCHANGED vars
  BY <1>0, <1>1 DEF DialSession, CloseEvents, ProcessExited, ReadFails, vars, Calm, InHand
<1>2. CASE Connect \/ DialFails \/ Close \/ CliExits
  <2>1. /\ UNCHANGED <<outgoing, sender, events, prompts>> /\ (turn' = turn \/ turn' = Idle)
        /\ (wire' = wire \/ wire' = <<>>)
    BY <1>2 DEF Connect, DialFails, Close, CliExits, CloseBegins
  <2>2. Idle.inbox = <<>> /\ Idle.prompt = 0
    BY DEF Idle
  <2>3. /\ Elems(turn.inbox)' \subseteq Elems(turn.inbox) /\ ElemsOnce(turn.inbox)'
        /\ turn'.prompt \in {turn.prompt, 0}
    BY <1>0, <2>1, <2>2, EmptyQueues
  <2>4. Turns(wire)' \subseteq Turns(wire) /\ Results(wire)' \subseteq Results(wire) /\ ResultsLast(wire)'
    BY <1>0, <2>1, EmptyQueues
  <2> QED BY <1>0, <2>1, <2>3, <2>4 DEF Calm, InHand
<1>3. CASE CliLinks
  <2>1. wire' = <<Event("init", 0)>> /\ UNCHANGED <<turn, outgoing, sender, events, prompts>>
    BY <1>3 DEF CliLinks
  <2>2. Event("init", 0) \in Messages /\ Event("init", 0).turn = 0
    BY EventType, EventFields, ZeroIsNoPrompt DEF Kinds
  <2>3. <<>> \in Seq(Messages) /\ wire' = Append(<<>>, Event("init", 0))
    BY <2>1
  <2>4. Turns(wire)' \subseteq {0} /\ Results(wire)' \subseteq {} /\ ResultsLast(wire)'
    BY <2>2, <2>3, NoTurnAppend, EmptyQueues
  <2> QED BY <1>0, <2>1, <2>4 DEF Calm, InHand
<1>4. CASE Answer
  <2>1. /\ outgoing' \in {outgoing, Append(outgoing, Event("answer", InHand.turn))}
        /\ UNCHANGED <<turn, wire, events, prompts>> /\ sender' = [sender EXCEPT !["read"] = Free]
    BY <1>4 DEF Answer, InHand
  <2>2. InHand' = Nothing
    BY <2>1 DEF InHand, TypeInv, SenderType, Senders, Free
  <2>3. Users(outgoing)' \subseteq Users(outgoing) /\ UsersOnce(outgoing)'
    <3>1. /\ Event("answer", InHand.turn) \in Requests
          /\ \A q \in Prompts : Event("answer", InHand.turn) # Event("user", q)
      BY <1>0, RequestTypes
    <3> QED BY <1>0, <2>1, <3>1, NoPromptAppend
  <2> QED BY <1>0, <2>1, <2>2, <2>3 DEF Calm
<1>5. CASE Stderr
  <2>1. InHand' = InHand
    BY <1>5 DEF Stderr, Sends, TypeInv, SenderType, Senders, InHand
  <2> QED BY <1>0, <1>5, <2>1 DEF Stderr, Calm
<1>6. CASE Interrupt
  <2>1. Users(outgoing)' \subseteq Users(outgoing) /\ UsersOnce(outgoing)'
    <3>1. Event("interrupt", 0) \in Requests /\ \A q \in Prompts : Event("interrupt", 0) # Event("user", q)
      BY RequestTypes
    <3> QED BY <1>0, <1>6, <3>1, NoPromptAppend DEF Interrupt
  <2>2. Event("interrupted", 0) \in Messages /\ Event("interrupted", 0).turn = 0
    BY EventType, EventFields, ZeroIsNoPrompt DEF Kinds
  <2>3. events' \in {events, Append(events, Event("interrupted", 0))}
    BY <1>6 DEF Interrupt
  <2>4. /\ Turns(events)' \subseteq Turns(events) \cup {0} /\ Results(events)' \subseteq Results(events)
        /\ ResultsLast(events)'
    BY <1>0, <2>2, <2>3, NoTurnAppend
  <2> QED BY <1>0, <1>6, <2>1, <2>4 DEF Interrupt, Calm, InHand
<1>7. ASSUME NEW s \in Senders, CheckClosed(s) PROVE Calm
  <2>1. InHand' \in {InHand, Nothing}
    BY <1>7 DEF CheckClosed, InHand, TypeInv, SenderType, Senders, Free
  <2> QED BY <1>0, <1>7, <2>1 DEF CheckClosed, Calm
<1>8. ASSUME NEW p \in Prompts, GiveUp(p) PROVE Calm
  <2>1. \A q \in Prompts : hold'[q] \in {hold[q], Nothing} /\ (reader'[q] = "none" => reader[q] = "none")
    BY <1>8 DEF GiveUp, TypeInv, ReaderType
  <2> QED BY <1>0, <1>8, <2>1 DEF GiveUp, Calm, InHand
<1>9. ASSUME NEW p \in Prompts, DrainStale(p) PROVE Calm
  <2>1. events' = events \/ (events # <<>> /\ events' = Tail(events))
    BY <1>9 DEF DrainStale
  <2>2. Turns(events)' \subseteq Turns(events) /\ Results(events)' \subseteq Results(events) /\ ResultsLast(events)'
    BY <1>0, <2>1, QueueTail
  <2>3. \A q \in Prompts : (reader'[q] = "none" => reader[q] = "none") /\ (how'[q] = "result" => how[q] = "result")
    BY <1>9 DEF DrainStale, Leave, TypeInv, ReaderType
  <2> QED BY <1>0, <1>9, <2>2, <2>3 DEF DrainStale, Calm, InHand
<1> QED BY <1>1, <1>2, <1>3, <1>4, <1>5, <1>6, <1>7, <1>8, <1>9

\* The next prompt becomes the turn.
LEMMA TurnBegins ==
    ASSUME TypeInv, PipeInv, turn.inbox # <<>>,
           turn' = [prompt |-> Head(turn.inbox), pc |-> "begun", inbox |-> Tail(turn.inbox)],
           UNCHANGED <<outgoing, wire, sender, events, prompts>>
    PROVE  PipeInv'
<1> USE DEF prompts
<1>0. /\ UsersOnce(outgoing) /\ ElemsOnce(turn.inbox) /\ ResultsLast(wire) /\ ResultsLast(events)
      /\ wire \in Seq(Messages) /\ events \in Seq(Messages) /\ outgoing \in Seq(Requests)
      /\ turn.inbox \in Seq(Prompts) /\ turn.prompt \in 0..MaxPrompts
      /\ InHand \in Messages /\ InHand.turn \in 0..MaxPrompts
  BY PipeQueues
<1> DEFINE h == Head(turn.inbox)
<1>1. /\ turn'.prompt = h /\ turn'.inbox = Tail(turn.inbox)
      /\ h \in Prompts /\ h \in Elems(turn.inbox)
      /\ Elems(turn'.inbox) \subseteq Elems(turn.inbox) /\ ElemsOnce(turn'.inbox) /\ h \notin Elems(turn'.inbox)
  BY <1>0, InboxTail
<1> HIDE DEF h
<1>2. InHand' = InHand /\ Held' = Held /\ Downstream' = Downstream
  BY DEF InHand, Held, Downstream
<1>3. Upstream' \subseteq Upstream
  BY <1>1 DEF Upstream
<1>4. h \notin Downstream
  BY <1>1 DEF PipeInv, PromptOnce
<1>5. Unsent' /\ Gone'
  BY <1>2, <1>3 DEF PipeInv, Unsent, Gone
<1>6. PromptOnce'
  BY <1>0, <1>1, <1>2 DEF PipeInv, PromptOnce
<1>7. Results(wire) \subseteq Turns(wire) /\ Results(events) \subseteq Turns(events)
  BY ResultTurns
<1>8. NoResultYet'
  <2>1. h \notin Turns(wire) /\ h # InHand.turn /\ h \notin Turns(events) /\ \A r \in Prompts : hold[r].turn # h
    BY <1>4 DEF Downstream, Held
  <2> QED BY <1>1, <1>2, <1>7, <2>1, EventFields DEF NoResultYet
<1>9. ResultIsLast'
  BY <1>2 DEF PipeInv, ResultIsLast
<1> QED BY <1>5, <1>6, <1>8, <1>9 DEF PipeInv

\* The process prints text or asks for a permission.
LEMMA TurnGoesOn ==
    ASSUME TypeInv, PipeInv, NEW e \in Messages, e.turn = turn.prompt, \A q \in Prompts : e # Event("result", q),
           wire' = Append(wire, e), turn'.prompt = turn.prompt, turn'.inbox = turn.inbox,
           UNCHANGED <<outgoing, sender, events, prompts>>
    PROVE  PipeInv'
<1> USE DEF prompts
<1>0. /\ UsersOnce(outgoing) /\ ElemsOnce(turn.inbox) /\ ResultsLast(wire) /\ ResultsLast(events)
      /\ wire \in Seq(Messages) /\ events \in Seq(Messages) /\ outgoing \in Seq(Requests)
      /\ turn.inbox \in Seq(Prompts) /\ turn.prompt \in 0..MaxPrompts
      /\ InHand \in Messages /\ InHand.turn \in 0..MaxPrompts
  BY PipeQueues
<1>1. Turns(wire') = Turns(wire) \cup {turn.prompt} /\ \A q \in Prompts : q \in Results(wire') <=> q \in Results(wire)
  BY <1>0, QueueAppend
<1>2. Results(wire) \subseteq Prompts
  BY DEF Results
<1>3. \A q \in Results(wire) : e.turn # q
  BY <1>2 DEF PipeInv, NoResultYet
<1>4. ResultsLast(wire')
  BY <1>0, <1>3, QueueAppend
<1>5. InHand' = InHand /\ Held' = Held /\ Upstream' = Upstream
  BY DEF InHand, Held, Upstream
<1>6. Downstream' = Downstream \cup {turn.prompt}
  BY <1>1, <1>5 DEF Downstream
<1>7. turn.prompt \in Upstream
  BY DEF Upstream
<1>8. Unsent' /\ Gone'
  BY <1>5, <1>6, <1>7 DEF PipeInv, Unsent, Gone
<1>9. PromptOnce'
  BY <1>6 DEF PipeInv, PromptOnce
<1>10. NoResultYet'
  BY <1>1, <1>5 DEF PipeInv, NoResultYet
<1>11. ResultIsLast'
  <2> SUFFICES ASSUME NEW q \in Prompts
               PROVE  /\ InHand = Event("result", q) => q \notin Turns(wire')
                      /\ q \in Results(events) => q \notin Turns(wire') /\ q # InHand.turn
                      /\ \A r \in Prompts : hold[r] = Event("result", q) =>
                           q \notin Turns(wire') /\ q # InHand.turn /\ q \notin Turns(events)
    BY <1>0, <1>4, <1>5 DEF ResultIsLast
  <2>1. CASE q = turn.prompt
    BY <2>1 DEF PipeInv, NoResultYet
  <2>2. CASE q # turn.prompt
    BY <1>1, <2>2 DEF PipeInv, ResultIsLast
  <2> QED BY <2>1, <2>2
<1> QED BY <1>8, <1>9, <1>10, <1>11 DEF PipeInv

\* The result ends the turn and follows everything else of it.
LEMMA TurnEnds ==
    ASSUME TypeInv, PipeInv, wire' = Append(wire, Event("result", turn.prompt)),
           turn'.prompt = 0, turn'.inbox = turn.inbox,
           UNCHANGED <<outgoing, sender, events, prompts>>
    PROVE  PipeInv'
<1> USE DEF prompts
<1>0. /\ UsersOnce(outgoing) /\ ElemsOnce(turn.inbox) /\ ResultsLast(wire) /\ ResultsLast(events)
      /\ wire \in Seq(Messages) /\ events \in Seq(Messages) /\ outgoing \in Seq(Requests)
      /\ turn.inbox \in Seq(Prompts) /\ turn.prompt \in 0..MaxPrompts
      /\ InHand \in Messages /\ InHand.turn \in 0..MaxPrompts
  BY PipeQueues
<1> DEFINE e == Event("result", turn.prompt)
<1>1. e \in Messages /\ e.turn = turn.prompt
  BY <1>0, EventType, EventFields DEF Kinds
<1>2. Turns(wire') = Turns(wire) \cup {turn.prompt}
  BY <1>0, <1>1, QueueAppend
<1>3. Results(wire) \subseteq Prompts
  BY DEF Results
<1>4. \A q \in Results(wire) : e.turn # q
  BY <1>1, <1>3 DEF PipeInv, NoResultYet
<1>5. ResultsLast(wire')
  BY <1>0, <1>1, <1>4, QueueAppend
<1>6. InHand' = InHand /\ Held' = Held /\ turn.prompt \in Upstream /\ \A q \in Prompts : q \in Upstream' => q \in Upstream
  BY ZeroIsNoPrompt DEF InHand, Held, Upstream
<1>7. Downstream' = Downstream \cup {turn.prompt}
  BY <1>2, <1>6 DEF Downstream
<1>8. Unsent' /\ Gone'
  BY <1>6, <1>7 DEF PipeInv, Unsent, Gone
<1>9. PromptOnce'
  <2>1. Users(outgoing) \subseteq Prompts /\ Elems(turn.inbox) \subseteq Prompts
    BY <1>0 DEF Users, Elems
  <2> QED BY <1>7, <2>1, ZeroIsNoPrompt DEF PipeInv, PromptOnce
<1>10. NoResultYet'
  BY ZeroIsNoPrompt DEF NoResultYet
<1>11. ResultIsLast'
  <2> SUFFICES ASSUME NEW q \in Prompts
               PROVE  /\ InHand = Event("result", q) => q \notin Turns(wire')
                      /\ q \in Results(events) => q \notin Turns(wire') /\ q # InHand.turn
                      /\ \A r \in Prompts : hold[r] = Event("result", q) =>
                           q \notin Turns(wire') /\ q # InHand.turn /\ q \notin Turns(events)
    BY <1>0, <1>5, <1>6 DEF ResultIsLast
  <2>1. CASE q = turn.prompt
    BY <2>1 DEF PipeInv, NoResultYet
  <2>2. CASE q # turn.prompt
    BY <1>2, <2>2 DEF PipeInv, ResultIsLast
  <2> QED BY <2>1, <2>2
<1> QED BY <1>8, <1>9, <1>10, <1>11 DEF PipeInv

\* A prompt reaches the process.
LEMMA PromptArrives ==
    ASSUME TypeInv, PipeInv, outgoing # <<>>, outgoing' = Tail(outgoing), NEW h \in Prompts,
           Head(outgoing) = Event("user", h), turn' = [turn EXCEPT !.inbox = Append(turn.inbox, h)],
           UNCHANGED <<wire, sender, events, prompts>>
    PROVE  PipeInv'
<1> USE DEF prompts
<1>0. /\ UsersOnce(outgoing) /\ ElemsOnce(turn.inbox) /\ ResultsLast(wire) /\ ResultsLast(events)
      /\ wire \in Seq(Messages) /\ events \in Seq(Messages) /\ outgoing \in Seq(Requests)
      /\ turn.inbox \in Seq(Prompts) /\ turn.prompt \in 0..MaxPrompts
      /\ InHand \in Messages /\ InHand.turn \in 0..MaxPrompts
  BY PipeQueues
<1>1. /\ h \in Users(outgoing) /\ Users(outgoing') \subseteq Users(outgoing)
      /\ UsersOnce(outgoing') /\ h \notin Users(outgoing')
  BY <1>0, RequestTail
<1>2. turn'.inbox = Append(turn.inbox, h) /\ turn'.prompt = turn.prompt
  BY DEF TypeInv, TurnType
<1>3. h \notin Elems(turn.inbox) /\ h # turn.prompt /\ h \notin Downstream
  BY <1>1 DEF PipeInv, PromptOnce
<1>4. Elems(turn'.inbox) = Elems(turn.inbox) \cup {h} /\ ElemsOnce(turn'.inbox)
  BY <1>0, <1>2, <1>3, InboxAppend
<1>5. InHand' = InHand /\ Held' = Held /\ Downstream' = Downstream
  BY DEF InHand, Held, Downstream
<1>6. Upstream' \subseteq Upstream
  BY <1>1, <1>2, <1>4 DEF Upstream
<1>7. Unsent' /\ Gone'
  BY <1>5, <1>6 DEF PipeInv, Unsent, Gone
<1>8. PromptOnce'
  BY <1>1, <1>2, <1>3, <1>4, <1>5 DEF PipeInv, PromptOnce
<1>9. NoResultYet' /\ ResultIsLast'
  BY <1>2, <1>5 DEF PipeInv, NoResultYet, ResultIsLast
<1> QED BY <1>7, <1>8, <1>9 DEF PipeInv

LEMMA SendLoopPipe ==
    ASSUME TypeInv, PipeInv, SendLoop
    PROVE  PipeInv'
<1> USE DEF prompts
<1>0. /\ UsersOnce(outgoing) /\ ElemsOnce(turn.inbox) /\ ResultsLast(wire) /\ ResultsLast(events)
      /\ wire \in Seq(Messages) /\ events \in Seq(Messages) /\ outgoing \in Seq(Requests)
      /\ turn.inbox \in Seq(Prompts) /\ turn.prompt \in 0..MaxPrompts
      /\ InHand \in Messages /\ InHand.turn \in 0..MaxPrompts
  BY PipeQueues
<1> DEFINE m == Head(outgoing)
<1>1. /\ outgoing # <<>> /\ outgoing' = Tail(outgoing) /\ UNCHANGED <<wire, sender, events, prompts>>
      /\ turn' = turn \/ turn' = Received(m)
  BY DEF SendLoop
<1>2. m \in Requests /\ Users(outgoing') \subseteq Users(outgoing) /\ UsersOnce(outgoing')
  BY <1>0, <1>1, RequestTail
<1>3. CASE m.kind = "user" /\ turn' = Received(m)
  <2>1. m.turn \in Prompts /\ m = Event("user", m.turn)
    BY <1>2, <1>3 DEF Requests, Event
  <2>2. turn' = [turn EXCEPT !.inbox = Append(turn.inbox, m.turn)]
    BY <1>3, ReceivedCases
  <2> QED BY <1>1, <2>1, <2>2, PromptArrives
<1>4. CASE turn' = turn \/ (m.kind # "user" /\ turn' = Received(m))
  <2>1. turn' = turn \/ turn' = [turn EXCEPT !.pc = "late"]
    BY <1>4, ReceivedCases
  <2>2. turn'.prompt = turn.prompt /\ turn'.inbox = turn.inbox
    BY <2>1 DEF TypeInv, TurnType
  <2>3. Calm
    BY <1>0, <1>1, <1>2, <2>2 DEF Calm, InHand
  <2> QED BY <2>3, CalmPipe
<1> QED BY <1>1, <1>3, <1>4

LEMMA CliTurnsPipe ==
    ASSUME TypeInv, PipeInv, CliTurns
    PROVE  PipeInv'
<1> USE DEF prompts
<1>0. /\ UsersOnce(outgoing) /\ ElemsOnce(turn.inbox) /\ ResultsLast(wire) /\ ResultsLast(events)
      /\ wire \in Seq(Messages) /\ events \in Seq(Messages) /\ outgoing \in Seq(Requests)
      /\ turn.inbox \in Seq(Prompts) /\ turn.prompt \in 0..MaxPrompts
      /\ InHand \in Messages /\ InHand.turn \in 0..MaxPrompts
  BY PipeQueues
<1>1. UNCHANGED <<outgoing, sender, events, prompts>>
  BY DEF CliTurns
<1>2. CASE /\ turn.inbox # <<>> /\ UNCHANGED wire
           /\ turn' = [prompt |-> Head(turn.inbox), pc |-> "begun", inbox |-> Tail(turn.inbox)]
  BY <1>1, <1>2, TurnBegins
<1>3. ASSUME NEW k \in {"text", "ask"}, NEW pc, wire' = Append(wire, Event(k, turn.prompt)),
             turn' = [turn EXCEPT !.pc = pc]
      PROVE  PipeInv'
  <2>1. Event(k, turn.prompt) \in Messages /\ Event(k, turn.prompt).turn = turn.prompt
    BY <1>0, EventType, EventFields DEF Kinds
  <2>2. \A q \in Prompts : Event(k, turn.prompt) # Event("result", q)
    BY DEF Event
  <2>3. turn'.prompt = turn.prompt /\ turn'.inbox = turn.inbox
    BY <1>3 DEF TypeInv, TurnType
  <2> QED BY <1>1, <1>3, <2>1, <2>2, <2>3, TurnGoesOn
<1>4. CASE /\ wire' = Append(wire, Event("result", turn.prompt))
           /\ turn' = [turn EXCEPT !.pc = "idle", !.prompt = 0]
  <2>1. turn'.prompt = 0 /\ turn'.inbox = turn.inbox
    BY <1>4 DEF TypeInv, TurnType
  <2> QED BY <1>1, <1>4, <2>1, TurnEnds
<1> QED BY <1>2, <1>3, <1>4 DEF CliTurns, Says

\* The read loop takes the message at the head of the connection.
LEMMA ReadMessagePipe ==
    ASSUME TypeInv, PipeInv, ReadMessage
    PROVE  PipeInv'
<1> USE DEF prompts
<1>0. /\ UsersOnce(outgoing) /\ ElemsOnce(turn.inbox) /\ ResultsLast(wire) /\ ResultsLast(events)
      /\ wire \in Seq(Messages) /\ events \in Seq(Messages) /\ outgoing \in Seq(Requests)
      /\ turn.inbox \in Seq(Prompts) /\ turn.prompt \in 0..MaxPrompts
      /\ InHand \in Messages /\ InHand.turn \in 0..MaxPrompts
  BY PipeQueues
<1> DEFINE h == Head(wire)
<1>1. wire # <<>> /\ wire' = Tail(wire) /\ UNCHANGED <<turn, outgoing, events, prompts>>
  BY DEF ReadMessage, process
<1>2. InHand' = h
  BY DEF ReadMessage, Sends, InHand, TypeInv, SenderType, Senders
<1>3. /\ h.turn \in Turns(wire) /\ Turns(wire') \subseteq Turns(wire)
      /\ Results(wire') \subseteq Results(wire) /\ ResultsLast(wire')
      /\ \A q \in Prompts : h = Event("result", q) => q \in Results(wire) /\ q \notin Turns(wire')
  BY <1>0, <1>1, QueueTail
<1> HIDE DEF h
<1>4. Held' = Held /\ Upstream' = Upstream
  BY <1>1 DEF Held, Upstream
<1>5. Downstream' \subseteq Downstream
  BY <1>1, <1>2, <1>3, <1>4 DEF Downstream
<1>6. Unsent' /\ Gone'
  BY <1>1, <1>4, <1>5 DEF PipeInv, Unsent, Gone
<1>7. PromptOnce'
  BY <1>1, <1>5 DEF PipeInv, PromptOnce
<1>8. NoResultYet'
  BY <1>1, <1>2, <1>3 DEF PipeInv, NoResultYet
<1>9. ResultIsLast'
  BY <1>0, <1>1, <1>2, <1>3 DEF PipeInv, ResultIsLast
<1> QED BY <1>6, <1>7, <1>8, <1>9 DEF PipeInv

\* A sender puts its event on the channel, panics or drops it.
LEMMA PutPipe ==
    ASSUME TypeInv, PipeInv, NEW s \in Senders, Put(s)
    PROVE  PipeInv'
<1> USE DEF prompts
<1>0. /\ UsersOnce(outgoing) /\ ElemsOnce(turn.inbox) /\ ResultsLast(wire) /\ ResultsLast(events)
      /\ wire \in Seq(Messages) /\ events \in Seq(Messages) /\ outgoing \in Seq(Requests)
      /\ turn.inbox \in Seq(Prompts) /\ turn.prompt \in 0..MaxPrompts
      /\ InHand \in Messages /\ InHand.turn \in 0..MaxPrompts
  BY PipeQueues
<1>1. /\ UNCHANGED <<turn, outgoing, wire, prompts>> /\ sender' = [sender EXCEPT ![s] = Free]
      /\ events' \in {events, Append(events, sender[s].ev)}
  BY DEF Put, process
<1>2. InHand' \in {InHand, Nothing} /\ (s = "read" => InHand' = Nothing)
  BY <1>1 DEF InHand, TypeInv, SenderType, Senders, Free
<1>3. CASE events' = events
  <2>1. Calm
    BY <1>0, <1>1, <1>2, <1>3 DEF Calm
  <2> QED BY <2>1, CalmPipe
<1>4. CASE s = "stderr" /\ events' = Append(events, sender[s].ev)
  <2>1. sender[s].ev \in Messages /\ sender[s].ev.turn = 0
    BY <1>4 DEF TypeInv, SenderType
  <2>2. /\ Turns(events)' \subseteq Turns(events) \cup {0} /\ Results(events)' \subseteq Results(events)
        /\ ResultsLast(events)'
    BY <1>0, <1>4, <2>1, NoTurnAppend
  <2>3. Calm
    BY <1>0, <1>1, <1>2, <2>2 DEF Calm
  <2> QED BY <2>3, CalmPipe
<1>5. CASE s = "read" /\ events' = Append(events, InHand)
  <2>1. Nothing.turn = 0 /\ \A q \in Prompts : Nothing # Event("result", q) /\ q # 0
    BY NothingType, ZeroIsNoPrompt
  <2>2. /\ Turns(events') = Turns(events) \cup {InHand.turn}
        /\ \A q \in Prompts : q \in Results(events') <=> q \in Results(events) \/ InHand = Event("result", q)
    BY <1>0, <1>5, QueueAppend
  <2>3. Results(events) \subseteq Prompts
    BY DEF Results
  <2>4. \A q \in Results(events) : InHand.turn # q
    BY <2>3 DEF PipeInv, ResultIsLast
  <2>5. ResultsLast(events')
    BY <1>0, <1>5, <2>4, QueueAppend
  <2>6. InHand' = Nothing /\ Held' = Held /\ Upstream' = Upstream
    BY <1>1, <1>2, <1>5 DEF Held, Upstream
  <2>7. \A q \in Prompts : q \in Downstream' => q \in Downstream
    BY <1>1, <2>1, <2>2, <2>6 DEF Downstream
  <2>8. Unsent' /\ Gone'
    BY <1>1, <2>6, <2>7 DEF PipeInv, Unsent, Gone
  <2>9. PromptOnce'
    <3>1. Users(outgoing) \subseteq Prompts /\ Elems(turn.inbox) \subseteq Prompts
      BY <1>0 DEF Users, Elems
    <3> QED BY <1>1, <2>7, <3>1 DEF PipeInv, PromptOnce
  <2>10. NoResultYet'
    BY <1>1, <2>1, <2>2, <2>6 DEF PipeInv, NoResultYet
  <2>11. ResultIsLast'
    BY <1>0, <1>1, <2>1, <2>2, <2>5, <2>6 DEF PipeInv, ResultIsLast
  <2> QED BY <2>8, <2>9, <2>10, <2>11 DEF PipeInv
<1> QED BY <1>1, <1>3, <1>4, <1>5 DEF Senders, InHand

\* A prompt is sent: it is in the queue of requests and nowhere else.
LEMMA SendPromptPipe ==
    ASSUME TypeInv, OneReader, PipeInv, NEW p \in Prompts, SendPrompt(p)
    PROVE  PipeInv'
<1> USE DEF prompts
<1>0. /\ UsersOnce(outgoing) /\ ElemsOnce(turn.inbox) /\ ResultsLast(wire) /\ ResultsLast(events)
      /\ wire \in Seq(Messages) /\ events \in Seq(Messages) /\ outgoing \in Seq(Requests)
      /\ turn.inbox \in Seq(Prompts) /\ turn.prompt \in 0..MaxPrompts
      /\ InHand \in Messages /\ InHand.turn \in 0..MaxPrompts
  BY PipeQueues
<1>1. /\ UNCHANGED <<turn, wire, sender, events, hold, seen, how>> /\ reader[p] = "none"
      /\ outgoing' = Append(outgoing, Event("user", p)) /\ reader' = [reader EXCEPT ![p] = "select"]
  BY DEF SendPrompt, process
<1>2. p \notin Upstream /\ p \notin Downstream
  BY <1>1 DEF PipeInv, Unsent
<1>3. \A q \in Prompts : Event("user", p) = Event("user", q) <=> q = p
  BY DEF Event
<1>4. Event("user", p) \in Requests /\ Users(outgoing) \subseteq Prompts /\ Users(outgoing') \subseteq Prompts
  BY RequestTypes DEF Users
<1>5. Users(outgoing') = Users(outgoing) \cup {p} /\ UsersOnce(outgoing')
  <2>1. \A q \in Prompts : q \in Users(outgoing') <=> q \in Users(outgoing) \/ q = p
    BY <1>0, <1>1, <1>3, <1>4, RequestAppend
  <2>2. \A q \in Users(outgoing) : Event("user", p) # Event("user", q)
    BY <1>2, <1>3, <1>4 DEF Upstream
  <2> QED BY <1>0, <1>1, <1>4, <2>1, <2>2, RequestAppend
<1>6. InHand' = InHand /\ Held' = Held /\ Downstream' = Downstream /\ Upstream' = Upstream \cup {p}
  BY <1>1, <1>5 DEF InHand, Held, Downstream, Upstream
<1>7. \A q \in Prompts : reader'[q] = "none" => q # p /\ reader[q] = "none"
  BY <1>1 DEF TypeInv, ReaderType
<1>8. how[p] # "result"
  BY <1>1 DEF OneReader
<1>9. Unsent' /\ Gone'
  BY <1>1, <1>6, <1>7, <1>8 DEF PipeInv, Unsent, Gone
<1>10. PromptOnce'
  BY <1>0, <1>1, <1>2, <1>5, <1>6 DEF PipeInv, PromptOnce, Upstream
<1>11. NoResultYet' /\ ResultIsLast'
  BY <1>1, <1>6 DEF PipeInv, NoResultYet, ResultIsLast
<1> QED BY <1>9, <1>10, <1>11 DEF PipeInv

\* The reader takes the event at the head of the channel.
LEMMA TakePipe ==
    ASSUME TypeInv, OneReader, PipeInv, NEW p \in Prompts, Take(p)
    PROVE  PipeInv'
<1> USE DEF prompts
<1>0. /\ UsersOnce(outgoing) /\ ElemsOnce(turn.inbox) /\ ResultsLast(wire) /\ ResultsLast(events)
      /\ wire \in Seq(Messages) /\ events \in Seq(Messages) /\ outgoing \in Seq(Requests)
      /\ turn.inbox \in Seq(Prompts) /\ turn.prompt \in 0..MaxPrompts
      /\ InHand \in Messages /\ InHand.turn \in 0..MaxPrompts
  BY PipeQueues
<1>1. UNCHANGED <<turn, outgoing, wire, sender, seen>> /\ InHand' = InHand
  BY DEF Take, process, InHand
<1>2. \A q \in Prompts : (reader'[q] = "none" => reader[q] = "none") /\ (how'[q] = "result" => how[q] = "result")
  BY DEF Take, Leave, TypeInv, ReaderType
<1>3. CASE UNCHANGED <<hold, events>>
  <2>1. Calm
    BY <1>0, <1>1, <1>2, <1>3 DEF Calm
  <2> QED BY <2>1, CalmPipe
<1>4. CASE events # <<>> /\ hold' = [hold EXCEPT ![p] = Head(events)] /\ events' = Tail(events)
  <2> DEFINE h == Head(events)
  <2>1. /\ h.turn \in Turns(events) /\ Turns(events') \subseteq Turns(events)
        /\ Results(events') \subseteq Results(events) /\ ResultsLast(events')
        /\ \A q \in Prompts : h = Event("result", q) => q \in Results(events) /\ q \notin Turns(events')
    BY <1>0, <1>4, QueueTail
  <2>2. hold'[p] = h /\ \A r \in Prompts : r # p => hold'[r] = hold[r]
    BY <1>4 DEF TypeInv, ReaderType
  <2> HIDE DEF h
  <2>3. Held' \subseteq Held \cup {h.turn} /\ Upstream' = Upstream
    BY <1>1, <2>2 DEF Held, Upstream
  <2>4. Downstream' \subseteq Downstream
    BY <1>1, <2>1, <2>3 DEF Downstream
  <2>5. Unsent' /\ Gone'
    BY <1>1, <1>2, <2>3, <2>4 DEF PipeInv, Unsent, Gone
  <2>6. PromptOnce'
    BY <1>1, <2>4 DEF PipeInv, PromptOnce
  <2>7. NoResultYet'
    BY <1>1, <2>1, <2>2 DEF PipeInv, NoResultYet
  <2>8. ResultIsLast'
    BY <1>0, <1>1, <2>1, <2>2 DEF PipeInv, ResultIsLast
  <2> QED BY <2>5, <2>6, <2>7, <2>8 DEF PipeInv
<1> QED BY <1>3, <1>4 DEF Take

\* The reader passes its event on; behind its own result nothing of the turn is left.
LEMMA ForwardPipe ==
    ASSUME TypeInv, OneReader, PipeInv, NEW p \in Prompts, Forward(p)
    PROVE  PipeInv'
<1> USE DEF prompts
<1>0. /\ UsersOnce(outgoing) /\ ElemsOnce(turn.inbox) /\ ResultsLast(wire) /\ ResultsLast(events)
      /\ wire \in Seq(Messages) /\ events \in Seq(Messages) /\ outgoing \in Seq(Requests)
      /\ turn.inbox \in Seq(Prompts) /\ turn.prompt \in 0..MaxPrompts
      /\ InHand \in Messages /\ InHand.turn \in 0..MaxPrompts
  BY PipeQueues
<1>1. UNCHANGED <<turn, outgoing, wire, sender, events>> /\ InHand' = InHand /\ reader[p] = "forward"
  BY DEF Forward, process, InHand
<1>2. hold' = [hold EXCEPT ![p] = Nothing] /\ \A q \in Prompts : q # p => seen'[q] = seen[q] /\ reader'[q] = reader[q]
  BY DEF Forward, Leave, TypeInv, ReaderType
<1>3. reader'[p] # "none" /\ \A r \in Prompts : hold'[r] \in {hold[r], Nothing}
  BY <1>1, <1>2 DEF Forward, Leave, TypeInv, ReaderType
<1>4. CASE \A q \in Prompts : how'[q] = "result" => how[q] = "result"
  <2>1. Calm
    BY <1>0, <1>1, <1>2, <1>3, <1>4 DEF Calm
  <2> QED BY <2>1, CalmPipe
<1>5. CASE hold[p] = Event("result", p) /\ \A q \in Prompts : q # p => how'[q] = how[q]
  <2>1. \A r \in Prompts : r # p => hold[r].turn = 0
    BY <1>1 DEF OneReader, Reading
  <2>2. Nothing.turn = 0 /\ \A q \in Prompts : Nothing # Event("result", q) /\ q # 0
    BY NothingType, ZeroIsNoPrompt
  <2>3. hold'[p] = Nothing /\ \A r \in Prompts : r # p => hold'[r] = hold[r]
    BY <1>2 DEF TypeInv, ReaderType
  <2>4. hold[p].turn = p
    BY <1>5, EventFields
  <2>5. p \in Downstream
    BY <2>4 DEF Downstream, Held
  <2>6. p \notin Upstream
    BY <1>5, <2>2, <2>5 DEF PipeInv, PromptOnce, NoResultYet, Upstream
  <2>7. p \notin Turns(wire) /\ p # InHand.turn /\ p \notin Turns(events)
    BY <1>5 DEF PipeInv, ResultIsLast
  <2>8. p \notin Held'
    BY <2>1, <2>2, <2>3 DEF Held
  <2>9. Upstream' = Upstream /\ p \notin Downstream'
    BY <1>1, <2>7, <2>8 DEF Upstream, Downstream
  <2>10. \A q \in Prompts : q \in Downstream' => q \in Downstream
    BY <1>1, <1>3, <2>2 DEF Downstream, Held
  <2>11. Unsent'
    BY <1>2, <1>3, <2>9, <2>10 DEF PipeInv, Unsent
  <2>12. Gone'
    BY <1>5, <2>6, <2>9, <2>10 DEF PipeInv, Gone
  <2>13. PromptOnce'
    <3>1. Users(outgoing) \subseteq Prompts /\ Elems(turn.inbox) \subseteq Prompts
      BY <1>0 DEF Users, Elems
    <3> QED BY <1>1, <2>10, <3>1 DEF PipeInv, PromptOnce
  <2>14. NoResultYet'
    BY <1>1, <1>3, <2>2 DEF PipeInv, NoResultYet
  <2>15. ResultIsLast'
    BY <1>0, <1>1, <1>3, <2>2 DEF PipeInv, ResultIsLast
  <2> QED BY <2>11, <2>12, <2>13, <2>14, <2>15 DEF PipeInv
<1>6. how' = how \/ how' = [how EXCEPT ![p] = IF hold[p] = Event("result", p) THEN "result" ELSE "other"]
  BY DEF Forward, Leave
<1> QED BY <1>4, <1>5, <1>6 DEF TypeInv, ReaderType

LEMMA NextPipe ==
    ASSUME TypeInv, OneReader, PipeInv, [Next]_vars
    PROVE  PipeInv'
<1>1. CASE CliTurns \/ SendLoop \/ ReadMessage
  BY <1>1, CliTurnsPipe, SendLoopPipe, ReadMessagePipe
<1>2. ASSUME NEW s \in Senders, Put(s) PROVE PipeInv'
  BY <1>2, PutPipe
<1>3. ASSUME NEW p \in Prompts, SendPrompt(p) \/ Take(p) \/ Forward(p) PROVE PipeInv'
  BY <1>3, SendPromptPipe, TakePipe, ForwardPipe
<1>4. CASE \/ Connect \/ DialSession \/ DialFails \/ Close \/ CloseEvents \/ ProcessExited
           \/ CliLinks \/ CliExits \/ Answer \/ ReadFails \/ Stderr \/ Interrupt \/ UNCHANGED vars
           \/ \E s \in Senders : CheckClosed(s)
           \/ \E p \in Prompts : GiveUp(p) \/ DrainStale(p)
  BY <1>4, CalmSteps, CalmPipe
<1> QED BY <1>1, <1>2, <1>3, <1>4 DEF Next

-----------------------------------------------------------------------------
(* The properties.                                                         *)

\* What a prompt is given is of its own turn when the prompts before it have
\* ended with their results.
LEMMA NextTurnsSeparate ==
    ASSUME TypeInv, OneReader, PipeInv, TurnsSeparate, [Next]_vars
    PROVE  TurnsSeparate'
<1> USE DEF link, process, prompts
<1>1. CASE Connect \/ DialSession \/ DialFails \/ Close \/ CloseEvents \/ ProcessExited \/ CliLinks
      \/ CliTurns \/ CliExits \/ SendLoop \/ ReadMessage \/ Answer \/ ReadFails \/ Stderr \/
      Interrupt \/ UNCHANGED vars
  BY <1>1 DEF Connect, CloseBegins, DialSession, DialFails, Close, CloseEvents, ProcessExited,
     CliLinks, CliTurns, Says, CliExits, SendLoop, ReadMessage, Sends, Answer, ReadFails, Stderr,
     Interrupt, vars, TurnsSeparate
<1>2. ASSUME NEW s \in Senders, CheckClosed(s) \/ Put(s) PROVE TurnsSeparate'
  BY <1>2 DEF CheckClosed, Put, TurnsSeparate
<1>3. ASSUME NEW p \in Prompts, SendPrompt(p) \/ GiveUp(p) PROVE TurnsSeparate'
  BY <1>3 DEF SendPrompt, MayPrompt, TurnsSeparate, GiveUp
<1>4. ASSUME NEW p \in Prompts, Take(p) PROVE TurnsSeparate'
  <2>1. UNCHANGED seen /\ \A q \in Prompts : how'[q] = "result" => how[q] = "result"
    BY <1>4 DEF Take, Leave, TypeInv, ReaderType
  <2> QED BY <2>1 DEF TurnsSeparate
<1>5. ASSUME NEW p \in Prompts, Forward(p) PROVE TurnsSeparate'
  <2>1. ReaderType /\ Prompts \subseteq Nat
    BY DEF TypeInv, Prompts
  <2>2. \A q \in Prompts : q # p => seen'[q] = seen[q] /\ how'[q] = how[q]
    BY <1>5, <2>1 DEF Forward, Leave, ReaderType
  <2>3. seen'[p] = seen[p] \cup ({hold[p].turn} \ {0})
    BY <1>5, <2>1 DEF Forward, ReaderType
  <2>4. Reading(p)
    BY <1>5 DEF Forward, Reading
  <2>5. \A q \in Prompts : q > p => reader[q] = "none" /\ seen[q] = {}
    BY <2>4 DEF OneReader, PipeInv, Unsent
  <2>6. ASSUME \A q \in Prompts : q < p => how'[q] = "result" PROVE seen'[p] \subseteq {p}
    <3>1. \A q \in Prompts : q < p => how[q] = "result"
      BY <2>1, <2>2, <2>6
    <3>2. seen[p] \subseteq {p}
      BY <3>1 DEF TurnsSeparate
    <3>3. hold[p].turn \in Downstream
      BY DEF Downstream, Held
    <3>4. \A q \in Prompts : q # p => q # hold[p].turn
      <4> SUFFICES ASSUME NEW q \in Prompts, q # p PROVE q \notin Downstream
        BY <3>3
      <4>1. CASE q < p
        BY <3>1, <4>1 DEF PipeInv, Gone
      <4>2. CASE q > p
        BY <2>5, <4>2 DEF PipeInv, Unsent
      <4> QED BY <2>1, <4>1, <4>2
    <3>5. hold[p].turn \in Prompts \cup {0}
      BY <2>1 DEF ReaderType, Messages, Prompts
    <3> QED BY <2>3, <3>2, <3>4, <3>5
  <2>7. ASSUME NEW r \in Prompts, r # p, \A q \in Prompts : q < r => how'[q] = "result" PROVE seen'[r] \subseteq {r}
    <3>1. CASE r > p
      BY <2>2, <2>5, <2>7, <3>1
    <3>2. CASE r < p
      <4>1. \A q \in Prompts : q < r => how[q] = "result"
        BY <2>1, <2>2, <2>7, <3>2
      <4> QED BY <2>2, <2>7, <4>1 DEF TurnsSeparate
    <3> QED BY <2>1, <2>7, <3>1, <3>2
  <2> QED BY <2>6, <2>7 DEF TurnsSeparate
<1>6. ASSUME NEW p \in Prompts, DrainStale(p) PROVE TurnsSeparate'
  <2>1. UNCHANGED seen /\ \A q \in Prompts : how'[q] = "result" => how[q] = "result"
    BY <1>6 DEF DrainStale, Leave, TypeInv, ReaderType
  <2> QED BY <2>1 DEF TurnsSeparate
<1> QED
  BY <1>1, <1>2, <1>3, <1>4, <1>5, <1>6 DEF Next

LEMMA InitInv == Init => SessionInv
<1> SUFFICES ASSUME Init PROVE SessionInv
  OBVIOUS
<1>1. wire = <<>> /\ events = <<>> /\ outgoing = <<>> /\ turn.inbox = <<>> /\ turn.prompt = 0 /\ turn = Idle
  BY DEF Init, Idle
<1>2. InHand = Nothing /\ \A r \in Prompts : hold[r] = Nothing
  BY DEF Init, InHand, Senders, Free
<1>3. Nothing \in Messages /\ Nothing.turn = 0 /\ \A q \in Prompts : Nothing # Event("result", q) /\ q # 0
  BY NothingType, ZeroIsNoPrompt
<1>4. QueueType
  BY <1>1 DEF QueueType
<1>5. TurnType
  BY <1>1, ZeroIsNoPrompt DEF TurnType, Idle
<1>6. SenderType
  BY <1>3 DEF Init, SenderType, Free, Senders
<1>7. ReaderType
  BY <1>3 DEF Init, ReaderType
<1>8. OneReader
  BY <1>2, <1>3 DEF Init, OneReader, Reading
<1>9. \A q \in Prompts : q \notin Upstream /\ q \notin Downstream
  BY <1>1, <1>2, <1>3, EmptyQueues DEF Upstream, Downstream, Held
<1>10. Unsent /\ Gone
  BY <1>9 DEF Init, Unsent, Gone
<1>11. PromptOnce /\ NoResultYet /\ ResultIsLast
  BY <1>1, <1>2, <1>3, EmptyQueues DEF PromptOnce, NoResultYet, ResultIsLast
<1>12. TurnsSeparate
  BY DEF Init, TurnsSeparate
<1> QED BY <1>4, <1>5, <1>6, <1>7, <1>8, <1>10, <1>11, <1>12 DEF SessionInv, TypeInv, PipeInv

\* The argument as a whole: prompts go one at a time through queues in which
\* nothing of a turn is behind its result.
THEOREM SessionInvariant == Spec => []SessionInv
<1>1. SessionInv /\ [Next]_vars => SessionInv'
  BY NextType, NextOneReader, NextPipe, NextTurnsSeparate DEF SessionInv
<1> QED BY <1>1, InitInv, PTL DEF Spec

\* SendPrompt's goroutine (websocket.go) passes its caller nothing of another
\* turn as long as every earlier prompt was ended by its own result, for any
\* number of prompts, any capacity of the channels, and whatever of exits,
\* cancelled callers, noise on stderr, interrupts and Close comes between.
THEOREM TurnsAreSeparate == Spec => []TurnsSeparate
  BY SessionInvariant, PTL DEF SessionInv

\* The compare-and-swap on promptInFlight keeps the prompts one at a time: no
\* two goroutines ever take from the one events channel together.
THEOREM OnePromptReads == Spec => [](\A p, q \in Prompts : Reading(p) /\ Reading(q) => p = q)
<1>1. SessionInv => \A p, q \in Prompts : Reading(p) /\ Reading(q) => p = q
  BY DEF SessionInv, OneReader
<1> QED BY <1>1, SessionInvariant, PTL

=============================================================================
