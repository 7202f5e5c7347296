---------------------------- MODULE EventStream ----------------------------
(***************************************************************************)
(* The event stream of a worktree socket: internal/socket/worktree.go and  *)
(* worktree_stream.go, fed by Conductor.emit and read by the web client    *)
(* (web/src/stores/projectStoreUI.ts).                                     *)
(*                                                                         *)
(* The conductor hands every event to a goroutine of its own, which gives  *)
(* it a sequence number, puts it into a ring buffer and offers it to the   *)
(* channel of every subscriber.  A client that reconnects says which       *)
(* number it saw last; the subscription is registered first, the ring      *)
(* buffer is replayed, and then the channel is drained to the connection.  *)
(*                                                                         *)
(* Events are numbered in the order of their emission; one client connects *)
(* again and again, connection by connection.  The heartbeat, which has no *)
(* number, only matters by the failure of its write.                       *)
(***************************************************************************)
EXTENDS Naturals, Sequences

CONSTANTS
  MaxEvents,     \* bound: events the conductor emits
  MaxConns,      \* bound: connections the client makes
  MaxRestarts,   \* bound: times the daemon is killed and started again
  BufSize,       \* replayBufSize
  ChanCap        \* capacity of a subscriber's channel

ASSUME StreamAssumption ==
  /\ MaxEvents \in Nat /\ MaxConns \in Nat /\ MaxRestarts \in Nat
  /\ BufSize \in Nat \ {0} /\ ChanCap \in Nat \ {0}

Events == 1..MaxEvents
Conns == 1..MaxConns

VARIABLES
  emitted,     \* events emitted so far
  goroutine,   \* of every event: where its listener goroutine is
  seq,         \* the number injectSeqAndBuffer gave it, 0 if none
  eventSeq,    \* WorktreeSocket.eventSeq
  replayBuf,   \* the ring buffer, oldest entry first
  streams,     \* WorktreeSocket.streams: the registered subscriptions
  ch, open,    \* their channels; a channel that is not open is closed
  sub,         \* where the subscribe handler, then its goroutine, is
  from,        \* params.LastSeq
  snap,        \* what the handler has still to replay
  cancelled,   \* the context of the server is done
  panics,      \* "send", "close": a channel was misused
  restarts,
  conn, link,  \* the client's latest connection; whether each is up
  wire,        \* written to the latest connection and not yet read
  lastSeq,     \* the client's highest number
  shown,       \* history: the events the client has processed
  backlog,     \* history: events sent before the subscription was registered
  dropped      \* history: events that found the latest channel full

server == <<eventSeq, replayBuf, streams, ch, open, sub, from, snap, cancelled, panics, restarts>>
client == <<conn, link, wire, lastSeq, shown>>
history == <<backlog, dropped>>
vars == <<emitted, goroutine, seq, server, client, history>>

Init ==
  /\ emitted = 0 /\ eventSeq = 0 /\ conn = 0 /\ lastSeq = 0 /\ restarts = 0
  /\ goroutine = [e \in Events |-> "none"]
  /\ seq = [e \in Events |-> 0]
  /\ replayBuf = <<>> /\ wire = <<>> /\ shown = <<>>
  /\ streams = {} /\ panics = {} /\ dropped = {}
  /\ ch = [c \in Conns |-> <<>>] /\ snap = [c \in Conns |-> <<>>]
  /\ open = [c \in Conns |-> FALSE]
  /\ sub = [c \in Conns |-> "none"]
  /\ from = [c \in Conns |-> 0]
  /\ backlog = [c \in Conns |-> {}]
  /\ link = [c \in Conns |-> "new"]
  /\ cancelled = FALSE

-----------------------------------------------------------------------------
(* The sender of an event.                                                 *)

\* Conductor.emit: go listener(e).
Emit ==
  /\ emitted < MaxEvents
  /\ emitted' = emitted + 1
  /\ goroutine' = [goroutine EXCEPT ![emitted + 1] = "spawned"]
  /\ UNCHANGED <<seq, server, client, history>>

\* injectSeqAndBuffer, its first line.
Number(e) ==
  /\ goroutine[e] = "spawned"
  /\ goroutine' = [goroutine EXCEPT ![e] = "numbered"]
  /\ eventSeq' = eventSeq + 1
  /\ seq' = [seq EXCEPT ![e] = eventSeq + 1]
  /\ UNCHANGED <<emitted, replayBuf, streams, ch, open, sub, from, snap, cancelled, panics, restarts,
                 client, history>>

\* A slot is overwritten once the ring is full.
Ring(buf, e) == LET b == Append(buf, e) IN IF Len(b) > BufSize THEN Tail(b) ELSE b

\* injectSeqAndBuffer, under replayMu.
Buffer(e) ==
  /\ goroutine[e] = "numbered"
  /\ goroutine' = [goroutine EXCEPT ![e] = "buffered"]
  /\ replayBuf' = Ring(replayBuf, e)
  /\ UNCHANGED <<emitted, seq, eventSeq, streams, ch, open, sub, from, snap, cancelled, panics, restarts,
                 client, history>>

\* Mutant of Offered.
MutOffered == { c \in streams : sub[c] = "live" }

\* The channels an event is offered to.
Offered == streams

\* The loop over the subscribers under the read lock: an event that finds a
\* channel full is dropped, one that finds it closed is a panic.
FanOut(e) ==
  /\ goroutine[e] = "buffered"
  /\ goroutine' = [goroutine EXCEPT ![e] = "sent"]
  /\ ch' = [c \in Conns |-> IF c \in Offered /\ open[c] /\ Len(ch[c]) < ChanCap
                            THEN Append(ch[c], e) ELSE ch[c]]
  /\ dropped' = IF conn \in Offered /\ open[conn] /\ Len(ch[conn]) = ChanCap
                THEN dropped \cup {e} ELSE dropped
  /\ panics' = IF \E c \in Offered : ~open[c] THEN panics \cup {"send"} ELSE panics
  /\ UNCHANGED <<emitted, seq, eventSeq, replayBuf, streams, open, sub, from, snap, cancelled, restarts,
                 client, backlog>>

-----------------------------------------------------------------------------
(* A subscription.                                                         *)

\* handleStreamSubscribe registers the channel before it looks at the buffer.
Subscribe ==
  /\ conn \in Conns /\ link[conn] = "up" /\ sub[conn] = "none"
  /\ sub' = [sub EXCEPT ![conn] = "registered"]
  /\ streams' = streams \cup {conn}
  /\ open' = [open EXCEPT ![conn] = TRUE]
  /\ from' = [from EXCEPT ![conn] = lastSeq]
  /\ backlog' = [backlog EXCEPT ![conn] = { e \in Events : goroutine[e] = "sent" }]
  /\ UNCHANGED <<emitted, goroutine, seq, eventSeq, replayBuf, ch, snap, cancelled, panics, restarts,
                 client, dropped>>

\* The entries that are looked at: none for a client that has seen no event.
Copied(last) == IF last > 0 THEN replayBuf ELSE <<>>

\* The copy of the ring buffer under replayMu.
Snapshot(c) ==
  /\ sub[c] = "registered"
  /\ sub' = [sub EXCEPT ![c] = "replaying"]
  /\ snap' = [snap EXCEPT ![c] = Copied(from[c])]
  /\ UNCHANGED <<emitted, goroutine, seq, eventSeq, replayBuf, streams, ch, open, from, cancelled, panics,
                 restarts, client, history>>

\* The entry the replay loop is at is one the client has not seen.
Missed(c) == snap[c] # <<>> /\ seq[Head(snap[c])] > from[c]

\* Mutant of Replay.
MutReplay(c) ==
  /\ sub[c] = "replaying"
  /\ \/ /\ snap[c] = <<>> /\ from[c] > 0
        /\ sub' = [sub EXCEPT ![c] = "live"]
        /\ UNCHANGED <<snap, wire>>
     \/ /\ Missed(c) /\ link[c] = "up"
        /\ wire' = Append(wire, Head(snap[c]))
        /\ snap' = [snap EXCEPT ![c] = Tail(@)]
        /\ UNCHANGED sub
     \/ /\ snap[c] # <<>> /\ ~Missed(c)
        /\ snap' = [snap EXCEPT ![c] = Tail(@)]
        /\ UNCHANGED <<sub, wire>>
  /\ UNCHANGED <<emitted, goroutine, seq, eventSeq, replayBuf, streams, ch, open, from, cancelled, panics,
                 restarts, conn, link, lastSeq, shown, history>>

\* One turn of the replay loop, which writes the entry or passes over it; behind
\* the last one the goroutine is started.
Replay(c) ==
  /\ sub[c] = "replaying"
  /\ \/ /\ snap[c] = <<>>
        /\ sub' = [sub EXCEPT ![c] = "live"]
        /\ UNCHANGED <<snap, wire>>
     \/ /\ Missed(c) /\ link[c] = "up"
        /\ wire' = Append(wire, Head(snap[c]))
        /\ snap' = [snap EXCEPT ![c] = Tail(@)]
        /\ UNCHANGED sub
     \/ /\ snap[c] # <<>> /\ ~Missed(c)
        /\ snap' = [snap EXCEPT ![c] = Tail(@)]
        /\ UNCHANGED <<sub, wire>>
  /\ UNCHANGED <<emitted, goroutine, seq, eventSeq, replayBuf, streams, ch, open, from, cancelled, panics,
                 restarts, conn, link, lastSeq, shown, history>>

\* Mutant of ReplayFails.
MutReplayFails(c) ==
  /\ sub[c] = "replaying" /\ Missed(c) /\ link[c] = "down"
  /\ sub' = [sub EXCEPT ![c] = "closing"]
  /\ open' = [open EXCEPT ![c] = FALSE]
  /\ UNCHANGED <<emitted, goroutine, seq, eventSeq, replayBuf, streams, ch, from, snap, cancelled, panics,
                 restarts, client, history>>

\* A write of the replay fails: the subscription is taken out under the lock,
ReplayFails(c) ==
  /\ sub[c] = "replaying" /\ Missed(c) /\ link[c] = "down"
  /\ sub' = [sub EXCEPT ![c] = "closing"]
  /\ streams' = streams \ {c}
  /\ UNCHANGED <<emitted, goroutine, seq, eventSeq, replayBuf, ch, open, from, snap, cancelled, panics,
                 restarts, client, history>>

\* and its channel is closed behind it.  Stop may have closed it already: a
\* panic, which RecoveryMiddleware turns into an error response.
CloseChannel(c) ==
  /\ sub[c] = "closing"
  /\ sub' = [sub EXCEPT ![c] = "ended"]
  /\ open' = [open EXCEPT ![c] = FALSE]
  /\ panics' = IF open[c] THEN panics ELSE panics \cup {"close"}
  /\ UNCHANGED <<emitted, goroutine, seq, eventSeq, replayBuf, streams, ch, from, snap, cancelled, restarts,
                 client, history>>

\* The goroutine takes an event from the channel and writes it.
Drain(c) ==
  /\ sub[c] = "live" /\ ch[c] # <<>> /\ link[c] = "up"
  /\ wire' = Append(wire, Head(ch[c]))
  /\ ch' = [ch EXCEPT ![c] = Tail(@)]
  /\ UNCHANGED <<emitted, goroutine, seq, eventSeq, replayBuf, streams, open, sub, from, snap, cancelled,
                 panics, restarts, conn, link, lastSeq, shown, history>>

\* Mutant of WriteFails.
MutWriteFails(c) == ch[c] # <<>> /\ link[c] = "down"

\* A write, of an event or of the heartbeat that comes every 30 seconds, fails.
WriteFails(c) == link[c] = "down"

\* What ends the goroutine: a failed write, its channel closed and drained, the
\* context done.  It leaves the subscribers on its way out.
Leave(c) ==
  /\ sub[c] = "live"
  /\ WriteFails(c) \/ (~open[c] /\ ch[c] = <<>>) \/ cancelled
  /\ sub' = [sub EXCEPT ![c] = "ended"]
  /\ streams' = streams \ {c}
  /\ UNCHANGED <<emitted, goroutine, seq, eventSeq, replayBuf, ch, open, from, snap, cancelled, panics,
                 restarts, client, history>>

-----------------------------------------------------------------------------
(* The end of the server.                                                  *)

\* GlobalSocket.Stop cancels the context of its worktree sockets,
Cancel ==
  /\ ~cancelled
  /\ cancelled' = TRUE
  /\ UNCHANGED <<emitted, goroutine, seq, eventSeq, replayBuf, streams, ch, open, sub, from, snap, panics,
                 restarts, client, history>>

\* and stops them: every channel is closed and the map replaced by an empty one.
\* A connection that is still served may subscribe to that one afterwards.
Stop ==
  /\ cancelled /\ streams # {}
  /\ open' = [c \in Conns |-> open[c] /\ c \notin streams]
  /\ panics' = IF \E c \in streams : ~open[c] THEN panics \cup {"close"} ELSE panics
  /\ streams' = {}
  /\ UNCHANGED <<emitted, goroutine, seq, eventSeq, replayBuf, ch, sub, from, snap, cancelled, restarts,
                 client, history>>

\* The daemon is killed and started again: the numbers start at 1 and the
\* events that were on their way are gone; the client still has its lastSeq.
Restart ==
  /\ restarts < MaxRestarts
  /\ restarts' = restarts + 1
  /\ eventSeq' = 0 /\ replayBuf' = <<>> /\ streams' = {} /\ cancelled' = FALSE
  /\ goroutine' = [e \in Events |-> IF goroutine[e] = "none" THEN "none" ELSE "gone"]
  /\ ch' = [c \in Conns |-> <<>>] /\ snap' = [c \in Conns |-> <<>>]
  /\ open' = [c \in Conns |-> FALSE]
  /\ sub' = [c \in Conns |-> IF c <= conn THEN "ended" ELSE "none"]
  /\ link' = [c \in Conns |-> IF c <= conn THEN "down" ELSE "new"]
  /\ wire' = <<>>
  /\ UNCHANGED <<emitted, seq, from, panics, conn, lastSeq, shown, history>>

-----------------------------------------------------------------------------
(* The client.                                                             *)

\* connect, on the way in and after a lost connection; lastSeq is kept.
Connect ==
  /\ conn < MaxConns /\ (conn > 0 => link[conn] = "down")
  /\ conn' = conn + 1
  /\ link' = [link EXCEPT ![conn + 1] = "up"]
  /\ dropped' = {}
  /\ UNCHANGED <<emitted, goroutine, seq, server, wire, lastSeq, shown, backlog>>

\* The connection breaks, or the server closes it; what was under way is lost.
Disconnect ==
  /\ conn > 0 /\ link[conn] = "up"
  /\ link' = [link EXCEPT ![conn] = "down"]
  /\ wire' = <<>>
  /\ UNCHANGED <<emitted, goroutine, seq, server, conn, lastSeq, shown, history>>

\* Mutant of Seen.
MutSeen(e) == seq[e] < lastSeq

\* What the client takes for processed already.
Seen(e) == seq[e] <= lastSeq

\* The handler of a message: events already seen are skipped.
Read ==
  /\ wire # <<>>
  /\ wire' = Tail(wire)
  /\ \/ Seen(Head(wire)) /\ UNCHANGED <<lastSeq, shown>>
     \/ /\ ~Seen(Head(wire))
        /\ lastSeq' = seq[Head(wire)]
        /\ shown' = Append(shown, Head(wire))
  /\ UNCHANGED <<emitted, goroutine, seq, server, conn, link, history>>

-----------------------------------------------------------------------------
Send(e) == Number(e) \/ Buffer(e) \/ FanOut(e)
Serve(c) == Snapshot(c) \/ Replay(c) \/ ReplayFails(c) \/ CloseChannel(c) \/ Drain(c) \/ Leave(c)

Next ==
  \/ Emit
  \/ \E e \in Events : Number(e) \/ Buffer(e) \/ FanOut(e)
  \/ Subscribe
  \/ \E c \in Conns : \/ Snapshot(c) \/ Replay(c) \/ ReplayFails(c) \/ CloseChannel(c)
                     \/ Drain(c) \/ Leave(c)
  \/ Cancel \/ Stop \/ Restart \/ Connect \/ Disconnect \/ Read

Spec == Init /\ [][Next]_vars

\* Goroutines that can go on do, and an open browser reads what arrives.
FairSpec ==
  /\ Spec
  /\ WF_vars(Read)
  /\ \A c \in Conns : WF_vars(Serve(c))

-----------------------------------------------------------------------------
(* Properties.                                                             *)

Entries(s) == { s[i] : i \in DOMAIN s }

\* The variables have their types, and neither the ring nor a channel is ever
\* longer than it was made.
TypeOK ==
  /\ emitted \in 0..MaxEvents /\ eventSeq \in 0..MaxEvents /\ lastSeq \in 0..MaxEvents
  /\ goroutine \in [Events -> {"none", "spawned", "numbered", "buffered", "sent", "gone"}]
  /\ seq \in [Events -> 0..MaxEvents]
  /\ replayBuf \in Seq(Events) /\ wire \in Seq(Events) /\ shown \in Seq(Events)
  /\ streams \subseteq Conns
  /\ Len(replayBuf) <= BufSize /\ \A c \in Conns : Len(ch[c]) <= ChanCap
  /\ ch \in [Conns -> Seq(Events)] /\ snap \in [Conns -> Seq(Events)]
  /\ open \in [Conns -> BOOLEAN]
  /\ sub \in [Conns -> {"none", "registered", "replaying", "live", "closing", "ended"}]
  /\ from \in [Conns -> 0..MaxEvents]
  /\ cancelled \in BOOLEAN /\ panics \subseteq {"send", "close"} /\ restarts \in 0..MaxRestarts
  /\ conn \in 0..MaxConns /\ link \in [Conns -> {"new", "up", "down"}]
  /\ backlog \in [Conns -> SUBSET Events] /\ dropped \subseteq Events

\* No event is sent on a channel that handleStreamSubscribe or Stop has closed,
\* which would end the daemon: the sender is a goroutine without a recover.
NoSendAfterClose == "send" \notin panics

\* An event that is both replayed and delivered live, or replayed to one
\* connection after another, is processed once by the client.
ShownOnce == \A i, j \in DOMAIN shown : shown[i] = shown[j] => i = j

\* "Subscribe before snapshotting the buffer so no events are missed between
\* replay and live delivery": while a subscription is in place, every event that
\* went out and that the client would still accept is on its way to it.  Excused
\* are a full channel, an entry the ring has overwritten, and what went out
\* before the first connection of a client that has seen nothing.
NothingMissed ==
  conn \in streams /\ link[conn] = "up" =>
    \A e \in Events : goroutine[e] = "sent" /\ seq[e] > lastSeq =>
      \/ e \in Entries(wire) \cup Entries(snap[conn]) \cup Entries(ch[conn]) \cup dropped
      \/ /\ e \in backlog[conn]
         /\ from[conn] = 0 \/ e \notin Entries(replayBuf) \/ sub[conn] = "registered"

\* What the server still holds for the client of a connection arrives, unless
\* the connection breaks or the server is stopped.
Delivered ==
  \A e \in Events :
    conn \in streams /\ e \in Entries(ch[conn]) \cup Entries(snap[conn])
      ~> seq[e] <= lastSeq \/ conn \notin streams \/ link[conn] = "down"

\* The subscription of a connection that is gone does not stay: the heartbeat
\* notices it when no event does.
DeadSubscriptionsLeave == \A c \in Conns : link[c] = "down" ~> c \notin streams

-----------------------------------------------------------------------------
(* What a comment of the client promises and an interleaving breaks.       *)

\* An event that is skipped as "already processed" has been processed.
SkippedWasShown == wire # <<>> /\ Seen(Head(wire)) => Head(wire) \in Entries(shown)
=============================================================================
