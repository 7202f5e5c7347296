------------------------- MODULE EventStreamProofs -------------------------
(***************************************************************************)
(* Proofs about EventStream, for any number of events, connections and     *)
(* restarts, any ring and any channel capacity: no send on a closed        *)
(* channel, and what a client that reconnects is shown.                    *)
(***************************************************************************)
EXTENDS EventStream, FiniteSets, FiniteSetTheorems, SequenceTheorems, TLAPS

\* The events injectSeqAndBuffer of this process has numbered.
Counted == { e \in Events : goroutine[e] \in {"numbered", "buffered", "sent"} }

\* No number is given twice, so that there are not more of them than events; an
\* event that was not emitted has no goroutine.
CountInv ==
  /\ eventSeq <= Cardinality(Counted)
  /\ \A e \in Events : e > emitted => goroutine[e] = "none"

\* A registered channel is open and its subscription has not begun to end;
\* there is nothing yet of a connection the client has not made.
SubInv ==
  /\ \A c \in streams : open[c] /\ sub[c] \in {"registered", "replaying", "live"}
  /\ \A c \in Conns : c > conn => sub[c] = "none"
  /\ \A c \in Conns : sub[c] \in {"none", "registered"} => snap[c] = <<>>

\* An event that has its number for good.
Numbered(e) == goroutine[e] \in {"numbered", "buffered", "sent", "gone"}

\* Whatever holds an event got it behind its numbering.
HeldInv ==
  /\ \A e \in Entries(replayBuf) \cup Entries(wire) \cup Entries(shown) : Numbered(e)
  /\ \A c \in Conns : \A e \in Entries(ch[c]) \cup Entries(snap[c]) : Numbered(e)

\* The number the client asks from, and those of what it has processed, are not
\* above its lastSeq.
SeenInv ==
  /\ \A c \in Conns : from[c] <= lastSeq
  /\ \A e \in Entries(shown) : seq[e] <= lastSeq

StreamInv ==
  TypeOK /\ CountInv /\ SubInv /\ HeldInv /\ SeenInv /\ NoSendAfterClose /\ ShownOnce /\ NothingMissed

-----------------------------------------------------------------------------
(* Sequences of events.                                                    *)

\* Sending on a channel, a connection or into the ring adds the event.
LEMMA EntriesAppend ==
    ASSUME NEW s \in Seq(Events), NEW e \in Events
    PROVE  /\ Append(s, e) \in Seq(Events)
           /\ Len(Append(s, e)) = Len(s) + 1
           /\ Entries(Append(s, e)) = Entries(s) \cup {e}
<1>1. /\ Append(s, e) \in Seq(Events) /\ Len(Append(s, e)) = Len(s) + 1 /\ Len(s) \in Nat
      /\ \A i \in 1..Len(s) : Append(s, e)[i] = s[i]
      /\ Append(s, e)[Len(s) + 1] = e
      /\ DOMAIN s = 1..Len(s) /\ DOMAIN Append(s, e) = 1..Len(s) + 1
  OBVIOUS
<1>2. ASSUME NEW i \in 1..Len(s) + 1 PROVE Append(s, e)[i] \in Entries(s) \cup {e}
  BY <1>1 DEF Entries
<1>3. Entries(s) \cup {e} \subseteq Entries(Append(s, e))
  <2>1. ASSUME NEW i \in 1..Len(s) PROVE s[i] \in Entries(Append(s, e))
    <3>1. i \in 1..Len(s) + 1 BY <1>1
    <3> QED BY <1>1, <3>1 DEF Entries
  <2>2. e \in Entries(Append(s, e))
    <3>1. Len(s) + 1 \in 1..Len(s) + 1 BY <1>1
    <3> QED BY <1>1, <3>1 DEF Entries
  <2> QED BY <1>1, <2>1, <2>2 DEF Entries
<1> QED BY <1>1, <1>2, <1>3 DEF Entries

\* Receiving takes the head and leaves the rest.
LEMMA EntriesTail ==
    ASSUME NEW s \in Seq(Events), s # <<>>
    PROVE  /\ Tail(s) \in Seq(Events)
           /\ Len(Tail(s)) = Len(s) - 1
           /\ Head(s) \in Events
           /\ Entries(s) = Entries(Tail(s)) \cup {Head(s)}
<1>1. /\ Tail(s) \in Seq(Events) /\ Len(Tail(s)) = Len(s) - 1 /\ Head(s) \in Events
      /\ Len(s) \in Nat \ {0} /\ Head(s) = s[1]
      /\ \A i \in 1..Len(Tail(s)) : Tail(s)[i] = s[i + 1]
      /\ DOMAIN s = 1..Len(s) /\ DOMAIN Tail(s) = 1..Len(Tail(s))
  OBVIOUS
<1>2. ASSUME NEW i \in 1..Len(s) PROVE s[i] \in Entries(Tail(s)) \cup {Head(s)}
  <2>1. CASE i = 1 BY <1>1, <2>1
  <2>2. CASE i # 1
    <3>1. i - 1 \in 1..Len(Tail(s)) /\ Tail(s)[i - 1] = s[i]
      BY <1>1, <2>2
    <3> QED BY <1>1, <3>1 DEF Entries
  <2> QED BY <2>1, <2>2
<1>3. ASSUME NEW i \in 1..Len(Tail(s)) PROVE Tail(s)[i] \in Entries(s)
  <2>1. i + 1 \in 1..Len(s) /\ Tail(s)[i] = s[i + 1]
    BY <1>1
  <2> QED BY <2>1 DEF Entries
<1>4. Head(s) \in Entries(s)
  BY <1>1 DEF Entries
<1> QED
  BY <1>1, <1>2, <1>3, <1>4 DEF Entries

LEMMA EntriesEmpty == <<>> \in Seq(Events) /\ Len(<<>>) = 0 /\ Entries(<<>>) = {}
  BY DEF Entries

LEMMA EntriesInEvents == \A s \in Seq(Events) : Entries(s) \subseteq Events
  BY DEF Entries

\* The ring never grows past its size and holds nothing but what was put in.
LEMMA RingKeeps ==
    ASSUME NEW buf \in Seq(Events), Len(buf) <= BufSize, NEW e \in Events
    PROVE  /\ Ring(buf, e) \in Seq(Events)
           /\ Len(Ring(buf, e)) <= BufSize
           /\ Entries(Ring(buf, e)) \subseteq Entries(buf) \cup {e}
<1>1. Append(buf, e) \in Seq(Events) /\ Len(Append(buf, e)) = Len(buf) + 1
      /\ Entries(Append(buf, e)) = Entries(buf) \cup {e} /\ Append(buf, e) # <<>> /\ Len(buf) \in Nat
  BY EntriesAppend
<1>2. CASE Len(Append(buf, e)) > BufSize
  <2> DEFINE b == Append(buf, e)
  <2>1. Tail(b) \in Seq(Events) /\ Len(Tail(b)) = Len(b) - 1 /\ Entries(b) = Entries(Tail(b)) \cup {Head(b)}
    BY <1>1, EntriesTail
  <2>2. Ring(buf, e) = Tail(b)
    BY <1>2 DEF Ring
  <2> HIDE DEF b
  <2> QED BY <1>1, <2>1, <2>2, StreamAssumption DEF b
<1>3. CASE ~(Len(Append(buf, e)) > BufSize)
  BY <1>1, <1>3, StreamAssumption DEF Ring
<1> QED BY <1>2, <1>3

-----------------------------------------------------------------------------
(* Types.                                                                  *)

LEMMA InitType == Init => TypeOK
<1> SUFFICES ASSUME Init PROVE TypeOK
  OBVIOUS
<1>1. cancelled \in BOOLEAN /\ open \in [Conns -> BOOLEAN]
  BY Zenon DEF Init
<1> QED
  BY <1>1, EntriesEmpty, StreamAssumption DEF Init, TypeOK

\* Counting: the numbers of one process suffice for all events.
LEMMA CountedFinite ==
    IsFiniteSet(Events) /\ Cardinality(Events) = MaxEvents /\ IsFiniteSet(Counted)
    /\ Cardinality(Counted) \in Nat
<1>1. IsFiniteSet(Events) /\ Cardinality(Events) = MaxEvents
  BY FS_Interval, StreamAssumption DEF Events
<1>2. Counted \subseteq Events
  BY DEF Counted
<1> QED BY <1>1, <1>2, FS_Subset, FS_CardinalityType

LEMMA NumbersSuffice ==
    ASSUME TypeOK, CountInv, NEW e \in Events, Number(e)
    PROVE  eventSeq + 1 \in 0..MaxEvents /\ CountInv'
<1>1. e \notin Counted /\ Counted' = Counted \cup {e} /\ Counted' \subseteq Events
  BY DEF Number, Counted, TypeOK
<1>2. Cardinality(Counted') = Cardinality(Counted) + 1
  BY <1>1, CountedFinite, FS_AddElement
<1>3. Cardinality(Counted') <= MaxEvents
  BY <1>1, CountedFinite, FS_Subset
<1> QED
  BY <1>2, <1>3, CountedFinite, StreamAssumption DEF CountInv, Number, TypeOK

\* Every step keeps the types, the ring and the channels within their lengths.
LEMMA NextType ==
    ASSUME TypeOK, CountInv, [Next]_vars
    PROVE  TypeOK'
<1> USE DEF TypeOK, server, client, history
<1>1. CASE Emit
  BY <1>1, StreamAssumption DEF Emit, Events
<1>2. ASSUME NEW e \in Events, Number(e) PROVE TypeOK'
  <2>1. eventSeq' \in 0..MaxEvents
    BY <1>2, NumbersSuffice DEF Number
  <2> QED BY <1>2, <2>1 DEF Number
<1>3. ASSUME NEW e \in Events, Buffer(e) PROVE TypeOK'
  BY <1>3, RingKeeps DEF Buffer
<1>4. ASSUME NEW e \in Events, FanOut(e) PROVE TypeOK'
  <2>1. ASSUME NEW c \in Conns PROVE ch'[c] \in Seq(Events) /\ Len(ch'[c]) <= ChanCap
    <3>1. CASE c \in Offered /\ open[c] /\ Len(ch[c]) < ChanCap
      <4>1. ch'[c] = Append(ch[c], e) BY <1>4, <3>1 DEF FanOut
      <4>2. Len(ch[c]) \in Nat OBVIOUS
      <4> QED BY <3>1, <4>1, <4>2, EntriesAppend, StreamAssumption
    <3>2. CASE ~(c \in Offered /\ open[c] /\ Len(ch[c]) < ChanCap)
      BY <1>4, <3>2 DEF FanOut
    <3> QED BY <3>1, <3>2
  <2>2. ch' \in [Conns -> Seq(Events)]
    BY <1>4, <2>1 DEF FanOut
  <2> QED BY <1>4, <2>1, <2>2 DEF FanOut
<1>5. CASE Subscribe
  BY <1>5, StreamAssumption DEF Subscribe
<1>6. ASSUME NEW c \in Conns, Snapshot(c) PROVE TypeOK'
  <2>1. Copied(from[c]) \in Seq(Events)
    BY EntriesEmpty DEF Copied
  <2> QED BY <1>6, <2>1 DEF Snapshot
<1>7. ASSUME NEW c \in Conns, Replay(c) PROVE TypeOK'
  <2>1. CASE snap[c] = <<>> /\ UNCHANGED <<snap, wire>>
    BY <1>7, <2>1 DEF Replay
  <2>2. CASE snap[c] # <<>>
    <3>1. Tail(snap[c]) \in Seq(Events) /\ Head(snap[c]) \in Events
      BY <2>2, EntriesTail
    <3>2. Append(wire, Head(snap[c])) \in Seq(Events)
      BY <3>1, EntriesAppend
    <3> QED BY <1>7, <2>2, <3>1, <3>2, ZenonT(40) DEF Replay
  <2> QED BY <1>7, <2>1, <2>2 DEF Replay, Missed
<1>8. ASSUME NEW c \in Conns, ReplayFails(c) PROVE TypeOK'
  BY <1>8, StreamAssumption DEF ReplayFails, Missed
<1>9. ASSUME NEW c \in Conns, CloseChannel(c) PROVE TypeOK'
  BY <1>9, StreamAssumption DEF CloseChannel
<1>10. ASSUME NEW c \in Conns, Drain(c) PROVE TypeOK'
  <2>1. Tail(ch[c]) \in Seq(Events) /\ Head(ch[c]) \in Events /\ Len(Tail(ch[c])) <= ChanCap
    BY <1>10, EntriesTail, StreamAssumption DEF Drain
  <2>2. Append(wire, Head(ch[c])) \in Seq(Events)
    BY <2>1, EntriesAppend
  <2> QED BY <1>10, <2>1, <2>2 DEF Drain
<1>11. ASSUME NEW c \in Conns, Leave(c) PROVE TypeOK'
  BY <1>11, StreamAssumption DEF Leave, WriteFails
<1>12. CASE Cancel
  BY <1>12, StreamAssumption DEF Cancel
<1>13. CASE Stop
  <2>1. open' \in [Conns -> BOOLEAN]
    BY <1>13, Zenon DEF Stop
  <2> QED BY <1>13, <2>1 DEF Stop
<1>14. CASE Restart
  <2>1. cancelled' \in BOOLEAN /\ open' \in [Conns -> BOOLEAN]
    BY <1>14, Zenon DEF Restart
  <2>2. restarts' \in 0..MaxRestarts
    BY <1>14, StreamAssumption DEF Restart
  <2> QED BY <1>14, <2>1, <2>2, EntriesEmpty, StreamAssumption DEF Restart
<1>15. CASE Connect
  <2>1. conn' \in 0..MaxConns
    BY <1>15, StreamAssumption DEF Connect
  <2> QED BY <1>15, <2>1 DEF Connect
<1>16. CASE Disconnect
  BY <1>16, EntriesEmpty DEF Disconnect
<1>17. CASE Read
  <2>1. Tail(wire) \in Seq(Events) /\ Head(wire) \in Events
    BY <1>17, EntriesTail DEF Read
  <2>2. Append(shown, Head(wire)) \in Seq(Events)
    BY <2>1, EntriesAppend
  <2>3. seq[Head(wire)] \in 0..MaxEvents
    BY <2>1
  <2> QED BY <1>17, <2>1, <2>2, <2>3 DEF Read, Seen
<1>18. CASE UNCHANGED vars
  BY <1>18, StreamAssumption DEF vars
<1> QED
  BY <1>1, <1>2, <1>3, <1>4, <1>5, <1>6, <1>7, <1>8, <1>9, <1>10, <1>11, <1>12, <1>13, <1>14, <1>15,
     <1>16, <1>17, <1>18 DEF Next

\* A number is used for one event.
LEMMA NextCount ==
    ASSUME TypeOK, CountInv, [Next]_vars
    PROVE  CountInv'
<1> USE DEF CountInv, server, client, history
<1>1. CASE Subscribe \/ Cancel \/ Stop \/ Connect \/ Disconnect \/ Read \/ UNCHANGED vars
  BY <1>1 DEF Subscribe, Counted, Cancel, Stop, Connect, Disconnect, Read, Seen, vars
<1>2. ASSUME NEW c \in Conns, Snapshot(c) \/ Replay(c) \/ ReplayFails(c) \/ CloseChannel(c) \/
      Drain(c) \/ Leave(c) PROVE CountInv'
  BY <1>2 DEF Snapshot, Copied, Counted, Replay, Missed, ReplayFails, CloseChannel, Drain, Leave,
     WriteFails
<1>3. CASE Emit
  <2>1. emitted + 1 \in Events /\ goroutine[emitted + 1] = "none"
    BY <1>3, StreamAssumption DEF Emit, Events, TypeOK
  <2>2. Counted' = Counted
    BY <1>3, <2>1 DEF Emit, Counted, TypeOK
  <2> QED BY <1>3, <2>1, <2>2 DEF Emit, TypeOK, Events
<1>4. ASSUME NEW e \in Events, Number(e) PROVE CountInv'
  BY <1>4, NumbersSuffice
<1>5. ASSUME NEW e \in Events, Buffer(e) PROVE CountInv'
  <2>1. Counted' = Counted
    BY <1>5 DEF Buffer, Counted, TypeOK
  <2> QED BY <1>5, <2>1 DEF Buffer, TypeOK
<1>6. ASSUME NEW e \in Events, FanOut(e) PROVE CountInv'
  <2>1. Counted' = Counted
    BY <1>6 DEF FanOut, Counted, TypeOK
  <2> QED BY <1>6, <2>1 DEF FanOut, TypeOK
<1>7. CASE Restart
  <2>1. Counted' \subseteq Events /\ IsFiniteSet(Counted')
    BY CountedFinite, FS_Subset DEF Counted
  <2>2. Cardinality(Counted') \in Nat
    BY <2>1, FS_CardinalityType
  <2> QED BY <1>7, <2>2 DEF Restart, TypeOK
<1> QED
  BY <1>1, <1>2, <1>3, <1>4, <1>5, <1>6, <1>7 DEF Next

-----------------------------------------------------------------------------
(* Subscriptions.                                                          *)

\* A channel leaves the subscribers before, or together with, its closing.
LEMMA NextSub ==
    ASSUME TypeOK, SubInv, [Next]_vars
    PROVE  SubInv'
<1> USE DEF TypeOK, SubInv, server, client, history
<1>1. CASE Emit \/ Cancel \/ Disconnect \/ Read \/ UNCHANGED vars
  BY <1>1, StreamAssumption DEF Emit, Cancel, Disconnect, Read, Seen, vars
<1>2. ASSUME NEW e \in Events, Number(e) \/ Buffer(e) \/ FanOut(e) PROVE SubInv'
  BY <1>2, StreamAssumption, SMTT(30) DEF Number, Buffer, FanOut, Offered
<1>3. CASE Subscribe
  <2>1. conn \in Conns /\ sub[conn] = "none" /\ sub' = [sub EXCEPT ![conn] = "registered"]
    BY <1>3 DEF Subscribe
  <2>2. \A c \in Conns : c > conn => c # conn
    OBVIOUS
  <2> QED BY <1>3, <2>1, <2>2 DEF Subscribe
<1>4. ASSUME NEW c \in Conns, Snapshot(c) PROVE SubInv'
  BY <1>4, StreamAssumption DEF Snapshot, Copied
<1>5. ASSUME NEW c \in Conns, Replay(c) PROVE SubInv'
  <2>1. sub'[c] \in {"replaying", "live"} /\ \A d \in Conns \ {c} : sub'[d] = sub[d] /\ snap'[d] = snap[d]
    BY <1>5 DEF Replay
  <2> QED BY <1>5, <2>1 DEF Replay
<1>6. ASSUME NEW c \in Conns, ReplayFails(c) PROVE SubInv'
  BY <1>6, StreamAssumption DEF ReplayFails, Missed
<1>7. ASSUME NEW c \in Conns, CloseChannel(c) PROVE SubInv'
  BY <1>7, StreamAssumption DEF CloseChannel
<1>8. ASSUME NEW c \in Conns, Drain(c) PROVE SubInv'
  BY <1>8, StreamAssumption DEF Drain
<1>9. ASSUME NEW c \in Conns, Leave(c) PROVE SubInv'
  BY <1>9, StreamAssumption DEF Leave, WriteFails
<1>10. CASE Stop
  BY <1>10, StreamAssumption DEF Stop
<1>11. CASE Restart
  BY <1>11, StreamAssumption DEF Restart, Conns
<1>12. CASE Connect
  BY <1>12, StreamAssumption DEF Connect, Conns
<1> QED
  BY <1>1, <1>2, <1>3, <1>4, <1>5, <1>6, <1>7, <1>8, <1>9, <1>10, <1>11, <1>12 DEF Next

\* FanOut finds every registered channel open.
LEMMA NextSend ==
    ASSUME TypeOK, SubInv, NoSendAfterClose, [Next]_vars
    PROVE  NoSendAfterClose'
<1> USE DEF NoSendAfterClose, server, client, history
<1>1. CASE Emit \/ Subscribe \/ Restart \/ Connect \/ Cancel \/ Disconnect \/ Read \/ UNCHANGED vars
  BY <1>1 DEF Emit, Subscribe, Restart, Connect, Cancel, Disconnect, Read, Seen, vars
<1>2. ASSUME NEW e \in Events, Number(e) \/ Buffer(e) PROVE NoSendAfterClose'
  BY <1>2 DEF Number, Buffer
<1>3. ASSUME NEW c \in Conns, Snapshot(c) \/ Replay(c) \/ ReplayFails(c) \/ CloseChannel(c) \/
      Drain(c) \/ Leave(c) PROVE NoSendAfterClose'
  BY <1>3 DEF Snapshot, Copied, Replay, Missed, ReplayFails, CloseChannel, Drain, Leave, WriteFails
<1>4. ASSUME NEW e \in Events, FanOut(e) PROVE NoSendAfterClose'
  BY <1>4 DEF FanOut, Offered, SubInv, TypeOK
<1>5. CASE Stop
  BY <1>5 DEF Stop
<1> QED
  BY <1>1, <1>2, <1>3, <1>4, <1>5 DEF Next

-----------------------------------------------------------------------------
(* What the client is shown.                                               *)

\* What the server and the client hold are events.
LEMMA Held ==
    ASSUME TypeOK
    PROVE  /\ Entries(replayBuf) \cup Entries(wire) \cup Entries(shown) \subseteq Events
           /\ \A c \in Conns : Entries(ch[c]) \cup Entries(snap[c]) \subseteq Events
  BY EntriesInEvents DEF TypeOK

\* Only numbered events are buffered, sent, written and shown.
LEMMA NextHeld ==
    ASSUME TypeOK, CountInv, HeldInv, [Next]_vars
    PROVE  HeldInv'
<1> USE DEF server, client, history
<1>1. CASE Subscribe \/ Cancel \/ Stop \/ Connect \/ UNCHANGED vars
  BY <1>1 DEF Subscribe, HeldInv, Numbered, Cancel, Stop, Connect, vars
<1>2. ASSUME NEW c \in Conns, ReplayFails(c) \/ CloseChannel(c) \/ Leave(c) PROVE HeldInv'
  BY <1>2 DEF ReplayFails, Missed, HeldInv, Numbered, CloseChannel, Leave, WriteFails
<1>3. CASE Emit
  <2>1. emitted + 1 \in Events /\ goroutine[emitted + 1] = "none"
    BY <1>3, StreamAssumption DEF Emit, Events, TypeOK, CountInv
  <2>2. \A e \in Events : Numbered(e) => Numbered(e)'
    BY <1>3, <2>1 DEF Emit, TypeOK, Numbered
  <2> QED BY <1>3, <2>2, Held DEF Emit, HeldInv
<1>4. ASSUME NEW e \in Events, Number(e) PROVE HeldInv'
  <2>1. \A f \in Events : Numbered(f) => Numbered(f)'
    BY <1>4 DEF Number, TypeOK, Numbered
  <2> QED BY <1>4, <2>1, Held DEF Number, HeldInv
<1>5. ASSUME NEW e \in Events, Buffer(e) PROVE HeldInv'
  <2>1. \A f \in Events : Numbered(f) => Numbered(f)'
    BY <1>5 DEF Buffer, TypeOK, Numbered
  <2>2. Numbered(e)' /\ Entries(replayBuf') \subseteq Entries(replayBuf) \cup {e}
    BY <1>5, RingKeeps DEF Buffer, TypeOK, Numbered
  <2> QED BY <1>5, <2>1, <2>2, Held DEF Buffer, HeldInv
<1>6. ASSUME NEW e \in Events, FanOut(e) PROVE HeldInv'
  <2>1. Numbered(e)' /\ \A f \in Events : Numbered(f) => Numbered(f)'
    BY <1>6 DEF FanOut, TypeOK, Numbered
  <2>2. ASSUME NEW c \in Conns PROVE Entries(ch'[c]) \subseteq Entries(ch[c]) \cup {e}
    <3>1. ch'[c] \in {ch[c], Append(ch[c], e)}
      BY <1>6 DEF FanOut
    <3> QED BY <3>1, EntriesAppend DEF TypeOK
  <2> QED BY <1>6, <2>1, <2>2, Held DEF FanOut, HeldInv
<1>7. ASSUME NEW c \in Conns, Snapshot(c) PROVE HeldInv'
  <2>1. Entries(Copied(from[c])) \subseteq Entries(replayBuf)
    BY EntriesEmpty DEF Copied
  <2> QED BY <1>7, <2>1 DEF Snapshot, HeldInv, Numbered, TypeOK
<1>8. ASSUME NEW c \in Conns, Replay(c) PROVE HeldInv'
  <2>1. CASE UNCHANGED <<snap, wire>>
    BY <1>8, <2>1 DEF Replay, HeldInv, Numbered
  <2>2. CASE snap[c] # <<>> /\ snap' = [snap EXCEPT ![c] = Tail(snap[c])]
    <3>1. Entries(snap[c]) = Entries(Tail(snap[c])) \cup {Head(snap[c])} /\ Head(snap[c]) \in Events
      BY <2>2, EntriesTail DEF TypeOK
    <3>2. Entries(Append(wire, Head(snap[c]))) = Entries(wire) \cup {Head(snap[c])}
      BY <3>1, EntriesAppend DEF TypeOK
    <3> QED BY <1>8, <2>2, <3>1, <3>2 DEF Replay, HeldInv, Numbered, TypeOK
  <2> QED BY <1>8, <2>1, <2>2 DEF Replay, Missed
<1>9. ASSUME NEW c \in Conns, Drain(c) PROVE HeldInv'
  <2>1. Entries(ch[c]) = Entries(Tail(ch[c])) \cup {Head(ch[c])} /\ Head(ch[c]) \in Events
    BY <1>9, EntriesTail DEF Drain, TypeOK
  <2>2. Entries(Append(wire, Head(ch[c]))) = Entries(wire) \cup {Head(ch[c])}
    BY <2>1, EntriesAppend DEF TypeOK
  <2> QED BY <1>9, <2>1, <2>2 DEF Drain, HeldInv, Numbered, TypeOK
<1>10. CASE Restart
  <2>1. \A e \in Events : Numbered(e) => Numbered(e)'
    BY <1>10 DEF Restart, TypeOK, Numbered
  <2> QED BY <1>10, <2>1, Held, EntriesEmpty DEF Restart, HeldInv
<1>11. CASE Disconnect
  BY <1>11, EntriesEmpty DEF Disconnect, HeldInv, Numbered
<1>12. CASE Read
  <2>1. Entries(wire) = Entries(Tail(wire)) \cup {Head(wire)} /\ Head(wire) \in Events
    BY <1>12, EntriesTail DEF Read, TypeOK
  <2>2. Entries(Append(shown, Head(wire))) = Entries(shown) \cup {Head(wire)}
    BY <2>1, EntriesAppend DEF TypeOK
  <2> QED BY <1>12, <2>1, <2>2 DEF Read, Seen, HeldInv, Numbered
<1> QED
  BY <1>1, <1>2, <1>3, <1>4, <1>5, <1>6, <1>7, <1>8, <1>9, <1>10, <1>11, <1>12 DEF Next

\* lastSeq covers what was shown.
LEMMA NextSeen ==
    ASSUME TypeOK, HeldInv, SeenInv, [Next]_vars
    PROVE  SeenInv'
<1> USE DEF server, client, history
<1>1. CASE Emit \/ Cancel \/ Stop \/ Connect \/ Disconnect \/ Restart \/ UNCHANGED vars
  BY <1>1 DEF Emit, SeenInv, Cancel, Stop, Connect, Disconnect, Restart, vars
<1>2. ASSUME NEW e \in Events, Buffer(e) \/ FanOut(e) PROVE SeenInv'
  BY <1>2 DEF Buffer, SeenInv, FanOut, Offered
<1>3. ASSUME NEW c \in Conns, Snapshot(c) \/ Replay(c) \/ ReplayFails(c) \/ CloseChannel(c) \/
      Drain(c) \/ Leave(c) PROVE SeenInv'
  BY <1>3 DEF Snapshot, Copied, SeenInv, Replay, Missed, ReplayFails, CloseChannel, Drain, Leave,
     WriteFails
<1>4. ASSUME NEW e \in Events, Number(e) PROVE SeenInv'
  <2>1. e \notin Entries(shown) /\ Entries(shown) \subseteq Events
    BY <1>4, Held DEF Number, HeldInv, Numbered
  <2> QED BY <1>4, <2>1 DEF Number, SeenInv, TypeOK
<1>5. CASE Subscribe
  BY <1>5 DEF Subscribe, SeenInv, TypeOK
<1>6. CASE Read
  <2>1. Head(wire) \in Events
    BY <1>6, EntriesTail DEF Read, TypeOK
  <2>2. Entries(Append(shown, Head(wire))) = Entries(shown) \cup {Head(wire)}
    BY <2>1, EntriesAppend DEF TypeOK
  <2>3. lastSeq <= lastSeq' /\ lastSeq' \in 0..MaxEvents
    BY <1>6, <2>1 DEF Read, Seen, TypeOK
  <2>4. \A c \in Conns : from[c] <= lastSeq'
    BY <2>3 DEF SeenInv, TypeOK
  <2>5. \A e \in Entries(shown') : seq[e] <= lastSeq'
    <3>1. CASE UNCHANGED <<lastSeq, shown>> BY <3>1 DEF SeenInv
    <3>2. CASE lastSeq' = seq[Head(wire)] /\ shown' = Append(shown, Head(wire))
      <4>1. ASSUME NEW e \in Entries(shown) PROVE seq[e] <= lastSeq'
        <5>1. seq[e] \in Nat BY Held DEF TypeOK
        <5> QED BY <2>3, <5>1 DEF SeenInv, TypeOK
      <4>2. seq[Head(wire)] <= lastSeq'
        BY <2>1, <3>2 DEF TypeOK
      <4> QED BY <2>2, <3>2, <4>1, <4>2
    <3> QED BY <1>6, <3>1, <3>2 DEF Read
  <2> QED BY <1>6, <2>4, <2>5 DEF Read, SeenInv
<1> QED
  BY <1>1, <1>2, <1>3, <1>4, <1>5, <1>6 DEF Next

\* The client accepts an event only with a number above all it was shown.
LEMMA NextOnce ==
    ASSUME TypeOK, SeenInv, ShownOnce, [Next]_vars
    PROVE  ShownOnce'
<1> USE DEF server, client, history
<1>1. CASE Emit \/ Subscribe \/ Cancel \/ Stop \/ Connect \/ Disconnect \/ Restart \/ UNCHANGED vars
  BY <1>1 DEF Emit, ShownOnce, Subscribe, Cancel, Stop, Connect, Disconnect, Restart, vars
<1>2. ASSUME NEW e \in Events, Number(e) \/ Buffer(e) \/ FanOut(e) PROVE ShownOnce'
  BY <1>2 DEF Number, ShownOnce, Buffer, FanOut, Offered
<1>3. ASSUME NEW c \in Conns, Snapshot(c) \/ Replay(c) \/ ReplayFails(c) \/ CloseChannel(c) \/
      Drain(c) \/ Leave(c) PROVE ShownOnce'
  BY <1>3 DEF Snapshot, Copied, ShownOnce, Replay, Missed, ReplayFails, CloseChannel, Drain, Leave,
     WriteFails
<1>4. CASE Read
  <2>1. CASE UNCHANGED shown BY <2>1 DEF ShownOnce
  <2>2. CASE ~Seen(Head(wire)) /\ shown' = Append(shown, Head(wire))
    <3>1. Head(wire) \in Events
      BY <1>4, EntriesTail DEF Read, TypeOK
    <3>2. Head(wire) \notin Entries(shown)
      BY <2>2, <3>1 DEF Seen, SeenInv, TypeOK
    <3>3. /\ Len(shown) \in Nat /\ DOMAIN shown = 1..Len(shown) /\ DOMAIN shown' = 1..Len(shown) + 1
          /\ shown'[Len(shown) + 1] = Head(wire) /\ \A i \in 1..Len(shown) : shown'[i] = shown[i]
      BY <2>2, <3>1 DEF TypeOK
    <3>4. \A i \in 1..Len(shown) : shown[i] # Head(wire)
      BY <3>2, <3>3 DEF Entries
    <3> QED BY <3>3, <3>4 DEF ShownOnce
  <2> QED BY <1>4, <2>1, <2>2 DEF Read
<1> QED
  BY <1>1, <1>2, <1>3, <1>4 DEF Next

-----------------------------------------------------------------------------
(* What is on its way to the client.                                       *)

\* The event e is on its way to the latest connection, or excused.
Way(e) ==
  \/ e \in Entries(wire) \cup Entries(snap[conn]) \cup Entries(ch[conn]) \cup dropped
  \/ e \in backlog[conn] /\ (from[conn] = 0 \/ e \notin Entries(replayBuf) \/ sub[conn] = "registered")

\* NothingMissed holds behind a step that leaves the subscription of the latest
\* connection in place and each of its events on the way.
LEMMA StillOnWay ==
    ASSUME TypeOK, NothingMissed, UNCHANGED conn,
           conn \in streams' /\ link'[conn] = "up" =>
             /\ conn \in streams /\ link[conn] = "up"
             /\ \A e \in Events : goroutine'[e] = "sent" /\ seq'[e] > lastSeq' =>
                  \/ goroutine[e] = "sent" /\ seq[e] > lastSeq /\ (Way(e) => Way(e)')
                  \/ Way(e)'
    PROVE  NothingMissed'
  BY DEF NothingMissed, Way

\* Every step keeps the events of the latest subscription on their way.
LEMMA NextWay ==
    ASSUME TypeOK, SubInv, SeenInv, NothingMissed, [Next]_vars
    PROVE  NothingMissed'
<1> USE DEF server, client, history
<1>1. CASE Cancel \/ Stop \/ Restart \/ UNCHANGED vars
  BY <1>1 DEF Cancel, NothingMissed, Stop, Restart, vars
<1>2. ASSUME NEW c \in Conns, ReplayFails(c) \/ Leave(c) PROVE NothingMissed'
  <2>1. CASE c = conn
    BY <1>2, <2>1 DEF ReplayFails, Leave, NothingMissed
  <2>2. CASE c # conn
    BY <1>2, <2>2, StillOnWay DEF ReplayFails, Leave, Way, TypeOK
  <2> QED BY <2>1, <2>2
<1>3. CASE Emit
  <2>1. \A e \in Events : goroutine'[e] = "sent" => goroutine[e] = "sent"
    BY <1>3 DEF Emit, TypeOK
  <2> QED BY <1>3, <2>1, StillOnWay DEF Emit, Way
<1>4. ASSUME NEW e \in Events, Number(e) PROVE NothingMissed'
  <2>1. \A f \in Events : goroutine'[f] = "sent" => goroutine[f] = "sent" /\ seq'[f] = seq[f]
    BY <1>4 DEF Number, TypeOK
  <2> QED BY <1>4, <2>1, StillOnWay DEF Number, Way
<1>5. ASSUME NEW e \in Events, Buffer(e) PROVE NothingMissed'
  <2>1. \A f \in Events : goroutine'[f] = "sent" => goroutine[f] = "sent" /\ f # e
    BY <1>5 DEF Buffer, TypeOK
  <2>2. Entries(replayBuf') \subseteq Entries(replayBuf) \cup {e}
    BY <1>5, RingKeeps DEF Buffer, TypeOK
  <2> QED BY <1>5, <2>1, <2>2, StillOnWay DEF Buffer, Way
<1>6. ASSUME NEW e \in Events, FanOut(e) PROVE NothingMissed'
  <2> SUFFICES ASSUME conn \in streams, link[conn] = "up"
               PROVE  \A f \in Events : goroutine'[f] = "sent" /\ seq[f] > lastSeq =>
                        \/ goroutine[f] = "sent" /\ (Way(f) => Way(f)')
                        \/ Way(f)'
    BY <1>6, StillOnWay DEF FanOut
  <2>1. conn \in Conns /\ open[conn] /\ ch[conn] \in Seq(Events) /\ Len(ch[conn]) <= ChanCap
    BY DEF TypeOK, SubInv
  <2>2. CASE Len(ch[conn]) < ChanCap
    <3>1. ch'[conn] = Append(ch[conn], e)
      BY <1>6, <2>1, <2>2 DEF FanOut, Offered
    <3>2. Entries(ch'[conn]) = Entries(ch[conn]) \cup {e}
      BY <2>1, <3>1, EntriesAppend
    <3> QED BY <1>6, <3>2 DEF FanOut, TypeOK, Way
  <2>3. CASE Len(ch[conn]) = ChanCap
    <3>1. ch'[conn] = ch[conn] /\ dropped' = dropped \cup {e}
      BY <1>6, <2>1, <2>3, StreamAssumption DEF FanOut, Offered
    <3> QED BY <1>6, <3>1 DEF FanOut, TypeOK, Way
  <2>4. Len(ch[conn]) \in Nat
    BY <2>1
  <2> QED BY <2>1, <2>2, <2>3, <2>4, StreamAssumption
<1>7. CASE Subscribe
  <2>1. \A e \in Events : goroutine[e] = "sent" => e \in backlog'[conn]
    BY <1>7 DEF Subscribe, TypeOK
  <2>2. sub'[conn] = "registered"
    BY <1>7 DEF Subscribe, TypeOK
  <2> QED BY <1>7, <2>1, <2>2 DEF Subscribe, NothingMissed
<1>8. ASSUME NEW c \in Conns, Snapshot(c) PROVE NothingMissed'
  <2>1. CASE c # conn
    BY <1>8, <2>1, StillOnWay DEF Snapshot, Way, TypeOK
  <2>2. CASE c = conn
    <3>1. snap'[conn] = Copied(from[conn]) /\ sub[conn] = "registered"
      BY <1>8, <2>2 DEF Snapshot, TypeOK
    <3>2. snap[conn] = <<>>
      BY <1>8, <2>2 DEF Snapshot, SubInv
    <3>3. from[conn] \in Nat
      BY <2>2 DEF TypeOK
    <3> QED BY <1>8, <2>2, <3>1, <3>2, <3>3, EntriesEmpty, StillOnWay DEF Snapshot, Way, Copied
  <2> QED BY <2>1, <2>2
<1>9. ASSUME NEW c \in Conns, Replay(c) PROVE NothingMissed'
  <2>0. CASE conn \notin streams
    BY <1>9, <2>0 DEF Replay, NothingMissed
  <2>1. CASE c # conn /\ conn \in streams
    <3>0. conn \in Conns BY <2>1 DEF TypeOK
    <3>1. snap'[conn] = snap[conn] /\ sub'[conn] = sub[conn] /\ Entries(wire) \subseteq Entries(wire')
      <4>1. CASE wire' = wire BY <1>9, <2>1, <3>0, <4>1 DEF Replay, TypeOK
      <4>2. CASE wire' = Append(wire, Head(snap[c])) /\ snap[c] # <<>>
        <5>1. Entries(wire') = Entries(wire) \cup {Head(snap[c])}
          BY <4>2, EntriesTail, EntriesAppend DEF TypeOK
        <5> QED BY <1>9, <2>1, <3>0, <5>1 DEF Replay, TypeOK
      <4> QED BY <1>9, <4>1, <4>2 DEF Replay, Missed
    <3> QED BY <1>9, <3>1, StillOnWay DEF Replay, Way
  <2>2. CASE c = conn /\ snap[c] = <<>>
    BY <1>9, <2>2, StillOnWay DEF Replay, Missed, Way, TypeOK
  <2>3. CASE c = conn /\ snap[c] # <<>>
    <3>1. Entries(snap[c]) = Entries(Tail(snap[c])) \cup {Head(snap[c])} /\ Head(snap[c]) \in Events
      BY <2>3, EntriesTail DEF TypeOK
    <3>2. Entries(Append(wire, Head(snap[c]))) = Entries(wire) \cup {Head(snap[c])}
      BY <3>1, EntriesAppend DEF TypeOK
    <3>3. snap'[c] = Tail(snap[c]) /\ sub' = sub
      BY <1>9, <2>3 DEF Replay, TypeOK
    <3>4. CASE wire' = Append(wire, Head(snap[c]))
      BY <1>9, <2>3, <3>1, <3>2, <3>3, <3>4, StillOnWay DEF Replay, Way
    <3>5. CASE ~Missed(c) /\ wire' = wire
      <4>1. seq[Head(snap[c])] <= lastSeq
        BY <2>3, <3>1, <3>5 DEF Missed, SeenInv, TypeOK
      <4>2. \A e \in Events : seq[e] > lastSeq => e # Head(snap[c])
        BY <4>1 DEF TypeOK
      <4> QED BY <1>9, <2>3, <3>1, <3>3, <3>5, <4>2, StillOnWay DEF Replay, Way
    <3> QED BY <1>9, <2>3, <3>4, <3>5 DEF Replay
  <2> QED BY <2>0, <2>1, <2>2, <2>3
<1>10. ASSUME NEW c \in Conns, CloseChannel(c) PROVE NothingMissed'
  <2>1. c \notin streams
    BY <1>10 DEF CloseChannel, SubInv
  <2>2. CASE c = conn
    BY <1>10, <2>1, <2>2 DEF CloseChannel, NothingMissed
  <2>3. CASE c # conn
    BY <1>10, <2>3, StillOnWay DEF CloseChannel, Way, TypeOK
  <2> QED BY <2>2, <2>3
<1>11. ASSUME NEW c \in Conns, Drain(c) PROVE NothingMissed'
  <2>1. Entries(ch[c]) = Entries(Tail(ch[c])) \cup {Head(ch[c])} /\ Head(ch[c]) \in Events
    BY <1>11, EntriesTail DEF Drain, TypeOK
  <2>2. Entries(wire') = Entries(wire) \cup {Head(ch[c])}
    BY <1>11, <2>1, EntriesAppend DEF Drain, TypeOK
  <2>3. Entries(ch[conn]) \subseteq Entries(ch'[conn]) \cup {Head(ch[c])}
    BY <1>11, <2>1, SMTT(30) DEF Drain, TypeOK
  <2> QED BY <1>11, <2>2, <2>3, StillOnWay DEF Drain, Way
<1>12. CASE Connect
  <2>1. conn + 1 \in Conns /\ conn + 1 > conn
    BY <1>12, StreamAssumption DEF Connect, Conns, TypeOK
  <2>2. conn' \notin streams
    BY <1>12, <2>1 DEF Connect, SubInv, TypeOK
  <2> QED BY <1>12, <2>2 DEF Connect, NothingMissed
<1>13. CASE Disconnect
  BY <1>13 DEF Disconnect, NothingMissed, TypeOK
<1>14. CASE Read
  <2>1. Entries(wire) = Entries(wire') \cup {Head(wire)} /\ Head(wire) \in Events
    BY <1>14, EntriesTail DEF Read, TypeOK
  <2>2. lastSeq <= lastSeq' /\ seq[Head(wire)] <= lastSeq' /\ lastSeq' \in Nat
    BY <1>14, <2>1 DEF Read, Seen, TypeOK
  <2>3. \A e \in Events : seq[e] > lastSeq' => seq[e] > lastSeq /\ e # Head(wire)
    BY <2>1, <2>2 DEF TypeOK
  <2> QED BY <1>14, <2>1, <2>3, StillOnWay DEF Read, Way
<1> QED
  BY <1>1, <1>2, <1>3, <1>4, <1>5, <1>6, <1>7, <1>8, <1>9, <1>10, <1>11, <1>12, <1>13, <1>14 DEF
     Next

LEMMA StreamInvariant == Spec => []StreamInv
<1>1. Init => StreamInv
  BY InitType, EntriesEmpty, CountedFinite
     DEF Init, StreamInv, TypeOK, CountInv, SubInv, HeldInv, SeenInv, NoSendAfterClose, ShownOnce, NothingMissed
<1>2. StreamInv /\ [Next]_vars => StreamInv'
  BY NextType, NextCount, NextSub, NextSend, NextHeld, NextSeen, NextOnce, NextWay DEF StreamInv
<1> QED
  BY <1>1, <1>2, PTL DEF Spec

-----------------------------------------------------------------------------
\* The variables keep their types; the ring is never longer than replayBufSize
\* and a channel never holds more than its capacity, and there is a number for
\* every event (injectSeqAndBuffer, setupEventForwarding).
THEOREM TypeCorrect == Spec => []TypeOK
<1>1. StreamInv => TypeOK
  BY DEF StreamInv
<1> QED
  BY <1>1, StreamInvariant, PTL

\* However many subscribers come, fail in their replay, go or are stopped, no
\* event is ever sent on a closed channel (setupEventForwarding against
\* handleStreamSubscribe and WorktreeSocket.Stop).
THEOREM NeverSendsAfterClose == Spec => []NoSendAfterClose
<1>1. StreamInv => NoSendAfterClose
  BY DEF StreamInv
<1> QED
  BY <1>1, StreamInvariant, PTL

\* A client processes no event twice, however often it reconnects, whatever is
\* replayed to it and whatever numbers a restarted daemon begins with
\* (projectStoreUI.ts, the lastSeq check).
THEOREM EventsShownOnce == Spec => []ShownOnce
<1>1. StreamInv => ShownOnce
  BY DEF StreamInv
<1> QED
  BY <1>1, StreamInvariant, PTL

\* Between replay and live delivery nothing is lost: what went out and the
\* client would still accept is on its way to its latest connection, dropped at
\* a full channel, or was overwritten in the ring before the client came back
\* (handleStreamSubscribe registers the channel before it copies the buffer).
THEOREM NothingIsMissed == Spec => []NothingMissed
<1>1. StreamInv => NothingMissed
  BY DEF StreamInv
<1> QED
  BY <1>1, StreamInvariant, PTL
=============================================================================
