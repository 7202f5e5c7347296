----------------------------- MODULE JobStream -----------------------------
(***************************************************************************)
(* What the pool promises the reader of a job's stream (Pool.Stream): it   *)
(* is opened once; events may be lost, never invented; at most one verdict *)
(* is put on it, as the last thing ahead of its closing; nothing is sent   *)
(* on a closed stream.                                                     *)
(***************************************************************************)
EXTENDS Sequences

CONSTANT Jobs

VARIABLES
    stream,   \* "none", "open", "said" (the verdict is out or lost) or "closed"
    chan      \* the events that are buffered

vars == <<stream, chan>>

Init ==
    /\ stream = [j \in Jobs |-> "none"]
    /\ chan = [j \in Jobs |-> << >>]

\* A send, or its loss.
Put(j, e) == chan' \in {chan, [chan EXCEPT ![j] = Append(@, e)]}

Open(j) ==
    /\ stream[j] = "none"
    /\ stream' = [stream EXCEPT ![j] = "open"]
    /\ UNCHANGED chan

\* A stream that is born with everything it will ever hold.
Replay(j) ==
    /\ stream[j] = "none"
    /\ stream' = [stream EXCEPT ![j] = "closed"]
    /\ chan' = [chan EXCEPT ![j] = <<"progress", "progress", "completed">>]

Write(j) ==
    /\ stream[j] = "open"
    /\ Put(j, "progress")
    /\ UNCHANGED stream

Conclude(j) ==
    /\ stream[j] = "open"
    /\ \E verdict \in {"completed", "failed"} : Put(j, verdict)
    /\ stream' = [stream EXCEPT ![j] = "said"]

Close(j) ==
    /\ stream[j] = "said"
    /\ stream' = [stream EXCEPT ![j] = "closed"]
    /\ UNCHANGED chan

Receive(j) ==
    /\ stream[j] # "none" /\ chan[j] # << >>
    /\ chan' = [chan EXCEPT ![j] = Tail(@)]
    /\ UNCHANGED stream

Next ==
    \E j \in Jobs : Open(j) \/ Replay(j) \/ Write(j) \/ Conclude(j) \/ Close(j) \/ Receive(j)

Spec == Init /\ [][Next]_vars
=============================================================================
