------------------------------ MODULE Connection ------------------------------
(***************************************************************************)
(* The server's side of one WebSocket: the member.Conn the hub sends to    *)
(* (internal/member/hub.go), the handler's read loop and its write pump    *)
(* (internal/server/ws.go), and the client at the other end.  Hub has the  *)
(* rooms the Conn is in; here is how its frames go out and how it ends.    *)
(*                                                                         *)
(* Frames are numbered in the order they are sent, by whoever sends them;  *)
(* a pong is one of them.  A client that stalls has an application that    *)
(* blocks the SDK's read loop while its heartbeat goes on; a silent one is *)
(* cut off.  After CloseFrame gorilla/websocket refuses to write more.     *)
(***************************************************************************)
EXTENDS Naturals, Sequences, FiniteSets

CONSTANTS
    QueueLen,       \* defaultSendQueue (256 in the code)
    SlowDropLimit,  \* slowDropLimit (64 in the code)
    WireLen,        \* frames the network takes for a client that does not read
    MaxFrames,      \* bound: frames sent to the connection
    MaxStalls       \* bound: how often the client stalls

ASSUME ConnectionConstants ==
    /\ QueueLen \in Nat \ {0} /\ SlowDropLimit \in Nat \ {0} /\ WireLen \in Nat \ {0}
    /\ MaxFrames \in Nat /\ MaxStalls \in Nat

VARIABLES
    sent,     \* how many frames were sent to the connection
    out,      \* Conn.out
    dropped,  \* Conn.dropped
    counting, \* how many senders were refused and have not counted it yet
    kicking,  \* how many of them have counted too many and have not kicked yet
    closed,   \* Conn.closed is closed: the hub has kicked the connection
    pump,     \* the write pump
    reader,   \* the read loop and what it defers
    wire,     \* what the client can read
    client,   \* the client
    got,      \* history: the frames the client has read
    stalls    \* how often the client has stalled

vars == <<sent, out, dropped, counting, kicking, closed,
          pump, reader, wire, client, got, stalls>>

Frames == 1..MaxFrames
CloseFrame == 0
Nothing == 0    \* the pump has no frame in its hands

Init ==
    /\ sent = 0
    /\ out = <<>>
    /\ dropped = 0
    /\ counting = 0
    /\ kicking = 0
    /\ closed = FALSE
    /\ pump = [pc |-> "select", frame |-> Nothing]
    /\ reader = "reading"
    /\ wire = <<>>
    /\ client = "reads"
    /\ got = {}
    /\ stalls = 0

Shut == reader = "over"    \* the server has closed the TCP connection
CloseSent == \E i \in DOMAIN wire : wire[i] = CloseFrame
Room == Len(wire) < WireLen

-----------------------------------------------------------------------------
\* The hub and the read loop send.  A definition X_Y is X with the mistake Y in
\* it, for the checks.

\* Conn.Send never waits: the queue takes the frame or the frame is dropped ...
Enqueued_Unbounded(f) == Append(out, f)
Enqueued_Latest(f) == IF Len(out) < QueueLen THEN Append(out, f) ELSE Append(Tail(out), f)
Enqueued(f) == IF Len(out) < QueueLen THEN Append(out, f) ELSE out

Enqueue ==
    /\ sent < MaxFrames
    /\ sent' = sent + 1
    /\ out' = Enqueued(sent + 1)
    /\ counting' = IF Len(out) < QueueLen THEN counting ELSE counting + 1
    /\ UNCHANGED <<dropped, kicking, closed>>

\* A sender may still hold the Conn of a snapshot after Detach.
Send ==
    /\ Enqueue
    /\ UNCHANGED <<pump, reader, wire, client, got, stalls>>

\* ... its sender counts it, and kicks if there were too many over the
\* connection's life; others send, count and kick in between.
Slow_OffByOne == dropped + 1 > SlowDropLimit
Slow == dropped + 1 >= SlowDropLimit

CountDrop ==
    /\ counting > 0
    /\ counting' = counting - 1
    /\ dropped' = dropped + 1
    /\ kicking' = IF Slow THEN kicking + 1 ELSE kicking
    /\ UNCHANGED <<sent, out, closed, pump, reader, wire, client, got, stalls>>

KickSlow ==
    /\ kicking > 0
    /\ kicking' = kicking - 1
    /\ closed' = TRUE
    /\ UNCHANGED <<sent, out, dropped, counting, pump, reader, wire, client, got, stalls>>

\* The connection is replaced, its member left, or the session is closed.
Kick ==
    /\ ~closed
    /\ closed' = TRUE
    /\ UNCHANGED <<sent, out, dropped, counting, kicking, pump, reader, wire, client, got, stalls>>

-----------------------------------------------------------------------------
\* writePump: of the ready cases of its select any is taken.

PumpTake ==
    /\ pump.pc = "select"
    /\ out # <<>>
    /\ pump' = [pc |-> "write", frame |-> Head(out)]
    /\ out' = Tail(out)
    /\ UNCHANGED <<sent, dropped, counting, kicking, closed, reader, wire, client, got, stalls>>

\* WriteMessage has no deadline: it waits while the network takes nothing, and
\* fails when either side has closed.
PumpWrites ==
    /\ pump.pc = "write"
    /\ ~Shut /\ client # "gone" /\ ~CloseSent
    /\ Room
    /\ wire' = Append(wire, pump.frame)
    /\ pump' = [pc |-> "select", frame |-> Nothing]
    /\ UNCHANGED <<sent, out, dropped, counting, kicking, closed, reader, client, got, stalls>>

PumpOver == pump' = [pc |-> "over", frame |-> Nothing]

PumpFails ==
    /\ pump.pc = "write"
    /\ Shut \/ client = "gone" \/ CloseSent
    /\ PumpOver
    /\ UNCHANGED <<sent, out, dropped, counting, kicking, closed, reader, wire, client, got, stalls>>

\* A control frame waits a second at most; a client that reads makes room by then.
CloseWritten_Not == UNCHANGED wire
CloseWritten ==
    IF client = "gone" \/ Shut \/ CloseSent THEN UNCHANGED wire
    ELSE IF Room THEN wire' = Append(wire, CloseFrame)
    ELSE client # "reads" /\ UNCHANGED wire

PumpKicked ==
    /\ pump.pc = "select"
    /\ closed
    /\ CloseWritten
    /\ PumpOver
    /\ UNCHANGED <<sent, out, dropped, counting, kicking, closed, reader, client, got, stalls>>

\* done is closed when the read loop ends.
Done_Kicked == closed
Done == reader # "reading"

PumpDone ==
    /\ pump.pc = "select"
    /\ Done
    /\ PumpOver
    /\ UNCHANGED <<sent, out, dropped, counting, kicking, closed, reader, wire, client, got, stalls>>

-----------------------------------------------------------------------------
\* The read loop.

\* The client has closed, or nothing came from it for IdleTimeout.
ReadFails ==
    /\ reader = "reading"
    /\ client \in {"gone", "silent"}
    /\ reader' = "ended"
    /\ UNCHANGED <<sent, out, dropped, counting, kicking, closed, pump, wire, client, got, stalls>>

\* fail: the client says it leaves or sends too much.  The error goes into the
\* queue, the close frame past it; when a refused error is counted is left open.
Fail ==
    /\ reader = "reading"
    /\ client \in {"reads", "stalled"}
    /\ Enqueue
    /\ CloseWritten
    /\ reader' = "ended"
    /\ UNCHANGED <<pump, client, got, stalls>>

\* What the loop defers, after it has closed done: Detach, then conn.Close.
Detach ==
    /\ reader = "ended"
    /\ reader' = "detached"
    /\ UNCHANGED <<sent, out, dropped, counting, kicking, closed, pump, wire, client, got, stalls>>

CloseConn ==
    /\ reader = "detached"
    /\ reader' = "over"
    /\ UNCHANGED <<sent, out, dropped, counting, kicking, closed, pump, wire, client, got, stalls>>

-----------------------------------------------------------------------------
\* The client.

ClientReads ==
    /\ client = "reads"
    /\ wire # <<>>
    /\ IF Head(wire) = CloseFrame
       THEN client' = "gone" /\ wire' = <<>> /\ UNCHANGED got
       ELSE /\ got' = got \cup {Head(wire)}
            /\ wire' = Tail(wire)
            /\ UNCHANGED client
    /\ UNCHANGED <<sent, out, dropped, counting, kicking, closed, pump, reader, stalls>>

\* It closes, or finds the connection closed.
ClientCloses ==
    /\ client \in {"reads", "stalled"}
    /\ client' = "gone"
    /\ wire' = <<>>
    /\ UNCHANGED <<sent, out, dropped, counting, kicking, closed, pump, reader, got, stalls>>

Silence ==
    /\ client \in {"reads", "stalled"}
    /\ client' = "silent"
    /\ UNCHANGED <<sent, out, dropped, counting, kicking, closed, pump, reader, wire, got, stalls>>

Stall ==
    /\ client = "reads"
    /\ stalls < MaxStalls
    /\ stalls' = stalls + 1
    /\ client' = "stalled"
    /\ UNCHANGED <<sent, out, dropped, counting, kicking, closed, pump, reader, wire, got>>

Resume ==
    /\ client = "stalled"
    /\ client' = "reads"
    /\ UNCHANGED <<sent, out, dropped, counting, kicking, closed, pump, reader, wire, got, stalls>>

-----------------------------------------------------------------------------
Next ==
    \/ Send \/ CountDrop \/ KickSlow \/ Kick
    \/ PumpTake \/ PumpWrites \/ PumpFails \/ PumpKicked \/ PumpDone
    \/ ReadFails \/ Fail \/ Detach \/ CloseConn
    \/ ClientReads \/ ClientCloses \/ Silence \/ Stall \/ Resume

\* The goroutines go on, and Go's select takes each of its ready cases sooner or
\* later; a client that is not stalled reads.  Nobody has to send, kick, close,
\* fail, stall or resume, and a sender may take its time to count.
Fairness ==
    /\ WF_vars(PumpTake \/ PumpWrites \/ PumpFails)
    /\ SF_vars(PumpKicked) /\ SF_vars(PumpDone)
    /\ WF_vars(ReadFails) /\ WF_vars(Detach) /\ WF_vars(CloseConn)
    /\ WF_vars(ClientReads)

Spec == Init /\ [][Next]_vars /\ Fairness

-----------------------------------------------------------------------------
\* Properties.

TypeOK ==
    /\ sent \in 0..MaxFrames
    /\ out \in Seq(Frames) /\ Len(out) <= QueueLen
    /\ dropped \in Nat /\ counting \in Nat /\ dropped + counting <= sent
    /\ kicking \in 0..dropped
    /\ closed \in BOOLEAN
    /\ pump \in [pc : {"select", "write", "over"}, frame : Frames \cup {Nothing}]
    /\ reader \in {"reading", "ended", "detached", "over"}
    /\ wire \in Seq(Frames \cup {CloseFrame})
    /\ client \in {"reads", "stalled", "silent", "gone"}
    /\ got \subseteq Frames
    /\ stalls \in 0..MaxStalls

\* A client that misses many frames is cut off: however the drops are spread over
\* the connection's life and however the senders overtake each other, one that got
\* a frame without SlowDropLimit of those sent before it has been kicked, but for
\* the frames whose senders have still to count or to kick (hub.go:29, 101-112).
Missed == {f \in Frames : f \notin got /\ \E g \in got : f < g}
KickedWhenBehind ==
    Cardinality(Missed) >= SlowDropLimit + counting + kicking => closed

\* No goroutine is left behind: when the client has closed or has gone silent, the
\* read loop and the pump both end, the pump even out of a write that nobody takes
\* (ws.go:109-120, 305-315).
NoLeak ==
    client \in {"gone", "silent"} ~> (reader = "over" /\ pump.pc = "over")

\* A kick is heard: the connection of a client that never stops reading ends,
\* however full the queue is and however long frames still come (hub.go:123-127,
\* ws.go:370-385).  One that stalls misses the close frame, and nobody else ends
\* its connection when it reads again.
KickHeard == closed ~> (reader = "over" \/ client # "reads" \/ stalls > 0)

\* What the queue has taken reaches a client that keeps reading, unless the
\* connection ends first; the queue never gives up a frame for a later one
\* (hub.go:101-112, ws.go:386-397).
Delivery ==
    \A f \in Frames :
        (\E i \in DOMAIN out : out[i] = f) ~>
            (f \in got \/ client # "reads" \/ closed \/ reader # "reading")

=============================================================================
