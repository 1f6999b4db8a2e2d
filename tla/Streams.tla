------------------------------- MODULE Streams -------------------------------
(***************************************************************************)
(* Logical streams between the members of a session (pkg/sessionclient:    *)
(* stream.go, loops.go).  A stream_open takes the control path, data and   *)
(* close frames take the relay path; each path keeps the order of one      *)
(* sender to one receiver, and nothing orders the two.  Each client has    *)
(* one relay read loop and one control read loop; the application opens,   *)
(* writes (from several goroutines), reads and closes in between.          *)
(*                                                                         *)
(* A Stream object is named by its place in the order they were made; the  *)
(* objects at both ends of a stream are two.  A data frame also says which *)
(* object wrote it: history, no frame of the code does.  Abstracted: the   *)
(* payload; indices and keys (each member has an index of its own, and a   *)
(* key for every other); OpenStream's failing control connection, after    *)
(* which the client ends; readers with a buffer smaller than the chunk;    *)
(* the 30 seconds after which closedStreams forgets an id; wrapping of the *)
(* 16-bit numbers (there are no more than MaxCalls chunks).  A member      *)
(* leaves for good.  What removePeer does to a frame or an open that is    *)
(* being handled is in StreamLocks.                                        *)
(***************************************************************************)
EXTENDS Integers, Sequences, FiniteSets

CONSTANTS
    Members,    \* member ids, numbered in the order of the strings
    QueueLen,   \* capacity of Stream.in (64 in the code)
    BufferLen,  \* maxReorderBuffer (256 in the code)
    MaxCalls,   \* bound: the application's calls, and chunks written
    MaxLosses   \* bound: frames the server drops and sends that fail

ASSUME StreamConstants ==
    /\ Members \subseteq Nat
    /\ QueueLen \in Nat \ {0}
    /\ BufferLen \in Nat \ {0}
    /\ MaxCalls \in Nat /\ MaxLosses \in Nat

VARIABLES
    left,     \* members whose client was closed
    peers,    \* peers[p]: Client.peers
    nextId,   \* nextId[p]: Client.nextEven and nextOdd, by parity
    ends,     \* the Stream objects of all clients
    closedIds,\* closedIds[p]: Client.closedStreams
    writing,  \* chunks that have a number and are not sent yet
    control,  \* control[<<p, q>>]: ids of the stream_opens from p to q
    relay,    \* relay[<<p, q>>]: frames from p to q
    calls,    \* how often the application called
    drops,    \* how often the server dropped or a send failed
    lost,     \* history: frames that reached no application
    told      \* history: ends whose reader was told that the stream is over

vars == <<left, peers, nextId, ends, closedIds, writing, control, relay,
          calls, drops, lost, told>>

Paths == {pq \in Members \X Members : pq[1] # pq[2]}

\* Only "open" is in c.streams.  The others are one state in the code: closed
\* by the application, the same while a Write was under way, by the peer, by the
\* departure of either.
States == {"open", "closed", "cut", "ended", "left"}
Errors == {"none", "closed", "reset", "overflow"}

Data == [kind : {"data"}, id : Nat, seq : Nat, of : Nat]
Frame == Data \cup [kind : {"close", "reset"}, id : Nat]

\* mine: history, made by OpenStream; sent, next: the numbers of the next chunk
\* to write and to hand on; got: all that push put in the queue, of which the
\* last unread are still there.
End ==
    [at : Members, peer : Members, id : Nat, state : States, err : Errors,
     mine : BOOLEAN, sent : Nat, next : Nat,
     buf : SUBSET Data, got : Seq(Data), unread : 0..QueueLen]

NewEnd(p, q, id, mine) ==
    [at |-> p, peer |-> q, id |-> id, state |-> "open", err |-> "none",
     mine |-> mine, sent |-> 0, next |-> 0,
     buf |-> {}, got |-> <<>>, unread |-> 0]

Init ==
    /\ left = {}
    /\ peers = [p \in Members |-> Members \ {p}]
    /\ nextId = [p \in Members |-> [parity \in {0, 1} |-> parity]]
    /\ ends = <<>>
    /\ closedIds = [p \in Members |-> {}]
    /\ writing = {}
    /\ control = [pq \in Paths |-> <<>>]
    /\ relay = [pq \in Paths |-> <<>>]
    /\ calls = 0
    /\ drops = 0
    /\ lost = {}
    /\ told = {}

Ends == DOMAIN ends

\* c.streams: by id alone, whoever the peer is.
Find(p, id) ==
    {k \in Ends : ends[k].at = p /\ ends[k].id = id /\ ends[k].state = "open"}
Busy(p, id) == Find(p, id) # {}

-----------------------------------------------------------------------------
\* The application.  A definition X_Y is X with the mistake Y in it, for the
\* checks.

Call == calls < MaxCalls /\ calls' = calls + 1

\* allocStreamIDLocked: even ids towards larger members, odd towards smaller,
\* from counters all peers share.
Parity_Even(p, q) == 0
Parity(p, q) == IF p < q THEN 0 ELSE 1

FreeIds(p, q) ==
    {id \in nextId[p][Parity(p, q)] .. nextId[p][Parity(p, q)] + 2 * Len(ends) :
        id % 2 = Parity(p, q) /\ ~Busy(p, id)}

OpenStream(p, q) ==
    LET id == CHOOSE i \in FreeIds(p, q) : \A j \in FreeIds(p, q) : i <= j
    IN  /\ p \notin left /\ q \in peers[p]
        /\ Call
        /\ nextId' = [nextId EXCEPT ![p][Parity(p, q)] = id + 2]
        /\ ends' = Append(ends, NewEnd(p, q, id, TRUE))
        /\ control' = IF q \in left THEN control
                      ELSE [control EXCEPT ![<<p, q>>] = Append(@, id)]
        /\ UNCHANGED <<left, peers, closedIds, writing, relay, drops, lost, told>>

\* A Write sends chunk after chunk: it draws a number under sendMu and sends
\* afterwards.  Only its start looks whether the stream is open.
Chunk(k) == [kind |-> "data", id |-> ends[k].id, seq |-> ends[k].sent, of |-> k]
Draw(k, rest) ==
    /\ Call
    /\ writing' = rest \cup {Chunk(k)}
    /\ ends' = [ends EXCEPT ![k].sent = @ + 1]

Write(k) ==
    /\ ends[k].state = "open"
    /\ Draw(k, writing)
    /\ UNCHANGED <<left, peers, nextId, closedIds, control, relay, drops, lost, told>>

\* A frame sent to a member that has left goes nowhere.
Sent(e, f) ==
    IF e.peer \in left THEN relay
    ELSE [relay EXCEPT ![<<e.at, e.peer>>] = Append(@, f)]

CanSend(e) == e.at \notin left /\ e.peer \in peers[e.at]

Send(f) ==
    /\ CanSend(ends[f.of])
    /\ \/ Draw(f.of, writing \ {f})
       \/ writing' = writing \ {f} /\ UNCHANGED <<ends, calls>>
    /\ relay' = Sent(ends[f.of], f)
    /\ lost' = IF ends[f.of].peer \in left THEN lost \cup {f} ELSE lost
    /\ UNCHANGED <<left, peers, nextId, closedIds, control, drops, told>>

\* sendStreamData fails, the number is spent: the client was closed, the peer is
\* unknown by now, or the connection fails.
SendFails(f) ==
    /\ IF CanSend(ends[f.of]) THEN drops < MaxLosses /\ drops' = drops + 1
                              ELSE UNCHANGED drops
    /\ writing' = writing \ {f}
    /\ lost' = lost \cup {f}
    /\ UNCHANGED <<left, peers, calls, nextId, ends, closedIds, control, relay, told>>

\* ReadMessage, or Read with a buffer large enough: what is in the queue comes
\* first, also when the stream is over.
ReadMessage(k) ==
    /\ ends[k].unread > 0
    /\ ends' = [ends EXCEPT ![k].unread = @ - 1]
    /\ UNCHANGED <<left, peers, calls, nextId, closedIds, writing, control, relay,
                   drops, lost, told>>

\* They say that it is over only if there is nothing left to drain.
Drained_Not(e) == e.state # "open"
Drained(e) == e.state # "open" /\ e.unread = 0

ReadEnd(k) ==
    /\ Drained(ends[k])
    /\ Call
    /\ told' = told \cup {k}
    /\ UNCHANGED <<left, peers, nextId, ends, closedIds, writing, control, relay,
                   drops, lost>>

\* dropStream: the id is remembered as one that was closed.
DropStream(p, id) == closedIds' = [closedIds EXCEPT ![p] = @ \cup {id}]

\* Close and Reset: once; the frame is not numbered.  One step: a Write that starts
\* between the frame and close(s.closed) could as well have drawn its number before
\* the frame (cut), and what arrives before dropStream could as well have arrived
\* before the frame.
Shut(k, kind, err) ==
    LET e == ends[k]
    IN  /\ e.state = "open"
        /\ Call
        /\ ends' = [ends EXCEPT
             ![k].state = IF \E f \in writing : f.of = k THEN "cut" ELSE "closed",
             ![k].err = err]
        /\ relay' = Sent(e, [kind |-> kind, id |-> e.id])
        /\ DropStream(e.at, e.id)
        /\ UNCHANGED <<left, peers, nextId, writing, control, drops, lost, told>>

Close(k) == Shut(k, "close", "closed")
Reset(k) == Shut(k, "reset", "reset")

\* The streams of ks are closed without a frame, an error or a note in
\* closedStreams.
Abandoned(ks) ==
    [k \in Ends |-> IF k \in ks /\ ends[k].state = "open"
                    THEN [ends[k] EXCEPT !.state = "left"] ELSE ends[k]]

FramesOn(paths) == UNION {{relay[pq][i] : i \in DOMAIN relay[pq]} : pq \in paths}
Cleared(queues, paths) == [pq \in Paths |-> IF pq \in paths THEN <<>> ELSE queues[pq]]

\* Client.Close or Abort: the streams end, and what is on its way here is lost.
CloseClient(p) ==
    LET inbound == {pq \in Paths : pq[2] = p}
    IN  /\ p \notin left
        /\ Call
        /\ left' = left \cup {p}
        /\ ends' = Abandoned({k \in Ends : ends[k].at = p})
        /\ relay' = Cleared(relay, inbound)
        /\ control' = Cleared(control, inbound)
        /\ lost' = lost \cup FramesOn(inbound)
        /\ UNCHANGED <<peers, nextId, closedIds, writing, drops, told>>

-----------------------------------------------------------------------------
\* The relay read loop.

\* push: into the application's queue, or a mark that something is missing.
Push_Unbounded(e, f) == [e EXCEPT !.unread = @ + 1, !.got = Append(@, f)]
Push_Silent(e, f) ==
    IF e.unread < QueueLen
    THEN [e EXCEPT !.unread = @ + 1, !.got = Append(@, f)]
    ELSE e
Push(e, f) ==
    IF e.unread < QueueLen
    THEN [e EXCEPT !.unread = @ + 1, !.got = Append(@, f)]
    ELSE [e EXCEPT !.err = IF @ = "none" THEN "overflow" ELSE @]

\* deliver, the frame awaited.
Handed(e, f) == Push([e EXCEPT !.next = @ + 1, !.buf = @ \ {f}], f)

\* deliver, any other one: kept under its number, in place of the oldest if
\* there are too many.
Displaced(e, f) ==
    {g \in e.buf : \/ g.seq = f.seq
                   \/ /\ Cardinality(e.buf) >= BufferLen
                      /\ \A h \in e.buf : g.seq <= h.seq}
Kept(e, f) == [e EXCEPT !.buf = (@ \ Displaced(e, f)) \cup {f}]

Awaited_Newer(e, f) == f.seq >= e.next
Awaited(e, f) == f.seq = e.next

Delivered(e, f) == IF Awaited(e, f) THEN Handed(e, f) ELSE Kept(e, f)

\* What is lost when e is given the frame awaited, and any other one.
Overflown(e, f) == IF e.unread < QueueLen THEN {} ELSE {f}
LostBy(e, f) == IF Awaited(e, f) THEN Overflown(e, f) ELSE Displaced(e, f)

\* deliver goes on with the kept frames whose turn it is before the loop reads
\* again; the application may read in between.
Ready(k) == {f \in ends[k].buf : f.seq = ends[k].next}
Reading(q) == \A k \in Ends : ends[k].at = q => Ready(k) = {}

HandOn(k) ==
    \E f \in Ready(k) :
        /\ ends' = [ends EXCEPT ![k] = Handed(@, f)]
        /\ lost' = lost \cup Overflown(ends[k], f)
        /\ UNCHANGED <<left, peers, calls, nextId, closedIds, writing, control, relay, drops, told>>

\* onDataFrame: the stream of that id, made here if there is none.
OnData(p, q, f) ==
    LET all == IF Busy(q, f.id) THEN ends ELSE Append(ends, NewEnd(q, p, f.id, FALSE))
        k   == IF Busy(q, f.id) THEN CHOOSE x \in Find(q, f.id) : TRUE ELSE Len(all)
    IN  /\ f.kind = "data"
        /\ ends' = [all EXCEPT ![k] = Delivered(@, f)]
        /\ lost' = lost \cup LostBy(all[k], f)
        /\ UNCHANGED closedIds

\* markRemoteClosed.
Ended(e, kind) ==
    [e EXCEPT !.state = "ended",
              !.err = IF kind = "reset" THEN "reset"
                      ELSE IF @ = "none" THEN "closed" ELSE @]

OnClose(q, f) ==
    /\ f.kind # "data"
    /\ ends' = [k \in Ends |->
         IF k \in Find(q, f.id) THEN Ended(ends[k], f.kind) ELSE ends[k]]
    /\ IF Busy(q, f.id) THEN DropStream(q, f.id) ELSE UNCHANGED closedIds
    /\ UNCHANGED lost

Receive(p, q) ==
    /\ relay[<<p, q>>] # <<>>
    /\ Reading(q)
    /\ LET f == Head(relay[<<p, q>>]) IN OnData(p, q, f) \/ OnClose(q, f)
    /\ relay' = [relay EXCEPT ![<<p, q>>] = Tail(@)]
    /\ UNCHANGED <<left, peers, calls, nextId, writing, control, drops, told>>

-----------------------------------------------------------------------------
\* The control read loop: onStreamOpen, neither twice nor after the end.
Late_Never(q, id) == FALSE
Late(q, id) == id \in closedIds[q]

OnStreamOpen(p, q) ==
    /\ control[<<p, q>>] # <<>>
    /\ LET id == Head(control[<<p, q>>])
       IN  ends' = IF Busy(q, id) \/ Late(q, id) THEN ends
                   ELSE Append(ends, NewEnd(q, p, id, FALSE))
    /\ control' = [control EXCEPT ![<<p, q>>] = Tail(@)]
    /\ UNCHANGED <<left, peers, calls, nextId, closedIds, writing, relay, drops, lost, told>>

\* member_left, behind the opens the leaver sent: removePeer.  Data and close
\* frames of the leaver that arrive later come from an unknown index.
OnMemberLeft(p, q) ==
    /\ p \in left \cap peers[q]
    /\ q \notin left
    /\ control[<<p, q>>] = <<>>
    /\ peers' = [peers EXCEPT ![q] = @ \ {p}]
    /\ ends' = Abandoned({k \in Ends : ends[k].at = q /\ ends[k].peer = p})
    /\ relay' = Cleared(relay, {<<p, q>>})
    /\ lost' = lost \cup FramesOn({<<p, q>>})
    /\ UNCHANGED <<left, nextId, closedIds, writing, control, calls, drops, told>>

\* The server drops a frame or a stream_open: the receiver's queue is full, or
\* it has no connection at the time.
Dropped(p, q) ==
    /\ drops < MaxLosses
    /\ drops' = drops + 1
    /\ \/ /\ relay[<<p, q>>] # <<>>
          /\ lost' = lost \cup {Head(relay[<<p, q>>])}
          /\ relay' = [relay EXCEPT ![<<p, q>>] = Tail(@)]
          /\ UNCHANGED control
       \/ /\ control[<<p, q>>] # <<>>
          /\ control' = [control EXCEPT ![<<p, q>>] = Tail(@)]
          /\ UNCHANGED <<relay, lost>>
    /\ UNCHANGED <<left, peers, calls, nextId, ends, closedIds, writing, told>>

-----------------------------------------------------------------------------
Next ==
    \/ \E pq \in Paths :
         \/ OpenStream(pq[1], pq[2]) \/ Receive(pq[1], pq[2])
         \/ OnStreamOpen(pq[1], pq[2]) \/ OnMemberLeft(pq[1], pq[2])
         \/ Dropped(pq[1], pq[2])
    \/ \E p \in Members : CloseClient(p)
    \/ \E k \in Ends :
         \/ Write(k) \/ ReadMessage(k) \/ ReadEnd(k) \/ Close(k) \/ Reset(k) \/ HandOn(k)
    \/ \E f \in writing : Send(f) \/ SendFails(f)

Spec == Init /\ [][Next]_vars

-----------------------------------------------------------------------------
\* Properties.

TypeOK ==
    /\ left \subseteq Members
    /\ peers \in [Members -> SUBSET Members]
    /\ nextId \in [Members -> [{0, 1} -> Nat]]
    /\ ends \in Seq(End)
    /\ closedIds \in [Members -> SUBSET Nat]
    /\ writing \subseteq Data
    /\ control \in [Paths -> Seq(Nat)]
    /\ relay \in [Paths -> Seq(Frame)]
    /\ calls \in Nat
    /\ drops \in Nat
    /\ lost \subseteq Frame
    /\ told \subseteq Nat

\* If a chunk is left out before one the reader gets, the stream carries an
\* error, although concurrent Writes, losses and the limits of the buffers leave
\* many ways to skip one (stream.go:246-256).
GapsReported ==
    \A k \in Ends : \A i \in DOMAIN ends[k].got :
        ends[k].got[i].seq # i - 1 => ends[k].err # "none"

\* The streams keep what Pipes promises: a reader gets the chunks of one writer in
\* the order they were numbered, each once and none that was not written, although
\* concurrent Writes send them in any order and whoever closes, overtakes or
\* leaves meanwhile (stream.go:15, 208-244).
Promise == INSTANCE Pipes WITH
    written <- [k \in Ends |-> ends[k].sent],
    taken   <- [k \in Ends |->
                  [i \in DOMAIN ends[k].got |->
                     [of |-> ends[k].got[i].of, seq |-> ends[k].got[i].seq]]]
KeepsPromise == Promise!Spec

\* What a reader gets was written by the peer of its stream, and never into a
\* stream the peer had opened itself while this one was opened here: the ids of
\* the two sides do not collide (loops.go:366-368).
Untangled ==
    \A k \in Ends : \A i \in DOMAIN ends[k].got :
        LET e == ends[k]
            w == ends[e.got[i].of]
        IN  w.at = e.peer /\ w.peer = e.at /\ ~(w.mine /\ e.mine)

Other(k)  == {x \in Ends : /\ ends[x].at = ends[k].peer
                           /\ ends[x].peer = ends[k].at
                           /\ ends[x].id = ends[k].id}
Only(k) == \A x \in Ends : ends[x].at = ends[k].at /\ ends[x].id = ends[k].id => x = k
ChunksOf(k)   == [kind : {"data"}, id : {ends[k].id}, seq : 0..(ends[k].sent - 1), of : {k}]

\* Closing after the last Write loses nothing: when the peer has ended the
\* stream, it has all that was written before, but for what lies behind a lost
\* chunk; and when its reader is told that the stream is over, it has read all of
\* that, the last message too (stream.go:95-98, 156).
Complete(k) ==
    \A x \in Other(k) :
        ends[k].state = "closed" /\ ends[x].state = "ended" /\ Only(k) /\ Only(x) =>
            \A f \in ChunksOf(k) :
                (\A g \in ChunksOf(k) : g.seq <= f.seq => g \notin lost) =>
                    \E i \in DOMAIN ends[x].got :
                        /\ ends[x].got[i] = f
                        /\ x \in told => i <= Len(ends[x].got) - ends[x].unread
NothingSwallowed == \A k \in Ends : Complete(k)

\* No ghost: after a stream with at least one chunk was closed, and everything
\* sent has arrived, on whichever path first, the peer has no open stream of
\* that id left (loops.go:444-451).
GhostFree(k) ==
    LET e == ends[k] IN
        (/\ e.state = "closed" /\ Only(k)
         /\ ~e.mine \/ e.sent > 0
         /\ \A f \in lost : f.id # e.id
         /\ \A i \in DOMAIN relay[<<e.at, e.peer>>] : relay[<<e.at, e.peer>>][i].id # e.id
         /\ \A i \in DOMAIN control[<<e.at, e.peer>>] : control[<<e.at, e.peer>>][i] # e.id
         /\ \A x \in Other(k) : ends[x].state \in {"open", "ended"})
            => \A x \in Other(k) : ends[x].state = "ended"
NoGhosts == \A k \in Ends : GhostFree(k)

=============================================================================
