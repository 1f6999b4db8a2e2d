----------------------------- MODULE StreamLocks -----------------------------
(***************************************************************************)
(* The goroutines of one SDK client around its table of streams            *)
(* (pkg/sessionclient): the control and the relay read loop and the        *)
(* application's calls.  The table is guarded by streamsMu, the end of a   *)
(* stream by the stream's sync.Once, the end of the client by closeOnce;   *)
(* whoever calls Do on a Once another goroutine is running waits for it.   *)
(* A step is one lock section, one wait for a Once, or what lies between.  *)
(*                                                                         *)
(* What the frames carry is the subject of Streams.  streamsMu is taken    *)
(* for reading in streamByID only; a reader waits for a writer as a writer *)
(* does, so one kind of holder is enough.  Here a stream id is used once.  *)
(***************************************************************************)
EXTENDS FiniteSets

CONSTANTS
    Peers,      \* the other members
    StreamIds,  \* stream ids
    Control,    \* the goroutine of controlReadLoop
    Relay,      \* the goroutine of relayReadLoop
    Apps,       \* the application's goroutines
    None        \* nobody

VARIABLES
    peers,    \* c.peers
    table,    \* the ids in c.streams
    streams,  \* the Stream objects ever made: the peer, and who runs the Once
    mu,       \* who holds streamsMu for longer than a step
    closer,   \* who runs closeOnce
    at        \* at[t]: where the goroutine t is

vars == <<peers, table, streams, mu, closer, at>>

Loops   == {Control, Relay}
Threads == Loops \cup Apps

\* A Once nobody has run, one that was run; otherwise its runner is named.
Fresh == "fresh"
Over  == "over"

Stream == [peer : Peers, once : Threads \cup {Fresh, Over}]
NoStream == [peer |-> None]

Place ==
    [pc : {"idle", "ended", "closing"}]
      \cup [pc : {"register"}, peer : Peers]
      \cup [pc : {"announce", "abandon", "end", "drop"}, id : StreamIds]
      \cup [pc : {"lock"}, of : SUBSET Peers]
      \cup [pc : {"sweep"}, left : SUBSET StreamIds]

Init ==
    /\ peers = Peers
    /\ table = {}
    /\ streams = [i \in StreamIds |-> NoStream]
    /\ mu = None
    /\ closer = None
    /\ at = [t \in Threads |-> [pc |-> "idle"]]

Made(i) == streams[i] # NoStream
Goto(t, place) == at' = [at EXCEPT ![t] = place]
Idle(t) == at[t].pc = "idle"

\* OpenStream has not returned the stream yet.
Opening(i) ==
    \E t \in Apps : at[t].pc \in {"announce", "abandon"} /\ at[t].id = i

\* A read loop gets a message, until the client closes its connections.
Reads(t) == t \in Loops /\ Idle(t) /\ closer = None

\* After closeWith a read loop ends, an application's call returns.
Finish(t) == Goto(t, [pc |-> IF t \in Loops THEN "ended" ELSE "idle"])

-----------------------------------------------------------------------------
\* A stream is registered: by OpenStream, by a stream_open on the control path
\* or by a data frame on the relay path; each looks at the peer first.
Recognise(t, p) ==
    /\ Idle(t)
    /\ t \in Apps \/ Reads(t)
    /\ p \in peers
    /\ Goto(t, [pc |-> "register", peer |-> p])
    /\ UNCHANGED <<peers, table, streams, mu, closer>>

Register(t) ==
    /\ at[t].pc = "register"
    /\ mu = None
    /\ \E i \in StreamIds :
         /\ ~Made(i)
         /\ streams' = [streams EXCEPT ![i] = [peer |-> at[t].peer, once |-> Fresh]]
         /\ table' = table \cup {i}
         /\ Goto(t, IF t \in Apps THEN [pc |-> "announce", id |-> i] ELSE [pc |-> "idle"])
    /\ UNCHANGED <<peers, mu, closer>>

\* A frame of a stream that is there changes nothing here.
Known(t) ==
    /\ at[t].pc = "register"
    /\ t \in Loops
    /\ mu = None
    /\ table # {}
    /\ Goto(t, [pc |-> "idle"])
    /\ UNCHANGED <<peers, table, streams, mu, closer>>

\* OpenStream tells the peer and returns the stream, or cannot send.
Announce(t) ==
    /\ at[t].pc = "announce"
    /\ \/ Goto(t, [pc |-> "idle"])
       \/ Goto(t, [pc |-> "abandon", id |-> at[t].id])
    /\ UNCHANGED <<peers, table, streams, mu, closer>>

\* Then it ends the stream again, and drops it when the Once is over.
Abandon(t) ==
    LET i == at[t].id IN
    /\ at[t].pc = "abandon"
    /\ streams[i].once \in {Fresh, Over}
    /\ streams' = [streams EXCEPT ![i].once = Over]
    /\ Goto(t, [pc |-> "drop", id |-> i])
    /\ UNCHANGED <<peers, table, mu, closer>>

-----------------------------------------------------------------------------
\* A stream ends: Stream.Close or Reset by the application, or a close or reset
\* frame, for which the relay loop looks the stream up.
CloseStream(t, i) ==
    /\ Idle(t)
    /\ \/ t \in Apps /\ Made(i) /\ ~Opening(i)
       \/ t = Relay /\ Reads(t) /\ mu = None /\ i \in table
    /\ Goto(t, [pc |-> "end", id |-> i])
    /\ UNCHANGED <<peers, table, streams, mu, closer>>

\* s.once.Do: the first caller goes inside, the others wait until it is out.
EnterOnce(t) ==
    LET i == at[t].id IN
    /\ at[t].pc = "end"
    /\ \/ /\ streams[i].once = Fresh
          /\ streams' = [streams EXCEPT ![i].once = t]
          /\ Goto(t, [pc |-> "drop", id |-> i])
       \/ /\ streams[i].once = Over
          /\ Goto(t, [pc |-> "idle"])
          /\ UNCHANGED streams
    /\ UNCHANGED <<peers, table, mu, closer>>

\* Inside: the peer is told and the stream's channel closed; dropStream then
\* takes streamsMu, and the Once is over.
DropStream(t) ==
    LET i == at[t].id IN
    /\ at[t].pc = "drop"
    /\ mu = None
    /\ table' = table \ {i}
    /\ streams' = [streams EXCEPT ![i].once = Over]
    /\ Goto(t, [pc |-> "idle"])
    /\ UNCHANGED <<peers, mu, closer>>

-----------------------------------------------------------------------------
\* member_left, in the control loop: removePeer forgets the peer, then ends its
\* streams with streamsMu held.
RemovePeer(p) ==
    /\ Reads(Control)
    /\ p \in peers
    /\ peers' = peers \ {p}
    /\ Goto(Control, [pc |-> "lock", of |-> {p}])
    /\ UNCHANGED <<table, streams, mu, closer>>

\* Close and Abort, or a loop whose connection is lost: closeOnce.Do.
CloseClient(t) ==
    /\ Idle(t)
    /\ Goto(t, [pc |-> "closing"])
    /\ UNCHANGED <<peers, table, streams, mu, closer>>

EnterCloseOnce(t) ==
    /\ at[t].pc = "closing"
    /\ \/ closer = None /\ closer' = t /\ Goto(t, [pc |-> "lock", of |-> Peers])
       \/ closer = Over /\ UNCHANGED closer /\ Finish(t)
    /\ UNCHANGED <<peers, table, streams, mu>>

LockTable(t) ==
    /\ at[t].pc = "lock"
    /\ mu = None
    /\ mu' = t
    /\ Goto(t, [pc |-> "sweep",
                left |-> {i \in table : streams[i].peer \in at[t].of}])
    /\ UNCHANGED <<peers, table, streams, closer>>

\* s.once.Do under streamsMu, in the map's order, which is any.
Sweep(t) ==
    /\ at[t].pc = "sweep"
    /\ \E i \in at[t].left :
         /\ streams[i].once \in {Fresh, Over}
         /\ streams' = [streams EXCEPT ![i].once = Over]
         /\ table' = table \ {i}
         /\ Goto(t, [at[t] EXCEPT !.left = @ \ {i}])
    /\ UNCHANGED <<peers, mu, closer>>

UnlockTable(t) ==
    /\ at[t].pc = "sweep"
    /\ at[t].left = {}
    /\ mu' = None
    /\ closer' = IF closer = t THEN Over ELSE closer
    /\ IF closer = t THEN Finish(t) ELSE Goto(t, [pc |-> "idle"])
    /\ UNCHANGED <<peers, table, streams>>

-----------------------------------------------------------------------------
Next ==
    \/ \E t \in Threads, p \in Peers : Recognise(t, p)
    \/ \E t \in Threads, i \in StreamIds : CloseStream(t, i)
    \/ \E t \in Threads :
         \/ Register(t) \/ Known(t) \/ Announce(t) \/ Abandon(t)
         \/ EnterOnce(t) \/ DropStream(t)
         \/ CloseClient(t) \/ EnterCloseOnce(t)
         \/ LockTable(t) \/ Sweep(t) \/ UnlockTable(t)
    \/ \E p \in Peers : RemovePeer(p)

Spec == Init /\ [][Next]_vars

-----------------------------------------------------------------------------
\* Properties.

TypeOK ==
    /\ peers \subseteq Peers
    /\ table \subseteq StreamIds
    /\ streams \in [StreamIds -> Stream \cup {NoStream}]
    /\ mu \in Threads \cup {None}
    /\ closer \in Threads \cup {None, Over}
    /\ at \in [Threads -> Place]

\* Whom a goroutine waits for: the holder of streamsMu, or those inside a Once.
WaitsFor(t) ==
    CASE at[t].pc \in {"register", "drop", "lock"} -> {mu}
      [] at[t].pc \in {"end", "abandon"} -> {streams[at[t].id].once}
      [] at[t].pc = "sweep" -> {streams[i].once : i \in at[t].left}
      [] at[t].pc = "closing" -> {closer}
      [] OTHER                -> {}

-----------------------------------------------------------------------------
\* What the repository says and the code does not keep.

\* "removePeer removes the member and cleans up its keys and streams"
\* (loops.go:481): it can come to its end, since nobody it waits for waits for
\* it; nor do any other two goroutines of the client wait for each other.
CleanupCanEnd ==
    \A t, u \in Threads : ~(u \in WaitsFor(t) /\ t \in WaitsFor(u))

=============================================================================
