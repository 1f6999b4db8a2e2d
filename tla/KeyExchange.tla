----------------------------- MODULE KeyExchange -----------------------------
(***************************************************************************)
(* The clients of one session and the keys they agree on in pairs          *)
(* (pkg/sessionclient, over the signalling path of internal/server).  A    *)
(* process is one run of the SDK from Join to its end; its X25519 key pair *)
(* is drawn by Join, so the process names its public key.  A node that     *)
(* comes back is a new process, under its old member id unless it had left.*)
(*                                                                         *)
(* The server relays a key_exchange to the target's control connection and *)
(* drops it silently if there is none (ws.go:214-226).  The two directions *)
(* of a control connection are queues, and the handler of a connection     *)
(* attaches it, reads the list and sends it in three steps, with whatever  *)
(* the others send it queued in between.  Abstracted: the other            *)
(* interleavings of the server (Server has them): a Join, a departure and  *)
(* an approval with its announcements are one step each here;              *)
(* session_ready, which makes no client say hello; rejection and pruning.  *)
(***************************************************************************)
EXTENDS Integers, Sequences, FiniteSets

LOCAL INSTANCE SequencesExt

CONSTANTS
    Nodes,           \* node identities, numbered in the order they first join
    Approvals,       \* RequireApproval: the settings looked at
    MaxProcesses,    \* bound: how often the SDK is started
    MaxWithApproval, \* bound: the same for a session that requires approval
    MaxEnds          \* bound: how many of the processes end by themselves

ASSUME KeyExchangeConstants ==
    /\ MaxProcesses \in Nat /\ MaxWithApproval \in Nat /\ MaxEnds \in Nat
    /\ Nodes \subseteq Nat /\ Approvals \subseteq BOOLEAN

VARIABLES
    approval, \* SessionRecord.RequireApproval, fixed when the session is made
    members,  \* the store: id, node and status
    issued,   \* how many member ids were drawn
    room,     \* the hub: who is attached by which process
    proc,     \* the clients
    link,     \* link[p]: the handler of p's control connection
    up,       \* up[p]: what p has written and the server has not read
    down      \* down[p]: what the server has sent p and p has not read

vars == <<approval, members, issued, room, proc, link, up, down>>

Processes == 1..MaxProcesses
Ids == 1..MaxProcesses   \* no more members than processes
Owner == 1               \* the first to join
Leave == 0               \* in up: a leave; an id there is a key_exchange to it
NoKey == 0

Members  == [id : Ids, node : Nodes, active : BOOLEAN]
Attached == [id : Ids, process : Processes, approved : BOOLEAN]

\* Before Dial the process waits for the answer to its HTTP request; in "hail"
\* Join's own goroutine has still to greet, while the read loop already runs.
Unborn == [pc |-> "unborn"]
Client ==
    [pc : {"announce", "dial", "hail", "run", "gone"},
     node : Nodes, id : Ids, relay : BOOLEAN, peers : SUBSET Ids, sent : SUBSET Ids, replied : SUBSET Ids,
     keys : [Ids -> Processes \cup {NoKey}]]

\* The handler has yet to attach its connection, with the status it has read,
\* to read the list, to send it; then it serves what the client writes.
\* missed is a history variable: who left between the attach and the list.
Handler ==
    [pc : {"none", "attach", "read", "send", "serve"}, approved : BOOLEAN,
     list : SUBSET Ids, missed : SUBSET Ids]
NoHandler == [pc |-> "none", approved |-> FALSE, list |-> {}, missed |-> {}]

Messages ==
    [type : {"list"}, ids : SUBSET Ids] \cup
    [type : {"member_joined", "member_left"}, id : Ids] \cup
    [type : {"joined"}] \cup
    [type : {"key_exchange"}, from : Ids, pub : Processes]

Init ==
    /\ approval \in Approvals
    /\ members = {}
    /\ issued = 0
    /\ room = {}
    /\ proc = [p \in Processes |-> Unborn]
    /\ link = [p \in Processes |-> NoHandler]
    /\ up = [p \in Processes |-> <<>>]
    /\ down = [p \in Processes |-> <<>>]

ActiveIds == {m.id : m \in {x \in members : x.active}}
Alive(p)  == proc[p].pc \in {"announce", "dial", "hail", "run"}
Reads(p)  == proc[p].pc \in {"hail", "run"}

\* m is queued for the processes in to that still read.
Sent(to, m) ==
    down' = [p \in Processes |->
        IF p \in to /\ Reads(p) THEN Append(down[p], m) ELSE down[p]]

ProcessOf(id) == {a.process : a \in {x \in room : x.id = id}}
Audience      == {a.process : a \in {x \in room : x.approved}}

\* What c knew ends with it.
NoKeys == [i \in Ids |-> NoKey]
Ended(c) ==
    [c EXCEPT !.pc = "gone", !.relay = FALSE, !.peers = {}, !.sent = {},
              !.replied = {}, !.keys = NoKeys]

-----------------------------------------------------------------------------
\* Joining.  A definition X_Y is X with the mistake Y in it, for the checks.

\* newMemberID.
NewId_Twice == issued + 2
NewId == issued + 1

\* One process per identity at a time.  The answer lists the active members and
\* says whether this one is active: only then does Join open the data plane.
Join(p, n) ==
    LET mine == {m \in members : m.node = n}
        new  == [id |-> NewId, node |-> n,
                 active |-> ~approval \/ issued = 0]
        me   == IF mine = {} THEN new ELSE CHOOSE m \in mine : TRUE
    IN  /\ proc[p] = Unborn
        /\ \A q \in Processes : q < p => proc[q] # Unborn
        /\ approval => p <= MaxWithApproval
        /\ \A k \in Nodes : k < n =>
             \E q \in Processes : proc[q] # Unborn /\ proc[q].node = k
        /\ \A q \in Processes : Alive(q) => proc[q].node # n
        /\ members' = members \cup {me}
        /\ issued' = IF mine = {} THEN NewId ELSE issued
        /\ proc' = [proc EXCEPT ![p] =
             [pc |-> IF me.active THEN "announce" ELSE "dial", node |-> n,
              id |-> me.id, relay |-> me.active, peers |-> ActiveIds \ {me.id}, sent |-> {},
              replied |-> {}, keys |-> NoKeys]]
        /\ UNCHANGED <<approval, room, link, up, down>>

\* handleJoin announces the member before it answers.
Announce(p) ==
    /\ proc[p].pc = "announce"
    /\ Sent(Audience \ ProcessOf(proc[p].id),
            [type |-> "member_joined", id |-> proc[p].id])
    /\ proc' = [proc EXCEPT ![p].pc = "dial"]
    /\ UNCHANGED <<approval, members, issued, room, link, up>>

\* connectControl, and the handler of the new connection up to its read of the
\* member: the connection of a member that is gone is closed.
Dial(p) ==
    LET mine == {m \in members : m.id = proc[p].id}
    IN  /\ proc[p].pc = "dial"
        /\ proc' = [proc EXCEPT ![p] = IF mine = {} THEN Ended(@)
                                        ELSE [@ EXCEPT !.pc = "hail"]]
        /\ link' = IF mine = {} THEN link
                   ELSE [link EXCEPT ![p].pc = "attach",
                                     ![p].approved = \E m \in mine : m.active]
        /\ UNCHANGED <<approval, members, issued, room, up, down>>

-----------------------------------------------------------------------------
\* The client.

\* sendHelloTo each of ids, in the order of a Go map: once per peer.
Fresh(c, ids) == ids \ (c.sent \cup {c.id})
Greet(p, c, ids) ==
    /\ proc' = [proc EXCEPT ![p] = [c EXCEPT !.sent = @ \cup ids]]
    /\ \E hellos \in SetToSeqs(Fresh(c, ids)) : up' = [up EXCEPT ![p] = @ \o hellos]

\* Join's last step.
Hail(p) ==
    /\ proc[p].pc = "hail"
    /\ Greet(p, [proc[p] EXCEPT !.pc = "run"], proc[p].peers)
    /\ UNCHANGED <<approval, members, issued, room, link, down>>

\* dispatchControl, by the type of the message.
OnList(p, m) ==
    /\ m.type = "list"
    /\ LET c == [proc[p] EXCEPT !.peers = @ \cup (m.ids \ {proc[p].id})]
       IN  Greet(p, c, c.peers)

OnMemberJoined(p, m) ==
    /\ m.type = "member_joined"
    /\ Greet(p, [proc[p] EXCEPT !.peers = @ \cup {m.id}], {m.id})

\* The owner has approved this client: it tries to open the data plane, which
\* may fail.
OnJoined(p, m) ==
    /\ m.type = "joined"
    /\ \E opened \in {TRUE, proc[p].relay} :
         Greet(p, [proc[p] EXCEPT !.relay = opened], proc[p].peers)

\* removePeer forgets the key of a peer it knows; helloSent and helloReplied stay.
Without_KeepsKey(c, id) == [c EXCEPT !.peers = @ \ {id}]
Without(c, id) ==
    [c EXCEPT !.peers = @ \ {id},
              !.keys[id] = IF id \in c.peers THEN NoKey ELSE @]

OnMemberLeft(p, m) ==
    /\ m.type = "member_left"
    /\ proc' = [proc EXCEPT ![p] = Without(@, m.id)]
    /\ UNCHANGED up

\* derive, then replyHello: once per peer.
Unanswered_Always(c, id) == TRUE
Unanswered_Hello(c, id) == id \notin c.sent
Unanswered(c, id) == id \notin c.replied
OnKeyExchange(p, m) ==
    /\ m.type = "key_exchange"
    /\ proc' = [proc EXCEPT ![p].keys[m.from] = m.pub,
                            ![p].replied = @ \cup {m.from}]
    /\ up' = IF Unanswered(proc[p], m.from)
             THEN [up EXCEPT ![p] = Append(@, m.from)] ELSE up

Read(p) ==
    /\ Reads(p)
    /\ down[p] # <<>>
    /\ LET m == Head(down[p]) IN
         \/ OnList(p, m) \/ OnMemberJoined(p, m) \/ OnJoined(p, m)
         \/ OnMemberLeft(p, m) \/ OnKeyExchange(p, m)
    /\ down' = [down EXCEPT ![p] = Tail(@)]
    /\ UNCHANGED <<approval, members, issued, room, link>>

MayEnd(p) ==
    /\ Reads(p)
    /\ Cardinality({q \in Processes : proc[q].pc = "gone"}) < MaxEnds

\* Close says goodbye; Abort, a crash or a network failure does not, and what
\* was on its way may be lost.
Close(p) ==
    /\ MayEnd(p)
    /\ proc' = [proc EXCEPT ![p] = Ended(@)]
    /\ up' = [up EXCEPT ![p] = Append(@, Leave)]
    /\ down' = [down EXCEPT ![p] = <<>>]
    /\ UNCHANGED <<approval, members, issued, room, link>>

Lost(p) ==
    /\ MayEnd(p)
    /\ proc' = [proc EXCEPT ![p] = Ended(@)]
    /\ \E k \in 0..Len(up[p]) : up' = [up EXCEPT ![p] = SubSeq(@, 1, k)]
    /\ down' = [down EXCEPT ![p] = <<>>]
    /\ UNCHANGED <<approval, members, issued, room, link>>

Abort(p) == Lost(p)

\* heartbeatLoop writes to both connections at every tick.  A client without a
\* data plane has none to write to: the nil pointer ends the program.
Heartbeat(p) ==
    /\ MayEnd(p) /\ ~proc[p].relay
    /\ Lost(p)

-----------------------------------------------------------------------------
\* The server.  The handler of p's connection, whether or not p is still there.

\* Hub.Attach: the connection takes the place of another one of the member,
\* whose process loses it.
AttachControl(p) ==
    LET id == proc[p].id
        replaced == ProcessOf(id)
    IN  /\ link[p].pc = "attach"
        /\ room' = {a \in room : a.id # id} \cup
             {[id |-> id, process |-> p, approved |-> link[p].approved]}
        /\ link' = [link EXCEPT ![p].pc = "read", ![p].approved = FALSE]
        /\ proc' = [q \in Processes |->
                      IF q \in replaced /\ Alive(q) THEN Ended(proc[q]) ELSE proc[q]]
        /\ down' = [q \in Processes |-> IF q \in replaced THEN <<>> ELSE down[q]]
        /\ UNCHANGED <<approval, members, issued, up>>

\* sendMemberList reads the members ...
ReadList(p) ==
    /\ link[p].pc = "read"
    /\ link' = [link EXCEPT ![p].pc = "send", ![p].list = ActiveIds]
    /\ UNCHANGED <<approval, members, issued, room, proc, up, down>>

\* ... and queues the list, behind what the others have sent meanwhile.
SendList(p) ==
    /\ link[p].pc = "send"
    /\ Sent({p}, [type |-> "list", ids |-> link[p].list])
    /\ link' = [link EXCEPT ![p].pc = "serve", ![p].list = {}]
    /\ UNCHANGED <<approval, members, issued, room, proc, up>>

\* forwardToPeer, to an active member's connection if it has one.
Forward(p, to) ==
    /\ to # Leave
    /\ Sent(IF to \in ActiveIds THEN ProcessOf(to) ELSE {},
            [type |-> "key_exchange", from |-> proc[p].id, pub |-> p])
    /\ UNCHANGED <<approval, members, issued, room, proc, link>>

\* MsgLeave: the member is removed, whichever process holds its connection now
\* is kicked, the others are told.
Goodbye(p, to) ==
    LET id == proc[p].id
        kicked == ProcessOf(id)
    IN  /\ to = Leave
        /\ members' = {m \in members : m.id # id}
        /\ room' = {a \in room : a.id # id}
        /\ proc' = [q \in Processes |->
                      IF q \in kicked /\ Alive(q) THEN Ended(proc[q]) ELSE proc[q]]
        /\ down' = [q \in Processes |->
                      IF q \in kicked THEN <<>>
                      ELSE IF q \in Audience /\ Reads(q)
                      THEN Append(down[q], [type |-> "member_left", id |-> id])
                      ELSE down[q]]
        /\ link' = [q \in Processes |->
                      IF link[q].pc \in {"read", "send"}
                      THEN [link[q] EXCEPT !.missed = @ \cup {id}] ELSE link[q]]
        /\ UNCHANGED <<approval, issued>>

Serve(p) ==
    /\ link[p].pc = "serve"
    /\ up[p] # <<>>
    /\ Forward(p, Head(up[p])) \/ Goodbye(p, Head(up[p]))
    /\ up' = [up EXCEPT ![p] = Tail(@)]

\* The read loop of a lost connection ends and detaches it; that of one that
\* was replaced or kicked may end before it has read everything.
Detach(p) ==
    /\ link[p].pc = "serve" /\ ~Alive(p)
    /\ up[p] = <<>> \/ \A a \in room : a.process # p
    /\ room' = {a \in room : a.process # p}
    /\ link' = [link EXCEPT ![p] = NoHandler]
    /\ up' = [up EXCEPT ![p] = <<>>]
    /\ UNCHANGED <<approval, members, issued, proc, down>>

\* handleApprove: member_joined to everyone, then joined to the member itself.
Approve(m) ==
    LET itself == ProcessOf(m.id)
        news   == <<[type |-> "member_joined", id |-> m.id]>>
    IN  /\ ~m.active
        /\ \E o \in members : o.id = Owner
        /\ members' = (members \ {m}) \cup {[m EXCEPT !.active = TRUE]}
        /\ room' = {IF a.id = m.id THEN [a EXCEPT !.approved = TRUE] ELSE a : a \in room}
        /\ down' = [q \in Processes |->
             IF ~Reads(q) THEN down[q]
             ELSE IF q \in itself THEN down[q] \o news \o <<[type |-> "joined"]>>
             ELSE IF q \in Audience THEN down[q] \o news
             ELSE down[q]]
        /\ UNCHANGED <<approval, issued, proc, link, up>>

-----------------------------------------------------------------------------
Next ==
    \/ \E p \in Processes, n \in Nodes : Join(p, n)
    \/ \E p \in Processes :
         \/ Announce(p) \/ Dial(p) \/ Hail(p) \/ Read(p)
         \/ Close(p) \/ Abort(p) \/ Heartbeat(p)
         \/ AttachControl(p) \/ ReadList(p) \/ SendList(p) \/ Serve(p) \/ Detach(p)
    \/ \E m \in members : Approve(m)

\* Every goroutine that has something to do gets to do it; nobody has to join,
\* leave, fail or approve.
Fairness ==
    \A p \in Processes :
        /\ WF_vars(Announce(p)) /\ WF_vars(Dial(p)) /\ WF_vars(Hail(p))
        /\ WF_vars(AttachControl(p)) /\ WF_vars(ReadList(p)) /\ WF_vars(SendList(p))
        /\ WF_vars(Read(p)) /\ WF_vars(Serve(p)) /\ WF_vars(Detach(p))

Spec == Init /\ [][Next]_vars /\ Fairness

-----------------------------------------------------------------------------
\* Properties.

TypeOK ==
    /\ approval \in BOOLEAN
    /\ members \subseteq Members
    /\ issued \in 0..MaxProcesses
    /\ room \subseteq Attached
    /\ proc \in [Processes -> Client \cup {Unborn}]
    /\ link \in [Processes -> Handler]
    /\ up \in [Processes -> Seq(Ids \cup {Leave})]
    /\ down \in [Processes -> Seq(Messages)]

\* p and q are both connected, as active members.
Together(p, q) ==
    \A r \in {p, q} :
        /\ proc[r].pc = "run"
        /\ proc[r].id \in ActiveIds
        /\ \E a \in room : a.process = r

HasKeyOf(p, q) ==
    proc[p] # Unborn /\ proc[q] # Unborn /\ proc[p].keys[proc[q].id] = q

\* No other process has had p's member id.
First(p) ==
    /\ proc[p] # Unborn
    /\ \A r \in Processes \ {p} : proc[r] # Unborn => proc[r].id # proc[p].id

\* Nothing happens for ever, so what holds again and again holds at the end.
\* Two clients that stay connected end up with each other's key, in whatever
\* order they joined, attached and were approved and however many greetings
\* were dropped before the peer was attached: lost messages heal because both
\* sides greet and both answer once (ws.go:222-225, loops.go:42-45).
Converges ==
    []<>(\A p, q \in Processes :
            p # q /\ Together(p, q) /\ First(p) /\ First(q) => HasKeyOf(p, q))

\* There is no storm of greetings answering each other: the signalling dies
\* down (loops.go:548-551, 635-640).
DiesDown == <>[](\A p \in Processes : up[p] = <<>> /\ down[p] = <<>>)

\* Nothing is on its way, and every handler has sent its list.
Quiet ==
    \A p \in Processes :
        /\ up[p] = <<>> /\ down[p] = <<>>
        /\ link[p].pc \in {"none", "serve"}

Present(p) == \E m \in members : m.id = proc[p].id

\* When nothing is on its way, nobody keeps the key of a process whose member
\* has left, whatever order its greetings, its departure and the lists arrived
\* in (loops.go:481-503): only the key of one that left between a client's
\* attach and its list may stay.  One that greeted while it waited for approval
\* was never a peer: its key is kept when it gives up.
KeysForgotten ==
    ~approval /\ Quiet =>
        \A p, q \in Processes :
            Reads(p) /\ First(q) /\ HasKeyOf(p, q) =>
                Present(q) \/ proc[q].id \in link[p].missed

-----------------------------------------------------------------------------
\* What the repository says and the code does not keep.

\* A client that lost its connection and came back takes up its session again
\* (client.go:671-677): every two connected clients end up with each other's key.
ConvergesAfterReconnect ==
    []<>(\A p, q \in Processes : p # q /\ Together(p, q) => HasKeyOf(p, q))

=============================================================================
