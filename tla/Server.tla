------------------------------- MODULE Server -------------------------------
(***************************************************************************)
(* internal/server over the store and the hub: the WebSocket handlers that *)
(* attach and detach connections, the hook that reports a member offline,  *)
(* and the HTTP handlers that change the store first and tell the hub and  *)
(* the room afterwards.  A step is one lock section or one store call.     *)
(*                                                                         *)
(* A heartbeat, an offer of candidates, an approval and a rejection read a *)
(* member's record, change the copy and write it back whole; a join's two  *)
(* store calls are one step here (SessionService has them apart), and time *)
(* stands still.  A text frame a handler puts in a connection's queue      *)
(* reaches the client at once: queues keep their order, none is ever full  *)
(* here (a full one drops the frame, hub.go:102-112), and only what a      *)
(* client has been told about its peers is modelled, the part of the       *)
(* control protocol discovery rests on (the client's peer table:           *)
(* pkg/sessionclient/loops.go).                                            *)
(***************************************************************************)
EXTENDS SessionStore, Hub

CONSTANTS
    MaxJoins,    \* bound: successful joins
    MaxRequests  \* bound: HTTP handlers between their first store call and their end

\* The hub is given the ids and the indices that the store draws.
ASSUME ServerConstants ==
    /\ MaxJoins \in Nat /\ MaxRequests \in Nat
    /\ 1..MaxJoins \subseteq Ids
    /\ 1..MaxIndex \subseteq Indices

VARIABLES
    drawn,    \* connection ids drawn by handleJoin
    tickets,  \* tickets handed out: member id and connection id
    client,   \* client[h]: what the client of connection h was told
    todo,     \* what HTTP handlers still have to do after their last store call
    copies,   \* records that were read and are still to be written back
    reported, \* history: the connection ids that were reported offline
    overwritten  \* history: the ids over whose record, changed since it was
                 \* read, a copy was written back

vars == <<storeVars, hubVars, drawn, tickets, client, todo, copies, reported, overwritten>>

\* due: what the read loop's goroutine has still to do, of sendMemberList, of
\* MsgLeave or of a record's update; peers: the members the client counts as
\* its peers.
Dues == {"nothing", "list", "send", "leave", "bye", "offer", "write"}
Client ==
    [conn : Nat, due : Dues, list : SUBSET Id, peers : SUBSET Id]
Nobody == [conn |-> 0, due |-> "nothing", list |-> {}, peers |-> {}]

Steps == {"joined", "left", "goodbye", "approve", "welcome", "reject",
          "kick", "close"}
Todo  == [step : Steps, id : Nat, index : 0..MaxIndex, all : SUBSET Id]

\* The rest of a handler: about a member, about nobody.
About_NoIndex(step, m, all) ==
    [step |-> step, id |-> m.id, index |-> 0, all |-> all]
About(step, m, all) ==
    [step |-> step, id |-> m.id, index |-> m.index, all |-> all]
CloseAfter == [step |-> "close", id |-> 0, index |-> 0, all |-> {}]

\* by: the connection whose handler read the record, None for an HTTP handler;
\* rec: the record as it was read.
Copy == [op : {"refresh", "approve", "reject"}, by : Handlers \cup {None}, rec : Member]

\* What is written: candidates and LastSeen are not modelled, so a refresh
\* writes what was read.
Written(w) ==
    CASE w.op = "refresh" -> w.rec
      [] w.op = "approve" -> Approved(w.rec)
      [] w.op = "reject"  -> Denied(w.rec)

Init ==
    /\ StoreInit
    /\ HubInit
    /\ drawn = 0
    /\ tickets = {}
    /\ client = [h \in Handlers |-> Nobody]
    /\ todo = {}
    /\ copies = {}
    /\ reported = {}
    /\ overwritten = {}

ActiveIds == {m.id : m \in ActiveMembers(members)}

\* An HTTP handler more can be at work, and leaves t for after its store call.
MayServe == Cardinality(todo) + Cardinality({w \in copies : w.by = None}) < MaxRequests
Later(t) == MayServe /\ todo' = todo \cup t

\* A message to the audience's clients, those still reading.
Hear(audience, new, gone) ==
    client' = [h \in Handlers |->
        IF h \in audience /\ Served(h)
        THEN [client[h] EXCEPT !.peers = (@ \cup (new \ {conns[h].id})) \ gone]
        ELSE client[h]]
Meet(audience, ids)  == Hear(audience, ids, {})
Forgo(audience, ids) == Hear(audience, {}, ids)

-----------------------------------------------------------------------------
\* handleControlWS, handleRelayWS: the member's record is read before Attach.
HandleWS(h, t, kind) ==
    /\ session.exists /\ ~Expired
    /\ \E m \in members :
         /\ m.id = t.id
         /\ Open(h, t.id, m.index, kind, m.status = "active")
    /\ client' = [client EXCEPT ![h] = [Nobody EXCEPT !.conn = t.conn]]
    /\ UNCHANGED <<storeVars, drawn, tickets, todo, copies, reported, overwritten>>

AttachWS(h) ==
    /\ Attach(h)
    /\ client' = [client EXCEPT ![h].due =
         IF conns[h].kind = "control" THEN "list" ELSE "nothing"]
    /\ UNCHANGED <<storeVars, drawn, tickets, todo, copies, reported, overwritten>>

\* sendMemberList reads the store, after Attach, then sends.  The client adds
\* the active members of the list to those it knows.
ReadList(h) ==
    /\ client[h].due = "list" /\ conns[h].pc = "serve"
    /\ client' = IF session.exists /\ ~Expired
                 THEN [client EXCEPT ![h].due = "send", ![h].list = ActiveIds]
                 ELSE [client EXCEPT ![h].due = "nothing"]
    /\ UNCHANGED <<storeVars, hubVars, drawn, tickets, todo, copies, reported, overwritten>>

ListedPeers_Replace(c, id) == c.list \ {id}
ListedPeers(c, id) == c.peers \cup (c.list \ {id})
SendList(h) ==
    /\ client[h].due = "send"
    /\ client' = [client EXCEPT ![h] =
         [@ EXCEPT !.due = "nothing", !.list = {},
                   !.peers = ListedPeers(client[h], conns[h].id)]]
    /\ UNCHANGED <<storeVars, hubVars, drawn, tickets, todo, copies, reported, overwritten>>

\* The read loop: a heartbeat, if the recorded connection is the ticket's.
Reads(h) == conns[h].pc = "serve" /\ conns[h].kind = "control"

Refresh(h, m) ==
    /\ session.exists
    /\ copies' = copies \cup {[op |-> "refresh", by |-> h, rec |-> m]}
    /\ client' = [client EXCEPT ![h].due = "write"]

Touch(h) ==
    /\ Reads(h) /\ client[h].due = "nothing"
    /\ \E m \in members :
         /\ m.id = conns[h].id /\ m.conn = client[h].conn
         /\ Refresh(h, m)
    /\ UNCHANGED <<storeVars, hubVars, drawn, tickets, todo, reported, overwritten>>

\* An offer or an answer with candidates was forwarded to an active member that
\* has a connection: only then the sender's record is updated.
Offer(h) ==
    /\ Reads(h) /\ client[h].due = "nothing"
    /\ HubFree
    /\ ~Gone /\ ~Expired
    /\ \E m \in ActiveMembers(members) : InSession(m.id) # {}
    /\ client' = [client EXCEPT ![h].due = "offer"]
    /\ UNCHANGED <<storeVars, hubVars, drawn, tickets, todo, copies, reported, overwritten>>

\* Whichever connection is recorded.
UpdateCandidates(h) ==
    /\ client[h].due = "offer"
    /\ \/ \E m \in members : m.id = conns[h].id /\ Refresh(h, m)
       \/ /\ \A m \in members : m.id # conns[h].id
          /\ client' = [client EXCEPT ![h].due = "nothing"]
          /\ UNCHANGED copies
    /\ UNCHANGED <<storeVars, hubVars, drawn, tickets, todo, reported, overwritten>>

\* MsgLeave: the store, the hub and the room in turn, whatever the first says;
\* then the loop ends.
LeaveWS(h) ==
    /\ Reads(h) /\ client[h].due = "nothing"
    /\ \/ RemoveMember(conns[h].id)
       \/ (\A m \in members : m.id # conns[h].id) /\ UNCHANGED storeVars
    /\ client' = [client EXCEPT ![h].due = "leave"]
    /\ UNCHANGED <<hubVars, drawn, tickets, todo, copies, reported, overwritten>>

KickOwn(h) ==
    /\ client[h].due = "leave"
    /\ CloseMember(conns[h].id)
    /\ client' = [client EXCEPT ![h].due = "bye"]
    /\ UNCHANGED <<storeVars, drawn, tickets, todo, copies, reported, overwritten>>

ByeWS(h) ==
    /\ client[h].due = "bye"
    /\ HubFree
    /\ Hangup(h)
    /\ Forgo(Audience(Ids \ {conns[h].id}), {conns[h].id})
    /\ UNCHANGED <<storeVars, drawn, tickets, todo, copies, reported, overwritten>>

HangupWS(h) ==
    /\ client[h].due = "nothing"
    /\ Hangup(h)
    /\ UNCHANGED <<storeVars, drawn, tickets, client, todo, copies, reported, overwritten>>

\* The rest of Attach and Detach is the hub's alone.
LockSection(h) ==
    /\ Fetch(h) \/ Replace(h) \/ FindRoom(h) \/ Vacate(h) \/ Recheck(h) \/ Drop(h)
    /\ client' = IF conns'[h] = Ended THEN [client EXCEPT ![h] = Nobody] ELSE client
    /\ UNCHANGED <<storeVars, drawn, tickets, todo, copies, reported, overwritten>>

\* The offline hook: MarkOffline with this connection's id; ErrConflict and a
\* missing member are only logged.
HookWS(h) ==
    /\ Hook(h)
    /\ \/ MarkOffline(conns[h].id, client[h].conn)
       \/ /\ \A m \in members : m.id = conns[h].id => m.conn # client[h].conn
          /\ UNCHANGED storeVars
    /\ client' = [client EXCEPT ![h] = Nobody]
    /\ reported' = reported \cup {client[h].conn}
    /\ UNCHANGED <<drawn, tickets, todo, copies, overwritten>>

-----------------------------------------------------------------------------
\* HTTP handlers: the store call.

\* handleJoin.  A pending member is not announced; when the last seat is taken
\* the whole list is sent as well.
HandleJoin(n) ==
    LET c == drawn + 1
        mine == {m \in members' : m.node = n}
        active == ActiveMembers(members')
    IN  /\ drawn < MaxJoins
        /\ ~Expired
        /\ ~session.revoked \/ MembersOfNode(n) # {}
        /\ Join(n, c)
        /\ drawn' = c
        /\ tickets' = tickets \cup {[id |-> m.id, conn |-> c] : m \in mine}
        /\ Later(
             {About("joined", m,
                    IF Seats > 0 /\ Cardinality(active) >= Seats
                    THEN {a.id : a \in active} ELSE {}) : m \in mine \cap active})
        /\ UNCHANGED <<hubVars, client, copies, reported, overwritten>>

HandleLeave(m) ==
    /\ RemoveMember(m.id)
    /\ Later({About("left", m, {})})
    /\ UNCHANGED <<hubVars, drawn, tickets, client, copies, reported, overwritten>>

\* handleApprove and handleReject: all checks on what was read.
HandleApprove(o, m) ==
    /\ session.exists
    /\ o.role = "owner"
    /\ m.status = "pending"
    /\ ~Full
    /\ MayServe
    /\ copies' = copies \cup {[op |-> "approve", by |-> None, rec |-> m]}
    /\ UNCHANGED <<storeVars, hubVars, drawn, tickets, client, todo, reported, overwritten>>

HandleReject(o, m) ==
    /\ session.exists
    /\ o.role = "owner"
    /\ o.id # m.id
    /\ MayServe
    /\ copies' = copies \cup {[op |-> "reject", by |-> None, rec |-> m]}
    /\ UNCHANGED <<storeVars, hubVars, drawn, tickets, client, todo, reported, overwritten>>

\* UpdateMember with the copy.  If it fails the HTTP handler answers with the
\* error and is done; the read loop goes on either way.
WriteBack(w) ==
    /\ \/ /\ UpdateMember(Written(w))
          /\ todo' = IF w.op = "refresh" THEN todo
                     ELSE todo \cup {About(w.op, w.rec, {})}
          /\ overwritten' = IF w.rec \in members THEN overwritten
                            ELSE overwritten \cup {w.rec.id}
       \/ /\ \A m \in members : m.id # w.rec.id
          /\ UNCHANGED <<storeVars, todo, overwritten>>
    /\ client' = IF w.by = None THEN client ELSE [client EXCEPT ![w.by].due = "nothing"]
    /\ copies' = copies \ {w}
    /\ UNCHANGED <<hubVars, drawn, tickets, reported>>

\* Bound: asked for once, while a join is left, as only joins and offers look at
\* it; a room of any kind is closed at any moment in HubCalls.
HandleDeleteSession ==
    /\ drawn < MaxJoins /\ ~session.closed
    /\ CloseSession
    /\ Later({CloseAfter})
    /\ UNCHANGED <<hubVars, drawn, tickets, client, copies, reported, overwritten>>

\* handleRevoke and handleRotate tell nobody: who is in stays in.  Bound: asked
\* for while a join is left, as only joins look at it.
HandleRevoke ==
    /\ drawn < MaxJoins
    /\ Revoke
    /\ UNCHANGED <<hubVars, drawn, tickets, client, todo, copies, reported, overwritten>>

HandleRotate ==
    /\ drawn < MaxJoins
    /\ RotateToken
    /\ UNCHANGED <<hubVars, drawn, tickets, client, todo, copies, reported, overwritten>>

\* Prune, some time after the grace period or the idle timeout: the room is
\* not told.
PruneMember(m) ==
    /\ ~Online(m) /\ m.leaveAt # 0
    /\ RemoveMember(m.id)
    /\ UNCHANGED <<hubVars, drawn, tickets, client, todo, copies, reported, overwritten>>

PruneSession ==
    /\ session.closed \/ \A m \in ActiveMembers(members) : ~Online(m)
    /\ Delete
    /\ UNCHANGED <<hubVars, drawn, tickets, client, todo, copies, reported, overwritten>>

-----------------------------------------------------------------------------
\* HTTP handlers: what follows the store call, one step each.

Done(t) == todo' = todo \ {t}
Then(t, step) == todo' = (todo \ {t}) \cup {[t EXCEPT !.step = step]}

\* member_joined to the others, then session_ready to all if the room is full:
\* two broadcasts in a row, taken as one.
Joined(t) ==
    /\ t.step = "joined"
    /\ HubFree
    /\ Meet(Audience(Ids), {t.id} \cup t.all)
    /\ Done(t)
    /\ UNCHANGED <<storeVars, hubVars, drawn, tickets, copies, reported, overwritten>>

\* notifyMemberLeft.
Left(t) ==
    /\ t.step = "left"
    /\ CloseMember(t.id)
    /\ Then(t, "goodbye")
    /\ UNCHANGED <<storeVars, drawn, tickets, client, copies, reported, overwritten>>

Goodbye(t) ==
    /\ t.step = "goodbye"
    /\ HubFree
    /\ Forgo(Audience(Ids \ {t.id}), {t.id})
    /\ Done(t)
    /\ UNCHANGED <<storeVars, hubVars, drawn, tickets, copies, reported, overwritten>>

\* handleApprove: the hub, then member_joined to everyone, the member included.
Admit(t) ==
    /\ t.step = "approve"
    /\ MakeApproved(t.id, t.index)
    /\ Then(t, "welcome")
    /\ UNCHANGED <<storeVars, drawn, tickets, client, copies, reported, overwritten>>

\* The joined message the member gets as well says nothing about its peers.
Welcome(t) ==
    /\ t.step = "welcome"
    /\ HubFree
    /\ Meet(Audience(Ids), {t.id})
    /\ Done(t)
    /\ UNCHANGED <<storeVars, hubVars, drawn, tickets, copies, reported, overwritten>>

Exclude(t) ==
    /\ t.step = "reject"
    /\ SetApproved(t.id, FALSE)
    /\ Then(t, "kick")
    /\ UNCHANGED <<storeVars, drawn, tickets, client, copies, reported, overwritten>>

Kick(t) ==
    /\ t.step = "kick"
    /\ CloseMember(t.id)
    /\ Done(t)
    /\ UNCHANGED <<storeVars, drawn, tickets, client, copies, reported, overwritten>>

CloseRoom(t) ==
    /\ t.step = "close"
    /\ CloseAll
    /\ Done(t)
    /\ UNCHANGED <<storeVars, drawn, tickets, client, copies, reported, overwritten>>

-----------------------------------------------------------------------------
Next ==
    \/ \E h \in Handlers, t \in tickets, kind \in Kinds : HandleWS(h, t, kind)
    \/ \E h \in Handlers :
         \/ AttachWS(h) \/ ReadList(h) \/ SendList(h)
         \/ Touch(h) \/ Offer(h) \/ UpdateCandidates(h)
         \/ LeaveWS(h) \/ KickOwn(h) \/ ByeWS(h) \/ HangupWS(h)
         \/ LockSection(h) \/ HookWS(h)
    \/ \E n \in Nodes : HandleJoin(n)
    \/ \E m \in members : HandleLeave(m)
    \/ \E o \in members, m \in members : HandleApprove(o, m) \/ HandleReject(o, m)
    \/ \E w \in copies : WriteBack(w)
    \/ HandleDeleteSession
    \/ HandleRevoke
    \/ HandleRotate
    \/ \E m \in members : PruneMember(m)
    \/ PruneSession
    \/ \E t \in todo :
         \/ Joined(t) \/ Left(t) \/ Goodbye(t) \/ Admit(t)
         \/ Welcome(t) \/ Exclude(t) \/ Kick(t) \/ CloseRoom(t)

Spec == Init /\ [][Next]_vars

-----------------------------------------------------------------------------
\* Properties.

TypeOK ==
    /\ HubTypeOK
    /\ drawn \in Nat
    /\ tickets \subseteq [id : Id, conn : Id]
    /\ client \in [Handlers -> Client]
    /\ todo \subseteq Todo
    /\ copies \subseteq Copy
    /\ reported \subseteq Id
    /\ overwritten \subseteq Id

\* The members present in the session's room.
Present == IF room = None THEN {} ELSE rooms[room].members

\* The hub holds the member for unapproved and is about to tell it to close.
Leaving(id) == \E t \in todo : t.step = "kick" /\ t.id = id

\* A control client in the session's room that was approved when it attached
\* and was not told to close, nor is about to be, knows every active peer, but
\* for those about to be announced and those made active by a late copy: the
\* list, read after Attach, and the announcements, made after the store's commit,
\* leave no gap (handlers.go:274-279, ws.go:122).  A copy read before a rejection
\* and written after it makes the member active and tells nobody (ws.go:166).
Discovery ==
    \A om \in Present :
        LET h == om.at["control"] IN
        (/\ h # None /\ h \notin kicked /\ om.approved /\ ~Leaving(om.member)
         /\ Served(h) /\ conns[h].approved /\ client[h].due = "nothing")
            => ActiveIds \ ({om.member} \cup overwritten) \subseteq
                 client[h].peers \cup
                 {t.id : t \in {x \in todo : x.step \in {"joined", "approve", "welcome"}}}

\* The index a member has in the room is the one the store gave it, so the
\* relay's lookup by index never finds a present member under another index,
\* however long ago its record was read (ws.go:82-92).
IndexAgrees ==
    \A om \in Present, m \in members : om.member = m.id => om.index = m.index

\* The ticket of a member's latest join: connection ids are drawn in order.
Latest(t) == \A u \in tickets : u.id = t.id => u.conn <= t.conn

\* A member is offline in the store only after the connection of its LATEST join
\* was reported, or because it was rejected: the report of an older connection,
\* however late (memory.go:331, hub.go:294), takes the returned member down only
\* if a copy read before its return was written over its record (service.go:405).
ReportedLast(m) ==
    \E t \in tickets : t.id = m.id /\ Latest(t) /\ t.conn \in reported

OfflineIsExplained ==
    \A m \in members :
        Online(m) \/ m.status = "denied" \/ ReportedLast(m) \/ m.id \in overwritten

-----------------------------------------------------------------------------
\* What the repository says and the code does not keep.

\* "The core path of finding each other automatically" (handlers.go:274-279):
\* the same for every approved member, one approved while connected included.
DiscoveryAfterApproval ==
    \A om \in Present :
        LET h == om.at["control"] IN
        (/\ h # None /\ h \notin kicked /\ om.approved
         /\ Served(h) /\ client[h].due = "nothing" /\ todo = {})
            => ActiveIds \ {om.member} \subseteq client[h].peers

=============================================================================
