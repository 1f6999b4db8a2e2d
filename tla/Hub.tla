--------------------------------- MODULE Hub ---------------------------------
(***************************************************************************)
(* The online side of one session (internal/member/hub.go): the room the   *)
(* hub's index holds for it, the rooms ever made, and the connections the  *)
(* WebSocket handlers attach and detach.  Attach and Detach take the hub's *)
(* and the room's lock several times; each section is a step, and every    *)
(* other goroutine may run in between.  Only Detach holds h.mu across      *)
(* another section: from the second look at the room, under r.mu, to the   *)
(* deletion.  Who needs h.mu waits meanwhile; who already has the room and *)
(* needs r.mu does not.                                                    *)
(*                                                                         *)
(* A connection object is named by the handler that owns it, and a room by *)
(* the handler that made it: h.room() makes at most one.  A room that the  *)
(* index has dropped lives on for the handlers that already fetched it.    *)
(***************************************************************************)
EXTENDS Integers, FiniteSets

CONSTANTS
    Handlers,  \* WebSocket handler goroutines, each with one Conn
    Ids,       \* member ids
    Indices,   \* data-plane indices
    None       \* a nil *Conn, and the room of a session that has none

ASSUME NoneIsNil == None \notin Handlers

VARIABLES
    room,    \* h.rooms[sessionID]
    rooms,   \* the Room objects: their members and byIndex
    kicked,  \* connections whose closed channel is closed
    conns    \* conns[h]: how far the handler h is, and its Conn

hubVars == <<room, rooms, kicked, conns>>

Kinds == {"control", "relay"}

\* An onlineMember.  om.connID is written but never read: it is left out.
OnlineMember ==
    [member : Ids, index : Indices, approved : BOOLEAN,
     at : [Kinds -> Handlers \cup {None}]]

Room == [members : SUBSET OnlineMember, byIndex : SUBSET (Indices \X Ids)]

Places ==
    {"fetch", "attach", "replace", "serve", "detach", "vacate", "recheck",
     "delete", "hook"}

\* replaced: the connection Attach found in its slot and has still to kick.
Conn ==
    [pc : Places, id : Ids, index : Indices, kind : Kinds, approved : BOOLEAN,
     room : Handlers \cup {None}, replaced : Handlers \cup {None},
     offline : BOOLEAN]

Unused == [pc |-> "unused"]
Ended  == [pc |-> "ended"]
Idle(h) == conns[h] \in {Unused, Ended}

HubInit ==
    /\ room = None
    /\ rooms = [h \in Handlers |-> [members |-> {}, byIndex |-> {}]]
    /\ kicked = {}
    /\ conns = [h \in Handlers |-> Unused]

InRoom(r, id) == {om \in rooms[r].members : om.member = id}
InSession(id) == IF room = None THEN {} ELSE InRoom(room, id)
IsEmpty(r) == rooms[r].members = {}

\* Nobody holds h.mu: no handler is about to delete the session's room.
HubFree == \A h \in Handlers : conns[h].pc # "delete"

\* What CloseMember, CloseSession and CloseAll collect under the read lock.
ConnsOf_NilToo(oms) == {om.at[k] : om \in oms, k \in Kinds}
ConnsOf(oms) == {om.at[k] : om \in oms, k \in Kinds} \ {None}

\* byIndex as a set of pairs: index i now finds member id and nobody else.
Listed(entries, i, id) == {e \in entries : e[1] # i} \cup {<<i, id>>}
Unlisted_Not(entries, i) == entries
Unlisted(entries, i) == {e \in entries : e[1] # i}

Goto(h, pc) == conns' = [conns EXCEPT ![h].pc = pc]
End(h)      == conns' = [conns EXCEPT ![h] = Ended]
Forget(h)   == kicked' = kicked \ {h}   \* nobody looks at its Conn any more

-----------------------------------------------------------------------------
\* A handler starts for a member whose index and approval it has read from the
\* store; a relay handler of one not approved goes no further (ws.go:288).
Open(h, id, i, kind, approved) ==
    /\ conns[h] = Unused
    /\ kind = "relay" => approved
    /\ conns' = [conns EXCEPT ![h] =
         [pc |-> "fetch", id |-> id, index |-> i, kind |-> kind,
          approved |-> approved, room |-> None, replaced |-> None,
          offline |-> FALSE]]
    /\ UNCHANGED <<room, rooms, kicked>>

\* Attach, h.room(): the session's room, made here if there is none.
RoomFor(h) == IF room = None THEN h ELSE room
Fetch(h) ==
    /\ conns[h].pc = "fetch"
    /\ HubFree
    /\ room' = RoomFor(h)
    /\ conns' = [conns EXCEPT ![h].pc = "attach", ![h].room = RoomFor(h)]
    /\ UNCHANGED <<rooms, kicked>>

\* Attach, under the room's lock alone: whether the index still has the room is
\* not looked at.
Attach(h) ==
    LET c   == conns[h]
        r   == c.room
        old == IF InRoom(r, c.id) = {}
               THEN [k \in Kinds |-> None]
               ELSE (CHOOSE om \in InRoom(r, c.id) : TRUE).at
        new == [member |-> c.id, index |-> c.index, approved |-> c.approved,
                at |-> [old EXCEPT ![c.kind] = h]]
    IN  /\ c.pc = "attach"
        /\ rooms' = [rooms EXCEPT ![r] =
              [members |-> (@.members \ InRoom(r, c.id)) \cup {new},
               byIndex |-> Listed(@.byIndex, c.index, c.id)]]
        /\ conns' = [conns EXCEPT
              ![h].pc = IF old[c.kind] = None THEN "serve" ELSE "replace",
              ![h].replaced = old[c.kind]]
        /\ UNCHANGED <<room, kicked>>

\* Attach, after the lock: the connection that was replaced is kicked.  Only
\* its write pump sees that, whenever it runs.
Replace(h) ==
    /\ conns[h].pc = "replace"
    /\ kicked' = kicked \cup {conns[h].replaced}
    /\ conns' = [conns EXCEPT ![h].pc = "serve", ![h].replaced = None]
    /\ UNCHANGED <<room, rooms>>

\* The read loop ends: peer gone, error, deadline, rate limit or MsgLeave.
Hangup(h) ==
    /\ conns[h].pc = "serve"
    /\ Goto(h, "detach")
    /\ UNCHANGED <<room, rooms, kicked>>

\* Detach looks the session's room up again: it may be another one by now.
FindRoom(h) ==
    /\ conns[h].pc = "detach"
    /\ HubFree
    /\ IF room = None
       THEN End(h)
       ELSE conns' = [conns EXCEPT ![h].pc = "vacate", ![h].room = room]
    /\ Forget(h)
    /\ UNCHANGED <<room, rooms>>

\* Detach, under the room's lock: only the current connection of its kind
\* empties the slot, and a member without any connection leaves the room.
Vacated_AnyConn(om, kind, h) == [om EXCEPT !.at[kind] = None]
Vacated_ControlOnly(om, kind, h) ==
    [om EXCEPT !.at["control"] = IF @ = h THEN None ELSE @]
Vacated(om, kind, h) ==
    [om EXCEPT !.at[kind] = IF @ = h THEN None ELSE @]

Deserted(om) == \A k \in Kinds : om.at[k] = None

Vacate(h) ==
    LET c    == conns[h]
        r    == c.room
        left == {Vacated(om, c.kind, h) : om \in InRoom(r, c.id)}
        gone == {om \in left : Deserted(om)}
        rest == (rooms[r].members \ InRoom(r, c.id)) \cup (left \ gone)
        next == IF rest = {} THEN "recheck" ELSE "hook"
    IN  /\ c.pc = "vacate"
        /\ rooms' = [rooms EXCEPT ![r] =
              [members |-> rest,
               byIndex |-> IF gone = {} THEN @.byIndex
                           ELSE Unlisted(@.byIndex, (CHOOSE om \in gone : TRUE).index)]]
        /\ IF rest = {} \/ gone # {}
           THEN conns' = [conns EXCEPT ![h].pc = next, ![h].offline = gone # {}]
           ELSE End(h)
        /\ UNCHANGED <<room, kicked>>

\* Detach takes h.mu and, if the room is still the session's, looks under r.mu
\* whether it is still empty.
Afterwards(h) == IF conns[h].offline THEN Goto(h, "hook") ELSE End(h)

Recheck(h) ==
    /\ conns[h].pc = "recheck"
    /\ HubFree
    /\ IF room = conns[h].room /\ IsEmpty(room)
       THEN Goto(h, "delete") ELSE Afterwards(h)
    /\ UNCHANGED <<room, rooms, kicked>>

\* r.mu is free again, h.mu is not: the index drops the room, whoever has come
\* into it since.
Drop(h) ==
    /\ conns[h].pc = "delete"
    /\ room' = None
    /\ Afterwards(h)
    /\ UNCHANGED <<rooms, kicked>>

\* Detach reads the offline hook under h.mu and calls it outside the locks.
Hook(h) ==
    /\ conns[h].pc = "hook"
    /\ HubFree
    /\ End(h)
    /\ UNCHANGED <<room, rooms, kicked>>

-----------------------------------------------------------------------------
\* What the rest of the server calls.  Without a room, or without the member
\* in it, each does nothing.  The look at the index and the section under the
\* room's lock are one step.
SetApproved(id, yes) ==
    /\ HubFree
    /\ rooms' = IF InSession(id) = {} THEN rooms
                ELSE [rooms EXCEPT ![room].members =
                        (@ \ InSession(id)) \cup
                        {[om EXCEPT !.approved = yes] : om \in InSession(id)}]
    /\ UNCHANGED <<room, kicked, conns>>

\* MakeApproved also lists the member under the index given.
MakeApproved(id, i) ==
    /\ HubFree
    /\ rooms' = IF InSession(id) = {} THEN rooms
                ELSE [rooms EXCEPT ![room] =
                        [members |-> (@.members \ InSession(id)) \cup
                             {[om EXCEPT !.approved = TRUE, !.index = i] :
                                om \in InSession(id)},
                         byIndex |-> Listed(@.byIndex \ {<<om.index, id>> :
                                              om \in InSession(id)}, i, id)]]
    /\ UNCHANGED <<room, kicked, conns>>

CloseMember(id) ==
    /\ HubFree
    /\ kicked' = kicked \cup ConnsOf(InSession(id))
    /\ UNCHANGED <<room, rooms, conns>>

\* CloseSession, and CloseAll at shutdown.
CloseAll ==
    /\ HubFree
    /\ kicked' = IF room = None THEN kicked
                 ELSE kicked \cup ConnsOf(rooms[room].members)
    /\ UNCHANGED <<room, rooms, conns>>

\* Broadcast of a text frame: the approved members' control connections.  It
\* takes h.mu as well: its callers ask for HubFree.
Audience(others) ==
    IF room = None THEN {}
    ELSE {om.at["control"] : om \in {x \in rooms[room].members :
                                       x.approved /\ x.member \in others}} \ {None}

-----------------------------------------------------------------------------
HandlerStep(h) ==
    \/ Fetch(h) \/ Attach(h) \/ Replace(h) \/ Hangup(h)
    \/ FindRoom(h) \/ Vacate(h) \/ Recheck(h) \/ Drop(h) \/ Hook(h)

-----------------------------------------------------------------------------
\* Properties.

HubTypeOK ==
    /\ room \in Handlers \cup {None}
    /\ rooms \in [Handlers -> Room]
    /\ kicked \subseteq Handlers
    /\ conns \in [Handlers -> Conn \cup [pc : {"unused", "ended"}]]

\* Connections that are attached and whose handler has not begun to leave.
Served(h) == conns[h].pc \in {"replace", "serve"}

\* Connections that were told to close, or are about to be by the Attach that
\* replaced them.
Doomed(h) ==
    h \in kicked \/ \E g \in Handlers : conns[g].pc = "replace" /\ conns[g].replaced = h

\* The session's room holds only connections of their own member and kind
\* whose handler has still to detach them, although Detach looks the room up
\* again and rooms come and go meanwhile (hub.go:240-265): nothing is sent to a
\* connection left behind.
NoGhosts ==
    room # None =>
        \A om \in rooms[room].members, k \in Kinds :
            om.at[k] # None =>
                LET c == conns[om.at[k]]
                IN  /\ c.pc \in {"replace", "serve", "detach", "vacate"}
                    /\ c.id = om.member
                    /\ c.kind = k

\* In one room a member has one entry, never without a connection, and a served
\* connection that nobody told or will tell to close is the current one:
\* reconnecting replaces, in whatever order the old and the new handler run and
\* however late the old one is kicked (hub.go:9, 228, 258).
NewestServes ==
    \A r \in Handlers :
        /\ \A om \in rooms[r].members : InRoom(r, om.member) = {om} /\ ~Deserted(om)
        /\ \A h \in Handlers :
             Served(h) /\ conns[h].room = r /\ ~Doomed(h) =>
                 \E om \in InRoom(r, conns[h].id) : om.at[conns[h].kind] = h

\* byIndex has one entry per index, and it leads to a member that is in the
\* room, although an index passes to a new member while the old one's
\* connections are still there (hub.go:215, 267, relay.go:110).
IndexFindsMember ==
    \A r \in Handlers : \A e \in rooms[r].byIndex :
        /\ \E om \in InRoom(r, e[2]) : om.index = e[1]
        /\ \A f \in rooms[r].byIndex : e[1] = f[1] => e = f

\* When no handler is left the session has no room: none is leaked (hub.go:275).
RoomsReclaimed == (\A h \in Handlers : Idle(h)) => room = None

-----------------------------------------------------------------------------
\* What the repository says and the code does not keep.

\* A connection that is served is in the session's room: the room the code
\* reclaims is nobody's, "so that none is deleted by mistake" (hub.go:275).
ServedInSession ==
    \A h \in Handlers : Served(h) => conns[h].room = room

=============================================================================
