------------------------------ MODULE HubProofs ------------------------------
(***************************************************************************)
(* The inductive invariant of the hub, and that each of its operations     *)
(* keeps it, whoever calls them: HubCallsProofs and ServerProofs rest on   *)
(* these lemmas.                                                           *)
(***************************************************************************)
EXTENDS Hub, TLAPS

-----------------------------------------------------------------------------
\* A handler that has no room yet, and one that has.
Fresh(h) == conns[h].pc \in {"unused", "fetch"}
Roomed(h) ==
    conns[h].pc \in
        {"attach", "replace", "serve", "detach", "vacate", "recheck", "delete", "hook"}

\* A room is made by the Fetch of the handler it is named for, and empty before.
RoomsAreMade ==
    /\ room # None => ~Fresh(room)
    /\ \A h \in Handlers : Fresh(h) => rooms[h].members = {}
    /\ \A h \in Handlers :
         Roomed(h) => conns[h].room \in Handlers /\ ~Fresh(conns[h].room)

\* An Attach that has somebody to kick has replaced a connection.
ReplacesOne ==
    \A h \in Handlers : conns[h].pc = "replace" => conns[h].replaced # None

\* What stands in the session's room for a connection: the handler will find
\* this room when it detaches, unless the index has lost it by then.
Attends(h, om, k) ==
    LET c == conns[h]
    IN  /\ c.pc \in {"replace", "serve", "detach", "vacate"}
        /\ c.room = room /\ c.id = om.member /\ c.kind = k

Attended ==
    room # None =>
        \A om \in rooms[room].members, k \in Kinds :
            om.at[k] # None => Attends(om.at[k], om, k)

\* An empty room has somebody who will enter it or drop it.
Reclaimable ==
    room # None /\ IsEmpty(room) =>
        \E h \in Handlers :
           conns[h].pc \in {"attach", "recheck", "delete"} /\ conns[h].room = room

HubInv ==
    HubTypeOK /\ RoomsAreMade /\ ReplacesOne /\ Attended /\ NewestServes /\ Reclaimable

\* A room or a handler has member id under index i.
HubClaims(id, i) ==
    \/ \E r \in Handlers : \E om \in rooms[r].members : om.member = id /\ om.index = i
    \/ \E h \in Handlers : conns[h] \in Conn /\ conns[h].id = id /\ conns[h].index = i

\* One call of the hub.
HubMove ==
    \/ \E h \in Handlers, id \in Ids, i \in Indices, kind \in Kinds,
          approved \in BOOLEAN : Open(h, id, i, kind, approved)
    \/ \E h \in Handlers : HandlerStep(h)
    \/ \E id \in Ids, yes \in BOOLEAN : SetApproved(id, yes)
    \/ \E id \in Ids, i \in Indices : MakeApproved(id, i)
    \/ \E id \in Ids : CloseMember(id)
    \/ CloseAll

-----------------------------------------------------------------------------
\* What the operations are made of.

LEMMA NilIsNobody == None \notin Handlers
  BY NoneIsNil

\* A handler that is at work has a Conn.
LEMMA AtWork ==
  ASSUME HubTypeOK, NEW h \in Handlers, conns[h].pc \notin {"unused", "ended"}
  PROVE  conns[h] \in Conn
  BY DEF HubTypeOK

LEMMA SessionsMembers ==
  ASSUME HubTypeOK, NEW id
  PROVE  /\ InSession(id) \subseteq OnlineMember
         /\ room # None => InSession(id) = InRoom(room, id)
         /\ \A r \in Handlers : InRoom(r, id) \subseteq OnlineMember
  BY NilIsNobody DEF HubTypeOK, InSession, InRoom, Room

LEMMA VacatedTyped ==
  ASSUME NEW om \in OnlineMember, NEW kind \in Kinds, NEW h
  PROVE  /\ Vacated(om, kind, h) \in OnlineMember
         /\ Vacated(om, kind, h).member = om.member
         /\ Vacated(om, kind, h).index = om.index
         /\ \A k \in Kinds : Vacated(om, kind, h).at[k] =
                IF k = kind /\ om.at[k] = h THEN None ELSE om.at[k]
  BY DEF Vacated, OnlineMember

\* The collected connections are connections: a nil one is never kicked.
LEMMA CollectedConns ==
  ASSUME NEW oms \in SUBSET OnlineMember
  PROVE  ConnsOf(oms) \subseteq Handlers
  BY DEF ConnsOf, OnlineMember

\* What Attach makes of the entry of the member, its connections and the kick.
AttachOld(r, c) ==
    IF InRoom(r, c.id) = {} THEN [k \in Kinds |-> None]
    ELSE (CHOOSE om \in InRoom(r, c.id) : TRUE).at

AttachNext(h) ==
    IF AttachOld(conns[h].room, conns[h])[conns[h].kind] = None THEN "serve" ELSE "replace"

LEMMA AttachOldTyped ==
  ASSUME HubTypeOK, NEW h \in Handlers, conns[h].pc = "attach",
         conns[h].room \in Handlers
  PROVE  AttachOld(conns[h].room, conns[h]) \in [Kinds -> Handlers \cup {None}]
  <1> DEFINE r == conns[h].room
             id == conns[h].id
  <1>1. InRoom(r, id) \subseteq OnlineMember
    BY SessionsMembers
  <1>2. CASE InRoom(r, id) = {}
    BY <1>2 DEF AttachOld
  <1>3. CASE InRoom(r, id) # {}
    <2>1. (CHOOSE om \in InRoom(r, id) : TRUE) \in InRoom(r, id)
      BY <1>3
    <2>2. (CHOOSE om \in InRoom(r, id) : TRUE).at \in [Kinds -> Handlers \cup {None}]
      BY <1>1, <2>1 DEF OnlineMember
    <2> QED
      BY <1>3, <2>2 DEF AttachOld
  <1> QED
    BY <1>2, <1>3

LEMMA AttachEffect ==
  ASSUME HubTypeOK, NEW h \in Handlers, conns[h].room \in Handlers, Attach(h)
  PROVE  LET c == conns[h]
             r == c.room
             old == AttachOld(r, c)
             new == [member |-> c.id, index |-> c.index, approved |-> c.approved,
                     at |-> [old EXCEPT ![c.kind] = h]]
         IN  /\ c.pc = "attach" /\ c \in Conn /\ r \in Handlers
             /\ old \in [Kinds -> Handlers \cup {None}]
             /\ new \in OnlineMember
             /\ new.at[c.kind] = h
             /\ \A k \in Kinds \ {c.kind} : new.at[k] = old[k]
             /\ rooms' = [rooms EXCEPT ![r] =
                   [members |-> (rooms[r].members \ InRoom(r, c.id)) \cup {new},
                    byIndex |-> Listed(rooms[r].byIndex, c.index, c.id)]]
             /\ rooms'[r].members = (rooms[r].members \ InRoom(r, c.id)) \cup {new}
             /\ rooms'[r].byIndex = Listed(rooms[r].byIndex, c.index, c.id)
             /\ \A g \in Handlers \ {r} : rooms'[g] = rooms[g]
             /\ kicked' = kicked
             /\ conns' = [conns EXCEPT ![h].pc = AttachNext(h), ![h].replaced = old[c.kind]]
             /\ conns'[h].pc = AttachNext(h) /\ conns'[h].replaced = old[c.kind]
             /\ \A g \in Handlers \ {h} : conns'[g] = conns[g]
             /\ conns'[h] \in Conn /\ conns'[h].room = c.room /\ conns'[h].id = c.id
             /\ conns'[h].index = c.index /\ conns'[h].kind = c.kind
             /\ room' = room
  <1> DEFINE c == conns[h]
             r == c.room
             old == AttachOld(r, c)
  <1>1. c.pc = "attach" /\ c \in Conn
    BY AtWork DEF Attach
  <1>2. old \in [Kinds -> Handlers \cup {None}]
    BY <1>1, AttachOldTyped
  <1>3. [member |-> c.id, index |-> c.index, approved |-> c.approved,
         at |-> [old EXCEPT ![c.kind] = h]] \in OnlineMember
    BY <1>1, <1>2 DEF OnlineMember, Conn
  <1>4. c.kind \in Kinds
    BY <1>1 DEF Conn
  <1> DEFINE new == [member |-> c.id, index |-> c.index, approved |-> c.approved,
                     at |-> [old EXCEPT ![c.kind] = h]]
             ms  == (rooms[r].members \ InRoom(r, c.id)) \cup {new}
             bi  == Listed(rooms[r].byIndex, c.index, c.id)
  <1>5. rooms' = [rooms EXCEPT ![r] = [members |-> ms, byIndex |-> bi]]
    BY DEF Attach, AttachOld
  <1>6. /\ rooms'[r].members = ms /\ rooms'[r].byIndex = bi
        /\ \A g \in Handlers \ {r} : rooms'[g] = rooms[g]
    <2> HIDE DEF ms, bi
    <2> QED
      BY <1>5 DEF HubTypeOK
  <1>7. conns' = [conns EXCEPT ![h].pc = AttachNext(h), ![h].replaced = old[c.kind]]
    <2> DEFINE o == old[c.kind]
    <2>1. conns' = [conns EXCEPT ![h].pc = IF o = None THEN "serve" ELSE "replace",
                                 ![h].replaced = o]
      BY Zenon DEF Attach, AttachOld
    <2>2. AttachNext(h) = IF o = None THEN "serve" ELSE "replace"
      BY DEF AttachNext
    <2> QED
      BY <2>1, <2>2, Zenon
  <1>8. /\ AttachNext(h) \in Places /\ old[c.kind] \in Handlers \cup {None}
    BY <1>2, <1>4 DEF AttachNext, Places
  <1>9. [c EXCEPT !.pc = AttachNext(h), !.replaced = old[c.kind]] \in Conn
    BY <1>1, <1>8 DEF Conn
  <1>10. /\ conns'[h].pc = AttachNext(h) /\ conns'[h].replaced = old[c.kind]
         /\ \A g \in Handlers \ {h} : conns'[g] = conns[g]
         /\ conns'[h] \in Conn /\ conns'[h].room = c.room /\ conns'[h].id = c.id
         /\ conns'[h].index = c.index /\ conns'[h].kind = c.kind
    <2> HIDE DEF old
    <2> DEFINE o == old[c.kind]
    <2>1. /\ conns'[h] = [c EXCEPT !.pc = AttachNext(h), !.replaced = o]
          /\ \A g \in Handlers \ {h} : conns'[g] = conns[g]
      <3>1. conns' = [conns EXCEPT ![h].pc = AttachNext(h), ![h].replaced = o]
        BY <1>7
      <3> HIDE DEF o
      <3> QED
        BY <3>1 DEF HubTypeOK
    <2> QED
      BY <1>1, <1>9, <2>1 DEF Conn
  <1>11. room' = room /\ kicked' = kicked
    BY DEF Attach
  <1> QED
    BY <1>1, <1>2, <1>3, <1>4, <1>5, <1>6, <1>7, <1>10, <1>11

\* What Vacate leaves of the room's members, and who of them it throws out.
VacateLeft(h) ==
    {Vacated(om, conns[h].kind, h) : om \in InRoom(conns[h].room, conns[h].id)}
VacateGone(h) == {om \in VacateLeft(h) : Deserted(om)}
VacateRest(h) ==
    (rooms[conns[h].room].members \ InRoom(conns[h].room, conns[h].id))
        \cup (VacateLeft(h) \ VacateGone(h))

LEMMA VacateEffect ==
  ASSUME HubTypeOK, NEW h \in Handlers, conns[h].room \in Handlers, Vacate(h)
  PROVE  LET c == conns[h]
             r == c.room
             idx == (CHOOSE om \in VacateGone(h) : TRUE).index
             next == IF VacateRest(h) = {} THEN "recheck" ELSE "hook"
         IN  /\ c.pc = "vacate" /\ c \in Conn
             /\ VacateLeft(h) \subseteq OnlineMember
             /\ VacateRest(h) \subseteq OnlineMember
             /\ VacateGone(h) # {} => idx \in Indices
             /\ rooms' = [rooms EXCEPT ![r] =
                   [members |-> VacateRest(h),
                    byIndex |-> IF VacateGone(h) = {} THEN rooms[r].byIndex
                                ELSE Unlisted(rooms[r].byIndex, idx)]]
             /\ conns' = IF VacateRest(h) = {} \/ VacateGone(h) # {}
                         THEN [conns EXCEPT ![h].pc = next,
                                            ![h].offline = VacateGone(h) # {}]
                         ELSE [conns EXCEPT ![h] = Ended]
             /\ rooms'[r].members = VacateRest(h)
             /\ \A g \in Handlers \ {r} : rooms'[g] = rooms[g]
             /\ \A g \in Handlers \ {h} : conns'[g] = conns[g]
             /\ room' = room /\ kicked' = kicked
  <1> DEFINE c == conns[h]
             r == c.room
  <1>1. c.pc = "vacate" /\ c \in Conn
    BY AtWork DEF Vacate
  <1>2. c.kind \in Kinds
    BY <1>1 DEF Conn
  <1>3. InRoom(r, c.id) \subseteq OnlineMember
    BY SessionsMembers
  <1>4. VacateLeft(h) \subseteq OnlineMember
    BY <1>2, <1>3, VacatedTyped DEF VacateLeft
  <1>5. rooms[r].members \subseteq OnlineMember
    BY DEF HubTypeOK, Room
  <1>6. VacateRest(h) \subseteq OnlineMember
    BY <1>4, <1>5 DEF VacateRest
  <1>7. VacateGone(h) # {} => (CHOOSE om \in VacateGone(h) : TRUE).index \in Indices
    <2> SUFFICES ASSUME VacateGone(h) # {}
                 PROVE  (CHOOSE om \in VacateGone(h) : TRUE).index \in Indices
      OBVIOUS
    <2>1. (CHOOSE om \in VacateGone(h) : TRUE) \in VacateGone(h)
      OBVIOUS
    <2> QED
      BY <2>1, <1>4 DEF VacateGone, OnlineMember
  <1> DEFINE bi == IF VacateGone(h) = {} THEN rooms[r].byIndex
                   ELSE Unlisted(rooms[r].byIndex,
                                 (CHOOSE om \in VacateGone(h) : TRUE).index)
  <1>8. rooms' = [rooms EXCEPT ![r] = [members |-> VacateRest(h), byIndex |-> bi]]
    BY DEF Vacate, VacateLeft, VacateGone, VacateRest
  <1>9. /\ rooms'[r].members = VacateRest(h)
        /\ \A g \in Handlers \ {r} : rooms'[g] = rooms[g]
    <2> HIDE DEF bi
    <2> QED
      BY <1>8 DEF HubTypeOK
  <1>10. conns' = IF VacateRest(h) = {} \/ VacateGone(h) # {}
                  THEN [conns EXCEPT
                          ![h].pc = IF VacateRest(h) = {} THEN "recheck" ELSE "hook",
                          ![h].offline = VacateGone(h) # {}]
                  ELSE [conns EXCEPT ![h] = Ended]
    BY DEF Vacate, End, VacateLeft, VacateGone, VacateRest
  <1>11. \A g \in Handlers \ {h} : conns'[g] = conns[g]
    BY <1>10 DEF HubTypeOK
  <1> QED
    BY <1>1, <1>4, <1>6, <1>7, <1>8, <1>9, <1>10, <1>11 DEF Vacate

\* What a control call makes of the entries of a member: none appears or goes,
\* and the connections stay.
LEMMA SetApprovedEffect ==
  ASSUME HubTypeOK, NEW id, NEW yes \in BOOLEAN, SetApproved(id, yes)
  PROVE  \/ rooms' = rooms
         \/ /\ room \in Handlers
            /\ rooms' = [rooms EXCEPT ![room] =
                  [members |-> (rooms[room].members \ InRoom(room, id)) \cup
                       {[om EXCEPT !.approved = yes] : om \in InRoom(room, id)},
                   byIndex |-> rooms[room].byIndex]]
  <1> SUFFICES ASSUME InSession(id) # {}
               PROVE  /\ room \in Handlers
                      /\ rooms' = [rooms EXCEPT ![room] =
                            [members |-> (rooms[room].members \ InRoom(room, id)) \cup
                                 {[om EXCEPT !.approved = yes] : om \in InRoom(room, id)},
                             byIndex |-> rooms[room].byIndex]]
    BY DEF SetApproved
  <1>1. room \in Handlers /\ InSession(id) = InRoom(room, id)
    BY DEF InSession, HubTypeOK
  <1>2. rooms \in [Handlers -> Room]
    BY DEF HubTypeOK
  <1>3. rooms[room] \in Room
    BY <1>1, <1>2
  <1> DEFINE ms == (rooms[room].members \ InRoom(room, id)) \cup
                     {[om EXCEPT !.approved = yes] : om \in InRoom(room, id)}
  <1>4. rooms' = [rooms EXCEPT ![room].members = ms]
    BY <1>1 DEF SetApproved
  <1>5. [rooms[room] EXCEPT !.members = ms]
          = [members |-> ms, byIndex |-> rooms[room].byIndex]
    <2> HIDE DEF ms
    <2> QED
      BY <1>3 DEF Room
  <1>6. rooms' = [rooms EXCEPT ![room] = [rooms[room] EXCEPT !.members = ms]]
    <2> HIDE DEF ms
    <2> QED
      BY <1>4
  <1> QED
    BY <1>1, <1>5, <1>6

\* The same of both calls: entries keep their member and their connections.
LEMMA ApprovalEffect ==
  ASSUME HubTypeOK, NEW id,
         \/ \E yes \in BOOLEAN : SetApproved(id, yes)
         \/ \E i \in Indices : MakeApproved(id, i)
  PROVE  /\ room' = room /\ conns' = conns /\ kicked' = kicked
         /\ \A r \in Handlers \ {room} : rooms'[r] = rooms[r]
         /\ room # None =>
              \E F \in [rooms[room].members -> OnlineMember] :
                 /\ rooms'[room].members = {F[om] : om \in rooms[room].members}
                 /\ \A om \in rooms[room].members :
                      F[om].member = om.member /\ F[om].at = om.at
  <1>1. /\ room' = room /\ conns' = conns /\ kicked' = kicked
        /\ \A r \in Handlers \ {room} : rooms'[r] = rooms[r]
    BY DEF SetApproved, MakeApproved, HubTypeOK
  <1>2. ASSUME room # None
        PROVE  \E F \in [rooms[room].members -> OnlineMember] :
                 /\ rooms'[room].members = {F[om] : om \in rooms[room].members}
                 /\ \A om \in rooms[room].members :
                      F[om].member = om.member /\ F[om].at = om.at
    <2>1. room \in Handlers /\ rooms[room] \in Room /\ InSession(id) = InRoom(room, id)
      BY <1>2, SessionsMembers DEF HubTypeOK
    <2>2. rooms[room].members \subseteq OnlineMember
      BY <2>1 DEF Room
    <2>3. CASE rooms' = rooms
      <3> DEFINE F == [om \in rooms[room].members |-> om]
      <3>1. /\ F \in [rooms[room].members -> OnlineMember]
            /\ rooms'[room].members = {F[om] : om \in rooms[room].members}
            /\ \A om \in rooms[room].members : F[om].member = om.member /\ F[om].at = om.at
        BY <2>2, <2>3
      <3> QED
        BY <3>1
    <2>4. ASSUME NEW yes \in BOOLEAN, SetApproved(id, yes), rooms' # rooms
          PROVE  \E F \in [rooms[room].members -> OnlineMember] :
                   /\ rooms'[room].members = {F[om] : om \in rooms[room].members}
                   /\ \A om \in rooms[room].members :
                        F[om].member = om.member /\ F[om].at = om.at
      <3> DEFINE F == [om \in rooms[room].members |->
                         IF om \in InRoom(room, id) THEN [om EXCEPT !.approved = yes] ELSE om]
                 ms == (rooms[room].members \ InRoom(room, id)) \cup
                         {[om EXCEPT !.approved = yes] : om \in InRoom(room, id)}
      <3>1. rooms' = [rooms EXCEPT ![room] =
                        [members |-> ms, byIndex |-> rooms[room].byIndex]]
        BY <2>4, SetApprovedEffect
      <3>2. rooms'[room].members = ms
        <4> HIDE DEF ms
        <4> QED
          BY <2>1, <3>1 DEF HubTypeOK
      <3>3. ms = {F[om] : om \in rooms[room].members}
        BY DEF InRoom
      <3>4. F \in [rooms[room].members -> OnlineMember]
        BY <2>2 DEF OnlineMember
      <3>5. \A om \in rooms[room].members : F[om].member = om.member /\ F[om].at = om.at
        BY <2>2 DEF OnlineMember
      <3> HIDE DEF F, ms
      <3> QED
        BY <3>2, <3>3, <3>4, <3>5
    <2>5. ASSUME NEW i \in Indices, MakeApproved(id, i), rooms' # rooms
          PROVE  \E F \in [rooms[room].members -> OnlineMember] :
                   /\ rooms'[room].members = {F[om] : om \in rooms[room].members}
                   /\ \A om \in rooms[room].members :
                        F[om].member = om.member /\ F[om].at = om.at
      <3> DEFINE F == [om \in rooms[room].members |->
                         IF om \in InRoom(room, id)
                         THEN [om EXCEPT !.approved = TRUE, !.index = i] ELSE om]
                 ms == (rooms[room].members \ InRoom(room, id)) \cup
                         {[om EXCEPT !.approved = TRUE, !.index = i] :
                            om \in InRoom(room, id)}
                 bi == Listed(rooms[room].byIndex \
                                {<<om.index, id>> : om \in InRoom(room, id)}, i, id)
      <3>1. rooms' = [rooms EXCEPT ![room] = [members |-> ms, byIndex |-> bi]]
        BY <2>1, <2>5 DEF MakeApproved
      <3>2. rooms'[room].members = ms
        <4> HIDE DEF ms, bi
        <4> QED
          BY <2>1, <3>1 DEF HubTypeOK
      <3>3. ms = {F[om] : om \in rooms[room].members}
        BY DEF InRoom
      <3>4. F \in [rooms[room].members -> OnlineMember]
        BY <2>2 DEF OnlineMember
      <3>5. \A om \in rooms[room].members : F[om].member = om.member /\ F[om].at = om.at
        BY <2>2 DEF OnlineMember
      <3> HIDE DEF F, ms
      <3> QED
        BY <3>2, <3>3, <3>4, <3>5
    <2> QED
      BY <2>3, <2>4, <2>5
  <1> QED
    BY <1>1, <1>2

-----------------------------------------------------------------------------
\* Types.

LEMMA OpenTyped ==
  ASSUME HubTypeOK, NEW h \in Handlers, NEW id \in Ids, NEW i \in Indices,
         NEW kind \in Kinds, NEW approved \in BOOLEAN, Open(h, id, i, kind, approved)
  PROVE  HubTypeOK'
  <1>1. [pc |-> "fetch", id |-> id, index |-> i, kind |-> kind,
         approved |-> approved, room |-> None, replaced |-> None, offline |-> FALSE] \in Conn
    BY DEF Conn, Places
  <1> QED
    BY <1>1 DEF HubTypeOK, Open

\* A handler goes on or ends, and the rest stays.
LEMMA ConnsTyped ==
  ASSUME HubTypeOK, NEW h \in Handlers
  PROVE  /\ \A pc \in Places : conns[h] \in Conn =>
              [conns[h] EXCEPT !.pc = pc] \in Conn
         /\ \A pc \in Places, r \in Handlers \cup {None} : conns[h] \in Conn =>
              [conns[h] EXCEPT !.pc = pc, !.room = r] \in Conn
         /\ \A pc \in Places, r \in Handlers \cup {None} : conns[h] \in Conn =>
              [conns[h] EXCEPT !.pc = pc, !.replaced = r] \in Conn
         /\ \A pc \in Places, gone \in BOOLEAN : conns[h] \in Conn =>
              [conns[h] EXCEPT !.pc = pc, !.offline = gone] \in Conn
         /\ Ended \in [pc : {"unused", "ended"}]
  BY DEF Conn, Ended

LEMMA HandlerTyped ==
  ASSUME HubTypeOK, RoomsAreMade, ReplacesOne, NEW h \in Handlers, HandlerStep(h)
  PROVE  HubTypeOK'
  <1>1. CASE Fetch(h)
    <2>1. RoomFor(h) \in Handlers
      BY DEF RoomFor, HubTypeOK
    <2>2. [conns[h] EXCEPT !.pc = "attach", !.room = RoomFor(h)] \in Conn
      BY <1>1, <2>1, AtWork, ConnsTyped DEF Fetch, Places
    <2>3. conns' = [conns EXCEPT ![h] =
                      [conns[h] EXCEPT !.pc = "attach", !.room = RoomFor(h)]]
      BY <1>1 DEF Fetch
    <2> QED
      BY <1>1, <2>1, <2>2, <2>3 DEF Fetch, HubTypeOK
  <1>2. CASE Attach(h)
    <2>1. conns[h].room \in Handlers
      BY <1>2 DEF Attach, RoomsAreMade, Roomed
    <2> DEFINE c == conns[h]
               r == c.room
               new == [member |-> c.id, index |-> c.index, approved |-> c.approved,
                       at |-> [AttachOld(r, c) EXCEPT ![c.kind] = h]]
               ms  == (rooms[r].members \ InRoom(r, c.id)) \cup {new}
               bi  == Listed(rooms[r].byIndex, c.index, c.id)
    <2>2. /\ c \in Conn
          /\ AttachOld(r, c) \in [Kinds -> Handlers \cup {None}]
          /\ new \in OnlineMember
          /\ rooms' = [rooms EXCEPT ![r] = [members |-> ms, byIndex |-> bi]]
          /\ kicked' = kicked
          /\ conns' = [conns EXCEPT ![h].pc = AttachNext(h),
                                    ![h].replaced = AttachOld(r, c)[c.kind]]
          /\ conns'[h] \in Conn
          /\ \A g \in Handlers \ {h} : conns'[g] = conns[g]
          /\ room' = room
      BY <1>2, <2>1, AttachEffect
    <2>3. rooms[r].members \subseteq OnlineMember /\ rooms[r].byIndex \subseteq Indices \X Ids
      BY <2>1 DEF HubTypeOK, Room
    <2>4. ms \subseteq OnlineMember
      BY <2>2, <2>3
    <2>5. bi \subseteq Indices \X Ids
      BY <2>2, <2>3 DEF Listed, Conn
    <2>6. rooms' \in [Handlers -> Room]
      <3> HIDE DEF ms, bi, new
      <3> QED
        BY <2>2, <2>4, <2>5 DEF HubTypeOK, Room
    <2>7. kicked' \subseteq Handlers
      BY <2>2 DEF HubTypeOK
    <2>8. conns' \in [Handlers -> Conn \cup [pc : {"unused", "ended"}]]
      <3> HIDE DEF ms, bi, new, c, r
      <3>1. DOMAIN conns' = Handlers /\ conns' = [g \in Handlers |-> conns'[g]]
        BY <2>2 DEF HubTypeOK
      <3> QED
        BY <2>2, <3>1 DEF HubTypeOK
    <2> QED
      BY <2>2, <2>6, <2>7, <2>8 DEF HubTypeOK
  <1>3. CASE Hangup(h)
    BY <1>3, AtWork, ConnsTyped DEF Hangup, Goto, HubTypeOK, Places
  <1>4. CASE FindRoom(h)
    <2>1. conns' \in [Handlers -> Conn \cup [pc : {"unused", "ended"}]]
      <3>1. conns[h] \in Conn
        BY <1>4, AtWork DEF FindRoom
      <3>2. room # None => [conns[h] EXCEPT !.pc = "vacate", !.room = room] \in Conn
        BY <3>1, ConnsTyped DEF HubTypeOK, Places
      <3>3. \/ conns' = [conns EXCEPT ![h] = Ended]
            \/ /\ room # None
               /\ conns' = [conns EXCEPT ![h] =
                             [conns[h] EXCEPT !.pc = "vacate", !.room = room]]
        BY <1>4 DEF FindRoom, End
      <3> QED
        BY <3>2, <3>3, ConnsTyped DEF HubTypeOK
    <2> QED
      BY <1>4, <2>1 DEF FindRoom, Forget, HubTypeOK
  <1>5. CASE Vacate(h)
    <2>1. conns[h].room \in Handlers
      BY <1>5 DEF Vacate, RoomsAreMade, Roomed
    <2> DEFINE c == conns[h]
               r == c.room
               bi == IF VacateGone(h) = {} THEN rooms[r].byIndex
                     ELSE Unlisted(rooms[r].byIndex,
                                   (CHOOSE om \in VacateGone(h) : TRUE).index)
               next == IF VacateRest(h) = {} THEN "recheck" ELSE "hook"
    <2>2. /\ c \in Conn
          /\ VacateRest(h) \subseteq OnlineMember
          /\ rooms' = [rooms EXCEPT ![r] = [members |-> VacateRest(h), byIndex |-> bi]]
          /\ conns' = IF VacateRest(h) = {} \/ VacateGone(h) # {}
                      THEN [conns EXCEPT ![h].pc = next, ![h].offline = VacateGone(h) # {}]
                      ELSE [conns EXCEPT ![h] = Ended]
          /\ room' = room /\ kicked' = kicked
      BY <1>5, <2>1, VacateEffect
    <2>3. bi \subseteq Indices \X Ids
      BY <2>1 DEF HubTypeOK, Room, Unlisted
    <2>4. rooms' \in [Handlers -> Room]
      <3> HIDE DEF bi
      <3> QED
        BY <2>2, <2>3 DEF HubTypeOK, Room
    <2>5. [conns[h] EXCEPT !.pc = next, !.offline = VacateGone(h) # {}] \in Conn
      BY <2>2, ConnsTyped DEF Places
    <2>6. conns' \in [Handlers -> Conn \cup [pc : {"unused", "ended"}]]
      <3> HIDE DEF next
      <3>1. conns' = IF VacateRest(h) = {} \/ VacateGone(h) # {}
                    THEN [conns EXCEPT ![h] = [conns[h] EXCEPT !.pc = next,
                                                 !.offline = VacateGone(h) # {}]]
                    ELSE [conns EXCEPT ![h] = Ended]
        BY <2>2
      <3> QED
        BY <3>1, <2>5, ConnsTyped DEF HubTypeOK
    <2> QED
      BY <2>2, <2>4, <2>6 DEF HubTypeOK
  <1>6. CASE Recheck(h) \/ Drop(h)
    <2>1. conns[h] \in Conn
      BY <1>6, AtWork DEF Recheck, Drop
    <2>2. conns' \in [Handlers -> Conn \cup [pc : {"unused", "ended"}]]
      BY <1>6, <2>1, ConnsTyped DEF Recheck, Drop, Afterwards, Goto, End, HubTypeOK, Places
    <2>3. room' \in Handlers \cup {None} /\ rooms' = rooms /\ kicked' = kicked
      BY <1>6 DEF Recheck, Drop, HubTypeOK
    <2> QED
      BY <2>2, <2>3 DEF HubTypeOK
  <1>7. CASE Hook(h)
    BY <1>7, ConnsTyped DEF Hook, End, HubTypeOK
  <1>8. CASE Replace(h)
    <2>1. conns[h] \in Conn /\ conns[h].replaced \in Handlers
      BY <1>8, AtWork DEF Replace, ReplacesOne, Conn
    <2>2. conns' = [conns EXCEPT ![h] = [conns[h] EXCEPT !.pc = "serve", !.replaced = None]]
      BY <1>8 DEF Replace
    <2>3. [conns[h] EXCEPT !.pc = "serve", !.replaced = None] \in Conn
      BY <2>1, ConnsTyped DEF Places
    <2> QED
      BY <1>8, <2>1, <2>2, <2>3 DEF Replace, HubTypeOK
  <1> QED
    BY <1>1, <1>2, <1>3, <1>4, <1>5, <1>6, <1>7, <1>8 DEF HandlerStep

LEMMA SetApprovedTyped ==
  ASSUME HubTypeOK, NEW id \in Ids, NEW yes \in BOOLEAN, SetApproved(id, yes)
  PROVE  HubTypeOK'
  <1> DEFINE ms == (rooms[room].members \ InRoom(room, id)) \cup
                     {[om EXCEPT !.approved = yes] : om \in InRoom(room, id)}
  <1>1. CASE rooms' = rooms
    BY <1>1 DEF SetApproved, HubTypeOK
  <1>2. CASE /\ room \in Handlers
             /\ rooms' = [rooms EXCEPT ![room] =
                            [members |-> ms, byIndex |-> rooms[room].byIndex]]
    <2>1. rooms[room] \in Room
      BY <1>2 DEF HubTypeOK
    <2>2. ms \subseteq OnlineMember
      BY <2>1 DEF Room, OnlineMember, InRoom
    <2>3. rooms' \in [Handlers -> Room]
      <3> HIDE DEF ms
      <3> QED
        BY <1>2, <2>1, <2>2 DEF HubTypeOK, Room
    <2> QED
      BY <2>3 DEF SetApproved, HubTypeOK
  <1> QED
    BY <1>1, <1>2, SetApprovedEffect

LEMMA MakeApprovedTyped ==
  ASSUME HubTypeOK, NEW id \in Ids, NEW i \in Indices, MakeApproved(id, i)
  PROVE  HubTypeOK'
  <1> SUFFICES ASSUME InSession(id) # {}
               PROVE  HubTypeOK'
    BY DEF MakeApproved, HubTypeOK
  <1>1. room \in Handlers /\ rooms[room] \in Room
    BY DEF InSession, HubTypeOK
  <1>2. InSession(id) \subseteq OnlineMember
    BY SessionsMembers
  <1> DEFINE new == {[om EXCEPT !.approved = TRUE, !.index = i] : om \in InSession(id)}
             ms  == (rooms[room].members \ InSession(id)) \cup new
             bi  == Listed(rooms[room].byIndex \ {<<om.index, id>> : om \in InSession(id)},
                           i, id)
  <1>3. new \subseteq OnlineMember
    BY <1>2 DEF OnlineMember
  <1>4. ms \subseteq OnlineMember
    BY <1>1, <1>3 DEF Room
  <1>5. bi \subseteq Indices \X Ids
    BY <1>1 DEF Room, Listed
  <1>6. rooms' = [rooms EXCEPT ![room] = [members |-> ms, byIndex |-> bi]]
    BY DEF MakeApproved
  <1>7. rooms' \in [Handlers -> Room]
    <2> HIDE DEF ms, bi
    <2> QED
      BY <1>4, <1>5, <1>6 DEF HubTypeOK, Room
  <1> QED
    BY <1>7 DEF MakeApproved, HubTypeOK

LEMMA ClosingTyped ==
  ASSUME HubTypeOK, CloseAll \/ \E id \in Ids : CloseMember(id)
  PROVE  HubTypeOK'
  <1>1. CASE CloseAll
    <2>1. room # None => ConnsOf(rooms[room].members) \subseteq Handlers
      BY CollectedConns DEF HubTypeOK, Room
    <2> QED
      BY <1>1, <2>1 DEF CloseAll, HubTypeOK
  <1>2. ASSUME NEW id \in Ids, CloseMember(id)
        PROVE  HubTypeOK'
    <2>1. ConnsOf(InSession(id)) \subseteq Handlers
      BY SessionsMembers, CollectedConns
    <2> QED
      BY <1>2, <2>1 DEF CloseMember, HubTypeOK
  <1> QED
    BY <1>1, <1>2

LEMMA HubMoveTyped ==
  ASSUME HubTypeOK, RoomsAreMade, ReplacesOne, HubMove
  PROVE  HubTypeOK'
  BY OpenTyped, HandlerTyped, SetApprovedTyped, MakeApprovedTyped, ClosingTyped DEF HubMove

-----------------------------------------------------------------------------
\* Rooms.

LEMMA RoomsStayMade ==
  ASSUME HubTypeOK, RoomsAreMade, HubMove
  PROVE  RoomsAreMade'
  <1>1. ASSUME NEW h \in Handlers, NEW id \in Ids, NEW i \in Indices, NEW kind \in Kinds,
               NEW approved \in BOOLEAN, Open(h, id, i, kind, approved)
        PROVE  RoomsAreMade'
    BY <1>1 DEF Open, RoomsAreMade, HubTypeOK, Fresh, Roomed, Unused
  <1>2. ASSUME NEW h \in Handlers, Fetch(h)
        PROVE  RoomsAreMade'
    BY <1>2, AtWork, NilIsNobody DEF Fetch, RoomFor, RoomsAreMade, HubTypeOK, Fresh, Roomed, Conn
  <1>3. ASSUME NEW h \in Handlers, Attach(h)
        PROVE  RoomsAreMade'
    <2>1. conns[h].room \in Handlers /\ ~Fresh(conns[h].room)
      BY <1>3 DEF Attach, RoomsAreMade, Roomed
    <2>2. conns[h].pc = "attach" /\ conns[h] \in Conn
      BY <1>3, AtWork DEF Attach
    <2>3. /\ conns'[h].pc \in {"replace", "serve"} /\ conns'[h].room = conns[h].room
          /\ \A g \in Handlers \ {h} : conns'[g] = conns[g]
          /\ room' = room
      BY <1>3, <2>1, AttachEffect DEF AttachNext
    <2>4. \A r \in Handlers \ {conns[h].room} : rooms'[r] = rooms[r]
      BY <1>3 DEF Attach, HubTypeOK
    <2> QED
      BY <2>1, <2>2, <2>3, <2>4 DEF RoomsAreMade, HubTypeOK, Fresh, Roomed
  <1>4. ASSUME NEW h \in Handlers, Hangup(h)
        PROVE  RoomsAreMade'
    BY <1>4, AtWork DEF Hangup, Goto, RoomsAreMade, HubTypeOK, Fresh, Roomed, Conn
  <1>5. ASSUME NEW h \in Handlers, FindRoom(h)
        PROVE  RoomsAreMade'
    BY <1>5, AtWork DEF FindRoom, End, Ended, RoomsAreMade, HubTypeOK, Fresh, Roomed, Conn
  <1>6. ASSUME NEW h \in Handlers, Vacate(h)
        PROVE  RoomsAreMade'
    <2>1. conns[h].room \in Handlers /\ ~Fresh(conns[h].room)
      BY <1>6 DEF Vacate, RoomsAreMade, Roomed
    <2>2. conns[h].pc = "vacate" /\ conns[h] \in Conn
      BY <1>6, AtWork DEF Vacate
    <2>3. /\ room' = room
          /\ \/ conns' = [conns EXCEPT ![h] = Ended]
             \/ \E pc \in {"recheck", "hook"}, gone \in BOOLEAN :
                   conns' = [conns EXCEPT ![h].pc = pc, ![h].offline = gone]
      BY <1>6, <2>1, VacateEffect
    <2>4. \A r \in Handlers \ {conns[h].room} : rooms'[r] = rooms[r]
      BY <1>6 DEF Vacate, HubTypeOK
    <2> QED
      BY <2>1, <2>2, <2>3, <2>4 DEF Ended, RoomsAreMade, HubTypeOK, Fresh, Roomed, Conn
  <1>7. ASSUME NEW h \in Handlers, Recheck(h) \/ Drop(h)
        PROVE  RoomsAreMade'
    <2>1. conns[h] \in Conn /\ ~Fresh(h) /\ Roomed(h)
      BY <1>7, AtWork DEF Recheck, Drop, Fresh, Roomed
    <2>2. /\ \A g \in Handlers \ {h} : conns'[g] = conns[g]
          /\ \/ conns'[h] = Ended
             \/ conns'[h].pc \in {"delete", "hook"} /\ conns'[h].room = conns[h].room
      BY <1>7, <2>1 DEF Recheck, Drop, Afterwards, Goto, End, HubTypeOK, Conn
    <2>3. rooms' = rooms /\ room' \in {room, None}
      BY <1>7 DEF Recheck, Drop
    <2> QED
      BY <2>1, <2>2, <2>3, NilIsNobody DEF Ended, RoomsAreMade, Fresh, Roomed, HubTypeOK
  <1>8. ASSUME NEW h \in Handlers, Hook(h)
        PROVE  RoomsAreMade'
    BY <1>8 DEF Hook, End, Ended, RoomsAreMade, HubTypeOK, Fresh, Roomed
  <1>9. ASSUME NEW id \in Ids,
               \/ \E yes \in BOOLEAN : SetApproved(id, yes)
               \/ \E i \in Indices : MakeApproved(id, i)
        PROVE  RoomsAreMade'
    <2>1. room' = room /\ conns' = conns
      BY <1>9 DEF SetApproved, MakeApproved
    <2>2. \A r \in Handlers \ {room} : rooms'[r] = rooms[r]
      BY <1>9 DEF SetApproved, MakeApproved, HubTypeOK
    <2>3. room = None => rooms' = rooms
      BY <1>9 DEF SetApproved, MakeApproved, InSession
    <2> QED
      BY <2>1, <2>2, <2>3 DEF RoomsAreMade, HubTypeOK, Fresh, Roomed
  <1>10. ASSUME CloseAll \/ \E id \in Ids : CloseMember(id)
         PROVE  RoomsAreMade'
    BY <1>10 DEF CloseAll, CloseMember, RoomsAreMade, Fresh, Roomed
  <1>11. ASSUME NEW h \in Handlers, Replace(h)
         PROVE  RoomsAreMade'
    BY <1>11, AtWork DEF Replace, RoomsAreMade, HubTypeOK, Fresh, Roomed, Conn
  <1> QED
    BY <1>1, <1>2, <1>3, <1>4, <1>5, <1>6, <1>7, <1>8, <1>9, <1>10, <1>11
       DEF HubMove, HandlerStep

\* Only Attach goes to the kick, and not without somebody to kick.
LEMMA StillReplacesOne ==
  ASSUME HubTypeOK, RoomsAreMade, ReplacesOne, HubMove
  PROVE  ReplacesOne'
  <1>1. ASSUME NEW h \in Handlers, \A g \in Handlers \ {h} : conns'[g] = conns[g],
               conns'[h].pc # "replace"
        PROVE  ReplacesOne'
    BY <1>1 DEF ReplacesOne
  <1>2. ASSUME NEW h \in Handlers, NEW id \in Ids, NEW i \in Indices, NEW kind \in Kinds,
               NEW approved \in BOOLEAN, Open(h, id, i, kind, approved)
        PROVE  ReplacesOne'
    BY <1>1, <1>2 DEF Open, HubTypeOK
  <1>3. ASSUME NEW h \in Handlers,
               Fetch(h) \/ Replace(h) \/ Hangup(h) \/ FindRoom(h) \/ Recheck(h) \/ Drop(h)
                 \/ Hook(h)
        PROVE  ReplacesOne'
    <2>1. conns[h] \in Conn
      BY <1>3, AtWork DEF Fetch, Replace, Hangup, FindRoom, Recheck, Drop, Hook
    <2>2. \A g \in Handlers \ {h} : conns'[g] = conns[g]
      BY <1>3 DEF Fetch, Replace, Hangup, FindRoom, Recheck, Drop, Hook, Afterwards, Goto, End,
           HubTypeOK
    <2>3. conns'[h].pc # "replace"
      BY <1>3, <2>1 DEF Fetch, Replace, Hangup, FindRoom, Recheck, Drop, Hook, Afterwards, Goto,
           End, Ended, HubTypeOK, Conn
    <2> QED
      BY <1>1, <2>2, <2>3
  <1>4. ASSUME NEW h \in Handlers, Attach(h)
        PROVE  ReplacesOne'
    <2>1. conns[h].room \in Handlers
      BY <1>4 DEF Attach, RoomsAreMade, Roomed
    <2> DEFINE o == AttachOld(conns[h].room, conns[h])[conns[h].kind]
    <2>2. /\ conns'[h].pc = AttachNext(h) /\ conns'[h].replaced = o
          /\ \A g \in Handlers \ {h} : conns'[g] = conns[g]
      BY <1>4, <2>1, AttachEffect
    <2>3. o = None => conns'[h].pc = "serve"
      BY <2>2 DEF AttachNext
    <2> HIDE DEF o
    <2> QED
      BY <2>2, <2>3 DEF ReplacesOne
  <1>5. ASSUME NEW h \in Handlers, Vacate(h)
        PROVE  ReplacesOne'
    <2>1. conns[h].room \in Handlers
      BY <1>5 DEF Vacate, RoomsAreMade, Roomed
    <2>2. /\ conns[h] \in Conn
          /\ \A g \in Handlers \ {h} : conns'[g] = conns[g]
          /\ \/ conns' = [conns EXCEPT ![h] = Ended]
             \/ \E pc \in {"recheck", "hook"}, gone \in BOOLEAN :
                   conns' = [conns EXCEPT ![h].pc = pc, ![h].offline = gone]
      BY <1>5, <2>1, VacateEffect
    <2>3. conns'[h].pc # "replace"
      BY <2>2 DEF Ended, HubTypeOK, Conn
    <2> QED
      BY <1>1, <2>2, <2>3
  <1>6. ASSUME conns' = conns
        PROVE  ReplacesOne'
    BY <1>6 DEF ReplacesOne
  <1> QED
    BY <1>2, <1>3, <1>4, <1>5, <1>6
       DEF HubMove, HandlerStep, SetApproved, MakeApproved, CloseMember, CloseAll

-----------------------------------------------------------------------------
\* The session's room holds connections that will find it again.

\* A step of a handler that nobody in the session's room stands for, and that
\* leaves room and rooms alone, changes nothing about it.
LEMMA OthersAttend ==
  ASSUME HubTypeOK, Attended, NEW h \in Handlers,
         room' = room, rooms' = rooms,
         \A g \in Handlers \ {h} : conns'[g] = conns[g],
         conns[h].pc \notin {"replace", "serve", "detach", "vacate"}
  PROVE  Attended'
  <1>1. SUFFICES ASSUME room # None, NEW om \in rooms[room].members, NEW k \in Kinds,
                        om.at[k] # None
                 PROVE  Attends(om.at[k], om, k)'
    BY DEF Attended
  <1>2. Attends(om.at[k], om, k)
    BY <1>1 DEF Attended
  <1>3. om.at[k] \in Handlers \ {h}
    BY <1>1, <1>2 DEF Attends, HubTypeOK, Room, OnlineMember
  <1> QED
    BY <1>2, <1>3 DEF Attends

LEMMA StillAttended ==
  ASSUME HubInv, HubMove
  PROVE  Attended'
  <1> USE DEF HubInv
  <1>1. ASSUME NEW h \in Handlers, NEW id \in Ids, NEW i \in Indices, NEW kind \in Kinds,
               NEW approved \in BOOLEAN, Open(h, id, i, kind, approved)
        PROVE  Attended'
    BY <1>1, OthersAttend DEF Open, HubTypeOK, Unused
  <1>2. ASSUME NEW h \in Handlers, Fetch(h)
        PROVE  Attended'
    <2>1. CASE room = None
      BY <1>2, <2>1 DEF Fetch, RoomFor, RoomsAreMade, Fresh, Attended
    <2>2. CASE room # None
      BY <1>2, <2>2, OthersAttend DEF Fetch, RoomFor, HubTypeOK
    <2> QED
      BY <2>1, <2>2
  <1>3. ASSUME NEW h \in Handlers, Attach(h)
        PROVE  Attended'
    <2> DEFINE c == conns[h]
               r == c.room
               old == AttachOld(r, c)
               new == [member |-> c.id, index |-> c.index, approved |-> c.approved,
                       at |-> [old EXCEPT ![c.kind] = h]]
    <2>1. r \in Handlers
      BY <1>3 DEF Attach, RoomsAreMade, Roomed
    <2>2. /\ c.pc = "attach" /\ c \in Conn
          /\ old \in [Kinds -> Handlers \cup {None}]
          /\ new.at[c.kind] = h
          /\ \A k \in Kinds \ {c.kind} : new.at[k] = old[k]
          /\ conns'[h].pc \in {"replace", "serve"}
          /\ conns'[h].room = r /\ conns'[h].id = c.id /\ conns'[h].kind = c.kind
          /\ \A g \in Handlers \ {h} : conns'[g] = conns[g]
          /\ room' = room
          /\ rooms'[r].members = (rooms[r].members \ InRoom(r, c.id)) \cup {new}
          /\ \A g \in Handlers \ {r} : rooms'[g] = rooms[g]
      BY <1>3, <2>1, AttachEffect DEF AttachNext
    <2>3. SUFFICES ASSUME room # None, NEW om \in rooms'[room].members, NEW k \in Kinds,
                          om.at[k] # None
                   PROVE  Attends(om.at[k], om, k)'
      BY <2>2 DEF Attended
    <2>4. \A g \in Handlers : \A x, j : g # h /\ Attends(g, x, j) => Attends(g, x, j)'
      BY <2>2 DEF Attends
    <2>5. \A x \in rooms[room].members, j \in Kinds :
             x.at[j] # None => /\ Attends(x.at[j], x, j)
                               /\ x.at[j] \in Handlers \ {h}
      BY <2>2, <2>3 DEF Attended, Attends, HubTypeOK, Room, OnlineMember
    <2>6. CASE om \in rooms[room].members
      BY <2>3, <2>4, <2>5, <2>6
    <2>7. CASE om = new /\ r = room
      <3>1. CASE k = c.kind
        BY <2>2, <2>3, <2>7, <3>1 DEF Attends, HubTypeOK, Conn
      <3>2. CASE k # c.kind
        <4>1. InRoom(r, c.id) # {}
          BY <2>2, <2>3, <2>7, <3>2 DEF AttachOld
        <4>2. PICK x \in InRoom(r, c.id) : old = x.at
          BY <4>1 DEF AttachOld
        <4>3. x \in rooms[room].members /\ x.member = c.id /\ x.at[k] = om.at[k]
          BY <2>2, <2>7, <3>2, <4>2 DEF InRoom
        <4>4. Attends(om.at[k], x, k)' /\ om.member = x.member
          BY <2>3, <2>4, <2>5, <2>7, <4>3
        <4> QED
          BY <4>4 DEF Attends
      <3> QED
        BY <3>1, <3>2
    <2> QED
      BY <2>2, <2>3, <2>6, <2>7 DEF HubTypeOK
  <1>4. ASSUME NEW h \in Handlers, Hangup(h)
        PROVE  Attended'
    BY <1>4, AtWork DEF Hangup, Goto, Attended, Attends, HubTypeOK, Room, OnlineMember, Conn
  <1>5. ASSUME NEW h \in Handlers, FindRoom(h)
        PROVE  Attended'
    <2>1. conns[h] \in Conn /\ rooms' = rooms /\ room' = room
      BY <1>5, AtWork DEF FindRoom
    <2>2. room # None => conns' = [conns EXCEPT ![h].pc = "vacate", ![h].room = room]
      BY <1>5 DEF FindRoom
    <2> QED
      BY <2>1, <2>2 DEF Attended, Attends, HubTypeOK, Room, OnlineMember, Conn
  <1>6. ASSUME NEW h \in Handlers, Vacate(h)
        PROVE  Attended'
    <2> DEFINE c == conns[h]
               r == c.room
    <2>1. r \in Handlers
      BY <1>6 DEF Vacate, RoomsAreMade, Roomed
    <2>2. /\ c.pc = "vacate" /\ c \in Conn
          /\ room' = room
          /\ rooms'[r].members = VacateRest(h)
          /\ \A g \in Handlers \ {r} : rooms'[g] = rooms[g]
          /\ \A g \in Handlers \ {h} : conns'[g] = conns[g]
      BY <1>6, <2>1, VacateEffect
    <2>3. SUFFICES ASSUME room # None, NEW om \in rooms'[room].members, NEW k \in Kinds,
                          om.at[k] # None
                   PROVE  Attends(om.at[k], om, k)'
      BY <2>2 DEF Attended
    <2>4. \A g \in Handlers : \A x, j : g # h /\ Attends(g, x, j) => Attends(g, x, j)'
      BY <2>2 DEF Attends
    <2>5. \A x \in rooms[room].members, j \in Kinds :
             x.at[j] # None => /\ Attends(x.at[j], x, j)
                               /\ x.at[j] \in Handlers
                               /\ x.at[j] = h => r = room /\ x.member = c.id /\ j = c.kind
      BY <2>3 DEF Attended, Attends, HubTypeOK, Room, OnlineMember
    <2>6. CASE om \in rooms[room].members /\ om \notin InRoom(r, c.id)
      BY <2>3, <2>4, <2>5, <2>6 DEF InRoom
    <2>7. CASE r # room
      BY <2>2, <2>3, <2>4, <2>5, <2>7 DEF HubTypeOK
    <2>8. CASE r = room /\ om \in VacateLeft(h)
      <3>1. PICK x \in InRoom(r, c.id) : om = Vacated(x, c.kind, h)
        BY <2>8 DEF VacateLeft
      <3>2. x \in rooms[room].members /\ x \in OnlineMember /\ c.kind \in Kinds
        <4>1. InRoom(r, c.id) \subseteq OnlineMember
          BY <2>1, SessionsMembers
        <4> QED
          BY <2>2, <2>8, <3>1, <4>1 DEF InRoom, Conn
      <3>3. om.member = x.member /\ om.at[k] = x.at[k] /\ ~(k = c.kind /\ x.at[k] = h)
        BY <2>3, <3>1, <3>2, VacatedTyped
      <3>4. Attends(x.at[k], x, k)'
        BY <2>3, <2>4, <2>5, <3>2, <3>3
      <3> QED
        BY <3>3, <3>4 DEF Attends
    <2> QED
      BY <2>2, <2>3, <2>6, <2>7, <2>8 DEF VacateRest, HubTypeOK
  <1>7. ASSUME NEW h \in Handlers, Recheck(h) \/ Drop(h)
        PROVE  Attended'
    <2>1. CASE Recheck(h)
      BY <2>1, OthersAttend DEF Recheck, Afterwards, Goto, End, HubTypeOK
    <2>2. CASE Drop(h)
      BY <2>2 DEF Drop, Attended
    <2> QED
      BY <1>7, <2>1, <2>2
  <1>8. ASSUME NEW h \in Handlers, Hook(h)
        PROVE  Attended'
    BY <1>8, OthersAttend DEF Hook, End, HubTypeOK
  <1>9. ASSUME NEW id \in Ids,
               \/ \E yes \in BOOLEAN : SetApproved(id, yes)
               \/ \E i \in Indices : MakeApproved(id, i)
        PROVE  Attended'
    <2>1. room' = room /\ conns' = conns
      BY <1>9, ApprovalEffect
    <2>2. room # None => \A om \in rooms'[room].members : \E x \in rooms[room].members :
             om.member = x.member /\ om.at = x.at
      <3> SUFFICES ASSUME room # None
                   PROVE  \A om \in rooms'[room].members : \E x \in rooms[room].members :
                            om.member = x.member /\ om.at = x.at
        OBVIOUS
      <3>1. PICK F \in [rooms[room].members -> OnlineMember] :
              /\ rooms'[room].members = {F[om] : om \in rooms[room].members}
              /\ \A om \in rooms[room].members : F[om].member = om.member /\ F[om].at = om.at
        BY <1>9, ApprovalEffect
      <3> QED
        BY <3>1
    <2> QED
      BY <2>1, <2>2 DEF Attended, Attends
  <1>10. ASSUME CloseAll \/ \E id \in Ids : CloseMember(id)
         PROVE  Attended'
    BY <1>10 DEF CloseAll, CloseMember, Attended, Attends
  <1>11. ASSUME NEW h \in Handlers, Replace(h)
         PROVE  Attended'
    BY <1>11, AtWork DEF Replace, Attended, Attends, HubTypeOK, Room, OnlineMember, Conn
  <1> QED
    BY <1>1, <1>2, <1>3, <1>4, <1>5, <1>6, <1>7, <1>8, <1>9, <1>10, <1>11
       DEF HubMove, HandlerStep

-----------------------------------------------------------------------------
\* One entry per member, and the newest connection of a kind is the one served.

\* A step that leaves the rooms alone, after which at most h is told less than
\* before and is not served.
LEMMA OthersServe ==
  ASSUME HubTypeOK, NewestServes, NEW h \in Handlers, rooms' = rooms,
         kicked \ {h} \subseteq kicked',
         \A g \in Handlers \ {h} : conns'[g] = conns[g],
         conns[h].pc # "replace", conns'[h].pc \notin {"replace", "serve"}
  PROVE  NewestServes'
  <1>1. \A x \in Handlers : Served(x)' => x # h /\ Served(x)
    BY DEF Served
  <1>2. \A x \in Handlers \ {h} : Doomed(x) => Doomed(x)'
    BY DEF Doomed
  <1>3. ASSUME NEW r \in Handlers, NEW x \in Handlers, Served(x)', conns'[x].room = r,
               ~Doomed(x)'
        PROVE  \E om \in InRoom(r, conns[x].id) : om.at[conns[x].kind] = x
    <2>1. x # h /\ Served(x) /\ ~Doomed(x) /\ conns[x].room = r
      BY <1>1, <1>2, <1>3
    <2> QED
      BY <2>1 DEF NewestServes
  <1> QED
    BY <1>1, <1>3 DEF NewestServes, InRoom

LEMMA NewestStillServes ==
  ASSUME HubInv, HubMove
  PROVE  NewestServes'
  <1> USE DEF HubInv
  <1>1. ASSUME NEW h \in Handlers, NEW id \in Ids, NEW i \in Indices, NEW kind \in Kinds,
               NEW approved \in BOOLEAN, Open(h, id, i, kind, approved)
        PROVE  NewestServes'
    BY <1>1, OthersServe DEF Open, Unused, HubTypeOK
  <1>2. ASSUME NEW h \in Handlers, Fetch(h)
        PROVE  NewestServes'
    <2>1. conns'[h].pc = "attach"
      BY <1>2, AtWork DEF Fetch, HubTypeOK, Conn
    <2> QED
      BY <1>2, <2>1, OthersServe DEF Fetch, HubTypeOK
  <1>3. ASSUME NEW h \in Handlers, Attach(h)
        PROVE  NewestServes'
    <2> DEFINE c == conns[h]
               r == c.room
               old == AttachOld(r, c)
               new == [member |-> c.id, index |-> c.index, approved |-> c.approved,
                       at |-> [old EXCEPT ![c.kind] = h]]
    <2>1. r \in Handlers
      BY <1>3 DEF Attach, RoomsAreMade, Roomed
    <2>2. /\ c.pc = "attach" /\ c \in Conn
          /\ old \in [Kinds -> Handlers \cup {None}]
          /\ new.at[c.kind] = h
          /\ \A k \in Kinds \ {c.kind} : new.at[k] = old[k]
          /\ conns'[h].room = r /\ conns'[h].id = c.id /\ conns'[h].kind = c.kind
          /\ conns'[h].replaced = old[c.kind]
          /\ old[c.kind] # None => conns'[h].pc = "replace"
          /\ \A g \in Handlers \ {h} : conns'[g] = conns[g]
          /\ kicked' = kicked
          /\ rooms'[r].members = (rooms[r].members \ InRoom(r, c.id)) \cup {new}
          /\ \A g \in Handlers \ {r} : rooms'[g] = rooms[g]
      BY <1>3, <2>1, AttachEffect DEF AttachNext
    <2>6. \A x \in Handlers : /\ Doomed(x) => Doomed(x)'
                              /\ x = old[c.kind] => Doomed(x)'
      BY <2>2, NilIsNobody DEF Doomed
    <2>3. new.member = c.id /\ c.kind \in Kinds
      BY <2>2 DEF Conn
    <2>4. ASSUME NEW g \in Handlers, NEW om \in rooms'[g].members
          PROVE  /\ \A y \in rooms'[g].members : y.member = om.member => y = om
                 /\ ~Deserted(om)
      <3>1. CASE g # r
        BY <2>2, <2>4, <3>1 DEF NewestServes, InRoom
      <3>2. CASE g = r /\ om = new
        <4>1. ~Deserted(om)
          BY <2>2, <2>3, <3>2, NilIsNobody DEF Deserted
        <4>2. \A y \in rooms'[g].members : y.member = om.member => y = om
          BY <2>2, <2>3, <3>2 DEF InRoom
        <4> QED
          BY <4>1, <4>2
      <3>3. CASE g = r /\ om \in rooms[r].members \ InRoom(r, c.id)
        <4>1. InRoom(r, om.member) = {om} /\ ~Deserted(om)
          BY <2>1, <3>3 DEF NewestServes
        <4>2. om.member # c.id
          BY <3>3 DEF InRoom
        <4> QED
          BY <2>2, <2>3, <3>3, <4>1, <4>2 DEF InRoom
      <3> QED
        BY <2>2, <2>4, <3>1, <3>2, <3>3
    <2>5. ASSUME NEW g \in Handlers, NEW x \in Handlers,
                 Served(x)', conns'[x].room = g, ~Doomed(x)'
          PROVE  \E om \in rooms'[g].members :
                   om.member = conns'[x].id /\ om.at[conns'[x].kind] = x
      <3>1. CASE x = h
        <4>1. conns'[x].room = r /\ conns'[x].id = c.id /\ conns'[x].kind = c.kind
          BY <2>2, <3>1
        <4> QED
          BY <2>2, <2>3, <2>5, <3>1, <4>1 DEF InRoom
      <3>2. CASE x # h
        <4>1. conns'[x] = conns[x] /\ Served(x) /\ ~Doomed(x)
          BY <2>2, <2>6, <2>5, <3>2 DEF Served, Doomed
        <4>2. PICK om \in InRoom(g, conns[x].id) : om.at[conns[x].kind] = x
          BY <2>5, <4>1 DEF NewestServes
        <4>3. CASE g # r \/ conns[x].id # c.id
          BY <2>2, <4>1, <4>2, <4>3 DEF InRoom
        <4>4. CASE g = r /\ conns[x].id = c.id
          <5>1. InRoom(r, c.id) = {om} /\ old = om.at
            <6>1. om \in rooms[r].members /\ om.member = c.id
              BY <4>2, <4>4 DEF InRoom
            <6>2. InRoom(r, c.id) = {om}
              BY <2>1, <6>1 DEF NewestServes
            <6> QED
              BY <6>2 DEF AttachOld
          <5>2. conns[x].kind \in Kinds
            BY <4>1, AtWork DEF Served, Conn
          <5>3. conns[x].kind # c.kind
            <6>1. old[conns[x].kind] = x
              BY <4>2, <5>1
            <6>2. x = old[c.kind] => Doomed(x)'
              BY <2>2, NilIsNobody DEF Doomed
            <6> HIDE DEF old
            <6> QED
              BY <2>5, <6>1, <6>2
          <5>4. new.at[conns[x].kind] = x
            BY <2>2, <4>2, <5>1, <5>2, <5>3
          <5>5. new \in rooms'[r].members /\ new.member = conns[x].id
            BY <2>2, <2>3, <4>4
          <5> QED
            BY <4>1, <4>4, <5>4, <5>5
        <4> QED
          BY <4>3, <4>4
      <3> QED
        BY <3>1, <3>2
    <2> QED
      BY <2>4, <2>5 DEF NewestServes, InRoom
  <1>4. ASSUME NEW h \in Handlers, Hangup(h)
        PROVE  NewestServes'
    <2>1. conns'[h].pc = "detach"
      BY <1>4, AtWork DEF Hangup, Goto, HubTypeOK, Conn
    <2> QED
      BY <1>4, <2>1, OthersServe DEF Hangup, Goto, HubTypeOK
  <1>5. ASSUME NEW h \in Handlers, FindRoom(h)
        PROVE  NewestServes'
    <2>1. conns'[h].pc \notin {"replace", "serve"}
      BY <1>5, AtWork DEF FindRoom, End, Ended, HubTypeOK, Conn
    <2> QED
      BY <1>5, <2>1, OthersServe DEF FindRoom, Forget, End, HubTypeOK
  <1>6. ASSUME NEW h \in Handlers, Vacate(h)
        PROVE  NewestServes'
    <2> DEFINE c == conns[h]
               r == c.room
    <2>1. r \in Handlers
      BY <1>6 DEF Vacate, RoomsAreMade, Roomed
    <2>2. /\ c.pc = "vacate" /\ c \in Conn
          /\ kicked' = kicked
          /\ rooms'[r].members = VacateRest(h)
          /\ \A g \in Handlers \ {r} : rooms'[g] = rooms[g]
          /\ \A g \in Handlers \ {h} : conns'[g] = conns[g]
      BY <1>6, <2>1, VacateEffect
    <2>3. conns'[h].pc \notin {"replace", "serve"}
      <3>1. \/ conns' = [conns EXCEPT ![h] = Ended]
            \/ \E pc \in {"recheck", "hook"}, gone \in BOOLEAN :
                  conns' = [conns EXCEPT ![h].pc = pc, ![h].offline = gone]
        BY <1>6, <2>1, VacateEffect
      <3> QED
        BY <2>2, <3>1 DEF Ended, HubTypeOK, Conn
    <2>4. c.kind \in Kinds /\ InRoom(r, c.id) \subseteq OnlineMember
      BY <2>1, <2>2, SessionsMembers DEF Conn
    <2>5. \A om \in InRoom(r, c.id) : InRoom(r, c.id) = {om}
      BY <2>1 DEF NewestServes, InRoom
    <2>6. \A om \in VacateLeft(h) : om.member = c.id /\ VacateLeft(h) = {om}
      BY <2>4, <2>5, VacatedTyped DEF VacateLeft, InRoom
    <2>7. ASSUME NEW g \in Handlers, NEW om \in rooms'[g].members
          PROVE  /\ \A y \in rooms'[g].members : y.member = om.member => y = om
                 /\ ~Deserted(om)
      <3>1. CASE g # r
        BY <2>2, <2>7, <3>1 DEF NewestServes, InRoom
      <3>2. CASE g = r /\ om \in VacateLeft(h) \ VacateGone(h)
        BY <2>2, <2>6, <3>2 DEF VacateRest, VacateGone, InRoom
      <3>3. CASE g = r /\ om \in rooms[r].members \ InRoom(r, c.id)
        <4>1. InRoom(r, om.member) = {om} /\ ~Deserted(om)
          BY <2>1, <3>3 DEF NewestServes
        <4>2. om.member # c.id
          BY <3>3 DEF InRoom
        <4> QED
          BY <2>2, <2>6, <3>3, <4>1, <4>2 DEF InRoom, VacateRest
      <3> QED
        BY <2>2, <2>7, <3>1, <3>2, <3>3 DEF VacateRest
    <2>8. ASSUME NEW g \in Handlers, NEW x \in Handlers,
                 Served(x)', conns'[x].room = g, ~Doomed(x)'
          PROVE  \E om \in rooms'[g].members :
                   om.member = conns'[x].id /\ om.at[conns'[x].kind] = x
      <3>1. x # h /\ conns'[x] = conns[x] /\ Served(x) /\ ~Doomed(x)
        <4>1. Doomed(x) => Doomed(x)'
          BY <2>2 DEF Doomed
        <4> QED
          BY <2>2, <2>3, <2>8, <4>1 DEF Served
      <3>2. PICK om \in InRoom(g, conns[x].id) : om.at[conns[x].kind] = x
        BY <2>8, <3>1 DEF NewestServes
      <3>3. CASE g # r \/ conns[x].id # c.id
        BY <2>2, <3>1, <3>2, <3>3 DEF InRoom, VacateRest
      <3>4. CASE g = r /\ conns[x].id = c.id
        <4> DEFINE new == Vacated(om, c.kind, h)
        <4>1. om \in InRoom(r, c.id) /\ om \in OnlineMember
          BY <2>4, <3>2, <3>4
        <4>2. conns[x].kind \in Kinds
          BY <3>1, AtWork DEF Served, Conn
        <4>3. new.at[conns[x].kind] = x /\ new.member = c.id
          BY <2>4, <3>1, <3>2, <4>1, <4>2, VacatedTyped DEF InRoom
        <4>4. ~Deserted(new)
          BY <4>2, <4>3, NilIsNobody DEF Deserted
        <4>5. new \in VacateRest(h)
          BY <4>1, <4>4 DEF VacateRest, VacateLeft, VacateGone
        <4> QED
          BY <2>2, <3>1, <3>4, <4>3, <4>5 DEF InRoom
      <3> QED
        BY <3>3, <3>4
    <2> QED
      BY <2>7, <2>8 DEF NewestServes, InRoom
  <1>7. ASSUME NEW h \in Handlers, Recheck(h) \/ Drop(h)
        PROVE  NewestServes'
    <2>1. conns'[h].pc \notin {"replace", "serve"}
      BY <1>7, AtWork DEF Recheck, Drop, Afterwards, Goto, End, Ended, HubTypeOK, Conn
    <2> QED
      BY <1>7, <2>1, OthersServe DEF Recheck, Drop, Afterwards, Goto, End, HubTypeOK
  <1>8. ASSUME NEW h \in Handlers, Hook(h)
        PROVE  NewestServes'
    BY <1>8, OthersServe DEF Hook, End, Ended, HubTypeOK
  <1>9. ASSUME NEW id \in Ids,
               \/ \E yes \in BOOLEAN : SetApproved(id, yes)
               \/ \E i \in Indices : MakeApproved(id, i)
        PROVE  NewestServes'
    <2>1. /\ room' = room /\ conns' = conns /\ kicked' = kicked
          /\ \A r \in Handlers \ {room} : rooms'[r] = rooms[r]
      BY <1>9, ApprovalEffect
    <2>2. CASE room = None
      BY <2>1, <2>2, NilIsNobody DEF NewestServes, Served, Doomed, InRoom
    <2>3. CASE room # None
      <3>1. PICK F \in [rooms[room].members -> OnlineMember] :
              /\ rooms'[room].members = {F[om] : om \in rooms[room].members}
              /\ \A om \in rooms[room].members : F[om].member = om.member /\ F[om].at = om.at
        BY <1>9, <2>3, ApprovalEffect
      <3>2. ASSUME NEW om \in rooms'[room].members
            PROVE  /\ \A y \in rooms'[room].members : y.member = om.member => y = om
                   /\ ~Deserted(om)
        <4>1. PICK x \in rooms[room].members : om = F[x]
          BY <3>1
        <4>2. ~Deserted(x) /\ \A y \in rooms[room].members : y.member = x.member => y = x
          BY <2>3 DEF NewestServes, HubTypeOK, InRoom
        <4>3. ~Deserted(om)
          BY <3>1, <4>1, <4>2 DEF Deserted
        <4> QED
          BY <3>1, <4>1, <4>2, <4>3
      <3>3. ASSUME NEW x \in Handlers, Served(x), conns[x].room = room, ~Doomed(x)
            PROVE  \E om \in rooms'[room].members :
                     om.member = conns[x].id /\ om.at[conns[x].kind] = x
        <4>1. PICK om \in rooms[room].members :
                om.member = conns[x].id /\ om.at[conns[x].kind] = x
          BY <3>3, <2>3 DEF NewestServes, HubTypeOK, InRoom
        <4>2. F[om] \in rooms'[room].members
          BY <3>1
        <4> QED
          BY <3>1, <4>1, <4>2
      <3> QED
        BY <2>1, <3>2, <3>3 DEF NewestServes, Served, Doomed, InRoom
    <2> QED
      BY <2>2, <2>3
  <1>10. ASSUME CloseAll \/ \E id \in Ids : CloseMember(id)
         PROVE  NewestServes'
    BY <1>10 DEF CloseAll, CloseMember, NewestServes, Served, Doomed, InRoom
  <1>11. ASSUME NEW h \in Handlers, Replace(h)
         PROVE  NewestServes'
    <2>1. \A x \in Handlers : conns'[x].room = conns[x].room /\ conns'[x].id = conns[x].id
                              /\ conns'[x].kind = conns[x].kind
      BY <1>11, AtWork DEF Replace, HubTypeOK, Conn
    <2>2. /\ rooms' = rooms /\ kicked' = kicked \cup {conns[h].replaced}
          /\ \A g \in Handlers \ {h} : conns'[g] = conns[g]
          /\ conns[h].pc = "replace"
      BY <1>11 DEF Replace, HubTypeOK
    <2>3. \A x \in Handlers : Served(x)' => Served(x)
      BY <2>2 DEF Served
    <2>4. \A x \in Handlers : Doomed(x) => Doomed(x)'
      BY <2>2 DEF Doomed
    <2> QED
      BY <2>1, <2>2, <2>3, <2>4 DEF NewestServes, InRoom
  <1> QED
    BY <1>1, <1>2, <1>3, <1>4, <1>5, <1>6, <1>7, <1>8, <1>9, <1>10, <1>11
       DEF HubMove, HandlerStep

-----------------------------------------------------------------------------
\* Rooms are reclaimed.

\* Somebody else than h will still enter or drop the room.
LEMMA OthersReclaim ==
  ASSUME HubTypeOK, Reclaimable, NEW h \in Handlers, room' = room, rooms' = rooms,
         \A g \in Handlers \ {h} : conns'[g] = conns[g],
         ~(conns[h].pc \in {"attach", "recheck", "delete"} /\ conns[h].room = room)
  PROVE  Reclaimable'
  BY DEF Reclaimable, IsEmpty

LEMMA StillReclaimable ==
  ASSUME HubInv, HubMove
  PROVE  Reclaimable'
  <1> USE DEF HubInv
  <1>1. ASSUME NEW h \in Handlers, NEW id \in Ids, NEW i \in Indices, NEW kind \in Kinds,
               NEW approved \in BOOLEAN, Open(h, id, i, kind, approved)
        PROVE  Reclaimable'
    BY <1>1, OthersReclaim DEF Open, Unused, HubTypeOK
  <1>2. ASSUME NEW h \in Handlers, Fetch(h)
        PROVE  Reclaimable'
    <2>1. conns'[h].pc = "attach" /\ conns'[h].room = room'
      BY <1>2, AtWork DEF Fetch, HubTypeOK, Conn
    <2> QED
      BY <2>1 DEF Reclaimable
  <1>3. ASSUME NEW h \in Handlers, Attach(h)
        PROVE  Reclaimable'
    <2>1. conns[h].room \in Handlers
      BY <1>3 DEF Attach, RoomsAreMade, Roomed
    <2>2. /\ room' = room
          /\ rooms'[conns[h].room].members # {}
          /\ \A g \in Handlers \ {conns[h].room} : rooms'[g] = rooms[g]
          /\ \A g \in Handlers \ {h} : conns'[g] = conns[g]
      <3>1. \E new : rooms'[conns[h].room].members =
              (rooms[conns[h].room].members \ InRoom(conns[h].room, conns[h].id)) \cup {new}
        BY <1>3, <2>1, AttachEffect
      <3>2. \A g \in Handlers \ {h} : conns'[g] = conns[g]
        BY <1>3, <2>1, AttachEffect
      <3> QED
        BY <1>3, <2>1, <3>1, <3>2 DEF Attach, HubTypeOK
    <2> QED
      BY <2>2 DEF Reclaimable, IsEmpty, HubTypeOK
  <1>4. ASSUME NEW h \in Handlers, Hangup(h)
        PROVE  Reclaimable'
    BY <1>4, OthersReclaim DEF Hangup, Goto, HubTypeOK
  <1>5. ASSUME NEW h \in Handlers, FindRoom(h)
        PROVE  Reclaimable'
    BY <1>5, OthersReclaim DEF FindRoom, End, HubTypeOK
  <1>6. ASSUME NEW h \in Handlers, Vacate(h)
        PROVE  Reclaimable'
    <2>1. conns[h].room \in Handlers
      BY <1>6 DEF Vacate, RoomsAreMade, Roomed
    <2>2. /\ conns[h].pc = "vacate" /\ conns[h] \in Conn
          /\ room' = room
          /\ rooms'[conns[h].room].members = VacateRest(h)
          /\ \A g \in Handlers \ {conns[h].room} : rooms'[g] = rooms[g]
          /\ \A g \in Handlers \ {h} : conns'[g] = conns[g]
          /\ VacateRest(h) = {} =>
               conns' = [conns EXCEPT ![h].pc = "recheck", ![h].offline = VacateGone(h) # {}]
      BY <1>6, <2>1, VacateEffect
    <2>3. VacateRest(h) = {} =>
             conns'[h].pc = "recheck" /\ conns'[h].room = conns[h].room
      BY <2>2 DEF HubTypeOK, Conn
    <2> QED
      BY <2>2, <2>3 DEF Reclaimable, IsEmpty, HubTypeOK
  <1>7. ASSUME NEW h \in Handlers, Recheck(h)
        PROVE  Reclaimable'
    <2>1. CASE room = conns[h].room /\ IsEmpty(room)
      <3>1. conns'[h].pc = "delete" /\ conns'[h].room = conns[h].room /\ room' = room
        BY <1>7, <2>1, AtWork DEF Recheck, Goto, HubTypeOK, Conn
      <3> QED
        BY <2>1, <3>1 DEF Reclaimable
    <2>2. CASE room = conns[h].room /\ ~IsEmpty(room)
      BY <1>7, <2>2 DEF Recheck, Reclaimable, IsEmpty
    <2>3. CASE room # conns[h].room
      BY <1>7, <2>3, OthersReclaim DEF Recheck, Afterwards, Goto, End, HubTypeOK
    <2> QED
      BY <2>1, <2>2, <2>3
  <1>12. ASSUME NEW h \in Handlers, Drop(h)
         PROVE  Reclaimable'
    BY <1>12 DEF Drop, Reclaimable
  <1>8. ASSUME NEW h \in Handlers, Hook(h)
        PROVE  Reclaimable'
    BY <1>8, OthersReclaim DEF Hook, End, HubTypeOK
  <1>9. ASSUME NEW id \in Ids,
               \/ \E yes \in BOOLEAN : SetApproved(id, yes)
               \/ \E i \in Indices : MakeApproved(id, i)
        PROVE  Reclaimable'
    <2>1. room' = room /\ conns' = conns
      BY <1>9, ApprovalEffect
    <2>2. room # None /\ rooms[room].members # {} => rooms'[room].members # {}
      <3> SUFFICES ASSUME room # None, rooms[room].members # {}
                   PROVE  rooms'[room].members # {}
        OBVIOUS
      <3>1. PICK F \in [rooms[room].members -> OnlineMember] :
              rooms'[room].members = {F[om] : om \in rooms[room].members}
        BY <1>9, ApprovalEffect
      <3> QED
        BY <3>1
    <2> QED
      BY <2>1, <2>2 DEF Reclaimable, IsEmpty
  <1>10. ASSUME CloseAll \/ \E id \in Ids : CloseMember(id)
         PROVE  Reclaimable'
    BY <1>10 DEF CloseAll, CloseMember, Reclaimable, IsEmpty
  <1>11. ASSUME NEW h \in Handlers, Replace(h)
         PROVE  Reclaimable'
    BY <1>11, OthersReclaim DEF Replace, HubTypeOK
  <1> QED
    BY <1>1, <1>2, <1>3, <1>4, <1>5, <1>6, <1>7, <1>8, <1>9, <1>10, <1>11, <1>12
       DEF HubMove, HandlerStep

-----------------------------------------------------------------------------
\* Put together.

LEMMA HubStarts ==
  HubInit => HubInv
  BY NilIsNobody DEF HubInit, HubInv, HubTypeOK, Room, Unused, RoomsAreMade, Fresh, Roomed,
       ReplacesOne, Attended, NewestServes, Served, InRoom, Reclaimable

LEMMA HubKeeps ==
  ASSUME HubInv, HubMove \/ UNCHANGED hubVars
  PROVE  HubInv'
  <1>1. CASE HubMove
    BY <1>1, HubMoveTyped, RoomsStayMade, StillReplacesOne, StillAttended, NewestStillServes, StillReclaimable
       DEF HubInv
  <1>2. CASE UNCHANGED hubVars
    BY <1>2 DEF hubVars, HubInv, HubTypeOK, RoomsAreMade, Fresh, Roomed, ReplacesOne, Attended,
         Attends, NewestServes, Served, Doomed, InRoom, Deserted, Reclaimable, IsEmpty
  <1> QED
    BY <1>1, <1>2

LEMMA HubInvGivesNoGhosts ==
  HubInv => NoGhosts
  BY DEF HubInv, Attended, Attends, NoGhosts

\* An empty room has somebody at work, and so has one that is not empty.
LEMMA HubInvGivesReclaimed ==
  HubInv => RoomsReclaimed
  <1> SUFFICES ASSUME HubInv, \A h \in Handlers : Idle(h), room # None
               PROVE  FALSE
    BY DEF RoomsReclaimed
  <1>1. \A h \in Handlers : conns[h].pc \in {"unused", "ended"}
    BY DEF Idle, Unused, Ended
  <1>2. CASE IsEmpty(room)
    BY <1>1, <1>2 DEF HubInv, Reclaimable
  <1>3. CASE ~IsEmpty(room)
    <2>1. PICK om \in rooms[room].members : ~Deserted(om)
      BY <1>3 DEF IsEmpty, HubInv, NewestServes, HubTypeOK
    <2>2. PICK k \in Kinds : om.at[k] # None
      BY <2>1 DEF Deserted
    <2>3. conns[om.at[k]].pc \in {"replace", "serve", "detach", "vacate"} /\ om.at[k] \in Handlers
      BY <2>1, <2>2 DEF HubInv, Attended, Attends, HubTypeOK, Room, OnlineMember
    <2> QED
      BY <1>1, <2>3
  <1> QED
    BY <1>2, <1>3

-----------------------------------------------------------------------------
\* A handler's step leaves the others and what its own Conn was made with.

LEMMA HandlerKeepsConn ==
  ASSUME HubInv, NEW h \in Handlers, HandlerStep(h)
  PROVE  /\ \A g \in Handlers \ {h} : conns'[g] = conns[g]
         /\ conns'[h] \in Conn =>
              /\ conns[h] \in Conn
              /\ conns'[h].id = conns[h].id /\ conns'[h].index = conns[h].index
              /\ conns'[h].kind = conns[h].kind /\ conns'[h].approved = conns[h].approved
         /\ conns[h] \in Conn
         /\ conns'[h] \in Conn \/ conns'[h] = Ended
  <1> USE DEF HubInv
  <1>1. CASE Fetch(h) \/ Replace(h) \/ Hangup(h) \/ FindRoom(h) \/ Recheck(h) \/ Drop(h)
              \/ Hook(h) \/ Attach(h)
    <2>1. conns[h] \in Conn
      BY <1>1, AtWork DEF Fetch, Replace, Hangup, FindRoom, Recheck, Drop, Hook, Attach
    <2>2. HubTypeOK'
      BY HandlerTyped
    <2> QED
      BY <1>1, <2>1, <2>2 DEF Fetch, Replace, Hangup, FindRoom, Recheck, Drop, Hook, Attach,
         Afterwards, Goto, End, Ended, HubTypeOK, Conn, Places
  <1>2. CASE Vacate(h)
    <2>1. conns[h].room \in Handlers
      BY <1>2 DEF Vacate, RoomsAreMade, Roomed
    <2>2. /\ conns[h] \in Conn
          /\ \A g \in Handlers \ {h} : conns'[g] = conns[g]
          /\ \/ conns' = [conns EXCEPT ![h] = Ended]
             \/ \E pc \in {"recheck", "hook"}, gone \in BOOLEAN :
                  conns' = [conns EXCEPT ![h].pc = pc, ![h].offline = gone]
      BY <1>2, <2>1, VacateEffect
    <2>3. Ended \notin Conn
      BY DEF Ended, Conn, Places
    <2> QED
      BY <2>2, <2>3 DEF HubTypeOK, Conn, Places
  <1> QED
    BY <1>1, <1>2 DEF HandlerStep

-----------------------------------------------------------------------------
\* The hub gives a member no index it was not told.

LEMMA ClaimsOfHub ==
  ASSUME HubInv, NEW id, NEW i, HubClaims(id, i)', ~HubClaims(id, i)
  PROVE  /\ \A h \in Handlers : ~HandlerStep(h)
         /\ \A x \in Ids, yes \in BOOLEAN : ~SetApproved(x, yes)
         /\ \A x \in Ids : ~CloseMember(x)
         /\ ~CloseAll
         /\ \A x \in Ids, j \in Indices : MakeApproved(x, j) => x = id /\ j = i
         /\ \A h \in Handlers, x \in Ids, j \in Indices, kind \in Kinds, approved \in BOOLEAN :
              Open(h, x, j, kind, approved) => x = id /\ j = i
  <1> USE DEF HubInv
  <1>1. ASSUME NEW h \in Handlers, NEW x \in Ids, NEW j \in Indices, NEW kind \in Kinds,
               NEW approved \in BOOLEAN, Open(h, x, j, kind, approved)
        PROVE  x = id /\ j = i
    BY <1>1 DEF Open, HubClaims, HubTypeOK
  <1>2. ASSUME NEW h \in Handlers,
               Fetch(h) \/ Replace(h) \/ Hangup(h) \/ FindRoom(h) \/ Recheck(h) \/ Drop(h)
                 \/ Hook(h)
        PROVE  FALSE
    <2>1. rooms' = rooms
      BY <1>2 DEF Fetch, Replace, Hangup, FindRoom, Recheck, Drop, Hook
    <2>2. \A g \in Handlers \ {h} : conns'[g] = conns[g]
      BY <1>2 DEF Fetch, Replace, Hangup, FindRoom, Recheck, Drop, Hook, Afterwards, Goto, End,
           HubTypeOK
    <2>3. conns'[h] \in Conn => /\ conns[h] \in Conn
                                /\ conns'[h].index = conns[h].index
                                /\ conns'[h].id = conns[h].id
      BY <1>2, AtWork DEF Fetch, Replace, Hangup, FindRoom, Recheck, Drop, Hook, Afterwards, Goto,
           End, Ended, HubTypeOK, Conn, Places
    <2> QED
      BY <2>1, <2>2, <2>3 DEF HubClaims
  <1>3. ASSUME NEW h \in Handlers, Attach(h)
        PROVE  FALSE
    <2>1. conns[h].room \in Handlers
      BY <1>3 DEF Attach, RoomsAreMade, Roomed
    <2> DEFINE c == conns[h]
               r == c.room
               new == [member |-> c.id, index |-> c.index, approved |-> c.approved,
                       at |-> [AttachOld(r, c) EXCEPT ![c.kind] = h]]
    <2>2. /\ c \in Conn
          /\ conns'[h].index = c.index /\ conns'[h].id = c.id
          /\ \A g \in Handlers \ {h} : conns'[g] = conns[g]
          /\ rooms'[r].members = (rooms[r].members \ InRoom(r, c.id)) \cup {new}
          /\ \A g \in Handlers \ {r} : rooms'[g] = rooms[g]
      BY <1>3, <2>1, AttachEffect
    <2>3. new.index = c.index /\ new.member = c.id
      OBVIOUS
    <2>4. \A g \in Handlers : conns'[g] \in Conn => /\ conns[g] \in Conn
                                                     /\ conns'[g].index = conns[g].index
                                                     /\ conns'[g].id = conns[g].id
      BY <2>2
    <2> HIDE DEF new
    <2> QED
      BY <2>1, <2>2, <2>3, <2>4 DEF HubClaims
  <1>4. ASSUME NEW h \in Handlers, Vacate(h)
        PROVE  FALSE
    <2>1. conns[h].room \in Handlers
      BY <1>4 DEF Vacate, RoomsAreMade, Roomed
    <2> DEFINE c == conns[h]
               r == c.room
    <2>2. /\ c \in Conn
          /\ rooms'[r].members = VacateRest(h)
          /\ \A g \in Handlers \ {r} : rooms'[g] = rooms[g]
          /\ \A g \in Handlers \ {h} : conns'[g] = conns[g]
      BY <1>4, <2>1, VacateEffect
    <2>3. conns'[h] = Ended \/ (conns'[h].index = c.index /\ conns'[h].id = c.id)
      <3>1. \/ conns' = [conns EXCEPT ![h] = Ended]
            \/ \E pc \in {"recheck", "hook"}, gone \in BOOLEAN :
                  conns' = [conns EXCEPT ![h].pc = pc, ![h].offline = gone]
        BY <1>4, <2>1, VacateEffect
      <3> QED
        BY <2>2, <3>1 DEF HubTypeOK, Conn
    <2>4. Ended \notin Conn
      BY DEF Ended, Conn, Places
    <2>5. \A om \in VacateLeft(h) : \E x \in rooms[r].members :
             x.index = om.index /\ x.member = om.member
      <3> SUFFICES ASSUME NEW x \in InRoom(r, c.id)
                   PROVE  /\ Vacated(x, c.kind, h).index = x.index
                          /\ Vacated(x, c.kind, h).member = x.member
        BY DEF VacateLeft, InRoom
      <3>1. x \in OnlineMember /\ c.kind \in Kinds
        <4>1. InRoom(r, c.id) \subseteq OnlineMember
          BY <2>1, SessionsMembers
        <4> QED
          BY <2>2, <4>1 DEF Conn
      <3> QED
        BY <3>1, VacatedTyped
    <2> QED
      BY <2>1, <2>2, <2>3, <2>4, <2>5 DEF HubClaims, VacateRest
  <1>5. ASSUME NEW x \in Ids, NEW yes \in BOOLEAN, SetApproved(x, yes)
        PROVE  FALSE
    <2> DEFINE ms == (rooms[room].members \ InRoom(room, x)) \cup
                       {[om EXCEPT !.approved = yes] : om \in InRoom(room, x)}
    <2>1. \/ rooms' = rooms
          \/ /\ room \in Handlers
             /\ rooms' = [rooms EXCEPT ![room] =
                            [members |-> ms, byIndex |-> rooms[room].byIndex]]
      BY <1>5, SetApprovedEffect
    <2>2. \/ rooms' = rooms
          \/ /\ room \in Handlers /\ rooms'[room].members = ms
             /\ \A r \in Handlers \ {room} : rooms'[r] = rooms[r]
      <3> HIDE DEF ms
      <3> QED
        BY <2>1 DEF HubTypeOK
    <2>3. room \in Handlers => \A om \in ms : \E y \in rooms[room].members :
             y.index = om.index /\ y.member = om.member
      <3>1. room \in Handlers => \A y \in InRoom(room, x) :
               /\ [y EXCEPT !.approved = yes].index = y.index
               /\ [y EXCEPT !.approved = yes].member = y.member
        BY SessionsMembers DEF OnlineMember
      <3> QED
        BY <3>1 DEF InRoom
    <2>4. conns' = conns
      BY <1>5 DEF SetApproved
    <2> HIDE DEF ms
    <2> QED
      BY <2>2, <2>3, <2>4 DEF HubClaims
  <1>6. ASSUME NEW x \in Ids, NEW j \in Indices, MakeApproved(x, j)
        PROVE  x = id /\ j = i
    <2>1. CASE InSession(x) = {}
      BY <1>6, <2>1 DEF MakeApproved, HubClaims
    <2>2. CASE InSession(x) # {}
      <3>1. room \in Handlers
        BY <2>2 DEF InSession, HubTypeOK
      <3>2. InSession(x) \subseteq OnlineMember
        BY SessionsMembers
      <3> DEFINE new == {[om EXCEPT !.approved = TRUE, !.index = j] : om \in InSession(x)}
                 ms == (rooms[room].members \ InSession(x)) \cup new
                 bi == Listed(rooms[room].byIndex \ {<<om.index, x>> : om \in InSession(x)},
                              j, x)
      <3>3. \A om \in new : om.index = j /\ om.member = x
        BY <3>2, <2>2 DEF OnlineMember, InSession, InRoom
      <3>4. rooms' = [rooms EXCEPT ![room] = [members |-> ms, byIndex |-> bi]]
        BY <1>6, <2>2 DEF MakeApproved
      <3>5. /\ rooms'[room].members = ms
            /\ \A r \in Handlers \ {room} : rooms'[r] = rooms[r]
        <4> HIDE DEF ms, bi
        <4> QED
          BY <3>1, <3>4 DEF HubTypeOK
      <3>6. conns' = conns
        BY <1>6 DEF MakeApproved
      <3> HIDE DEF new
      <3> QED
        BY <3>1, <3>3, <3>5, <3>6 DEF HubClaims
    <2> QED
      BY <2>1, <2>2
  <1>7. ASSUME CloseAll \/ \E x \in Ids : CloseMember(x)
        PROVE  FALSE
    <2>1. rooms' = rooms /\ conns' = conns
      BY <1>7 DEF CloseAll, CloseMember
    <2> QED
      BY <2>1 DEF HubClaims
  <1>8. ASSUME NEW h \in Handlers, HandlerStep(h)
        PROVE  FALSE
    BY <1>2, <1>3, <1>4, <1>8 DEF HandlerStep
  <1> QED
    BY <1>1, <1>5, <1>6, <1>7, <1>8

-----------------------------------------------------------------------------
\* byIndex.  Every index anybody holds is the one its member was given: F is
\* who was given which.
Indexed(F) == \A id \in Ids, i \in Indices : HubClaims(id, i) => i = F[id]

LEMMA RightIndices ==
  ASSUME HubInv, NEW F, Indexed(F)
  PROVE  /\ \A r \in Handlers : \A om \in rooms[r].members : om.index = F[om.member]
         /\ \A h \in Handlers : conns[h] \in Conn => conns[h].index = F[conns[h].id]
  <1>1. ASSUME NEW r \in Handlers, NEW om \in rooms[r].members
        PROVE  om.index = F[om.member]
    <2>1. om.member \in Ids /\ om.index \in Indices
      BY DEF HubInv, HubTypeOK, Room, OnlineMember
    <2> QED
      BY <2>1 DEF Indexed, HubClaims
  <1>2. ASSUME NEW h \in Handlers, conns[h] \in Conn
        PROVE  conns[h].index = F[conns[h].id]
    <2>1. conns[h].id \in Ids /\ conns[h].index \in Indices
      BY <1>2 DEF Conn
    <2> QED
      BY <1>2, <2>1 DEF Indexed, HubClaims
  <1> QED
    BY <1>1, <1>2

\* Both calls that change byIndex change it for one member of one room.
LEMMA CallsKeepIndex ==
  ASSUME HubInv, NEW F, Indexed(F), IndexFindsMember,
         \/ rooms' = rooms
         \/ \E h \in Handlers : Attach(h) \/ Vacate(h)
         \/ \E id \in Ids : SetApproved(id, FALSE) \/ MakeApproved(id, F[id])
  PROVE  IndexFindsMember'
  <1> USE DEF HubInv
  <1>1. ASSUME rooms' = rooms
        PROVE  IndexFindsMember'
    BY <1>1 DEF IndexFindsMember, InRoom
  <1>2. ASSUME NEW h \in Handlers, Attach(h)
        PROVE  IndexFindsMember'
    <2>1. conns[h].room \in Handlers
      BY <1>2 DEF Attach, RoomsAreMade, Roomed
    <2> DEFINE c == conns[h]
               r == c.room
               new == [member |-> c.id, index |-> c.index, approved |-> c.approved,
                       at |-> [AttachOld(r, c) EXCEPT ![c.kind] = h]]
    <2>2. /\ c \in Conn
          /\ rooms'[r].members = (rooms[r].members \ InRoom(r, c.id)) \cup {new}
          /\ rooms'[r].byIndex = Listed(rooms[r].byIndex, c.index, c.id)
          /\ \A g \in Handlers \ {r} : rooms'[g] = rooms[g]
      BY <1>2, <2>1, AttachEffect
    <2>3. new.index = c.index /\ new.member = c.id /\ c.index = F[c.id]
      BY <2>2, RightIndices
    <2>4. ASSUME NEW e \in rooms'[r].byIndex
          PROVE  /\ \E om \in rooms'[r].members : om.member = e[2] /\ om.index = e[1]
                 /\ \A f \in rooms'[r].byIndex : e[1] = f[1] => e = f
      <3> HIDE DEF new
      <3>1. CASE e = <<c.index, c.id>>
        BY <2>2, <2>3, <3>1 DEF Listed
      <3>2. CASE e \in rooms[r].byIndex /\ e[1] # c.index
        <4>1. PICK om \in rooms[r].members : om.member = e[2] /\ om.index = e[1]
          BY <2>1, <3>2 DEF IndexFindsMember, InRoom
        <4>2. om.member # c.id
          BY <2>1, <2>3, <3>2, <4>1, RightIndices
        <4>3. om \in rooms'[r].members
          BY <2>2, <4>1, <4>2 DEF InRoom
        <4>4. \A f \in rooms[r].byIndex : e[1] = f[1] => e = f
          BY <2>1, <3>2 DEF IndexFindsMember
        <4> QED
          BY <2>2, <3>2, <4>1, <4>3, <4>4 DEF Listed
      <3> QED
        BY <2>2, <2>4, <3>1, <3>2 DEF Listed
    <2> QED
      BY <2>2, <2>4 DEF IndexFindsMember, InRoom
  <1>3. ASSUME NEW h \in Handlers, Vacate(h)
        PROVE  IndexFindsMember'
    <2>1. conns[h].room \in Handlers
      BY <1>3 DEF Vacate, RoomsAreMade, Roomed
    <2> DEFINE c == conns[h]
               r == c.room
               idx == (CHOOSE om \in VacateGone(h) : TRUE).index
               bi == IF VacateGone(h) = {} THEN rooms[r].byIndex
                     ELSE Unlisted(rooms[r].byIndex, idx)
    <2>2. /\ c \in Conn
          /\ rooms'[r].members = VacateRest(h)
          /\ rooms' = [rooms EXCEPT ![r] = [members |-> VacateRest(h), byIndex |-> bi]]
          /\ \A g \in Handlers \ {r} : rooms'[g] = rooms[g]
      BY <1>3, <2>1, VacateEffect
    <2>3. rooms'[r].byIndex = bi
      <3> HIDE DEF bi
      <3> QED
        BY <2>1, <2>2 DEF HubTypeOK
    <2>4. c.kind \in Kinds /\ InRoom(r, c.id) \subseteq OnlineMember
      BY <2>1, <2>2, SessionsMembers DEF Conn
    <2>5. VacateGone(h) # {} => idx = F[c.id]
      <3> SUFFICES ASSUME VacateGone(h) # {}
                   PROVE  idx = F[c.id]
        OBVIOUS
      <3>1. PICK x \in InRoom(r, c.id) :
              (CHOOSE om \in VacateGone(h) : TRUE) = Vacated(x, c.kind, h)
        BY DEF VacateGone, VacateLeft
      <3>2. x \in OnlineMember /\ x.member = c.id /\ x \in rooms[r].members
        BY <2>4 DEF InRoom
      <3>3. idx = x.index
        <4>1. Vacated(x, c.kind, h).index = x.index
          BY <2>4, <3>2, VacatedTyped
        <4> HIDE DEF c
        <4> QED
          BY <3>1, <4>1
      <3> QED
        BY <2>1, <3>2, <3>3, RightIndices
    <2>6. ASSUME NEW e \in rooms'[r].byIndex
          PROVE  /\ \E om \in rooms'[r].members : om.member = e[2] /\ om.index = e[1]
                 /\ \A f \in rooms'[r].byIndex : e[1] = f[1] => e = f
      <3>1. e \in rooms[r].byIndex /\ rooms'[r].byIndex \subseteq rooms[r].byIndex
        BY <2>3, <2>6 DEF Unlisted
      <3>2. PICK x \in rooms[r].members : x.member = e[2] /\ x.index = e[1]
        BY <2>1, <3>1 DEF IndexFindsMember, InRoom
      <3>3. \A f \in rooms[r].byIndex : e[1] = f[1] => e = f
        BY <2>1, <3>1 DEF IndexFindsMember
      <3>4. CASE x.member # c.id
        BY <2>2, <3>1, <3>2, <3>3, <3>4 DEF VacateRest, InRoom
      <3>5. CASE x.member = c.id
        <4> DEFINE y == Vacated(x, c.kind, h)
        <4>1. x \in InRoom(r, c.id) /\ x \in OnlineMember
          BY <2>4, <3>2, <3>5 DEF InRoom
        <4>2. y \in VacateLeft(h) /\ y.member = x.member /\ y.index = x.index
          BY <2>4, <4>1, VacatedTyped DEF VacateLeft
        <4>3. VacateGone(h) = {}
          <5> SUFFICES ASSUME VacateGone(h) # {}
                       PROVE  FALSE
            OBVIOUS
          <5>1. e[1] = F[c.id]
            BY <2>1, <3>2, <3>5, RightIndices
          <5>2. e[1] # idx
            BY <2>3, <2>6 DEF Unlisted
          <5> QED
            BY <2>5, <5>1, <5>2
        <4>4. y \in rooms'[r].members
          BY <2>2, <4>2, <4>3 DEF VacateRest
        <4> HIDE DEF y
        <4> QED
          BY <3>1, <3>2, <3>3, <4>2, <4>4
      <3> QED
        BY <3>4, <3>5
    <2> QED
      BY <2>2, <2>6 DEF IndexFindsMember, InRoom
  <1>4. ASSUME NEW id \in Ids, SetApproved(id, FALSE), rooms' # rooms
        PROVE  IndexFindsMember'
    <2> DEFINE ms == (rooms[room].members \ InRoom(room, id)) \cup
                       {[om EXCEPT !.approved = FALSE] : om \in InRoom(room, id)}
    <2>1. /\ room \in Handlers
          /\ rooms' = [rooms EXCEPT ![room] =
                         [members |-> ms, byIndex |-> rooms[room].byIndex]]
      BY <1>4, SetApprovedEffect
    <2>2. /\ rooms'[room].members = ms /\ rooms'[room].byIndex = rooms[room].byIndex
          /\ \A r \in Handlers \ {room} : rooms'[r] = rooms[r]
          /\ room' = room
      <3> HIDE DEF ms
      <3> QED
        BY <1>4, <2>1 DEF HubTypeOK, SetApproved
    <2>3. \A x \in rooms[room].members : \E y \in ms :
             y.member = x.member /\ y.index = x.index
      <3> SUFFICES ASSUME NEW x \in rooms[room].members
                   PROVE  \E y \in ms : y.member = x.member /\ y.index = x.index
        OBVIOUS
      <3>1. x \in OnlineMember
        BY <2>1 DEF HubTypeOK, Room
      <3>2. /\ [x EXCEPT !.approved = FALSE].member = x.member
            /\ [x EXCEPT !.approved = FALSE].index = x.index
        BY <3>1 DEF OnlineMember
      <3> QED
        BY <3>2 DEF InRoom
    <2> HIDE DEF ms
    <2>4. ASSUME NEW e \in rooms'[room].byIndex
          PROVE  /\ \E om \in rooms'[room].members : om.member = e[2] /\ om.index = e[1]
                 /\ \A f \in rooms'[room].byIndex : e[1] = f[1] => e = f
      BY <2>1, <2>2, <2>3, <2>4 DEF IndexFindsMember, InRoom
    <2> QED
      BY <2>2, <2>4 DEF IndexFindsMember, InRoom
  <1>5. ASSUME NEW id \in Ids, MakeApproved(id, F[id]), rooms' # rooms
        PROVE  IndexFindsMember'
    <2> DEFINE i == F[id]
               new == {[om EXCEPT !.approved = TRUE, !.index = i] : om \in InSession(id)}
               ms == (rooms[room].members \ InSession(id)) \cup new
               bi == Listed(rooms[room].byIndex \ {<<om.index, id>> : om \in InSession(id)},
                            i, id)
    <2>1. /\ room \in Handlers /\ InSession(id) # {} /\ InSession(id) = InRoom(room, id)
          /\ rooms' = [rooms EXCEPT ![room] = [members |-> ms, byIndex |-> bi]]
      BY <1>5 DEF MakeApproved, InSession, HubTypeOK
    <2>2. /\ rooms'[room].members = ms /\ rooms'[room].byIndex = bi
          /\ \A r \in Handlers \ {room} : rooms'[r] = rooms[r]
          /\ room' = room
      <3>1. room' = room
        BY <1>5 DEF MakeApproved
      <3> HIDE DEF ms, bi
      <3> QED
        BY <2>1, <3>1 DEF HubTypeOK
    <2>3. InSession(id) \subseteq OnlineMember
      BY SessionsMembers
    <2>4. \A om \in new : om.member = id /\ om.index = i
      BY <2>1, <2>3 DEF OnlineMember, InRoom
    <2>5. new # {}
      BY <2>1
    <2>6. ASSUME NEW e \in rooms'[room].byIndex
          PROVE  /\ \E om \in rooms'[room].members : om.member = e[2] /\ om.index = e[1]
                 /\ \A f \in rooms'[room].byIndex : e[1] = f[1] => e = f
      <3> HIDE DEF new
      <3>1. CASE e = <<i, id>>
        BY <2>2, <2>4, <2>5, <3>1 DEF Listed
      <3>2. CASE e \in rooms[room].byIndex /\ e[1] # i
        <4>1. PICK x \in rooms[room].members : x.member = e[2] /\ x.index = e[1]
          BY <2>1, <3>2 DEF IndexFindsMember, InRoom
        <4>2. x.member # id
          BY <2>1, <3>2, <4>1, RightIndices
        <4>3. x \in rooms'[room].members
          BY <2>1, <2>2, <4>1, <4>2 DEF InRoom
        <4>4. \A f \in rooms[room].byIndex : e[1] = f[1] => e = f
          BY <2>1, <3>2 DEF IndexFindsMember
        <4> QED
          BY <2>2, <3>2, <4>1, <4>3, <4>4 DEF Listed
      <3> QED
        BY <2>2, <2>6, <3>1, <3>2 DEF Listed
    <2> HIDE DEF ms, bi, new, i
    <2> QED
      BY <2>2, <2>6 DEF IndexFindsMember, InRoom
  <1> QED
    BY <1>1, <1>2, <1>3, <1>4, <1>5

=============================================================================
