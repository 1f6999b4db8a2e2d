----------------------------- MODULE ServerProofs -----------------------------
(***************************************************************************)
(* Theorems about Server, for every set of nodes, handlers and indices and *)
(* every number of joins and of HTTP handlers under way.                   *)
(***************************************************************************)
EXTENDS Server, SessionStoreProofs, HubProofs

-----------------------------------------------------------------------------
\* The inductive invariant.

\* What the handlers hold is about members that were drawn, and connections
\* come from tickets.
BooksOK ==
    /\ drawn \in Nat /\ issued <= drawn /\ drawn <= MaxJoins
    /\ tickets \subseteq [id : Id, conn : Id]
    /\ \A t \in tickets : t.id <= issued /\ t.conn <= drawn
    /\ client \in [Handlers -> Client]
    /\ todo \subseteq Todo
    /\ \A t \in todo : t.step # "close" => t.id \in 1..issued /\ t.index \in 1..MaxIndex
    /\ reported \subseteq Id
    /\ \A h \in Handlers : conns[h] \in Conn =>
         /\ conns[h].id \in 1..issued /\ client[h].conn \in Id /\ ~Expired
         /\ conns[h].kind = "relay" => conns[h].approved

\* A copy is of a member that was drawn, and differs from the record, if there
\* still is one, in nothing that stays with a member.  A read loop has at most
\* one, and does nothing else until it is written back.
CopiesOK ==
    /\ copies \subseteq Copy /\ overwritten \subseteq Id
    /\ \A w \in copies :
         /\ w.rec.id <= issued
         /\ \A m \in members : m.id = w.rec.id => SameOwner(m, w.rec)
         /\ w.op = "approve" => w.rec.status = "pending"
         /\ w.by # None => client[w.by].due = "write"
         /\ \A v \in copies : v.by = w.by /\ w.by # None => v = w
    /\ \A h \in Handlers :
         client[h].due \in {"offer", "write"} => conns[h] \in Conn /\ conns[h].pc = "serve"

\* Whoever speaks of a member gives it one and the same index.
TodoClaims(id, i) == \E t \in todo : t.step # "close" /\ t.id = id /\ t.index = i
StoreClaims(id, i) == \E m \in members : m.id = id /\ m.index = i
Claimed(id, i) == StoreClaims(id, i) \/ HubClaims(id, i) \/ TodoClaims(id, i)

ClaimsOK ==
    \A id \in Ids, i, j \in Indices :
        /\ Claimed(id, i) => id \in 1..issued
        /\ Claimed(id, i) /\ Claimed(id, j) => i = j

\* A member that is online has the connection of its latest ticket; one that is
\* not was reported with it, or denied; unless its record was overwritten.
PresenceOK ==
    \A m \in members : m.id \notin overwritten => \E t \in tickets :
        /\ t.id = m.id /\ Latest(t)
        /\ Online(m) => m.conn = t.conn
        /\ ~Online(m) /\ m.status # "denied" => t.conn \in reported

\* Who is announced as gone is gone.
GoneOK ==
    /\ \A t \in todo : t.step \in {"left", "goodbye"} =>
         \A m \in members : m.id # t.id
    /\ \A h \in Handlers : client[h].due \in {"leave", "bye"} =>
         /\ conns[h] \in Conn
         /\ \A m \in members : m.id # conns[h].id

\* What a client attached as an approved member knows, its list on the way
\* included, or is about to be told.
Announced == {t.id : t \in {x \in todo : x.step \in {"joined", "approve", "welcome"}}}

\* The active members but for those a late copy may have made so.
Sure == ActiveIds \ overwritten

Watching(h) == h # None /\ h \notin kicked /\ Served(h) /\ conns[h].approved

Informed ==
    \A om \in Present :
        LET h == om.at["control"]
            c == client[h]
        IN  Watching(h) /\ ~Leaving(om.member) =>
              /\ om.approved
              /\ c.due \in {"nothing", "offer", "write"} =>
                   Sure \ {om.member} \subseteq c.peers \cup Announced
              /\ c.due = "send" =>
                   Sure \ {om.member} \subseteq c.list \cup c.peers \cup Announced

ServerInv ==
    /\ HubInv /\ StoreOK /\ BooksOK /\ CopiesOK /\ ClaimsOK
    /\ PresenceOK /\ GoneOK /\ Informed

\* The steps of a read loop that copies its member's record, or is about to.
Copies(h) == Touch(h) \/ Offer(h) \/ UpdateCandidates(h)

-----------------------------------------------------------------------------
\* What the handlers do to the hub and to the store.

LEMMA IdsKnown ==
  ASSUME ServerInv
  PROVE  1..issued \subseteq Ids /\ 1..MaxIndex \subseteq Indices
  BY ServerConstants DEF ServerInv, StoreOK, BooksOK

\* Every step is a call of the hub or leaves it alone.
LEMMA StepsOfHub ==
  ASSUME ServerInv, Next
  PROVE  HubMove \/ UNCHANGED hubVars
  <1>1. ASSUME NEW h \in Handlers, NEW t \in tickets, NEW kind \in Kinds, HandleWS(h, t, kind)
        PROVE  HubMove
    <2>1. PICK m \in members : Open(h, t.id, m.index, kind, m.status = "active") /\ m.id = t.id
      BY <1>1 DEF HandleWS
    <2>2. t.id \in Ids /\ m.index \in Indices
      BY <2>1, IdsKnown DEF ServerInv, StoreOK, Member, Id
    <2> QED
      BY <2>1, <2>2 DEF HubMove
  <1>2. ASSUME NEW h \in Handlers, AttachWS(h) \/ ByeWS(h) \/ HangupWS(h) \/ LockSection(h) \/ HookWS(h)
        PROVE  HubMove
    BY <1>2 DEF AttachWS, ByeWS, HangupWS, LockSection, HookWS, HandlerStep, HubMove
  <1>3. ASSUME NEW h \in Handlers, KickOwn(h)
        PROVE  HubMove
    <2>1. conns[h].id \in Ids
      BY <1>3 DEF KickOwn, ServerInv, GoneOK, Conn
    <2> QED
      BY <1>3, <2>1 DEF KickOwn, HubMove
  <1>4. ASSUME NEW h \in Handlers, ReadList(h) \/ SendList(h) \/ LeaveWS(h) \/ Copies(h)
        PROVE  UNCHANGED hubVars
    BY <1>4 DEF ReadList, SendList, LeaveWS, Copies, Touch, Offer, UpdateCandidates
  <1>5. ASSUME \/ \E n \in Nodes : HandleJoin(n)
               \/ \E m \in members : HandleLeave(m) \/ PruneMember(m)
               \/ \E o, m \in members : HandleApprove(o, m) \/ HandleReject(o, m)
               \/ \E w \in copies : WriteBack(w)
               \/ HandleDeleteSession \/ HandleRevoke \/ HandleRotate \/ PruneSession
        PROVE  UNCHANGED hubVars
    BY <1>5 DEF HandleJoin, HandleLeave, PruneMember, HandleApprove, HandleReject, WriteBack,
         HandleDeleteSession, HandleRevoke, HandleRotate, PruneSession
  <1>6. ASSUME NEW t \in todo, Left(t) \/ Admit(t) \/ Exclude(t) \/ Kick(t)
        PROVE  HubMove
    <2>1. t.step # "close"
      BY <1>6 DEF Left, Admit, Exclude, Kick
    <2>2. t.id \in Ids /\ t.index \in Indices
      BY <2>1, IdsKnown DEF ServerInv, BooksOK
    <2> QED
      BY <1>6, <2>2 DEF Left, Admit, Exclude, Kick, HubMove
  <1>7. ASSUME NEW t \in todo, CloseRoom(t)
        PROVE  HubMove
    BY <1>7 DEF CloseRoom, HubMove
  <1>8. ASSUME NEW t \in todo, Joined(t) \/ Goodbye(t) \/ Welcome(t)
        PROVE  UNCHANGED hubVars
    BY <1>8 DEF Joined, Goodbye, Welcome
  <1> QED
    BY <1>1, <1>2, <1>3, <1>4, <1>5, <1>6, <1>7, <1>8 DEF Next, Copies

LEMMA HubStays ==
  ASSUME ServerInv, [Next]_vars
  PROVE  HubInv'
  BY StepsOfHub, HubKeeps DEF ServerInv, vars

\* The steps that call the store, by what they do to the record.
Loses ==
    \E id : RemoveMember(id) \/ Revoke \/ RotateToken \/ CloseSession \/ Delete

Replaces(m, x) ==
    /\ SameOwner(m, x) /\ session.exists
    /\ members' = (members \ {m}) \cup {x}
    /\ UNCHANGED <<now, session, issued>>

\* A copy that is written back takes the place of its member's record; the id is
\* on the list of those overwritten if that is no longer the record read.
LEMMA WriteBackEffect ==
  ASSUME ServerInv, NEW w \in copies, WriteBack(w)
  PROVE  \/ /\ \E m \in members :
                 /\ SameOwner(m, w.rec) /\ Replaces(m, Written(w)) /\ Written(w) \in Member
                 /\ m = w.rec \/ w.rec.id \in overwritten'
            /\ overwritten \subseteq overwritten' /\ overwritten' \subseteq overwritten \cup {w.rec.id}
            /\ todo' = IF w.op = "refresh" THEN todo
                       ELSE todo \cup {About(w.op, w.rec, {})}
         \/ UNCHANGED <<storeVars, todo, overwritten>>
  <1> USE DEF ServerInv
  <1>1. w.rec \in Member /\ w.op \in {"refresh", "approve", "reject"} /\ 0 \in Nat
    BY DEF CopiesOK, Copy
  <1>2. Written(w) \in Member /\ SameOwner(w.rec, Written(w))
    <2>1. /\ Approved(w.rec) \in Member /\ SameOwner(w.rec, Approved(w.rec))
          /\ Denied(w.rec) \in Member /\ SameOwner(w.rec, Denied(w.rec))
      BY <1>1, MemberUpdates DEF SameOwner, Approved, Denied, Member
    <2>2. SameOwner(w.rec, w.rec)
      BY DEF SameOwner
    <2>3. Written(w) \in {w.rec, Approved(w.rec), Denied(w.rec)}
      BY <1>1 DEF Written
    <2> QED
      BY <1>1, <2>1, <2>2, <2>3
  <1>3. CASE UpdateMember(Written(w))
    <2>1. PICK m \in members : m.id = w.rec.id
      BY <1>2, <1>3 DEF UpdateMember, SameOwner
    <2>2. SameOwner(m, w.rec)
      BY <2>1 DEF CopiesOK
    <2>3. SameOwner(m, Written(w))
      BY <1>2, <2>2 DEF SameOwner
    <2>4. Replaces(m, Written(w))
      BY <1>2, <1>3, <2>3, UpdateEffect DEF Replaces
    <2>5. \A x \in members : x.id # w.rec.id => x # m
      BY <2>1
    <2>6. /\ overwritten' = IF w.rec \in members THEN overwritten
                            ELSE overwritten \cup {w.rec.id}
          /\ todo' = IF w.op = "refresh" THEN todo
                     ELSE todo \cup {About(w.op, w.rec, {})}
      BY <2>1 DEF WriteBack
    <2>7. w.rec \in members => m = w.rec
      BY <2>1 DEF StoreOK
    <2> QED
      BY <1>2, <2>2, <2>4, <2>6, <2>7
  <1>4. CASE ~UpdateMember(Written(w))
    BY <1>4 DEF WriteBack
  <1> QED
    BY <1>3, <1>4

LEMMA StepsOfStore ==
  ASSUME ServerInv, Next
  PROVE  \/ \E n \in Nodes : HandleJoin(n) /\ Join(n, drawn + 1)
         \/ Loses
         \/ \E w \in copies, m \in members :
              /\ WriteBack(w) /\ SameOwner(m, w.rec)
              /\ Replaces(m, Written(w)) /\ Written(w) \in Member
              /\ m = w.rec \/ w.rec.id \in overwritten'
         \/ \E m \in members, h \in Handlers :
              /\ HookWS(h) /\ m.conn = client[h].conn
              /\ Replaces(m, Departed(m, now)) /\ Departed(m, now) \in Member
         \/ UNCHANGED storeVars
  <1> USE DEF ServerInv
  <1>1. ASSUME NEW h \in Handlers, LeaveWS(h)
        PROVE  Loses \/ UNCHANGED storeVars
    BY <1>1 DEF LeaveWS, Loses
  <1>2. ASSUME NEW h \in Handlers, HookWS(h)
        PROVE  \/ \E m \in members :
                    /\ m.conn = client[h].conn
                    /\ Replaces(m, Departed(m, now)) /\ Departed(m, now) \in Member
               \/ UNCHANGED storeVars
    BY <1>2, MarkOfflineEffect DEF HookWS, Replaces
  <1>3. ASSUME NEW n \in Nodes, HandleJoin(n)
        PROVE  Join(n, drawn + 1)
    BY <1>3 DEF HandleJoin
  <1>4. ASSUME NEW m \in members, HandleLeave(m) \/ PruneMember(m)
        PROVE  Loses
    BY <1>4 DEF HandleLeave, PruneMember, Loses
  <1>5. ASSUME HandleDeleteSession \/ HandleRevoke \/ HandleRotate \/ PruneSession
        PROVE  Loses
    BY <1>5 DEF HandleDeleteSession, HandleRevoke, HandleRotate, PruneSession, Loses
  <1>6. ASSUME NEW w \in copies, WriteBack(w)
        PROVE  \/ \E m \in members :
                    /\ SameOwner(m, w.rec)
                    /\ Replaces(m, Written(w)) /\ Written(w) \in Member
                    /\ m = w.rec \/ w.rec.id \in overwritten'
               \/ UNCHANGED storeVars
    BY <1>6, WriteBackEffect
  <1>8. ASSUME \/ \E h \in Handlers, t \in tickets, kind \in Kinds : HandleWS(h, t, kind)
               \/ \E h \in Handlers :
                    \/ AttachWS(h) \/ ReadList(h) \/ SendList(h)
                    \/ KickOwn(h) \/ ByeWS(h) \/ HangupWS(h) \/ LockSection(h) \/ Copies(h)
               \/ \E o, m \in members : HandleApprove(o, m) \/ HandleReject(o, m)
               \/ \E t \in todo :
                    \/ Joined(t) \/ Left(t) \/ Goodbye(t) \/ Admit(t)
                    \/ Welcome(t) \/ Exclude(t) \/ Kick(t) \/ CloseRoom(t)
        PROVE  UNCHANGED storeVars
    BY <1>8 DEF HandleWS, AttachWS, ReadList, SendList, KickOwn, ByeWS, HangupWS, LockSection,
         Copies, Touch, Offer, UpdateCandidates, HandleApprove, HandleReject,
         Joined, Left, Goodbye, Admit, Welcome, Exclude, Kick, CloseRoom
  <1> QED
    BY <1>1, <1>2, <1>3, <1>4, <1>5, <1>6, <1>8 DEF Next, Copies

LEMMA StoreStays ==
  ASSUME ServerInv, [Next]_vars
  PROVE  StoreOK'
  <1> USE DEF ServerInv
  <1>1. ASSUME NEW n \in Nodes, Join(n, drawn + 1)
        PROVE  StoreOK'
    <2>1. drawn + 1 \in Id
      BY DEF BooksOK, Id
    <2> QED
      BY <1>1, <2>1, JoinKeepsStore
  <1>2. CASE Loses
    BY <1>2, LossKeepsStore DEF Loses
  <1>3. ASSUME NEW m \in members, NEW x \in Member, Replaces(m, x)
        PROVE  StoreOK'
    BY <1>3, ReplacementKeepsStore DEF Replaces
  <1>4. CASE UNCHANGED storeVars
    BY <1>4 DEF storeVars, StoreOK
  <1>5. CASE UNCHANGED vars
    BY <1>4, <1>5 DEF vars
  <1> QED
    BY <1>1, <1>2, <1>3, <1>4, <1>5, StepsOfStore

-----------------------------------------------------------------------------
\* Clients.

LEMMA HearEffect ==
  ASSUME client \in [Handlers -> Client], NEW audience, NEW new \in SUBSET Id, NEW gone,
         Hear(audience, new, gone)
  PROVE  /\ client' \in [Handlers -> Client]
         /\ \A h \in Handlers :
              /\ client'[h].conn = client[h].conn
              /\ client'[h].due = client[h].due
              /\ client'[h].list = client[h].list
              /\ client'[h].peers =
                   IF h \in audience /\ Served(h)
                   THEN (client[h].peers \cup (new \ {conns[h].id})) \ gone
                   ELSE client[h].peers
  <1>1. \A h \in Handlers : (client[h].peers \cup (new \ {conns[h].id})) \ gone \in SUBSET Id
    BY DEF Client
  <1>2. \A h \in Handlers : client[h] \in Client
    OBVIOUS
  <1>3. \A h \in Handlers : \A P \in SUBSET Id : [client[h] EXCEPT !.peers = P] \in Client
    BY <1>2 DEF Client
  <1>4. \A h \in Handlers : client'[h] =
           IF h \in audience /\ Served(h)
           THEN [client[h] EXCEPT !.peers = (client[h].peers \cup (new \ {conns[h].id})) \ gone]
           ELSE client[h]
    BY <1>2 DEF Hear, Client
  <1>5. client' \in [Handlers -> Client]
    <2>1. client' = [h \in Handlers |-> client'[h]]
      BY DEF Hear
    <2> QED
      BY <1>1, <1>2, <1>3, <1>4, <2>1
  <1> QED
    BY <1>2, <1>4, <1>5 DEF Client

LEMMA ForgoEffect ==
  ASSUME client \in [Handlers -> Client], NEW audience, NEW id, Forgo(audience, {id}),
         NEW h \in Handlers
  PROVE  /\ client'[h].due = client[h].due /\ client'[h].list = client[h].list
         /\ client[h].peers \ {id} \subseteq client'[h].peers
  <1>1. {} \in SUBSET Id /\ Hear(audience, {}, {id})
    BY DEF Forgo
  <1>2. /\ client'[h].due = client[h].due /\ client'[h].list = client[h].list
        /\ client'[h].peers =
             IF h \in audience /\ Served(h)
             THEN (client[h].peers \cup ({} \ {conns[h].id})) \ {id}
             ELSE client[h].peers
    BY <1>1, HearEffect
  <1> QED
    BY <1>2

LEMMA MeetEffect ==
  ASSUME client \in [Handlers -> Client], NEW audience, NEW new \in SUBSET Id,
         Meet(audience, new), NEW h \in Handlers
  PROVE  /\ client'[h].due = client[h].due /\ client'[h].list = client[h].list
         /\ client[h].peers \subseteq client'[h].peers
         /\ h \in audience /\ Served(h) => new \ {conns[h].id} \subseteq client'[h].peers
  <1>1. Hear(audience, new, {})
    BY DEF Meet
  <1>2. /\ client'[h].due = client[h].due /\ client'[h].list = client[h].list
        /\ client'[h].peers =
             IF h \in audience /\ Served(h)
             THEN (client[h].peers \cup (new \ {conns[h].id})) \ {}
             ELSE client[h].peers
    BY <1>1, HearEffect
  <1> QED
    BY <1>2

LEMMA ActiveIdsAreIds ==
  ASSUME StoreOK
  PROVE  ActiveIds \subseteq Id
  BY DEF StoreOK, ActiveIds, ActiveMembers, Member

LEMMA TodoKnown ==
  ASSUME BooksOK, NEW t \in todo, t.step # "close"
  PROVE  t.id \in Id /\ t.all \subseteq Id
  BY DEF BooksOK, Todo, Id

\* A client keeps its connection id until its handler has ended.
LEMMA ClientsStayTyped ==
  ASSUME ServerInv, Next
  PROVE  /\ client' \in [Handlers -> Client]
         /\ \A h \in Handlers :
              \/ client'[h].conn = client[h].conn
              \/ conns'[h] \notin Conn
              \/ \E t \in tickets, kind \in Kinds : HandleWS(h, t, kind)
  <1> USE DEF ServerInv
  <1> DEFINE Kept == \A h \in Handlers : client'[h].conn = client[h].conn
  <1>0. client \in [Handlers -> Client] /\ \A h \in Handlers : client[h] \in Client
    BY DEF BooksOK
  <1>1. ASSUME NEW h \in Handlers, NEW t \in tickets, NEW kind \in Kinds, HandleWS(h, t, kind)
        PROVE  /\ client' \in [Handlers -> Client]
               /\ \A g \in Handlers \ {h} : client'[g] = client[g]
    <2>1. [Nobody EXCEPT !.conn = t.conn] \in Client
      BY DEF Nobody, Client, BooksOK, Id, Dues
    <2> QED
      BY <1>0, <1>1, <2>1 DEF HandleWS
  <1>2. ASSUME NEW h \in Handlers,
               \/ AttachWS(h) \/ ReadList(h) \/ SendList(h) \/ LeaveWS(h) \/ KickOwn(h)
               \/ Copies(h)
        PROVE  client' \in [Handlers -> Client] /\ Kept
    <2>1. \A d \in Dues : [client[h] EXCEPT !.due = d] \in Client
      BY <1>0 DEF Client
    <2>2. \A L \in SUBSET Id : [client[h] EXCEPT !.due = "send", !.list = L] \in Client
      BY <1>0 DEF Client, Dues
    <2>3. \A P \in SUBSET Id :
             [client[h] EXCEPT !.due = "nothing", !.list = {}, !.peers = P] \in Client
      BY <1>0 DEF Client, Dues
    <2>4. CASE AttachWS(h)
      BY <1>0, <2>1, <2>4 DEF AttachWS, Dues, Client
    <2>5. CASE ReadList(h)
      <3>1. ActiveIds \in SUBSET Id
        BY ActiveIdsAreIds
      <3>2. \/ client' = [client EXCEPT ![h].due = "send", ![h].list = ActiveIds]
            \/ client' = [client EXCEPT ![h].due = "nothing"]
        BY <2>5 DEF ReadList
      <3>3. CASE client' = [client EXCEPT ![h].due = "send", ![h].list = ActiveIds]
        <4> DEFINE x == [client[h] EXCEPT !.due = "send", !.list = ActiveIds]
        <4>1. x \in Client /\ x.conn = client[h].conn
          BY <1>0, <2>2, <3>1 DEF Client
        <4>2. client' = [client EXCEPT ![h] = x]
          BY <1>0, <3>3
        <4> HIDE DEF x
        <4> QED
          BY <1>0, <4>1, <4>2
      <3>4. CASE client' = [client EXCEPT ![h].due = "nothing"]
        BY <1>0, <2>1, <3>4 DEF Dues, Client
      <3> QED
        BY <3>2, <3>3, <3>4
    <2>6. CASE SendList(h)
      <3>1. ListedPeers(client[h], conns[h].id) \in SUBSET Id
        BY <1>0 DEF ListedPeers, Client
      <3>2. client' = [client EXCEPT ![h] =
              [client[h] EXCEPT !.due = "nothing", !.list = {},
                                !.peers = ListedPeers(client[h], conns[h].id)]]
        BY <2>6 DEF SendList
      <3> QED
        BY <1>0, <2>3, <3>1, <3>2 DEF Client
    <2>7. CASE LeaveWS(h) \/ KickOwn(h) \/ Copies(h)
      <3>1. \E d \in Dues : client' = [client EXCEPT ![h].due = d]
        BY <2>7 DEF LeaveWS, KickOwn, Copies, Touch, Offer, UpdateCandidates, Refresh, Dues
      <3> QED
        BY <1>0, <2>1, <3>1 DEF Client
    <2> QED
      BY <1>2, <2>4, <2>5, <2>6, <2>7
  <1>3. ASSUME NEW h \in Handlers, ByeWS(h)
        PROVE  client' \in [Handlers -> Client] /\ Kept
    BY <1>0, <1>3, HearEffect DEF ByeWS, Forgo
  <1>4. ASSUME NEW h \in Handlers, LockSection(h) \/ HookWS(h)
        PROVE  /\ client' \in [Handlers -> Client]
               /\ \A g \in Handlers : client'[g].conn = client[g].conn \/ conns'[g] \notin Conn
    <2>1. Nobody \in Client /\ Ended \notin Conn
      BY DEF Nobody, Client, Dues, Ended, Conn, Places
    <2>2. HookWS(h) => conns'[h] = Ended
      BY DEF HookWS, Hook, End, HubInv, HubTypeOK
    <2>3. client' = client \/ (conns'[h] = Ended /\ client' = [client EXCEPT ![h] = Nobody])
      BY <1>4, <2>2 DEF LockSection, HookWS
    <2> QED
      BY <1>0, <2>1, <2>3
  <1>5. ASSUME NEW t \in todo, Joined(t) \/ Goodbye(t) \/ Welcome(t)
        PROVE  client' \in [Handlers -> Client] /\ Kept
    <2>1. {t.id} \in SUBSET Id /\ {t.id} \cup t.all \in SUBSET Id /\ {} \in SUBSET Id
      BY <1>5, TodoKnown DEF Joined, Goodbye, Welcome
    <2> QED
      BY <1>0, <1>5, <2>1, HearEffect DEF Joined, Goodbye, Welcome, Meet, Forgo
  <1>6. ASSUME \/ \E h \in Handlers : HangupWS(h)
               \/ \E n \in Nodes : HandleJoin(n)
               \/ \E m \in members : HandleLeave(m) \/ PruneMember(m)
               \/ \E o, m \in members : HandleApprove(o, m) \/ HandleReject(o, m)
               \/ HandleDeleteSession \/ HandleRevoke \/ HandleRotate \/ PruneSession
               \/ \E t \in todo : Left(t) \/ Admit(t) \/ Exclude(t) \/ Kick(t) \/ CloseRoom(t)
        PROVE  client' = client
    BY <1>6 DEF HangupWS, HandleJoin, HandleLeave, PruneMember, HandleApprove, HandleReject,
         HandleDeleteSession, HandleRevoke, HandleRotate, PruneSession, Left, Admit, Exclude,
         Kick, CloseRoom
  <1>7. ASSUME NEW w \in copies, WriteBack(w)
        PROVE  client' \in [Handlers -> Client] /\ Kept
    <2>1. CASE w.by = None
      BY <1>0, <1>7, <2>1 DEF WriteBack
    <2>2. CASE w.by # None
      <3>1. w.by \in Handlers
        BY <2>2 DEF CopiesOK, Copy
      <3>2. [client[w.by] EXCEPT !.due = "nothing"] \in Client
        BY <1>0, <3>1 DEF Client, Dues
      <3>3. client' = [client EXCEPT ![w.by].due = "nothing"]
        BY <1>7, <2>2 DEF WriteBack
      <3> QED
        BY <1>0, <3>1, <3>2, <3>3 DEF Client
    <2> QED
      BY <2>1, <2>2
  <1> QED
    BY <1>0, <1>1, <1>2, <1>3, <1>4, <1>5, <1>6, <1>7 DEF Next, Copies

-----------------------------------------------------------------------------
\* The books.

LEMMA AboutTyped ==
  ASSUME StoreOK, NEW m \in Member, NEW all \in SUBSET Id, NEW step \in Steps
  PROVE  /\ About(step, m, all) \in Todo
         /\ About(step, m, all).step = step
         /\ About(step, m, all).id = m.id
         /\ About(step, m, all).index = m.index
         /\ About(step, m, all).all = all
  BY StoreConstants DEF About, Todo, Member, Id

\* What is left to do is about members that have been drawn.
Known(t, n) == t.step # "close" => t.id \in 1..n /\ t.index \in 1..MaxIndex

\* What a join leaves to do, and the tickets it hands out: for the one member
\* that now has the node.
LEMMA JoinLeaves ==
  ASSUME ServerInv, NEW n \in Nodes, HandleJoin(n)
  PROVE  \E x \in Member, all \in SUBSET Id :
           /\ {m \in members' : m.node = n} = {x}
           /\ members' = (members \ MembersOfNode(n)) \cup {x}
           /\ x.conn = drawn + 1 /\ x.node = n /\ x.id <= issued'
           /\ \/ issued' = issued /\ \E m \in MembersOfNode(n) : SameOwner(m, x)
              \/ issued' = issued + 1 /\ x.id = issued + 1 /\ MembersOfNode(n) = {}
           /\ now' = now
           /\ tickets' = tickets \cup {[id |-> x.id, conn |-> drawn + 1]}
           /\ todo' = todo \cup (IF x.status = "active" THEN {About("joined", x, all)} ELSE {})
  <1> USE DEF ServerInv
  <1>1. drawn + 1 \in Id /\ Join(n, drawn + 1)
    BY DEF HandleJoin, BooksOK, Id
  <1>2. PICK x \in Member :
             /\ x.node = n /\ x.conn = drawn + 1
             /\ members' = (members \ MembersOfNode(n)) \cup {x}
             /\ \/ /\ issued' = issued
                   /\ \E m \in MembersOfNode(n) : SameOwner(m, x)
                \/ /\ issued' = issued + 1 /\ x.id = issued + 1
                   /\ MembersOfNode(n) = {}
             /\ now' = now
    BY <1>1, JoinEffect
  <1>3. StoreOK'
    BY <1>1, JoinKeepsStore
  <1>4. {m \in members' : m.node = n} = {x}
    BY <1>2 DEF MembersOfNode
  <1> DEFINE active == ActiveMembers(members')
             all == IF Seats > 0 /\ Cardinality(active) >= Seats
                    THEN {a.id : a \in active} ELSE {}
  <1>5. all \in SUBSET Id
    <2>1. \A a \in active : a.id \in Id
      BY <1>3 DEF StoreOK, ActiveMembers, Member
    <2> QED
      BY <2>1
  <1>6. x \in active <=> x.status = "active"
    BY <1>2 DEF ActiveMembers
  <1>7. todo' = todo \cup {About("joined", m, all) : m \in {x} \cap active}
    BY <1>4 DEF HandleJoin, Later
  <1>8. todo' = todo \cup (IF x.status = "active" THEN {About("joined", x, all)} ELSE {})
    <2> HIDE DEF active, all
    <2> QED
      BY <1>6, <1>7
  <1>9. tickets' = tickets \cup {[id |-> x.id, conn |-> drawn + 1]}
    BY <1>4 DEF HandleJoin
  <1>10. x.id <= issued'
    BY <1>2, <1>3 DEF StoreOK
  <1> HIDE DEF all
  <1> QED
    BY <1>2, <1>4, <1>5, <1>8, <1>9, <1>10

\* What a step adds to what is left to do.
LEMMA NewTodo ==
  ASSUME ServerInv, Next, NEW t \in todo', t \notin todo
  PROVE  /\ t \in Todo
         /\ \/ t.step = "close"
            \/ /\ t.step = "joined"
               /\ \E n \in Nodes : HandleJoin(n) /\ \E x \in Member :
                    /\ x.node = n /\ x \in members' /\ x.status = "active"
                    /\ t.id = x.id /\ t.index = x.index
            \/ \E m \in members :
                 /\ t.id = m.id /\ t.index = m.index
                 /\ \/ t.step = "left" /\ HandleLeave(m)
                    \/ t.step \in {"approve", "reject"} /\ \E w \in copies : WriteBack(w)
            \/ \E u \in todo :
                 /\ t.id = u.id /\ t.index = u.index
                 /\ \/ Left(u) /\ t.step = "goodbye"
                    \/ Admit(u) /\ t.step = "welcome"
                    \/ Exclude(u) /\ t.step = "kick"
  <1> USE DEF ServerInv
  <1>1. ASSUME NEW n \in Nodes, HandleJoin(n)
        PROVE  /\ t \in Todo /\ t.step = "joined"
               /\ \E x \in Member :
                    /\ x.node = n /\ x \in members' /\ x.status = "active"
                    /\ t.id = x.id /\ t.index = x.index
    <2>1. PICK x \in Member, all \in SUBSET Id :
            /\ members' = (members \ MembersOfNode(n)) \cup {x} /\ x.node = n
            /\ todo' = todo \cup (IF x.status = "active" THEN {About("joined", x, all)} ELSE {})
      BY <1>1, JoinLeaves
    <2>2. t = About("joined", x, all) /\ x.status = "active"
      BY <2>1
    <2> QED
      BY <2>1, <2>2, AboutTyped DEF Steps
  <1>2. ASSUME NEW m \in Member, NEW step \in {"left", "approve", "reject"},
               t = About(step, m, {})
        PROVE  t \in Todo /\ t.step = step /\ t.id = m.id /\ t.index = m.index
    <2>1. {} \in SUBSET Id /\ step \in Steps
      BY DEF Steps
    <2> QED
      BY <1>2, <2>1, AboutTyped
  <1>3. ASSUME NEW m \in members, HandleLeave(m)
        PROVE  t \in Todo /\ t.step = "left" /\ t.id = m.id /\ t.index = m.index
    <2>1. t = About("left", m, {}) /\ m \in Member
      BY <1>3 DEF HandleLeave, Later, StoreOK
    <2> QED
      BY <1>2, <2>1
  <1>4. ASSUME NEW w \in copies, WriteBack(w)
        PROVE  /\ t \in Todo /\ t.step \in {"approve", "reject"}
               /\ \E m \in members : t.id = m.id /\ t.index = m.index
    <2>1. /\ \E m \in members : SameOwner(m, w.rec)
          /\ w.op # "refresh" /\ t = About(w.op, w.rec, {})
      BY <1>4, WriteBackEffect
    <2>2. w.rec \in Member /\ w.op \in {"approve", "reject"}
      BY <2>1 DEF CopiesOK, Copy
    <2>3. t \in Todo /\ t.step = w.op /\ t.id = w.rec.id /\ t.index = w.rec.index
      BY <1>2, <2>1, <2>2
    <2> QED
      BY <2>1, <2>2, <2>3 DEF SameOwner
  <1>6. ASSUME HandleDeleteSession
        PROVE  t \in Todo /\ t.step = "close"
    BY <1>6, StoreConstants DEF HandleDeleteSession, Later, CloseAfter, Todo, Steps
  <1>7. ASSUME NEW u \in todo, NEW step \in {"goodbye", "welcome", "kick"}, Then(u, step)
        PROVE  t \in Todo /\ t.step = step /\ t.id = u.id /\ t.index = u.index
    <2>1. t = [u EXCEPT !.step = step]
      BY <1>7 DEF Then
    <2>2. u \in Todo
      BY DEF BooksOK
    <2> QED
      BY <2>1, <2>2 DEF Todo, Steps
  <1>8. ASSUME NEW u \in todo, Left(u)
        PROVE  Then(u, "goodbye")
    BY <1>8 DEF Left
  <1>9. ASSUME NEW u \in todo, Admit(u)
        PROVE  Then(u, "welcome")
    BY <1>9 DEF Admit
  <1>10. ASSUME NEW u \in todo, Exclude(u)
         PROVE  Then(u, "kick")
    BY <1>10 DEF Exclude
  <1>11. ASSUME NEW u \in todo, Joined(u) \/ Goodbye(u) \/ Welcome(u) \/ Kick(u) \/ CloseRoom(u)
         PROVE  FALSE
    BY <1>11 DEF Joined, Goodbye, Welcome, Kick, CloseRoom, Done
  <1>12. ASSUME \/ \E h \in Handlers, x \in tickets, kind \in Kinds : HandleWS(h, x, kind)
                \/ \E h \in Handlers :
                     \/ AttachWS(h) \/ ReadList(h) \/ SendList(h) \/ LeaveWS(h)
                     \/ KickOwn(h) \/ ByeWS(h) \/ HangupWS(h) \/ LockSection(h) \/ HookWS(h)
                     \/ Copies(h)
                \/ HandleRevoke \/ HandleRotate \/ PruneSession
                \/ \E m \in members : PruneMember(m)
                \/ \E o, m \in members : HandleApprove(o, m) \/ HandleReject(o, m)
         PROVE  FALSE
    BY <1>12 DEF HandleWS, AttachWS, ReadList, SendList, LeaveWS, KickOwn, ByeWS, HangupWS,
         LockSection, HookWS, HandleRevoke, HandleRotate, PruneSession, PruneMember,
         Copies, Touch, Offer, UpdateCandidates, HandleApprove, HandleReject
  <1> QED
    BY <1>1, <1>3, <1>4, <1>6, <1>7, <1>8, <1>9, <1>10, <1>11, <1>12 DEF Next, Copies

\* What is no longer left to do was done.
LEMMA OldTodo ==
  ASSUME Next, NEW u \in todo, u \notin todo'
  PROVE  \/ Joined(u) \/ Left(u) \/ Goodbye(u) \/ Admit(u)
         \/ Welcome(u) \/ Exclude(u) \/ Kick(u) \/ CloseRoom(u)
  <1>1. ASSUME \/ \E h \in Handlers, x \in tickets, kind \in Kinds : HandleWS(h, x, kind)
               \/ \E h \in Handlers :
                    \/ AttachWS(h) \/ ReadList(h) \/ SendList(h) \/ LeaveWS(h)
                    \/ KickOwn(h) \/ ByeWS(h) \/ HangupWS(h) \/ LockSection(h) \/ HookWS(h)
                    \/ Copies(h)
               \/ HandleRevoke \/ HandleRotate \/ PruneSession
               \/ \E m \in members : PruneMember(m)
               \/ \E o, m \in members : HandleApprove(o, m) \/ HandleReject(o, m)
        PROVE  FALSE
    BY <1>1 DEF HandleWS, AttachWS, ReadList, SendList, LeaveWS, KickOwn, ByeWS, HangupWS,
         LockSection, HookWS, HandleRevoke, HandleRotate, PruneSession, PruneMember,
         Copies, Touch, Offer, UpdateCandidates, HandleApprove, HandleReject
  <1>2. ASSUME \/ \E n \in Nodes : HandleJoin(n)
               \/ \E m \in members : HandleLeave(m)
               \/ \E w \in copies : WriteBack(w)
               \/ HandleDeleteSession
        PROVE  FALSE
    BY <1>2 DEF HandleJoin, HandleLeave, WriteBack, HandleDeleteSession, Later
  <1>3. ASSUME NEW t \in todo, t # u,
               \/ Joined(t) \/ Left(t) \/ Goodbye(t) \/ Admit(t)
               \/ Welcome(t) \/ Exclude(t) \/ Kick(t) \/ CloseRoom(t)
        PROVE  FALSE
    BY <1>3 DEF Joined, Left, Goodbye, Admit, Welcome, Exclude, Kick, CloseRoom, Done, Then
  <1> QED
    BY <1>1, <1>2, <1>3 DEF Next, Copies

\* Only joins draw ids; time stands still; a connection is reported by its hook.
LEMMA Counters ==
  ASSUME ServerInv, Next
  PROVE  /\ now' = now /\ issued' \in Nat /\ issued <= issued' /\ drawn' \in Nat /\ drawn <= drawn'
         /\ tickets \subseteq tickets' /\ reported \subseteq reported'
         /\ \/ \E n \in Nodes : HandleJoin(n)
            \/ issued' = issued /\ drawn' = drawn /\ tickets' = tickets
         /\ \/ \E h \in Handlers : HookWS(h)
            \/ reported' = reported
  <1> USE DEF ServerInv
  <1>1. ASSUME NEW n \in Nodes, HandleJoin(n)
        PROVE  /\ now' = now /\ issued' \in Nat /\ issued <= issued' /\ drawn' \in Nat
               /\ drawn <= drawn' /\ tickets \subseteq tickets' /\ reported' = reported
    <2>1. now' = now /\ (issued' = issued \/ issued' = issued + 1) /\ tickets \subseteq tickets'
      BY <1>1, JoinLeaves
    <2>2. drawn' = drawn + 1 /\ reported' = reported
      BY <1>1 DEF HandleJoin
    <2> QED
      BY <2>1, <2>2 DEF StoreOK, BooksOK
  <1>2. ASSUME \A n \in Nodes : ~HandleJoin(n)
        PROVE  now' = now /\ issued' = issued
    BY <1>2, StepsOfStore, LossKeepsStore DEF Replaces, Loses, storeVars
  <1>3. ASSUME \A n \in Nodes : ~HandleJoin(n)
        PROVE  drawn' = drawn /\ tickets' = tickets
    BY <1>3 DEF Next, HandleWS, AttachWS, ReadList, SendList, LeaveWS, KickOwn, ByeWS, HangupWS,
         LockSection, HookWS, HandleRevoke, HandleRotate, PruneSession, PruneMember, HandleLeave,
         HandleApprove, HandleReject, HandleDeleteSession,
         Touch, Offer, UpdateCandidates, WriteBack,
         Joined, Left, Goodbye, Admit, Welcome, Exclude, Kick, CloseRoom
  <1>4. ASSUME \A h \in Handlers : ~HookWS(h)
        PROVE  reported' = reported
    BY <1>4 DEF Next, HandleWS, AttachWS, ReadList, SendList, LeaveWS, KickOwn, ByeWS, HangupWS,
         LockSection, HandleRevoke, HandleRotate, PruneSession, PruneMember, HandleLeave,
         HandleJoin, HandleApprove, HandleReject, HandleDeleteSession,
         Touch, Offer, UpdateCandidates, WriteBack,
         Joined, Left, Goodbye, Admit, Welcome, Exclude, Kick, CloseRoom
  <1>5. \A h \in Handlers : HookWS(h) => reported \subseteq reported'
    BY DEF HookWS
  <1> QED
    BY <1>1, <1>2, <1>3, <1>4, <1>5 DEF StoreOK, BooksOK

\* A connection is what its handler opened it with.
LEMMA ConnsMove ==
  ASSUME ServerInv, Next, NEW h \in Handlers, conns'[h] \in Conn
  PROVE  \/ /\ conns[h] \in Conn
            /\ conns'[h].id = conns[h].id /\ conns'[h].index = conns[h].index
            /\ conns'[h].kind = conns[h].kind /\ conns'[h].approved = conns[h].approved
         \/ \E t \in tickets, kind \in Kinds : HandleWS(h, t, kind)
  <1> USE DEF ServerInv
  <1>1. ASSUME NEW g \in Handlers, HandlerStep(g)
        PROVE  /\ conns[h] \in Conn
               /\ conns'[h].id = conns[h].id /\ conns'[h].index = conns[h].index
               /\ conns'[h].kind = conns[h].kind /\ conns'[h].approved = conns[h].approved
    BY <1>1, HandlerKeepsConn
  <1>2. ASSUME NEW g \in Handlers,
               AttachWS(g) \/ ByeWS(g) \/ HangupWS(g) \/ LockSection(g) \/ HookWS(g)
        PROVE  HandlerStep(g)
    BY <1>2 DEF AttachWS, ByeWS, HangupWS, LockSection, HookWS, HandlerStep
  <1>3. ASSUME NEW g \in Handlers \ {h}, NEW t \in tickets, NEW kind \in Kinds,
               HandleWS(g, t, kind)
        PROVE  conns'[h] = conns[h]
    BY <1>3 DEF HandleWS, Open, HubInv, HubTypeOK
  <1>4. ASSUME \/ \E g \in Handlers :
                    ReadList(g) \/ SendList(g) \/ LeaveWS(g) \/ KickOwn(g) \/ Copies(g)
               \/ \E w \in copies : WriteBack(w)
               \/ \E n \in Nodes : HandleJoin(n)
               \/ \E m \in members : HandleLeave(m) \/ PruneMember(m)
               \/ \E o, m \in members : HandleApprove(o, m) \/ HandleReject(o, m)
               \/ HandleDeleteSession \/ HandleRevoke \/ HandleRotate \/ PruneSession
               \/ \E t \in todo :
                    \/ Joined(t) \/ Left(t) \/ Goodbye(t) \/ Admit(t)
                    \/ Welcome(t) \/ Exclude(t) \/ Kick(t) \/ CloseRoom(t)
        PROVE  conns' = conns
    BY <1>4 DEF ReadList, SendList, LeaveWS, KickOwn, HandleJoin, HandleLeave, PruneMember,
         Copies, Touch, Offer, UpdateCandidates, WriteBack,
         HandleApprove, HandleReject, HandleDeleteSession, HandleRevoke, HandleRotate,
         PruneSession, Joined, Left, Goodbye, Admit, Welcome, Exclude, Kick, CloseRoom,
         hubVars, CloseMember, CloseAll, MakeApproved, SetApproved
  <1> QED
    BY <1>1, <1>2, <1>3, <1>4 DEF Next, Copies

LEMMA BooksStay ==
  ASSUME ServerInv, [Next]_vars
  PROVE  BooksOK'
  <1> USE DEF ServerInv
  <1>1. CASE UNCHANGED vars
    BY <1>1 DEF vars, hubVars, storeVars, BooksOK, Expired
  <1>2. CASE Next
    <2>1. /\ drawn' \in Nat /\ issued' <= drawn' /\ drawn' <= MaxJoins
          /\ tickets' \subseteq [id : Id, conn : Id]
          /\ \A t \in tickets' : t.id <= issued' /\ t.conn <= drawn'
      <3>1. ASSUME NEW n \in Nodes, HandleJoin(n)
            PROVE  <2>1!:
        <4>1. PICK x \in Member :
                /\ x.id <= issued' /\ (issued' = issued \/ issued' = issued + 1)
                /\ tickets' = tickets \cup {[id |-> x.id, conn |-> drawn + 1]}
          BY <3>1, JoinLeaves
        <4>2. drawn' = drawn + 1 /\ drawn < MaxJoins
          BY <3>1 DEF HandleJoin
        <4>3. x.id \in Id /\ drawn + 1 \in Id
          BY DEF Member, BooksOK, Id
        <4>4. \A t \in tickets : t.id \in Nat /\ t.conn \in Nat /\ t.id <= issued /\ t.conn <= drawn
          BY DEF BooksOK, Id
        <4> QED
          BY <4>1, <4>2, <4>3, <4>4, ServerConstants DEF BooksOK, StoreOK, Id
      <3> QED
        BY <1>2, <3>1, Counters DEF BooksOK
    <2>2. todo' \subseteq Todo
          /\ \A t \in todo' : t.step # "close" => t.id \in 1..issued' /\ t.index \in 1..MaxIndex
      <3>1. \A t \in todo : t \in Todo /\ (t.step # "close" => t.id \in 1..issued' /\ t.index \in 1..MaxIndex)
        BY <1>2, Counters DEF BooksOK, StoreOK
      <3>2. \A m \in members \cup members' : m.id \in 1..issued' /\ m.index \in 1..MaxIndex
        <4>1. StoreOK'
          BY <1>2, StoreStays
        <4> QED
          BY <1>2, <4>1, Counters DEF StoreOK, Member, Id
      <3>3. ASSUME NEW t \in todo', t \notin todo
            PROVE  t \in Todo /\ (t.step # "close" => t.id \in 1..issued' /\ t.index \in 1..MaxIndex)
        <4>1. ASSUME NEW u \in todo, Left(u) \/ Admit(u) \/ Exclude(u)
              PROVE  u.step # "close"
          BY <4>1 DEF Left, Admit, Exclude
        <4> QED
          BY <1>2, <3>1, <3>2, <3>3, <4>1, NewTodo
      <3> QED
        BY <3>1, <3>3
    <2>3. client' \in [Handlers -> Client]
      BY <1>2, ClientsStayTyped
    <2>4. ASSUME NEW h \in Handlers, conns'[h] \in Conn
          PROVE  /\ conns'[h].id \in 1..issued' /\ client'[h].conn \in Id /\ ~Expired'
                 /\ conns'[h].kind = "relay" => conns'[h].approved
      <3>1. CASE \E t \in tickets, kind \in Kinds : HandleWS(h, t, kind)
        <4>1. PICK t \in tickets, kind \in Kinds : HandleWS(h, t, kind)
          BY <3>1
        <4>2. t.id \in 1..issued /\ t.conn \in Id /\ now' = now /\ issued' = issued
          BY <4>1 DEF BooksOK, Id, StoreOK, HandleWS, storeVars
        <4>3. PICK m \in members : Open(h, t.id, m.index, kind, m.status = "active")
          BY <4>1 DEF HandleWS
        <4>4. /\ conns'[h].id = t.id /\ conns'[h].kind = kind
              /\ conns'[h].approved = (m.status = "active")
              /\ kind = "relay" => m.status = "active"
          BY <4>3 DEF Open, HubInv, HubTypeOK
        <4>5. client'[h].conn = t.conn
          BY <4>1 DEF HandleWS, BooksOK, Nobody
        <4>6. ~Expired'
          BY <4>1, <4>2 DEF HandleWS, Expired
        <4> QED
          BY <4>2, <4>4, <4>5, <4>6
      <3>2. CASE ~\E t \in tickets, kind \in Kinds : HandleWS(h, t, kind)
        <4>1. /\ conns[h] \in Conn /\ conns'[h].id = conns[h].id
              /\ conns'[h].kind = conns[h].kind /\ conns'[h].approved = conns[h].approved
          BY <1>2, <2>4, <3>2, ConnsMove
        <4>2. client'[h].conn = client[h].conn
          BY <1>2, <2>4, <3>2, ClientsStayTyped
        <4>3. now' = now /\ issued' \in Nat /\ issued <= issued'
          BY <1>2, Counters
        <4>4. ~Expired'
          BY <4>1, <4>3 DEF Expired, BooksOK
        <4> QED
          BY <4>1, <4>2, <4>3, <4>4 DEF BooksOK, StoreOK
      <3> QED
        BY <3>1, <3>2
    <2>5. reported' \subseteq Id
      <3>1. ASSUME NEW h \in Handlers, HookWS(h)
            PROVE  reported' \subseteq Id
        <4>1. conns[h] \in Conn
          BY <3>1, AtWork DEF HookWS, Hook, HubInv
        <4> QED
          BY <3>1, <4>1 DEF HookWS, BooksOK
      <3> QED
        BY <1>2, <3>1, Counters DEF BooksOK
    <2> QED
      BY <2>1, <2>2, <2>3, <2>4, <2>5 DEF BooksOK
  <1> QED
    BY <1>1, <1>2

-----------------------------------------------------------------------------
\* Claims.

\* The hub and the handlers repeat what the store or another of them said; only
\* an admission says something new.
LEMMA NewClaim ==
  ASSUME ServerInv, Next, NEW id \in Ids, NEW i \in Indices,
         Claimed(id, i)', ~Claimed(id, i)
  PROVE  issued' = issued + 1 /\ id = issued + 1 /\ StoreClaims(id, i)'
  <1> USE DEF ServerInv
  <1>1. ASSUME NEW m \in members', m.id = id, m.index = i
        PROVE  issued' = issued + 1 /\ id = issued + 1
    <2>1. ASSUME NEW n \in Nodes, HandleJoin(n)
          PROVE  issued' = issued + 1 /\ id = issued + 1
      <3>1. PICK x \in Member :
              /\ members' = (members \ MembersOfNode(n)) \cup {x}
              /\ \/ issued' = issued /\ \E o \in MembersOfNode(n) : SameOwner(o, x)
                 \/ issued' = issued + 1 /\ x.id = issued + 1
        BY <2>1, JoinLeaves
      <3> QED
        BY <1>1, <3>1 DEF Claimed, StoreClaims, SameOwner, MembersOfNode
    <2>2. CASE Loses
      BY <1>1, <2>2, LossKeepsStore DEF Loses, Claimed, StoreClaims
    <2>3. ASSUME NEW o \in members, NEW x, Replaces(o, x)
          PROVE  FALSE
      BY <1>1, <2>3 DEF Replaces, SameOwner, Claimed, StoreClaims
    <2>4. CASE UNCHANGED storeVars
      BY <1>1, <2>4 DEF storeVars, Claimed, StoreClaims
    <2> QED
      BY <2>1, <2>2, <2>3, <2>4, StepsOfStore
  <1>2. ASSUME NEW t \in todo', t.step # "close", t.id = id, t.index = i
        PROVE  \E m \in members' : m.id = id /\ m.index = i
    <2>1. t \notin todo
      BY <1>2 DEF Claimed, TodoClaims
    <2>2. \A m \in members : ~(m.id = id /\ m.index = i)
      BY DEF Claimed, StoreClaims
    <2>3. \A u \in todo : Left(u) \/ Admit(u) \/ Exclude(u) => ~(u.id = id /\ u.index = i)
      BY DEF Claimed, TodoClaims, Left, Admit, Exclude
    <2> QED
      BY <1>2, <2>1, <2>2, <2>3, NewTodo
  <1>3. ASSUME HubClaims(id, i)'
        PROVE  FALSE
    <2>1. ~HubClaims(id, i)
      BY DEF Claimed
    <2>2. ~UNCHANGED hubVars
      BY <1>3, <2>1 DEF hubVars, HubClaims
    <2>3. ASSUME NEW h \in Handlers, NEW t \in tickets, NEW kind \in Kinds, HandleWS(h, t, kind)
          PROVE  FALSE
      <3>1. PICK m \in members : m.id = t.id /\ Open(h, t.id, m.index, kind, m.status = "active")
        BY <2>3 DEF HandleWS
      <3>2. m.id \in Ids /\ m.index \in Indices
        BY IdsKnown DEF StoreOK, Member, Id
      <3>3. PICK approved \in BOOLEAN : Open(h, m.id, m.index, kind, approved)
        BY <3>1
      <3>4. \A g \in Handlers, x \in Ids, j \in Indices, k \in Kinds, a \in BOOLEAN :
              Open(g, x, j, k, a) => x = id /\ j = i
        BY <1>3, <2>1, ClaimsOfHub
      <3>5. m.id = id /\ m.index = i
        BY <3>2, <3>3, <3>4
      <3> QED
        BY <3>5 DEF Claimed, StoreClaims
    <2>4. ASSUME NEW h \in Handlers,
                 AttachWS(h) \/ ByeWS(h) \/ HangupWS(h) \/ LockSection(h) \/ HookWS(h)
          PROVE  FALSE
      <3>1. HandlerStep(h)
        BY <2>4 DEF AttachWS, ByeWS, HangupWS, LockSection, HookWS, HandlerStep
      <3> QED
        BY <1>3, <2>1, <3>1, ClaimsOfHub
    <2>5. ASSUME NEW h \in Handlers, KickOwn(h)
          PROVE  FALSE
      <3>1. conns[h].id \in Ids
        BY <2>5 DEF KickOwn, GoneOK, Conn
      <3>2. CloseMember(conns[h].id)
        BY <2>5 DEF KickOwn
      <3> QED
        BY <1>3, <2>1, <3>1, <3>2, ClaimsOfHub
    <2>6. ASSUME NEW t \in todo, Admit(t)
          PROVE  FALSE
      <3>1. t.step = "approve" /\ MakeApproved(t.id, t.index)
        BY <2>6 DEF Admit
      <3>2. t.id \in Ids /\ t.index \in Indices
        BY <3>1, IdsKnown DEF BooksOK
      <3>3. t.id = id /\ t.index = i
        BY <1>3, <2>1, <3>1, <3>2, ClaimsOfHub
      <3> QED
        BY <3>1, <3>3 DEF Claimed, TodoClaims
    <2>7. ASSUME NEW t \in todo, Left(t) \/ Kick(t) \/ Exclude(t) \/ CloseRoom(t)
          PROVE  FALSE
      <3>1. CASE CloseRoom(t)
        BY <1>3, <2>1, <3>1, ClaimsOfHub DEF CloseRoom
      <3>2. CASE ~CloseRoom(t)
        <4>1. t.id \in Ids
          BY <2>7, <3>2, IdsKnown DEF BooksOK, Left, Kick, Exclude
        <4>2. CloseMember(t.id) \/ SetApproved(t.id, FALSE)
          BY <2>7, <3>2 DEF Left, Kick, Exclude
        <4> QED
          BY <1>3, <2>1, <4>1, <4>2, ClaimsOfHub
      <3> QED
        BY <3>1, <3>2
    <2>8. ASSUME \/ \E h \in Handlers : ReadList(h) \/ SendList(h) \/ LeaveWS(h) \/ Copies(h)
                 \/ \E w \in copies : WriteBack(w)
                 \/ \E n \in Nodes : HandleJoin(n)
                 \/ \E m \in members : HandleLeave(m) \/ PruneMember(m)
                 \/ \E o, m \in members : HandleApprove(o, m) \/ HandleReject(o, m)
                 \/ HandleDeleteSession \/ HandleRevoke \/ HandleRotate \/ PruneSession
                 \/ \E t \in todo : Joined(t) \/ Goodbye(t) \/ Welcome(t)
          PROVE  FALSE
      BY <2>2, <2>8 DEF ReadList, SendList, LeaveWS, HandleJoin, HandleLeave, PruneMember,
           Copies, Touch, Offer, UpdateCandidates, WriteBack,
           HandleApprove, HandleReject, HandleDeleteSession, HandleRevoke, HandleRotate,
           PruneSession, Joined, Goodbye, Welcome
    <2> QED
      BY <2>3, <2>4, <2>5, <2>6, <2>7, <2>8 DEF Next, Copies
  <1> QED
    BY <1>1, <1>2, <1>3 DEF Claimed, StoreClaims, TodoClaims

LEMMA ClaimsStay ==
  ASSUME ServerInv, [Next]_vars
  PROVE  ClaimsOK'
  <1> USE DEF ServerInv
  <1>1. CASE UNCHANGED vars
    BY <1>1 DEF vars, hubVars, storeVars, ClaimsOK, Claimed, StoreClaims, TodoClaims, HubClaims
  <1>2. CASE Next
    <2> SUFFICES ASSUME NEW id \in Ids, NEW i \in Indices, NEW j \in Indices
                 PROVE  /\ Claimed(id, i)' => id \in 1..issued'
                        /\ Claimed(id, i)' /\ Claimed(id, j)' => i = j
      BY DEF ClaimsOK
    <2>1. issued \in Nat /\ issued' \in Nat /\ issued <= issued'
      BY <1>2, Counters DEF StoreOK
    <2>2. Claimed(id, i) => id \in 1..issued
      BY DEF ClaimsOK
    <2>3. Claimed(id, j) => id \in 1..issued
      BY DEF ClaimsOK
    <2>4. Claimed(id, i) /\ Claimed(id, j) => i = j
      BY DEF ClaimsOK
    <2>5. Claimed(id, i)' /\ ~Claimed(id, i) =>
            issued' = issued + 1 /\ id = issued + 1 /\ StoreClaims(id, i)'
      BY <1>2, NewClaim
    <2>6. Claimed(id, j)' /\ ~Claimed(id, j) =>
            issued' = issued + 1 /\ id = issued + 1 /\ StoreClaims(id, j)'
      BY <1>2, NewClaim
    <2>7. StoreClaims(id, i)' /\ StoreClaims(id, j)' => i = j
      BY <1>2, StoreStays DEF StoreClaims, StoreOK
    <2> QED
      BY <2>1, <2>2, <2>3, <2>4, <2>5, <2>6, <2>7
  <1> QED
    BY <1>1, <1>2

-----------------------------------------------------------------------------
\* Presence.

LEMMA TicketsStay ==
  ASSUME ServerInv, Next, tickets' = tickets, NEW t \in tickets
  PROVE  Latest(t)' = Latest(t)
  BY DEF Latest

LEMMA OverwrittenGrows ==
  ASSUME ServerInv, Next
  PROVE  /\ overwritten \subseteq overwritten' /\ overwritten' \subseteq Id
         /\ (\A w \in copies : ~WriteBack(w)) => overwritten' = overwritten
  <1>1. ASSUME NEW w \in copies, WriteBack(w)
        PROVE  overwritten \subseteq overwritten' /\ overwritten' \subseteq Id
    <2>1. w.rec.id \in Id /\ overwritten \subseteq Id
      BY DEF ServerInv, CopiesOK, Copy, Member
    <2> QED
      BY <1>1, <2>1, WriteBackEffect
  <1>2. ASSUME \A w \in copies : ~WriteBack(w)
        PROVE  overwritten' = overwritten
    BY <1>2 DEF Next, HandleWS, AttachWS, ReadList, SendList, LeaveWS, KickOwn, ByeWS, HangupWS,
         LockSection, HookWS, HandleRevoke, HandleRotate, PruneSession, PruneMember, HandleLeave,
         HandleJoin, HandleApprove, HandleReject, HandleDeleteSession,
         Touch, Offer, UpdateCandidates,
         Joined, Left, Goodbye, Admit, Welcome, Exclude, Kick, CloseRoom
  <1> QED
    BY <1>1, <1>2 DEF ServerInv, CopiesOK

\* What an update writes, compared with what was read.
LEMMA WrittenFields ==
  ASSUME ServerInv, NEW w \in copies
  PROVE  /\ Written(w).id = w.rec.id
         /\ \/ w.op = "refresh" /\ Written(w) = w.rec
            \/ /\ w.op = "approve"
               /\ Written(w).conn = w.rec.conn /\ w.rec.status = "pending"
            \/ /\ w.op = "reject"
               /\ Written(w).conn = NoConn /\ Written(w).status = "denied"
  <1>1. /\ w.rec \in Member /\ w.op \in {"refresh", "approve", "reject"}
        /\ w.op = "approve" => w.rec.status = "pending"
    BY DEF ServerInv, CopiesOK, Copy
  <1>2. /\ Approved(w.rec).id = w.rec.id /\ Approved(w.rec).conn = w.rec.conn
        /\ Denied(w.rec).id = w.rec.id /\ Denied(w.rec).conn = NoConn
        /\ Denied(w.rec).status = "denied"
    BY <1>1 DEF Approved, Denied, Member
  <1> QED
    BY <1>1, <1>2 DEF Written

LEMMA PresenceStays ==
  ASSUME ServerInv, [Next]_vars
  PROVE  PresenceOK'
  <1> USE DEF ServerInv
  <1>1. CASE UNCHANGED vars
    BY <1>1 DEF vars, hubVars, storeVars, PresenceOK, Latest, Online
  <1>2. CASE Next
    <2>0. overwritten \subseteq overwritten'
      BY <1>2, OverwrittenGrows
    <2> DEFINE Stands(m) == m.id \notin overwritten' => \E t \in tickets' :
                 /\ t.id = m.id /\ \A u \in tickets' : u.id = t.id => u.conn <= t.conn
                 /\ Online(m) => m.conn = t.conn
                 /\ ~Online(m) /\ m.status # "denied" => t.conn \in reported'
    <2>1. SUFFICES \A m \in members' : Stands(m)
      BY DEF PresenceOK, Latest, Online
    <2>2. ASSUME tickets' = tickets, NEW m \in members
          PROVE  Stands(m)
      BY <1>2, <2>0, <2>2, Counters DEF PresenceOK, Latest
    <2>3. ASSUME NEW n \in Nodes, HandleJoin(n)
          PROVE  \A m \in members' : Stands(m)
      <3>1. PICK x \in Member :
              /\ members' = (members \ MembersOfNode(n)) \cup {x}
              /\ x.conn = drawn + 1 /\ x.node = n
              /\ \/ issued' = issued /\ \E o \in MembersOfNode(n) : SameOwner(o, x)
                 \/ issued' = issued + 1 /\ x.id = issued + 1 /\ MembersOfNode(n) = {}
              /\ tickets' = tickets \cup {[id |-> x.id, conn |-> drawn + 1]}
        BY <2>3, JoinLeaves
      <3>2. \A t \in tickets : t.conn \in Nat /\ t.conn <= drawn /\ drawn \in Nat
        BY DEF BooksOK, Id
      <3>3. Stands(x)
        <4> DEFINE t == [id |-> x.id, conn |-> drawn + 1]
        <4>1. t \in tickets' /\ t.id = x.id /\ t.conn = drawn + 1
          BY <3>1
        <4>2. \A u \in tickets' : u.conn <= drawn + 1
          BY <3>1, <3>2 DEF BooksOK
        <4>3. Online(x)
          BY <3>1 DEF Online, NoConn, BooksOK
        <4> HIDE DEF t
        <4> QED
          BY <3>1, <4>1, <4>2, <4>3
      <3>4. ASSUME NEW m \in members \ MembersOfNode(n)
            PROVE  Stands(m)
        <4>1. m.id # x.id
          BY <3>1 DEF StoreOK, SameOwner, MembersOfNode, Member, Id
        <4>2. SUFFICES ASSUME m.id \notin overwritten
                       PROVE  Stands(m)
          BY <2>0
        <4>3. PICK t \in tickets :
                /\ t.id = m.id /\ Latest(t)
                /\ Online(m) => m.conn = t.conn
                /\ ~Online(m) /\ m.status # "denied" => t.conn \in reported
          BY <4>2 DEF PresenceOK
        <4>4. reported' = reported
          BY <2>3 DEF HandleJoin
        <4> QED
          BY <3>1, <4>1, <4>3, <4>4 DEF Latest
      <3> QED
        BY <3>1, <3>3, <3>4
    <2>4. ASSUME tickets' = tickets, Loses
          PROVE  \A m \in members' : Stands(m)
      BY <2>2, <2>4, LossKeepsStore DEF Loses
    <2>5. ASSUME tickets' = tickets, NEW o \in members, NEW x, Replaces(o, x), Stands(x)
          PROVE  \A m \in members' : Stands(m)
      BY <2>2, <2>5 DEF Replaces
    \* The record read is still the one stored: what is written says no more.
    <2>6. ASSUME tickets' = tickets, NEW w \in copies, w.rec \in members
          PROVE  Stands(Written(w))
      <3>1. SUFFICES ASSUME w.rec.id \notin overwritten
                     PROVE  Stands(Written(w))
        <4>1. Written(w).id = w.rec.id
          BY WrittenFields
        <4> QED
          BY <2>0, <3>1, <4>1
      <3>2. PICK t \in tickets :
                /\ t.id = w.rec.id /\ Latest(t)
                /\ Online(w.rec) => w.rec.conn = t.conn
                /\ ~Online(w.rec) /\ w.rec.status # "denied" => t.conn \in reported
        BY <2>6, <3>1 DEF PresenceOK
      <3>3. /\ Written(w).id = w.rec.id
            /\ \/ Written(w) = w.rec
               \/ Written(w).conn = w.rec.conn /\ w.rec.status # "denied"
               \/ Written(w).conn = NoConn /\ Written(w).status = "denied"
        BY WrittenFields
      <3>4. reported \subseteq reported'
        BY <1>2, Counters
      <3> QED
        BY <2>6, <3>2, <3>3, <3>4 DEF Latest, Online
    <2>7. ASSUME tickets' = tickets, NEW w \in copies, w.rec.id \in overwritten'
          PROVE  Stands(Written(w))
      BY <2>7, WrittenFields
    <2>8. ASSUME tickets' = tickets, NEW o \in members, NEW h \in Handlers, HookWS(h),
                 o.conn = client[h].conn
          PROVE  Stands(Departed(o, now))
      <3>2. Departed(o, now).id = o.id /\ Departed(o, now).conn = NoConn
        BY DEF Departed, StoreOK, Member
      <3>0. SUFFICES ASSUME o.id \notin overwritten
                     PROVE  Stands(Departed(o, now))
        BY <2>0, <3>2
      <3>1. PICK t \in tickets :
                /\ t.id = o.id /\ Latest(t)
                /\ Online(o) => o.conn = t.conn
        BY <3>0 DEF PresenceOK
      <3>3. conns[h] \in Conn
        BY <2>8, AtWork DEF HookWS, Hook, HubInv
      <3>4. client[h].conn \in Id
        BY <3>3 DEF BooksOK
      <3>5. Online(o)
        BY <2>8, <3>4 DEF Online, NoConn, Id
      <3>6. t.conn \in reported'
        BY <2>8, <3>1, <3>5 DEF HookWS
      <3> QED
        BY <2>8, <3>1, <3>2, <3>6 DEF Latest, Online
    <2>9. ASSUME \A n \in Nodes : ~HandleJoin(n)
          PROVE  \A m \in members' : Stands(m)
      <3>1. tickets' = tickets
        BY <1>2, <2>9, Counters
      <3>2. UNCHANGED storeVars => \A m \in members' : Stands(m)
        BY <2>2, <3>1 DEF storeVars
      <3> HIDE DEF Stands
      <3> QED
        BY <1>2, <2>4, <2>5, <2>6, <2>7, <2>8, <2>9, <3>1, <3>2, StepsOfStore
    <2> QED
      BY <2>3, <2>9
  <1> QED
    BY <1>1, <1>2

-----------------------------------------------------------------------------
\* Those gone.

\* A record is of a member that was in the session, or just drawn.
LEMMA NewMember ==
  ASSUME ServerInv, Next, NEW m \in members'
  PROVE  \/ m.id = issued + 1
         \/ \E o \in members : o.id = m.id /\ SameOwner(o, m)
  <1> USE DEF ServerInv
  <1>0. \A o \in members : o.id = o.id /\ SameOwner(o, o)
    BY DEF SameOwner
  <1>1. ASSUME NEW n \in Nodes, HandleJoin(n)
        PROVE  m.id = issued + 1 \/ \E o \in members : o.id = m.id /\ SameOwner(o, m)
    BY <1>1, JoinLeaves DEF SameOwner, MembersOfNode
  <1>2. CASE Loses
    BY <1>0, <1>2, LossKeepsStore DEF Loses
  <1>3. ASSUME NEW o \in members, NEW x, Replaces(o, x)
        PROVE  \E p \in members : p.id = m.id /\ SameOwner(p, m)
    BY <1>0, <1>3 DEF Replaces, SameOwner
  <1>4. CASE UNCHANGED storeVars
    BY <1>0, <1>4 DEF storeVars
  <1> QED
    BY <1>1, <1>2, <1>3, <1>4, StepsOfStore

\* A step of a handler concerns its own client; the others may at most be told
\* something.
LEMMA OwnClient ==
  ASSUME ServerInv, NEW g \in Handlers, NEW h \in Handlers, g # h,
         \/ AttachWS(g) \/ ReadList(g) \/ SendList(g) \/ LeaveWS(g)
         \/ KickOwn(g) \/ HangupWS(g) \/ LockSection(g) \/ HookWS(g) \/ Copies(g)
         \/ \E t \in tickets, kind \in Kinds : HandleWS(g, t, kind)
  PROVE  client'[h] = client[h]
  BY DEF ServerInv, BooksOK, AttachWS, ReadList, SendList, LeaveWS, KickOwn, HangupWS,
         LockSection, HookWS, HandleWS, Copies, Touch, Offer, UpdateCandidates, Refresh

\* A copy written back ends at most what its own read loop was doing.
LEMMA WriterClient ==
  ASSUME ServerInv, NEW w \in copies, WriteBack(w), NEW h \in Handlers
  PROVE  IF h = w.by
         THEN client[h].due = "write" /\ client'[h] = [client[h] EXCEPT !.due = "nothing"]
         ELSE client'[h] = client[h]
  BY NilIsNobody DEF ServerInv, BooksOK, CopiesOK, Copy, WriteBack

LEMMA DuesMove ==
  ASSUME ServerInv, Next, NEW h \in Handlers, client'[h].due \in {"leave", "bye"}
  PROVE  \/ LeaveWS(h)
         \/ client[h].due \in {"leave", "bye"} /\ conns'[h] \in Conn
  <1> USE DEF ServerInv
  <1>0. /\ client \in [Handlers -> Client] /\ client[h] \in Client
        /\ client[h].due \in {"leave", "bye"} => conns[h] \in Conn
        /\ conns \in [Handlers -> Conn \cup [pc : {"unused", "ended"}]]
    BY DEF BooksOK, GoneOK, HubInv, HubTypeOK
  <1>1. Nobody.due = "nothing"
    BY DEF Nobody
  <1>2. ASSUME NEW g \in Handlers, NEW t \in tickets, NEW kind \in Kinds, HandleWS(g, t, kind)
        PROVE  client[h].due \in {"leave", "bye"} /\ conns'[h] \in Conn
    <2>1. g # h
      BY <1>0, <1>2 DEF HandleWS, Nobody
    <2> QED
      BY <1>0, <1>2, <2>1, OwnClient DEF HandleWS, Open
  <1>3. ASSUME NEW g \in Handlers, AttachWS(g)
        PROVE  client[h].due \in {"leave", "bye"} /\ conns'[h] \in Conn
    <2>1. g # h
      <3>1. g = h => client'[h].due \in {"list", "nothing"}
        BY <1>0, <1>3 DEF AttachWS, Client
      <3> QED
        BY <3>1
    <2> QED
      BY <1>0, <1>3, <2>1, OwnClient, HandlerKeepsConn DEF AttachWS, HandlerStep
  <1>4. ASSUME NEW g \in Handlers,
               ReadList(g) \/ SendList(g) \/ LeaveWS(g) \/ KickOwn(g) \/ Copies(g)
        PROVE  LeaveWS(h) \/ (client[h].due \in {"leave", "bye"} /\ conns'[h] \in Conn)
    <2>1. conns' = conns
      BY <1>4 DEF ReadList, SendList, LeaveWS, KickOwn, hubVars, CloseMember,
         Copies, Touch, Offer, UpdateCandidates
    <2>2. CASE g # h
      BY <1>0, <1>4, <2>1, <2>2, OwnClient
    <2>3. CASE g = h /\ (ReadList(g) \/ SendList(g))
      <3>1. ReadList(h) => client'[h].due \in {"send", "nothing"}
        BY <1>0 DEF ReadList, Client
      <3>2. SendList(h) => client'[h].due = "nothing"
        BY <1>0 DEF SendList, Client
      <3> QED
        BY <2>3, <3>1, <3>2
    <2>4. CASE g = h /\ KickOwn(g)
      BY <1>0, <2>1, <2>4 DEF KickOwn
    <2>5. CASE g = h /\ Copies(g)
      <3>1. client'[h].due \in {"offer", "write", "nothing"}
        BY <1>0, <2>5 DEF Copies, Touch, Offer, UpdateCandidates, Refresh, Client
      <3> QED
        BY <3>1
    <2> QED
      BY <1>4, <2>2, <2>3, <2>4, <2>5
  <1>5. ASSUME NEW g \in Handlers, ByeWS(g) \/ HangupWS(g)
        PROVE  client[h].due \in {"leave", "bye"} /\ conns'[h] \in Conn
    <2>1. client'[h].due = client[h].due
      BY <1>0, <1>5, HearEffect DEF ByeWS, HangupWS, Forgo
    <2>2. Hangup(g)
      BY <1>5 DEF ByeWS, HangupWS
    <2>3. conns[g] \in Conn
      BY <2>2, AtWork DEF Hangup, HubInv
    <2>4. conns'[g] \in Conn
      BY <1>0, <2>2, <2>3, ConnsTyped DEF Hangup, Goto, Places, HubInv
    <2>5. h # g => conns'[h] = conns[h]
      BY <2>2, HandlerKeepsConn DEF HandlerStep
    <2> QED
      BY <1>0, <2>1, <2>4, <2>5
  <1>6. ASSUME NEW g \in Handlers, LockSection(g) \/ HookWS(g)
        PROVE  client[h].due \in {"leave", "bye"} /\ conns'[h] \in Conn
    <2>1. HandlerStep(g)
      BY <1>6 DEF LockSection, HookWS, HandlerStep
    <2>2. CASE g # h
      BY <1>0, <1>6, <2>1, <2>2, OwnClient, HandlerKeepsConn
    <2>3. CASE g = h
      <3>1. HookWS(h) => client'[h] = Nobody
        BY <1>0 DEF HookWS
      <3>2. LockSection(h) => client'[h] = (IF conns'[h] = Ended THEN Nobody ELSE client[h])
        BY <1>0 DEF LockSection
      <3> QED
        BY <1>0, <1>1, <1>6, <2>1, <2>3, <3>1, <3>2, HandlerKeepsConn
    <2> QED
      BY <2>2, <2>3
  <1>7. ASSUME NEW t \in todo, Joined(t) \/ Goodbye(t) \/ Welcome(t)
        PROVE  client[h].due \in {"leave", "bye"} /\ conns'[h] \in Conn
    <2>1. {t.id} \in SUBSET Id /\ {t.id} \cup t.all \in SUBSET Id /\ {} \in SUBSET Id
      BY <1>7, TodoKnown DEF Joined, Goodbye, Welcome
    <2>2. client'[h].due = client[h].due
      BY <1>0, <1>7, <2>1, HearEffect DEF Joined, Goodbye, Welcome, Meet, Forgo
    <2> QED
      BY <1>0, <1>7, <2>2 DEF Joined, Goodbye, Welcome, hubVars
  <1>8. ASSUME \/ \E n \in Nodes : HandleJoin(n)
               \/ \E m \in members : HandleLeave(m) \/ PruneMember(m)
               \/ \E o, m \in members : HandleApprove(o, m) \/ HandleReject(o, m)
               \/ HandleDeleteSession \/ HandleRevoke \/ HandleRotate \/ PruneSession
               \/ \E t \in todo : Left(t) \/ Admit(t) \/ Exclude(t) \/ Kick(t) \/ CloseRoom(t)
        PROVE  client[h].due \in {"leave", "bye"} /\ conns'[h] \in Conn
    <2>1. client' = client /\ conns' = conns
      BY <1>8 DEF HandleJoin, HandleLeave, PruneMember, HandleApprove, HandleReject,
         HandleDeleteSession, HandleRevoke, HandleRotate, PruneSession, Left, Admit, Exclude,
         Kick, CloseRoom, hubVars, CloseMember, CloseAll, MakeApproved, SetApproved
    <2> QED
      BY <1>0, <2>1
  <1>9. ASSUME NEW w \in copies, WriteBack(w)
        PROVE  client[h].due \in {"leave", "bye"} /\ conns'[h] \in Conn
    <2>1. conns' = conns
      BY <1>9 DEF WriteBack, hubVars
    <2>2. client'[h].due = client[h].due
      BY <1>0, <1>9, WriterClient DEF Client
    <2> QED
      BY <1>0, <2>1, <2>2
  <1> QED
    BY <1>2, <1>3, <1>4, <1>5, <1>6, <1>7, <1>8, <1>9 DEF Next, Copies

LEMMA GoneStay ==
  ASSUME ServerInv, [Next]_vars
  PROVE  GoneOK'
  <1> USE DEF ServerInv
  <1>1. CASE UNCHANGED vars
    BY <1>1 DEF vars, hubVars, storeVars, GoneOK
  <1>2. CASE Next
    <2>0. issued \in Nat
      BY DEF StoreOK
    <2>1. ASSUME NEW t \in todo', t.step \in {"left", "goodbye"}, NEW m \in members'
          PROVE  m.id # t.id
      <3>1. CASE t \in todo
        <4>1. t.id <= issued
          BY <2>1, <3>1 DEF BooksOK
        <4>2. \A o \in members : o.id # t.id
          BY <2>1, <3>1 DEF GoneOK
        <4> QED
          BY <1>2, <2>0, <4>1, <4>2, NewMember
      <3>2. CASE t \notin todo
        <4>1. ASSUME NEW o \in members, t.id = o.id, HandleLeave(o)
              PROVE  m.id # t.id
          BY <4>1 DEF HandleLeave, RemoveMember
        <4>2. ASSUME NEW u \in todo, t.id = u.id, Left(u)
              PROVE  m.id # t.id
          BY <4>2 DEF Left, storeVars, GoneOK
        <4> QED
          BY <1>2, <2>1, <3>2, <4>1, <4>2, NewTodo
      <3> QED
        BY <3>1, <3>2
    <2>2. ASSUME NEW h \in Handlers, client'[h].due \in {"leave", "bye"}
          PROVE  conns'[h] \in Conn /\ \A m \in members' : m.id # conns'[h].id
      <3>1. CASE LeaveWS(h)
        <4>1. conns' = conns /\ conns[h] \in Conn
          BY <3>1, AtWork DEF LeaveWS, hubVars, Reads, HubInv
        <4>2. \A m \in members' : m.id # conns[h].id
          BY <3>1 DEF LeaveWS, RemoveMember, storeVars
        <4> QED
          BY <4>1, <4>2
      <3>2. CASE client[h].due \in {"leave", "bye"} /\ conns'[h] \in Conn
        <4>1. conns[h] \in Conn /\ \A m \in members : m.id # conns[h].id
          BY <3>2 DEF GoneOK
        <4>2. conns'[h].id = conns[h].id
          <5>1. ASSUME NEW t \in tickets, NEW kind \in Kinds, HandleWS(h, t, kind)
                PROVE  FALSE
            BY <4>1, <5>1 DEF HandleWS, Open, Unused, Conn, Places
          <5> QED
            BY <1>2, <3>2, <5>1, ConnsMove
        <4>3. conns[h].id <= issued /\ conns[h].id \in Nat
          BY <4>1 DEF BooksOK
        <4> QED
          BY <1>2, <2>0, <3>2, <4>1, <4>2, <4>3, NewMember
      <3> QED
        BY <1>2, <2>2, <3>1, <3>2, DuesMove
    <2> QED
      BY <2>1, <2>2 DEF GoneOK
  <1> QED
    BY <1>1, <1>2

-----------------------------------------------------------------------------
\* Copies.

\* What a step adds to the copies is the record of a member.
LEMMA NewCopy ==
  ASSUME ServerInv, Next, NEW w \in copies', w \notin copies
  PROVE  /\ w \in Copy /\ w.rec \in members /\ UNCHANGED storeVars /\ UNCHANGED hubVars
         /\ w.op = "approve" => w.rec.status = "pending"
         /\ \/ w.by = None /\ client' = client
            \/ /\ w.by \in Handlers
               /\ Touch(w.by) \/ UpdateCandidates(w.by)
               /\ client' = [client EXCEPT ![w.by].due = "write"]
               /\ copies' = copies \cup {w}
  <1> USE DEF ServerInv
  <1>0. \A op \in {"refresh", "approve", "reject"}, by \in Handlers \cup {None}, m \in members :
           [op |-> op, by |-> by, rec |-> m] \in Copy
    BY DEF Copy, StoreOK
  <1>1. ASSUME NEW h \in Handlers, Touch(h) \/ UpdateCandidates(h)
        PROVE  /\ w \in Copy /\ w.rec \in members /\ w.op # "approve"
               /\ UNCHANGED storeVars /\ UNCHANGED hubVars
               /\ w.by = h /\ client' = [client EXCEPT ![h].due = "write"]
               /\ copies' = copies \cup {w}
    <2>1. PICK m \in members : Refresh(h, m)
      BY <1>1 DEF Touch, UpdateCandidates
    <2>2. /\ copies' = copies \cup {[op |-> "refresh", by |-> h, rec |-> m]}
          /\ client' = [client EXCEPT ![h].due = "write"]
      BY <2>1 DEF Refresh
    <2>3. w = [op |-> "refresh", by |-> h, rec |-> m]
      BY <2>2
    <2>4. w \in Copy /\ w.rec \in members /\ w.op = "refresh" /\ w.by = h
      BY <1>0, <2>3
    <2>5. UNCHANGED storeVars /\ UNCHANGED hubVars
      BY <1>1 DEF Touch, UpdateCandidates
    <2> QED
      BY <2>2, <2>3, <2>4, <2>5
  <1>2. ASSUME NEW o \in members, NEW m \in members, HandleApprove(o, m)
        PROVE  /\ w \in Copy /\ w.rec \in members /\ w.rec.status = "pending" /\ w.by = None
               /\ UNCHANGED storeVars /\ UNCHANGED hubVars /\ client' = client
    <2>1. w = [op |-> "approve", by |-> None, rec |-> m]
      BY <1>2 DEF HandleApprove
    <2>2. w \in Copy /\ w.rec = m /\ w.by = None
      BY <1>0, <2>1
    <2> QED
      BY <1>2, <2>2 DEF HandleApprove
  <1>3. ASSUME NEW o \in members, NEW m \in members, HandleReject(o, m)
        PROVE  /\ w \in Copy /\ w.rec \in members /\ w.op # "approve" /\ w.by = None
               /\ UNCHANGED storeVars /\ UNCHANGED hubVars /\ client' = client
    <2>1. w = [op |-> "reject", by |-> None, rec |-> m]
      BY <1>3 DEF HandleReject
    <2>2. w \in Copy /\ w.rec = m /\ w.by = None /\ w.op = "reject"
      BY <1>0, <2>1
    <2> QED
      BY <1>3, <2>2 DEF HandleReject
  <1>4. ASSUME NEW v \in copies, WriteBack(v)
        PROVE  FALSE
    BY <1>4 DEF WriteBack
  <1>5. ASSUME \A h \in Handlers : ~Touch(h) /\ ~UpdateCandidates(h),
               \A o, m \in members : ~HandleApprove(o, m) /\ ~HandleReject(o, m),
               \A v \in copies : ~WriteBack(v)
        PROVE  FALSE
    BY <1>5 DEF Next, HandleWS, AttachWS, ReadList, SendList, Offer, LeaveWS, KickOwn, ByeWS,
         HangupWS, LockSection, HookWS, HandleRevoke, HandleRotate, PruneSession, PruneMember,
         HandleLeave, HandleJoin, HandleDeleteSession,
         Joined, Left, Goodbye, Admit, Welcome, Exclude, Kick, CloseRoom
  <1> QED
    BY <1>1, <1>2, <1>3, <1>4, <1>5

\* A read loop that has a record to write back does nothing else.
LEMMA WritersMove ==
  ASSUME ServerInv, Next, NEW h \in Handlers
  PROVE  /\ client'[h].due \in {"offer", "write"} => conns'[h] \in Conn /\ conns'[h].pc = "serve"
         /\ client[h].due = "write" /\ client'[h].due # "write" =>
              \E w \in copies : w.by = h /\ WriteBack(w)
  <1> USE DEF ServerInv
  <1> DEFINE Busy == {"offer", "write"}
  <1>0. /\ client \in [Handlers -> Client] /\ client[h] \in Client
        /\ client[h].due \in Busy => conns[h] \in Conn /\ conns[h].pc = "serve"
        /\ conns \in [Handlers -> Conn \cup [pc : {"unused", "ended"}]]
    BY DEF BooksOK, CopiesOK, HubInv, HubTypeOK
  <1> DEFINE Goal == \/ client'[h].due = client[h].due /\ conns'[h] = conns[h]
                     \/ client[h].due \notin Busy /\ client'[h].due \notin Busy
                     \/ client[h].due # "write" /\ conns'[h] \in Conn /\ conns'[h].pc = "serve"
                     \/ /\ client'[h].due = "nothing"
                        /\ \E w \in copies : w.by = h /\ WriteBack(w)
  <1>1. SUFFICES Goal
    BY <1>0
  <1>2. ASSUME NEW g \in Handlers, NEW t \in tickets, NEW kind \in Kinds, HandleWS(g, t, kind)
        PROVE  Goal
    <2>1. CASE g # h
      BY <1>0, <1>2, <2>1, OwnClient DEF HandleWS, Open
    <2>2. CASE g = h
      BY <1>0, <1>2, <2>2 DEF HandleWS, Open, Unused, Conn, Places, Nobody
    <2> QED
      BY <2>1, <2>2
  <1>3. ASSUME NEW g \in Handlers,
               AttachWS(g) \/ HangupWS(g) \/ LockSection(g) \/ HookWS(g)
        PROVE  Goal
    <2>1. HandlerStep(g)
      BY <1>3 DEF AttachWS, HangupWS, LockSection, HookWS, HandlerStep
    <2>2. CASE g # h
      BY <1>0, <1>3, <2>1, <2>2, OwnClient, HandlerKeepsConn
    <2>3. CASE g = h
      <3>1. client[h].due \notin Busy
        <4>1. HangupWS(h) => client[h].due = "nothing"
          BY DEF HangupWS
        <4>2. AttachWS(h) \/ LockSection(h) \/ HookWS(h) => conns[h].pc # "serve"
          BY DEF AttachWS, LockSection, HookWS, Fetch, Attach, Replace, FindRoom, Vacate, Recheck,
             Drop, Hook
        <4> QED
          BY <1>0, <1>3, <2>3, <4>1, <4>2
      <3>2. client'[h].due \in {client[h].due, "nothing", "list"}
        BY <1>0, <1>3, <2>3 DEF AttachWS, HangupWS, LockSection, HookWS, Nobody, Client
      <3> QED
        BY <3>1, <3>2
    <2> QED
      BY <2>2, <2>3
  <1>4. ASSUME NEW g \in Handlers, ReadList(g) \/ SendList(g) \/ LeaveWS(g) \/ KickOwn(g)
        PROVE  Goal
    <2>1. conns' = conns
      BY <1>4 DEF ReadList, SendList, LeaveWS, KickOwn, hubVars, CloseMember
    <2>2. CASE g # h
      BY <1>4, <2>1, <2>2, OwnClient
    <2>3. CASE g = h
      <3>1. client[h].due \notin Busy
        BY <1>4, <2>3 DEF ReadList, SendList, LeaveWS, KickOwn
      <3>2. ReadList(h) => client'[h].due \in {"send", "nothing"}
        BY <1>0 DEF ReadList, Client
      <3>3. SendList(h) => client'[h].due = "nothing"
        BY <1>0 DEF SendList, Client
      <3>4. LeaveWS(h) \/ KickOwn(h) => client'[h].due \in {"leave", "bye"}
        BY <1>0 DEF LeaveWS, KickOwn, Client
      <3> QED
        BY <1>4, <2>3, <3>1, <3>2, <3>3, <3>4
    <2> QED
      BY <2>2, <2>3
  <1>5. ASSUME NEW g \in Handlers, Copies(g)
        PROVE  Goal
    <2>1. conns' = conns
      BY <1>5 DEF Copies, Touch, Offer, UpdateCandidates, hubVars
    <2>2. CASE g # h
      BY <1>5, <2>1, <2>2, OwnClient
    <2>3. CASE g = h
      <3>1. client[h].due # "write"
        BY <1>5, <2>3 DEF Copies, Touch, Offer, UpdateCandidates
      <3>2. conns[h].pc = "serve"
        BY <1>0, <1>5, <2>3 DEF Copies, Touch, Offer, UpdateCandidates, Reads
      <3>3. conns[h] \in Conn
        BY <3>2, AtWork DEF HubInv
      <3> QED
        BY <2>1, <3>1, <3>2, <3>3
    <2> QED
      BY <2>2, <2>3
  <1>6. ASSUME NEW g \in Handlers, ByeWS(g)
        PROVE  Goal
    <2>1. client'[h].due = client[h].due /\ client[g].due = "bye"
      BY <1>0, <1>6, HearEffect DEF ByeWS, Forgo
    <2>2. g # h => conns'[h] = conns[h]
      BY <1>6, HandlerKeepsConn DEF ByeWS, HandlerStep
    <2> QED
      BY <2>1, <2>2
  <1>7. ASSUME NEW t \in todo, Joined(t) \/ Goodbye(t) \/ Welcome(t)
        PROVE  Goal
    <2>1. {t.id} \in SUBSET Id /\ {t.id} \cup t.all \in SUBSET Id /\ {} \in SUBSET Id
      BY <1>7, TodoKnown DEF Joined, Goodbye, Welcome
    <2>2. client'[h].due = client[h].due
      BY <1>0, <1>7, <2>1, HearEffect DEF Joined, Goodbye, Welcome, Meet, Forgo
    <2> QED
      BY <1>7, <2>2 DEF Joined, Goodbye, Welcome, hubVars
  <1>8. ASSUME \/ \E n \in Nodes : HandleJoin(n)
               \/ \E m \in members : HandleLeave(m) \/ PruneMember(m)
               \/ \E o, m \in members : HandleApprove(o, m) \/ HandleReject(o, m)
               \/ HandleDeleteSession \/ HandleRevoke \/ HandleRotate \/ PruneSession
               \/ \E t \in todo : Left(t) \/ Admit(t) \/ Exclude(t) \/ Kick(t) \/ CloseRoom(t)
        PROVE  Goal
    <2>1. client' = client /\ conns' = conns
      BY <1>8 DEF HandleJoin, HandleLeave, PruneMember, HandleApprove, HandleReject,
         HandleDeleteSession, HandleRevoke, HandleRotate, PruneSession, Left, Admit, Exclude,
         Kick, CloseRoom, hubVars, CloseMember, CloseAll, MakeApproved, SetApproved
    <2> QED
      BY <2>1
  <1>9. ASSUME NEW w \in copies, WriteBack(w)
        PROVE  Goal
    <2>1. conns' = conns
      BY <1>9 DEF WriteBack, hubVars
    <2> QED
      BY <1>0, <1>9, <2>1, WriterClient DEF Client
  <1> QED
    BY <1>2, <1>3, <1>4, <1>5, <1>6, <1>7, <1>8, <1>9 DEF Next, Copies

LEMMA CopiesStay ==
  ASSUME ServerInv, [Next]_vars
  PROVE  CopiesOK'
  <1> USE DEF ServerInv
  <1>1. CASE UNCHANGED vars
    BY <1>1 DEF vars, hubVars, storeVars, CopiesOK
  <1>2. CASE Next
    <2>1. issued \in Nat /\ issued' \in Nat /\ issued <= issued'
      BY <1>2, Counters DEF StoreOK
    <2>2. overwritten' \subseteq Id
      BY <1>2, OverwrittenGrows
    <2>3. ASSUME NEW h \in Handlers, client'[h].due \in {"offer", "write"}
          PROVE  conns'[h] \in Conn /\ conns'[h].pc = "serve"
      BY <1>2, <2>3, WritersMove
    \* The copies that were there.
    <2>4. ASSUME NEW w \in copies, w \in copies'
          PROVE  /\ w \in Copy /\ w.rec.id <= issued'
                 /\ w.op = "approve" => w.rec.status = "pending"
                 /\ \A m \in members' : m.id = w.rec.id => SameOwner(m, w.rec)
                 /\ w.by # None => client'[w.by].due = "write"
      <3>1. w \in Copy /\ w.rec.id \in Nat /\ w.rec.id <= issued
            /\ (w.op = "approve" => w.rec.status = "pending")
        BY DEF CopiesOK, Copy, Member, Id
      <3>2. ASSUME NEW m \in members', m.id = w.rec.id
            PROVE  SameOwner(m, w.rec)
        <4>1. PICK o \in members : o.id = m.id /\ SameOwner(o, m)
          BY <1>2, <2>1, <3>1, <3>2, NewMember
        <4> QED
          BY <3>2, <4>1 DEF CopiesOK, SameOwner
      <3>3. ASSUME w.by # None, client'[w.by].due # "write"
            PROVE  FALSE
        <4>1. w.by \in Handlers /\ client[w.by].due = "write"
          BY <3>1, <3>3 DEF CopiesOK, Copy
        <4>2. PICK v \in copies : v.by = w.by /\ WriteBack(v)
          BY <1>2, <3>3, <4>1, WritersMove
        <4>3. v = w
          BY <3>3, <4>2 DEF CopiesOK
        <4> QED
          BY <2>4, <4>2, <4>3 DEF WriteBack
      <3> QED
        BY <2>1, <3>1, <3>2, <3>3
    \* Those just made.
    <2>5. ASSUME NEW w \in copies', w \notin copies
          PROVE  /\ w \in Copy /\ w.rec.id <= issued'
                 /\ w.op = "approve" => w.rec.status = "pending"
                 /\ \A m \in members' : m.id = w.rec.id => SameOwner(m, w.rec)
                 /\ w.by # None => client'[w.by].due = "write"
      <3>1. /\ w \in Copy /\ w.rec \in members /\ UNCHANGED storeVars
            /\ w.op = "approve" => w.rec.status = "pending"
        BY <1>2, <2>5, NewCopy
      <3>2. w.rec.id <= issued' /\ \A m \in members' : m.id = w.rec.id => SameOwner(m, w.rec)
        BY <3>1 DEF storeVars, StoreOK, SameOwner
      <3>3. w.by # None => client'[w.by].due = "write"
        <4>1. w.by # None => w.by \in Handlers /\ client' = [client EXCEPT ![w.by].due = "write"]
          BY <1>2, <2>5, NewCopy
        <4>2. client \in [Handlers -> Client]
          BY DEF BooksOK
        <4> QED
          BY <4>1, <4>2 DEF Client
      <3> QED
        BY <3>1, <3>2, <3>3
    <2>6. ASSUME NEW w \in copies', NEW v \in copies', v.by = w.by, w.by # None
          PROVE  v = w
      <3>1. ASSUME NEW a \in copies', NEW b \in copies', a \notin copies, a.by = b.by, a.by # None
            PROVE  a = b
        <4>1. /\ Touch(a.by) \/ UpdateCandidates(a.by)
              /\ copies' = copies \cup {a}
          BY <1>2, <3>1, NewCopy
        <4>2. client[a.by].due # "write"
          BY <4>1 DEF Touch, UpdateCandidates
        <4>3. b \notin copies
          BY <3>1, <4>2 DEF CopiesOK
        <4> QED
          BY <3>1, <4>1, <4>3
      <3> QED
        BY <2>6, <3>1 DEF CopiesOK
    <2>7. \A w \in copies' :
            /\ w \in Copy /\ w.rec.id <= issued'
            /\ w.op = "approve" => w.rec.status = "pending"
            /\ \A m \in members' : m.id = w.rec.id => SameOwner(m, w.rec)
            /\ w.by # None => client'[w.by].due = "write"
      BY <2>4, <2>5
    <2> QED
      BY <2>2, <2>3, <2>6, <2>7 DEF CopiesOK
  <1> QED
    BY <1>1, <1>2

-----------------------------------------------------------------------------
\* Those informed.

LEMMA PresentTyped ==
  ASSUME HubTypeOK, NEW om \in Present
  PROVE  /\ room # None /\ room \in Handlers /\ om \in rooms[room].members
         /\ om \in OnlineMember /\ om.at["control"] \in Handlers \cup {None}
  <1>1. room # None /\ room \in Handlers /\ om \in rooms[room].members
    BY DEF Present, HubTypeOK
  <1>2. om \in OnlineMember
    BY <1>1 DEF HubTypeOK, Room
  <1> QED
    BY <1>1, <1>2 DEF OnlineMember, Kinds

\* A watching client is its member's.
LEMMA WatchersOwn ==
  ASSUME HubInv, NEW om \in Present, NEW h \in Handlers, om.at["control"] = h
  PROVE  /\ conns[h] \in Conn /\ conns[h].id = om.member
         /\ conns[h].kind = "control"
         /\ conns[h].pc \in {"replace", "serve", "detach", "vacate"}
  <1>1. room # None /\ om \in rooms[room].members
    BY PresentTyped DEF HubInv
  <1>2. Attends(h, om, "control")
    BY <1>1, NilIsNobody DEF HubInv, Attended, Kinds
  <1> QED
    BY <1>2, AtWork DEF Attends, HubInv

\* Whoever watches after a step watched before it, knew what it knows now but
\* for what is about to be announced, and was told what is no longer about to.
SameStage(d, e) ==
    d = e \/ {d, e} \subseteq {"nothing", "offer", "write"}

Inherits(x, h) ==
    \E om \in Present :
        /\ om.member = x.member /\ om.at["control"] = h
        /\ Watching(h) /\ ~Leaving(om.member)
        /\ om.approved => x.approved
        /\ SameStage(client[h].due, client'[h].due)
        /\ client'[h].list = client[h].list
        /\ \A a \in Sure' \ {x.member} :
             \/ a \in Announced'
             \/ /\ a \in Sure
                /\ a \in client[h].peers => a \in client'[h].peers
                /\ a \in Announced => a \in client'[h].peers

Fits(x, h) ==
    /\ x.approved
    /\ client'[h].due \in {"nothing", "offer", "write"} =>
         Sure' \ {x.member} \subseteq client'[h].peers \cup Announced'
    /\ client'[h].due = "send" =>
         Sure' \ {x.member} \subseteq client'[h].list \cup client'[h].peers \cup Announced'

LEMMA Inherited ==
  ASSUME Informed, NEW x, NEW h, Inherits(x, h)
  PROVE  Fits(x, h)
  <1>1. PICK om \in Present :
        /\ om.member = x.member /\ om.at["control"] = h
        /\ Watching(h) /\ ~Leaving(om.member)
        /\ om.approved => x.approved
        /\ SameStage(client[h].due, client'[h].due)
        /\ client'[h].list = client[h].list
        /\ \A a \in Sure' \ {x.member} :
             \/ a \in Announced'
             \/ /\ a \in Sure
                /\ a \in client[h].peers => a \in client'[h].peers
                /\ a \in Announced => a \in client'[h].peers
    BY DEF Inherits
  <1>2. /\ om.approved
        /\ client[h].due \in {"nothing", "offer", "write"} =>
             Sure \ {om.member} \subseteq client[h].peers \cup Announced
        /\ client[h].due = "send" =>
             Sure \ {om.member} \subseteq client[h].list \cup client[h].peers \cup Announced
    BY <1>1 DEF Informed
  <1> QED
    BY <1>1, <1>2 DEF Fits, SameStage

\* Steps that leave the clients alone, announce whom they admit and finish no
\* announcement.
LEMMA QuietSteps ==
  ASSUME ServerInv, NEW x \in Present, NEW h \in Handlers, x.at["control"] = h,
         Watching(h), ~Leaving(x.member),
         SameStage(client[h].due, client'[h].due), client'[h].list = client[h].list,
         client'[h].peers = client[h].peers, Announced \subseteq Announced',
         Sure' \subseteq Sure \cup Announced'
  PROVE  Inherits(x, h)
  BY DEF Inherits

\* The same record of the client is the same stage.
LEMMA SameClient ==
  ASSUME NEW h, client'[h] = client[h]
  PROVE  /\ SameStage(client[h].due, client'[h].due) /\ client'[h].list = client[h].list
         /\ client'[h].peers = client[h].peers
  BY DEF SameStage

\* A step of the store changes who is active only by admitting somebody who is
\* about to be announced.
LEMMA AdmittedAreAnnounced ==
  ASSUME ServerInv, Next
  PROVE  Sure' \subseteq Sure \cup Announced'
  <1> USE DEF ServerInv
  <1>0. overwritten \subseteq overwritten'
    BY OverwrittenGrows
  <1>1. ASSUME NEW n \in Nodes, HandleJoin(n)
        PROVE  ActiveIds' \subseteq ActiveIds \cup Announced'
    <2>1. PICK x \in Member, all \in SUBSET Id :
            /\ members' = (members \ MembersOfNode(n)) \cup {x}
            /\ todo' = todo \cup (IF x.status = "active" THEN {About("joined", x, all)} ELSE {})
      BY <1>1, JoinLeaves
    <2>2. ASSUME x.status = "active"
          PROVE  x.id \in Announced'
      <3>1. /\ About("joined", x, all) \in todo'
            /\ About("joined", x, all).step = "joined" /\ About("joined", x, all).id = x.id
        BY <2>1, <2>2, AboutTyped DEF Steps
      <3> QED
        BY <3>1 DEF Announced
    <2> QED
      BY <2>1, <2>2 DEF ActiveIds, ActiveMembers
  <1>2. ASSUME Loses
        PROVE  ActiveIds' \subseteq ActiveIds
    BY <1>2, LossKeepsStore DEF Loses, ActiveIds, ActiveMembers
  \* A copy of the record that is still stored: only an approval admits anybody.
  <1>3. ASSUME NEW w \in copies, WriteBack(w), w.rec \in members, Replaces(w.rec, Written(w))
        PROVE  ActiveIds' \subseteq ActiveIds \cup Announced'
    <2>1. Written(w).id = w.rec.id
      BY WrittenFields
    <2>2. ActiveIds' \subseteq ActiveIds \cup
             (IF Written(w).status = "active" THEN {w.rec.id} ELSE {})
      BY <1>3, <2>1 DEF Replaces, ActiveIds, ActiveMembers
    <2>3. CASE w.op = "refresh"
      <3>1. Written(w) = w.rec
        BY <2>3, WrittenFields
      <3>2. Written(w).status = "active" => w.rec.id \in ActiveIds
        BY <1>3, <3>1 DEF ActiveIds, ActiveMembers
      <3> QED
        BY <2>2, <3>2
    <2>4. CASE w.op = "approve"
      <3>1. w.rec \in Member /\ {} \in SUBSET Id
        BY DEF CopiesOK, Copy
      <3>2. todo' = todo \cup {About("approve", w.rec, {})} \/ UNCHANGED storeVars
        BY <1>3, <2>4, WriteBackEffect
      <3>3. /\ About("approve", w.rec, {}).step = "approve"
            /\ About("approve", w.rec, {}).id = w.rec.id
        BY <3>1, AboutTyped DEF Steps
      <3>4. CASE UNCHANGED storeVars
        BY <3>4 DEF storeVars, ActiveIds, ActiveMembers
      <3>5. CASE todo' = todo \cup {About("approve", w.rec, {})}
        <4>1. w.rec.id \in Announced'
          BY <3>3, <3>5 DEF Announced
        <4> QED
          BY <2>2, <4>1
      <3> QED
        BY <3>2, <3>4, <3>5
    <2>5. CASE w.op = "reject"
      <3>1. Written(w).status = "denied"
        BY <2>5, WrittenFields
      <3> QED
        BY <2>2, <3>1
    <2> QED
      BY <2>3, <2>4, <2>5 DEF CopiesOK, Copy
  <1>4. ASSUME NEW w \in copies, NEW m \in members, SameOwner(m, w.rec), Replaces(m, Written(w)),
               w.rec.id \in overwritten'
        PROVE  Sure' \subseteq Sure
    <2>1. Written(w).id = w.rec.id
      BY WrittenFields
    <2>2. ActiveIds' \subseteq ActiveIds \cup {w.rec.id}
      BY <1>4, <2>1 DEF Replaces, ActiveIds, ActiveMembers
    <2> QED
      BY <1>0, <1>4, <2>2 DEF Sure
  <1>6. ASSUME NEW m \in members, Replaces(m, Departed(m, now))
        PROVE  ActiveIds' \subseteq ActiveIds
    <2>1. Departed(m, now).status = m.status /\ Departed(m, now).id = m.id
      BY DEF Departed, StoreOK, Member
    <2> QED
      BY <1>6, <2>1 DEF Replaces, ActiveIds, ActiveMembers
  <1>7. ASSUME UNCHANGED storeVars
        PROVE  ActiveIds' = ActiveIds
    BY <1>7 DEF storeVars, ActiveIds, ActiveMembers
  <1>8. ActiveIds' \subseteq ActiveIds \cup Announced' => Sure' \subseteq Sure \cup Announced'
    BY <1>0 DEF Sure
  <1>9. ASSUME NEW w \in copies, NEW m \in members, WriteBack(w), SameOwner(m, w.rec),
               Replaces(m, Written(w)), m = w.rec \/ w.rec.id \in overwritten'
        PROVE  Sure' \subseteq Sure \cup Announced'
    <2>1. CASE m = w.rec
      <3>1. w.rec \in members /\ Replaces(w.rec, Written(w))
        BY <1>9, <2>1
      <3> QED
        BY <1>3, <1>8, <1>9, <3>1
    <2>2. CASE w.rec.id \in overwritten'
      BY <1>4, <1>9, <2>2
    <2> QED
      BY <1>9, <2>1, <2>2
  <1> QED
    BY <1>1, <1>2, <1>6, <1>7, <1>8, <1>9, StepsOfStore

\* Who is in the session's room after a handler's step was there before.
LEMMA HandlersRoom ==
  ASSUME ServerInv, NEW h \in Handlers, HandlerStep(h), NEW x \in Present',
         NEW g \in Handlers \ {h}, x.at["control"] = g
  PROVE  \E om \in Present :
           /\ om.member = x.member /\ om.at["control"] = g
           /\ om.approved => x.approved
  <1> USE DEF ServerInv, HubInv
  <1>0. x \in rooms'[room'].members /\ room' # None /\ room' \in Handlers
    <2>1. HubTypeOK'
      BY HandlerTyped
    <2> QED
      BY <2>1 DEF Present, HubTypeOK
  <1>1. CASE Fetch(h)
    <2>1. Fresh(h) /\ rooms' = rooms /\ room' = RoomFor(h)
      BY <1>1 DEF Fetch, Fresh
    <2>2. rooms[h].members = {}
      BY <2>1 DEF RoomsAreMade
    <2> QED
      BY <1>0, <2>1, <2>2 DEF RoomFor, Present
  <1>2. CASE Attach(h)
    <2> DEFINE c == conns[h]
               old == AttachOld(c.room, c)
               new == [member |-> c.id, index |-> c.index, approved |-> c.approved,
                       at |-> [old EXCEPT ![c.kind] = h]]
    <2>1. conns[h].room \in Handlers
      BY <1>2 DEF Attach, RoomsAreMade, Roomed
    <2>2. /\ c \in Conn
          /\ new.at[c.kind] = h
          /\ \A k \in Kinds \ {c.kind} : new.at[k] = old[k]
          /\ rooms'[c.room].members = (rooms[c.room].members \ InRoom(c.room, c.id)) \cup {new}
          /\ \A r \in Handlers \ {c.room} : rooms'[r] = rooms[r]
          /\ room' = room
      BY <1>2, <2>1, AttachEffect
    <2>3. CASE room # c.room
      BY <1>0, <2>2, <2>3 DEF Present
    <2>4. CASE room = c.room /\ x # new
      <3> HIDE DEF new
      <3>1. x \in rooms[room].members
        BY <1>0, <2>2, <2>4
      <3> QED
        BY <1>0, <2>2, <3>1 DEF Present
    <2>5. CASE room = c.room /\ x = new
      <3>1. c.kind # "control"
        BY <2>2, <2>5
      <3>2. c.kind = "relay" /\ c.approved
        BY <2>2, <3>1 DEF Conn, Kinds, BooksOK
      <3>3. old["control"] = g
        BY <2>2, <2>5, <3>1 DEF Kinds
      <3>4. InRoom(room, c.id) # {}
        <4>1. InRoom(room, c.id) = {} => old["control"] = None
          BY <2>5 DEF AttachOld, Kinds
        <4> QED
          BY <3>3, <4>1, NilIsNobody
      <3>5. PICK om \in InRoom(room, c.id) : om.at = old
        BY <2>5, <3>4 DEF AttachOld
      <3>6. om \in Present /\ om.member = c.id
        BY <1>0, <2>2, <3>5 DEF InRoom, Present
      <3>7. x.member = c.id /\ x.approved
        BY <2>5, <3>2
      <3> QED
        BY <3>3, <3>5, <3>6, <3>7
    <2> QED
      BY <2>3, <2>4, <2>5
  <1>3. CASE Vacate(h)
    <2>1. conns[h].room \in Handlers
      BY <1>3 DEF Vacate, RoomsAreMade, Roomed
    <2> DEFINE r == conns[h].room
    <2>2. /\ rooms'[r].members = VacateRest(h) /\ room' = room /\ conns[h] \in Conn
          /\ \A q \in Handlers \ {r} : rooms'[q] = rooms[q]
      BY <1>3, <2>1, VacateEffect
    <2>3. CASE x \in rooms[room].members
      BY <1>0, <2>2, <2>3 DEF Present
    <2>4. CASE x \notin rooms[room].members
      <3>1. room = r /\ x \in VacateLeft(h)
        BY <1>0, <2>2, <2>4 DEF VacateRest
      <3>2. PICK om \in InRoom(r, conns[h].id) : x = Vacated(om, conns[h].kind, h)
        BY <3>1 DEF VacateLeft
      <3>3. om \in OnlineMember /\ om \in rooms[room].members
        BY <2>1, <3>1, <3>2, SessionsMembers DEF InRoom
      <3>4. x.member = om.member /\ x.approved = om.approved
            /\ (x.at["control"] = om.at["control"] \/ x.at["control"] = None)
        <4>1. conns[h].kind \in Kinds
          BY <2>2 DEF Conn
        <4>2. x.approved = om.approved
          BY <3>2, <3>3 DEF Vacated, OnlineMember
        <4> QED
          BY <3>2, <3>3, <4>1, <4>2, VacatedTyped DEF Kinds
      <3> QED
        BY <1>0, <2>2, <3>3, <3>4, NilIsNobody DEF Present
    <2> QED
      BY <2>3, <2>4
  <1>4. CASE Replace(h) \/ Hangup(h) \/ FindRoom(h) \/ Recheck(h) \/ Drop(h) \/ Hook(h)
    <2>1. rooms' = rooms /\ room' = room
      BY <1>0, <1>4 DEF Replace, Hangup, FindRoom, Recheck, Drop, Hook
    <2> QED
      BY <1>0, <2>1 DEF Present
  <1> QED
    BY <1>1, <1>2, <1>3, <1>4 DEF HandlerStep

\* A handler that has begun or ended nothing but its own: the others watch as
\* before.
LEMMA HandlersWatch ==
  ASSUME HubInv, NEW h \in Handlers, HandlerStep(h), NEW g \in Handlers \ {h}, Watching(g)'
  PROVE  Watching(g)
  <1>1. conns'[g] = conns[g]
    BY HandlerKeepsConn
  <1>2. kicked \ {h} \subseteq kicked'
    BY DEF HandlerStep, Fetch, Attach, Replace, Hangup, FindRoom, Vacate, Recheck, Drop, Hook,
         Forget
  <1> QED
    BY <1>1, <1>2 DEF Watching, Served

\* Only Attach makes a connection served.
LEMMA ServedByAttach ==
  ASSUME HubInv, NEW h \in Handlers, HandlerStep(h), Served(h)'
  PROVE  Attach(h) \/ Replace(h)
  <1>0. conns'[h].pc \in {"replace", "serve"}
    BY DEF Served
  <1>1. conns[h] \in Conn /\ conns \in [Handlers -> Conn \cup [pc : {"unused", "ended"}]]
    BY HandlerKeepsConn DEF HubInv, HubTypeOK
  <1>2. Fetch(h) => conns'[h].pc = "attach"
    BY <1>1 DEF Fetch, Conn
  <1>3. Hangup(h) => conns'[h].pc = "detach"
    BY <1>1 DEF Hangup, Goto, Conn
  <1>4. FindRoom(h) => conns'[h].pc \in {"ended", "vacate"}
    BY <1>1 DEF FindRoom, End, Ended, Conn
  <1>5. Vacate(h) => conns'[h].pc \in {"ended", "recheck", "hook"}
    BY <1>1 DEF Vacate, End, Ended, Conn
  <1>6. Recheck(h) \/ Drop(h) => conns'[h].pc \in {"ended", "delete", "hook"}
    BY <1>1 DEF Recheck, Drop, Afterwards, End, Goto, Ended, Conn
  <1>7. Hook(h) => conns'[h].pc = "ended"
    BY <1>1 DEF Hook, End, Ended
  <1> QED
    BY <1>0, <1>2, <1>3, <1>4, <1>5, <1>6, <1>7 DEF HandlerStep

\* The room after a control call: the same entries, approved or not.
LEMMA ApprovedRoom ==
  ASSUME HubTypeOK, NEW id, NEW x \in Present',
         \/ \E i \in Indices : MakeApproved(id, i)
         \/ SetApproved(id, FALSE)
  PROVE  \E om \in Present :
           /\ om.member = x.member /\ om.at["control"] = x.at["control"]
           /\ (\E i \in Indices : MakeApproved(id, i)) \/ x.member # id =>
                (om.approved => x.approved)
  <1>1. room' = room
    BY DEF MakeApproved, SetApproved
  <1>2. room # None /\ room \in Handlers /\ x \in rooms'[room].members
    BY <1>1 DEF Present, HubTypeOK
  <1>3. InSession(id) = InRoom(room, id) /\ InRoom(room, id) \subseteq OnlineMember
    BY <1>2, SessionsMembers
  <1>4. CASE x \in rooms[room].members
    BY <1>2, <1>4 DEF Present
  <1>5. CASE x \notin rooms[room].members
    <2>1. ASSUME NEW i \in Indices, MakeApproved(id, i)
          PROVE  \E om \in InRoom(room, id) : x = [om EXCEPT !.approved = TRUE, !.index = i]
      BY <1>2, <1>3, <1>5, <2>1 DEF MakeApproved, HubTypeOK, Room
    <2>2. ASSUME SetApproved(id, FALSE)
          PROVE  \E om \in InRoom(room, id) : x = [om EXCEPT !.approved = FALSE]
      BY <1>2, <1>3, <1>5, <2>2 DEF SetApproved, HubTypeOK, Room
    <2>3. ASSUME NEW om \in InRoom(room, id),
                 \/ \E i \in Indices : x = [om EXCEPT !.approved = TRUE, !.index = i]
                 \/ ~(\E i \in Indices : MakeApproved(id, i)) /\ x = [om EXCEPT !.approved = FALSE]
          PROVE  /\ om \in Present /\ om.member = x.member
                 /\ om.at["control"] = x.at["control"]
                 /\ (\E i \in Indices : MakeApproved(id, i)) \/ x.member # id =>
                      (om.approved => x.approved)
      <3>1. om \in OnlineMember /\ om \in rooms[room].members /\ om.member = id
        BY <1>3 DEF InRoom
      <3> QED
        BY <1>2, <2>3, <3>1 DEF Present, OnlineMember
    <2> QED
      BY <2>1, <2>2, <2>3
  <1> QED
    BY <1>4, <1>5

LEMMA InformedStays ==
  ASSUME ServerInv, [Next]_vars
  PROVE  Informed'
  <1> USE DEF ServerInv
  <1>1. CASE UNCHANGED vars
    BY <1>1 DEF vars, hubVars, storeVars, Informed, Present, Watching, Served, Leaving,
         Sure, ActiveIds, ActiveMembers, Announced
  <1>2. CASE Next
    <2> SUFFICES ASSUME NEW x \in Present', NEW h, h = x.at["control"],
                        Watching(h)', ~Leaving(x.member)'
                 PROVE  Fits(x, h)
      BY DEF Informed, Fits
    <2>1. HubInv' /\ HubTypeOK /\ HubTypeOK'
      BY <1>2, HubStays DEF HubInv
    <2>2. h \in Handlers /\ x.member \in Ids
      <3>1. room' \in Handlers /\ x \in rooms'[room'].members
        BY <2>1 DEF Present, HubTypeOK
      <3>2. x \in OnlineMember
        BY <2>1, <3>1 DEF HubTypeOK, Room
      <3> QED
        BY <3>2 DEF OnlineMember, Kinds, Watching
    <2>3. client \in [Handlers -> Client] /\ client[h] \in Client /\ Announced \subseteq Nat
      BY <2>2 DEF BooksOK, Announced, Todo
    \* A step that leaves the hub, the handlers' books and the client alone.
    <2>4. ASSUME todo \subseteq todo'
          PROVE  Announced \subseteq Announced' /\ ~Leaving(x.member)
      BY <2>4 DEF Announced, Leaving
    <2>5. ASSUME UNCHANGED hubVars
          PROVE  x \in Present /\ Watching(h)
      BY <2>5 DEF hubVars, Present, Watching, Served
    <2>6. ASSUME UNCHANGED hubVars, todo \subseteq todo', client'[h] = client[h]
          PROVE  Fits(x, h)
      BY <1>2, <2>2, <2>4, <2>5, <2>6, SameClient, QuietSteps, AdmittedAreAnnounced, Inherited
    \* A step of another handler, or of none, that tells the client nothing.
    <2>7. ASSUME NEW g \in Handlers \ {h}, HandlerStep(g), todo' = todo,
                 client'[h].due = client[h].due, client'[h].list = client[h].list,
                 \A a \in Sure' : a \in client[h].peers => a \in client'[h].peers
          PROVE  Fits(x, h)
      <3>1. PICK om \in Present :
              /\ om.member = x.member /\ om.at["control"] = h
              /\ om.approved => x.approved
        BY <2>2, <2>7, HandlersRoom
      <3>2. Watching(h) /\ ~Leaving(om.member)
        BY <2>2, <2>4, <2>7, <3>1, HandlersWatch
      <3>3. Sure' \subseteq Sure \cup Announced'
        BY <1>2, AdmittedAreAnnounced
      <3>4. Announced' = Announced
        BY <2>7 DEF Announced
      <3>5. Inherits(x, h)
        BY <2>7, <3>1, <3>2, <3>3, <3>4 DEF Inherits, SameStage
      <3> QED
        BY <3>5, Inherited
    <2>8. ASSUME NEW g \in Handlers, NEW t \in tickets, NEW kind \in Kinds, HandleWS(g, t, kind)
          PROVE  Fits(x, h)
      <3>1. /\ conns[g] = Unused /\ UNCHANGED <<room, rooms, kicked>>
            /\ \A f \in Handlers \ {g} : conns'[f] = conns[f]
        BY <2>1, <2>8 DEF HandleWS, Open, HubTypeOK
      <3>2. x \in Present
        BY <3>1 DEF Present
      <3>3. g # h
        BY <2>2, <3>1, <3>2, WatchersOwn DEF Unused, Conn, Places
      <3>4. Watching(h) /\ client'[h] = client[h] /\ todo' = todo
        BY <2>2, <2>8, <3>1, <3>3, OwnClient DEF Watching, Served, HandleWS
      <3> QED
        BY <1>2, <2>2, <2>4, <3>2, <3>4, SameClient, QuietSteps, AdmittedAreAnnounced, Inherited
    <2>9. ASSUME NEW g \in Handlers,
                 AttachWS(g) \/ HangupWS(g) \/ LockSection(g) \/ HookWS(g)
          PROVE  Fits(x, h)
      <3>1. HandlerStep(g) /\ todo' = todo
        BY <2>9 DEF AttachWS, HangupWS, LockSection, HookWS, HandlerStep
      <3>2. CASE g # h
        BY <2>2, <2>7, <2>9, <3>1, <3>2, OwnClient
      <3>3. CASE g = h /\ Attach(h)
        <4>1. Attach(h) /\ AttachWS(h)
          <5>2. conns[h].pc = "attach"
            BY <3>3 DEF Attach
          <5> QED
            BY <2>9, <3>3, <5>2 DEF HangupWS, LockSection, HookWS, Hangup, Fetch, Replace, FindRoom,
                 Vacate, Recheck, Drop, Hook
        <4> DEFINE c == conns[h]
                   old == AttachOld(c.room, c)
                   new == [member |-> c.id, index |-> c.index, approved |-> c.approved,
                           at |-> [old EXCEPT ![c.kind] = h]]
        <4>2. conns[h].room \in Handlers
          BY <2>2, <4>1 DEF Attach, HubInv, RoomsAreMade, Roomed
        <4>3. /\ c \in Conn
              /\ \A k \in Kinds \ {c.kind} : new.at[k] = old[k]
              /\ rooms'[c.room].members = (rooms[c.room].members \ InRoom(c.room, c.id)) \cup {new}
              /\ \A r \in Handlers \ {c.room} : rooms'[r] = rooms[r]
              /\ room' = room
          BY <2>1, <2>2, <4>1, <4>2, AttachEffect
        <4>4. \A om \in Present : om.at["control"] # h
          BY <2>2, <4>1, WatchersOwn DEF Attach
        <4>5. room # None /\ room \in Handlers /\ x \in rooms'[room].members
          BY <2>1, <4>3 DEF Present, HubTypeOK
        <4>6. room = c.room /\ x = new
          <5> HIDE DEF new
          <5> QED
            BY <4>3, <4>4, <4>5 DEF Present
        <4>7. c.kind = "control"
          <5>1. ASSUME c.kind # "control"
                PROVE  FALSE
            <6>1. old["control"] = h
              BY <4>3, <4>6, <5>1 DEF Kinds
            <6>2. InRoom(room, c.id) # {}
              <7>1. InRoom(room, c.id) = {} => old["control"] = None
                BY <4>6 DEF AttachOld, Kinds
              <7> QED
                BY <2>2, <6>1, <7>1, NilIsNobody
            <6>3. PICK om \in InRoom(room, c.id) : om.at = old
              BY <4>6, <6>2 DEF AttachOld
            <6> QED
              BY <4>4, <4>5, <6>1, <6>3 DEF InRoom, Present
          <5> QED
            BY <5>1
        <4>8. client'[h].due = "list"
          BY <2>2, <2>3, <4>1, <4>7 DEF AttachWS, Client
        <4>9. conns'[h].approved = c.approved
          <5>1. conns'[h] \in Conn
            BY <2>1, <2>2, <3>1, <3>3, HandlerKeepsConn DEF Watching, Served, Ended
          <5> QED
            BY <2>1, <2>2, <3>1, <3>3, <5>1, HandlerKeepsConn
        <4>10. x.approved = c.approved
          <5>1. new.approved = c.approved
            OBVIOUS
          <5> HIDE DEF new
          <5> QED
            BY <4>6, <5>1
        <4> QED
          BY <4>8, <4>9, <4>10 DEF Fits, Watching
      \* The connection that was replaced is told to close: nothing else happens.
      <3>4. CASE g = h /\ Replace(h)
        <4>1. conns[h].pc = "replace" /\ UNCHANGED <<room, rooms>> /\ kicked \subseteq kicked'
          BY <3>4 DEF Replace
        <4>2. x \in Present
          BY <4>1 DEF Present
        <4>3. conns'[h].pc = "serve" /\ conns'[h].approved = conns[h].approved
          <5>1. conns'[h] \in Conn
            BY <2>1, <2>2, <3>1, <3>4, HandlerKeepsConn DEF Watching, Served, Ended
          <5>2. conns[h] \in Conn /\ conns'[h].approved = conns[h].approved
            BY <2>1, <2>2, <3>1, <3>4, <5>1, HandlerKeepsConn
          <5> QED
            BY <2>1, <2>2, <3>4, <5>2 DEF Replace, HubTypeOK, Conn
        <4>4. Watching(h)
          BY <4>1, <4>3 DEF Watching, Served
        <4>5. client'[h] = client[h]
          <5>1. LockSection(h)
            BY <2>9, <3>4, <4>1 DEF AttachWS, Attach, HangupWS, Hangup, HookWS, Hook
          <5> QED
            BY <4>3, <5>1 DEF LockSection, Ended
        <4> QED
          BY <1>2, <2>2, <2>4, <3>1, <4>2, <4>4, <4>5, SameClient, QuietSteps,
             AdmittedAreAnnounced, Inherited
      <3> QED
        BY <2>2, <3>1, <3>2, <3>3, <3>4, ServedByAttach DEF Watching
    <2>10. ASSUME NEW g \in Handlers, ReadList(g)
           PROVE  Fits(x, h)
      <3>1. UNCHANGED hubVars /\ UNCHANGED storeVars /\ todo' = todo
        BY <2>10 DEF ReadList
      <3>2. CASE g # h
        BY <2>2, <2>6, <2>10, <3>1, <3>2, OwnClient
      <3>3. CASE g = h
        <4>1. Sure' \subseteq ActiveIds
          BY <3>1 DEF storeVars, Sure, ActiveIds, ActiveMembers
        <4>2. x \in Present /\ Watching(h) /\ ~Leaving(x.member)
          BY <2>4, <2>5, <3>1
        <4>3. x.approved
          BY <4>2 DEF Informed
        <4>4. \/ client'[h].due = "send" /\ client'[h].list = ActiveIds
              \/ client'[h].due = "nothing" /\ ~(session.exists /\ ~Expired)
          BY <2>2, <2>3, <2>10, <3>3 DEF ReadList, Client
        <4>5. ~Expired
          BY <2>2, <4>2, WatchersOwn DEF BooksOK
        <4>6. ~session.exists => ActiveIds = {}
          BY DEF StoreOK, ActiveIds, ActiveMembers
        <4> QED
          BY <4>1, <4>3, <4>4, <4>5, <4>6 DEF Fits
      <3> QED
        BY <3>2, <3>3
    <2>11. ASSUME NEW g \in Handlers, SendList(g)
           PROVE  Fits(x, h)
      <3>1. UNCHANGED hubVars /\ UNCHANGED storeVars /\ todo' = todo
        BY <2>11 DEF SendList
      <3>2. CASE g # h
        BY <2>2, <2>6, <2>11, <3>1, <3>2, OwnClient
      <3>3. CASE g = h
        <4>1. Sure' = Sure /\ Announced' = Announced
          BY <2>11, <3>1 DEF SendList, storeVars, Sure, ActiveIds, ActiveMembers, Announced
        <4>2. x \in Present /\ Watching(h) /\ ~Leaving(x.member)
          BY <2>4, <2>5, <3>1
        <4>3. x.approved /\ Sure \ {x.member} \subseteq client[h].list \cup client[h].peers \cup Announced
          BY <2>11, <3>3, <4>2 DEF Informed, SendList
        <4>4. client'[h].due = "nothing" /\ client'[h].peers = ListedPeers(client[h], conns[h].id)
          BY <2>2, <2>3, <2>11, <3>3 DEF SendList, Client
        <4>5. conns[h].id = x.member
          BY <2>2, <4>2, WatchersOwn
        <4> QED
          BY <4>1, <4>3, <4>4, <4>5 DEF Fits, ListedPeers
      <3> QED
        BY <3>2, <3>3
    <2>12. ASSUME NEW g \in Handlers, LeaveWS(g)
           PROVE  Fits(x, h)
      <3>1. UNCHANGED hubVars /\ todo' = todo
        BY <2>12 DEF LeaveWS
      <3>2. CASE g # h
        BY <2>2, <2>6, <2>12, <3>1, <3>2, OwnClient
      <3>3. CASE g = h
        <4>1. client'[h].due = "leave"
          BY <2>2, <2>3, <2>12, <3>3 DEF LeaveWS, Client
        <4>2. x.approved
          BY <2>4, <2>5, <3>1 DEF Informed
        <4> QED
          BY <4>1, <4>2 DEF Fits
      <3> QED
        BY <3>2, <3>3
    \* The connections collected are told to close, the rest stays.
    <2>13. ASSUME UNCHANGED <<room, rooms, conns>>, kicked \subseteq kicked'
           PROVE  x \in Present /\ Watching(h)
      BY <2>13 DEF Present, Watching, Served
    <2>14. ASSUME NEW g \in Handlers, KickOwn(g)
           PROVE  Fits(x, h)
      <3>1. x \in Present /\ Watching(h) /\ todo' = todo
        BY <2>13, <2>14 DEF KickOwn, CloseMember
      <3>2. CASE g # h
        BY <1>2, <2>2, <2>4, <2>14, <3>1, <3>2, OwnClient, SameClient, QuietSteps,
           AdmittedAreAnnounced, Inherited
      <3>3. CASE g = h
        <4>1. client'[h].due = "bye"
          BY <2>2, <2>3, <2>14, <3>3 DEF KickOwn, Client
        <4>2. x.approved
          BY <2>4, <3>1 DEF Informed
        <4> QED
          BY <4>1, <4>2 DEF Fits
      <3> QED
        BY <3>2, <3>3
    <2>15. ASSUME NEW g \in Handlers, ByeWS(g)
           PROVE  Fits(x, h)
      <3>1. HandlerStep(g) /\ todo' = todo /\ UNCHANGED storeVars /\ client[g].due = "bye"
        BY <2>15 DEF ByeWS, HandlerStep
      <3>2. g # h
        <4>1. g = h => Attach(h) \/ Replace(h)
          BY <2>2, <3>1, ServedByAttach DEF Watching
        <4> QED
          BY <2>15, <4>1 DEF ByeWS, Hangup, Attach, Replace
      <3>3. /\ client'[h].due = client[h].due /\ client'[h].list = client[h].list
            /\ client[h].peers \ {conns[g].id} \subseteq client'[h].peers
        BY <2>2, <2>3, <2>15, ForgoEffect DEF ByeWS
      <3>4. conns[g].id \notin Sure'
        BY <3>1 DEF GoneOK, storeVars, Sure, ActiveIds, ActiveMembers
      <3> QED
        BY <2>7, <3>1, <3>2, <3>3, <3>4
    <2>16. ASSUME \/ \E n \in Nodes : HandleJoin(n)
                  \/ \E m \in members : HandleLeave(m) \/ PruneMember(m)
                  \/ \E o, m \in members : HandleApprove(o, m) \/ HandleReject(o, m)
                  \/ HandleDeleteSession \/ HandleRevoke \/ HandleRotate \/ PruneSession
           PROVE  Fits(x, h)
      <3>1. UNCHANGED hubVars /\ todo \subseteq todo' /\ client' = client
        BY <2>16 DEF HandleJoin, HandleLeave, PruneMember, HandleApprove, HandleReject,
             HandleDeleteSession, HandleRevoke, HandleRotate, PruneSession, Later
      <3> QED
        BY <2>6, <3>1
    \* A client in the audience has heard of the new member.
    <2>17. ASSUME NEW t \in todo, NEW new \in SUBSET Id, t.id \in new,
                  t.step \in {"joined", "welcome"}, Meet(Audience(Ids), new), Done(t),
                  UNCHANGED <<storeVars, hubVars, overwritten>>
           PROVE  Fits(x, h)
      <3>1. x \in Present /\ Watching(h)
        BY <2>5, <2>17
      <3>2. ~Leaving(x.member)
        BY <2>17 DEF Leaving, Done
      <3>3. x.approved
        BY <3>1, <3>2 DEF Informed
      <3>4. h \in Audience(Ids) /\ Served(h) /\ conns[h].id = x.member
        <4>1. room # None /\ x \in rooms[room].members
          BY <2>1, <3>1, PresentTyped
        <4>2. h \in Audience(Ids)
          BY <2>2, <3>3, <4>1, NilIsNobody DEF Audience
        <4> QED
          BY <2>2, <3>1, <4>2, WatchersOwn DEF Watching
      <3>5. /\ client'[h].due = client[h].due /\ client'[h].list = client[h].list
            /\ client[h].peers \subseteq client'[h].peers
            /\ new \ {x.member} \subseteq client'[h].peers
        BY <2>2, <2>3, <2>17, <3>4, MeetEffect
      <3>6. Sure' = Sure
        BY <2>17 DEF storeVars, Sure, ActiveIds, ActiveMembers
      <3>7. Announced \subseteq Announced' \cup {t.id}
        BY <2>17 DEF Announced, Done
      <3>8. Inherits(x, h)
        BY <2>17, <3>1, <3>2, <3>5, <3>6, <3>7 DEF Inherits, SameStage
      <3> QED
        BY <3>8, Inherited
    <2>18. ASSUME NEW t \in todo, Joined(t) \/ Welcome(t)
           PROVE  Fits(x, h)
      <3>1. t.id \in Id /\ t.all \subseteq Id
        BY <2>18, TodoKnown DEF Joined, Welcome
      <3>2. CASE Joined(t)
        BY <2>17, <3>1, <3>2 DEF Joined
      <3>3. CASE Welcome(t)
        BY <2>17, <3>1, <3>3 DEF Welcome
      <3> QED
        BY <2>18, <3>2, <3>3
    <2>19. ASSUME NEW t \in todo, Goodbye(t)
           PROVE  Fits(x, h)
      <3>1. x \in Present /\ Watching(h)
        BY <2>5, <2>19 DEF Goodbye
      <3>2. ~Leaving(x.member) /\ Announced \subseteq Announced'
        BY <2>19 DEF Leaving, Announced, Goodbye, Done
      <3>3. /\ client'[h].due = client[h].due /\ client'[h].list = client[h].list
            /\ client[h].peers \ {t.id} \subseteq client'[h].peers
        BY <2>2, <2>3, <2>19, ForgoEffect DEF Goodbye
      <3>4. Sure' = Sure /\ t.id \notin Sure
        BY <2>19 DEF Goodbye, GoneOK, storeVars, Sure, ActiveIds, ActiveMembers
      <3>5. Inherits(x, h)
        BY <3>1, <3>2, <3>3, <3>4 DEF Inherits, SameStage
      <3> QED
        BY <3>5, Inherited
    <2>20. ASSUME NEW t \in todo, Left(t) \/ CloseRoom(t)
           PROVE  Fits(x, h)
      <3>1. x \in Present /\ Watching(h)
        BY <2>13, <2>20 DEF Left, CloseRoom, CloseMember, CloseAll
      <3>2. ~Leaving(x.member) /\ Announced \subseteq Announced'
        BY <2>20 DEF Leaving, Announced, Left, CloseRoom, Done, Then
      <3> QED
        BY <1>2, <2>2, <2>20, <3>1, <3>2, SameClient, QuietSteps, AdmittedAreAnnounced, Inherited
           DEF Left, CloseRoom
    <2>21. ASSUME NEW t \in todo, Kick(t)
           PROVE  Fits(x, h)
      <3>1. x \in Present /\ Watching(h)
        BY <2>13, <2>21 DEF Kick, CloseMember
      <3>2. t.id # x.member
        <4>1. room # None /\ x \in rooms[room].members
          BY <2>1, <3>1, PresentTyped
        <4>2. t.id = x.member => h \in ConnsOf(InSession(t.id))
          BY <2>2, <4>1, NilIsNobody DEF ConnsOf, InSession, InRoom, Kinds
        <4> QED
          BY <2>21, <4>2 DEF Kick, CloseMember, Watching
      <3>3. ~Leaving(x.member) /\ Announced \subseteq Announced'
        BY <2>21, <3>2 DEF Leaving, Announced, Kick, Done
      <3> QED
        BY <1>2, <2>2, <2>21, <3>1, <3>3, SameClient, QuietSteps, AdmittedAreAnnounced, Inherited
           DEF Kick
    <2>22. ASSUME NEW t \in todo, Admit(t) \/ Exclude(t)
           PROVE  Fits(x, h)
      <3>1. t.step # "close" /\ t.index \in Indices /\ t \in Todo
        BY <2>22, IdsKnown DEF Admit, Exclude, BooksOK
      <3>2. PICK om \in Present :
               /\ om.member = x.member /\ om.at["control"] = x.at["control"]
               /\ (\E i \in Indices : MakeApproved(t.id, i)) \/ x.member # t.id =>
                    (om.approved => x.approved)
        BY <2>1, <2>22, <3>1, ApprovedRoom DEF Admit, Exclude
      <3>3. Watching(h)
        BY <2>22 DEF Admit, Exclude, MakeApproved, SetApproved, Watching, Served
      <3>4. CASE Admit(t)
        <4>1. ~Leaving(x.member)
          BY <3>1, <3>4 DEF Leaving, Admit, Then
        <4>2. Announced \subseteq Announced'
          <5>1. [t EXCEPT !.step = "welcome"].step = "welcome" /\ [t EXCEPT !.step = "welcome"].id = t.id
            BY <3>1 DEF Todo
          <5> QED
            BY <3>4, <5>1 DEF Announced, Admit, Then
        <4>3. om.approved => x.approved
          BY <3>1, <3>2, <3>4 DEF Admit
        <4>4. client' = client /\ Sure' = Sure
          BY <3>4 DEF Admit, storeVars, Sure, ActiveIds, ActiveMembers
        <4>5. Inherits(x, h)
          BY <3>2, <3>3, <4>1, <4>2, <4>3, <4>4 DEF Inherits, SameStage
        <4> QED
          BY <4>5, Inherited
      <3>5. CASE Exclude(t)
        <4>1. x.member # t.id
          <5>1. [t EXCEPT !.step = "kick"].step = "kick" /\ [t EXCEPT !.step = "kick"].id = t.id
            BY <3>1 DEF Todo
          <5> QED
            BY <3>5, <5>1 DEF Leaving, Exclude, Then
        <4>2. ~Leaving(x.member) /\ Announced \subseteq Announced'
          BY <3>5, <4>1 DEF Leaving, Announced, Exclude, Then
        <4>3. client' = client /\ Sure' = Sure
          BY <3>5 DEF Exclude, storeVars, Sure, ActiveIds, ActiveMembers
        <4>4. Inherits(x, h)
          BY <3>2, <3>3, <4>1, <4>2, <4>3 DEF Inherits, SameStage
        <4> QED
          BY <4>4, Inherited
      <3> QED
        BY <2>22, <3>4, <3>5
    \* A read loop reads and writes its member's record: its client hears nothing.
    <2>23. ASSUME \/ \E g \in Handlers : Copies(g)
                  \/ \E w \in copies : WriteBack(w)
           PROVE  Fits(x, h)
      <3>1. UNCHANGED hubVars /\ todo \subseteq todo'
        BY <2>23 DEF Copies, Touch, Offer, UpdateCandidates, WriteBack
      <3>2. /\ SameStage(client[h].due, client'[h].due) /\ client'[h].list = client[h].list
            /\ client'[h].peers = client[h].peers
        <4>1. ASSUME NEW g \in Handlers, Copies(g)
              PROVE  <3>2!:
          <5>1. CASE g # h
            BY <2>2, <4>1, <5>1, OwnClient, SameClient
          <5>2. CASE g = h
            <6>1. \E d \in {"offer", "write", "nothing"} :
                     client' = [client EXCEPT ![h].due = d]
              BY <4>1, <5>2 DEF Copies, Touch, Offer, UpdateCandidates, Refresh
            <6>2. client[h].due \in {"nothing", "offer", "write"}
              BY <4>1, <5>2 DEF Copies, Touch, Offer, UpdateCandidates
            <6> QED
              BY <2>2, <2>3, <6>1, <6>2 DEF SameStage, Client
          <5> QED
            BY <5>1, <5>2
        <4>2. ASSUME NEW w \in copies, WriteBack(w)
              PROVE  <3>2!:
          <5>1. CASE h # w.by
            BY <2>2, <4>2, <5>1, WriterClient, SameClient
          <5>2. CASE h = w.by
            <6>1. client[h].due = "write" /\ client'[h] = [client[h] EXCEPT !.due = "nothing"]
              BY <2>2, <4>2, <5>2, WriterClient
            <6> QED
              BY <2>3, <6>1 DEF SameStage, Client
          <5> QED
            BY <5>1, <5>2
        <4> QED
          BY <2>23, <4>1, <4>2
      <3> QED
        BY <1>2, <2>2, <2>4, <2>5, <3>1, <3>2, QuietSteps, AdmittedAreAnnounced, Inherited
    <2> QED
      BY <1>2, <2>8, <2>9, <2>10, <2>11, <2>12, <2>14, <2>15, <2>16, <2>18, <2>19, <2>20,
         <2>21, <2>22, <2>23 DEF Next, Copies
  <1> QED
    BY <1>1, <1>2

-----------------------------------------------------------------------------
\* Put together.

LEMMA ServerStarts ==
  Init => ServerInv
  <1> SUFFICES ASSUME Init
               PROVE  ServerInv
    OBVIOUS
  <1>1. HubInv /\ StoreOK
    BY HubStarts, StoreStarts DEF Init
  <1>2. /\ members = {} /\ tickets = {} /\ todo = {} /\ copies = {} /\ reported = {}
        /\ overwritten = {} /\ issued = 0 /\ drawn = 0
    BY DEF Init, StoreInit
  <1>3. /\ room = None /\ \A h \in Handlers : conns[h] = Unused /\ client[h] = Nobody
        /\ \A h \in Handlers : rooms[h].members = {}
        /\ client = [h \in Handlers |-> Nobody]
    BY DEF Init, HubInit
  <1>4. Unused \notin Conn /\ Nobody \in Client /\ Nobody.due = "nothing"
    BY DEF Unused, Conn, Places, Nobody, Client, Dues
  <1>5. BooksOK
    BY <1>2, <1>3, <1>4, ServerConstants DEF BooksOK
  <1>6. ClaimsOK
    BY <1>2, <1>3, <1>4 DEF ClaimsOK, Claimed, StoreClaims, HubClaims, TodoClaims
  <1>7. PresenceOK /\ GoneOK
    BY <1>2, <1>3, <1>4 DEF PresenceOK, GoneOK
  <1>8. Informed
    BY <1>3 DEF Informed, Present
  <1>9. CopiesOK
    BY <1>2, <1>3, <1>4 DEF CopiesOK
  <1> QED
    BY <1>1, <1>5, <1>6, <1>7, <1>8, <1>9 DEF ServerInv

LEMMA ServerKeeps ==
  ServerInv /\ [Next]_vars => ServerInv'
  BY HubStays, StoreStays, BooksStay, CopiesStay, ClaimsStay, PresenceStays, GoneStay,
     InformedStays DEF ServerInv

LEMMA ServerInvGivesTypes ==
  ServerInv => TypeOK
  BY DEF ServerInv, HubInv, BooksOK, CopiesOK, TypeOK

\* The room's entry and the record both claim the index.
LEMMA ServerInvGivesIndices ==
  ServerInv => IndexAgrees
  <1> SUFFICES ASSUME ServerInv, NEW om \in Present, NEW m \in members, om.member = m.id
               PROVE  om.index = m.index
    BY DEF IndexAgrees
  <1>1. room \in Handlers /\ om \in rooms[room].members /\ om \in OnlineMember
    BY PresentTyped DEF ServerInv, HubInv
  <1>2. om.member \in Ids /\ om.index \in Indices /\ m.index \in Indices
    BY <1>1, IdsKnown DEF OnlineMember, ServerInv, StoreOK, Member
  <1>3. Claimed(om.member, om.index) /\ Claimed(om.member, m.index)
    BY <1>1 DEF Claimed, HubClaims, StoreClaims
  <1> QED
    BY <1>2, <1>3 DEF ServerInv, ClaimsOK

LEMMA ServerInvGivesReports ==
  ServerInv => OfflineIsExplained
  BY DEF ServerInv, PresenceOK, OfflineIsExplained, ReportedLast

LEMMA ServerInvGivesDiscovery ==
  ServerInv => Discovery
  BY DEF ServerInv, Informed, Discovery, Watching, Announced, Sure

\* What the claims say: one index for each id.
LEMMA ClaimsIndex ==
  ASSUME ServerInv
  PROVE  \E F : Indexed(F) /\ \A id \in Ids, i \in Indices : Claimed(id, i) => i = F[id]
  <1> DEFINE F == [id \in Ids |-> CHOOSE i \in Indices : Claimed(id, i)]
  <1>1. ASSUME NEW id \in Ids, NEW i \in Indices, Claimed(id, i)
        PROVE  i = F[id]
    BY <1>1 DEF ServerInv, ClaimsOK
  <1> HIDE DEF F
  <1>2. Indexed(F)
    BY <1>1 DEF Indexed, Claimed
  <1> QED
    BY <1>1, <1>2

LEMMA ServerKeepsFinding ==
  ASSUME ServerInv, IndexFindsMember, [Next]_vars
  PROVE  IndexFindsMember'
  <1>1. PICK F : Indexed(F) /\ \A id \in Ids, i \in Indices : Claimed(id, i) => i = F[id]
    BY ClaimsIndex
  <1>2. ASSUME NEW t \in todo, Admit(t)
        PROVE  t.id \in Ids /\ MakeApproved(t.id, F[t.id])
    <2>1. t.step = "approve" /\ MakeApproved(t.id, t.index)
      BY <1>2 DEF Admit
    <2>2. t.id \in Ids /\ t.index \in Indices /\ Claimed(t.id, t.index)
      BY <2>1, IdsKnown DEF ServerInv, BooksOK, Claimed, TodoClaims
    <2> QED
      BY <1>1, <2>1, <2>2
  <1>3. ASSUME NEW t \in todo, Exclude(t)
        PROVE  t.id \in Ids /\ SetApproved(t.id, FALSE)
    BY <1>3, IdsKnown DEF Exclude, ServerInv, BooksOK
  <1>4. \/ rooms' = rooms
        \/ \E h \in Handlers : Attach(h) \/ Vacate(h)
        \/ \E t \in todo : Admit(t) \/ Exclude(t)
    BY DEF Next, vars, hubVars, HandleWS, Open, AttachWS, ReadList, SendList, LeaveWS, KickOwn,
         Touch, Offer, UpdateCandidates, WriteBack,
         ByeWS, HangupWS, Hangup, LockSection, Fetch, Replace, FindRoom, Recheck, Drop, HookWS,
         Hook, HandleJoin,
         HandleLeave, HandleApprove, HandleReject, HandleDeleteSession, HandleRevoke,
         HandleRotate, PruneMember, PruneSession, Joined, Left, Goodbye, Welcome, Kick,
         CloseRoom, CloseMember, CloseAll
  <1> QED
    BY <1>1, <1>2, <1>3, <1>4, CallsKeepIndex DEF ServerInv

\* Every reachable state of the server is well typed: the hub is only given ids
\* and indices the store drew, and a client only learns of members.
THEOREM ServerTypeCorrect == Spec => []TypeOK
  BY ServerStarts, ServerKeeps, ServerInvGivesTypes, PTL DEF Spec

\* However long ago a handler read a member's record, the index it gives the hub
\* is the one the store has (ws.go:82-92): an id never changes its index and the
\* handlers only repeat what they were told.
THEOREM IndicesAgree == Spec => []IndexAgrees
  BY ServerStarts, ServerKeeps, ServerInvGivesIndices, PTL DEF Spec

\* A member is taken offline only by the hook of the connection its latest join
\* was given, or by its rejection, however late the hooks run (memory.go:331,
\* hub.go:294); or a copy of its record was written back that was read before the
\* record changed (service.go:391-419, 438-484).
THEOREM OfflineIsReported == Spec => []OfflineIsExplained
  BY ServerStarts, ServerKeeps, ServerInvGivesReports, PTL DEF Spec

\* A client approved when it attached knows every active peer or is about to be
\* told, but for peers whose record a late copy replaced: the list read after
\* Attach and the announcements made after the store's commit leave no gap, with
\* any number of handlers at work (handlers.go:274-279, ws.go:122).
THEOREM PeersAreDiscovered == Spec => []Discovery
  BY ServerStarts, ServerKeeps, ServerInvGivesDiscovery, PTL DEF Spec

\* The hub's promises hold in the server, where handlers call it with what they
\* read from the store some time before: nobody is left behind in the session's
\* room, a member's newest connection is the one served, and the last handler
\* reclaims the room (hub.go:9, 240-265, 275).
THEOREM HubHoldsInServer == Spec => [](NoGhosts /\ NewestServes /\ RoomsReclaimed)
  <1>1. ServerInv => NoGhosts /\ NewestServes /\ RoomsReclaimed
    BY HubInvGivesNoGhosts, HubInvGivesReclaimed DEF ServerInv, HubInv
  <1> QED
    BY <1>1, ServerStarts, ServerKeeps, PTL DEF Spec

\* The relay finds under an index the one member in the room that has it, also in
\* the server, where the index is read from the store before Attach and from the
\* request after Approve (hub.go:215, 539-544, ws.go:82-92).
THEOREM RelayFindsItsMember == Spec => []IndexFindsMember
  <1>1. Init => IndexFindsMember
    BY DEF Init, HubInit, IndexFindsMember
  <1>2. ServerInv /\ IndexFindsMember /\ [Next]_vars => IndexFindsMember'
    BY ServerKeepsFinding
  <1> QED
    BY <1>1, <1>2, ServerStarts, ServerKeeps, PTL DEF Spec

=============================================================================
