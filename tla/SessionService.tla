--------------------------- MODULE SessionService ---------------------------
(***************************************************************************)
(* internal/session: the handlers' business logic over one SessionStore    *)
(* record.  Join reads a snapshot, checks the token and the session on it, *)
(* and only then calls the store; UpdateCandidates, Touch, Approve and     *)
(* Reject read a snapshot, change a COPY of the member and write the whole *)
(* copy back; Prune reads every session and then deletes by id.  Each      *)
(* worker is one goroutine (an HTTP handler or a control read loop) and    *)
(* takes one step per store call, so other workers run in between.         *)
(***************************************************************************)
EXTENDS SessionStore

CONSTANTS
    Workers,      \* goroutines that serve requests at the same time
    MemberGrace,  \* Config.MemberGrace
    IdleTimeout,  \* SessionRecord.IdleTimeout, 0 = off
    MaxTime,      \* bound: the clock stops here
    MaxConns      \* bound: join requests that pass the first checks

ASSUME ServiceConstants ==
    /\ MemberGrace \in Nat
    /\ IdleTimeout \in Nat
    /\ MaxTime \in Nat
    /\ MaxConns \in Nat

VARIABLES
    req,     \* req[w]: what worker w still has to do with the store
    drawn,   \* how many connection ids handleJoin has drawn
    pruner   \* the maintenance goroutine's pass over the session

vars == <<storeVars, req, drawn, pruner>>

IdleReq  == [op : {"idle"}]
JoinReq  == [op : {"join"}, node : Nodes, conn : Id]
WriteReq == [op : {"write"}, rec : Member]
Request  == IdleReq \cup JoinReq \cup WriteReq

Pruner == [phase : {"idle", "delete", "sweep"}, victims : SUBSET Id]

Idle == [op |-> "idle"]
Asleep == [phase |-> "idle", victims |-> {}]

Init ==
    /\ StoreInit
    /\ req = [w \in Workers |-> Idle]
    /\ drawn = 0
    /\ pruner = Asleep

Begin(w, r) == req[w] = Idle /\ req' = [req EXCEPT ![w] = r]
Reply(w)    == req' = [req EXCEPT ![w] = Idle]

-----------------------------------------------------------------------------
\* handleJoin draws a connection id for every request; the ticket carries it.
ConnId_PerSession == 1
ConnId == drawn + 1

\* Service.Join, first half: Get, the session's state, the token and the
\* revocation, all on the snapshot.
JoinCheck(w, n) ==
    /\ drawn < MaxConns
    /\ ~Gone /\ ~Expired
    /\ ~session.revoked \/ MembersOfNode(n) # {}
    /\ Begin(w, [op |-> "join", node |-> n, conn |-> ConnId])
    /\ drawn' = drawn + 1
    /\ UNCHANGED <<storeVars, pruner>>

\* Second half: store.Join decides again, except about the token: one rotated
\* away since then still admits.
JoinCommit(w) ==
    /\ req[w].op = "join"
    /\ \/ Join(req[w].node, req[w].conn)
       \/ JoinFails(req[w].node) /\ UNCHANGED storeVars
    /\ Reply(w)
    /\ UNCHANGED <<drawn, pruner>>

\* A heartbeat: passes only if the ticket's connection is the recorded one, so
\* only while the snapshot is online.  LastSeen itself is not modelled.
Touch(w, m) ==
    /\ session.exists
    /\ Online(m)
    /\ Begin(w, [op |-> "write", rec |-> m])
    /\ UNCHANGED <<storeVars, drawn, pruner>>

UpdateCandidates(w, m) ==
    /\ session.exists
    /\ Begin(w, [op |-> "write", rec |-> m])
    /\ UNCHANGED <<storeVars, drawn, pruner>>

\* Approve by the owner o, the capacity tested on the snapshot.
Approve(w, o, m) ==
    /\ session.exists
    /\ o.role = "owner"
    /\ m.status = "pending"
    /\ ~Full
    /\ Begin(w, [op |-> "write", rec |-> Approved(m)])
    /\ UNCHANGED <<storeVars, drawn, pruner>>

Reject(w, o, m) ==
    /\ session.exists
    /\ o.role = "owner"
    /\ o.id # m.id
    /\ Begin(w, [op |-> "write", rec |-> Denied(m)])
    /\ UNCHANGED <<storeVars, drawn, pruner>>

\* The second half of all four: UpdateMember, or ErrMemberMissing.
WriteBack(w) ==
    /\ req[w].op = "write"
    /\ \/ UpdateMember(req[w].rec)
       \/ /\ \A m \in members : m.id # req[w].rec.id
          /\ UNCHANGED storeVars
    /\ Reply(w)
    /\ UNCHANGED <<drawn, pruner>>

-----------------------------------------------------------------------------
\* Operations that are one store call (Revoke and Close read first, but only
\* to report a missing session).
Leave(id) == RemoveMember(id) /\ UNCHANGED <<req, drawn, pruner>>

Disconnect(id, c) ==
    /\ c # NoConn
    /\ MarkOffline(id, c)
    /\ UNCHANGED <<req, drawn, pruner>>

RevokeToken == Revoke /\ UNCHANGED <<req, drawn, pruner>>

Rotate == RotateToken /\ UNCHANGED <<req, drawn, pruner>>

Close  == CloseSession /\ UNCHANGED <<req, drawn, pruner>>

DeleteSession == Delete /\ UNCHANGED <<req, drawn, pruner>>

-----------------------------------------------------------------------------
\* Prune: List takes the snapshot, everything after works from it.

\* allIdle: nobody active is online, and the EARLIEST departure is too long
\* ago; a departure time never set counts from year 1, no active member from
\* the creation at time 1.
AllIdle ==
    LET act == ActiveMembers(members) IN
    /\ \A m \in act : ~Online(m)
    /\ \/ act = {} /\ now - 1 > IdleTimeout
       \/ \E m \in act : m.leaveAt # 0 /\ now - m.leaveAt > IdleTimeout
       \/ act # {} /\ \A m \in act : m.leaveAt = 0

Overdue(m) == ~Online(m) /\ m.leaveAt # 0 /\ now - m.leaveAt > MemberGrace

PruneList ==
    /\ pruner.phase = "idle"
    /\ session.exists
    /\ pruner' = IF Expired \/ session.closed \/ (IdleTimeout > 0 /\ AllIdle)
                 THEN [phase |-> "delete", victims |-> {}]
                 ELSE [phase |-> "sweep",
                       victims |-> {m.id : m \in {x \in members : Overdue(x)}}]
    /\ UNCHANGED <<storeVars, req, drawn>>

PruneDelete ==
    /\ pruner.phase = "delete"
    /\ Delete \/ (~session.exists /\ UNCHANGED storeVars)
    /\ pruner' = Asleep
    /\ UNCHANGED <<req, drawn>>

PruneMember(id) ==
    /\ pruner.phase = "sweep"
    /\ \/ RemoveMember(id)
       \/ (\A m \in members : m.id # id) /\ UNCHANGED storeVars
    /\ pruner' = [pruner EXCEPT !.victims = @ \ {id}]
    /\ UNCHANGED <<req, drawn>>

PruneDone ==
    /\ pruner.phase = "sweep"
    /\ pruner.victims = {}
    /\ pruner' = Asleep
    /\ UNCHANGED <<storeVars, req, drawn>>

-----------------------------------------------------------------------------
Tick ==
    /\ now < MaxTime
    /\ now' = now + 1
    /\ UNCHANGED <<session, members, issued, req, drawn, pruner>>

\* The process dies between two store calls and starts again on the same
\* SQLite file: what the handlers had not written is lost.
Restart ==
    /\ req' = [w \in Workers |-> Idle]
    /\ pruner' = Asleep
    /\ UNCHANGED <<storeVars, drawn>>

Next ==
    \/ \E w \in Workers, n \in Nodes : JoinCheck(w, n)
    \/ \E w \in Workers : JoinCommit(w)
    \/ \E w \in Workers, m \in members :
         Touch(w, m) \/ UpdateCandidates(w, m)
    \/ \E w \in Workers, o \in members, m \in members :
         Approve(w, o, m) \/ Reject(w, o, m)
    \/ \E w \in Workers : WriteBack(w)
    \/ \E m \in members : Leave(m.id)
    \/ \E m \in members : Disconnect(m.id, m.conn)
    \/ RevokeToken
    \/ Rotate
    \/ Close
    \/ DeleteSession
    \/ PruneList
    \/ PruneDelete
    \/ \E id \in pruner.victims : PruneMember(id)
    \/ PruneDone
    \/ Tick
    \/ Restart

Spec == Init /\ [][Next]_vars

-----------------------------------------------------------------------------
\* Properties.

TypeOK ==
    /\ now \in Nat
    /\ session \in Session
    /\ members \subseteq Member
    /\ issued \in Nat
    /\ req \in [Workers -> Request]
    /\ drawn \in Nat
    /\ pruner \in Pruner

\* No two members share an id, a node or a data-plane index, although indices
\* are reused after a departure and stale copies are written back whole:
\* MemberByNodeID, MemberByID and the relay's lookup by index are unambiguous
\* (store.go:120-137; the code's SQLite schema has the index as a unique key).
UniqueIdentities ==
    \A a, b \in members :
        a.id = b.id \/ a.node = b.node \/ a.index = b.index => a = b

\* Exactly the member OwnerMemberID names has the owner's role, so after the
\* owner is removed nobody ever passes the owner check again
\* (memory.go:310-327 does not clear the field, service.go:443 reads the role).
OneOwner ==
    \A m \in members : m.role = "owner" <=> m.id = session.owner

\* Every recorded member has consumed a join, and the joins stay within the
\* limit however departures, rejoins and concurrent joins interleave
\* (memory.go:212, 254).
JoinsCounted ==
    /\ Cardinality(members) <= session.joinsUsed
    /\ JoinLimit > 0 => session.joinsUsed <= JoinLimit

\* A recorded connection belongs to one member and was drawn by a join: the
\* comparison in MarkOffline can never confuse two members' connections.
ConnectionsExclusive ==
    \A a, b \in members : Online(a) /\ a.conn = b.conn => a = b /\ a.conn <= drawn

\* Online members have no departure time and offline ones do, the denied
\* excepted: neither allIdle nor the grace period ever reckons from the zero
\* time (service.go:561, 585), stale write-backs included.
PresenceCoherent ==
    \A m \in members :
        /\ Online(m) => m.leaveAt = 0
        /\ ~Online(m) /\ m.status # "denied" => m.leaveAt # 0

\* A step that admits a new member finds the session open and not revoked, and
\* the seats suffice if the member is active at once, whatever happened since
\* Service.Join looked (store.go:7-9).
AdmissionPolicy ==
    [][\A b \in members' : b.id > issued =>
          /\ session.exists /\ ~session.closed /\ ~session.revoked
          /\ b.status = "active" /\ Seats > 0 =>
               Cardinality(ActiveMembers(members')) <= Seats]_vars

\* The service implements the promise of Membership.
Promise == INSTANCE Membership WITH
    roster <- {[id |-> m.id, node |-> m.node, index |-> m.index,
                role |-> m.role] : m \in members},
    spent  <- 1..issued
KeepsPromise == Promise!Spec

-----------------------------------------------------------------------------
\* What the repository says and the code does not keep.

\* "otherwise concurrent joins would exceed max_members": the seats are never
\* oversubscribed (store.go:7-9).
SeatsRespected ==
    Seats > 0 => Cardinality(ActiveMembers(members)) <= Seats

=============================================================================
