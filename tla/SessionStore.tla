---------------------------- MODULE SessionStore ----------------------------
(***************************************************************************)
(* One session record of the storage layer (internal/storage): the record  *)
(* itself, its members, and the operations of the Store interface.  Every  *)
(* operation runs under the store's mutex (memory.go) or in one immediate  *)
(* transaction (sqlite.go), so each is one atomic step here; what callers  *)
(* do between two operations is in SessionService.                         *)
(*                                                                         *)
(* Abstracted: public keys, capabilities, candidates, JoinedAt and         *)
(* LastSeen (nothing the store or the service decides reads them), and the *)
(* token hash and join code, which only the snapshot check of Service.Join *)
(* compares.  Time is a number; 0 is Go's zero time.Time.  Random ids do   *)
(* not repeat and are only compared for equality, so the k-th one drawn is *)
(* the number k and 0 is the empty string.                                 *)
(***************************************************************************)
EXTENDS Integers, FiniteSets

CONSTANTS
    Nodes,     \* node identities (NodeID) that try to join
    Policies,  \* what a creator may ask for, see Policy
    MaxIndex,  \* largest data-plane index (65535 in the code)
    TTL        \* ExpiresAt, the session being created at time 1

\* RequireApproval, MaxMembers and JoinLimit (0 = unlimited) of the record, fixed
\* when the session is created.
Policy == [approval : BOOLEAN, seats : Nat, joins : Nat]

ASSUME StoreConstants ==
    /\ Policies \subseteq Policy
    /\ MaxIndex \in Nat \ {0}
    /\ TTL \in Nat

VARIABLES
    now,      \* the clock every operation reads
    session,  \* the session's own fields
    members,  \* its MemberRecords; the slice's order is never read
    issued    \* how many member ids were drawn

storeVars == <<now, session, members, issued>>

Roles    == {"owner", "member"}
Statuses == {"active", "pending", "denied"}

Id == Nat \ {0}

NoMember == 0   \* OwnerMemberID = ""
NoConn   == 0   \* ConnectionID = ""

Member ==
    [id : Id, node : Nodes, index : 1..MaxIndex, role : Roles,
     status : Statuses, conn : Nat, leaveAt : Nat]

Session ==
    [policy : Policies, exists : BOOLEAN, closed : BOOLEAN, revoked : BOOLEAN,
     owner : Nat, joinsUsed : Nat]

Seats == session.policy.seats
JoinLimit == session.policy.joins

-----------------------------------------------------------------------------
\* Queries on the record.  A definition named X_Y is X with the mistake Y in it:
\* the checks replace X by it to see that a property notices.

\* Strictly after: at the instant itself the session still lives.
Expired == now > TTL

Online(m) == m.conn # NoConn

ActiveMembers(ms) == {m \in ms : m.status = "active"}

MembersOfNode_NotDenied(n) == {m \in members : m.node = n /\ m.status # "denied"}
MembersOfNode(n) == {m \in members : m.node = n}

\* freeIndex returns the smallest index no member of any status holds; 0 is
\* the server.
FreeIndices_FromZero == (0..MaxIndex) \ {m.index : m \in members}
FreeIndices == (1..MaxIndex) \ {m.index : m \in members}
IsFreeIndex(i) == i \in FreeIndices /\ \A j \in FreeIndices : i <= j

\* The first joiner becomes the owner and needs nobody's approval.
IsFirst_OwnerOffline == \A m \in members : m.role = "owner" => ~Online(m)
IsFirst == session.owner = NoMember
NeedsApproval == session.policy.approval /\ ~IsFirst

\* The capacity test of Join; a pending member takes no place.
Full_OffByOne == Seats > 0 /\ Cardinality(ActiveMembers(members)) > Seats
Full == Seats > 0 /\ Cardinality(ActiveMembers(members)) >= Seats

LimitReached_OffByOne == JoinLimit > 0 /\ session.joinsUsed > JoinLimit
LimitReached == JoinLimit > 0 /\ session.joinsUsed >= JoinLimit

\* Join's early returns: those every caller meets, then those of a new node.
Gone == ~session.exists \/ session.closed
Refused ==
    \/ session.revoked
    \/ LimitReached
    \/ ~NeedsApproval /\ Full
    \/ FreeIndices = {}

-----------------------------------------------------------------------------
\* Operations.  Each is the successful outcome; an operation that returns an
\* error changes nothing.

\* Join, for a node that is still recorded: same id, index and role.  Neither
\* revocation, the join limit nor the capacity is consulted.
Reconnected_KeepsLeaveAt(m, c) == [m EXCEPT !.conn = c]
Reconnected(m, c) ==
    [m EXCEPT !.conn = c, !.leaveAt = 0,
              !.status = IF @ = "active" \/ ~session.policy.approval
                         THEN "active" ELSE "pending"]

Rejoin(n, c) ==
    /\ \E m \in MembersOfNode(n) :
         members' = (members \ {m}) \cup {Reconnected(m, c)}
    /\ UNCHANGED <<now, session, issued>>

\* Join, for a node the session does not know.
JoinNew(n, c) ==
    /\ MembersOfNode(n) = {}
    /\ ~Refused
    /\ \E i \in FreeIndices :
         /\ IsFreeIndex(i)
         /\ members' = members \cup
              {[id |-> issued + 1, node |-> n, index |-> i,
                role |-> IF IsFirst THEN "owner" ELSE "member",
                status |-> IF NeedsApproval THEN "pending" ELSE "active",
                conn |-> c, leaveAt |-> 0]}
    /\ session' = [session EXCEPT !.joinsUsed = @ + 1,
                                  !.owner = IF IsFirst THEN issued + 1 ELSE @]
    /\ issued' = issued + 1
    /\ UNCHANGED now

\* Expiry is not tested again: the caller passes the time it has already
\* compared with ExpiresAt, which never changes.
Join(n, c) == ~Gone /\ (Rejoin(n, c) \/ JoinNew(n, c))
JoinFails(n) == Gone \/ (MembersOfNode(n) = {} /\ Refused)

\* UpdateMember: the record passed in replaces the one with its id, whole.
UpdateMember_Upsert(r) ==
    /\ session.exists
    /\ members' = {m \in members : m.id # r.id} \cup {r}
    /\ UNCHANGED <<now, session, issued>>
UpdateMember(r) ==
    /\ session.exists
    /\ \E m \in members : m.id = r.id
    /\ members' = {m \in members : m.id # r.id} \cup {r}
    /\ UNCHANGED <<now, session, issued>>

\* RemoveMember leaves OwnerMemberID alone, also when the owner goes.
RemoveMember(id) ==
    /\ session.exists
    /\ \E m \in members : m.id = id
    /\ members' = {m \in members : m.id # id}
    /\ UNCHANGED <<now, session, issued>>

\* MarkOffline for the connection c; ErrConflict if the member has another one.
Departed_NoTime(m, t) == [m EXCEPT !.conn = NoConn]
Departed(m, t) == [m EXCEPT !.conn = NoConn, !.leaveAt = t]

MarkOffline_AnyConn(id, c) ==
    /\ session.exists
    /\ \E m \in members :
         /\ m.id = id
         /\ members' = (members \ {m}) \cup {Departed(m, now)}
    /\ UNCHANGED <<now, session, issued>>
MarkOffline(id, c) ==
    /\ session.exists
    /\ \E m \in members :
         /\ m.id = id
         /\ m.conn = c
         /\ members' = (members \ {m}) \cup {Departed(m, now)}
    /\ UNCHANGED <<now, session, issued>>

\* The records Service.Approve and Service.Reject write.
Approved(m) == [m EXCEPT !.status = "active"]
Denied(m) == [m EXCEPT !.status = "denied", !.conn = NoConn]

Revoke ==
    /\ session.exists
    /\ session' = [session EXCEPT !.revoked = TRUE]
    /\ UNCHANGED <<now, members, issued>>

\* RotateToken: a new hash and code (not modelled), and the revocation is lifted.
RotateToken ==
    /\ session.exists
    /\ session' = [session EXCEPT !.revoked = FALSE]
    /\ UNCHANGED <<now, members, issued>>

CloseSession ==
    /\ session.exists
    /\ session' = [session EXCEPT !.closed = TRUE]
    /\ UNCHANGED <<now, members, issued>>

\* Delete drops the record with everything in it.
Delete ==
    /\ session.exists
    /\ session' = [session EXCEPT !.exists = FALSE]
    /\ members' = {}
    /\ UNCHANGED <<now, issued>>

\* Create, with no member yet: the creator joins afterwards like anyone else.
StoreInit ==
    /\ now = 1
    /\ \E p \in Policies :
         session = [policy |-> p, exists |-> TRUE, closed |-> FALSE,
                    revoked |-> FALSE, owner |-> NoMember, joinsUsed |-> 0]
    /\ members = {}
    /\ issued = 0

=============================================================================
