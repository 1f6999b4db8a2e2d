-------------------------- MODULE SessionStoreProofs --------------------------
(***************************************************************************)
(* Lemmas about the store's operations: what each makes of the record, for *)
(* the proofs about the callers.                                           *)
(***************************************************************************)
EXTENDS SessionStore, TLAPS

\* A record that Join, MarkOffline, Approve or Reject makes from a member is a
\* member record again.
LEMMA MemberUpdates ==
    ASSUME NEW m \in Member, NEW c \in Nat, NEW t \in Nat
    PROVE  /\ Reconnected(m, c) \in Member
           /\ Departed(m, t) \in Member
           /\ Approved(m) \in Member
           /\ Denied(m) \in Member
  BY StoreConstants DEF Member, Reconnected, Departed, Approved, Denied,
                        NoConn, Statuses

\* What is always true of the record when every operation is used on it as it
\* is: identities are unique and were drawn.
StoreOK ==
    /\ now \in Nat /\ session \in Session /\ members \subseteq Member /\ issued \in Nat
    /\ \A a, b \in members : a.id = b.id \/ a.node = b.node => a = b
    /\ \A m \in members : m.id <= issued
    /\ ~session.exists => members = {}

SameOwner(m, x) == x.id = m.id /\ x.node = m.node /\ x.index = m.index

LEMMA StoreStarts == StoreInit => StoreOK
  BY StoreConstants DEF StoreInit, StoreOK, Session, NoMember

\* Join puts one record in the place of those of the node, of which there is at
\* most one: the same member again or one just drawn.
LEMMA JoinEffect ==
    ASSUME StoreOK, NEW n \in Nodes, NEW c \in Id, Join(n, c)
    PROVE  \E x \in Member :
             /\ x.node = n /\ x.conn = c
             /\ members' = (members \ MembersOfNode(n)) \cup {x}
             /\ \/ /\ issued' = issued
                   /\ \E m \in MembersOfNode(n) : SameOwner(m, x)
                \/ /\ issued' = issued + 1 /\ x.id = issued + 1
                   /\ MembersOfNode(n) = {}
             /\ now' = now /\ session' \in Session /\ session'.exists
  <1> DEFINE Claim(x) ==
             /\ x.node = n /\ x.conn = c
             /\ members' = (members \ MembersOfNode(n)) \cup {x}
             /\ \/ /\ issued' = issued
                   /\ \E m \in MembersOfNode(n) : SameOwner(m, x)
                \/ /\ issued' = issued + 1 /\ x.id = issued + 1
                   /\ MembersOfNode(n) = {}
             /\ now' = now /\ session' \in Session /\ session'.exists
  <1>1. CASE Rejoin(n, c)
    <2>1. PICK m \in MembersOfNode(n) : members' = (members \ {m}) \cup {Reconnected(m, c)}
      BY <1>1 DEF Rejoin
    <2>2. m \in Member /\ m.node = n /\ MembersOfNode(n) = {m}
      BY DEF StoreOK, MembersOfNode
    <2>3. Reconnected(m, c) \in Member
      BY <2>2, MemberUpdates DEF Id
    <2>4. /\ Reconnected(m, c).node = n /\ Reconnected(m, c).conn = c
          /\ SameOwner(m, Reconnected(m, c))
      BY <2>2 DEF Reconnected, Member, SameOwner
    <2>5. session' = session /\ session.exists /\ now' = now /\ issued' = issued
      BY <1>1 DEF Rejoin, Join, Gone
    <2>6. Claim(Reconnected(m, c))
      BY <2>1, <2>2, <2>4, <2>5 DEF StoreOK
    <2> QED
      BY <2>3, <2>6
  <1>2. CASE JoinNew(n, c)
    <2>1. PICK i \in FreeIndices : members' = members \cup
              {[id |-> issued + 1, node |-> n, index |-> i,
                role |-> IF IsFirst THEN "owner" ELSE "member",
                status |-> IF NeedsApproval THEN "pending" ELSE "active",
                conn |-> c, leaveAt |-> 0]}
      BY <1>2 DEF JoinNew
    <2> DEFINE x == [id |-> issued + 1, node |-> n, index |-> i,
                     role |-> IF IsFirst THEN "owner" ELSE "member",
                     status |-> IF NeedsApproval THEN "pending" ELSE "active",
                     conn |-> c, leaveAt |-> 0]
    <2>2. x \in Member
      BY DEF Member, FreeIndices, Id, Roles, Statuses, StoreOK
    <2>3. x.node = n /\ x.conn = c /\ x.id = issued + 1
      OBVIOUS
    <2>4. session' \in Session /\ session'.exists
      <3>1. session' = [session EXCEPT !.joinsUsed = @ + 1,
                                       !.owner = IF IsFirst THEN issued + 1 ELSE @]
        BY <1>2 DEF JoinNew
      <3>2. session.joinsUsed + 1 \in Nat /\ issued + 1 \in Nat
        BY DEF StoreOK, Session
      <3> QED
        BY <3>1, <3>2 DEF StoreOK, Session, Join, Gone
    <2>5. MembersOfNode(n) = {} /\ issued' = issued + 1 /\ now' = now
      BY <1>2 DEF JoinNew
    <2>6. members' = (members \ MembersOfNode(n)) \cup {x}
      BY <2>1, <2>5
    <2> HIDE DEF x
    <2>7. Claim(x)
      BY <2>3, <2>4, <2>5, <2>6
    <2> QED
      BY <2>2, <2>7
  <1> QED
    BY <1>1, <1>2 DEF Join

LEMMA JoinKeepsStore ==
    ASSUME StoreOK, NEW n \in Nodes, NEW c \in Id, Join(n, c)
    PROVE  StoreOK'
  <1>1. PICK x \in Member :
             /\ x.node = n /\ x.conn = c
             /\ members' = (members \ MembersOfNode(n)) \cup {x}
             /\ \/ /\ issued' = issued
                   /\ \E m \in MembersOfNode(n) : SameOwner(m, x)
                \/ /\ issued' = issued + 1 /\ x.id = issued + 1
                   /\ MembersOfNode(n) = {}
             /\ now' = now /\ session' \in Session /\ session'.exists
    BY JoinEffect
  <1>2. \A m \in members' : m.id <= issued'
    BY <1>1 DEF StoreOK, MembersOfNode, SameOwner, Member, Id
  <1>3. \A m \in members : m.id = x.id \/ m.node = x.node => m \in MembersOfNode(n)
    BY <1>1 DEF StoreOK, MembersOfNode, SameOwner, Member, Id
  <1>4. \A a, b \in members' : a.id = b.id \/ a.node = b.node => a = b
    BY <1>1, <1>3 DEF StoreOK
  <1>5. members' \subseteq Member /\ issued' \in Nat
    BY <1>1 DEF StoreOK
  <1> QED
    BY <1>1, <1>2, <1>4, <1>5 DEF StoreOK

\* Removing, closing, revoking, rotating and deleting lose records and change none.
LEMMA LossKeepsStore ==
    ASSUME StoreOK, NEW id,
           RemoveMember(id) \/ Revoke \/ RotateToken \/ CloseSession \/ Delete
    PROVE  StoreOK' /\ members' \subseteq members /\ issued' = issued /\ now' = now
  <1>1. members' \subseteq members /\ issued' = issued /\ now' = now
    BY DEF RemoveMember, Revoke, RotateToken, CloseSession, Delete
  <1>2. session' \in Session /\ (~session'.exists => members' = {})
    BY DEF RemoveMember, Revoke, RotateToken, CloseSession, Delete, StoreOK, Session
  <1> QED
    BY <1>1, <1>2 DEF StoreOK

\* Writing a record back, or marking it offline, puts it in the place of the one
\* it was made from.
LEMMA UpdateEffect ==
    ASSUME StoreOK, NEW m \in members, NEW x \in Member, SameOwner(m, x), UpdateMember(x)
    PROVE  /\ members' = (members \ {m}) \cup {x}
           /\ session.exists /\ UNCHANGED <<now, session, issued>>
  BY DEF UpdateMember, StoreOK, SameOwner

LEMMA MarkOfflineEffect ==
    ASSUME StoreOK, NEW id, NEW c, MarkOffline(id, c)
    PROVE  /\ session.exists /\ UNCHANGED <<now, session, issued>>
           /\ \E m \in members :
                /\ m.id = id /\ m.conn = c
                /\ Departed(m, now) \in Member /\ SameOwner(m, Departed(m, now))
                /\ members' = (members \ {m}) \cup {Departed(m, now)}
  <1>1. PICK m \in members :
          /\ m.id = id /\ m.conn = c /\ members' = (members \ {m}) \cup {Departed(m, now)}
    BY DEF MarkOffline
  <1>2. m \in Member /\ now \in Nat /\ 0 \in Nat
    BY DEF StoreOK
  <1>3. Departed(m, now) \in Member
    BY <1>2, MemberUpdates
  <1>4. SameOwner(m, Departed(m, now))
    BY <1>2 DEF SameOwner, Departed, Member
  <1> QED
    BY <1>1, <1>3, <1>4 DEF MarkOffline

LEMMA ReplacementKeepsStore ==
    ASSUME StoreOK, NEW m \in members, NEW x \in Member, SameOwner(m, x), session.exists,
           members' = (members \ {m}) \cup {x}, UNCHANGED <<now, session, issued>>
    PROVE  StoreOK'
  BY DEF StoreOK, SameOwner

=============================================================================
