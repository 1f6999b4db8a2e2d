------------------------ MODULE SessionServiceProofs ------------------------
(***************************************************************************)
(* Theorems about SessionService, for every set of nodes and workers and   *)
(* every value of the limits.                                              *)
(***************************************************************************)
EXTENDS SessionService, SessionStoreProofs, FiniteSetTheorems, FunctionTheorems, TLAPS

-----------------------------------------------------------------------------
\* Type correctness.

LEMMA JoinTypes ==
    ASSUME TypeOK, NEW n \in Nodes, NEW c \in Id, Join(n, c)
    PROVE  /\ now' \in Nat /\ session' \in Session
           /\ members' \subseteq Member /\ issued' \in Nat
  <1>1. CASE Rejoin(n, c)
    BY <1>1, MemberUpdates DEF Rejoin, TypeOK, MembersOfNode, Id
  <1>2. CASE JoinNew(n, c)
    <2>1. ASSUME NEW i \in FreeIndices
          PROVE  [id |-> issued + 1, node |-> n, index |-> i,
                  role |-> IF IsFirst THEN "owner" ELSE "member",
                  status |-> IF NeedsApproval THEN "pending" ELSE "active",
                  conn |-> c, leaveAt |-> 0] \in Member
      BY DEF Member, FreeIndices, Id, Roles, Statuses, TypeOK
    <2>2. members' \subseteq Member
      BY <1>2, <2>1 DEF JoinNew, TypeOK
    <2>3. session' \in Session
      <3>1. session' = [session EXCEPT !.joinsUsed = @ + 1,
                                       !.owner = IF IsFirst THEN issued + 1 ELSE @]
        BY <1>2 DEF JoinNew
      <3>2. session.joinsUsed + 1 \in Nat /\ issued + 1 \in Nat
        BY DEF TypeOK, Session
      <3>3. QED
        BY <3>1, <3>2 DEF TypeOK, Session
    <2>4. QED
      BY <1>2, <2>2, <2>3 DEF JoinNew, TypeOK
  <1>3. QED
    BY <1>1, <1>2 DEF Join

LEMMA StoreTypes ==
    ASSUME TypeOK, NEW r \in Member, NEW id \in Id, NEW c \in Nat,
           \/ UpdateMember(r) \/ RemoveMember(id) \/ MarkOffline(id, c)
           \/ Revoke \/ RotateToken \/ CloseSession \/ Delete
    PROVE  /\ now' \in Nat /\ session' \in Session
           /\ members' \subseteq Member /\ issued' \in Nat
  <1>1. CASE UpdateMember(r)
    BY <1>1 DEF UpdateMember, TypeOK
  <1>2. CASE RemoveMember(id)
    BY <1>2 DEF RemoveMember, TypeOK
  <1>3. CASE MarkOffline(id, c)
    BY <1>3, MemberUpdates DEF MarkOffline, TypeOK
  <1>4. CASE Revoke \/ RotateToken \/ CloseSession \/ Delete
    BY <1>4 DEF Revoke, RotateToken, CloseSession, Delete, TypeOK, Session
  <1>5. QED
    BY <1>1, <1>2, <1>3, <1>4

LEMMA TypeInit == Init => TypeOK
  BY StoreConstants DEF Init, StoreInit, TypeOK, Session, Idle, Asleep, Request, IdleReq,
         Pruner, NoMember


\* A request that starts is a request, and so is an idle worker.
LEMMA RequestTypes ==
    ASSUME TypeOK, NEW w \in Workers, NEW r \in Request, Begin(w, r) \/ Reply(w)
    PROVE  req' \in [Workers -> Request]
  <1>1. Idle \in Request
    BY DEF Idle, Request, IdleReq
  <1>2. QED
    BY <1>1 DEF Begin, Reply, TypeOK

LEMMA TypeNext == TypeOK /\ [Next]_vars => TypeOK'
  <1> SUFFICES ASSUME TypeOK, [Next]_vars PROVE TypeOK'
    OBVIOUS
  <1>1. ASSUME NEW w \in Workers, NEW n \in Nodes, JoinCheck(w, n)
        PROVE  TypeOK'
    <2>1. ConnId \in Id /\ drawn + 1 \in Nat
      BY DEF ConnId, Id, TypeOK
    <2>2. [op |-> "join", node |-> n, conn |-> ConnId] \in Request
      BY <2>1 DEF Request, JoinReq
    <2>3. QED
      BY <1>1, <2>1, <2>2, RequestTypes DEF JoinCheck, TypeOK, storeVars
  <1>2. ASSUME NEW w \in Workers, JoinCommit(w)
        PROVE  TypeOK'
    <2>1. req[w].node \in Nodes /\ req[w].conn \in Id
      BY <1>2 DEF JoinCommit, TypeOK, Request, IdleReq, JoinReq, WriteReq
    <2>2. req' \in [Workers -> Request]
      BY <1>2, RequestTypes DEF JoinCommit, Request, IdleReq, Idle, Reply, TypeOK
    <2>3. CASE Join(req[w].node, req[w].conn)
      BY <1>2, <2>1, <2>2, <2>3, JoinTypes DEF JoinCommit, TypeOK
    <2>4. CASE UNCHANGED storeVars
      BY <1>2, <2>2, <2>4 DEF JoinCommit, TypeOK, storeVars
    <2>5. QED
      BY <1>2, <2>3, <2>4 DEF JoinCommit
  <1>3. ASSUME NEW w \in Workers, NEW m \in members, NEW o \in members,
               \/ Touch(w, m) \/ UpdateCandidates(w, m)
               \/ Approve(w, o, m) \/ Reject(w, o, m)
        PROVE  TypeOK'
    <2>1. m \in Member
      BY DEF TypeOK
    <2>2. PICK x \in {m, Approved(m), Denied(m)} :
            Begin(w, [op |-> "write", rec |-> x])
      BY <1>3 DEF Touch, UpdateCandidates, Approve, Reject
    <2>3. x \in Member
      BY <2>1, <2>2, MemberUpdates
    <2>4. [op |-> "write", rec |-> x] \in Request
      BY <2>3 DEF Request, WriteReq
    <2>5. req' \in [Workers -> Request]
      BY <2>2, <2>4, RequestTypes
    <2>6. QED
      BY <1>3, <2>5 DEF Touch, UpdateCandidates, Approve, Reject, TypeOK, storeVars
  <1>4. ASSUME NEW w \in Workers, WriteBack(w)
        PROVE  TypeOK'
    <2>1. req[w].rec \in Member
      BY <1>4 DEF WriteBack, TypeOK, Request, IdleReq, JoinReq, WriteReq
    <2>2. req' \in [Workers -> Request]
      BY <1>4, RequestTypes DEF WriteBack, Request, IdleReq, Idle, Reply, TypeOK
    <2>3. CASE UpdateMember(req[w].rec)
      BY <1>4, <2>1, <2>2, <2>3 DEF UpdateMember, WriteBack, TypeOK
    <2>4. CASE UNCHANGED storeVars
      BY <1>4, <2>2, <2>4 DEF WriteBack, TypeOK, storeVars
    <2>5. QED
      BY <1>4, <2>3, <2>4 DEF WriteBack
  <1>5. ASSUME NEW m \in members, Leave(m.id) \/ Disconnect(m.id, m.conn)
        PROVE  TypeOK'
    <2>1. m \in Member /\ m.id \in Id /\ m.conn \in Nat
      BY DEF TypeOK, Member
    <2>2. QED
      BY <1>5, <2>1, StoreTypes DEF Leave, Disconnect, TypeOK
  <1>6. CASE RevokeToken \/ Rotate \/ Close \/ DeleteSession
    <2>1. Revoke \/ RotateToken \/ CloseSession \/ Delete
      BY <1>6 DEF RevokeToken, Rotate, Close, DeleteSession
    <2>2. /\ now' \in Nat /\ session' \in Session
          /\ members' \subseteq Member /\ issued' \in Nat
      BY <2>1 DEF Revoke, RotateToken, CloseSession, Delete, TypeOK, Session
    <2>3. UNCHANGED <<req, drawn, pruner>>
      BY <1>6 DEF RevokeToken, Rotate, Close, DeleteSession
    <2>4. QED
      BY <2>2, <2>3 DEF TypeOK
  <1>7. CASE PruneList
    <2>1. pruner' \in Pruner
      <3>1. {m.id : m \in {x \in members : Overdue(x)}} \subseteq Id
        BY DEF TypeOK, Member
      <3>2. QED
        BY <1>7, <3>1 DEF PruneList, Pruner
    <2>2. QED
      BY <1>7, <2>1 DEF PruneList, TypeOK, storeVars
  <1>8. CASE PruneDelete
    <2>1. pruner' \in Pruner /\ UNCHANGED <<req, drawn>>
      BY <1>8 DEF PruneDelete, Asleep, Pruner
    <2>2. CASE Delete
      BY <2>1, <2>2 DEF Delete, TypeOK, Session
    <2>3. CASE UNCHANGED storeVars
      BY <2>1, <2>3 DEF TypeOK, storeVars
    <2>4. QED
      BY <1>8, <2>2, <2>3 DEF PruneDelete
  <1>9. ASSUME NEW id \in pruner.victims, PruneMember(id)
        PROVE  TypeOK'
    <2>1. pruner' \in Pruner /\ UNCHANGED <<req, drawn>>
      BY <1>9 DEF PruneMember, TypeOK, Pruner
    <2>2. CASE RemoveMember(id)
      BY <2>1, <2>2 DEF RemoveMember, TypeOK
    <2>3. CASE UNCHANGED storeVars
      BY <2>1, <2>3 DEF TypeOK, storeVars
    <2>4. QED
      BY <1>9, <2>2, <2>3 DEF PruneMember
  <1>10. CASE PruneDone \/ Restart
    <2>1. Idle \in Request /\ Asleep \in Pruner
      BY DEF Idle, Request, IdleReq, Asleep, Pruner
    <2>2. QED
      BY <1>10, <2>1 DEF PruneDone, Restart, TypeOK, storeVars
  <1>11. CASE Tick
    BY <1>11 DEF Tick, TypeOK
  <1>12. CASE UNCHANGED vars
    BY <1>12 DEF vars, storeVars, TypeOK
  <1>13. QED
    BY <1>1, <1>2, <1>3, <1>4, <1>5, <1>6, <1>7, <1>8, <1>9, <1>10, <1>11,
       <1>12 DEF Next

\* Every variable keeps its type in every reachable state.
THEOREM TypeCorrect == Spec => []TypeOK
  BY TypeInit, TypeNext, PTL DEF Spec

-----------------------------------------------------------------------------
\* Identity.  Ids are drawn in order and the owner, if any, was drawn; above
\* all, a stale copy a worker still holds has the identity of the record it
\* would replace, which is what keeps the write-backs harmless here.

SameIdentity(a, b) ==
    a.id = b.id /\ a.node = b.node /\ a.index = b.index /\ a.role = b.role

CopiesAgree ==
    \A w \in Workers : req[w].op = "write" =>
        /\ req[w].rec.id <= issued
        /\ \A m \in members : m.id = req[w].rec.id => SameIdentity(m, req[w].rec)

IdentityInv ==
    /\ TypeOK
    /\ UniqueIdentities
    /\ OneOwner
    /\ \A m \in members : m.id <= issued
    /\ session.owner <= issued
    /\ session.owner = NoMember => issued = 0
    /\ CopiesAgree

\* A step that keeps every identity, or replaces one record by one of the same
\* identity, or loses members, and touches neither owner nor counters.
SessionKept ==
    /\ session'.policy = session.policy
    /\ session'.owner = session.owner
    /\ session'.joinsUsed = session.joinsUsed

Tame ==
    /\ SessionKept
    /\ issued' = issued
    /\ \A x \in members' : \E m \in members : SameIdentity(m, x)
    /\ \A x, y \in members' : x.id = y.id => x = y

\* The requests grow at most by a copy of a present member.
CopiesFollow ==
    \A w \in Workers : req'[w].op = "write" =>
        \/ req[w].op = "write" /\ req'[w].rec = req[w].rec
        \/ \E m \in members : SameIdentity(m, req'[w].rec)

LEMMA TameKeeps ==
    ASSUME IdentityInv, TypeOK', Tame, CopiesFollow
    PROVE  IdentityInv'
  <1>1. UniqueIdentities'
    <2>1. SUFFICES ASSUME NEW a \in members', NEW b \in members',
                          a.id = b.id \/ a.node = b.node \/ a.index = b.index
                   PROVE  a = b
      BY DEF UniqueIdentities
    <2>2. PICK m \in members : SameIdentity(m, a)
      BY DEF Tame
    <2>3. PICK n \in members : SameIdentity(n, b)
      BY DEF Tame
    <2>4. m = n
      BY <2>1, <2>2, <2>3 DEF SameIdentity, IdentityInv, UniqueIdentities
    <2>5. QED
      BY <2>2, <2>3, <2>4 DEF SameIdentity, Tame
  <1>2. OneOwner'
    BY DEF OneOwner, IdentityInv, Tame, SessionKept, SameIdentity
  <1>3. /\ \A m \in members' : m.id <= issued'
        /\ session'.owner <= issued'
        /\ session'.owner = NoMember => issued' = 0
    BY DEF IdentityInv, Tame, SessionKept, SameIdentity
  <1>4. CopiesAgree'
    <2>1. SUFFICES ASSUME NEW w \in Workers, req'[w].op = "write"
                   PROVE  /\ req'[w].rec.id <= issued
                          /\ \A x \in members' : x.id = req'[w].rec.id =>
                               SameIdentity(x, req'[w].rec)
      BY DEF CopiesAgree, Tame
    <2>2. \A x \in members' : \E m \in members : SameIdentity(m, x)
      BY DEF Tame
    <2>3. CASE req[w].op = "write" /\ req'[w].rec = req[w].rec
      BY <2>2, <2>3 DEF IdentityInv, CopiesAgree, SameIdentity
    <2>4. CASE \E m \in members : SameIdentity(m, req'[w].rec)
      BY <2>2, <2>4 DEF IdentityInv, UniqueIdentities, SameIdentity
    <2>5. QED
      BY <2>1, <2>3, <2>4 DEF CopiesFollow
  <1>5. QED
    BY <1>1, <1>2, <1>3, <1>4 DEF IdentityInv

LEMMA ReplaceIsTame ==
    ASSUME UniqueIdentities, SessionKept, issued' = issued,
           NEW m \in members, NEW x, SameIdentity(m, x),
           members' = (members \ {m}) \cup {x}
    PROVE  Tame
  BY DEF Tame, UniqueIdentities, SameIdentity

LEMMA LossIsTame ==
    ASSUME UniqueIdentities, SessionKept, issued' = issued,
           members' \subseteq members
    PROVE  Tame
  BY DEF Tame, UniqueIdentities, SameIdentity

LEMMA StoreIsTame ==
    ASSUME TypeOK, UniqueIdentities, NEW id, NEW c,
           \/ RemoveMember(id) \/ MarkOffline(id, c)
           \/ Revoke \/ RotateToken \/ CloseSession \/ Delete
           \/ UNCHANGED storeVars
    PROVE  Tame
  <1>1. CASE MarkOffline(id, c)
    <2>1. PICK m \in members : members' = (members \ {m}) \cup {Departed(m, now)}
      BY <1>1 DEF MarkOffline
    <2>2. SameIdentity(m, Departed(m, now))
      BY DEF SameIdentity, Departed, TypeOK, Member
    <2>3. QED
      BY <1>1, <2>1, <2>2, ReplaceIsTame DEF MarkOffline, SessionKept
  <1>2. CASE RemoveMember(id) \/ UNCHANGED storeVars
    BY <1>2, LossIsTame DEF RemoveMember, storeVars, SessionKept
  <1>3. CASE Revoke \/ RotateToken \/ CloseSession \/ Delete
    <2>1. SessionKept
      BY <1>3 DEF Revoke, RotateToken, CloseSession, Delete, TypeOK, Session, SessionKept
    <2>2. QED
      BY <1>3, <2>1, LossIsTame DEF Revoke, RotateToken, CloseSession, Delete
  <1>4. QED
    BY <1>1, <1>2, <1>3

\* A write-back replaces a record by one of the same identity, or finds none.
LEMMA WriteIsTame ==
    ASSUME IdentityInv, NEW w \in Workers, WriteBack(w)
    PROVE  Tame
  <1> DEFINE r == req[w].rec
  <1>1. CASE UpdateMember(r)
    <2>1. PICK m \in members : m.id = r.id
      BY <1>1 DEF UpdateMember
    <2>2. SameIdentity(m, r)
      BY <2>1 DEF WriteBack, IdentityInv, CopiesAgree
    <2>3. {y \in members : y.id # r.id} = members \ {m}
      BY <2>1 DEF IdentityInv, UniqueIdentities
    <2>4. QED
      BY <1>1, <2>2, <2>3, ReplaceIsTame DEF UpdateMember, IdentityInv, SessionKept
  <1>2. CASE UNCHANGED storeVars
    BY <1>2, LossIsTame DEF IdentityInv, storeVars, SessionKept
  <1>3. QED
    BY <1>1, <1>2 DEF WriteBack

LEMMA RejoinIsTame ==
    ASSUME IdentityInv, NEW n, NEW c, Rejoin(n, c)
    PROVE  Tame
  <1>1. PICK m \in members : members' = (members \ {m}) \cup {Reconnected(m, c)}
    BY DEF Rejoin, MembersOfNode
  <1>2. SameIdentity(m, Reconnected(m, c))
    BY DEF SameIdentity, Reconnected, IdentityInv, TypeOK, Member
  <1>3. QED
    BY <1>1, <1>2, ReplaceIsTame DEF Rejoin, IdentityInv, SessionKept

\* An admission keeps the invariant: the id is new, the index free, the node
\* unknown, and no copy in flight has the new id.
LEMMA AdmissionKeeps ==
    ASSUME IdentityInv, TypeOK', NEW w \in Workers, NEW n \in Nodes, NEW c,
           JoinNew(n, c), Reply(w)
    PROVE  IdentityInv'
  <1>1. PICK x : /\ members' = members \cup {x}
                 /\ x.id = issued + 1 /\ x.node = n /\ x.index \in FreeIndices
                 /\ x.role = IF IsFirst THEN "owner" ELSE "member"
    <2>1. PICK i \in FreeIndices :
            members' = members \cup
              {[id |-> issued + 1, node |-> n, index |-> i,
                role |-> IF IsFirst THEN "owner" ELSE "member",
                status |-> IF NeedsApproval THEN "pending" ELSE "active",
                conn |-> c, leaveAt |-> 0]}
      BY DEF JoinNew
    <2> DEFINE y == [id |-> issued + 1, node |-> n, index |-> i,
                     role |-> IF IsFirst THEN "owner" ELSE "member",
                     status |-> IF NeedsApproval THEN "pending" ELSE "active",
                     conn |-> c, leaveAt |-> 0]
    <2>2. /\ y.id = issued + 1 /\ y.node = n /\ y.index \in FreeIndices
          /\ y.role = IF IsFirst THEN "owner" ELSE "member"
      OBVIOUS
    <2>3. members' = members \cup {y}
      BY <2>1
    <2> HIDE DEF y
    <2>4. QED
      BY <2>2, <2>3
  <1>2. /\ session'.owner = IF IsFirst THEN issued + 1 ELSE session.owner
        /\ issued' = issued + 1
    BY DEF JoinNew, IdentityInv, TypeOK, Session
  <1>3. \A m \in members : m.id # x.id /\ m.node # x.node /\ m.index # x.index
    BY <1>1 DEF JoinNew, MembersOfNode, FreeIndices, IdentityInv, TypeOK, Member, Id
  <1>4. UniqueIdentities'
    BY <1>1, <1>3 DEF UniqueIdentities, IdentityInv
  <1>5. OneOwner'
    <2>1. CASE IsFirst
      <3>1. members = {}
        BY <2>1 DEF IsFirst, IdentityInv, TypeOK, Member, Id
      <3>2. QED
        BY <1>1, <1>2, <2>1, <3>1 DEF OneOwner
    <2>2. CASE ~IsFirst
      BY <1>1, <1>2, <1>3, <2>2 DEF OneOwner, IdentityInv, TypeOK, Session
    <2>3. QED
      BY <2>1, <2>2
  <1>6. /\ \A m \in members' : m.id <= issued'
        /\ session'.owner <= issued'
        /\ session'.owner = NoMember => issued' = 0
    BY <1>1, <1>2 DEF IsFirst, NoMember, IdentityInv, TypeOK, Session, Member, Id
  <1>7. CopiesAgree'
    <2>1. SUFFICES ASSUME NEW v \in Workers, req'[v].op = "write"
                   PROVE  /\ req'[v].rec.id <= issued'
                          /\ \A m \in members' : m.id = req'[v].rec.id =>
                               SameIdentity(m, req'[v].rec)
      BY DEF CopiesAgree
    <2>2. req[v].op = "write" /\ req'[v].rec = req[v].rec
      BY <2>1 DEF Reply, Idle, IdentityInv, TypeOK
    <2>3. req[v].rec \in Member
      BY <2>2 DEF IdentityInv, TypeOK, Request, IdleReq, JoinReq, WriteReq
    <2>4. QED
      BY <1>1, <1>2, <2>2, <2>3 DEF IdentityInv, CopiesAgree, TypeOK, Member, Id
  <1>8. QED
    BY <1>4, <1>5, <1>6, <1>7 DEF IdentityInv

\* Every step other than an admission is tame and lets the requests grow only
\* by copies of present members.
LEMMA StepIsTame ==
    ASSUME IdentityInv, [Next]_vars,
           ~ \E w \in Workers : JoinCommit(w) /\ JoinNew(req[w].node, req[w].conn)
    PROVE  Tame /\ CopiesFollow
  <1>u. UniqueIdentities /\ TypeOK
    BY DEF IdentityInv
  <1>1. ASSUME NEW w \in Workers, NEW n \in Nodes, JoinCheck(w, n)
        PROVE  Tame /\ CopiesFollow
    <2>1. Tame
      BY <1>u, <1>1, StoreIsTame DEF JoinCheck
    <2>2. req' = [req EXCEPT ![w] = [op |-> "join", node |-> n, conn |-> ConnId]]
      BY <1>1 DEF JoinCheck, Begin
    <2>3. QED
      BY <1>u, <2>1, <2>2 DEF CopiesFollow, TypeOK
  <1>2. ASSUME NEW w \in Workers, JoinCommit(w)
        PROVE  Tame /\ CopiesFollow
    <2>1. Rejoin(req[w].node, req[w].conn) \/ UNCHANGED storeVars
      BY <1>2 DEF JoinCommit, Join
    <2>2. Tame
      BY <1>u, <2>1, RejoinIsTame, StoreIsTame
    <2>3. QED
      BY <1>2, <1>u, <2>2 DEF JoinCommit, Reply, Idle, CopiesFollow, TypeOK
  <1>3. ASSUME NEW w \in Workers, NEW m \in members, NEW o \in members,
               \/ Touch(w, m) \/ UpdateCandidates(w, m)
               \/ Approve(w, o, m) \/ Reject(w, o, m)
        PROVE  Tame /\ CopiesFollow
    <2>1. Tame
      BY <1>u, <1>3, StoreIsTame DEF Touch, UpdateCandidates, Approve, Reject
    <2>2. PICK x \in {m, Approved(m), Denied(m)} :
            Begin(w, [op |-> "write", rec |-> x])
      BY <1>3 DEF Touch, UpdateCandidates, Approve, Reject
    <2>3. SameIdentity(m, x)
      BY <1>u DEF SameIdentity, Approved, Denied, TypeOK, Member
    <2>4. QED
      BY <1>u, <2>1, <2>2, <2>3 DEF Begin, CopiesFollow, TypeOK
  <1>4. ASSUME NEW w \in Workers, WriteBack(w)
        PROVE  Tame /\ CopiesFollow
    BY <1>4, <1>u, WriteIsTame DEF WriteBack, Reply, Idle, CopiesFollow, TypeOK
  <1>5. ASSUME UNCHANGED req,
               \/ \E id, c : RemoveMember(id) \/ MarkOffline(id, c)
               \/ Revoke \/ RotateToken \/ CloseSession \/ Delete
               \/ UNCHANGED storeVars
        PROVE  Tame /\ CopiesFollow
    BY <1>u, <1>5, StoreIsTame DEF CopiesFollow
  <1>6. ASSUME NEW m \in members, Leave(m.id) \/ Disconnect(m.id, m.conn)
        PROVE  Tame /\ CopiesFollow
    BY <1>5, <1>6 DEF Leave, Disconnect
  <1>7. CASE RevokeToken \/ Rotate \/ Close \/ DeleteSession
    BY <1>5, <1>7 DEF RevokeToken, Rotate, Close, DeleteSession
  <1>8. CASE PruneList \/ PruneDelete \/ PruneDone \/ UNCHANGED vars
    BY <1>5, <1>8 DEF PruneList, PruneDelete, PruneDone, vars
  <1>9. ASSUME NEW id \in pruner.victims, PruneMember(id)
        PROVE  Tame /\ CopiesFollow
    BY <1>5, <1>9 DEF PruneMember
  <1>10. CASE Tick
    BY <1>u, <1>10, LossIsTame DEF Tick, CopiesFollow, SessionKept
  <1>11. CASE Restart
    BY <1>u, <1>11, StoreIsTame DEF Restart, Idle, CopiesFollow
  <1>12. QED
    BY <1>1, <1>2, <1>3, <1>4, <1>6, <1>7, <1>8, <1>9, <1>10, <1>11 DEF Next

LEMMA IdentityInit == Init => IdentityInv
  <1> SUFFICES ASSUME Init PROVE IdentityInv
    OBVIOUS
  <1>1. members = {} /\ session.owner = NoMember /\ issued = 0
    BY DEF Init, StoreInit
  <1>2. \A w \in Workers : req[w].op # "write"
    BY DEF Init, Idle
  <1>3. QED
    BY <1>1, <1>2, TypeInit DEF IdentityInv, UniqueIdentities, OneOwner,
                                CopiesAgree, NoMember

LEMMA IdentityNext == IdentityInv /\ [Next]_vars => IdentityInv'
  <1> SUFFICES ASSUME IdentityInv, [Next]_vars PROVE IdentityInv'
    OBVIOUS
  <1>1. TypeOK'
    BY TypeNext DEF IdentityInv
  <1>2. CASE \E w \in Workers : JoinCommit(w) /\ JoinNew(req[w].node, req[w].conn)
    <2>1. PICK w \in Workers : JoinCommit(w) /\ JoinNew(req[w].node, req[w].conn)
      BY <1>2
    <2>2. req[w].node \in Nodes /\ Reply(w)
      BY <2>1 DEF JoinCommit, IdentityInv, TypeOK, Request, IdleReq, JoinReq, WriteReq
    <2>3. QED
      BY <1>1, <2>1, <2>2, AdmissionKeeps
  <1>3. CASE ~ \E w \in Workers : JoinCommit(w) /\ JoinNew(req[w].node, req[w].conn)
    BY <1>1, <1>3, StepIsTame, TameKeeps
  <1>4. QED
    BY <1>2, <1>3

\* Identities stay coherent, the stale copies of the workers included: the inductive
\* part of the theorems below.
THEOREM IdentityInvariant == Spec => []IdentityInv
  BY IdentityInit, IdentityNext, PTL DEF Spec

\* Ids, nodes and indices stay unique among the members.
THEOREM IdentitiesAreUnique == Spec => []UniqueIdentities
  <1>1. IdentityInv => UniqueIdentities
    BY DEF IdentityInv
  <1>2. QED
    BY IdentityInvariant, <1>1, PTL

\* The owner's role and OwnerMemberID agree.
THEOREM OwnerIsUnique == Spec => []OneOwner
  <1>1. IdentityInv => OneOwner
    BY DEF IdentityInv
  <1>2. QED
    BY IdentityInvariant, <1>1, PTL

-----------------------------------------------------------------------------
\* The service implements the promise: an admission is Admit, every other step
\* dismisses those whose identity is gone (nobody, for most steps).

Identity(m) == [id |-> m.id, node |-> m.node, index |-> m.index, role |-> m.role]
Roster == {Identity(m) : m \in members}

LEMMA SameIdentityIsIdentity ==
    ASSUME NEW a, NEW b, SameIdentity(a, b)
    PROVE  Identity(a) = Identity(b)
  BY DEF SameIdentity, Identity

LEMMA TameStepDismisses ==
    ASSUME Tame
    PROVE  \E gone \in SUBSET Roster :
             Roster' = Roster \ gone /\ 1..issued' = 1..issued
  <1>1. Roster' \subseteq Roster
    <2>1. SUFFICES ASSUME NEW x \in members' PROVE Identity(x) \in Roster
      BY DEF Roster
    <2>2. PICK m \in members : SameIdentity(m, x)
      BY DEF Tame
    <2>3. QED
      BY <2>2, SameIdentityIsIdentity DEF Roster
  <1>2. Roster' = Roster \ (Roster \ Roster')
    BY <1>1
  <1>3. QED
    BY <1>2 DEF Tame

LEMMA AdmissionAdmits ==
    ASSUME IdentityInv, NEW n \in Nodes, NEW c, JoinNew(n, c)
    PROVE  Promise!Next
  <1>1. PICK i \in FreeIndices :
          members' = members \cup
            {[id |-> issued + 1, node |-> n, index |-> i,
              role |-> IF IsFirst THEN "owner" ELSE "member",
              status |-> IF NeedsApproval THEN "pending" ELSE "active",
              conn |-> c, leaveAt |-> 0]}
    BY DEF JoinNew
  <1> DEFINE x == [id |-> issued + 1, node |-> n, index |-> i,
                   role |-> IF IsFirst THEN "owner" ELSE "member",
                   status |-> IF NeedsApproval THEN "pending" ELSE "active",
                   conn |-> c, leaveAt |-> 0]
             r == Identity(x)
  <1>2. /\ r.id = issued + 1 /\ r.node = n /\ r.index = i
        /\ r.role = IF IsFirst THEN "owner" ELSE "member"
    BY DEF Identity
  <1>3. Roster' = Roster \cup {r}
    BY <1>1 DEF Roster
  <1> HIDE DEF x, r
  <1>4. issued \in Nat /\ issued' = issued + 1 /\ 1..issued' = 1..issued \cup {r.id}
    BY <1>2 DEF JoinNew, IdentityInv, TypeOK
  <1>5. r.id \notin 1..issued
    BY <1>2, <1>4
  <1>6. r.index \in 1..MaxIndex
    BY <1>2 DEF FreeIndices
  <1>7. \A s \in Roster : s.node # r.node /\ s.index # r.index
    <2>1. \A m \in members : m.node # n /\ m.index # i
      BY DEF JoinNew, MembersOfNode, FreeIndices
    <2>2. QED
      BY <1>2, <2>1 DEF Roster, Identity
  <1>8. IsFirst <=> 1..issued = {}
    <2>1. IsFirst <=> issued = 0
      BY <1>4 DEF IsFirst, NoMember, IdentityInv, TypeOK, Session
    <2>2. QED
      BY <1>4, <2>1
  <1>9. Promise!Admit(r)
    BY <1>2, <1>3, <1>4, <1>5, <1>6, <1>7, <1>8
       DEF Promise!Admit, Roster, Identity
  <1>10. QED
    BY <1>3, <1>9 DEF Promise!Next, Promise!Admit, Roster, Identity

\* Every behaviour of the service is one of Membership.
THEOREM ServiceKeepsPromise == Spec => KeepsPromise
  <1>1. Init => Promise!Init
    <2>1. ASSUME Init PROVE Roster = {} /\ 1..issued = {}
      BY <2>1 DEF Init, StoreInit, Roster
    <2>2. QED
      BY <2>1 DEF Promise!Init, Roster, Identity
  <1>2. IdentityInv /\ [Next]_vars => [Promise!Next]_<<Roster, 1..issued>>
    <2> SUFFICES ASSUME IdentityInv, [Next]_vars
                 PROVE  Promise!Next
      OBVIOUS
    <2>1. ASSUME NEW w \in Workers, JoinCommit(w), JoinNew(req[w].node, req[w].conn)
          PROVE  Promise!Next
      <3>1. req[w].node \in Nodes
        BY <2>1 DEF JoinCommit, IdentityInv, TypeOK, Request, IdleReq, JoinReq, WriteReq
      <3>2. QED
        BY <2>1, <3>1, AdmissionAdmits
    <2>2. CASE Tame
      BY <2>2, TameStepDismisses
         DEF Promise!Next, Promise!Dismiss, Roster, Identity
    <2>3. QED
      BY <2>1, <2>2, StepIsTame
  <1>3. QED
    BY <1>1, <1>2, IdentityInvariant, PTL
       DEF Spec, KeepsPromise, Promise!Spec, Roster, Identity

-----------------------------------------------------------------------------
\* Joins and seats.  A tame step never has more members than before, because
\* identities tell records apart; the count needs the set to be finite.

JoinsInv == IsFiniteSet(members) /\ JoinsCounted

LEMMA TameNeverGrows ==
    ASSUME Tame, IsFiniteSet(members)
    PROVE  IsFiniteSet(members') /\ Cardinality(members') <= Cardinality(members)
  <1> DEFINE f == [x \in members' |-> CHOOSE m \in members : SameIdentity(m, x)]
  <1>1. \A x \in members' : f[x] \in members /\ SameIdentity(f[x], x)
    BY DEF Tame
  <1>2. f \in Injection(members', members)
    <2>1. f \in [members' -> members]
      BY <1>1
    <2>2. ASSUME NEW x \in members', NEW y \in members', f[x] = f[y]
          PROVE  x = y
      <3>1. x.id = y.id
        BY <1>1, <2>2 DEF SameIdentity
      <3>2. QED
        BY <3>1 DEF Tame
    <2>3. IsInjective(f)
      BY <2>2 DEF IsInjective
    <2>4. QED
      BY <2>1, <2>3 DEF Injection
  <1>3. QED
    BY <1>2, FS_Injection

\* What store.Join does for a node the session does not know: one member more,
\* whose status the policy decides, within the limits it has just compared.
LEMMA AdmissionGrows ==
    ASSUME TypeOK, IsFiniteSet(members), NEW n, NEW c, JoinNew(n, c)
    PROVE  \E x :
             /\ members' = members \cup {x}
             /\ x.id = issued + 1
             /\ x.status = IF NeedsApproval THEN "pending" ELSE "active"
             /\ IsFiniteSet(members')
             /\ Cardinality(members') <= Cardinality(members) + 1
             /\ session'.policy = session.policy
             /\ session'.joinsUsed = session.joinsUsed + 1
  <1>1. PICK i \in FreeIndices :
          members' = members \cup
            {[id |-> issued + 1, node |-> n, index |-> i,
              role |-> IF IsFirst THEN "owner" ELSE "member",
              status |-> IF NeedsApproval THEN "pending" ELSE "active",
              conn |-> c, leaveAt |-> 0]}
    BY DEF JoinNew
  <1> DEFINE x == [id |-> issued + 1, node |-> n, index |-> i,
                   role |-> IF IsFirst THEN "owner" ELSE "member",
                   status |-> IF NeedsApproval THEN "pending" ELSE "active",
                   conn |-> c, leaveAt |-> 0]
  <1>2. /\ members' = members \cup {x}
        /\ x.id = issued + 1
        /\ x.status = IF NeedsApproval THEN "pending" ELSE "active"
    BY <1>1
  <1> HIDE DEF x
  <1>3. IsFiniteSet(members') /\ Cardinality(members') <= Cardinality(members) + 1
    <2>1. Cardinality(members) \in Nat
      BY FS_CardinalityType
    <2>2. /\ IsFiniteSet(members \cup {x})
          /\ Cardinality(members \cup {x}) \in {Cardinality(members), Cardinality(members) + 1}
      BY FS_AddElement
    <2>3. QED
      BY <1>2, <2>1, <2>2
  <1>4. /\ session'.policy = session.policy
        /\ session'.joinsUsed = session.joinsUsed + 1
    BY DEF JoinNew, TypeOK, Session
  <1>5. QED
    BY <1>2, <1>3, <1>4

LEMMA JoinsNext == IdentityInv /\ JoinsInv /\ [Next]_vars => JoinsInv'
  <1> SUFFICES ASSUME IdentityInv, JoinsInv, [Next]_vars PROVE JoinsInv'
    OBVIOUS
  <1>1. /\ Cardinality(members) \in Nat /\ session.joinsUsed \in Nat
        /\ JoinLimit \in Nat
    BY FS_CardinalityType, StoreConstants
       DEF JoinsInv, IdentityInv, TypeOK, Session, JoinLimit, Policy
  <1>2. ASSUME NEW w \in Workers, JoinNew(req[w].node, req[w].conn)
        PROVE  JoinsInv'
    <2>1. ~LimitReached
      BY <1>2 DEF JoinNew, Refused
    <2>2. /\ IsFiniteSet(members') /\ Cardinality(members') <= Cardinality(members) + 1
          /\ session'.policy = session.policy
          /\ session'.joinsUsed = session.joinsUsed + 1
      BY <1>2, AdmissionGrows DEF IdentityInv, JoinsInv
    <2>3. Cardinality(members') \in Nat
      BY <2>2, FS_CardinalityType
    <2>4. QED
      BY <1>1, <2>1, <2>2, <2>3
         DEF LimitReached, JoinsInv, JoinsCounted, JoinLimit
  <1>3. CASE Tame
    <2>1. IsFiniteSet(members') /\ Cardinality(members') <= Cardinality(members)
      BY <1>3, TameNeverGrows DEF JoinsInv
    <2>2. Cardinality(members') \in Nat
      BY <2>1, FS_CardinalityType
    <2>3. QED
      BY <1>1, <1>3, <2>1, <2>2 DEF Tame, SessionKept, JoinsInv, JoinsCounted, JoinLimit
  <1>4. QED
    BY <1>2, <1>3, StepIsTame

LEMMA JoinsInvariant == Spec => []JoinsInv
  <1>1. Init => JoinsInv
    <2>1. ASSUME Init PROVE members = {} /\ session.joinsUsed = 0 /\ JoinLimit \in Nat
      BY <2>1, StoreConstants DEF Init, StoreInit, JoinLimit, Policy
    <2>2. QED
      BY <2>1, FS_EmptySet DEF JoinsInv, JoinsCounted
  <1>2. QED
    BY <1>1, JoinsNext, IdentityInvariant, PTL DEF Spec

\* Every member has consumed a join and the joins stay within the limit.
THEOREM JoinsAreCounted == Spec => []JoinsCounted
  <1>1. JoinsInv => JoinsCounted
    BY DEF JoinsInv
  <1>2. QED
    BY JoinsInvariant, <1>1, PTL

\* A member the store has not had before comes in by store.Join, which looks at
\* the session again: open, not revoked, and a seat if the member needs one.
Admitted ==
    \A b \in members' : b.id > issued =>
        /\ session.exists /\ ~session.closed /\ ~session.revoked
        /\ b.status = "active" /\ Seats > 0 =>
             Cardinality(ActiveMembers(members')) <= Seats

LEMMA AdmissionIsAdmitted ==
    ASSUME IdentityInv, IsFiniteSet(members), NEW w \in Workers,
           JoinCommit(w), JoinNew(req[w].node, req[w].conn)
    PROVE  Admitted
  <1>1. PICK x : /\ members' = members \cup {x}
                 /\ x.id = issued + 1
                 /\ x.status = IF NeedsApproval THEN "pending" ELSE "active"
    BY AdmissionGrows DEF IdentityInv
  <1>2. session.exists /\ ~session.closed /\ ~session.revoked
    <2>1. members # members'
      BY <1>1 DEF IdentityInv, TypeOK, Member, Id
    <2>2. ~Gone
      BY <2>1 DEF JoinCommit, Join, storeVars
    <2>3. QED
      BY <2>2 DEF Gone, JoinNew, Refused
  <1>3. ASSUME NEW b \in members', b.id > issued, b.status = "active", Seats > 0
        PROVE  Cardinality(ActiveMembers(members')) <= Seats
    <2>1. b = x
      BY <1>1, <1>3 DEF IdentityInv, TypeOK, Member, Id
    <2>2. ~Full
      BY <1>1, <1>3, <2>1 DEF JoinNew, Refused
    <2>3. IsFiniteSet(ActiveMembers(members))
      BY FS_Subset DEF ActiveMembers
    <2>4. Cardinality(ActiveMembers(members)) \in Nat
      BY <2>3, FS_CardinalityType
    <2>5. ActiveMembers(members') = ActiveMembers(members) \cup {x}
      BY <1>1, <1>3, <2>1 DEF ActiveMembers
    <2>6. Seats \in Nat
      BY StoreConstants DEF IdentityInv, TypeOK, Session, Seats, Policy
    <2>7. Cardinality(ActiveMembers(members) \cup {x}) \in
            {Cardinality(ActiveMembers(members)), Cardinality(ActiveMembers(members)) + 1}
      BY <2>3, FS_AddElement
    <2>8. QED
      BY <1>3, <2>2, <2>4, <2>5, <2>6, <2>7 DEF Full
  <1>4. QED
    BY <1>2, <1>3 DEF Admitted

\* No step admits a new node past the session's state or its seats.
THEOREM AdmissionFollowsPolicy == Spec => AdmissionPolicy
  <1>1. IdentityInv /\ JoinsInv /\ [Next]_vars => [Admitted]_vars
    <2> SUFFICES ASSUME IdentityInv, JoinsInv, [Next]_vars PROVE Admitted
      OBVIOUS
    <2>1. ASSUME Tame PROVE Admitted
      BY <2>1 DEF Tame, SameIdentity, Admitted, IdentityInv, TypeOK, Member, Id
    <2>2. QED
      BY <2>1, AdmissionIsAdmitted, StepIsTame DEF JoinsInv
  <1>2. QED
    BY <1>1, IdentityInvariant, JoinsInvariant, PTL DEF Spec, AdmissionPolicy, Admitted

-----------------------------------------------------------------------------
\* Connections and departure times.  A stale copy can bring back an old
\* connection of its member, never anybody else's: what is invariant speaks of
\* the records and the copies alike.

Writing(w) == req[w].op = "write"
Joining(w) == req[w].op = "join"

Records == members \cup {req[w].rec : w \in {v \in Workers : Writing(v)}}

\* A connection drawn is recorded for one member id, or waits in one request.
ConnectionsInv ==
    /\ \A a \in Records : a.conn <= drawn
    /\ \A a, b \in Records : Online(a) /\ a.conn = b.conn => a.id = b.id
    /\ \A w \in Workers : Joining(w) =>
         /\ req[w].conn <= drawn
         /\ \A a \in Records : a.conn # req[w].conn
         /\ \A v \in Workers : Joining(v) /\ req[v].conn = req[w].conn => v = w

Coherent(a) ==
    /\ Online(a) => a.leaveAt = 0
    /\ ~Online(a) /\ a.status # "denied" => a.leaveAt # 0

PresenceInv == now # 0 /\ \A a \in Records : Coherent(a)

\* What a step makes of a record without a join.
Derived(a) ==
    {a, Denied(a), Departed(a, now)} \cup
    (IF a.status = "pending" THEN {Approved(a)} ELSE {})

RecordsFollow == \A x \in Records' : \E a \in Records : x \in Derived(a)

LEMMA DerivedFacts ==
    ASSUME NEW a \in Member, NEW x \in Derived(a), now \in Nat
    PROVE  /\ x.id = a.id
           /\ x.conn = a.conn \/ x.conn = NoConn
           /\ now # 0 /\ Coherent(a) => Coherent(x)
  <1>1. CASE x = Denied(a)
    BY <1>1 DEF Denied, Member, Coherent, Online
  <1>2. CASE x = Departed(a, now)
    BY <1>2 DEF Departed, Member, Coherent, Online
  <1>3. CASE x = Approved(a) /\ a.status = "pending"
    BY <1>3 DEF Approved, Member, Coherent, Online
  <1>4. CASE x = a
    BY <1>4
  <1>5. QED
    BY <1>1, <1>2, <1>3, <1>4 DEF Derived

LEMMA RecordTypes == TypeOK => Records \subseteq Member
  BY DEF TypeOK, Records, Writing, Request, IdleReq, JoinReq, WriteReq

\* No request to join comes in or changes.
PendingFollow ==
    /\ drawn' = drawn
    /\ \A w \in Workers : Joining(w)' => Joining(w) /\ req'[w].conn = req[w].conn

LEMMA ConnectionsKept ==
    ASSUME TypeOK, ConnectionsInv, RecordsFollow, PendingFollow
    PROVE  ConnectionsInv'
  <1>1. \A x \in Records' : \E a \in Records :
          x.id = a.id /\ (x.conn = a.conn \/ x.conn = NoConn)
    BY RecordTypes, DerivedFacts DEF RecordsFollow, TypeOK
  <1>2. \A w \in Workers : Joining(w) => req[w].conn # NoConn
    BY DEF TypeOK, Joining, Request, IdleReq, JoinReq, WriteReq, Id, NoConn
  <1>3. drawn \in Nat
    BY DEF TypeOK
  <1>4. \A x \in Records' : x.conn <= drawn'
    BY <1>1, <1>3 DEF ConnectionsInv, PendingFollow, NoConn
  <1>5. \A x, y \in Records' : Online(x) /\ x.conn = y.conn => x.id = y.id
    BY <1>1 DEF ConnectionsInv, Online
  <1>6. ASSUME NEW w \in Workers, Joining(w)'
        PROVE  /\ req'[w].conn <= drawn'
               /\ \A x \in Records' : x.conn # req'[w].conn
               /\ \A v \in Workers : Joining(v)' /\ req'[v].conn = req'[w].conn => v = w
    BY <1>1, <1>2, <1>6 DEF ConnectionsInv, PendingFollow
  <1>7. QED
    BY <1>4, <1>5, <1>6 DEF ConnectionsInv, Online

LEMMA PresenceKept ==
    ASSUME TypeOK, PresenceInv, RecordsFollow, now' # 0
    PROVE  PresenceInv'
  <1>1. \A x \in Records' : Coherent(x)
    BY RecordTypes, DerivedFacts DEF RecordsFollow, TypeOK, PresenceInv
  <1>2. QED
    BY <1>1 DEF PresenceInv, Coherent, Online

\* The store's own operations, and a worker's copy.
LEMMA StoreFollows ==
    ASSUME TypeOK, NEW id, NEW c,
           \/ RemoveMember(id) \/ MarkOffline(id, c)
           \/ Revoke \/ RotateToken \/ CloseSession \/ Delete
           \/ UNCHANGED storeVars
    PROVE  /\ \A x \in members' : \E a \in members : x \in Derived(a)
           /\ now' = now
  <1>1. CASE MarkOffline(id, c)
    <2>1. PICK m \in members : members' = (members \ {m}) \cup {Departed(m, now)}
      BY <1>1 DEF MarkOffline
    <2>2. Departed(m, now) \in Derived(m) /\ \A a \in members : a \in Derived(a)
      BY DEF Derived
    <2>3. QED
      BY <1>1, <2>1, <2>2 DEF MarkOffline
  <1>2. CASE ~MarkOffline(id, c)
    <2>1. \A a \in members : a \in Derived(a)
      BY DEF Derived
    <2>2. members' \subseteq members /\ now' = now
      BY <1>2 DEF RemoveMember, Revoke, RotateToken, CloseSession, Delete, storeVars
    <2>3. QED
      BY <2>1, <2>2
  <1>3. QED
    BY <1>1, <1>2

LEMMA QuietFollows ==
    ASSUME \A x \in members' : \E a \in Records : x \in Derived(a),
           \A w \in Workers : Writing(w)' =>
             \/ Writing(w) /\ req'[w].rec = req[w].rec
             \/ \E a \in Records : req'[w].rec \in Derived(a)
    PROVE  RecordsFollow
  <1>1. SUFFICES ASSUME NEW x \in Records' PROVE \E a \in Records : x \in Derived(a)
    BY DEF RecordsFollow
  <1>2. CASE x \in members'
    BY <1>2
  <1>3. CASE \E w \in Workers : Writing(w)' /\ x = req'[w].rec
    <2>1. PICK w \in Workers : Writing(w)' /\ x = req'[w].rec
      BY <1>3
    <2>2. Writing(w) => req[w].rec \in Records /\ req[w].rec \in Derived(req[w].rec)
      BY DEF Records, Derived
    <2>3. QED
      BY <2>1, <2>2
  <1>4. QED
    BY <1>1, <1>2, <1>3 DEF Records

\* Every step but those of a join.
LEMMA StepFollows ==
    ASSUME TypeOK, [Next]_vars,
           ~ \E w \in Workers, n \in Nodes : JoinCheck(w, n),
           ~ \E w \in Workers : JoinCommit(w) /\ Join(req[w].node, req[w].conn)
    PROVE  RecordsFollow /\ PendingFollow /\ now' \in {now, now + 1}
  <1> DEFINE Goal == RecordsFollow /\ PendingFollow /\ now' \in {now, now + 1}
  <1>r. members \subseteq Records /\ \A a \in Records : a \in Derived(a)
    BY DEF Records, Derived
  <1>1. ASSUME NEW w \in Workers, Reply(w), drawn' = drawn, now' = now,
               \A x \in members' : \E a \in Records : x \in Derived(a)
        PROVE  Goal
    <2>1. \A v \in Workers : req'[v] = req[v] \/ req'[v].op = "idle"
      BY <1>1 DEF Reply, Idle, TypeOK
    <2>2. QED
      BY <1>1, <2>1, QuietFollows DEF Writing, Joining, PendingFollow
  <1>2. ASSUME NEW w \in Workers, JoinCommit(w)
        PROVE  Goal
    <2>1. UNCHANGED storeVars
      BY <1>2 DEF JoinCommit
    <2>2. QED
      BY <1>r, <1>1, <1>2, <2>1 DEF JoinCommit, storeVars
  <1>3. ASSUME NEW w \in Workers, WriteBack(w)
        PROVE  Goal
    <2>1. req[w].rec \in Records /\ now' = now
      BY <1>3 DEF WriteBack, Records, Writing, UpdateMember, storeVars
    <2>2. members' \subseteq Records
      BY <1>r, <1>3, <2>1 DEF WriteBack, UpdateMember, storeVars
    <2>3. QED
      BY <1>r, <1>1, <1>3, <2>1, <2>2 DEF WriteBack
  <1>4. ASSUME NEW w \in Workers, NEW m \in members, NEW o \in members,
               \/ Touch(w, m) \/ UpdateCandidates(w, m)
               \/ Approve(w, o, m) \/ Reject(w, o, m)
        PROVE  Goal
    <2>1. PICK x \in Derived(m) : Begin(w, [op |-> "write", rec |-> x])
      BY <1>4 DEF Touch, UpdateCandidates, Approve, Reject, Derived
    <2>2. \A v \in Workers : \/ req'[v] = req[v]
                             \/ req'[v] = [op |-> "write", rec |-> x]
      BY <2>1 DEF Begin, TypeOK
    <2>3. UNCHANGED <<storeVars, drawn>>
      BY <1>4 DEF Touch, UpdateCandidates, Approve, Reject
    <2>4. QED
      BY <1>r, <2>1, <2>2, <2>3, QuietFollows
         DEF Writing, Joining, PendingFollow, storeVars
  <1>5. ASSUME UNCHANGED <<req, drawn>>,
               \/ \E id, c : RemoveMember(id) \/ MarkOffline(id, c)
               \/ Revoke \/ RotateToken \/ CloseSession \/ Delete
               \/ UNCHANGED storeVars
        PROVE  Goal
    <2>1. (\A x \in members' : \E a \in members : x \in Derived(a)) /\ now' = now
      BY <1>5, StoreFollows
    <2>2. QED
      BY <1>r, <1>5, <2>1, QuietFollows DEF Writing, Joining, PendingFollow
  <1>6. ASSUME NEW m \in members, Leave(m.id) \/ Disconnect(m.id, m.conn)
        PROVE  Goal
    BY <1>5, <1>6 DEF Leave, Disconnect
  <1>7. CASE RevokeToken \/ Rotate \/ Close \/ DeleteSession
    BY <1>5, <1>7 DEF RevokeToken, Rotate, Close, DeleteSession
  <1>8. CASE PruneList \/ PruneDelete \/ PruneDone \/ UNCHANGED vars
    BY <1>5, <1>8 DEF PruneList, PruneDelete, PruneDone, vars
  <1>9. ASSUME NEW id \in pruner.victims, PruneMember(id)
        PROVE  Goal
    BY <1>5, <1>9 DEF PruneMember
  <1>10. CASE Tick
    <2>1. members' = members /\ UNCHANGED <<req, drawn>> /\ now' = now + 1
      BY <1>10 DEF Tick
    <2>2. QED
      BY <1>r, <2>1, QuietFollows DEF Writing, Joining, PendingFollow
  <1>11. CASE Restart
    <2>1. \A v \in Workers : req'[v].op = "idle"
      BY <1>11 DEF Restart, Idle
    <2>2. QED
      BY <1>r, <1>11, <2>1, QuietFollows
         DEF Restart, storeVars, Writing, Joining, PendingFollow
  <1>12. QED
    BY <1>2, <1>3, <1>4, <1>6, <1>7, <1>8, <1>9, <1>10, <1>11 DEF Next

\* A request to join waits with a connection nobody has had.
LEMMA CheckKeeps ==
    ASSUME TypeOK, ConnectionsInv, PresenceInv, NEW w \in Workers, NEW n \in Nodes,
           JoinCheck(w, n)
    PROVE  ConnectionsInv' /\ PresenceInv'
  <1>1. /\ drawn \in Nat /\ drawn' = drawn + 1
        /\ members' = members /\ now' = now
        /\ req' = [req EXCEPT ![w] = [op |-> "join", node |-> n, conn |-> drawn + 1]]
    BY DEF JoinCheck, ConnId, Begin, TypeOK, storeVars
  <1>2. Records' \subseteq Records
    BY <1>1 DEF Records, Writing, TypeOK
  <1>3. \A a \in Records : a.conn \in Nat
    BY RecordTypes DEF Member
  <1>4. \A v \in Workers : Joining(v) => req[v].conn \in Nat
    BY DEF TypeOK, Joining, Request, IdleReq, JoinReq, WriteReq, Id
  <1>5. \A v \in Workers :
          IF v = w THEN req'[v].conn = drawn + 1 ELSE req'[v] = req[v]
    BY <1>1 DEF TypeOK
  <1>6. PresenceInv'
    BY <1>1, <1>2 DEF PresenceInv, Coherent, Online
  <1>7. \A a \in Records' : a.conn <= drawn'
    BY <1>1, <1>2, <1>3 DEF ConnectionsInv
  <1>8. \A a, b \in Records' : Online(a) /\ a.conn = b.conn => a.id = b.id
    BY <1>2 DEF ConnectionsInv
  <1>9. ASSUME NEW v \in Workers, Joining(v)'
        PROVE  /\ req'[v].conn <= drawn'
               /\ \A a \in Records' : a.conn # req'[v].conn
               /\ \A u \in Workers : Joining(u)' /\ req'[u].conn = req'[v].conn => u = v
    BY <1>1, <1>2, <1>3, <1>4, <1>5, <1>9 DEF ConnectionsInv, Joining
  <1>10. QED
    BY <1>6, <1>7, <1>8, <1>9 DEF ConnectionsInv, Online

\* The connection passes from the request to one record, which is online.
LEMMA CommitKeeps ==
    ASSUME TypeOK, ConnectionsInv, PresenceInv, NEW w \in Workers,
           JoinCommit(w), Join(req[w].node, req[w].conn)
    PROVE  ConnectionsInv' /\ PresenceInv'
  <1> DEFINE c == req[w].conn
  <1>1. c \in Id /\ Joining(w)
    BY DEF JoinCommit, TypeOK, Joining, Request, IdleReq, JoinReq, WriteReq
  <1>2. PICK x : members' \subseteq members \cup {x} /\ x.conn = c /\ x.leaveAt = 0
    <2>1. CASE Rejoin(req[w].node, c)
      <3>1. PICK m \in members : members' = (members \ {m}) \cup {Reconnected(m, c)}
        BY <2>1 DEF Rejoin, MembersOfNode
      <3>2. Reconnected(m, c).conn = c /\ Reconnected(m, c).leaveAt = 0
        BY DEF Reconnected, TypeOK, Member
      <3>3. QED
        BY <3>1, <3>2
    <2>2. CASE JoinNew(req[w].node, c)
      <3>1. \E i :
              members' = members \cup
                {[id |-> issued + 1, node |-> req[w].node, index |-> i,
                  role |-> IF IsFirst THEN "owner" ELSE "member",
                  status |-> IF NeedsApproval THEN "pending" ELSE "active",
                  conn |-> c, leaveAt |-> 0]}
        BY <2>2 DEF JoinNew
      <3>2. PICK y :
              /\ \E i : y = [id |-> issued + 1, node |-> req[w].node, index |-> i,
                             role |-> IF IsFirst THEN "owner" ELSE "member",
                             status |-> IF NeedsApproval THEN "pending" ELSE "active",
                             conn |-> c, leaveAt |-> 0]
              /\ members' = members \cup {y}
        BY <3>1
      <3>3. QED
        BY <3>2
    <2>3. QED
      BY <2>1, <2>2 DEF Join
  <1> HIDE DEF c
  <1>3. /\ req' = [req EXCEPT ![w] = Idle]
        /\ drawn' = drawn /\ now' = now
    BY DEF JoinCommit, Reply, Join, Rejoin, JoinNew
  <1>4. \A v \in Workers : req'[v] = IF v = w THEN Idle ELSE req[v]
    BY <1>3 DEF TypeOK
  <1>5. Records' \subseteq Records \cup {x}
    BY <1>2, <1>4 DEF Records, Writing, Idle
  <1>6. /\ c <= drawn /\ c # NoConn
        /\ \A a \in Records : a.conn # c
        /\ \A v \in Workers : Joining(v) /\ req[v].conn = c => v = w
    BY <1>1 DEF ConnectionsInv, c, Id, NoConn
  <1>7. PresenceInv'
    BY <1>2, <1>3, <1>5, <1>6 DEF PresenceInv, Coherent, Online
  <1>8. \A a \in Records' : a.conn <= drawn'
    BY <1>2, <1>3, <1>5, <1>6 DEF ConnectionsInv
  <1>9. \A a, b \in Records' : Online(a) /\ a.conn = b.conn => a.id = b.id
    BY <1>2, <1>5, <1>6 DEF ConnectionsInv
  <1>10. ASSUME NEW v \in Workers, Joining(v)'
         PROVE  /\ req'[v].conn <= drawn'
                /\ \A a \in Records' : a.conn # req'[v].conn
                /\ \A u \in Workers : Joining(u)' /\ req'[u].conn = req'[v].conn => u = v
    <2>1. v # w /\ Joining(v) /\ req'[v] = req[v]
      BY <1>4, <1>10 DEF Joining, Idle
    <2>2. req[v].conn # c
      BY <1>6, <2>1
    <2>3. \A u \in Workers : Joining(u)' => Joining(u) /\ req'[u] = req[u]
      BY <1>4 DEF Joining, Idle
    <2>4. QED
      BY <1>2, <1>3, <1>5, <2>1, <2>2, <2>3 DEF ConnectionsInv
  <1>11. QED
    BY <1>7, <1>8, <1>9, <1>10 DEF ConnectionsInv, Online

RecordInv == ConnectionsInv /\ PresenceInv

LEMMA RecordsNext == TypeOK /\ RecordInv /\ [Next]_vars => RecordInv'
  <1> SUFFICES ASSUME TypeOK, RecordInv, [Next]_vars PROVE RecordInv'
    OBVIOUS
  <1>1. CASE \E w \in Workers, n \in Nodes : JoinCheck(w, n)
    BY <1>1, CheckKeeps DEF RecordInv
  <1>2. CASE \E w \in Workers : JoinCommit(w) /\ Join(req[w].node, req[w].conn)
    BY <1>2, CommitKeeps DEF RecordInv
  <1>3. CASE /\ ~ \E w \in Workers, n \in Nodes : JoinCheck(w, n)
             /\ ~ \E w \in Workers : JoinCommit(w) /\ Join(req[w].node, req[w].conn)
    <2>1. RecordsFollow /\ PendingFollow /\ now' \in {now, now + 1}
      BY <1>3, StepFollows
    <2>2. now' # 0
      BY <2>1 DEF RecordInv, PresenceInv, TypeOK
    <2>3. QED
      BY <2>1, <2>2, ConnectionsKept, PresenceKept DEF RecordInv
  <1>4. QED
    BY <1>1, <1>2, <1>3

LEMMA RecordsInvariant == Spec => []RecordInv
  <1>1. Init => RecordInv
    <2>1. ASSUME Init PROVE Records = {} /\ now = 1 /\ \A w \in Workers : ~Joining(w)
      BY <2>1 DEF Init, StoreInit, Records, Writing, Joining, Idle
    <2>2. QED
      BY <2>1 DEF RecordInv, ConnectionsInv, PresenceInv
  <1>2. QED
    BY <1>1, RecordsNext, TypeCorrect, PTL DEF Spec

\* A recorded connection is one member's alone and was drawn by a join.
THEOREM ConnectionsAreExclusive == Spec => []ConnectionsExclusive
  <1>1. IdentityInv /\ RecordInv => ConnectionsExclusive
    BY DEF RecordInv, ConnectionsInv, Records, IdentityInv, UniqueIdentities,
           ConnectionsExclusive
  <1>2. QED
    BY IdentityInvariant, RecordsInvariant, <1>1, PTL

\* Online and offline members have the departure time that goes with it.
THEOREM PresenceIsCoherent == Spec => []PresenceCoherent
  <1>1. RecordInv => PresenceCoherent
    BY DEF RecordInv, PresenceInv, Records, Coherent, PresenceCoherent
  <1>2. QED
    BY RecordsInvariant, <1>1, PTL

=============================================================================
