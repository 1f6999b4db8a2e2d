---------------------------- MODULE HubCallsProofs ----------------------------
(***************************************************************************)
(* What the hub keeps for any number of handlers, members and indices, in  *)
(* whatever order the server calls it.                                     *)
(***************************************************************************)
EXTENDS HubCalls, HubProofs

LEMMA CallsAreMoves ==
  HubNext => HubMove
  BY IndexOfConstant DEF HubNext, HubMove

LEMMA HubInvariant ==
  HubSpec => []HubInv
  <1>1. HubInv /\ [HubNext]_hubVars => HubInv'
    BY CallsAreMoves, HubKeeps
  <1> QED
    BY <1>1, HubStarts, PTL DEF HubSpec

\* Every reachable state of the hub is well typed: among others a nil
\* connection is never kicked and a handler's room is a room or nil.
THEOREM HubTypeCorrect == HubSpec => []HubTypeOK
  <1>1. HubInv => HubTypeOK
    BY DEF HubInv
  <1> QED
    BY <1>1, HubInvariant, PTL

\* The session's room stands only for connections whose handler will still
\* detach them from it, though Detach looks the room up again (hub.go:240-265).
THEOREM NobodyHaunts == HubSpec => []NoGhosts
  BY HubInvGivesNoGhosts, HubInvariant, PTL

\* A member has one entry in a room, never a deserted one, and a served
\* connection not told to close is the current one, in whatever order the old
\* and the new handler run (hub.go:9, 258).
THEOREM NewestIsServed == HubSpec => []NewestServes
  <1>1. HubInv => NewestServes
    BY DEF HubInv
  <1> QED
    BY <1>1, HubInvariant, PTL

\* The last handler leaves no room behind (hub.go:275).
THEOREM RoomsAreReclaimed == HubSpec => []RoomsReclaimed
  BY HubInvGivesReclaimed, HubInvariant, PTL

-----------------------------------------------------------------------------
\* byIndex.
IndexInv == HubInv /\ Indexed(IndexOf) /\ IndexFindsMember

LEMMA CallsKeepIndexed ==
  ASSUME IndexInv, HubNext
  PROVE  Indexed(IndexOf)'
  <1> SUFFICES ASSUME NEW id \in Ids, NEW i \in Indices, HubClaims(id, i)'
               PROVE  i = IndexOf[id]
    BY DEF Indexed
  <1>1. CASE HubClaims(id, i)
    BY <1>1 DEF IndexInv, Indexed
  <1>2. CASE ~HubClaims(id, i)
    <2>1. CASE \E h \in Handlers, x \in Ids, kind \in Kinds, approved \in BOOLEAN :
                 Open(h, x, IndexOf[x], kind, approved)
      BY <1>2, <2>1, IndexOfConstant, ClaimsOfHub DEF IndexInv
    <2>2. CASE \E x \in Ids : MakeApproved(x, IndexOf[x])
      BY <1>2, <2>2, IndexOfConstant, ClaimsOfHub DEF IndexInv
    <2>3. CASE \/ \E h \in Handlers : HandlerStep(h)
               \/ \E x \in Ids : SetApproved(x, FALSE) \/ CloseMember(x)
               \/ CloseAll
      BY <1>2, <2>3, ClaimsOfHub DEF IndexInv
    <2> QED
      BY <2>1, <2>2, <2>3 DEF HubNext
  <1> QED
    BY <1>1, <1>2

LEMMA CallsKeepFinding ==
  ASSUME IndexInv, HubNext
  PROVE  IndexFindsMember'
  <1>1. \/ rooms' = rooms
        \/ \E h \in Handlers : Attach(h) \/ Vacate(h)
        \/ \E id \in Ids : SetApproved(id, FALSE) \/ MakeApproved(id, IndexOf[id])
    BY DEF HubNext, HandlerStep, Open, Fetch, Replace, Hangup, FindRoom, Recheck, Drop, Hook,
         CloseMember, CloseAll
  <1> QED
    BY <1>1, CallsKeepIndex DEF IndexInv

\* byIndex leads from an index to the one member in the room that has it, though
\* an index passes to a new member while the old one lingers (hub.go:215, 267).
THEOREM IndexFindsItsMember == HubSpec => []IndexFindsMember
  <1>1. HubInit => Indexed(IndexOf) /\ IndexFindsMember
    BY DEF HubInit, Indexed, HubClaims, IndexFindsMember, Unused, Conn, Places
  <1>2. IndexInv /\ [HubNext]_hubVars => IndexInv'
    <2>1. IndexInv /\ HubNext => Indexed(IndexOf)' /\ IndexFindsMember'
      BY CallsKeepIndexed, CallsKeepFinding
    <2>2. IndexInv /\ UNCHANGED hubVars => Indexed(IndexOf)' /\ IndexFindsMember'
      BY DEF hubVars, IndexInv, Indexed, HubClaims, IndexFindsMember, InRoom
    <2>3. IndexInv /\ [HubNext]_hubVars => HubInv'
      BY CallsAreMoves, HubKeeps DEF IndexInv
    <2> QED
      BY <2>1, <2>2, <2>3 DEF IndexInv
  <1>3. IndexInv => IndexFindsMember
    BY DEF IndexInv
  <1> QED
    BY <1>1, <1>2, <1>3, HubStarts, PTL DEF HubSpec, IndexInv

=============================================================================
