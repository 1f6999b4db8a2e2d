------------------------------ MODULE HubCalls ------------------------------
(***************************************************************************)
(* The hub on its own: every order in which the server can call it for a   *)
(* session whose members are given.  Each id keeps the index it was given  *)
(* (Join sets it once); two ids may have the same one, the second member   *)
(* having joined after the first left, whose connections linger.           *)
(***************************************************************************)
EXTENDS Hub

CONSTANT IndexOf   \* the index of each id

ASSUME IndexOfConstant == IndexOf \in [Ids -> Indices]

HubNext ==
    \/ \E h \in Handlers, id \in Ids, kind \in Kinds, approved \in BOOLEAN :
         Open(h, id, IndexOf[id], kind, approved)
    \/ \E h \in Handlers : HandlerStep(h)
    \/ \E id \in Ids : \/ SetApproved(id, FALSE)
                       \/ MakeApproved(id, IndexOf[id])
                       \/ CloseMember(id)
    \/ CloseAll

HubSpec == HubInit /\ [][HubNext]_hubVars

=============================================================================
