----------------------------- MODULE Membership -----------------------------
(***************************************************************************)
(* What a session promises about identity, whatever happens below: a node  *)
(* is admitted under a member id never used before, on a data-plane index  *)
(* nobody holds, and keeps id, index and role until it is dismissed for    *)
(* good.  The first one ever admitted, and nobody else, is the owner.      *)
(* Peers address data frames by index and the server restores a returning  *)
(* node by its id, so both rest on this (storage/store.go:34-40).          *)
(***************************************************************************)
EXTENDS Naturals

CONSTANTS
    Nodes,     \* node identities
    MaxIndex   \* indices are 1..MaxIndex

VARIABLES
    roster,  \* who is in the session: [id, node, index, role]
    spent    \* member ids ever given out

Init == roster = {} /\ spent = {}

\* r joins the roster; which id it gets is left open.
Admit(r) ==
    /\ r.id \notin spent
    /\ r.node \in Nodes
    /\ r.index \in 1..MaxIndex
    /\ \A s \in roster : s.node # r.node /\ s.index # r.index
    /\ r.role = IF spent = {} THEN "owner" ELSE "member"
    /\ roster' = roster \cup {r}
    /\ spent' = spent \cup {r.id}

Dismiss(gone) ==
    /\ roster' = roster \ gone
    /\ UNCHANGED spent

Next ==
    \/ \E r \in roster' : Admit(r)
    \/ \E gone \in SUBSET roster : Dismiss(gone)

Spec == Init /\ [][Next]_<<roster, spent>>

=============================================================================
