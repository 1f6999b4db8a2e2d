-------------------------------- MODULE MCHub --------------------------------
(***************************************************************************)
(* HubCalls for TLC: handlers are interchangeable, all ids share an index. *)
(***************************************************************************)
EXTENDS HubCalls, TLC

SharedIndex == [id \in Ids |-> CHOOSE i \in Indices : TRUE]

Symmetry == Permutations(Handlers)

=============================================================================
