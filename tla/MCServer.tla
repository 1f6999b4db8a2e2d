------------------------------ MODULE MCServer ------------------------------
(***************************************************************************)
(* Server for TLC: nodes and handlers are interchangeable model values.    *)
(***************************************************************************)
EXTENDS Server, TLC

TwoSeats   == {[approval |-> TRUE, seats |-> 2, joins |-> 0]}
ThreeSeats == {[approval |-> TRUE, seats |-> 3, joins |-> 0]}

Symmetry == Permutations(Nodes) \cup Permutations(Handlers)

=============================================================================
