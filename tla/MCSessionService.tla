-------------------------- MODULE MCSessionService --------------------------
(***************************************************************************)
(* SessionService for TLC: nodes and workers are model values and          *)
(* interchangeable, and the session is created under one of a few          *)
(* policies.                                                               *)
(***************************************************************************)
EXTENDS SessionService, TLC

\* The owner approves one more member at a time; or whoever comes first has the
\* seat, and only two ever join.
ApprovalOrRace ==
    {[approval |-> TRUE,  seats |-> 2, joins |-> 0],
     [approval |-> FALSE, seats |-> 1, joins |-> 2]}

TwoSeats == {[approval |-> FALSE, seats |-> 2, joins |-> 0]}

Symmetry == Permutations(Nodes) \cup Permutations(Workers)

=============================================================================
