---------------------------- MODULE MCCoordinator ----------------------------
(* Small instances of StripeCoordinator for TLC. *)
EXTENDS StripeCoordinator, TLC

CONSTANTS r1, r2, c1, c2, b1, b2, sA, x1, x2, p1, p2

OneStation == (x1 :> sA) @@ (x2 :> sA)
OneOfTwo   == (x1 :> b1) @@ (x2 :> None)
BothTaken  == (x1 :> b1) @@ (x2 :> b2)

\* Deadline one hour, price below the deposit: a late return and a loss fit the clock.
Flat == {[hourly |-> 1, cap |-> 1, deposit |-> 2, deadline |-> 1]}

Symmetry == Permutations(Requests) \cup Permutations(RentalIds)
=============================================================================
