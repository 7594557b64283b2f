------------------------------ MODULE MCRental ------------------------------
(* Small instances of RentalTransactions for TLC. *)
EXTENDS RentalTransactions, TLC

CONSTANTS r1, r2, c1, c2, b1, b2, sA, sB, x1, x2, x3

\* Station A has two slots, station B one; the third slot is free at the start.
TwoStations  == (x1 :> sA) @@ (x2 :> sA) @@ (x3 :> sB)
TwoBatteries == (x1 :> b1) @@ (x2 :> b2) @@ (x3 :> None)
OneBattery   == (x1 :> b1) @@ (x2 :> None) @@ (x3 :> None)
OneStation   == (x1 :> sA) @@ (x2 :> sA)
OneOfTwo     == (x1 :> b1) @@ (x2 :> None)
BothTaken    == (x1 :> b1) @@ (x2 :> b2)

\* Deadline one hour, deposit above the cap: every price, a late return and a loss fit the clock.
Standard == {[hourly |-> 1, cap |-> 2, deposit |-> 3, deadline |-> 1]}
Flat == {[hourly |-> 1, cap |-> 1, deposit |-> 2, deadline |-> 1]}
OldAndNew == Standard \cup {[hourly |-> 2, cap |-> 2, deposit |-> 2, deadline |-> 1]}

Symmetry == Permutations(RentalIds) \cup Permutations(Customers)
=============================================================================
