------------------------------ MODULE MCScreens ------------------------------
(* A small instance of StationScreens for TLC. *)
EXTENDS StationScreens, TLC

CONSTANTS s1, m1, m2, r1, r2, v1, v2, n1, n2, a1, a2

OneEach == (v1 :> a1) @@ (v2 :> a2)
Named   == (v1 :> n1) @@ (v2 :> n2)
\* The first venue may change its name, or its address.
Renamed == {<<v1, n2, a1>>, <<v1, n1, a2>>}
Rotations == (r1 :> 2) @@ (r2 :> 1)
First == (s1 :> v1)
ForAll == (m1 :> {}) @@ (m2 :> {})
\* One item goes off the air while the screens run, the other has no dates.
Closing == (m1 :> [from |-> None, until |-> 3]) @@ (m2 :> [from |-> None, until |-> None])
=============================================================================
