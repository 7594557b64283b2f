------------------------------- MODULE MCSync -------------------------------
(* A small instance of CabinetSync for TLC: one cabinet at work, one in reserve. *)
EXTENDS CabinetSync, TLC

CONSTANTS s1, s2, c1, c2, b1, b2

TwoAndOne == (c1 :> {1, 2}) @@ (c2 :> {1})
SomeSlots == (s1 :> {1, 2}) @@ (s2 :> {3})
FirstOnly == (c1 :> s1) @@ (c2 :> None)
OneInside == (c1 :> (1 :> b1 @@ 2 :> None)) @@ (c2 :> (1 :> None))
\* One cabinet and its station, without a slot to spare.
OneSlot == c1 :> {1}
OneLocalSlot == s1 :> {1}
Only == c1 :> s1
OneBattery == c1 :> (1 :> b1)
=============================================================================
