----------------------------- MODULE MCPortal ------------------------------
(* A small instance of Portal for TLC: an administrator and a partner. *)
EXTENDS Portal, TLC

CONSTANTS boss, host, p1, p2, v1, v2, s1, r1, a1

TwoRoles    == (boss :> "ADMIN") @@ (host :> "PARTNER_ADMIN")
TwoPartners == (boss :> None) @@ (host :> p1)

\* A venue each; the station stands in the partner's, or in the other with a rental going on.
Seed(p, open) ==
  [partners |-> [k \in Partners |-> None], grid |-> 0,
   venues   |-> (v1 :> [partner |-> p1, address |-> a1]) @@ (v2 :> [partner |-> p2, address |-> a1]),
   stations |-> s1 :> NewStation(p, IF p = p1 THEN v1 ELSE v2),
   rentals  |-> [r \in open |-> [station |-> s1, partner |-> p, rate |-> 1, state |-> "GOING"]],
   tickets  |-> [t \in {} |-> None]]
Seeds == {Seed(p1, {}), Seed(p2, {r1})}
=============================================================================
