----------------------------- MODULE MCAccounts -----------------------------
(* A small instance of Accounts for TLC. *)
EXTENDS Accounts, TLC

CONSTANTS owner, demo, partner, member, q1, q2, t1, t2, t3, k1

\* The owner is a real account, the others come from the demo seed or are created.
TheRoles == (owner :> "SUPER_ADMIN") @@ (demo :> "SUPER_ADMIN") @@ (member :> "PARTNER_ADMIN")
ThePartners == (owner :> None) @@ (demo :> None) @@ (member :> partner)

Symmetry == Permutations(Tokens) \cup Permutations(Requests)
=============================================================================
