----------------------------- MODULE AtomicStore -----------------------------
(***************************************************************************)
(* What the port Repository promises (core/repository.ts): a transaction   *)
(* is carried out whole, at one instant between the call and the answer,   *)
(* or not at all.  An "ok" tells that it was, "refused" that it could not  *)
(* be at some such instant, "conflict" that it was not; after an "error"   *)
(* the caller does not know.                                               *)
(***************************************************************************)
CONSTANTS
  Clients, Ops, None,
  Databases,      \* what the database may hold at first
  Accepts(_, _),  \* Accepts(op, d): the callback op does not throw on d, and validateData accepts
  Mutate(_, _)    \* Mutate(op, d): what it leaves of d

VARIABLES
  data,
  call  \* call[c]: the transaction c asked for and what it was told, "pending" until then
vars == <<data, call>>

Called(op, told) == [op |-> op, told |-> told]
Idle == Called(None, "idle")
Requests == {Called(op, "pending") : op \in Ops}
Pending(c) == call[c].told = "pending"
Tell(c, answer) == call' = [call EXCEPT ![c] = Called(call[c].op, answer)]

Ask(c) ==
  /\ ~Pending(c)
  /\ call'[c] \in Requests /\ call' = [call EXCEPT ![c] = call'[c]]
  /\ UNCHANGED data
\* An answer may be lost after the transaction was carried out.
Do(c) ==
  /\ Pending(c) /\ Accepts(call[c].op, data)
  /\ data' = Mutate(call[c].op, data)
  /\ \E answer \in {"ok", "error"} : Tell(c, answer)
Refuse(c) ==
  /\ Pending(c) /\ ~Accepts(call[c].op, data)
  /\ Tell(c, "refused") /\ UNCHANGED data
Fail(c) ==
  /\ Pending(c)
  /\ \E answer \in {"conflict", "error"} : Tell(c, answer)
  /\ UNCHANGED data
\* The caller goes on, or has died.
Return(c) == call' = [call EXCEPT ![c] = Idle] /\ UNCHANGED data

Init == data \in Databases /\ call = [c \in Clients |-> Idle]
Next == \E c \in Clients : Ask(c) \/ Do(c) \/ Refuse(c) \/ Fail(c) \/ Return(c)
Spec == Init /\ [][Next]_vars
=============================================================================
