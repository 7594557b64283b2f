-------------------------------- MODULE Store --------------------------------
(***************************************************************************)
(* The two adapters of Repository.  PostgreSQL locks the row CoreRevision, *)
(* whose wait ends in a serialization failure when the holder committed;   *)
(* D1 writes a whole batch on condition that the revision is still the one *)
(* of the snapshot.  A lost race is retried, Attempts times in all.        *)
(***************************************************************************)
EXTENDS Naturals

CONSTANTS
  Clients, Ops, None,
  Databases,      \* what the database may hold at first
  Attempts,       \* five, in the code
  Accepts(_, _),  \* Accepts(op, d): the callback op does not throw on d, and validateData accepts
  Mutate(_, _)    \* Mutate(op, d): what it leaves of d
ASSUME AttemptsAssumption == Attempts \in Nat \ {0}
ASSUME NoneAssumption == None \notin Clients

VARIABLES
  backend,  \* "postgres" or "d1": the deployment's, for good
  data,     \* the rows
  version,  \* the revision
  lock,     \* the transaction that holds the row of the revision, or None
  tx        \* tx[c]: the transaction c asked for, how far it is, its snapshot and what c was told
vars == <<backend, data, version, lock, tx>>

Answers == {"ok", "refused", "conflict", "error"}
Transaction(op, attempt, phase, before, seen, told) ==
  [op |-> op, attempt |-> attempt, phase |-> phase, before |-> before, seen |-> seen, told |-> told]
Idle == Transaction(None, 0, "none", None, 0, "idle")
Asked(op, attempt) == Transaction(op, attempt, "asked", None, 0, "pending")
In(c, phase) == tx[c].phase = phase
To(c, record) == tx' = [tx EXCEPT ![c] = record]
Pending(c) == tx[c].told = "pending"
Unlocked(c) == IF lock = c THEN None ELSE lock

Ask(c, op) ==
  /\ ~Pending(c)
  /\ To(c, Asked(op, 1))
  /\ UNCHANGED <<backend, data, version, lock>>

\* What a transaction works on: all the tables and the revision, as of one instant.
Taken(c, phase) == Transaction(tx[c].op, tx[c].attempt, phase, data, version, "pending")
Tell(c, answer) == To(c, Transaction(tx[c].op, 0, "none", None, 0, answer))
\* PostgreSQL: the first statement, a FOR UPDATE that may have to wait, fixes the snapshot.
Load(c) ==
  /\ backend = "postgres" /\ In(c, "asked")
  /\ To(c, Taken(c, "waiting"))
  /\ UNCHANGED <<backend, data, version, lock>>
\* D1: one batch of SELECTs.  The callback and validateData run on it before anything is written.
Snapshot(c) ==
  /\ backend = "d1" /\ In(c, "asked")
  /\ IF Accepts(tx[c].op, data) THEN To(c, Taken(c, "read")) ELSE Tell(c, "refused")
  /\ UNCHANGED <<backend, data, version, lock>>

\* A conflict: the whole transaction again, or a 409 after the last attempt.
Retry(c) ==
  IF tx[c].attempt < Attempts
  THEN To(c, Asked(tx[c].op, tx[c].attempt + 1))
  ELSE Tell(c, "conflict")

\* Mutant: the batch is written whatever the revision has become.
Swaps(c) == TRUE
\* The revision is still the one of the snapshot.
Unchanged(c) == tx[c].seen = version
\* The holder committed, or not: the one that waited has a row newer than its snapshot, or the lock.
Lock(c) ==
  /\ backend = "postgres" /\ In(c, "waiting") /\ lock = None
  /\ IF Unchanged(c)
     THEN To(c, Taken(c, "locked")) /\ lock' = c
     ELSE Retry(c) /\ UNCHANGED lock
  /\ UNCHANGED <<backend, data, version>>

Throws(c) == ~Accepts(tx[c].op, tx[c].before)
Write(c) == data' = Mutate(tx[c].op, tx[c].before) /\ version' = version + 1
Keep == UNCHANGED <<data, version>>
\* PostgreSQL: the rows that differ are written, and the commit gives the row of the revision back.
Save(c) ==
  /\ backend = "postgres" /\ In(c, "locked")
  /\ IF Throws(c) THEN Keep /\ Tell(c, "refused") ELSE Write(c) /\ Tell(c, "ok")
  /\ lock' = None
  /\ UNCHANGED backend
\* D1: every statement of the batch is on condition that the revision was still this one.
CompareAndSwap(c) ==
  /\ backend = "d1" /\ In(c, "read")
  /\ IF Unchanged(c) THEN Write(c) /\ Tell(c, "ok") ELSE Keep /\ Retry(c)
  /\ UNCHANGED <<backend, lock>>

CanWrite(c) == \/ In(c, "locked") /\ ~Throws(c)
               \/ In(c, "read") /\ Unchanged(c)
\* The connection breaks: nothing was written, or all of it was and nobody is told.
Broken(c) ==
  /\ Pending(c)
  /\ Keep \/ (CanWrite(c) /\ Write(c))
  /\ Tell(c, "error")
  /\ lock' = Unlocked(c)
  /\ UNCHANGED backend
\* The caller goes on, or dies: PostgreSQL rolls back what it left open.
Leave(c) ==
  /\ To(c, Idle)
  /\ lock' = Unlocked(c)
  /\ UNCHANGED <<backend, data, version>>

Init ==
  /\ backend \in {"postgres", "d1"}
  /\ data \in Databases
  /\ version = 0 /\ lock = None
  /\ tx = [c \in Clients |-> Idle]
Steps(c) == Load(c) \/ Snapshot(c) \/ Lock(c) \/ Save(c) \/ CompareAndSwap(c)
Next == \E c \in Clients : (\E op \in Ops : Ask(c, op)) \/ Steps(c) \/ Broken(c) \/ Leave(c)
Spec == Init /\ [][Next]_vars

-----------------------------------------------------------------------------
(* The promise it keeps. *)

Calls == [c \in Clients |-> [op |-> tx[c].op, told |-> tx[c].told]]
Atomic == INSTANCE AtomicStore WITH call <- Calls
\* Every transaction takes effect whole, at one instant and at most once, whoever runs beside it,
\* and every caller is told the truth about it.
StoreIsAtomic == Atomic!Spec
=============================================================================
